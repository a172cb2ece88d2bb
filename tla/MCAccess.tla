------------------------------ MODULE MCAccess ------------------------------
(***************************************************************************)
(* A small instance of Access: one browser with two requests at a time,    *)
(* two tokens and two session ids, until the first session has run out.    *)
(***************************************************************************)
EXTENDS AccessProperties, TLC

CONSTANTS n1, n2, s1, s2, b1, r1, r2

OneJar == [r \in {r1, r2} |-> b1]

SessionSymmetry == Permutations(SessionIds) \cup Permutations(Requests)
                     \cup Permutations(TokenNames)
=============================================================================
