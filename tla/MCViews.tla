------------------------------- MODULE MCViews -------------------------------
(***************************************************************************)
(* A small instance of ViewCalls: an owner, an admin and another token on  *)
(* a database with two views, one of them private.                         *)
(***************************************************************************)
EXTENDS ViewProperties, TLC

CONSTANTS a, b, d, own, adm, oth, queue, inbox, lab, stat, v1, v2, bad, go, x1, x2

MCFilter(l, s) == [x \in {lab, stat} |-> IF x = lab THEN l ELSE s]

Go(effect) == [name |-> go, does |-> effect]

MCFirst ==
  <<[name |-> queue, owner |-> own, shared |-> TRUE, archived |-> FALSE,
     filter |-> MCFilter(v1, None), quick |-> {Go(x1)}],
    [name |-> inbox, owner |-> oth, shared |-> FALSE, archived |-> FALSE,
     filter |-> MCFilter(None, v2), quick |-> {}]>>

Input(filter) ==
  [name |-> queue, shared |-> TRUE, filter |-> filter, quick |-> {Go(x2)}]

Nothing ==
  [name |-> Keep, shared |-> Keep, archived |-> Keep, filter |-> Keep, quick |-> Keep]

Creating(who, as, filter) ==
  [kind |-> "create", who |-> who, as |-> as, in |-> Input(filter)]

Patching(kind, who, name, patch) ==
  [kind |-> kind, who |-> who, as |-> who, name |-> name, patch |-> patch]

Dropping(who, name, patch, drop) ==
  [kind |-> "cli", who |-> who, as |-> who, name |-> name, patch |-> patch,
   drop |-> drop]

Archive == [Nothing EXCEPT !.archived = TRUE]
Restore == [Nothing EXCEPT !.archived = FALSE]

MCRequests ==
  {Creating(oth, oth, MCFilter(v2, None)),
   Creating(oth, adm, MCFilter(v2, None)),
   Creating(own, own, MCFilter(bad, None)),
   Patching("patch", own, queue, Archive),
   Patching("patch", own, queue, Restore),
   Patching("patch", oth, inbox, [Nothing EXCEPT !.name = queue, !.shared = TRUE]),
   Dropping(adm, queue,
            [Nothing EXCEPT !.filter = MCFilter(None, v2), !.quick = {Go(x2)}], {lab}),
   Patching("form", own, queue, [Nothing EXCEPT !.shared = FALSE]),
   Patching("button", own, queue, Archive)}

\* Callers are alike: each may make any of the requests.
CallerSymmetry == Permutations(Callers)
=============================================================================
