----------------------------- MODULE MCIssueCalls -----------------------------
(***************************************************************************)
(* Small instances of IssueCalls: two callers, each with one call of its   *)
(* choice, on a database with one issue.  MaxEvents is more than all their *)
(* attempts can record.                                                    *)
(***************************************************************************)
EXTENDS IssueCallProperties

CONSTANTS d1, d2, t1, t2, b1, auto, i1, a, b

MCStatusType == ("Todo" :> "unstarted") @@ ("Done" :> "completed")

AllStatuses == DOMAIN MCStatusType

Blank ==
  [details |-> d1, description |-> << >>, status |-> "Todo", project |-> None,
   milestone |-> None, parent |-> 0, labels |-> {}, idem |-> None]

Written == [Blank EXCEPT !.description = <<t1>>]

Nothing ==
  [details |-> Keep, description |-> Keep, replace |-> FALSE, status |-> Keep,
   project |-> Keep, milestone |-> Keep, parent |-> Keep, labels |-> Keep,
   add |-> << >>, remove |-> {}, archived |-> Keep, expect |-> Keep]

Finish == [Nothing EXCEPT !.status = "Done"]
Reword == [Nothing EXCEPT !.details = d2]
Overwrite == [Nothing EXCEPT !.description = <<t2>>, !.replace = TRUE]

MCNewIssues ==
  {[Blank EXCEPT !.idem = i, !.labels = set] : i \in {None, i1}, set \in {{}, {auto}}}

NoNames == {}
MCFold == << >>

MCPatches ==
  {[p EXCEPT !.expect = v] :
     p \in {Finish, Reword, Overwrite}, v \in {Keep} \cup 0..MaxEvents}

PatchReq(p, conditional, admin) ==
  [kind |-> "patch", key |-> 1, patch |-> p, conditional |-> conditional,
   admin |-> admin]

SaveReq(text, p, conditional, admin) ==
  [kind |-> "save", key |-> 1, text |-> text, patch |-> p,
   conditional |-> conditional, admin |-> admin]

\* Updates of the one issue, conditional or not, overwrites with and without
\* an admin token, creates with and without a key, a keyed comment.
RequestList ==
  <<PatchReq(Finish, TRUE, FALSE),
    PatchReq(Overwrite, FALSE, TRUE),
    [kind |-> "batch", keys |-> <<1, 1>>, patch |-> Reword,
     conditional |-> TRUE, admin |-> FALSE],
    [kind |-> "append", key |-> 1, text |-> t2],
    SaveReq(None, Finish, TRUE, FALSE), SaveReq(t2, Overwrite, FALSE, FALSE),
    [kind |-> "form", key |-> 1, body |-> b1, patch |-> Finish],
    [kind |-> "create", in |-> [Blank EXCEPT !.idem = i1], admin |-> TRUE],
    [kind |-> "create", in |-> Blank, admin |-> FALSE],
    [kind |-> "comment", key |-> 1, body |-> b1, idem |-> i1]>>

CallRequests == {RequestList[i] : i \in DOMAIN RequestList}

\* Callers are alike, so of two requests it does not matter who sends which:
\* a has the one that is listed first.
InOrder ==
  calls[a] # Idle /\ calls[b] # Idle =>
    \E i \in DOMAIN RequestList : \E j \in i..Len(RequestList) :
      calls[a].req = RequestList[i] /\ calls[b].req = RequestList[j]

\* A save that appends and carries a version, beside a plain patch.
SaveRequests ==
  {SaveReq(t2, Finish, TRUE, FALSE), PatchReq(Reword, FALSE, FALSE)}
=============================================================================
