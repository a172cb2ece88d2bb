---------------------------- MODULE MCIssueStore ----------------------------
(***************************************************************************)
(* Small instances of IssueStore.  Each cfg picks one set of inputs: the   *)
(* operations of interest with the values that make them interact, so that *)
(* the bound on events leaves room for the interesting orders.             *)
(***************************************************************************)
EXTENDS IssueProperties

CONSTANTS d1, d2, t1, t2, b1, b2, p1, p2, ready, blocked, bug, i1

\* The statuses of migration 0001 that the stamps tell apart.
MCStatusType ==
  ("Todo" :> "unstarted") @@ ("InProgress" :> "started") @@ ("InReview" :> "started")
  @@ ("Done" :> "completed") @@ ("Canceled" :> "canceled")

AllStatuses == DOMAIN MCStatusType

\* Two names that differ only in case, and one that does not.
MCFold == ("Beta" :> "beta") @@ ("beta" :> "beta") @@ ("GA" :> "ga")

Blank ==
  [details |-> d1, description |-> << >>, status |-> "Todo", project |-> None,
   milestone |-> None, parent |-> 0, labels |-> {}, idem |-> None]

Nothing ==
  [details |-> Keep, description |-> Keep, replace |-> FALSE, status |-> Keep,
   project |-> Keep, milestone |-> Keep, parent |-> Keep, labels |-> Keep,
   add |-> << >>, remove |-> {}, archived |-> Keep, expect |-> Keep]

SetStatus(statuses) == {[Nothing EXCEPT !.status = s] : s \in statuses}

NoPatches == {}
NoNames == {}

-----------------------------------------------------------------------------
\* Histories: statuses, descriptions, archiving, conditional writes, comments.
TrailIssues ==
  {Blank, [Blank EXCEPT !.status = "Done", !.description = <<t1>>, !.idem = i1]}

TrailPatches ==
  SetStatus({"InProgress", "InReview", "Done", "Canceled"})
  \cup {[Nothing EXCEPT !.description = <<t2>>],
        [Nothing EXCEPT !.description = <<t1>>, !.replace = TRUE]}
  \cup {[Nothing EXCEPT !.archived = a] : a \in BOOLEAN}
  \cup {[Nothing EXCEPT !.details = d2, !.status = "Todo", !.expect = 1]}

-----------------------------------------------------------------------------
\* Structure: parents, projects and milestones, relations, and labels that are
\* replaced, added in order and removed while the groups are set.
PlaceIssues ==
  {Blank, [Blank EXCEPT !.project = p1, !.milestone = <<"name", "GA">>],
   [Blank EXCEPT !.parent = 1], [Blank EXCEPT !.labels = {ready, bug}]}

PlacePatches ==
  {[Nothing EXCEPT !.parent = k] : k \in 0..2}
  \cup {[Nothing EXCEPT !.project = p] : p \in {p2, None}}
  \cup {[Nothing EXCEPT !.milestone = m] : m \in {<<"id", 1>>, None}}
  \cup {[Nothing EXCEPT !.project = p2, !.milestone = <<"name", "GA">>]}

LabelPatches ==
  {[Nothing EXCEPT !.labels = {ready, blocked}],
   [Nothing EXCEPT !.add = <<blocked, ready>>],
   [Nothing EXCEPT !.add = <<ready, bug>>, !.remove = {blocked}]}

PlaceAndLabels == PlacePatches \cup LabelPatches

PlaceMilestones ==
  {[name |-> Keep, archived |-> a] : a \in BOOLEAN}

LabelGroups == {{{ready, blocked}}, {{ready, blocked}, {blocked, bug}}}
=============================================================================
