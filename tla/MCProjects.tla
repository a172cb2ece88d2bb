------------------------------ MODULE MCProjects ------------------------------
(***************************************************************************)
(* A small instance of ProjectStore: three names, two of which differ only *)
(* in case while the third slugifies to the numbered slug of the others,   *)
(* one group of two labels, and an import that brings all of it.           *)
(***************************************************************************)
EXTENDS ProjectProperties, TLC

CONSTANTS d1, t1, b1, ready, blocked

MCStatusType == ("Todo" :> "unstarted")

MCFold == ("GA" :> "ga")

MCFoldName == ("Site" :> "site") @@ ("site" :> "site") @@ ("Site 2" :> "site 2")

MCSlugOf == ("Site" :> "site") @@ ("site" :> "site") @@ ("Site 2" :> "site-2")

\* Bound: numbers from 2 to 4, as many as three names can use.
MCNumbered ==
  [base \in Projects \X (2..4) |->
     CASE base = <<"site", 2>> -> "site-2" [] base = <<"site", 3>> -> "site-3"
       [] base = <<"site-2", 2>> -> "site-2-2" [] OTHER -> "project"]

MCProjectStatuses == {"backlog", "planned", "completed"}

AnIssue ==
  [details |-> d1, description |-> << >>, status |-> "Todo", project |-> None,
   milestone |-> 0, parent |-> 0, labels |-> {}, startedAt |-> 0,
   completedAt |-> 0, canceledAt |-> 0, archivedAt |-> 0, version |-> 0]

Blank ==
  [details |-> d1, description |-> << >>, status |-> "Todo", project |-> None,
   milestone |-> None, parent |-> 0, labels |-> {}, idem |-> None]

MCNewIssues == {[Blank EXCEPT !.project = "site", !.labels = {ready, blocked}]}

Nothing ==
  [details |-> Keep, description |-> Keep, replace |-> FALSE, status |-> Keep,
   project |-> Keep, milestone |-> Keep, parent |-> Keep, labels |-> Keep,
   add |-> << >>, remove |-> {}, archived |-> Keep, expect |-> Keep]

MCPatches == {[Nothing EXCEPT !.project = "site-2"], [Nothing EXCEPT !.add = <<ready>>]}

NewBlank(name) ==
  [name |-> name, slug |-> None, details |-> d1, status |-> "backlog", labels |-> {}]

MCNewProjects ==
  {NewBlank(name) : name \in ProjectNames}
  \cup {[NewBlank("Site 2") EXCEPT !.slug = "site", !.status = "completed"],
        [NewBlank("Site 2") EXCEPT !.labels = {ready, blocked}]}

SameProject ==
  [name |-> Keep, details |-> Keep, status |-> Keep, archived |-> Keep,
   labels |-> Keep, add |-> << >>, remove |-> {}]

MCProjectPatches ==
  {[SameProject EXCEPT !.name = name] : name \in ProjectNames}
  \cup {[SameProject EXCEPT !.status = status] : status \in {"planned", "completed"}}
  \cup {[SameProject EXCEPT !.archived = a] : a \in BOOLEAN}
  \cup {[SameProject EXCEPT !.add = <<blocked>>],
        [SameProject EXCEPT !.labels = {ready}],
        [SameProject EXCEPT !.add = <<blocked, ready>>, !.remove = {blocked}]}

MCMilestonePatches == {[name |-> Keep, archived |-> TRUE]}

MCGroups == {{}, {{ready, blocked}}}

\* Two issues related on both sides, the second under a parent that the export
\* lacks, and a milestone that one of them cannot keep.
MCImports ==
  {[names |-> <<"Site", "site", "Site 2">>, details |-> d1,
    milestones |-> <<[of |-> 2, name |-> "GA"]>>,
    issues |-> <<[row |-> [AnIssue EXCEPT !.labels = {ready, blocked}, !.milestone = 1],
                  of |-> 2]>>,
    relations |-> {}],
   [names |-> <<"Site 2", "Site", "site">>, details |-> d1,
    milestones |-> <<[of |-> 1, name |-> "GA"]>>,
    issues |-> <<[row |-> [AnIssue EXCEPT !.labels = {ready}, !.milestone = 1], of |-> 0],
                 [row |-> [AnIssue EXCEPT !.parent = 3], of |-> 3]>>,
    relations |-> {[from |-> 1, type |-> "relates", to |-> 2],
                   [from |-> 2, type |-> "relates", to |-> 1]}]}
=============================================================================
