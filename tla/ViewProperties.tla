--------------------------- MODULE ViewProperties ---------------------------
(***************************************************************************)
(* What the views promise to the people who share them.                    *)
(***************************************************************************)
EXTENDS ViewCalls

ViewEvent ==
  [action: ViewActions, row: Nat, before: {None} \cup View, after: View]
  \cup [action: {"issue.updated"}, row: {0}, before: {None}, after: {None}]

\* The tables hold rows of their types.
StoreTypeOK == views \in Seq(View) /\ events \in Seq(ViewEvent)

\* A handler between its two look-ups remembers a row that exists.
Call(call) ==
  /\ call \in [at: {"sent", "checked", "answered"}, req: Requests, body: ViewPatch,
               row: Nat, attempt: 1..MaxAttempts]
  /\ call.req.kind # "create"
  /\ call.at = "checked" => call.row \in Rows
  /\ call.at = "answered" => call.attempt < MaxAttempts

CallsTypeOK ==
  /\ DOMAIN calls = Callers
  /\ \A c \in Callers : calls[c] \in {Idle, Over} \/ Call(calls[c])

\* And nobody has read further than there are events.
ViewTypeOK ==
  /\ StoreTypeOK
  /\ CallsTypeOK
  /\ \A who \in Consumers : feeds[who].cursor \in 0..Len(events)

\* However creates, renames, archivings and restores interleave, no two live
\* views share a name, so a name means at most one view (viewNameFree and the
\* unique index of migration 0005).
NamesUnique ==
  \A k, j \in Rows :
    views[k].name = views[j].name /\ ~views[k].archived /\ ~views[j].archived
      => k = j

Trail == INSTANCE AuditedRows WITH
  rows <- views, log <- events, NoRow <- None,
  Fields <- {"name", "owner", "shared", "archived", "filter", "quick"},
  Actions <- ViewActions

\* The events of a view, first to last, are its whole history: each starts
\* where the one before left the view, and the last one is the view as it is.
ViewsAudited == Trail!AuditTrail

\* Whoever presses a button is told that its action changed only if the view
\* is no longer as the page shows it: no view that others make, rename or
\* restore takes the name, and with it the buttons, of one that stays as it is
\* (uiIssueAction, visibleView).
RefusedOnlyIfChanged ==
  [][pressed # "refused" /\ pressed' = "refused" =>
       views[page.row] # page.view]_callVars

-----------------------------------------------------------------------------
\* The row a handler writes, and the row its first look-up let it change.
Wrote(c) ==
  calls[c].at = "checked" /\ calls'[c] # calls[c] /\ Len(events') > Len(events)

Written == events'[Len(events')].row

MayEdit(v, who) == who \in Admins \/ v.owner = who

\* A view is changed by its owner or an admin, except when the name the caller
\* was allowed to change the view of has gone to another view since: between
\* the look-ups of handlePatchView nothing else can turn the write elsewhere.
StrayOnlyByReuse ==
  [][\A c \in Callers : Wrote(c) =>
       LET seen == calls[c].row
       IN \/ Written = seen /\ MayEdit(views[seen], calls[c].req.who)
          \/ /\ Written # seen
             /\ views[seen].name # calls[c].req.name \/ views[seen].archived]_callVars

\* "Only the view's owner (the token that created it, or the actor it named)
\* or an admin token may PATCH it" (docs/API.md:75-76).
OnlyEditorsChange ==
  [][\A c \in Callers :
       Wrote(c) => MayEdit(views[Written], calls[c].req.who)]_callVars

-----------------------------------------------------------------------------
\* A page of the feed leaves out no event its reader may see: not between the
\* cursor and the new one, and if the page ends the walk, not after it either.
\* A private view's events cannot end a walk early (ListAllEvents).
WalkComplete ==
  [][\A who \in Consumers : feeds'[who] # feeds[who] =>
       \A n \in DOMAIN events :
         n > feeds[who].cursor
         /\ (n <= feeds'[who].cursor \/ feeds'[who].ended)
         /\ InFeed(n, who)
           => n \in feeds'[who].got]_callVars
=============================================================================
