------------------------------ MODULE ViewStore ------------------------------
(***************************************************************************)
(* The views table of internal/store and the events table beside it.  A    *)
(* view is a named issue filter with an owner; archiving one frees its     *)
(* name, so callers who name a view may mean different rows at different   *)
(* times.  Every store method is one immediate transaction, hence one      *)
(* action; a method that returns an error rolls back and is no step.       *)
(*                                                                         *)
(* Data: names are trimmed, valid and without case, as NOCASE compares     *)
(* them.  A filter gives each of its fields a value or None; description   *)
(* and timestamps, which nothing here reads, are left out.  The effect of  *)
(* a quick action is a value, None when it changes nothing.                *)
(***************************************************************************)
EXTENDS Naturals, Sequences, FiniteSets

CONSTANTS
  Names,        \* view names
  Tokens,       \* token names, which own views
  FilterFields, \* fields of a filter
  Values,       \* what a filter field may ask for
  Known,        \* the values that name a label, a status, ... that exists
  Buttons,      \* names of quick actions
  Effects,      \* what a quick action does to an issue
  MaxQuick,     \* MaxQuickActions
  None,         \* a field without a value, the "before" of a created view
  Keep,         \* a field a patch leaves out
  First         \* the rows the database starts with, as they were created

VARIABLES
  views,  \* the views table, in id order
  events  \* the audit trail

storeVars == <<views, events>>

Filter == [FilterFields -> Values \cup {None}]

QuickAction == [name: Buttons, does: Effects \cup {None}]

View ==
  [name: Names, owner: Tokens, shared: BOOLEAN, archived: BOOLEAN,
   filter: Filter, quick: SUBSET QuickAction]

ViewInput ==
  [name: Names, shared: BOOLEAN, filter: Filter, quick: SUBSET QuickAction]

ViewPatch ==
  [name: {Keep} \cup Names, shared: {Keep} \cup BOOLEAN,
   archived: {Keep} \cup BOOLEAN, filter: {Keep} \cup Filter,
   quick: {Keep} \cup SUBSET QuickAction]

ViewActions == {"view.created", "view.updated", "view.archived", "view.restored"}

ASSUME KeepAssumption ==
  /\ Keep \notin Names /\ Keep \notin BOOLEAN /\ Keep \notin Filter
  /\ \A quick \in SUBSET QuickAction : Keep # quick
ASSUME NoneAssumption == None \notin View
ASSUME FirstAssumption ==
  /\ First \in Seq(View)
  /\ \A k \in DOMAIN First : ~First[k].archived
  /\ \A k, j \in DOMAIN First : First[k].name = First[j].name => k = j

-----------------------------------------------------------------------------
Rows == DOMAIN views

Named(name) == {k \in Rows : views[k].name = name}

\* Row j comes before row k for the name they share: live rows first, then
\* the youngest.
Shadows(j, k) ==
  IF views[j].archived = views[k].archived THEN j > k ELSE ~views[j].archived

\* The one row a name stands for, if there is one.
Found(name) == {k \in Named(name) : \A j \in Named(name) \ {k} : Shadows(k, j)}

\* Mutant: private views do not keep others from their names.
NameFreeAmongShared(name, except) ==
  \A k \in Named(name) \ {except} : views[k].archived \/ ~views[k].shared

\* No live row other than except carries the name: viewNameFree, and the
\* partial unique index under it.
NameFree(name, except) ==
  \A k \in Named(name) \ {except} : views[k].archived

FilterAllowed(f) ==
  /\ \E x \in FilterFields : f[x] # None
  /\ \A x \in FilterFields : f[x] \in Known \cup {None}

QuickAllowed(quick) ==
  /\ Cardinality(quick) <= MaxQuick
  /\ \A q \in quick : q.does # None
  /\ \A q, r \in quick : q.name = r.name => q = r

Pick(new, old) == IF new = Keep THEN old ELSE new

\* Row v after patch p.
Patched(v, p) ==
  [v EXCEPT !.name = Pick(p.name, @), !.shared = Pick(p.shared, @),
            !.archived = Pick(p.archived, @), !.filter = Pick(p.filter, @),
            !.quick = Pick(p.quick, @)]

Restores(v, p) == v.archived /\ p.archived = FALSE

\* Mutant: a rename does not ask for its name.
PatchAllowedAnyName(k, p) ==
  /\ p.filter # Keep => FilterAllowed(p.filter)
  /\ p.quick # Keep => QuickAllowed(p.quick)
  /\ Restores(views[k], p) => NameFree(views[k].name, k)

\* A new name must be free, and so must the name a restored view comes back
\* under.
PatchAllowed(k, p) ==
  /\ p.name # Keep => NameFree(p.name, k)
  /\ p.filter # Keep => FilterAllowed(p.filter)
  /\ p.quick # Keep => QuickAllowed(p.quick)
  /\ Restores(views[k], p) => NameFree(Pick(p.name, views[k].name), k)

ActionOf(v, p) ==
  CASE Restores(v, p)                       -> "view.restored"
    [] p.archived = TRUE /\ ~v.archived     -> "view.archived"
    [] OTHER                                -> "view.updated"

\* Mutant: an update that only shares or hides a view is not recorded.
RecordVisible(action, k, before, after) ==
  events' = IF before = None \/ before # [after EXCEPT !.shared = before.shared]
              THEN Append(events, [action |-> action, row |-> k,
                                   before |-> before, after |-> after])
              ELSE events

Record(action, k, before, after) ==
  events' = Append(events, [action |-> action, row |-> k,
                            before |-> before, after |-> after])

-----------------------------------------------------------------------------
CreateView(in, owner) ==
  /\ FilterAllowed(in.filter)
  /\ QuickAllowed(in.quick)
  /\ NameFree(in.name, 0)
  /\ LET view == [name |-> in.name, owner |-> owner, shared |-> in.shared,
                  archived |-> FALSE, filter |-> in.filter, quick |-> in.quick]
     IN /\ views' = Append(views, view)
        /\ Record("view.created", Len(views) + 1, None, view)

UpdateView(name, p) ==
  \E k \in Found(name) :
    /\ PatchAllowed(k, p)
    /\ views' = [views EXCEPT ![k] = Patched(@, p)]
    /\ Record(ActionOf(views[k], p), k, views[k], Patched(views[k], p))

\* Any other write of the store: issues, projects, settings.
OtherWrite ==
  /\ UNCHANGED views
  /\ Record("issue.updated", 0, None, None)

Init ==
  /\ views = First
  /\ events = [k \in DOMAIN First |->
       [action |-> "view.created", row |-> k, before |-> None, after |-> First[k]]]

Next ==
  \/ \E in \in ViewInput, owner \in Tokens : CreateView(in, owner)
  \/ \E name \in Names, p \in ViewPatch : UpdateView(name, p)
  \/ OtherWrite

StoreSpec == Init /\ [][Next]_storeVars
=============================================================================
