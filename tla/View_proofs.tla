------------------------------ MODULE View_proofs ------------------------------
(***************************************************************************)
(* Proofs about the views, for any number of callers, names, fields and    *)
(* views.  First the table, whatever the transactions come from; then the  *)
(* callers, who do nothing to the table but such transactions.             *)
(***************************************************************************)
EXTENDS ViewProperties, FiniteSetTheorems, WellFoundedInduction, TLAPS

-----------------------------------------------------------------------------
(***************************************************************************)
(* The table.                                                              *)
(***************************************************************************)
LEMMA PickType ==
  ASSUME NEW S, NEW new \in {Keep} \cup S, NEW old \in S
  PROVE  Pick(new, old) \in S
  BY DEF Pick

LEMMA PatchedType ==
  ASSUME NEW v \in View, NEW p \in ViewPatch
  PROVE  /\ Patched(v, p) \in View
         /\ Patched(v, p).owner = v.owner
         /\ Patched(v, p).name = Pick(p.name, v.name)
         /\ Patched(v, p).archived = Pick(p.archived, v.archived)
  <1>1. /\ Pick(p.name, v.name) \in Names
        /\ Pick(p.shared, v.shared) \in BOOLEAN
        /\ Pick(p.archived, v.archived) \in BOOLEAN
        /\ Pick(p.filter, v.filter) \in Filter
        /\ Pick(p.quick, v.quick) \in SUBSET QuickAction
    BY DEF Pick, View, ViewPatch
  <1> QED
    BY <1>1 DEF Patched, View

LEMMA RecordedType ==
  ASSUME StoreTypeOK, NEW e \in ViewEvent, events' = Append(events, e)
  PROVE  events' \in Seq(ViewEvent)
  BY DEF StoreTypeOK

LEMMA CreatedView ==
  ASSUME StoreTypeOK, NEW in \in ViewInput, NEW owner \in Tokens, CreateView(in, owner)
  PROVE  \E view \in View :
           /\ view.name = in.name /\ ~view.archived
           /\ views' = Append(views, view)
           /\ Record("view.created", Len(views) + 1, None, view)
  <1> DEFINE view == [name |-> in.name, owner |-> owner, shared |-> in.shared,
                      archived |-> FALSE, filter |-> in.filter, quick |-> in.quick]
  <1>1. view \in View /\ view.name = in.name /\ ~view.archived
    BY DEF ViewInput, View
  <1>2. /\ views' = Append(views, view)
        /\ Record("view.created", Len(views) + 1, None, view)
    BY DEF CreateView
  <1> QED
    BY <1>1, <1>2

LEMMA UpdatedView ==
  ASSUME StoreTypeOK, NEW p \in ViewPatch, NEW k \in Rows
  PROVE  /\ k \in Nat /\ views[k] \in View /\ Patched(views[k], p) \in View
         /\ ActionOf(views[k], p) \in ViewActions
  <1>1. k \in Nat /\ views[k] \in View
    BY DEF StoreTypeOK, Rows
  <1>2. ActionOf(views[k], p) \in ViewActions
    BY DEF ActionOf, ViewActions
  <1> QED
    BY <1>1, <1>2, PatchedType

LEMMA StoreType == StoreTypeOK /\ [Next]_storeVars => StoreTypeOK'
  <1> SUFFICES ASSUME StoreTypeOK, [Next]_storeVars
               PROVE  StoreTypeOK'
    OBVIOUS
  <1>1. ASSUME NEW in \in ViewInput, NEW owner \in Tokens, CreateView(in, owner)
        PROVE  StoreTypeOK'
    <2>1. PICK view \in View :
            /\ views' = Append(views, view)
            /\ Record("view.created", Len(views) + 1, None, view)
      BY <1>1, CreatedView
    <2>2. Len(views) + 1 \in Nat
      BY DEF StoreTypeOK
    <2>3. events' \in Seq(ViewEvent)
      BY <2>1, <2>2, RecordedType DEF Record, ViewEvent, ViewActions
    <2> QED
      BY <2>1, <2>3 DEF StoreTypeOK
  <1>2. ASSUME NEW name \in Names, NEW p \in ViewPatch, UpdateView(name, p)
        PROVE  StoreTypeOK'
    <2>1. PICK k \in Rows :
            /\ views' = [views EXCEPT ![k] = Patched(@, p)]
            /\ Record(ActionOf(views[k], p), k, views[k], Patched(views[k], p))
      BY <1>2 DEF UpdateView, Found, Named
    <2>2. events' \in Seq(ViewEvent)
      BY <2>1, UpdatedView, RecordedType DEF Record, ViewEvent
    <2> QED
      BY <2>1, <2>2, UpdatedView DEF StoreTypeOK, Rows
  <1>3. CASE OtherWrite
    BY <1>3, RecordedType DEF OtherWrite, Record, ViewEvent, StoreTypeOK
  <1>4. CASE UNCHANGED storeVars
    BY <1>4 DEF storeVars, StoreTypeOK
  <1> QED
    BY <1>1, <1>2, <1>3, <1>4 DEF Next

LEMMA InitStore == Init => StoreTypeOK /\ NamesUnique
  <1> SUFFICES ASSUME Init PROVE StoreTypeOK /\ NamesUnique
    OBVIOUS
  <1>1. views \in Seq(View) /\ views = First
    BY FirstAssumption DEF Init
  <1>2. Len(First) \in Nat /\ DOMAIN First = 1..Len(First)
    BY FirstAssumption
  <1>3. \A k \in DOMAIN First :
          [action |-> "view.created", row |-> k, before |-> None, after |-> First[k]]
            \in ViewEvent
    BY <1>2, FirstAssumption DEF ViewEvent, ViewActions
  <1>4. events \in Seq(ViewEvent)
    BY <1>2, <1>3 DEF Init
  <1>5. NamesUnique
    BY <1>1, FirstAssumption DEF NamesUnique, Rows
  <1> QED
    BY <1>1, <1>4, <1>5 DEF StoreTypeOK

LEMMA StoreUnique == StoreTypeOK /\ NamesUnique /\ [Next]_storeVars => NamesUnique'
  <1> SUFFICES ASSUME StoreTypeOK, NamesUnique, [Next]_storeVars
               PROVE  NamesUnique'
    OBVIOUS
  <1>1. ASSUME NEW in \in ViewInput, NEW owner \in Tokens, CreateView(in, owner)
        PROVE  NamesUnique'
    <2>1. PICK view \in View :
            view.name = in.name /\ views' = Append(views, view)
      BY <1>1, CreatedView
    <2>2. \A k \in Rows : views[k].name = in.name => views[k].archived
      BY <1>1 DEF CreateView, NameFree, Named, Rows, StoreTypeOK
    <2>3. /\ \A k \in Rows : views'[k] = views[k]
          /\ \A k \in Rows' : k \in Rows \/ (k = Len(views) + 1 /\ views'[k] = view)
      BY <2>1 DEF StoreTypeOK, Rows
    <2> QED
      BY <2>1, <2>2, <2>3 DEF NamesUnique
  <1>2. ASSUME NEW name \in Names, NEW p \in ViewPatch, UpdateView(name, p)
        PROVE  NamesUnique'
    <2>1. PICK k \in Rows :
            /\ PatchAllowed(k, p)
            /\ views' = [views EXCEPT ![k] = Patched(@, p)]
      BY <1>2 DEF UpdateView, Found, Named
    <2> DEFINE after == Patched(views[k], p)
    <2>2. views[k] \in View
      BY <2>1 DEF StoreTypeOK, Rows
    <2>3. views[k].archived \in BOOLEAN
      BY <2>2 DEF View
    <2>4. /\ after.name = Pick(p.name, views[k].name)
          /\ after.archived = Pick(p.archived, views[k].archived)
      BY <2>2, PatchedType
    <2>5. views' = [views EXCEPT ![k] = after]
      BY <2>1
    <2> HIDE DEF after
    <2>6. /\ views'[k].name = Pick(p.name, views[k].name)
          /\ views'[k].archived = Pick(p.archived, views[k].archived)
          /\ views[k].archived \in BOOLEAN
          /\ Rows' = Rows
          /\ \A j \in Rows \ {k} : views'[j] = views[j]
      BY <2>1, <2>3, <2>4, <2>5 DEF StoreTypeOK, Rows
    <2>7. ASSUME NEW j \in Rows \ {k}, views[j].name = views'[k].name,
                 ~views[j].archived, ~views'[k].archived
          PROVE  FALSE
      <3>1. CASE p.name # Keep
        <4>1. NameFree(p.name, k)
          BY <2>1, <3>1 DEF PatchAllowed
        <4>2. views[j].name = p.name
          BY <2>6, <2>7, <3>1 DEF Pick
        <4> QED
          BY <2>7, <4>1, <4>2 DEF NameFree, Named
      <3>2. CASE p.name = Keep /\ ~views[k].archived
        BY <2>6, <2>7, <3>2 DEF NamesUnique, Pick
      <3>3. CASE p.name = Keep /\ views[k].archived
        <4>1. p.archived = FALSE
          BY <2>6, <2>7, <3>3 DEF Pick, ViewPatch
        <4>2. NameFree(views[k].name, k)
          BY <2>1, <3>3, <4>1 DEF PatchAllowed, Restores, Pick
        <4>3. views[j].name = views[k].name
          BY <2>6, <2>7, <3>3 DEF Pick
        <4> QED
          BY <2>7, <4>2, <4>3 DEF NameFree, Named
      <3> QED
        BY <3>1, <3>2, <3>3
    <2> QED
      BY <2>6, <2>7 DEF NamesUnique
  <1>3. CASE UNCHANGED views
    BY <1>3 DEF NamesUnique, Rows
  <1> QED
    BY <1>1, <1>2, <1>3 DEF Next, OtherWrite, storeVars

-----------------------------------------------------------------------------
(***************************************************************************)
(* The trail.                                                              *)
(***************************************************************************)
TrailP == INSTANCE AuditedRows_proofs WITH
  rows <- views, log <- events, NoRow <- None,
  Fields <- {"name", "owner", "shared", "archived", "filter", "quick"},
  Actions <- ViewActions

LEMMA SameTrail == TrailP!AuditTrail => ViewsAudited
  BY DEF ViewsAudited, Trail!AuditTrail, Trail!Current, Trail!Chained, Trail!Born,
         Trail!Precedes, Trail!IsAbout, Trail!Agree,
         TrailP!AuditTrail, TrailP!Current, TrailP!Chained, TrailP!Born,
         TrailP!Precedes, TrailP!IsAbout, TrailP!Agree

\* The rows the database starts with were created one by one.
LEMMA InitTrail == Init => TrailP!TrailInv
  <1> SUFFICES ASSUME Init PROVE TrailP!TrailInv
    OBVIOUS
  <1>1. /\ Len(First) \in Nat /\ DOMAIN First = 1..Len(First)
        /\ views = First /\ DOMAIN events = DOMAIN First /\ Len(events) = Len(First)
    BY FirstAssumption DEF Init
  <1>2. \A k \in DOMAIN First :
          /\ events[k].action = "view.created" /\ events[k].row = k
          /\ events[k].before = None /\ events[k].after = First[k]
    BY DEF Init
  <1>3. \A k, n \in DOMAIN First : TrailP!IsAbout(events[n], k) <=> n = k
    BY <1>2 DEF TrailP!IsAbout, ViewActions
  <1>4. TrailP!LogOK
    BY <1>1 DEF TrailP!LogOK
  <1>5. TrailP!Current
    <2>1. ASSUME NEW k \in DOMAIN views
          PROVE  TrailP!Precedes(k, Len(events) + 1, k)
      BY <1>1, <1>3 DEF TrailP!Precedes
    <2> QED
      BY <1>1, <1>2, <2>1 DEF TrailP!Current, TrailP!Agree
  <1>6. TrailP!Chained
    BY <1>1, <1>2, <1>3 DEF TrailP!Chained, TrailP!Precedes
  <1>7. TrailP!Born
    BY <1>1, <1>2 DEF TrailP!Born
  <1> QED
    BY <1>4, <1>5, <1>6, <1>7 DEF TrailP!TrailInv, TrailP!AuditTrail

LEMMA RecordExtends ==
  ASSUME StoreTypeOK, NEW action, NEW row, NEW before, NEW after,
         Record(action, row, before, after)
  PROVE  /\ TrailP!Extended
         /\ TrailP!NewEvent = [action |-> action, row |-> row,
                               before |-> before, after |-> after]
  <1> DEFINE e == [action |-> action, row |-> row, before |-> before, after |-> after]
  <1>1. events \in Seq(ViewEvent) /\ events' = Append(events, e)
    BY DEF StoreTypeOK, Record
  <1> HIDE DEF e
  <1> QED
    BY <1>1 DEF TrailP!Extended, TrailP!NewEvent, e

\* The views are kept as an audited table.
LEMMA StoreTrail == StoreTypeOK /\ [Next]_storeVars => [TrailP!Next]_(TrailP!vars)
  <1> SUFFICES ASSUME StoreTypeOK, [Next]_storeVars
               PROVE  [TrailP!Next]_(TrailP!vars)
    OBVIOUS
  <1>1. ASSUME NEW in \in ViewInput, NEW owner \in Tokens, CreateView(in, owner)
        PROVE  TrailP!Next
    <2>1. PICK view \in View :
            /\ views' = Append(views, view)
            /\ Record("view.created", Len(views) + 1, None, view)
      BY <1>1, CreatedView
    <2> DEFINE k == Len(views) + 1
    <2>2. /\ k \notin DOMAIN views /\ k \in DOMAIN views'
          /\ DOMAIN views' = DOMAIN views \cup {k}
          /\ \A j \in DOMAIN views : views'[j] = views[j]
          /\ views'[k] = view
      BY <2>1 DEF StoreTypeOK
    <2> HIDE DEF k
    <2>3. TrailP!Create(k)
      BY <2>1, <2>2, RecordExtends DEF TrailP!Create, TrailP!IsAbout, TrailP!Agree,
                                       ViewActions, k
    <2> QED
      BY <2>2, <2>3 DEF TrailP!Next
  <1>2. ASSUME NEW name \in Names, NEW p \in ViewPatch, UpdateView(name, p)
        PROVE  TrailP!Next
    <2>1. PICK k \in Rows :
            /\ views' = [views EXCEPT ![k] = Patched(@, p)]
            /\ Record(ActionOf(views[k], p), k, views[k], Patched(views[k], p))
      BY <1>2 DEF UpdateView, Found, Named
    <2> DEFINE after == Patched(views[k], p)
               action == ActionOf(views[k], p)
    <2>2. views[k] # None /\ action \in ViewActions
      BY UpdatedView, NoneAssumption
    <2>3. views' = [views EXCEPT ![k] = after] /\ Record(action, k, views[k], after)
      BY <2>1
    <2> HIDE DEF after, action
    <2>4. TrailP!Write(k) /\ k \in DOMAIN views'
      BY <2>2, <2>3, RecordExtends
      DEF TrailP!Write, TrailP!IsAbout, TrailP!Agree, Rows, StoreTypeOK
    <2> QED
      BY <2>4 DEF TrailP!Next
  <1>3. CASE OtherWrite
    BY <1>3, RecordExtends
    DEF OtherWrite, TrailP!Next, TrailP!Elsewhere, ViewActions
  <1>4. CASE UNCHANGED storeVars
    BY <1>4 DEF storeVars, TrailP!vars
  <1> QED
    BY <1>1, <1>2, <1>3, <1>4 DEF Next

StoreInv == StoreTypeOK /\ NamesUnique /\ TrailP!TrailInv

LEMMA StoreInvariant == StoreSpec => []StoreInv
  <1>1. Init => StoreInv
    BY InitStore, InitTrail DEF StoreInv
  <1>2. StoreInv /\ [Next]_storeVars => StoreInv'
    BY StoreType, StoreUnique, StoreTrail, TrailP!TrailStep DEF StoreInv
  <1> QED
    BY <1>1, <1>2, PTL DEF StoreSpec

LEMMA StoreProperties == StoreInv => StoreTypeOK /\ NamesUnique /\ ViewsAudited
  BY SameTrail DEF StoreInv, TrailP!TrailInv

-----------------------------------------------------------------------------
(***************************************************************************)
(* The callers.                                                            *)
(***************************************************************************)
LEMMA RequestTypes ==
  ASSUME NEW req \in Requests
  PROVE  /\ req.kind = "create" => req.in \in ViewInput /\ req.as \in Tokens
         /\ req.kind # "create" => req.name \in Names /\ req.patch \in ViewPatch
         /\ req.kind = "cli" => req.drop \in SUBSET FilterFields
         /\ req.who \in Tokens
         /\ OnBoard(req) => req.kind # "create"
  <1>1. req \in Request
    BY RequestAssumption
  <1> QED
    BY <1>1 DEF Request, OnBoard

LEMMA BodyType ==
  ASSUME NEW v \in View, NEW req \in Requests, req.kind # "create"
  PROVE  Body(req, v) \in ViewPatch
  <1>1. req.patch \in ViewPatch
    BY RequestTypes
  <1>2. Rendered(v, req.patch) \in ViewPatch
    <2>1. /\ Pick(req.patch.name, v.name) \in Names
          /\ Pick(req.patch.shared, v.shared) \in BOOLEAN
          /\ Pick(req.patch.filter, v.filter) \in Filter
          /\ Pick(req.patch.quick, v.quick) \in SUBSET QuickAction
      BY <1>1 DEF Pick, View, ViewPatch
    <2> QED
      BY <2>1 DEF Rendered, ViewPatch
  <1>3. ASSUME NEW drop \in SUBSET FilterFields
        PROVE  Overlaid(v, req.patch, drop) \in ViewPatch
    <2> DEFINE flags == Pick(req.patch.filter, NoFlags)
               filter == WithFlags(v.filter, flags, drop)
               sent == IF filter = v.filter THEN Keep ELSE filter
    <2>1. flags \in Filter /\ v.filter \in Filter
      BY <1>1 DEF Pick, ViewPatch, NoFlags, Filter, View
    <2>2. filter \in Filter
      BY <2>1 DEF WithFlags, Filter
    <2>3. sent \in {Keep} \cup Filter
      BY <2>2
    <2>4. Overlaid(v, req.patch, drop) = [req.patch EXCEPT !.filter = sent]
      BY DEF Overlaid
    <2> HIDE DEF sent
    <2> QED
      BY <1>1, <2>3, <2>4 DEF ViewPatch
  <1> QED
    BY <1>1, <1>2, <1>3, RequestTypes DEF Body

\* A call that goes to a call of the type leaves all of them so, while the
\* views only grow.
LEMMA CallGoes ==
  ASSUME CallsTypeOK, Rows \subseteq Rows', NEW c \in Callers, NEW call,
         call \in {Idle, Over} \/ Call(call)',
         calls' = [calls EXCEPT ![c] = call]
  PROVE  CallsTypeOK'
  BY DEF CallsTypeOK, Call

LEMMA AnsweredType ==
  ASSUME NEW call, Call(call)
  PROVE  Answered(call) = Over \/ Call(Answered(call))'
  BY RequestAssumption DEF Answered, Call

LEMMA SentType ==
  ASSUME NEW req \in Requests, req.kind # "create", NEW body \in ViewPatch
  PROVE  Call(Sent(req, body)) /\ Call(Sent(req, body))'
  BY RequestAssumption DEF Sent, Call

LEMMA ArrivingType ==
  ASSUME CallsTypeOK, NEW c \in Callers, NEW call \in Arriving(c)
  PROVE  Call(call)
  <1>1. CASE calls[c].at = "idle"
    <2>1. PICK req \in Requests : req.kind = "patch" /\ call = Sent(req, req.patch)
      BY <1>1 DEF Arriving
    <2> QED
      BY <2>1, SentType, RequestTypes
  <1>2. CASE calls[c].at = "sent"
    <2>1. call = calls[c]
      BY <1>2 DEF Arriving
    <2> QED
      BY <1>2, <2>1 DEF CallsTypeOK, Idle, Over
  <1> QED
    BY <1>1, <1>2 DEF Arriving

\* At these stages it is a call.
LEMMA IsCall ==
  ASSUME CallsTypeOK, NEW c \in Callers, calls[c].at \in {"sent", "checked", "answered"}
  PROVE  Call(calls[c])
  BY DEF CallsTypeOK, Idle, Over

\* What the callers do to the store: one of its transactions, or nothing.
LEMMA CallsAreTransactions ==
  StoreTypeOK /\ CallsTypeOK /\ [CallNext]_callVars => [Next]_storeVars
  <1> SUFFICES ASSUME StoreTypeOK, CallsTypeOK, [CallNext]_callVars
               PROVE  [Next]_storeVars
    OBVIOUS
  <1>1. ASSUME NEW c \in Callers, Apply(c)
        PROVE  [Next]_storeVars
    <2>1. calls[c].req.name \in Names /\ calls[c].body \in ViewPatch
      BY <1>1, IsCall, RequestTypes DEF Apply, Call
    <2> QED
      BY <1>1, <2>1 DEF Apply, Next
  <1>2. ASSUME NEW c \in Callers, Create(c)
        PROVE  [Next]_storeVars
    BY <1>2, RequestTypes DEF Create, Next
  <1>3. CASE Settle
    BY <1>3 DEF Settle, Next
  <1>4. ASSUME \/ \E c \in Callers :
                    (\E req \in Requests : Read(c, req)) \/ Check(c) \/ Repeat(c)
               \/ \E name \in Names : Open(name)
               \/ \E shown \in QuickAction : Press(shown)
               \/ \E who \in Consumers : ReadFeed(who)
               \/ UNCHANGED callVars
        PROVE  UNCHANGED storeVars
    BY <1>4 DEF Read, Check, Repeat, Open, Press, ReadFeed, callVars, storeVars
  <1> QED
    BY <1>1, <1>2, <1>3, <1>4 DEF CallNext

LEMMA RowsStay ==
  ASSUME StoreTypeOK, [Next]_storeVars
  PROVE  /\ Rows \subseteq Rows'
         /\ \A k \in Rows : views'[k].owner = views[k].owner
  <1>1. ASSUME NEW in \in ViewInput, NEW owner \in Tokens, CreateView(in, owner)
        PROVE  Rows \subseteq Rows' /\ \A k \in Rows : views'[k] = views[k]
    BY <1>1, CreatedView DEF StoreTypeOK, Rows
  <1>2. ASSUME NEW name \in Names, NEW p \in ViewPatch, UpdateView(name, p)
        PROVE  Rows' = Rows /\ \A k \in Rows : views'[k].owner = views[k].owner
    <2>1. PICK k \in Rows : views' = [views EXCEPT ![k] = Patched(@, p)]
      BY <1>2 DEF UpdateView, Found, Named
    <2>2. Patched(views[k], p).owner = views[k].owner
      BY PatchedType DEF StoreTypeOK, Rows
    <2> DEFINE after == Patched(views[k], p)
    <2>3. views' = [views EXCEPT ![k] = after] /\ after.owner = views[k].owner
      BY <2>1, <2>2
    <2> HIDE DEF after
    <2> QED
      BY <2>3 DEF Rows, StoreTypeOK
  <1> QED
    BY <1>1, <1>2 DEF Next, OtherWrite, storeVars, Rows

LEMMA CallsType ==
  StoreTypeOK /\ CallsTypeOK /\ [CallNext]_callVars => CallsTypeOK'
  <1> SUFFICES ASSUME StoreTypeOK, CallsTypeOK, [CallNext]_callVars
               PROVE  CallsTypeOK'
    OBVIOUS
  <1>1. Rows \subseteq Rows'
    BY CallsAreTransactions, RowsStay
  <1>2. ASSUME NEW c \in Callers, NEW req \in Requests, Read(c, req)
        PROVE  CallsTypeOK'
    <2>1. PICK k \in Source(req) : calls' = [calls EXCEPT ![c] = Sent(req, Body(req, views[k]))]
      BY <1>2 DEF Read
    <2>2. k \in Rows /\ views[k] \in View
      BY DEF Source, Visible, Found, Named, StoreTypeOK, Rows
    <2>3. req.kind # "create"
      BY <1>2 DEF Read
    <2> QED
      BY <1>1, <2>1, <2>2, <2>3, BodyType, SentType, CallGoes
  <1>3. ASSUME NEW c \in Callers, Check(c)
        PROVE  CallsTypeOK'
    <2>1. PICK call \in Arriving(c) :
            LET rows == IF PatchEmpty(call.body) THEN {} ELSE MayChange(call.req)
            IN calls' = [calls EXCEPT ![c] =
                 IF rows = {} THEN Answered(call)
                 ELSE [call EXCEPT !.at = "checked", !.row = CHOOSE k \in rows : TRUE]]
      BY <1>3 DEF Check
    <2>2. Call(call)
      BY ArrivingType
    <2>3. CASE calls' = [calls EXCEPT ![c] = Answered(call)]
      BY <1>1, <2>2, <2>3, AnsweredType, CallGoes
    <2>4. ASSUME NEW k \in MayChange(call.req),
                 calls' = [calls EXCEPT ![c] = [call EXCEPT !.at = "checked", !.row = k]]
          PROVE  CallsTypeOK'
      <3>1. k \in Rows /\ k \in Nat
        BY DEF MayChange, Visible, Found, Named, Rows, StoreTypeOK
      <3>2. Call([call EXCEPT !.at = "checked", !.row = k])'
        BY <1>1, <2>2, <3>1 DEF Call
      <3> QED
        BY <1>1, <2>4, <3>2, CallGoes
    <2> QED
      BY <2>1, <2>3, <2>4
  <1>4. ASSUME NEW c \in Callers, Apply(c)
        PROVE  CallsTypeOK'
    <2>1. Call(calls[c]) /\ calls' = [calls EXCEPT ![c] = Answered(calls[c])]
      BY <1>4, IsCall DEF Apply
    <2> QED
      BY <1>1, <2>1, AnsweredType, CallGoes
  <1>5. ASSUME NEW c \in Callers, Create(c)
        PROVE  CallsTypeOK'
    BY <1>1, <1>5, CallGoes DEF Create
  <1>6. ASSUME NEW c \in Callers, Repeat(c)
        PROVE  CallsTypeOK'
    <2>1. PICK call : call = calls[c]
      OBVIOUS
    <2>2. /\ Call(call)
          /\ calls' = [calls EXCEPT ![c] =
               [call EXCEPT !.at = "sent", !.attempt = call.attempt + 1]]
      BY <1>6, <2>1, IsCall DEF Repeat
    <2> DEFINE n == call.attempt + 1
    <2>3. n \in 1..MaxAttempts
      BY <1>6, <2>1, <2>2, RequestAssumption DEF Repeat, Call
    <2> HIDE DEF n
    <2> DEFINE again == [call EXCEPT !.at = "sent", !.attempt = n]
    <2>4. Call(again)'
      BY <2>2, <2>3 DEF Call
    <2>5. calls' = [calls EXCEPT ![c] = again]
      BY <2>2 DEF n
    <2> HIDE DEF again
    <2> QED
      BY <1>1, <2>4, <2>5, CallGoes
  <1>7. CASE UNCHANGED calls
    BY <1>1, <1>7 DEF CallsTypeOK, Call
  <1> QED
    BY <1>2, <1>3, <1>4, <1>5, <1>6, <1>7 DEF CallNext, Open, Press, Settle, ReadFeed, callVars

\* The first look-up let its caller change the row it found, and owners stay.
CheckedByEditor ==
  \A c \in Callers : calls[c].at = "checked" =>
    MayEdit(views[calls[c].row], calls[c].req.who)

LEMMA CheckedStep ==
  StoreTypeOK /\ CallsTypeOK /\ CheckedByEditor /\ [CallNext]_callVars => CheckedByEditor'
  <1> SUFFICES ASSUME StoreTypeOK, CallsTypeOK, CheckedByEditor, [CallNext]_callVars
               PROVE  CheckedByEditor'
    OBVIOUS
  <1>1. /\ Rows \subseteq Rows'
        /\ \A k \in Rows : views'[k].owner = views[k].owner
    BY CallsAreTransactions, RowsStay
  <1>2. ASSUME NEW c \in Callers, NEW call, calls' = [calls EXCEPT ![c] = call],
               call.at = "checked" =>
                 call.row \in Rows /\ MayEdit(views[call.row], call.req.who)
        PROVE  CheckedByEditor'
    <2>1. ASSUME NEW d \in Callers, calls'[d].at = "checked"
          PROVE  MayEdit(views'[calls'[d].row], calls'[d].req.who)
      <3>1. CASE d = c
        BY <1>1, <1>2, <2>1, <3>1 DEF CallsTypeOK, MayEdit
      <3>2. CASE d # c
        <4>1. calls'[d] = calls[d]
          BY <1>2, <3>2 DEF CallsTypeOK
        <4>2. calls[d].row \in Rows
          BY <2>1, <4>1, IsCall DEF Call
        <4> QED
          BY <1>1, <2>1, <4>1, <4>2 DEF CheckedByEditor, MayEdit
      <3> QED
        BY <3>1, <3>2
    <2> QED
      BY <2>1 DEF CheckedByEditor, MayEdit
  <1>3. ASSUME NEW call
        PROVE  Call(call) => Answered(call).at # "checked"
    BY DEF Answered, Over, Call
  <1>4. ASSUME NEW c \in Callers, Check(c)
        PROVE  CheckedByEditor'
    <2>1. PICK call \in Arriving(c) :
            LET rows == IF PatchEmpty(call.body) THEN {} ELSE MayChange(call.req)
            IN calls' = [calls EXCEPT ![c] =
                 IF rows = {} THEN Answered(call)
                 ELSE [call EXCEPT !.at = "checked", !.row = CHOOSE k \in rows : TRUE]]
      BY <1>4 DEF Check
    <2>2. Call(call)
      BY ArrivingType
    <2>3. CASE calls' = [calls EXCEPT ![c] = Answered(call)]
      BY <1>2, <1>3, <2>2, <2>3
    <2>4. ASSUME NEW k \in MayChange(call.req),
                 calls' = [calls EXCEPT ![c] = [call EXCEPT !.at = "checked", !.row = k]]
          PROVE  CheckedByEditor'
      <3> DEFINE now == [call EXCEPT !.at = "checked", !.row = k]
      <3>1. now.row = k /\ now.req.who = call.req.who
        BY <2>2 DEF Call
      <3>2. k \in Rows /\ MayEdit(views[k], call.req.who)
        BY DEF MayChange, CanEdit, MayEdit, Visible, Found, Named
      <3> HIDE DEF now
      <3> QED
        BY <1>2, <2>4, <3>1, <3>2 DEF now
    <2> QED
      BY <2>1, <2>3, <2>4
  <1>5. ASSUME NEW c \in Callers, Apply(c) \/ Create(c) \/ Repeat(c)
        PROVE  CheckedByEditor'
    <2>1. CASE Apply(c)
      BY <1>2, <1>3, <2>1, IsCall DEF Apply
    <2>2. CASE Create(c)
      BY <1>2, <2>2 DEF Create, Over
    <2>3. CASE Repeat(c)
      <3> DEFINE again == [calls[c] EXCEPT !.at = "sent",
                                           !.attempt = calls[c].attempt + 1]
      <3>1. calls' = [calls EXCEPT ![c] = again]
        BY <2>3 DEF Repeat
      <3>2. again.at = "sent"
        BY <2>3, IsCall DEF Repeat, Call
      <3> HIDE DEF again
      <3> QED
        BY <1>2, <3>1, <3>2
    <2> QED
      BY <1>5, <2>1, <2>2, <2>3
  <1>6. ASSUME NEW c \in Callers, NEW req \in Requests, Read(c, req)
        PROVE  CheckedByEditor'
    <2>1. PICK k \in Source(req) : calls' = [calls EXCEPT ![c] = Sent(req, Body(req, views[k]))]
      BY <1>6 DEF Read
    <2> QED
      BY <1>2, <2>1 DEF Sent
  <1>7. CASE UNCHANGED calls
    BY <1>1, <1>7, IsCall DEF CheckedByEditor, MayEdit, Call
  <1> QED
    BY <1>4, <1>5, <1>6, <1>7 DEF CallNext, Open, Press, Settle, ReadFeed, callVars

CallInv == StoreInv /\ CallsTypeOK /\ CheckedByEditor

LEMMA CallInvariant == ViewSpec => []CallInv
  <1>1. CallInit => CallInv
    BY InitStore, InitTrail DEF CallInit, CallInv, StoreInv, CallsTypeOK,
       CheckedByEditor, Idle
  <1>2. CallInv /\ [CallNext]_callVars => CallInv'
    <2> SUFFICES ASSUME CallInv, [CallNext]_callVars
                 PROVE  CallInv'
      OBVIOUS
    <2>1. [Next]_storeVars
      BY CallsAreTransactions DEF CallInv, StoreInv
    <2>2. StoreInv'
      BY <2>1, StoreType, StoreUnique, StoreTrail, TrailP!TrailStep DEF CallInv, StoreInv
    <2> QED
      BY <2>2, CallsType, CheckedStep DEF CallInv, StoreInv
  <1> QED
    BY <1>1, <1>2, PTL DEF ViewSpec

\* Whatever handlers are between their look-ups and whatever is sent again,
\* the callers do nothing to the tables that a transaction of the store could
\* not do: the handlers implement the store.
THEOREM CallsImplementStore == ViewSpec => StoreSpec
  <1>1. CallInit => Init
    BY DEF CallInit
  <1>2. CallInv /\ [CallNext]_callVars => [Next]_storeVars
    BY CallsAreTransactions DEF CallInv, StoreInv
  <1> QED
    BY <1>1, <1>2, CallInvariant, PTL DEF ViewSpec, StoreSpec

\* A name means one live view, however creates, renames, archivings and
\* restores interleave.
THEOREM OneViewPerName == ViewSpec => []NamesUnique
  BY CallsImplementStore, StoreInvariant, StoreProperties, PTL

\* The trail of every view is its whole history.
THEOREM ViewHistoryComplete == ViewSpec => []ViewsAudited
  BY CallsImplementStore, StoreInvariant, StoreProperties, PTL

\* A handler at its second look-up is the only one whose write moves it on.
LEMMA WriterApplies ==
  ASSUME CallsTypeOK, [CallNext]_callVars, NEW c \in Callers, Wrote(c)
  PROVE  /\ calls[c].at = "checked"
         /\ UpdateView(calls[c].req.name, calls[c].body)
  <1>1. calls[c].at = "checked" /\ calls'[c] # calls[c]
    BY DEF Wrote
  <1>2. ASSUME NEW d \in Callers,
               (\E req \in Requests : Read(d, req)) \/ Check(d) \/ Create(d) \/ Repeat(d)
        PROVE  FALSE
    <2>1. \E call : calls' = [calls EXCEPT ![d] = call]
      BY <1>2 DEF Read, Check, Create, Repeat
    <2>2. d = c
      BY <1>1, <2>1 DEF CallsTypeOK
    <2> QED
      BY <1>1, <1>2, <2>2 DEF Read, Check, Create, Repeat, Arriving
  <1>3. ASSUME NEW d \in Callers, Apply(d)
        PROVE  UpdateView(calls[c].req.name, calls[c].body)
    <2>1. d = c
      BY <1>1, <1>3 DEF Apply, CallsTypeOK
    <2>2. events' # events
      BY DEF Wrote
    <2> QED
      BY <1>3, <2>1, <2>2 DEF Apply, storeVars
  <1> QED
    BY <1>1, <1>2, <1>3 DEF CallNext, Open, Press, Settle, ReadFeed, callVars

LEMMA StrayStep ==
  ASSUME CallInv, [CallNext]_callVars, NEW c \in Callers, Wrote(c)
  PROVE  LET seen == calls[c].row
         IN \/ Written = seen /\ MayEdit(views[seen], calls[c].req.who)
            \/ /\ Written # seen
               /\ views[seen].name # calls[c].req.name \/ views[seen].archived
  <1> DEFINE seen == calls[c].row
             name == calls[c].req.name
  <1>1. StoreTypeOK /\ NamesUnique /\ CallsTypeOK /\ calls[c].at = "checked"
    BY WriterApplies DEF CallInv, StoreInv
  <1>2. PICK k \in Found(name) :
          Record(ActionOf(views[k], calls[c].body), k, views[k],
                 Patched(views[k], calls[c].body))
    BY <1>1, WriterApplies DEF UpdateView
  <1>3. Written = k
    BY <1>1, <1>2 DEF Record, Written, StoreTypeOK
  <1>4. MayEdit(views[seen], calls[c].req.who) /\ seen \in Rows
    BY <1>1, IsCall DEF CallInv, CheckedByEditor, Call
  <1>5. ASSUME k # seen, views[seen].name = name, ~views[seen].archived
        PROVE  FALSE
    <2>1. Shadows(k, seen) /\ k \in Rows /\ views[k].name = name
      BY <1>4, <1>5 DEF Found, Named
    <2>2. ~views[k].archived
      BY <1>5, <2>1 DEF Shadows
    <2> QED
      BY <1>1, <1>4, <1>5, <2>1, <2>2 DEF NamesUnique
  <1> QED
    BY <1>3, <1>4, <1>5

\* A write goes to the view its caller was allowed to change, or to one that
\* has taken that view's name since (handlePatchView, UpdateView).
THEOREM StraysOnlyByReuse == ViewSpec => StrayOnlyByReuse
  <1>1. CallInv /\ [CallNext]_callVars =>
          [\A c \in Callers : Wrote(c) =>
             LET seen == calls[c].row
             IN \/ Written = seen /\ MayEdit(views[seen], calls[c].req.who)
                \/ /\ Written # seen
                   /\ views[seen].name # calls[c].req.name \/ views[seen].archived]_callVars
    BY StrayStep
  <1> QED
    BY <1>1, CallInvariant, PTL DEF ViewSpec, StrayOnlyByReuse

-----------------------------------------------------------------------------
(***************************************************************************)
(* The feed.  A page is cut by counting, so these proofs need the least of *)
(* what it leaves out; the naturals being well-founded gives it.           *)
(***************************************************************************)
LEMMA Least ==
  ASSUME NEW S, S \subseteq Nat, S # {}
  PROVE  \E n \in S : \A m \in S : n <= m
  <1> DEFINE Below == OpToRel(<, Nat)
  <1>1. IsWellFoundedOn(Below, Nat)
    BY NatLessThanWellFounded
  <1>2. \A n, m \in Nat : n < m => <<n, m>> \in Below
    BY DEF OpToRel
  <1> HIDE DEF Below
  <1>3. PICK n \in S : \A m \in S : ~(<<m, n>> \in Below)
    BY <1>1, WFMin
  <1>4. \A m \in S : ~(m < n)
    BY <1>2, <1>3
  <1> QED
    BY <1>4

LEMMA Greatest ==
  ASSUME NEW last \in Nat, NEW S, S \subseteq 1..last, S # {}
  PROVE  \E n \in S : \A m \in S : m <= n
  <1>1. PICK bounds : bounds = {b \in Nat : \A m \in S : m <= b}
    OBVIOUS
  <1>2. last \in bounds /\ bounds \subseteq Nat
    BY <1>1
  <1>3. PICK b \in bounds : \A other \in bounds : b <= other
    BY <1>2, Least
  <1>4. b \in Nat /\ \A m \in S : m \in Nat /\ 1 <= m /\ m <= b
    BY <1>1
  <1>5. b \in S
    <2> SUFFICES ASSUME b \notin S PROVE FALSE
      OBVIOUS
    <2>1. \A m \in S : m <= b - 1
      BY <1>4
    <2>2. b - 1 \in Nat
      <3>1. PICK m \in S : TRUE
        OBVIOUS
      <3>2. b \in Nat /\ m \in Nat /\ 1 <= m /\ m <= b
        BY <1>4
      <3> QED
        BY <3>2
    <2>3. b - 1 \in bounds
      BY <1>1, <2>1, <2>2
    <2> QED
      BY <1>3, <1>4, <2>3
  <1> QED
    BY <1>4, <1>5

UpTo(set, n) == {m \in set : m <= n}

\* A page is the first of the events it is cut from, and all of them if it is short.
LEMMA PageKeeps ==
  ASSUME NEW last \in Nat, NEW after, after \subseteq 1..last, NEW size \in Nat,
         NEW read, read \subseteq after,
         \A n \in after : n \in read <=> Cardinality(UpTo(after, n)) <= size
  PROVE  /\ \A n \in after, r \in read : n <= r => n \in read
         /\ Cardinality(read) < size => read = after
  <1>1. \A n \in after : n \in Nat
    OBVIOUS
  <1>2. IsFiniteSet(after) /\ \A part \in SUBSET after : IsFiniteSet(part)
    <2>1. IsFiniteSet(1..last)
      BY FS_Interval
    <2> QED
      BY <2>1, FS_Subset
  <1>3. ASSUME NEW n \in after, NEW r \in read, n <= r
        PROVE  n \in read
    <2>1. PICK few, many : few = UpTo(after, n) /\ many = UpTo(after, r)
      OBVIOUS
    <2>2. few \subseteq many
      <3>1. ASSUME NEW m \in after, m <= n
            PROVE  m <= r
        <4>1. m \in Nat /\ n \in Nat /\ r \in Nat
          BY <1>1
        <4> QED
          BY <1>3, <3>1, <4>1
      <3> QED
        BY <2>1, <3>1 DEF UpTo
    <2>3. Cardinality(few) <= Cardinality(many) /\ IsFiniteSet(few) /\ IsFiniteSet(many)
      BY <1>2, <2>1, <2>2, FS_Subset DEF UpTo
    <2>4. Cardinality(few) \in Nat /\ Cardinality(many) \in Nat
      BY <2>3, FS_CardinalityType
    <2>5. Cardinality(many) <= size
      BY <2>1
    <2>6. Cardinality(few) <= size
      BY <2>3, <2>4, <2>5
    <2> QED
      BY <2>1, <2>6
  <1>4. ASSUME Cardinality(read) < size, read # after
        PROVE  FALSE
    <2>1. after \ read # {} /\ after \ read \subseteq Nat
      BY <1>1, <1>4
    <2>2. PICK n \in after \ read : \A m \in after \ read : n <= m
      BY <2>1, Least
    <2>3. PICK upTo : upTo = UpTo(after, n)
      OBVIOUS
    <2>4. upTo \subseteq read \cup {n}
      <3>1. ASSUME NEW m \in after, m <= n, m \notin read
            PROVE  m = n
        BY <1>1, <2>2, <3>1
      <3> QED
        BY <2>3, <3>1 DEF UpTo
    <2>5. IsFiniteSet(read) /\ n \notin read
      BY <1>2
    <2>6. /\ IsFiniteSet(read \cup {n})
          /\ Cardinality(read \cup {n}) = Cardinality(read) + 1
      BY <2>5, FS_AddElement
    <2>7. Cardinality(upTo) <= Cardinality(read \cup {n}) /\ IsFiniteSet(upTo)
      BY <2>4, <2>6, FS_Subset
    <2>8. Cardinality(upTo) \in Nat /\ Cardinality(read) \in Nat
      BY <2>5, <2>7, FS_CardinalityType
    <2>9. ~(Cardinality(upTo) <= size)
      BY <2>2, <2>3
    <2> QED
      BY <1>4, <2>6, <2>7, <2>8, <2>9
  <1> QED
    BY <1>3, <1>4

\* Nobody has read further than there are events.
FeedsInv ==
  DOMAIN feeds = Consumers /\ \A who \in Consumers : feeds[who].cursor \in 0..Len(events)

\* What a read leaves its reader with.
LEMMA ReadMoves ==
  ASSUME StoreTypeOK, FeedsInv, NEW who \in Consumers, ReadFeed(who),
         NEW read, read = FeedPage(feeds[who].cursor, who),
         NEW new, new = feeds'[who]
  PROVE  /\ \A other \in Consumers \ {who} : feeds'[other] = feeds[other]
         /\ DOMAIN feeds' = Consumers
         /\ read \subseteq 1..Len(events)
         /\ new.ended <=> Cardinality(read) < PageSize
         /\ read \subseteq new.got
         /\ read = {} => new.cursor = feeds[who].cursor
         /\ read # {} => new.cursor \in read
         /\ read # {} => \A m \in read : m <= new.cursor
  <1>1. /\ feeds' = [feeds EXCEPT ![who] =
              [cursor |-> IF read = {} THEN feeds[who].cursor
                          ELSE CHOOSE n \in read : \A m \in read : m <= n,
               got |-> feeds[who].got \cup read,
               ended |-> Cardinality(read) < PageSize]]
        /\ DOMAIN feeds = Consumers
    BY DEF ReadFeed, FeedsInv
  <1>2. new = [cursor |-> IF read = {} THEN feeds[who].cursor
                          ELSE CHOOSE n \in read : \A m \in read : m <= n,
               got |-> feeds[who].got \cup read,
               ended |-> Cardinality(read) < PageSize]
    BY <1>1
  <1>3. Len(events) \in Nat /\ read \subseteq 1..Len(events)
    BY DEF FeedPage, StoreTypeOK
  <1>4. read # {} => \E n \in read : \A m \in read : m <= n
    BY <1>3, Greatest
  <1>5. /\ read = {} => new.cursor = feeds[who].cursor
        /\ read # {} => new.cursor \in read
        /\ read # {} => \A m \in read : m <= new.cursor
    BY <1>2, <1>4
  <1>6. /\ \A other \in Consumers \ {who} : feeds'[other] = feeds[other]
        /\ DOMAIN feeds' = Consumers
    BY <1>1
  <1>7. (new.ended <=> Cardinality(read) < PageSize) /\ read \subseteq new.got
    <2>1. PICK short : short = (Cardinality(read) < PageSize)
      OBVIOUS
    <2>2. new.ended = short /\ new.got = feeds[who].got \cup read
      BY <1>2, <2>1
    <2> QED
      BY <2>1, <2>2
  <1> QED
    BY <1>3, <1>5, <1>6, <1>7

LEMMA FeedsStep ==
  StoreTypeOK /\ CallsTypeOK /\ FeedsInv /\ [CallNext]_callVars => FeedsInv'
  <1> SUFFICES ASSUME StoreTypeOK, CallsTypeOK, FeedsInv, [CallNext]_callVars
               PROVE  FeedsInv'
    OBVIOUS
  <1>1. Len(events) \in Nat /\ Len(events') \in Nat /\ Len(events) <= Len(events')
    <2>1. [Next]_storeVars
      BY CallsAreTransactions
    <2>2. StoreTypeOK'
      BY <2>1, StoreType
    <2>3. Len(events) \in Nat /\ Len(events') \in Nat
      BY <2>2 DEF StoreTypeOK
    <2>4. \A action, row, before, after :
            Record(action, row, before, after) => Len(events') = Len(events) + 1
      BY DEF Record, StoreTypeOK
    <2>5. Len(events') = Len(events) + 1 \/ events' = events
      BY <2>1, <2>4 DEF Next, storeVars, CreateView, UpdateView, OtherWrite
    <2> QED
      BY <2>3, <2>5
  <1>2. CASE feeds' = feeds
    BY <1>1, <1>2 DEF FeedsInv
  <1>3. ASSUME NEW who \in Consumers, ReadFeed(who)
        PROVE  FeedsInv'
    <2>1. PICK read : read = FeedPage(feeds[who].cursor, who)
      OBVIOUS
    <2>2. feeds'[who].cursor \in 0..Len(events)
      <3>1. /\ read \subseteq 1..Len(events)
            /\ read = {} => feeds'[who].cursor = feeds[who].cursor
            /\ read # {} => feeds'[who].cursor \in read
        BY <1>3, <2>1, ReadMoves
      <3>2. feeds[who].cursor \in 0..Len(events)
        BY DEF FeedsInv
      <3>3. CASE read = {}
        BY <3>1, <3>2, <3>3
      <3>4. CASE read # {}
        <4>1. feeds'[who].cursor \in 1..Len(events)
          BY <3>1, <3>4
        <4> QED
          BY <1>1, <4>1
      <3> QED
        BY <3>3, <3>4
    <2>3. events' = events
      BY <1>3 DEF ReadFeed
    <2> QED
      BY <1>3, <2>1, <2>2, <2>3, ReadMoves DEF FeedsInv
  <1> QED
    BY <1>2, <1>3
    DEF CallNext, callVars, Read, Check, Apply, Create, Repeat, Open, Press, Settle

LEMMA FeedsInvariant == ViewSpec => []FeedsInv
  <1>1. CallInit => FeedsInv
    BY InitStore DEF CallInit, FeedsInv, StoreTypeOK
  <1>2. CallInv => StoreTypeOK /\ CallsTypeOK
    BY DEF CallInv, StoreInv
  <1> QED
    BY <1>1, <1>2, FeedsStep, CallInvariant, PTL DEF ViewSpec

\* The tables, the calls and the feeds are of their types throughout.
THEOREM ViewTypeCorrect == ViewSpec => []ViewTypeOK
  <1>1. CallInv /\ FeedsInv => ViewTypeOK
    BY DEF CallInv, StoreInv, FeedsInv, ViewTypeOK
  <1> QED
    BY <1>1, CallInvariant, FeedsInvariant, PTL

\* A read of the feed leaves out nothing up to its new cursor, nor after it
\* when it says that the walk is over (ListAllEvents).
THEOREM FeedLeavesNothingOut == ViewSpec => WalkComplete
  <1>1. ASSUME StoreTypeOK, FeedsInv, [CallNext]_callVars,
               NEW who \in Consumers, feeds'[who] # feeds[who], NEW n \in DOMAIN events,
               n > feeds[who].cursor,
               n <= feeds'[who].cursor \/ feeds'[who].ended, InFeed(n, who)
        PROVE  n \in feeds'[who].got
    <2>1. PICK reader \in Consumers : ReadFeed(reader)
      BY <1>1 DEF CallNext, callVars, Read, Check, Apply, Create, Repeat, Open, Press, Settle
    <2>2. PICK shown : shown = FeedPage(feeds[reader].cursor, reader)
      OBVIOUS
    <2>3. reader = who
      BY <1>1, <2>1, <2>2, ReadMoves
    <2>4. PICK after, last :
            /\ after = {m \in DOMAIN events : m > feeds[who].cursor /\ InFeed(m, who)}
            /\ last = Len(events)
      OBVIOUS
    <2>5. /\ last \in Nat /\ DOMAIN events = 1..last /\ after \subseteq 1..last
          /\ feeds[who].cursor \in Nat
      BY <1>1, <2>4 DEF StoreTypeOK, FeedsInv
    <2>6. /\ shown \subseteq after
          /\ \A m \in after : m \in shown <=> Cardinality(UpTo(after, m)) <= PageSize
      BY <2>2, <2>3, <2>4 DEF FeedPage, UpTo
    <2>7. /\ \A m \in after, r \in shown : m <= r => m \in shown
          /\ Cardinality(shown) < PageSize => shown = after
      <3>1. PageSize \in Nat
        BY RequestAssumption
      <3> QED
        BY <2>5, <2>6, <3>1, PageKeeps
    <2>8. n \in after
      BY <1>1, <2>4
    <2>9. /\ feeds'[who].ended <=> Cardinality(shown) < PageSize
          /\ shown \subseteq feeds'[who].got
          /\ shown = {} => feeds'[who].cursor = feeds[who].cursor
          /\ shown # {} => feeds'[who].cursor \in shown
      <3>1. ReadFeed(who) /\ shown = FeedPage(feeds[who].cursor, who)
        BY <2>1, <2>2, <2>3
      <3>2. PICK new : new = feeds'[who]
        OBVIOUS
      <3>3. new.ended <=> Cardinality(shown) < PageSize
        BY <1>1, <3>1, <3>2, ReadMoves
      <3>4. shown \subseteq new.got
        BY <1>1, <3>1, <3>2, ReadMoves
      <3>5. shown = {} => new.cursor = feeds[who].cursor
        BY <1>1, <3>1, <3>2, ReadMoves
      <3>6. shown # {} => new.cursor \in shown
        BY <1>1, <3>1, <3>2, ReadMoves
      <3> QED
        BY <3>2, <3>3, <3>4, <3>5, <3>6
    <2>10. CASE feeds'[who].ended
      BY <2>7, <2>8, <2>9, <2>10
    <2>11. CASE n <= feeds'[who].cursor
      <3>1. shown # {}
        BY <1>1, <2>5, <2>9, <2>11
      <3> QED
        BY <2>7, <2>8, <2>9, <2>11, <3>1
    <2> QED
      BY <1>1, <2>10, <2>11
  <1>2. CallInv => StoreTypeOK
    BY DEF CallInv, StoreInv
  <1>3. CallInv /\ FeedsInv /\ [CallNext]_callVars =>
          [\A who \in Consumers : feeds'[who] # feeds[who] =>
             \A n \in DOMAIN events :
               n > feeds[who].cursor
               /\ (n <= feeds'[who].cursor \/ feeds'[who].ended)
               /\ InFeed(n, who)
                 => n \in feeds'[who].got]_callVars
    BY <1>1, <1>2
  <1> QED
    BY <1>3, CallInvariant, FeedsInvariant, PTL DEF ViewSpec, WalkComplete

-----------------------------------------------------------------------------
\* A page shows a view as it was, live and for its visitor to see.
PageInv ==
  page # None =>
    /\ page.row \in Rows
    /\ ~page.view.archived
    /\ CanSee(page.view, Visitor)

LEMMA PageStep ==
  ASSUME CallInv, PageInv, [CallNext]_callVars
  PROVE  PageInv'
  <1>1. Rows \subseteq Rows'
    BY CallsAreTransactions, RowsStay DEF CallInv, StoreInv
  <1>2. ASSUME NEW name \in Names, Open(name)
        PROVE  PageInv'
    <2>1. PICK k \in Visible(name, Visitor) :
            ~views[k].archived /\ page' = [row |-> k, view |-> views[k]]
      BY <1>2 DEF Open
    <2> QED
      BY <1>1, <2>1 DEF PageInv, CanSee, Visible, Found, Named
  <1>3. CASE page' = None
    BY <1>3 DEF PageInv
  <1>4. CASE UNCHANGED page
    BY <1>1, <1>4 DEF PageInv, CanSee
  <1> QED
    BY <1>2, <1>3, <1>4
    DEF CallNext, callVars, Read, Check, Apply, Create, Repeat, Press, Settle, ReadFeed

\* A view that is live and visible is what its name stands for, so its
\* buttons are still there.
LEMMA RefusedStep ==
  ASSUME CallInv, PageInv, [CallNext]_callVars, pressed # "refused", pressed' = "refused"
  PROVE  views[page.row] # page.view
  <1> SUFFICES ASSUME views[page.row] = page.view
               PROVE  FALSE
    OBVIOUS
  <1>1. PICK shown \in QuickAction : Press(shown)
    BY DEF CallNext, callVars, Read, Check, Apply, Create, Repeat, Open, Settle, ReadFeed
  <1> DEFINE k == page.row
  <1>2. /\ k \in Rows /\ ~views[k].archived /\ CanSee(views[k], Visitor)
        /\ shown \in views[k].quick
    BY <1>1 DEF PageInv, Press
  <1>3. k \in Found(page.view.name)
    <2>1. ASSUME NEW j \in Named(page.view.name) \ {k}
          PROVE  Shadows(k, j)
      BY <1>2, <2>1 DEF CallInv, StoreInv, NamesUnique, Named, Shadows
    <2> QED
      BY <1>2, <2>1 DEF Found, Named
  <1>4. StillThere(shown)
    BY <1>2, <1>3 DEF StillThere, Visible, SameAction
  <1> QED
    BY <1>1, <1>4 DEF Press

\* A button is refused only if the view is no longer what the page shows, as
\* its name stands for it as long as it is live (viewNameFree, visibleView).
THEOREM RefusalsMeanChange == ViewSpec => RefusedOnlyIfChanged
  <1>1. CallInit => PageInv
    BY DEF CallInit, PageInv
  <1>2. CallInv /\ PageInv /\ [CallNext]_callVars => PageInv'
    BY PageStep
  <1>3. CallInv /\ PageInv /\ [CallNext]_callVars =>
          [pressed # "refused" /\ pressed' = "refused" =>
             views[page.row] # page.view]_callVars
    BY RefusedStep
  <1> QED
    BY <1>1, <1>2, <1>3, CallInvariant, PTL DEF ViewSpec, RefusedOnlyIfChanged
=============================================================================
