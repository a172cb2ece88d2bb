--------------------------- MODULE IssueCalls_proofs ---------------------------
(***************************************************************************)
(* Theorems about the callers of the server, for any number of them, any   *)
(* requests and any number of attempts.  First what a handler may ask of   *)
(* the store: every step of every handler is one of the store's own        *)
(* transactions, so what holds of the store holds under its callers.       *)
(***************************************************************************)
EXTENDS IssueCallProperties, IssueStore_proofs, SequenceTheorems, FiniteSetTheorems

\* The versions a request may carry.
Versions == {Keep} \cup 0..MaxEvents

\* What a caller read of the issues it names.
Read(req, expect) ==
  /\ Named(req) \subseteq DOMAIN expect /\ DOMAIN expect \subseteq Keys
  /\ \A k \in DOMAIN expect : expect[k] \in Versions

\* A patch that replaces what a description says.
Overwrites(p) == p.description # Keep /\ p.replace

\* A step the store can take: with the version the caller read or none, over a
\* description only for an admin, and under the idempotency key of the request.
GoodStep(step, req, expect) ==
  \/ /\ step.do = "patch" /\ step.key \in Named(req) \cap Keys /\ step.patch \in Patches
     /\ step.patch.expect \in {Keep, expect[step.key]} /\ step.key \in DOMAIN expect
     /\ req.kind # "create" /\ (Overwrites(step.patch) => req.admin)
  \/ /\ step.do = "append" /\ step.key \in Keys /\ step.text \in Texts
     /\ req.kind \in {"append", "save"}
  \/ /\ step.do = "comment" /\ step.key \in Keys /\ step.body \in Bodies
     /\ step.idem \in IdemKeys \cup {None}
     /\ \/ req.kind = "form"
        \/ req.kind = "comment" /\ step.idem = req.idem
  \/ /\ step.do = "create" /\ step.in \in NewIssues
     /\ req.kind = "create" /\ step.in.idem = req.in.idem
  \/ step.do = "ensure" /\ step.label \in Labels

-----------------------------------------------------------------------------
(***************************************************************************)
(* The steps of a request.                                                 *)
(***************************************************************************)
LEMMA PatchingType ==
  ASSUME NEW req \in Requests, NEW expect, Read(req, expect),
         req.kind \in {"patch", "batch", "save", "form"},
         req.kind = "form" \/ RoleAllows(req),
         NEW key \in Named(req), NEW version \in {Keep, expect[key]}
  PROVE  /\ GoodStep(Patching(key, req.patch, version), req, expect)
         /\ Patching(key, req.patch, version).patch.expect = version
  <1>1. key \in Keys /\ key \in DOMAIN expect /\ version \in Versions
    BY DEF Read, Versions
  <1>2. [req.patch EXCEPT !.expect = version] \in Patches
    BY <1>1, InputsCovered DEF Versions
  <1> DEFINE p == [req.patch EXCEPT !.expect = version]
  <1>3. /\ p.expect = version /\ p.description = req.patch.description
        /\ p.replace = req.patch.replace
    <2>1. req \in Request
      BY RequestAssumption
    <2>2. req.patch \in Patch
      BY <2>1 DEF Request
    <2> QED
      BY <2>2 DEF Patch
  <1> HIDE DEF p
  <1>4. Overwrites(p) => req.admin
    BY <1>3, FormAssumption DEF Overwrites, RoleAllows
  <1> QED
    BY <1>1, <1>2, <1>3, <1>4 DEF GoodStep, Patching, p

\* Each element of two sequences in a row is an element of one of them.
LEMMA ConcatElement ==
  ASSUME NEW set, NEW s \in Seq(set), NEW t \in Seq(set), NEW i \in DOMAIN (s \o t)
  PROVE  \/ \E j \in DOMAIN s : (s \o t)[i] = s[j]
         \/ \E j \in DOMAIN t : (s \o t)[i] = t[j]
  <1>1. /\ s \o t \in Seq(set)
        /\ Len(s \o t) = Len(s) + Len(t)
        /\ \A n \in 1..(Len(s) + Len(t)) :
             (s \o t)[n] = IF n <= Len(s) THEN s[n] ELSE t[n - Len(s)]
    BY ConcatProperties
  <1>2. i \in 1..(Len(s) + Len(t))
    BY <1>1
  <1>3. CASE i <= Len(s)
    <2>1. i \in DOMAIN s
      BY <1>2, <1>3
    <2> QED
      BY <1>1, <1>2, <1>3, <2>1
  <1>4. CASE ~(i <= Len(s))
    <2>1. i - Len(s) \in DOMAIN t
      BY <1>2, <1>4
    <2> QED
      BY <1>1, <1>2, <1>4, <2>1
  <1> QED
    BY <1>3, <1>4

LEMMA OneOrNone ==
  ASSUME NEW set, NEW e \in set, NEW s, s \in {<< >>, <<e>>}
  PROVE  s \in Seq(set) /\ \A j \in DOMAIN s : s # << >> /\ s[j] = e
  <1>1. CASE s = << >>
    BY <1>1
  <1>2. CASE s = <<e>>
    BY <1>2
  <1> QED
    BY <1>1, <1>2

LEMMA StepsGood ==
  ASSUME NEW req \in Requests, NEW expect, Read(req, expect),
         NEW i \in DOMAIN Steps(req, expect)
  PROVE  GoodStep(Steps(req, expect)[i], req, expect)
  <1>1. req \in Request
    BY RequestAssumption
  <1>2. CASE req.kind = "patch"
    <2>1. req.key \in Named(req)
      BY <1>2 DEF Named
    <2>2. Steps(req, expect) = PatchSteps(req, expect)
      BY <1>2 DEF Steps
    <2>3. /\ Steps(req, expect)[i] = Patching(req.key, req.patch, expect[req.key])
          /\ RoleAllows(req)
      BY <2>2 DEF PatchSteps, When
    <2> QED
      BY <1>2, <2>1, <2>3, PatchingType
  <1>3. CASE req.kind = "batch"
    <2>1. Steps(req, expect) = BatchSteps(req, expect)
      BY <1>3 DEF Steps
    <2>2. /\ Steps(req, expect)[i] = Patching(req.keys[i], req.patch, expect[req.keys[i]])
          /\ i \in DOMAIN req.keys /\ RoleAllows(req)
      BY <2>1 DEF BatchSteps
    <2>3. req.keys[i] \in Named(req)
      BY <1>3, <2>2 DEF Named
    <2> QED
      BY <1>3, <2>2, <2>3, PatchingType
  <1>4. CASE req.kind = "append"
    <2>1. req.key \in Named(req) /\ req.text \in Texts
      BY <1>1, <1>4 DEF Named, Request
    <2>2. Steps(req, expect)[i] = Appending(req.key, req.text)
      BY <1>4 DEF Steps
    <2> QED
      BY <1>4, <2>1, <2>2 DEF GoodStep, Appending, Read
  <1>5. CASE req.kind = "comment"
    <2>1. /\ req.key \in Named(req) /\ req.body \in Bodies
          /\ req.idem \in IdemKeys \cup {None}
      BY <1>1, <1>5 DEF Named, Request
    <2>2. Steps(req, expect)[i] = Commenting(req.key, req.body, req.idem)
      BY <1>5 DEF Steps
    <2> QED
      BY <1>5, <2>1, <2>2 DEF GoodStep, Commenting, Read
  <1>6. CASE req.kind = "create"
    <2>1. Steps(req, expect) = CreateSteps(req)
      BY <1>6 DEF Steps
    <2> DEFINE label == [do |-> "ensure", label |-> AgentLabel]
               plain == [do |-> "create", in |-> req.in]
               labelled == [do |-> "create",
                            in |-> [req.in EXCEPT !.labels = @ \cup {AgentLabel}]]
    <2>2. CASE req.admin \/ AgentLabel = None
      <3>1. GoodStep(plain, req, expect)
        BY <1>6, InputsCovered DEF GoodStep
      <3>2. Steps(req, expect) = <<plain>>
        BY <2>1, <2>2 DEF CreateSteps
      <3> HIDE DEF plain
      <3>3. Steps(req, expect)[i] = plain
        BY <3>2
      <3> QED
        BY <3>1, <3>3
    <2>3. CASE ~(req.admin \/ AgentLabel = None)
      <3>1. labelled.in \in NewIssues /\ labelled.in.idem = req.in.idem
        <4>1. req.in \in NewIssue
          BY <1>1, <1>6 DEF Request
        <4> QED
          BY <1>6, <2>3, <4>1, InputsCovered DEF NewIssue
      <3>5. GoodStep(label, req, expect) /\ GoodStep(labelled, req, expect)
        BY <1>6, <2>3, <3>1, InputsCovered DEF GoodStep
      <3>2. Steps(req, expect) = <<label, labelled>>
        BY <2>1, <2>3 DEF CreateSteps
      <3> HIDE DEF label, labelled
      <3>3. Steps(req, expect)[i] \in {label, labelled}
        BY <3>2
      <3> QED
        BY <3>5, <3>3
    <2> QED
      BY <2>2, <2>3
  <1>7. CASE req.kind = "save"
    <2> DEFINE x == Appending(req.key, req.text)
               version == IF req.text # None THEN Keep ELSE expect[req.key]
               y == Patching(req.key, req.patch, version)
               s == When(req.text # None, x)
               t == When(~PatchEmpty(req.patch), y)
    <2>1. Steps(req, expect) = SaveSteps(req, expect)
      BY <1>7 DEF Steps
    <2>2. CASE ~RoleAllows(req)
      BY <2>1, <2>2 DEF SaveSteps
    <2>3. CASE RoleAllows(req)
      <3>1. Steps(req, expect) = s \o t
        BY <2>1, <2>3, Zenon DEF SaveSteps
      <3>2. req.key \in Named(req) /\ req.text \in Texts \cup {None}
        BY <1>1, <1>7 DEF Named, Request
      <3>3. req.text # None => GoodStep(x, req, expect)
        BY <1>7, <3>2 DEF GoodStep, Appending, Read
      <3>4. GoodStep(y, req, expect)
        BY <1>7, <2>3, <3>2, PatchingType
      <3> HIDE DEF x, y
      <3>5. s \in {<< >>, <<x>>} /\ t \in {<< >>, <<y>>} /\ (s # << >> => req.text # None)
        BY Zenon DEF When
      <3> HIDE DEF s, t
      <3>6. /\ s \in Seq({x, y}) /\ \A j \in DOMAIN s : req.text # None /\ s[j] = x
           /\ t \in Seq({x, y}) /\ \A j \in DOMAIN t : t[j] = y
        BY <3>5, OneOrNone
      <3> QED
        BY <3>1, <3>3, <3>4, <3>6, ConcatElement
    <2> QED
      BY <2>2, <2>3
  <1>8. CASE req.kind = "form"
    <2> DEFINE x == Commenting(req.key, req.body, None)
               y == Patching(req.key, req.patch, expect[req.key])
               s == When(req.body # None, x)
               t == When(~PatchEmpty(req.patch), y)
    <2>1. Steps(req, expect) = FormSteps(req, expect)
      BY <1>8 DEF Steps
    <2>2. Steps(req, expect) = s \o t
      BY <2>1, Zenon DEF FormSteps
    <2>3. req.key \in Named(req) /\ req.body \in Bodies \cup {None}
      BY <1>1, <1>8 DEF Named, Request
    <2>4. req.body # None => GoodStep(x, req, expect)
      BY <1>8, <2>3 DEF GoodStep, Commenting, Read
    <2>5. GoodStep(y, req, expect)
      BY <1>8, <2>3, PatchingType
    <2> HIDE DEF x, y
    <2>6. s \in {<< >>, <<x>>} /\ t \in {<< >>, <<y>>} /\ (s # << >> => req.body # None)
      BY Zenon DEF When
    <2> HIDE DEF s, t
    <2>7. /\ s \in Seq({x, y}) /\ \A j \in DOMAIN s : req.body # None /\ s[j] = x
         /\ t \in Seq({x, y}) /\ \A j \in DOMAIN t : t[j] = y
      BY <2>6, OneOrNone
    <2> QED
      BY <2>2, <2>4, <2>5, <2>7, ConcatElement
  <1> QED
    BY <1>1, <1>2, <1>3, <1>4, <1>5, <1>6, <1>7, <1>8 DEF Request

\* The steps of a request are a sequence.
LEMMA StepsSequence ==
  ASSUME NEW req \in Requests, NEW expect
  PROVE  /\ Len(Steps(req, expect)) \in Nat
         /\ DOMAIN Steps(req, expect) = 1..Len(Steps(req, expect))
  <1> DEFINE steps == Steps(req, expect)
  <1>1. req \in Request
    BY RequestAssumption
  <1>2. \E set : steps \in Seq(set)
    <2>1. CASE req.kind = "patch"
      <3>1. steps = PatchSteps(req, expect)
        BY <2>1 DEF Steps
      <3> DEFINE x == Patching(req.key, req.patch, expect[req.key])
      <3>2. steps \in {<< >>, <<x>>}
        BY <3>1, Zenon DEF PatchSteps, When
      <3> HIDE DEF steps, x
      <3>3. steps \in Seq({x})
        BY <3>2, OneOrNone
      <3> QED
        BY <3>3
    <2>2. CASE req.kind = "batch"
      <3>1. steps = BatchSteps(req, expect)
        BY <2>2 DEF Steps
      <3>2. req.keys \in Seq(Nat)
        BY <1>1, <2>2 DEF Request
      <3> DEFINE f == [i \in DOMAIN req.keys |->
                         Patching(req.keys[i], req.patch, expect[req.keys[i]])]
                 set == {f[i] : i \in DOMAIN req.keys}
      <3>3. steps = f \/ steps = << >>
        BY <3>1, Zenon DEF BatchSteps
      <3>4. f \in Seq(set)
        BY <3>2
      <3> HIDE DEF steps, f, set
      <3>5. << >> \in Seq(set)
        OBVIOUS
      <3>6. steps \in Seq(set)
        BY <3>3, <3>4, <3>5, Zenon
      <3> QED
        BY <3>6
    <2>3. CASE req.kind = "append"
      <3>1. steps = <<Appending(req.key, req.text)>>
        BY <2>3 DEF Steps
      <3>2. steps \in Seq({Appending(req.key, req.text)})
        BY <3>1
      <3> QED
        BY <3>2
    <2>4. CASE req.kind = "comment"
      <3>1. steps = <<Commenting(req.key, req.body, req.idem)>>
        BY <2>4 DEF Steps
      <3>2. steps \in Seq({Commenting(req.key, req.body, req.idem)})
        BY <3>1
      <3> QED
        BY <3>2
    <2>5. CASE req.kind = "create"
      <3>1. steps = CreateSteps(req)
        BY <2>5 DEF Steps
      <3> DEFINE plain == [do |-> "create", in |-> req.in]
                 label == [do |-> "ensure", label |-> AgentLabel]
                 labelled == [do |-> "create",
                              in |-> [req.in EXCEPT !.labels = @ \cup {AgentLabel}]]
                 set == {plain, label, labelled}
      <3>2. steps = <<plain>> \/ steps = <<label, labelled>>
        BY <3>1, Zenon DEF CreateSteps
      <3>3. plain \in set /\ label \in set /\ labelled \in set
        OBVIOUS
      <3> HIDE DEF plain, label, labelled, set, steps
      <3>4. <<plain>> \in Seq(set) /\ <<label, labelled>> \in Seq(set)
        BY <3>3
      <3>5. steps \in Seq(set)
        BY <3>2, <3>4, Zenon
      <3> QED
        BY <3>5
    <2>6. CASE req.kind = "save"
      <3> DEFINE x == Appending(req.key, req.text)
                 version == IF req.text # None THEN Keep ELSE expect[req.key]
                 y == Patching(req.key, req.patch, version)
                 s == When(req.text # None, x)
                 t == When(~PatchEmpty(req.patch), y)
      <3>1. steps = SaveSteps(req, expect)
        BY <2>6 DEF Steps
      <3>2. steps = << >> \/ steps = s \o t
        BY <3>1, Zenon DEF SaveSteps
      <3> HIDE DEF steps, x, y
      <3>3. s \in {<< >>, <<x>>} /\ t \in {<< >>, <<y>>}
        BY Zenon DEF When
      <3> HIDE DEF s, t
      <3>4. s \in Seq({x, y}) /\ t \in Seq({x, y})
        BY <3>3, OneOrNone
      <3>5. << >> \in Seq({x, y}) /\ s \o t \in Seq({x, y})
        BY <3>4, ConcatProperties
      <3>6. steps \in Seq({x, y})
        BY <3>2, <3>5, Zenon
      <3> QED
        BY <3>6
    <2>7. CASE req.kind = "form"
      <3> DEFINE x == Commenting(req.key, req.body, None)
                 y == Patching(req.key, req.patch, expect[req.key])
                 s == When(req.body # None, x)
                 t == When(~PatchEmpty(req.patch), y)
      <3>1. steps = FormSteps(req, expect)
        BY <2>7 DEF Steps
      <3>2. steps = s \o t
        BY <3>1, Zenon DEF FormSteps
      <3> HIDE DEF steps, x, y
      <3>3. s \in {<< >>, <<x>>} /\ t \in {<< >>, <<y>>}
        BY Zenon DEF When
      <3> HIDE DEF s, t
      <3>4. s \in Seq({x, y}) /\ t \in Seq({x, y})
        BY <3>3, OneOrNone
      <3>5. steps \in Seq({x, y})
        BY <3>2, <3>4, ConcatProperties
      <3> QED
        BY <3>5
    <2> QED
      BY <1>1, <2>1, <2>2, <2>3, <2>4, <2>5, <2>6, <2>7 DEF Request
  <1> HIDE DEF steps
  <1>3. Len(steps) \in Nat /\ DOMAIN steps = 1..Len(steps)
    BY <1>2
  <1> QED
    BY <1>3 DEF steps

-----------------------------------------------------------------------------
(***************************************************************************)
(* What a step of the store does to the versions and the events.           *)
(***************************************************************************)
LEMMA StoreMoves ==
  ASSUME TypeOK, [Next]_vars
  PROVE  \/ \E k : Trail!Create(k) /\ issues'[k].version = 0
         \/ \E k : Trail!Write(k) /\ issues'[k].version = issues[k].version + 1
         \/ issues' = issues /\ (Trail!Elsewhere \/ events' = events)
  <1>1. ASSUME NEW in \in NewIssues, CreateIssue(in)
        PROVE  \E k : Trail!Create(k) /\ issues'[k].version = 0
    BY <1>1, CreateIssueTrail, CreatedRow
  <1>2. ASSUME NEW k \in Keys, NEW p \in Patches, UpdateIssue(k, p)
        PROVE  Trail!Write(k) /\ issues'[k].version = issues[k].version + 1
    BY <1>2, UpdateIssueTrail, UpdatedRow
  <1>3. ASSUME NEW k \in Keys, NEW text \in Texts, AppendDescription(k, text)
        PROVE  Trail!Write(k) /\ issues'[k].version = issues[k].version + 1
    BY <1>3, AppendDescriptionTrail, AppendedRow
  <1>4. CASE NoIssueStep
    BY <1>4, NoIssueStepKeepsIssues, NoIssueStepRecordsElsewhere DEF Trail!vars
  <1> QED
    BY <1>1, <1>2, <1>3, <1>4, NextCases DEF IssueNext

\* Nothing is recorded in a full table.
LEMMA RecordBounded ==
  ASSUME [Next]_vars, events' # events
  PROVE  Len(events) < MaxEvents
  BY DEF Next, IssueNext, CommentNext, RelationNext, MilestoneNext, LabelNext, vars,
         CreateIssue, UpdateIssue, AppendDescription, AddComment, UpdateComment,
         AddRelation, RemoveRelation, CreateMilestone, UpdateMilestone, EnsureLabel,
         UpdateLabelGroups, Record

\* A version is never above the number of events, nor that above its bound.
VersionsCounted ==
  /\ Len(events) <= MaxEvents
  /\ \A k \in Keys : issues[k].version <= Len(events)

StoreInv == TypeOK /\ VersionsCounted

LEMMA StoreStep ==
  ASSUME StoreInv, [Next]_vars
  PROVE  /\ StoreInv'
         /\ Keys \subseteq Keys'
         /\ events' = events \/ Trail!Extended
         /\ Len(events) \in Nat /\ DOMAIN events = 1..Len(events)
  <1>1. TypeOK /\ TypeOK'
    BY NextTypeOK DEF StoreInv
  <1>2. /\ Len(events) \in Nat /\ Len(events') \in Nat
        /\ DOMAIN events = 1..Len(events)
        /\ \A k \in Keys : issues[k].version \in Nat
        /\ \A k \in Keys' : issues'[k].version \in Nat
    BY <1>1 DEF TypeOK, Keys, Issue
  <1>3. Len(events') <= MaxEvents
    <2>1. events' = events \/ Len(events') = Len(events) + 1
      BY <1>1, StoreMoves
      DEF Trail!Create, Trail!Write, Trail!Elsewhere, Trail!Extended
    <2>2. Len(events) <= MaxEvents /\ MaxEvents \in Nat
      BY BoundAssumption DEF StoreInv, VersionsCounted
    <2>3. events' # events => Len(events) < MaxEvents
      BY RecordBounded
    <2> QED
      BY <1>2, <2>1, <2>2, <2>3
  <1>4. CASE \E k : Trail!Create(k) /\ issues'[k].version = 0
    BY <1>1, <1>2, <1>3, <1>4
    DEF StoreInv, VersionsCounted, Trail!Create, Trail!Extended, Keys
  <1>5. CASE \E k : Trail!Write(k) /\ issues'[k].version = issues[k].version + 1
    BY <1>1, <1>2, <1>3, <1>5
    DEF StoreInv, VersionsCounted, Trail!Write, Trail!Extended, Keys
  <1>6. CASE issues' = issues /\ (Trail!Elsewhere \/ events' = events)
    BY <1>1, <1>2, <1>3, <1>6
    DEF StoreInv, VersionsCounted, Trail!Elsewhere, Trail!Extended, Keys
  <1> QED
    BY <1>1, <1>4, <1>5, <1>6, StoreMoves

-----------------------------------------------------------------------------
(***************************************************************************)
(* The calls and the handlers.  A call that has begun keeps its request    *)
(* and what its caller read; a handler is of a call that has begun, and    *)
(* has no more results than its request has steps.                         *)
(***************************************************************************)
Results == {"written", "same"} \cup Failures

Answers == Results \cup {None, "each", "unreachable"}

Expectation == UNION {[keys -> Versions] : keys \in SUBSET Nat}

CallRecord ==
  [phase: {"ready", "waiting", "done"}, req: Requests, attempt: Nat, readAt: Nat,
   expect: Expectation, answer: Answers]

Handler == [call: Callers, attempt: Nat, results: Seq(Results)]

Started(c) == calls[c].phase # "idle"

CallsTyped ==
  /\ DOMAIN calls = Callers
  /\ \A c \in Callers :
       \/ calls[c] = Idle
       \/ calls[c] \in CallRecord /\ Read(calls[c].req, calls[c].expect)

HandlersTyped ==
  \A h \in handlers :
    /\ h \in Handler
    /\ Started(h.call)
    /\ Len(h.results) <= Len(StepsOf(h))

\* A call goes on as the call it was.
Continues(old, new) ==
  /\ new \in CallRecord
  /\ new.req = old.req /\ new.expect = old.expect /\ new.readAt = old.readAt
  /\ new.attempt >= old.attempt

LEMMA StartedTyped ==
  ASSUME CallsTyped, NEW c \in Callers
  PROVE  Started(c) <=> calls[c] # Idle /\ calls[c] \in CallRecord
                         /\ Read(calls[c].req, calls[c].expect)
  BY DEF CallsTyped, Started, Idle, CallRecord

LEMMA FailAttemptContinues ==
  ASSUME CallsTyped, NEW c \in Callers, Started(c), NEW answer \in Answers,
         FailAttempt(c, answer)
  PROVE  \E new : /\ calls' = [calls EXCEPT ![c] = new]
                  /\ Continues(calls[c], new) /\ new.attempt = calls[c].attempt
                  /\ new.phase \in {"ready", "done"}
                  /\ new.phase = "ready" => Retries(calls[c])
                  /\ new.phase = "done" => new.answer = answer
  <1>1. calls[c] \in CallRecord
    BY StartedTyped
  <1> DEFINE again == [calls[c] EXCEPT !.phase = "ready", !.answer = None]
             over == [calls[c] EXCEPT !.phase = "done", !.answer = answer]
             new == IF Retries(calls[c]) THEN again ELSE over
  <1>2. /\ again \in CallRecord /\ again.req = calls[c].req
        /\ again.expect = calls[c].expect /\ again.readAt = calls[c].readAt
        /\ again.attempt = calls[c].attempt /\ again.phase = "ready"
    BY <1>1 DEF CallRecord, Answers
  <1>3. /\ over \in CallRecord /\ over.req = calls[c].req
        /\ over.expect = calls[c].expect /\ over.readAt = calls[c].readAt
        /\ over.attempt = calls[c].attempt /\ over.phase = "done"
        /\ over.answer = answer
    BY <1>1 DEF CallRecord
  <1>4. calls' = [calls EXCEPT ![c] = new]
    BY DEF FailAttempt
  <1>5. calls[c].attempt \in Nat
    BY <1>1 DEF CallRecord
  <1> HIDE DEF again, over
  <1>6. /\ Continues(calls[c], new) /\ new.attempt = calls[c].attempt
        /\ new.phase \in {"ready", "done"}
        /\ new.phase = "ready" => Retries(calls[c])
        /\ new.phase = "done" => new.answer = answer
    <2>1. CASE Retries(calls[c])
      BY <1>2, <1>5, <2>1 DEF Continues
    <2>2. CASE ~Retries(calls[c])
      BY <1>3, <1>5, <2>2 DEF Continues
    <2> QED
      BY <2>1, <2>2
  <1> HIDE DEF new
  <1> QED
    BY <1>4, <1>6

\* How a step leaves the call of one caller: as it was, begun, or continued.
Begun(c) ==
  /\ calls[c] = Idle
  /\ calls'[c] \in CallRecord
  /\ calls'[c].phase = "ready" /\ calls'[c].attempt = 0
  /\ calls'[c].readAt = Len(events)
  /\ DOMAIN calls'[c].expect = Keys /\ Named(calls'[c].req) \subseteq Keys
  /\ \A k \in Keys : calls'[c].expect[k] \in {Keep, issues[k].version}
  /\ issues' = issues /\ events' = events

LEMMA BeginBegins ==
  ASSUME StoreInv, CallsTyped, NEW c \in Callers, NEW req \in Requests, Begin(c, req)
  PROVE  /\ Begun(c) /\ Read(calls'[c].req, calls'[c].expect)
         /\ DOMAIN calls' = Callers
         /\ \A b \in Callers \ {c} : calls'[b] = calls[b]
  <1> DEFINE expect == [k \in Keys |-> IF Conditional(req) THEN issues[k].version ELSE Keep]
             new == [phase |-> "ready", req |-> req, attempt |-> 0,
                     readAt |-> Len(events), expect |-> expect, answer |-> None]
  <1>1. calls[c] = Idle
    BY DEF Begin, CallsTyped, CallRecord
  <1>2. Keys \in SUBSET Nat /\ Len(events) \in Nat
    BY DEF StoreInv, TypeOK, Keys
  <1>3. \A k \in Keys : issues[k].version \in 0..MaxEvents
    <2>1. \A k \in Keys : issues[k] \in Issue
      BY DEF StoreInv, TypeOK, Keys
    <2>2. \A k \in Keys : issues[k].version \in Nat
      BY <2>1 DEF Issue
    <2>3. \A k \in Keys : issues[k].version <= MaxEvents
      BY <1>2, <2>2, BoundAssumption DEF StoreInv, VersionsCounted
    <2> QED
      BY <2>2, <2>3, BoundAssumption
  <1>4. expect \in [Keys -> Versions]
    BY <1>3 DEF Versions
  <1>5. expect \in Expectation
    BY <1>2, <1>4 DEF Expectation
  <1>6. DOMAIN expect = Keys /\ \A k \in Keys : expect[k] \in {Keep, issues[k].version}
    OBVIOUS
  <1> HIDE DEF expect
  <1>7. new \in CallRecord /\ new.phase = "ready" /\ new.attempt = 0
        /\ new.readAt = Len(events) /\ new.expect = expect /\ new.req = req
    BY <1>2, <1>5 DEF CallRecord, Answers
  <1>8. calls' = [calls EXCEPT ![c] = new]
    BY DEF Begin, expect
  <1> HIDE DEF new
  <1>9. /\ calls'[c] = new /\ DOMAIN calls' = Callers
        /\ \A b \in Callers \ {c} : calls'[b] = calls[b]
    BY <1>8 DEF CallsTyped
  <1>10. /\ Named(req) \subseteq Keys
         /\ issues' = issues /\ events' = events
    BY DEF Begin, vars
  <1>11. Read(new.req, new.expect)
    BY <1>4, <1>6, <1>7, <1>10 DEF Read
  <1> QED
    BY <1>1, <1>6, <1>7, <1>9, <1>10, <1>11 DEF Begun

CallMoves(c) ==
  \/ calls'[c] = calls[c]
  \/ Begun(c) /\ Read(calls'[c].req, calls'[c].expect)
  \/ Started(c) /\ Continues(calls[c], calls'[c])

\* One caller's call moves and the others' do not.
LEMMA OneMoves ==
  ASSUME CallsTyped, NEW c \in Callers, Started(c), NEW new, Continues(calls[c], new),
         calls' = [calls EXCEPT ![c] = new]
  PROVE  DOMAIN calls' = Callers /\ \A b \in Callers : CallMoves(b)
  BY DEF CallsTyped, CallMoves

LEMMA AttemptContinues ==
  ASSUME CallsTyped, NEW c \in Callers, Attempt(c)
  PROVE  /\ Started(c) /\ calls[c].phase = "ready"
         /\ \E new : /\ calls' = [calls EXCEPT ![c] = new]
                     /\ Continues(calls[c], new)
                     /\ new.phase = "waiting"
                     /\ new.attempt = calls[c].attempt + 1
  <1> DEFINE n == calls[c].attempt + 1
             new == [calls[c] EXCEPT !.phase = "waiting", !.attempt = n]
  <1>1. calls[c].phase = "ready" /\ Started(c)
    BY DEF Attempt, Started
  <1>2. calls[c] \in CallRecord
    BY <1>1, StartedTyped
  <1>3. n \in Nat /\ n >= calls[c].attempt /\ n = calls[c].attempt + 1
    BY <1>2 DEF CallRecord
  <1>4. calls' = [calls EXCEPT ![c] = new]
    BY DEF Attempt
  <1> HIDE DEF n
  <1>5. /\ new \in CallRecord /\ new.req = calls[c].req /\ new.expect = calls[c].expect
        /\ new.readAt = calls[c].readAt /\ new.attempt = n /\ new.phase = "waiting"
    BY <1>2, <1>3 DEF CallRecord
  <1> HIDE DEF new
  <1>6. Continues(calls[c], new)
    BY <1>3, <1>5 DEF Continues
  <1> QED
    BY <1>1, <1>3, <1>4, <1>5, <1>6

LEMMA ReplyTyped ==
  ASSUME CallsTyped, HandlersTyped, NEW h \in handlers
  PROVE  /\ Reply(h) \in Answers
         /\ Reply(h) = "conflict" =>
              /\ CallOf(h).req.kind # "batch"
              /\ h.results # << >> /\ Last(h.results) = "conflict"
  <1>1. h.results \in Seq(Results)
    BY DEF HandlersTyped, Handler
  <1>2. CASE CallOf(h).req.kind = "batch"
    BY <1>2 DEF Reply, Answers
  <1>3. CASE CallOf(h).req.kind # "batch" /\ h.results = << >>
    BY <1>3 DEF Reply, Answers, Results, Failures
  <1>4. CASE CallOf(h).req.kind # "batch" /\ h.results # << >>
    <2>1. Last(h.results) \in Results
      BY <1>1, <1>4 DEF Last
    <2> QED
      BY <1>4, <2>1 DEF Reply, Answers
  <1> QED
    BY <1>2, <1>3, <1>4

\* The reply of a handler either reaches a caller who waits for it or nobody.
LEMMA AnswerContinues ==
  ASSUME CallsTyped, HandlersTyped, NEW h \in handlers, Answer(h)
  PROVE  /\ h.call \in Callers /\ Started(h.call)
         /\ \/ calls' = calls
            \/ \E new : /\ calls' = [calls EXCEPT ![h.call] = new]
                        /\ Continues(calls[h.call], new)
                        /\ new.attempt = calls[h.call].attempt
                        /\ new.phase \in {"ready", "done"}
                        /\ new.phase = "ready" => Retries(calls[h.call])
                        /\ new.phase = "done" => new.answer = Reply(h)
  <1> DEFINE c == h.call
             new == [calls[c] EXCEPT !.phase = "done", !.answer = Reply(h)]
  <1>1. c \in Callers /\ Started(c)
    BY DEF HandlersTyped, Handler
  <1>2. calls[c] \in CallRecord
    BY <1>1, StartedTyped
  <1>3. Reply(h) \in Answers
    BY ReplyTyped
  <1>4. /\ new \in CallRecord /\ new.req = calls[c].req /\ new.expect = calls[c].expect
        /\ new.readAt = calls[c].readAt /\ new.attempt = calls[c].attempt
        /\ new.phase = "done" /\ new.answer = Reply(h)
    BY <1>2, <1>3 DEF CallRecord
  <1>5. new.attempt >= calls[c].attempt
    BY <1>2, <1>4 DEF CallRecord
  <1>6. Continues(calls[c], new)
    BY <1>4, <1>5 DEF Continues
  <1>7. \/ calls' = calls
        \/ Reply(h) = "busy" /\ FailAttempt(c, "busy")
        \/ calls' = [calls EXCEPT ![c] = new]
    BY DEF Answer
  <1> HIDE DEF new, c
  <1>8. CASE Reply(h) = "busy" /\ FailAttempt(c, "busy")
    BY <1>1, <1>3, <1>8, FailAttemptContinues DEF c
  <1>9. CASE calls' = [calls EXCEPT ![c] = new]
    BY <1>1, <1>4, <1>6, <1>9 DEF c
  <1> QED
    BY <1>1, <1>7, <1>8, <1>9 DEF c

LEMMA AnswerMoves ==
  ASSUME CallsTyped, HandlersTyped, NEW h \in handlers, Answer(h)
  PROVE  DOMAIN calls' = Callers /\ \A b \in Callers : CallMoves(b)
  <1>1. CASE calls' = calls
    BY <1>1 DEF CallsTyped, CallMoves
  <1>2. CASE \E new : /\ calls' = [calls EXCEPT ![h.call] = new]
                      /\ Continues(calls[h.call], new)
                      /\ new.attempt = calls[h.call].attempt
                      /\ new.phase \in {"ready", "done"}
                      /\ new.phase = "ready" => Retries(calls[h.call])
                      /\ new.phase = "done" => new.answer = Reply(h)
    <2>1. h.call \in Callers /\ Started(h.call)
      BY AnswerContinues
    <2>2. PICK new : calls' = [calls EXCEPT ![h.call] = new] /\ Continues(calls[h.call], new)
      BY <1>2
    <2> QED
      BY <2>1, <2>2, OneMoves
  <1> QED
    BY <1>1, <1>2, AnswerContinues

\* The handlers after a step: those there were, one for a new attempt, or one
\* that has come one step further.
Works(g) ==
  \/ g \in handlers
  \/ \E c \in Callers :
       Attempt(c) /\ g = [call |-> c, attempt |-> calls[c].attempt + 1, results |-> << >>]
  \/ \E h \in handlers, result \in Results :
       /\ Handle(h)
       /\ Outcome(StepsOf(h)[Len(h.results) + 1], result)
       /\ g = [h EXCEPT !.results = Append(@, result)]

LEMMA CallsMove ==
  ASSUME StoreInv, CallsTyped, HandlersTyped, [CallNext]_callVars
  PROVE  /\ DOMAIN calls' = Callers
         /\ \A c \in Callers : CallMoves(c)
         /\ \A g \in handlers' : Works(g)
  <1>1. ASSUME NEW c \in Callers, NEW req \in Requests, Begin(c, req)
        PROVE  /\ DOMAIN calls' = Callers /\ \A b \in Callers : CallMoves(b)
               /\ handlers' = handlers
    BY <1>1, BeginBegins DEF CallMoves, Begin
  <1>2. ASSUME NEW c \in Callers, Attempt(c)
        PROVE  /\ DOMAIN calls' = Callers /\ \A b \in Callers : CallMoves(b)
               /\ \A g \in handlers' : Works(g)
    <2>1. DOMAIN calls' = Callers /\ \A b \in Callers : CallMoves(b)
      BY <1>2, AttemptContinues, OneMoves
    <2>2. \A g \in handlers' : Works(g)
      BY <1>2 DEF Attempt, Works
    <2> QED
      BY <2>1, <2>2
  <1>3. ASSUME NEW c \in Callers, Lose(c)
        PROVE  /\ DOMAIN calls' = Callers /\ \A b \in Callers : CallMoves(b)
               /\ handlers' = handlers
    <2>1. Started(c) /\ handlers' = handlers /\ FailAttempt(c, "unreachable")
      BY <1>3 DEF Lose, Started
    <2>2. "unreachable" \in Answers
      BY DEF Answers
    <2> QED
      BY <2>1, <2>2, FailAttemptContinues, OneMoves
  <1>4. ASSUME NEW h \in handlers, Handle(h)
        PROVE  /\ DOMAIN calls' = Callers /\ \A b \in Callers : CallMoves(b)
               /\ \A g \in handlers' : Works(g)
    <2>1. calls' = calls
      BY <1>4 DEF Handle
    <2>2. \A g \in handlers' : Works(g)
      <3>1. PICK result \in Results :
              /\ Outcome(StepsOf(h)[Len(h.results) + 1], result)
              /\ handlers' = (handlers \ {h}) \cup {[h EXCEPT !.results = Append(@, result)]}
        BY <1>4 DEF Handle, Results
      <3> QED
        BY <1>4, <3>1 DEF Works
    <2> QED
      BY <2>1, <2>2 DEF CallsTyped, CallMoves
  <1>5. ASSUME NEW h \in handlers, Answer(h)
        PROVE  /\ DOMAIN calls' = Callers /\ \A b \in Callers : CallMoves(b)
               /\ handlers' \subseteq handlers
    <2>1. handlers' \subseteq handlers
      BY <1>5 DEF Answer
    <2> QED
      BY <1>5, <2>1, AnswerMoves
  <1>6. CASE UNCHANGED callVars
    BY <1>6 DEF callVars, CallsTyped, CallMoves, Works
  <1> QED
    BY <1>1, <1>2, <1>3, <1>4, <1>5, <1>6 DEF CallNext, Works

TypesInv == StoreInv /\ CallsTyped /\ HandlersTyped

\* The step a handler is about to take is one the store knows.
LEMMA NextStepGood ==
  ASSUME CallsTyped, HandlersTyped, NEW h \in handlers, ~Finished(h)
  PROVE  LET n == Len(h.results) + 1 IN
         /\ n \in DOMAIN StepsOf(h)
         /\ GoodStep(StepsOf(h)[n], CallOf(h).req, CallOf(h).expect)
         /\ CallOf(h).req \in Requests /\ CallOf(h) \in CallRecord
  <1>1. /\ h.call \in Callers /\ Started(h.call) /\ h.results \in Seq(Results)
        /\ Len(h.results) <= Len(StepsOf(h))
    BY DEF HandlersTyped, Handler
  <1>2. CallOf(h) \in CallRecord /\ Read(CallOf(h).req, CallOf(h).expect)
    BY <1>1, StartedTyped DEF CallOf
  <1>3. CallOf(h).req \in Requests
    BY <1>2 DEF CallRecord
  <1>4. Len(StepsOf(h)) \in Nat /\ DOMAIN StepsOf(h) = 1..Len(StepsOf(h))
    BY <1>3, StepsSequence DEF StepsOf
  <1>5. Len(h.results) # Len(StepsOf(h)) /\ Len(h.results) \in Nat
    BY <1>1 DEF Finished
  <1>6. Len(h.results) + 1 \in DOMAIN StepsOf(h)
    BY <1>1, <1>4, <1>5
  <1> QED
    BY <1>2, <1>3, <1>6, StepsGood DEF StepsOf

LEMMA HandleIsTransaction ==
  ASSUME CallsTyped, HandlersTyped, NEW h \in handlers, Handle(h)
  PROVE  [Next]_vars
  <1> DEFINE step == StepsOf(h)[Len(h.results) + 1]
  <1>1. GoodStep(step, CallOf(h).req, CallOf(h).expect)
    BY NextStepGood DEF Handle
  <1>2. Writes(step) \/ UNCHANGED vars
    BY DEF Handle, Outcome
  <1> HIDE DEF step
  <1>3. ASSUME Writes(step)
        PROVE  Next
    <2>1. CASE step.do = "patch"
      BY <1>1, <1>3, <2>1 DEF GoodStep, Writes, Next, IssueNext
    <2>2. CASE step.do = "append"
      BY <1>1, <1>3, <2>2 DEF GoodStep, Writes, Next, IssueNext
    <2>3. CASE step.do = "comment"
      <3>1. step.key \in Keys /\ step.body \in Bodies /\ step.idem \in IdemKeys \cup {None}
        BY <1>1, <2>3 DEF GoodStep
      <3>2. AddComment(step.key, step.body, 0, step.idem)
        BY <1>3, <2>3 DEF Writes
      <3>3. 0 \in 0..Len(comments)
        BY <3>2 DEF AddComment
      <3> QED
        BY <3>1, <3>2, <3>3 DEF Next, CommentNext
    <2>4. CASE step.do = "create"
      BY <1>1, <1>3, <2>4 DEF GoodStep, Writes, Next, IssueNext
    <2>5. CASE step.do = "ensure"
      BY <1>1, <1>3, <2>5 DEF GoodStep, Writes, Next, LabelNext
    <2> QED
      BY <1>1, <2>1, <2>2, <2>3, <2>4, <2>5 DEF GoodStep
  <1> QED
    BY <1>2, <1>3

LEMMA CallStepIsTransaction ==
  ASSUME CallsTyped, HandlersTyped, [CallNext]_callVars
  PROVE  [Next]_vars
  <1>1. ASSUME NEW c \in Callers, NEW req \in Requests, Begin(c, req)
        PROVE  UNCHANGED vars
    BY <1>1 DEF Begin
  <1>2. ASSUME NEW c \in Callers, Attempt(c) \/ Lose(c)
        PROVE  UNCHANGED vars
    BY <1>2 DEF Attempt, Lose
  <1>3. ASSUME NEW h \in handlers, Answer(h)
        PROVE  UNCHANGED vars
    BY <1>3 DEF Answer
  <1>4. CASE UNCHANGED callVars
    BY <1>4 DEF callVars, vars
  <1> QED
    BY <1>1, <1>2, <1>3, <1>4, HandleIsTransaction DEF CallNext

\* Whatever a call continues as, its handlers are of the same steps.
LEMMA StartedStays ==
  ASSUME CallsTyped, NEW c \in Callers, CallMoves(c), Started(c)
  PROVE  /\ Started(c)' /\ calls'[c] \in CallRecord
         /\ calls'[c].req = calls[c].req /\ calls'[c].expect = calls[c].expect
         /\ calls'[c].readAt = calls[c].readAt
         /\ calls'[c].attempt >= calls[c].attempt
  <1>1. calls[c] # Idle /\ calls[c] \in CallRecord
    BY StartedTyped
  <1>2. calls[c].attempt >= calls[c].attempt
    BY <1>1 DEF CallRecord
  <1>3. calls'[c] = calls[c] \/ Continues(calls[c], calls'[c])
    BY <1>1 DEF CallMoves, Begun
  <1>4. calls'[c] \in CallRecord
    BY <1>1, <1>3 DEF Continues
  <1> QED
    BY <1>1, <1>2, <1>3, <1>4 DEF Continues, Started, CallRecord

LEMMA TypesStep ==
  ASSUME TypesInv, [CallNext]_callVars
  PROVE  TypesInv'
  <1>1. StoreInv /\ CallsTyped /\ HandlersTyped
    BY DEF TypesInv
  <1>2. [Next]_vars
    BY <1>1, CallStepIsTransaction
  <1>3. StoreInv' /\ Keys \subseteq Keys'
    BY <1>1, <1>2, StoreStep
  <1>4. /\ DOMAIN calls' = Callers /\ \A c \in Callers : CallMoves(c)
        /\ \A g \in handlers' : Works(g)
    BY <1>1, CallsMove
  <1>5. CallsTyped'
    <2>1. ASSUME NEW c \in Callers, calls'[c] # Idle
          PROVE  calls'[c] \in CallRecord /\ Read(calls'[c].req, calls'[c].expect)
      <3>1. CASE calls'[c] = calls[c]
        BY <1>1, <2>1, <3>1 DEF CallsTyped
      <3>2. CASE Begun(c) /\ Read(calls'[c].req, calls'[c].expect)
        BY <3>2 DEF Begun
      <3>3. CASE Started(c) /\ Continues(calls[c], calls'[c])
        <4>1. Read(calls[c].req, calls[c].expect)
          BY <1>1, <3>3, StartedTyped
        <4> QED
          BY <3>3, <4>1 DEF Continues
      <3> QED
        BY <1>4, <3>1, <3>2, <3>3 DEF CallMoves
    <2>2. ASSUME NEW c \in Callers, calls'[c] # Idle
          PROVE  /\ Named(calls'[c].req) \subseteq DOMAIN calls'[c].expect
                 /\ DOMAIN calls'[c].expect \subseteq Keys'
                 /\ \A k \in DOMAIN calls'[c].expect : calls'[c].expect[k] \in Versions
      BY <1>3, <2>1, <2>2 DEF Read
    <2> QED
      BY <1>4, <2>1, <2>2 DEF CallsTyped, Read
  <1>6. HandlersTyped'
    <2>1. ASSUME NEW g \in handlers'
          PROVE  /\ g \in Handler /\ Started(g.call)
                 /\ Len(g.results) <= Len(StepsOf(g))
      <3>1. CASE g \in handlers
        BY <1>1, <3>1 DEF HandlersTyped
      <3>2. CASE \E c \in Callers : /\ Attempt(c)
                                    /\ g = [call |-> c, attempt |-> calls[c].attempt + 1,
                                            results |-> << >>]
        <4>1. PICK c \in Callers : /\ Attempt(c)
                                   /\ g = [call |-> c, attempt |-> calls[c].attempt + 1,
                                           results |-> << >>]
          BY <3>2
        <4>2. Started(c) /\ calls[c] \in CallRecord
          BY <1>1, <4>1, StartedTyped DEF Attempt, Started
        <4>3. calls[c].req \in Requests /\ calls[c].attempt + 1 \in Nat
          BY <4>2 DEF CallRecord
        <4>4. Len(StepsOf(g)) \in Nat
          BY <4>1, <4>3, StepsSequence DEF StepsOf, CallOf
        <4> QED
          BY <4>1, <4>2, <4>3, <4>4 DEF Handler
      <3>3. CASE \E h \in handlers, result \in Results :
                   Handle(h) /\ g = [h EXCEPT !.results = Append(@, result)]
        <4>1. PICK h \in handlers, result \in Results :
                Handle(h) /\ g = [h EXCEPT !.results = Append(@, result)]
          BY <3>3
        <4>2. /\ h \in Handler /\ Started(h.call)
              /\ h.results \in Seq(Results)
          BY <1>1 DEF HandlersTyped, Handler
        <4> DEFINE results == Append(h.results, result)
        <4>7. results \in Seq(Results) /\ g = [h EXCEPT !.results = results]
          BY <4>1, <4>2
        <4> HIDE DEF results
        <4>8. g \in Handler /\ g.call = h.call /\ g.results = results
          BY <4>2, <4>7 DEF Handler
        <4>3. /\ g \in Handler /\ g.call = h.call
              /\ g.results = Append(h.results, result)
          BY <4>8 DEF results
        <4>4. Len(g.results) = Len(h.results) + 1
          BY <4>2, <4>3
        <4>5. Len(h.results) + 1 \in DOMAIN StepsOf(h) /\ CallOf(h).req \in Requests
          BY <1>1, <4>1, NextStepGood DEF Handle
        <4>6. Len(h.results) + 1 <= Len(StepsOf(h))
          BY <4>5, StepsSequence DEF StepsOf
        <4> QED
          BY <4>2, <4>3, <4>4, <4>6 DEF StepsOf, CallOf
      <3> QED
        BY <1>4, <3>1, <3>2, <3>3 DEF Works
    <2>2. ASSUME NEW g \in handlers'
          PROVE  Started(g.call)' /\ Len(g.results) <= Len(StepsOf(g)')
      <3>1. g.call \in Callers /\ Started(g.call)
        BY <2>1 DEF Handler
      <3>2. /\ Started(g.call)' /\ calls'[g.call].req = calls[g.call].req
            /\ calls'[g.call].expect = calls[g.call].expect
        BY <1>1, <1>4, <3>1, StartedStays
      <3> QED
        BY <2>1, <3>2 DEF StepsOf, CallOf
    <2> QED
      BY <2>1, <2>2 DEF HandlersTyped, Started, StepsOf, CallOf
  <1> QED
    BY <1>3, <1>5, <1>6 DEF TypesInv

-----------------------------------------------------------------------------
(***************************************************************************)
(* The database that callers find.                                         *)
(***************************************************************************)
LEMMA InitTypes ==
  ASSUME CallInit
  PROVE  /\ TypesInv /\ ExclusiveLabels /\ MilestoneInProject
         /\ HierarchyInv /\ VersionsInv
  <1>1. FirstRow \in Issue /\ FirstRow.version = 0 /\ FirstRow.milestone = 0
        /\ FirstRow.parent = 0
    BY RequestAssumption DEF FirstRow, Issue, NewIssue
  <1>2. /\ issues = <<FirstRow>> /\ issueSeq = 1 /\ Keys = {1} /\ issues[1] = FirstRow
    BY DEF CallInit, Keys
  <1> DEFINE first == [action |-> "issue.created", row |-> 1, before |-> None,
                       after |-> Loaded(FirstRow)]
  <1>3. Loaded(FirstRow) \in LoadedIssue
    BY <1>1 DEF CallInit, Loaded, Issue, LoadedIssue
  <1>4. first \in Event
    BY <1>3 DEF Event, IssueActions
  <1>5. events = <<first>>
    BY DEF CallInit
  <1> HIDE DEF first
  <1>6. events \in Seq(Event) /\ Len(events) = 1 /\ DOMAIN events = {1}
    BY <1>4, <1>5
  <1>7. issues \in [1..issueSeq -> Issue]
    BY <1>1, <1>2
  <1>8. TypeOK
    BY <1>2, <1>6, <1>7 DEF CallInit, TypeOK
  <1>9. VersionsCounted
    <2>1. 1 <= MaxEvents
      BY RequestAssumption, BoundAssumption
    <2>2. \A k \in Keys : issues[k].version = 0
      BY <1>1, <1>2
    <2> QED
      BY <1>6, <2>1, <2>2 DEF VersionsCounted
  <1>10. CallsTyped /\ HandlersTyped
    BY DEF CallInit, CallsTyped, HandlersTyped
  <1>11. ExclusiveLabels /\ MilestoneInProject
    BY <1>1, <1>2 DEF CallInit, ExclusiveLabels, AtMostOnePerGroup, MilestoneInProject
  <1>12. HierarchyInv
    <2>1. \A k \in Keys : issues[k].parent = 0
      BY <1>1, <1>2
    <2>2. 0 \notin Keys
      BY <1>2
    <2> QED
      BY <2>1, <2>2 DEF HierarchyInv, ParentsExist, Loop
  <1>13. VersionsNeverReused
    BY <1>6 DEF VersionsNeverReused
  <1>14. /\ events[1].row = 1 /\ events[1].after = Loaded(FirstRow)
    BY <1>5 DEF first
  <1>15. Loaded(FirstRow).version = 0
    BY <1>1 DEF Loaded, Issue
  <1>16. VersionsInv
    BY <1>1, <1>2, <1>6, <1>13, <1>14, <1>15 DEF VersionsInv, VersionsBounded
  <1> QED
    BY <1>8, <1>9, <1>10, <1>11, <1>12, <1>16 DEF TypesInv, StoreInv

\* The types of the tables, of the calls and of the handlers, at every moment.
LEMMA TypesCorrect == CallSpec => []TypesInv
  <1>1. CallInit => TypesInv
    BY InitTypes
  <1>2. TypesInv /\ [CallNext]_callVars => TypesInv'
    BY TypesStep
  <1> QED
    BY <1>1, <1>2, PTL DEF CallSpec

\* Whatever handlers run at once and wherever one stops, the store sees whole
\* transactions and nothing else: every step of the server is a step of the
\* issue tables or leaves them alone.
THEOREM CallsAreTransactions == CallSpec => [][Next]_vars
  <1>1. TypesInv /\ [CallNext]_callVars => [Next]_vars
    BY CallStepIsTransaction DEF TypesInv
  <1> QED
    BY <1>1, TypesCorrect, PTL DEF CallSpec

\* So what the tables promise, they promise under any callers: the types, one
\* label of each exclusive group, milestones of the issue's own project, no
\* issue above itself, and versions that name one state for ever.
THEOREM TablesKeptUnderCalls ==
  CallSpec => [](/\ TypeOK /\ ExclusiveLabels /\ MilestoneInProject
                 /\ HierarchyAcyclic /\ VersionsNeverReused)
  <1>1. CallInit => /\ ExclusiveLabels /\ MilestoneInProject
                    /\ HierarchyInv /\ VersionsInv
    BY InitTypes
  <1>2. TypesInv => TypeOK
    BY DEF TypesInv, StoreInv
  <1>3. HierarchyInv => HierarchyAcyclic
    BY DEF HierarchyInv, HierarchyAcyclic, Loop
  <1>4. VersionsInv => VersionsNeverReused
    BY DEF VersionsInv
  <1> QED
    BY <1>1, <1>2, <1>3, <1>4, TypesCorrect, CallsAreTransactions, ExclusiveStep,
       MilestoneStep, HierarchyStep, VersionsStep, PTL DEF CallSpec

(***************************************************************************)
(* What callers are promised, for any number of them.  The argument has    *)
(* three parts.  The version a caller read stands for the writes it has    *)
(* seen, so a matching version means no write since and another one means  *)
(* news.  Every event a handler records is what its step asked for, and    *)
(* leaves behind what a second application of the step would stumble over. *)
(* And no attempt has two handlers, nor a handler two results for a step.  *)
(***************************************************************************)

\* The version read when there were so many events.
Stands(k, version, at) ==
  /\ version <= issues[k].version
  /\ version = issues[k].version => \A m \in WritesOf(k) : m <= at
  /\ version # issues[k].version => \E m \in WritesOf(k) : m > at

LEMMA EventsStay ==
  ASSUME StoreInv, [Next]_vars, NEW n \in DOMAIN events
  PROVE  n \in DOMAIN events' /\ events'[n] = events[n] /\ n \in Nat
  BY StoreStep DEF Trail!Extended

LEMMA WritesStay ==
  ASSUME StoreInv, [Next]_vars, NEW k
  PROVE  WritesOf(k) \subseteq WritesOf(k)'
  BY EventsStay DEF WritesOf

\* The writes of an issue that a step leaves as they were.
LEMMA WritesSame ==
  ASSUME StoreInv, [Next]_vars, NEW k,
         \/ events' = events
         \/ Trail!Extended /\ ~Trail!IsAbout(Trail!NewEvent, k)
  PROVE  WritesOf(k)' = WritesOf(k)
  <1>1. CASE events' = events
    BY <1>1 DEF WritesOf
  <1>2. CASE Trail!Extended /\ ~Trail!IsAbout(Trail!NewEvent, k)
    <2>1. Len(events) \in Nat /\ DOMAIN events = 1..Len(events)
      BY StoreStep
    <2>2. DOMAIN events' = DOMAIN events \cup {Len(events) + 1}
      BY <1>2, <2>1 DEF Trail!Extended
    <2>3. \A n \in DOMAIN events : events'[n] = events[n]
      BY <1>2 DEF Trail!Extended
    <2>4. ~ /\ events'[Len(events) + 1].action \in {"issue.created", "issue.updated"}
            /\ events'[Len(events) + 1].row = k
      BY <1>2 DEF Trail!IsAbout, Trail!NewEvent, IssueActions
    <2> QED
      BY <2>2, <2>3, <2>4 DEF WritesOf
  <1> QED
    BY <1>1, <1>2

LEMMA StandsStays ==
  ASSUME StoreInv, [Next]_vars, NEW k \in Keys, NEW version \in Nat, NEW at \in Nat,
         at <= Len(events), Stands(k, version, at)
  PROVE  Stands(k, version, at)'
  <1>1. TypeOK /\ issues[k].version \in Nat /\ Len(events) \in Nat
    BY StoreStep DEF StoreInv, TypeOK, Keys, Issue
  <1>2. CASE issues'[k] = issues[k] /\ WritesOf(k)' = WritesOf(k)
    BY <1>2 DEF Stands
  <1>3. CASE \E j : Trail!Create(j)
    <2>1. PICK j : Trail!Create(j)
      BY <1>3
    <2>2. j # k /\ issues'[k] = issues[k]
      BY <2>1 DEF Trail!Create, Keys
    <2>3. Trail!Extended /\ ~Trail!IsAbout(Trail!NewEvent, k)
      BY <2>1, <2>2 DEF Trail!Create, Trail!IsAbout
    <2> QED
      BY <1>2, <2>2, <2>3, WritesSame
  <1>4. CASE \E j : Trail!Write(j) /\ issues'[j].version = issues[j].version + 1
    <2>1. PICK j : Trail!Write(j) /\ issues'[j].version = issues[j].version + 1
      BY <1>4
    <2>2. CASE j = k
      <3>1. Len(events) + 1 \in WritesOf(k)'
        BY <1>1, <2>1, <2>2
        DEF Trail!Write, Trail!Extended, Trail!IsAbout, Trail!NewEvent, IssueActions, WritesOf
      <3>2. /\ version <= issues'[k].version /\ version # issues'[k].version
            /\ Len(events) + 1 > at
        BY <1>1, <2>1, <2>2 DEF Stands
      <3> QED
        BY <3>1, <3>2 DEF Stands
    <2>3. CASE j # k
      <3>1. issues'[k] = issues[k]
        BY <2>1, <2>3 DEF Trail!Write, Keys
      <3>2. Trail!Extended /\ ~Trail!IsAbout(Trail!NewEvent, k)
        BY <2>1, <2>3 DEF Trail!Write, Trail!IsAbout
      <3> QED
        BY <1>2, <3>1, <3>2, WritesSame
    <2> QED
      BY <2>2, <2>3
  <1>5. CASE issues' = issues /\ (Trail!Elsewhere \/ events' = events)
    BY <1>2, <1>5, WritesSame DEF Trail!Elsewhere, Trail!IsAbout
  <1> QED
    BY <1>1, <1>3, <1>4, <1>5, StoreMoves

-----------------------------------------------------------------------------
(***************************************************************************)
(* What callers have read.                                                 *)
(***************************************************************************)
ReadStands(call) ==
  /\ call.readAt <= Len(events)
  /\ \A k \in DOMAIN call.expect :
       call.expect[k] # Keep => Stands(k, call.expect[k], call.readAt)

ReadsStand == \A c \in Callers : Started(c) => ReadStands(calls[c])

LEMMA ReadsStep ==
  ASSUME TypesInv, ReadsStand, [CallNext]_callVars
  PROVE  ReadsStand'
  <1>1. StoreInv /\ CallsTyped /\ HandlersTyped /\ [Next]_vars
    BY CallStepIsTransaction DEF TypesInv
  <1>2. /\ Len(events) \in Nat
        /\ Len(events') \in Nat
        /\ Len(events) <= Len(events')
    BY <1>1, StoreStep DEF Trail!Extended
  <1>3. ASSUME NEW c \in Callers, Started(c)', NEW call, call = calls'[c]
        PROVE  ReadStands(call)'
    <2>1. CASE Started(c)
      <3>1. call.expect = calls[c].expect /\ call.readAt = calls[c].readAt
        BY <1>1, <1>3, <2>1, CallsMove, StartedStays
      <3>2. /\ call.readAt \in Nat /\ call.readAt <= Len(events)
            /\ DOMAIN call.expect \subseteq Keys
            /\ \A k \in DOMAIN call.expect : call.expect[k] # Keep =>
                 call.expect[k] \in Nat /\ Stands(k, call.expect[k], call.readAt)
        <4>1. calls[c] \in CallRecord /\ Read(calls[c].req, calls[c].expect)
          BY <1>1, <2>1, StartedTyped
        <4>2. ReadStands(calls[c])
          BY <2>1 DEF ReadsStand
        <4>3. calls[c].readAt \in Nat
          BY <4>1 DEF CallRecord
        <4>4. /\ DOMAIN call.expect \subseteq Keys
              /\ \A k \in DOMAIN call.expect : call.expect[k] # Keep => call.expect[k] \in Nat
          BY <3>1, <4>1 DEF Read, Versions
        <4> QED
          BY <3>1, <4>2, <4>3, <4>4 DEF ReadStands
      <3>3. \A k \in DOMAIN call.expect :
              call.expect[k] # Keep => Stands(k, call.expect[k], call.readAt)'
        BY <1>1, <3>2, StandsStays
      <3> QED
        BY <1>2, <3>2, <3>3 DEF ReadStands
    <2>2. CASE ~Started(c)
      <3>1. Begun(c)
        BY <1>1, <1>3, <2>2, CallsMove DEF CallMoves, Started
      <3>2. /\ call.readAt = Len(events) /\ events' = events /\ issues' = issues
            /\ \A k \in DOMAIN call.expect :
                 call.expect[k] # Keep => call.expect[k] = issues[k].version
            /\ DOMAIN call.expect = Keys
        BY <1>3, <3>1 DEF Begun
      <3>3. \A k \in Keys : Stands(k, issues[k].version, Len(events))
        <4>1. \A k \in Keys : issues[k].version \in Nat
          BY <1>1 DEF StoreInv, TypeOK, Keys, Issue
        <4>2. \A m \in DOMAIN events : m <= Len(events)
          BY <1>1, StoreStep
        <4> QED
          BY <4>1, <4>2 DEF Stands, WritesOf
      <3>4. \A k \in DOMAIN call.expect :
              call.expect[k] # Keep => Stands(k, call.expect[k], call.readAt)'
        BY <3>2, <3>3 DEF Stands, WritesOf
      <3> QED
        BY <1>2, <3>2, <3>4 DEF ReadStands
    <2> QED
      BY <2>1, <2>2
  <1> QED
    BY <1>3 DEF ReadsStand, ReadStands, Stands, WritesOf, Started

-----------------------------------------------------------------------------
(***************************************************************************)
(* What is on record.  Each event a handler recorded is a write of the     *)
(* step it was taking, later than its caller's read; and a key the step    *)
(* carried is spent.                                                       *)
(***************************************************************************)
ByEntry == [call: Callers \cup {None}, attempt: Nat, step: Nat]

Recorded(step, n) ==
  \/ step.do \in {"patch", "append"} /\ n \in WritesOf(step.key)
     /\ events[n].row = step.key
  \/ step.do = "comment" /\ (step.idem # None => KeySpent("comment", step.idem))
  \/ step.do = "create" /\ (step.in.idem # None => KeySpent("issue", step.in.idem))

StepOf(call, entry) == Steps(call.req, call.expect)[entry.step]

\* n is a write of the step, after the read and, if it carried the version that
\* was read, the first since.
Sound(call, entry, n) ==
  /\ call.readAt < n
  /\ entry.step \in DOMAIN Steps(call.req, call.expect)
  /\ Recorded(StepOf(call, entry), n)
  /\ StepOf(call, entry).do = "patch" /\ StepOf(call, entry).patch.expect # Keep =>
       \A m \in WritesOf(StepOf(call, entry).key) : m <= call.readAt \/ n <= m

BySound ==
  /\ by \in Seq(ByEntry) /\ Len(by) = Len(events)
  /\ \A n \in DOMAIN by : \A entry, call :
       entry = by[n] /\ entry.call # None /\ call = calls[entry.call] =>
         Started(entry.call) /\ Sound(call, entry, n)

\* A step that did what the store would not do twice.
Fresh(step) ==
  /\ step.do = "patch" => step.patch.expect \in {Keep, issues[step.key].version}
  /\ step.do = "comment" => ~KeySpent("comment", step.idem)
  /\ step.do = "create" => ~KeySpent("issue", step.in.idem)

LEMMA WrittenRecorded ==
  ASSUME StoreInv, NEW req, NEW expect, NEW step, GoodStep(step, req, expect), Writes(step),
         Trail!Extended, NEW n, n = Len(events) + 1
  PROVE  Recorded(step, n)' /\ Fresh(step)
  <1>1. TypeOK /\ Len(events) \in Nat /\ DOMAIN events' = 1..(Len(events) + 1)
    BY DEF StoreInv, TypeOK, Trail!Extended
  <1>2. n \in DOMAIN events'
    BY <1>1
  <1>3. ASSUME NEW before, NEW after, Record("issue.updated", step.key, before, after)
        PROVE  n \in WritesOf(step.key)' /\ events'[n].row = step.key
    <2>1. events'[n] = [action |-> "issue.updated", row |-> step.key,
                        before |-> before, after |-> after]
      BY <1>1, <1>3, RecordExtends DEF Trail!NewEvent
    <2>2. events'[n].action = "issue.updated" /\ events'[n].row = step.key
      BY <2>1
    <2> QED
      BY <1>2, <2>2 DEF WritesOf
  <1>5. CASE step.do = "patch"
    <2>1. /\ \E before, after : Record("issue.updated", step.key, before, after)
          /\ step.patch.expect \in {Keep, issues[step.key].version}
      BY <1>5 DEF Writes, UpdateIssue
    <2>2. n \in WritesOf(step.key)' /\ events'[n].row = step.key
      BY <1>3, <2>1
    <2> QED
      BY <1>5, <2>1, <2>2 DEF Recorded, Fresh
  <1>6. CASE step.do = "append"
    <2>1. \E before, after : Record("issue.updated", step.key, before, after)
      BY <1>6 DEF Writes, AppendDescription
    <2>2. n \in WritesOf(step.key)' /\ events'[n].row = step.key
      BY <1>3, <2>1
    <2> QED
      BY <1>6, <2>2 DEF Recorded, Fresh
  <1>7. CASE step.do = "comment"
    <2>1. /\ ~KeySpent("comment", step.idem)
          /\ step.idem # None =>
               spent' = spent \cup {<<"comment", step.idem, Len(comments) + 1>>}
      BY <1>7 DEF Writes, AddComment
    <2> DEFINE entry == <<"comment", step.idem, Len(comments) + 1>>
    <2>3. entry[1] = "comment" /\ entry[2] = step.idem
      OBVIOUS
    <2>4. step.idem # None => entry \in spent'
      BY <2>1
    <2> HIDE DEF entry
    <2>2. step.idem # None => KeySpent("comment", step.idem)'
      BY <2>3, <2>4 DEF KeySpent
    <2> QED
      BY <1>7, <2>1, <2>2 DEF Recorded, Fresh
  <1>8. CASE step.do = "create"
    <2>1. /\ ~KeySpent("issue", step.in.idem)
          /\ step.in.idem # None =>
               spent' = spent \cup {<<"issue", step.in.idem, NewKey>>}
      BY <1>8 DEF Writes, CreateIssue
    <2> DEFINE entry == <<"issue", step.in.idem, NewKey>>
    <2>3. entry[1] = "issue" /\ entry[2] = step.in.idem
      OBVIOUS
    <2>4. step.in.idem # None => entry \in spent'
      BY <2>1
    <2> HIDE DEF entry
    <2>2. step.in.idem # None => KeySpent("issue", step.in.idem)'
      BY <2>3, <2>4 DEF KeySpent
    <2> QED
      BY <1>8, <2>1, <2>2 DEF Recorded, Fresh
  <1>9. CASE step.do = "ensure"
    <2>1. events' = events
      BY <1>9 DEF Writes, EnsureLabel
    <2> QED
      BY <1>1, <2>1 DEF Trail!Extended
  <1> QED
    BY <1>5, <1>6, <1>7, <1>8, <1>9 DEF GoodStep

LEMMA SpentGrows ==
  ASSUME [Next]_vars
  PROVE  spent \subseteq spent'
  BY DEF Next, IssueNext, CommentNext, RelationNext, MilestoneNext, LabelNext, vars,
         CreateIssue, UpdateIssue, AppendDescription, AddComment, UpdateComment,
         AddRelation, RemoveRelation, CreateMilestone, UpdateMilestone, EnsureLabel,
         UpdateLabelGroups

LEMMA RecordedStays ==
  ASSUME StoreInv, [Next]_vars, NEW step, NEW n \in DOMAIN events, Recorded(step, n)
  PROVE  Recorded(step, n)'
  <1>1. \A table, idem : KeySpent(table, idem) => KeySpent(table, idem)'
    BY SpentGrows DEF KeySpent
  <1>2. /\ events'[n] = events[n]
        /\ n \in WritesOf(step.key) => n \in WritesOf(step.key)'
    BY EventsStay, WritesStay
  <1> QED
    BY <1>1, <1>2 DEF Recorded

\* A step of the callers records nothing, or is a handler's step that does.
Records(h, step) ==
  LET n == Len(h.results) + 1 IN
  /\ ~Finished(h)
  /\ step = StepsOf(h)[n] /\ Writes(step)
  /\ Trail!Extended
  /\ calls' = calls
  /\ handlers' = (handlers \ {h}) \cup {[h EXCEPT !.results = Append(@, "written")]}
  /\ by' = Append(by, [call |-> h.call, attempt |-> h.attempt, step |-> n])

LEMMA RecordsOrNot ==
  ASSUME TypesInv, [CallNext]_callVars
  PROVE  \/ by' = by /\ events' = events
         \/ \E h \in handlers : \E step : Records(h, step)
  <1>1. StoreInv /\ CallsTyped /\ HandlersTyped /\ [Next]_vars
    BY CallStepIsTransaction DEF TypesInv
  <1>2. events' = events \/ Trail!Extended
    BY <1>1, StoreStep
  <1>3. ASSUME NEW h \in handlers, Handle(h)
        PROVE  \/ by' = by /\ events' = events
               \/ \E step : Records(h, step)
    <2>1. CASE events' = events
      BY <1>3, <2>1 DEF Handle
    <2>2. CASE events' # events
      <3>1. PICK result : /\ Outcome(StepsOf(h)[Len(h.results) + 1], result)
                          /\ handlers' = (handlers \ {h}) \cup
                               {[h EXCEPT !.results = Append(@, result)]}
        BY <1>3 DEF Handle
      <3>2. result = "written" /\ Writes(StepsOf(h)[Len(h.results) + 1])
        BY <2>2, <3>1 DEF Outcome, vars
      <3>3. /\ calls' = calls /\ ~Finished(h)
            /\ by' = Append(by, [call |-> h.call, attempt |-> h.attempt,
                                 step |-> Len(h.results) + 1])
        BY <1>3, <2>2 DEF Handle
      <3> QED
        BY <1>2, <2>2, <3>1, <3>2, <3>3 DEF Records
    <2> QED
      BY <2>1, <2>2
  <1>4. ASSUME NEW c \in Callers, NEW req \in Requests, Begin(c, req)
        PROVE  by' = by /\ events' = events
    BY <1>4 DEF Begin, vars
  <1>5. ASSUME NEW c \in Callers, Attempt(c) \/ Lose(c)
        PROVE  by' = by /\ events' = events
    BY <1>5 DEF Attempt, Lose, vars
  <1>6. ASSUME NEW h \in handlers, Answer(h)
        PROVE  by' = by /\ events' = events
    BY <1>6 DEF Answer, vars
  <1>7. CASE UNCHANGED callVars
    BY <1>7 DEF callVars
  <1> QED
    BY <1>3, <1>4, <1>5, <1>6, <1>7 DEF CallNext

LEMMA OldEntrySound ==
  ASSUME TypesInv, BySound, [CallNext]_callVars, NEW n \in DOMAIN by,
         NEW entry, entry = by[n], entry.call # None,
         NEW call, call = calls'[entry.call]
  PROVE  entry.call \in Callers /\ Started(entry.call)' /\ Sound(call, entry, n)'
  <1>1. StoreInv /\ CallsTyped /\ HandlersTyped /\ [Next]_vars
    BY CallStepIsTransaction DEF TypesInv
  <1>2. entry.call \in Callers /\ n \in DOMAIN events
    <2>1. by \in Seq(ByEntry) /\ Len(by) = Len(events)
      BY DEF BySound
    <2>2. DOMAIN by = DOMAIN events
      BY <1>1, <2>1, StoreStep
    <2>3. entry \in ByEntry
      BY <2>1
    <2> QED
      BY <2>2, <2>3 DEF ByEntry
  <1>3. PICK before : before = calls[entry.call]
    OBVIOUS
  <1>4. Started(entry.call) /\ Sound(before, entry, n)
    BY <1>3 DEF BySound
  <1>5. /\ Started(entry.call)'
        /\ call.req = before.req /\ call.expect = before.expect
        /\ call.readAt = before.readAt
    BY <1>1, <1>2, <1>3, <1>4, CallsMove, StartedStays
  <1>6. StepOf(call, entry) = StepOf(before, entry)
    BY <1>5 DEF StepOf
  <1>7. PICK step : step = StepOf(before, entry)
    OBVIOUS
  <1>8. Recorded(step, n)'
    BY <1>1, <1>2, <1>4, <1>7, RecordedStays DEF Sound
  <1>9. ASSUME step.do = "patch", step.patch.expect # Keep, NEW m \in WritesOf(step.key)'
        PROVE  m <= call.readAt \/ n <= m
    <2>1. CASE m \in DOMAIN events
      <3>1. m \in WritesOf(step.key)
        BY <1>1, <1>9, <2>1, EventsStay DEF WritesOf
      <3> QED
        BY <1>4, <1>5, <1>7, <1>9, <3>1 DEF Sound
    <2>2. CASE m \notin DOMAIN events
      <3>1. /\ Len(events) \in Nat /\ DOMAIN events = 1..Len(events)
            /\ events' = events \/ Trail!Extended
            /\ m \in DOMAIN events'
        BY <1>1, <1>9, StoreStep DEF WritesOf
      <3>2. m = Len(events) + 1
        BY <2>2, <3>1 DEF Trail!Extended
      <3> QED
        BY <1>2, <3>1, <3>2
    <2> QED
      BY <2>1, <2>2
  <1>10. /\ call.readAt < n /\ entry.step \in DOMAIN Steps(call.req, call.expect)
         /\ StepOf(call, entry) = step
    BY <1>4, <1>5, <1>6, <1>7 DEF Sound
  <1> QED
    BY <1>2, <1>5, <1>8, <1>9, <1>10 DEF Sound

LEMMA NewEntrySound ==
  ASSUME TypesInv, ReadsStand, [CallNext]_callVars,
         NEW h \in handlers, NEW step, Records(h, step),
         NEW n, n = Len(events) + 1,
         NEW entry, entry = [call |-> h.call, attempt |-> h.attempt,
                             step |-> Len(h.results) + 1],
         NEW call, call = calls[h.call]
  PROVE  /\ entry \in ByEntry /\ h.call \in Callers /\ Started(h.call)
         /\ StepOf(call, entry) = step /\ Sound(call, entry, n)'
         /\ GoodStep(step, call.req, call.expect) /\ Fresh(step)
  <1>1. StoreInv /\ CallsTyped /\ HandlersTyped /\ [Next]_vars
    BY CallStepIsTransaction DEF TypesInv
  <1>2. /\ h.call \in Callers /\ Started(h.call) /\ h.attempt \in Nat
        /\ Len(h.results) + 1 \in Nat
    BY <1>1 DEF HandlersTyped, Handler
  <1>3. entry \in ByEntry
    BY <1>2 DEF ByEntry
  <1>4. ~Finished(h) /\ step = StepsOf(h)[Len(h.results) + 1] /\ Writes(step) /\ Trail!Extended
    BY DEF Records
  <1>5. /\ entry.step \in DOMAIN Steps(call.req, call.expect)
        /\ GoodStep(step, call.req, call.expect)
        /\ step = StepOf(call, entry)
    BY <1>1, <1>4, NextStepGood DEF StepsOf, CallOf, StepOf
  <1>6. Recorded(step, n)' /\ Fresh(step)
    BY <1>1, <1>4, <1>5, WrittenRecorded
  <1>7. call \in CallRecord /\ ReadStands(call)
    BY <1>1, <1>2, StartedTyped DEF ReadsStand
  <1>8. call.readAt \in Nat /\ call.readAt <= Len(events) /\ Len(events) \in Nat
    BY <1>1, <1>7, StoreStep DEF CallRecord, ReadStands
  <1>9. ASSUME step.do = "patch", step.patch.expect # Keep, NEW m \in WritesOf(step.key)'
        PROVE  m <= call.readAt \/ n <= m
    <2>1. /\ step.patch.expect = call.expect[step.key] /\ step.key \in DOMAIN call.expect
          /\ step.patch.expect = issues[step.key].version
      BY <1>5, <1>6, <1>9 DEF GoodStep, Fresh
    <2>2. \A w \in WritesOf(step.key) : w <= call.readAt
      BY <1>7, <1>9, <2>1 DEF ReadStands, Stands
    <2>3. /\ DOMAIN events = 1..Len(events) /\ m \in DOMAIN events'
          /\ DOMAIN events' = 1..(Len(events) + 1)
      BY <1>1, <1>4, <1>9, StoreStep DEF Trail!Extended, WritesOf
    <2>4. CASE m \in DOMAIN events
      <3>1. m \in WritesOf(step.key)
        BY <1>1, <1>9, <2>4, EventsStay DEF WritesOf
      <3> QED
        BY <2>2, <3>1
    <2>5. CASE m \notin DOMAIN events
      BY <1>8, <2>3, <2>5
    <2> QED
      BY <2>4, <2>5
  <1>10. call.readAt < n
    BY <1>8
  <1> QED
    BY <1>2, <1>3, <1>5, <1>6, <1>9, <1>10 DEF Sound

LEMMA BySoundStep ==
  ASSUME TypesInv, ReadsStand, BySound, [CallNext]_callVars
  PROVE  BySound'
  <1>1. by \in Seq(ByEntry) /\ Len(by) = Len(events) /\ Len(events) \in Nat
    BY DEF BySound
  <1>2. CASE by' = by /\ events' = events
    BY <1>1, <1>2, OldEntrySound DEF BySound
  <1>3. ASSUME NEW h \in handlers, NEW step, Records(h, step)
        PROVE  BySound'
    <2>1. PICK call, new, last :
            /\ call = calls[h.call] /\ last = Len(events) + 1
            /\ new = [call |-> h.call, attempt |-> h.attempt, step |-> Len(h.results) + 1]
      OBVIOUS
    <2>2. /\ new \in ByEntry /\ Started(h.call) /\ Sound(call, new, last)'
          /\ h.call \in Callers /\ new.call = h.call
      BY <1>3, <2>1, NewEntrySound
    <2>3. by' = Append(by, new) /\ calls' = calls /\ Len(events') = last
      BY <1>3, <2>1 DEF Records, Trail!Extended
    <2>4. /\ by' \in Seq(ByEntry) /\ Len(by') = last /\ by'[last] = new
          /\ DOMAIN by' = DOMAIN by \cup {last}
          /\ \A n \in DOMAIN by : by'[n] = by[n]
      BY <1>1, <2>1, <2>2, <2>3
    <2>5. ASSUME NEW n \in DOMAIN by', NEW entry, entry = by'[n], entry.call # None,
                 NEW now, now = calls'[entry.call]
          PROVE  Started(entry.call)' /\ Sound(now, entry, n)'
      <3>1. CASE n \in DOMAIN by
        <4>1. entry = by[n]
          BY <2>4, <2>5, <3>1
        <4> QED
          BY <2>5, <3>1, <4>1, OldEntrySound
      <3>2. CASE n = last
        <4>1. entry = new /\ now = call /\ Started(entry.call)'
          BY <2>1, <2>2, <2>3, <2>4, <2>5, <3>2 DEF Started
        <4> QED
          BY <2>2, <3>2, <4>1
      <3> QED
        BY <2>4, <2>5, <3>1, <3>2
    <2> QED
      BY <2>3, <2>4, <2>5 DEF BySound
  <1> QED
    BY <1>2, <1>3, RecordsOrNot

RecordInv == TypesInv /\ ReadsStand /\ BySound

LEMMA RecordInvHolds == CallSpec => []RecordInv
  <1>1. ASSUME CallInit
        PROVE  RecordInv
    <2>1. ReadsStand
      BY <1>1 DEF CallInit, ReadsStand, Started, Idle
    <2>2. by = <<[call |-> None, attempt |-> 0, step |-> 0]>> /\ Len(events) = 1
      BY <1>1 DEF CallInit
    <2>3. [call |-> None, attempt |-> 0, step |-> 0] \in ByEntry
      BY DEF ByEntry
    <2>4. by \in Seq(ByEntry) /\ Len(by) = 1 /\ \A n \in DOMAIN by : by[n].call = None
      BY <2>2, <2>3
    <2>5. BySound
      BY <2>2, <2>4 DEF BySound
    <2> QED
      BY <1>1, <2>1, <2>5, InitTypes DEF RecordInv
  <1>2. RecordInv /\ [CallNext]_callVars => RecordInv'
    BY TypesStep, ReadsStep, BySoundStep DEF RecordInv
  <1> QED
    BY <1>1, <1>2, PTL DEF CallSpec

\* The event of a call, with the call and the step it is of.
LEMMA OnRecord ==
  ASSUME RecordInv, NEW n \in ByCalls
  PROVE  /\ n \in DOMAIN events /\ by[n] \in ByEntry
         /\ by[n].call \in Callers /\ Started(by[n].call)
         /\ calls[by[n].call] \in CallRecord
         /\ Read(calls[by[n].call].req, calls[by[n].call].expect)
         /\ Sound(calls[by[n].call], by[n], n)
         /\ StepBy(n) = StepOf(calls[by[n].call], by[n])
         /\ GoodStep(StepBy(n), RequestOf(n), calls[by[n].call].expect)
  <1>1. n \in DOMAIN by /\ by[n].call # None
    BY DEF ByCalls
  <1>2. StoreInv /\ CallsTyped /\ by \in Seq(ByEntry) /\ Len(by) = Len(events)
    BY DEF RecordInv, TypesInv, BySound
  <1>3. Len(events) \in Nat /\ DOMAIN events = 1..Len(events)
    BY <1>2 DEF StoreInv, TypeOK
  <1>4. n \in DOMAIN events /\ by[n] \in ByEntry /\ by[n].call \in Callers
    <2>1. DOMAIN by = DOMAIN events /\ by[n] \in ByEntry
      BY <1>1, <1>2, <1>3
    <2> QED
      BY <1>1, <2>1 DEF ByEntry
  <1>5. Started(by[n].call) /\ Sound(calls[by[n].call], by[n], n)
    BY <1>1 DEF RecordInv, BySound
  <1>6. /\ calls[by[n].call] \in CallRecord
        /\ Read(calls[by[n].call].req, calls[by[n].call].expect)
    BY <1>2, <1>4, <1>5, StartedTyped
  <1>7. StepBy(n) = StepOf(calls[by[n].call], by[n])
    BY DEF StepBy, StepOf, RequestOf
  <1>8. GoodStep(StepBy(n), RequestOf(n), calls[by[n].call].expect)
    BY <1>5, <1>6, <1>7, StepsGood DEF Sound, StepOf, RequestOf, CallRecord
  <1> QED
    BY <1>4, <1>5, <1>6, <1>7, <1>8

\* A write under the version its caller read is the first since that read,
\* whatever the number of callers, attempts and items.
THEOREM UpdatesNotLost == CallSpec => []NoLostUpdate
  <1>1. ASSUME RecordInv
        PROVE  NoLostUpdate
    <2> SUFFICES ASSUME NEW n \in ByCalls, StepBy(n).do = "patch",
                        StepBy(n).patch.expect # Keep, NEW m \in WritesOf(events[n].row)
                 PROVE  ~(calls[by[n].call].readAt < m /\ m < n)
      BY DEF NoLostUpdate
    <2>1. /\ events[n].row = StepBy(n).key
          /\ \A w \in WritesOf(StepBy(n).key) : w <= calls[by[n].call].readAt \/ n <= w
      BY <1>1, OnRecord DEF Sound, Recorded
    <2>2. m \in Nat /\ n \in Nat /\ calls[by[n].call].readAt \in Nat
      <3>1. DOMAIN events = 1..Len(events) /\ Len(events) \in Nat
        BY <1>1 DEF RecordInv, TypesInv, StoreInv, TypeOK
      <3> QED
        BY <1>1, <3>1, OnRecord DEF WritesOf, CallRecord
    <2> QED
      BY <2>1, <2>2
  <1> QED
    BY <1>1, RecordInvHolds, PTL

-----------------------------------------------------------------------------
(***************************************************************************)
(* Conflicts.  A handler that came to one knows of a write its caller did  *)
(* not see, and only what a handler came to is ever told.                  *)
(***************************************************************************)
News(k, at) == \E m \in WritesOf(k) : m > at

HandlerNews ==
  \A h \in handlers : \A call :
    /\ call = calls[h.call] /\ call.req.kind # "batch"
    /\ h.results # << >> /\ Last(h.results) = "conflict"
    => News(call.req.key, call.readAt)

CallerNews ==
  \A c \in Callers : \A call :
    call = calls[c] /\ call.phase = "done" /\ call.answer = "conflict"
      => News(call.req.key, call.readAt)

\* How a call came to its end.
LEMMA Concluded ==
  ASSUME TypesInv, [CallNext]_callVars, NEW c \in Callers, calls'[c].phase = "done"
  PROVE  \/ calls'[c] = calls[c]
         \/ Started(c) /\ calls'[c].answer = "unreachable"
         \/ Started(c) /\ \E h \in handlers :
              Finished(h) /\ h.call = c /\ calls'[c].answer = Reply(h)
  <1>1. StoreInv /\ CallsTyped /\ HandlersTyped /\ DOMAIN calls = Callers
    BY DEF TypesInv, CallsTyped
  <1>2. ASSUME NEW b \in Callers, NEW req \in Requests, Begin(b, req)
        PROVE  calls'[c] = calls[c]
    BY <1>1, <1>2, BeginBegins DEF Begun
  <1>3. ASSUME NEW b \in Callers, Attempt(b)
        PROVE  calls'[c] = calls[c]
    <2>1. PICK new : calls' = [calls EXCEPT ![b] = new] /\ new.phase = "waiting"
      BY <1>1, <1>3, AttemptContinues
    <2> QED
      BY <1>1, <2>1
  <1>4. ASSUME NEW b \in Callers, Lose(b)
        PROVE  \/ calls'[c] = calls[c]
               \/ Started(c) /\ calls'[c].answer = "unreachable"
    <2>1. Started(b) /\ FailAttempt(b, "unreachable") /\ "unreachable" \in Answers
      BY <1>4 DEF Lose, Started, Answers
    <2>2. PICK new : /\ calls' = [calls EXCEPT ![b] = new]
                     /\ new.phase = "done" => new.answer = "unreachable"
      BY <1>1, <2>1, FailAttemptContinues
    <2> QED
      BY <1>1, <2>1, <2>2
  <1>5. ASSUME NEW h \in handlers, Answer(h)
        PROVE  \/ calls'[c] = calls[c]
               \/ Started(c) /\ Finished(h) /\ h.call = c /\ calls'[c].answer = Reply(h)
    <2>1. h.call \in Callers /\ Started(h.call) /\ Finished(h)
      BY <1>1, <1>5, AnswerContinues DEF Answer
    <2>2. CASE calls' = calls
      BY <2>2
    <2>3. CASE \E new : /\ calls' = [calls EXCEPT ![h.call] = new]
                        /\ new.phase = "done" => new.answer = Reply(h)
      <3>1. PICK new : /\ calls' = [calls EXCEPT ![h.call] = new]
                       /\ new.phase = "done" => new.answer = Reply(h)
        BY <2>3
      <3> QED
        BY <1>1, <2>1, <3>1
    <2> QED
      BY <1>1, <1>5, <2>2, <2>3, AnswerContinues
  <1>6. ASSUME NEW h \in handlers, Handle(h)
        PROVE  calls'[c] = calls[c]
    BY <1>6 DEF Handle
  <1>7. CASE UNCHANGED callVars
    BY <1>7 DEF callVars
  <1> QED
    BY <1>2, <1>3, <1>4, <1>5, <1>6, <1>7 DEF CallNext

LEMMA NewsStays ==
  ASSUME StoreInv, [Next]_vars, NEW k, NEW at, News(k, at)
  PROVE  News(k, at)'
  BY WritesStay DEF News

\* A step that came to a conflict.
LEMMA ConflictKnows ==
  ASSUME TypesInv, ReadsStand, NEW h \in handlers, ~Finished(h),
         Conflicts(StepsOf(h)[Len(h.results) + 1]),
         NEW call, call = calls[h.call], call.req.kind # "batch"
  PROVE  News(call.req.key, call.readAt)
  <1>1. StoreInv /\ CallsTyped /\ HandlersTyped
    BY DEF TypesInv
  <1>2. PICK step : step = StepsOf(h)[Len(h.results) + 1]
    OBVIOUS
  <1>3. GoodStep(step, call.req, call.expect) /\ call.req \in Requests
    BY <1>1, <1>2, NextStepGood DEF CallOf
  <1>4. step.do = "patch" /\ step.patch.expect \notin {Keep, issues[step.key].version}
    BY <1>2 DEF Conflicts
  <1>5. /\ step.key \in Named(call.req) /\ step.key \in DOMAIN call.expect
        /\ step.patch.expect = call.expect[step.key] /\ call.req.kind # "create"
    BY <1>3, <1>4 DEF GoodStep
  <1>6. step.key = call.req.key
    BY <1>5 DEF Named
  <1>7. ReadStands(call)
    <2>1. h.call \in Callers /\ Started(h.call)
      BY <1>1 DEF HandlersTyped, Handler
    <2> QED
      BY <2>1 DEF ReadsStand
  <1> QED
    BY <1>4, <1>5, <1>6, <1>7 DEF ReadStands, Stands, News

LEMMA HandlerNewsStep ==
  ASSUME RecordInv, HandlerNews, [CallNext]_callVars
  PROVE  HandlerNews'
  <1>1. /\ StoreInv /\ CallsTyped /\ HandlersTyped /\ [Next]_vars
        /\ TypesInv /\ ReadsStand
    BY CallStepIsTransaction DEF RecordInv, TypesInv
  <1>2. ASSUME NEW g \in handlers', NEW call, call = calls'[g.call],
               call.req.kind # "batch", g.results # << >>, Last(g.results) = "conflict"
        PROVE  News(call.req.key, call.readAt)'
    <2>1. CASE g \in handlers
      <3>1. g.call \in Callers /\ Started(g.call)
        BY <1>1, <2>1 DEF HandlersTyped, Handler
      <3>2. PICK old : old = calls[g.call]
        OBVIOUS
      <3>3. call.req = old.req /\ call.readAt = old.readAt
        BY <1>1, <1>2, <3>1, <3>2, CallsMove, StartedStays
      <3>4. News(call.req.key, call.readAt)
        BY <1>2, <2>1, <3>2, <3>3 DEF HandlerNews
      <3> QED
        BY <1>1, <3>4, NewsStays
    <2>2. CASE \E h \in handlers, result \in Results :
                 /\ Handle(h)
                 /\ Outcome(StepsOf(h)[Len(h.results) + 1], result)
                 /\ g = [h EXCEPT !.results = Append(@, result)]
      <3>1. PICK h \in handlers, result \in Results :
              /\ Handle(h)
              /\ Outcome(StepsOf(h)[Len(h.results) + 1], result)
              /\ g = [h EXCEPT !.results = Append(@, result)]
        BY <2>2
      <3>2. h \in Handler /\ h.results \in Seq(Results)
        BY <1>1 DEF HandlersTyped, Handler
      <3>3. g.results = Append(h.results, result) /\ g.call = h.call
        BY <3>1, <3>2 DEF Handler
      <3>4. result = "conflict"
        BY <1>2, <3>2, <3>3 DEF Last
      <3>5. Conflicts(StepsOf(h)[Len(h.results) + 1]) /\ ~Finished(h) /\ calls' = calls
        BY <3>1, <3>4 DEF Outcome, Handle
      <3>6. News(call.req.key, call.readAt)
        BY <1>1, <1>2, <3>3, <3>5, ConflictKnows
      <3> QED
        BY <1>1, <3>6, NewsStays
    <2>3. CASE \E c \in Callers : g = [call |-> c, attempt |-> calls[c].attempt + 1,
                                       results |-> << >>]
      BY <1>2, <2>3
    <2> QED
      BY <1>1, <2>1, <2>2, <2>3, CallsMove DEF Works
  <1> QED
    BY <1>2 DEF HandlerNews

LEMMA CallerNewsStep ==
  ASSUME RecordInv, HandlerNews, CallerNews, [CallNext]_callVars
  PROVE  CallerNews'
  <1>1. /\ StoreInv /\ CallsTyped /\ HandlersTyped /\ [Next]_vars /\ TypesInv
    BY CallStepIsTransaction DEF RecordInv, TypesInv
  <1>2. ASSUME NEW c \in Callers, NEW call, call = calls'[c], call.phase = "done",
               call.answer = "conflict"
        PROVE  News(call.req.key, call.readAt)'
    <2>1. CASE calls'[c] = calls[c]
      <3>1. News(call.req.key, call.readAt)
        BY <1>2, <2>1 DEF CallerNews
      <3> QED
        BY <1>1, <3>1, NewsStays
    <2>2. CASE Started(c) /\ \E h \in handlers : h.call = c /\ calls'[c].answer = Reply(h)
      <3>1. PICK h \in handlers : h.call = c /\ Reply(h) = "conflict"
        BY <1>2, <2>2
      <3>2. /\ CallOf(h).req.kind # "batch"
            /\ h.results # << >> /\ Last(h.results) = "conflict"
        BY <1>1, <3>1, ReplyTyped
      <3>3. PICK old : old = calls[c]
        OBVIOUS
      <3>4. call.req = old.req /\ call.readAt = old.readAt
        BY <1>1, <1>2, <2>2, <3>3, CallsMove, StartedStays
      <3>5. News(call.req.key, call.readAt)
        BY <3>1, <3>2, <3>3, <3>4 DEF HandlerNews, CallOf
      <3> QED
        BY <1>1, <3>5, NewsStays
    <2> QED
      BY <1>1, <1>2, <2>1, <2>2, Concluded
  <1> QED
    BY <1>2 DEF CallerNews

\* Nobody is told of a conflict without a write by somebody since the read.
THEOREM ConflictsAreNews == CallSpec => []ConflictIsNews
  <1>1. CallInit => HandlerNews /\ CallerNews
    BY DEF CallInit, HandlerNews, CallerNews, Idle
  <1>2. CallerNews => ConflictIsNews
    BY DEF CallerNews, ConflictIsNews, News
  <1> QED
    BY <1>1, <1>2, RecordInvHolds, HandlerNewsStep, CallerNewsStep, PTL DEF CallSpec

-----------------------------------------------------------------------------
(***************************************************************************)
(* Attempts.  An attempt has one handler at most, whose results are ahead  *)
(* of what it has on record; a request that is not repeated is attempted   *)
(* once.                                                                   *)
(***************************************************************************)
SameAttempt(a, b) == a.call = b.call /\ a.attempt = b.attempt

CallsCounted ==
  \A c \in Callers :
    Started(c) /\ ~Repeatable(calls[c].req) =>
      calls[c].attempt <= 1 /\ (calls[c].phase = "ready" => calls[c].attempt = 0)

HandlersCounted ==
  \A h \in handlers : 1 <= h.attempt /\ h.attempt <= calls[h.call].attempt

OneHandler == \A g, h \in handlers : SameAttempt(g, h) => g = h

RecordsCounted ==
  \A n \in DOMAIN by : \A entry :
    entry = by[n] /\ entry.call # None =>
      /\ 1 <= entry.attempt /\ entry.attempt <= calls[entry.call].attempt
      /\ \A h \in handlers : SameAttempt(h, entry) => entry.step <= Len(h.results)

AttemptsInv == CallsCounted /\ HandlersCounted /\ OneHandler /\ RecordsCounted

LEMMA AttemptsMove ==
  ASSUME TypesInv, [CallNext]_callVars, NEW c \in Callers, Started(c)
  PROVE  \/ calls'[c] = calls[c]
         \/ /\ calls[c].phase = "ready" /\ calls'[c].phase = "waiting"
            /\ calls'[c].attempt = calls[c].attempt + 1
         \/ /\ calls'[c].attempt = calls[c].attempt
            /\ calls'[c].phase = "ready" => Retries(calls[c])
  <1>1. StoreInv /\ CallsTyped /\ HandlersTyped /\ DOMAIN calls = Callers
    BY DEF TypesInv, CallsTyped
  <1>2. ASSUME NEW b \in Callers, NEW req \in Requests, Begin(b, req)
        PROVE  calls'[c] = calls[c]
    BY <1>1, <1>2, BeginBegins, StartedTyped DEF Begun
  <1>3. ASSUME NEW b \in Callers, Attempt(b)
        PROVE  \/ calls'[c] = calls[c]
               \/ /\ calls[c].phase = "ready" /\ calls'[c].phase = "waiting"
                  /\ calls'[c].attempt = calls[c].attempt + 1
    <2>1. PICK new : /\ calls' = [calls EXCEPT ![b] = new] /\ new.phase = "waiting"
                     /\ new.attempt = calls[b].attempt + 1 /\ calls[b].phase = "ready"
      BY <1>1, <1>3, AttemptContinues
    <2> QED
      BY <1>1, <2>1
  <1>4. ASSUME NEW b \in Callers, Lose(b)
        PROVE  \/ calls'[c] = calls[c]
               \/ /\ calls'[c].attempt = calls[c].attempt
                  /\ calls'[c].phase = "ready" => Retries(calls[c])
    <2>1. Started(b) /\ FailAttempt(b, "unreachable") /\ "unreachable" \in Answers
      BY <1>4 DEF Lose, Started, Answers
    <2>2. PICK new : /\ calls' = [calls EXCEPT ![b] = new]
                     /\ new.attempt = calls[b].attempt
                     /\ new.phase = "ready" => Retries(calls[b])
      BY <1>1, <2>1, FailAttemptContinues
    <2> QED
      BY <1>1, <2>2
  <1>5. ASSUME NEW h \in handlers, Answer(h)
        PROVE  \/ calls'[c] = calls[c]
               \/ /\ calls'[c].attempt = calls[c].attempt
                  /\ calls'[c].phase = "ready" => Retries(calls[c])
    <2>1. CASE calls' = calls
      BY <2>1
    <2>2. CASE \E new : /\ calls' = [calls EXCEPT ![h.call] = new]
                        /\ new.attempt = calls[h.call].attempt
                        /\ new.phase = "ready" => Retries(calls[h.call])
      BY <1>1, <2>2
    <2> QED
      BY <1>1, <1>5, <2>1, <2>2, AnswerContinues
  <1>6. ASSUME NEW h \in handlers, Handle(h)
        PROVE  calls'[c] = calls[c]
    BY <1>6 DEF Handle
  <1>7. CASE UNCHANGED callVars
    BY <1>7 DEF callVars
  <1> QED
    BY <1>2, <1>3, <1>4, <1>5, <1>6, <1>7 DEF CallNext

\* How the handlers and the record of their steps go on together.
Opens(c) ==
  /\ Attempt(c)
  /\ handlers' = handlers \cup
       {[call |-> c, attempt |-> calls[c].attempt + 1, results |-> << >>]}
  /\ by' = by

Advances(h, result) ==
  /\ ~Finished(h)
  /\ Outcome(StepsOf(h)[Len(h.results) + 1], result)
  /\ calls' = calls
  /\ handlers' = (handlers \ {h}) \cup {[h EXCEPT !.results = Append(@, result)]}
  /\ by' = IF events' = events THEN by
           ELSE Append(by, [call |-> h.call, attempt |-> h.attempt,
                            step |-> Len(h.results) + 1])

LEMMA HandlersMove ==
  ASSUME [CallNext]_callVars
  PROVE  \/ handlers' \subseteq handlers /\ by' = by
         \/ \E c \in Callers : Opens(c)
         \/ \E h \in handlers, result \in Results : Advances(h, result)
  <1>1. ASSUME NEW c \in Callers, NEW req \in Requests, Begin(c, req)
        PROVE  handlers' \subseteq handlers /\ by' = by
    BY <1>1 DEF Begin
  <1>2. ASSUME NEW c \in Callers, Attempt(c)
        PROVE  (handlers' \subseteq handlers /\ by' = by) \/ Opens(c)
    BY <1>2 DEF Attempt, Opens
  <1>3. ASSUME NEW c \in Callers, Lose(c)
        PROVE  handlers' \subseteq handlers /\ by' = by
    BY <1>3 DEF Lose
  <1>4. ASSUME NEW h \in handlers, Answer(h)
        PROVE  handlers' \subseteq handlers /\ by' = by
    BY <1>4 DEF Answer
  <1>5. ASSUME NEW h \in handlers, Handle(h)
        PROVE  \E result \in Results : Advances(h, result)
    BY <1>5 DEF Handle, Advances, Results
  <1>6. CASE UNCHANGED callVars
    BY <1>6 DEF callVars
  <1> QED
    BY <1>1, <1>2, <1>3, <1>4, <1>5, <1>6 DEF CallNext

LEMMA CallsCountedStep ==
  ASSUME TypesInv, CallsCounted, [CallNext]_callVars
  PROVE  CallsCounted'
  <1>1. StoreInv /\ CallsTyped /\ HandlersTyped
    BY DEF TypesInv
  <1>2. ASSUME NEW c \in Callers, Started(c)', ~Repeatable(calls'[c].req)
        PROVE  calls'[c].attempt <= 1 /\ (calls'[c].phase = "ready" => calls'[c].attempt = 0)
    <2>1. CASE ~Started(c)
      <3>1. Begun(c)
        BY <1>1, <1>2, <2>1, CallsMove DEF CallMoves, Started
      <3> QED
        BY <3>1 DEF Begun
    <2>2. CASE Started(c)
      <3>1. calls'[c].req = calls[c].req
        BY <1>1, <2>2, CallsMove, StartedStays
      <3>2. /\ calls[c].attempt <= 1 /\ (calls[c].phase = "ready" => calls[c].attempt = 0)
            /\ ~Retries(calls[c])
        BY <1>2, <2>2, <3>1 DEF CallsCounted, Retries
      <3> QED
        BY <2>2, <3>2, AttemptsMove
    <2> QED
      BY <2>1, <2>2
  <1> QED
    BY <1>2 DEF CallsCounted, Started

LEMMA HandlersCountedStep ==
  ASSUME TypesInv, AttemptsInv, [CallNext]_callVars
  PROVE  HandlersCounted' /\ OneHandler'
  <1>1. StoreInv /\ CallsTyped /\ HandlersTyped /\ DOMAIN calls = Callers
    BY DEF TypesInv, CallsTyped
  <1>2. \A h \in handlers :
          /\ h \in Handler /\ h.call \in Callers /\ h.attempt \in Nat /\ Started(h.call)
          /\ 1 <= h.attempt /\ h.attempt <= calls[h.call].attempt
          /\ calls[h.call].attempt \in Nat /\ calls'[h.call].attempt \in Nat
          /\ calls[h.call].attempt <= calls'[h.call].attempt
    <2>1. \A h \in handlers : /\ h \in Handler /\ h.call \in Callers /\ h.attempt \in Nat
                              /\ Started(h.call)
      BY <1>1 DEF HandlersTyped, Handler
    <2>2. \A c \in Callers : Started(c) =>
            calls[c].attempt \in Nat /\ calls'[c].attempt \in Nat
            /\ calls[c].attempt <= calls'[c].attempt
      BY <1>1, StartedTyped, CallsMove, StartedStays DEF CallRecord
    <2> QED
      BY <2>1, <2>2 DEF AttemptsInv, HandlersCounted
  <1>3. CASE handlers' \subseteq handlers
    BY <1>2, <1>3 DEF AttemptsInv, HandlersCounted, OneHandler
  <1>4. ASSUME NEW c \in Callers, Opens(c)
        PROVE  HandlersCounted' /\ OneHandler'
    <2> DEFINE new == [call |-> c, attempt |-> calls[c].attempt + 1, results |-> << >>]
    <2>1. /\ calls[c].attempt \in Nat /\ calls'[c].attempt = calls[c].attempt + 1
      <3>1. Started(c) /\ calls[c] \in CallRecord
        BY <1>1, <1>4, StartedTyped DEF Opens, Attempt, Started
      <3>2. PICK next : /\ calls' = [calls EXCEPT ![c] = next]
                        /\ next.attempt = calls[c].attempt + 1
        BY <1>1, <1>4, AttemptContinues DEF Opens
      <3> QED
        BY <1>1, <3>1, <3>2 DEF CallRecord
    <2>2. new.call = c /\ new.attempt = calls[c].attempt + 1 /\ handlers' = handlers \cup {new}
      BY <1>4 DEF Opens
    <2> HIDE DEF new
    <2>3. \A h \in handlers : ~SameAttempt(h, new) /\ ~SameAttempt(new, h)
      BY <1>2, <2>1, <2>2 DEF SameAttempt
    <2>4. HandlersCounted'
      BY <1>2, <2>1, <2>2 DEF HandlersCounted
    <2>5. OneHandler'
      BY <2>2, <2>3 DEF AttemptsInv, OneHandler
    <2> QED
      BY <2>4, <2>5
  <1>5. ASSUME NEW h \in handlers, NEW result \in Results, Advances(h, result)
        PROVE  HandlersCounted' /\ OneHandler'
    <2> DEFINE next == [h EXCEPT !.results = Append(@, result)]
    <2>1. h \in Handler
      BY <1>2
    <2>2. next.call = h.call /\ next.attempt = h.attempt
      BY <2>1 DEF Handler
    <2>3. handlers' = (handlers \ {h}) \cup {next} /\ calls' = calls
      BY <1>5 DEF Advances
    <2> HIDE DEF next
    <2>4. \A g \in handlers \ {h} : ~SameAttempt(g, next) /\ ~SameAttempt(next, g)
      BY <2>2 DEF AttemptsInv, OneHandler, SameAttempt
    <2>5. HandlersCounted'
      BY <1>2, <2>2, <2>3 DEF HandlersCounted
    <2>6. OneHandler'
      BY <2>3, <2>4 DEF AttemptsInv, OneHandler
    <2> QED
      BY <2>5, <2>6
  <1> QED
    BY <1>3, <1>4, <1>5, HandlersMove

LEMMA RecordsCountedStep ==
  ASSUME RecordInv, AttemptsInv, [CallNext]_callVars
  PROVE  RecordsCounted'
  <1>1. /\ StoreInv /\ CallsTyped /\ HandlersTyped /\ TypesInv
        /\ by \in Seq(ByEntry) /\ Len(by) \in Nat
    BY DEF RecordInv, TypesInv, BySound
  <1>2. ASSUME NEW n \in DOMAIN by, NEW entry, entry = by[n], entry.call # None
        PROVE  /\ entry \in ByEntry /\ entry.call \in Callers
               /\ 1 <= entry.attempt /\ entry.attempt <= calls'[entry.call].attempt
               /\ entry.attempt <= calls[entry.call].attempt
    <2>1. entry \in ByEntry
      BY <1>1, <1>2
    <2>2. entry.call \in Callers /\ entry.attempt \in Nat
      BY <1>2, <2>1 DEF ByEntry
    <2>3. Started(entry.call)
      BY <1>2 DEF RecordInv, BySound
    <2>4. /\ calls[entry.call].attempt \in Nat /\ calls'[entry.call].attempt \in Nat
          /\ calls[entry.call].attempt <= calls'[entry.call].attempt
      BY <1>1, <2>2, <2>3, StartedTyped, CallsMove, StartedStays DEF CallRecord
    <2>5. 1 <= entry.attempt /\ entry.attempt <= calls[entry.call].attempt
      BY <1>2 DEF AttemptsInv, RecordsCounted
    <2> QED
      BY <2>1, <2>2, <2>4, <2>5
  <1>3. CASE handlers' \subseteq handlers /\ by' = by
    BY <1>2, <1>3 DEF AttemptsInv, RecordsCounted
  <1>4. ASSUME NEW c \in Callers, Opens(c)
        PROVE  RecordsCounted'
    <2> DEFINE new == [call |-> c, attempt |-> calls[c].attempt + 1, results |-> << >>]
    <2>1. new.call = c /\ new.attempt = calls[c].attempt + 1
      OBVIOUS
    <2>2. handlers' = handlers \cup {new} /\ by' = by
      BY <1>4 DEF Opens
    <2>3. calls[c].attempt \in Nat
      BY <1>1, <1>4, StartedTyped DEF Opens, Attempt, Started, CallRecord
    <2> HIDE DEF new
    <2>4. ASSUME NEW n \in DOMAIN by, NEW entry, entry = by[n], entry.call # None
          PROVE  ~SameAttempt(new, entry)
      <3>1. entry.attempt \in Nat /\ entry.attempt <= calls[entry.call].attempt
        BY <1>2, <2>4 DEF ByEntry
      <3> QED
        BY <2>1, <2>3, <3>1 DEF SameAttempt
    <2> QED
      BY <1>2, <2>2, <2>4 DEF AttemptsInv, RecordsCounted
  <1>5. ASSUME NEW h \in handlers, NEW result \in Results, Advances(h, result)
        PROVE  RecordsCounted'
    <2> DEFINE results == Append(h.results, result)
               next == [h EXCEPT !.results = results]
               new == [call |-> h.call, attempt |-> h.attempt,
                       step |-> Len(h.results) + 1]
    <2>1. h \in Handler /\ h.results \in Seq(Results) /\ h.attempt \in Nat
      BY <1>1 DEF HandlersTyped, Handler
    <2>2. Len(results) = Len(h.results) + 1 /\ Len(h.results) \in Nat
      BY <2>1
    <2>3. /\ new.call = h.call /\ new.attempt = h.attempt
          /\ new.step = Len(h.results) + 1
      OBVIOUS
    <2>4. /\ handlers' = (handlers \ {h}) \cup {next} /\ calls' = calls
          /\ by' = by \/ by' = Append(by, new)
      BY <1>5 DEF Advances
    <2> HIDE DEF results, new
    <2>5. next.call = h.call /\ next.attempt = h.attempt /\ next.results = results
      BY <2>1 DEF Handler
    <2> HIDE DEF next
    <2>6. ASSUME NEW n \in DOMAIN by, NEW entry, entry = by[n], entry.call # None,
                 NEW g \in handlers', SameAttempt(g, entry)
          PROVE  entry.step <= Len(g.results)
      <3>1. entry.step \in Nat
        BY <1>2, <2>6 DEF ByEntry
      <3>2. CASE g \in handlers
        BY <2>6, <3>2 DEF AttemptsInv, RecordsCounted
      <3>3. CASE g = next
        <4>1. SameAttempt(h, entry)
          BY <2>5, <2>6, <3>3 DEF SameAttempt
        <4>2. entry.step <= Len(h.results)
          BY <2>6, <4>1 DEF AttemptsInv, RecordsCounted
        <4> QED
          BY <2>2, <2>5, <3>1, <3>3, <4>2
      <3> QED
        BY <2>4, <2>6, <3>2, <3>3
    <2>7. ASSUME NEW g \in handlers', SameAttempt(g, new)
          PROVE  new.step <= Len(g.results)
      <3>1. g = next
        BY <2>3, <2>4, <2>7 DEF AttemptsInv, OneHandler, SameAttempt
      <3> QED
        BY <2>2, <2>3, <2>5, <3>1
    <2>8. 1 <= new.attempt /\ new.attempt <= calls[new.call].attempt
      BY <2>3 DEF AttemptsInv, HandlersCounted
    <2>9. CASE by' = by
      BY <1>2, <2>4, <2>6, <2>9 DEF RecordsCounted
    <2>10. CASE by' = Append(by, new)
      <3>1. new \in ByEntry
        BY <2>1, <2>2, <2>3 DEF Handler, ByEntry, new
      <3>2. /\ DOMAIN by' = DOMAIN by \cup {Len(by) + 1}
            /\ \A n \in DOMAIN by : by'[n] = by[n]
            /\ by'[Len(by) + 1] = new
        BY <1>1, <2>10, <3>1
      <3> QED
        BY <1>2, <2>4, <2>6, <2>7, <2>8, <3>2 DEF RecordsCounted
    <2> QED
      BY <2>4, <2>9, <2>10
  <1> QED
    BY <1>3, <1>4, <1>5, HandlersMove

LEMMA AttemptsStep ==
  ASSUME RecordInv, AttemptsInv, [CallNext]_callVars
  PROVE  AttemptsInv'
  BY CallsCountedStep, HandlersCountedStep, RecordsCountedStep DEF AttemptsInv, RecordInv

-----------------------------------------------------------------------------
(***************************************************************************)
(* A step applied a second time meets what the first left behind: its      *)
(* result in the same handler, a spent key, or a version that has moved.   *)
(***************************************************************************)
Once ==
  \A m, n \in DOMAIN by : \A early, late, call :
    /\ m < n /\ early = by[m] /\ late = by[n]
    /\ late.call # None /\ early.call = late.call /\ early.step = late.step
    /\ call = calls[late.call]
    => StepOf(call, late).do = "patch" /\ StepOf(call, late).patch.expect = Keep

LEMMA SecondTime ==
  ASSUME RecordInv, AttemptsInv, [CallNext]_callVars,
         NEW h \in handlers, NEW step, Records(h, step),
         NEW m \in DOMAIN by, NEW early, early = by[m],
         early.call = h.call, early.call # None, early.step = Len(h.results) + 1
  PROVE  step.do = "patch" /\ step.patch.expect = Keep
  <1>1. StoreInv /\ CallsTyped /\ HandlersTyped /\ TypesInv /\ ReadsStand
    BY DEF RecordInv, TypesInv
  <1>2. PICK call, new, last :
          /\ call = calls[h.call] /\ last = Len(events) + 1
          /\ new = [call |-> h.call, attempt |-> h.attempt, step |-> Len(h.results) + 1]
    OBVIOUS
  <1>3. /\ h.call \in Callers /\ Started(h.call) /\ StepOf(call, new) = step
        /\ GoodStep(step, call.req, call.expect) /\ Fresh(step)
    BY <1>1, <1>2, NewEntrySound
  <1>4. Sound(call, early, m)
    BY <1>2 DEF RecordInv, BySound
  <1>5. StepOf(call, early) = step
    BY <1>2, <1>3 DEF StepOf
  <1>6. call.readAt < m /\ Recorded(step, m)
    BY <1>4, <1>5 DEF Sound
  <1>7. /\ h.attempt \in Nat /\ Len(h.results) \in Nat
        /\ call \in CallRecord /\ call.attempt \in Nat
    BY <1>1, <1>2, <1>3, StartedTyped DEF HandlersTyped, Handler, CallRecord
  <1>8. early.attempt # h.attempt
    <2>1. SameAttempt(h, early) => early.step <= Len(h.results)
      BY DEF AttemptsInv, RecordsCounted
    <2> QED
      BY <1>7, <2>1 DEF SameAttempt
  <1>9. Repeatable(call.req)
    <2>1. /\ 1 <= early.attempt /\ early.attempt <= call.attempt
          /\ 1 <= h.attempt /\ h.attempt <= call.attempt
      BY <1>2 DEF AttemptsInv, RecordsCounted, HandlersCounted
    <2>2. early.attempt \in Nat
      <3>1. early \in ByEntry
        BY DEF RecordInv, BySound
      <3> QED
        BY <3>1 DEF ByEntry
    <2>3. ~(call.attempt <= 1)
      BY <1>7, <1>8, <2>1, <2>2
    <2> QED
      BY <1>2, <1>3, <2>3 DEF AttemptsInv, CallsCounted
  <1>10. CASE step.do = "patch"
    <2>1. ASSUME step.patch.expect # Keep
          PROVE  FALSE
      <3>1. /\ step.patch.expect = call.expect[step.key] /\ step.key \in DOMAIN call.expect
            /\ step.patch.expect = issues[step.key].version
        BY <1>3, <1>10, <2>1 DEF GoodStep, Fresh
      <3>2. ReadStands(call)
        BY <1>1, <1>2, <1>3 DEF ReadsStand
      <3>3. \A w \in WritesOf(step.key) : w <= call.readAt
        BY <2>1, <3>1, <3>2 DEF ReadStands, Stands
      <3>4. m \in WritesOf(step.key)
        BY <1>6, <1>10 DEF Recorded
      <3>5. m <= call.readAt /\ call.readAt \in Nat /\ m \in Nat
        <4>1. DOMAIN events = 1..Len(events) /\ Len(events) \in Nat
          BY <1>1, StoreInv DEF StoreInv, TypeOK
        <4> QED
          BY <1>7, <3>3, <3>4, <4>1 DEF CallRecord, WritesOf
      <3> QED
        BY <1>6, <3>5
    <2> QED
      BY <1>10, <2>1
  <1>11. CASE step.do = "append"
    BY <1>3, <1>9, <1>11 DEF GoodStep, Repeatable
  <1>12. CASE step.do = "comment"
    BY <1>3, <1>6, <1>9, <1>12 DEF GoodStep, Repeatable, Recorded, Fresh
  <1>13. CASE step.do = "create"
    BY <1>3, <1>6, <1>9, <1>13 DEF GoodStep, Repeatable, Recorded, Fresh
  <1>14. CASE step.do = "ensure"
    BY <1>6, <1>14 DEF Recorded
  <1> QED
    BY <1>3, <1>10, <1>11, <1>12, <1>13, <1>14 DEF GoodStep

LEMMA OnceStep ==
  ASSUME RecordInv, AttemptsInv, Once, [CallNext]_callVars
  PROVE  Once'
  <1>1. /\ StoreInv /\ CallsTyped /\ HandlersTyped /\ TypesInv /\ ReadsStand
        /\ by \in Seq(ByEntry) /\ Len(by) = Len(events) /\ Len(events) \in Nat
    BY DEF RecordInv, TypesInv, BySound
  <1>2. ASSUME NEW n \in DOMAIN by, NEW late, late = by[n], late.call # None,
               NEW call, call = calls'[late.call], NEW old, old = calls[late.call]
        PROVE  StepOf(call, late) = StepOf(old, late)
    <2>1. late.call \in Callers /\ Started(late.call)
      <3>1. late \in ByEntry
        BY <1>1, <1>2
      <3> QED
        BY <1>2, <3>1 DEF ByEntry, RecordInv, BySound
    <2> QED
      BY <1>1, <1>2, <2>1, CallsMove, StartedStays DEF StepOf
  <1>3. CASE by' = by
    BY <1>2, <1>3 DEF Once
  <1>4. ASSUME NEW h \in handlers, NEW step, Records(h, step)
        PROVE  Once'
    <2>1. PICK call, new, last :
            /\ call = calls[h.call] /\ last = Len(events) + 1
            /\ new = [call |-> h.call, attempt |-> h.attempt, step |-> Len(h.results) + 1]
      OBVIOUS
    <2>2. /\ new \in ByEntry /\ new.call = h.call /\ new.step = Len(h.results) + 1
          /\ StepOf(call, new) = step
      BY <1>1, <1>4, <2>1, NewEntrySound
    <2>3. by' = Append(by, new) /\ calls' = calls
      BY <1>4, <2>1 DEF Records
    <2>4. /\ DOMAIN by' = DOMAIN by \cup {last} /\ by'[last] = new
          /\ \A n \in DOMAIN by : by'[n] = by[n] /\ n < last
          /\ DOMAIN by \subseteq Nat
      BY <1>1, <2>1, <2>2, <2>3
    <2>5. ASSUME NEW m \in DOMAIN by', NEW n \in DOMAIN by', NEW early, NEW late, NEW now,
                 m < n, early = by'[m], late = by'[n], late.call # None,
                 early.call = late.call, early.step = late.step, now = calls'[late.call]
          PROVE  StepOf(now, late).do = "patch" /\ StepOf(now, late).patch.expect = Keep
      <3>1. m \in DOMAIN by /\ early = by[m]
        BY <2>1, <2>4, <2>5
      <3>2. CASE n \in DOMAIN by
        BY <2>3, <2>4, <2>5, <3>1, <3>2 DEF Once
      <3>3. CASE n = last
        <4>1. late = new /\ now = call
          BY <2>1, <2>2, <2>3, <2>4, <2>5, <3>3
        <4> QED
          BY <1>4, <2>2, <2>5, <3>1, <4>1, SecondTime
      <3> QED
        BY <2>4, <3>2, <3>3
    <2> QED
      BY <2>5 DEF Once
  <1> QED
    BY <1>1, <1>3, <1>4, RecordsOrNot

LEMMA AttemptsInvHolds == CallSpec => []AttemptsInv
  <1>1. ASSUME CallInit
        PROVE  AttemptsInv
    <2>1. by = <<[call |-> None, attempt |-> 0, step |-> 0]>> /\ handlers = {}
      BY <1>1 DEF CallInit
    <2>2. \A n \in DOMAIN by : by[n].call = None
      BY <2>1
    <2>3. CallsCounted
      BY <1>1 DEF CallInit, CallsCounted, Started, Idle
    <2> QED
      BY <2>1, <2>2, <2>3
      DEF AttemptsInv, HandlersCounted, OneHandler, RecordsCounted
  <1> QED
    BY <1>1, RecordInvHolds, AttemptsStep, PTL DEF CallSpec

\* However often a call is attempted and however late an attempt still runs, a
\* step of it is applied once, unless it is an update without a version.
THEOREM StepsAppliedOnce == CallSpec => []AppliedOnce
  <1>1. ASSUME CallInit
        PROVE  Once
    <2>1. by = <<[call |-> None, attempt |-> 0, step |-> 0]>>
      BY <1>1 DEF CallInit
    <2>2. \A n \in DOMAIN by : by[n].call = None
      BY <2>1
    <2> QED
      BY <2>2 DEF Once
  <1>2. Once => AppliedOnce
    BY DEF Once, AppliedOnce, ByCalls, StepBy, StepOf, RequestOf
  <1> QED
    BY <1>1, <1>2, RecordInvHolds, AttemptsInvHolds, OnceStep, PTL DEF CallSpec

-----------------------------------------------------------------------------
(***************************************************************************)
(* The text of a form or a save.  A request of two steps has a text for    *)
(* its first, and a store that took the text has recorded it.              *)
(***************************************************************************)
TwoStep(call) ==
  call.req.kind \in {"form", "save"} /\ 2 \in DOMAIN Steps(call.req, call.expect)

IsText(step) == step.do = "append" \/ (step.do = "comment" /\ step.idem = None)

LEMMA FirstOfTwo ==
  ASSUME NEW set, NEW s \in Seq(set), NEW t \in Seq(set),
         Len(s) \in {0, 1}, Len(t) \in {0, 1}, 2 \in DOMAIN (s \o t)
  PROVE  Len(s) = 1 /\ (s \o t)[1] = s[1]
  <1>1. /\ s \o t \in Seq(set) /\ Len(s \o t) = Len(s) + Len(t)
        /\ \A n \in 1..(Len(s) + Len(t)) :
             (s \o t)[n] = IF n <= Len(s) THEN s[n] ELSE t[n - Len(s)]
    BY ConcatProperties
  <1>2. 2 \in 1..(Len(s) + Len(t))
    BY <1>1
  <1>3. ASSUME NEW m, NEW n, m \in {0, 1}, n \in {0, 1}, 2 \in 1..(m + n)
        PROVE  m = 1
    BY <1>3
  <1>4. Len(s) = 1
    BY <1>2, <1>3
  <1> QED
    BY <1>1, <1>2, <1>4

LEMMA OneAtMost ==
  ASSUME NEW set, NEW e \in set, NEW s, s \in {<< >>, <<e>>}
  PROVE  s \in Seq(set) /\ Len(s) \in {0, 1} /\ (Len(s) = 1 => s[1] = e)
  <1>1. CASE s = << >>
    BY <1>1
  <1>2. CASE s = <<e>>
    BY <1>2
  <1> QED
    BY <1>1, <1>2

LEMMA TextIsFirst ==
  ASSUME NEW call, TwoStep(call)
  PROVE  IsText(Steps(call.req, call.expect)[1])
  <1>1. PICK req, expect : req = call.req /\ expect = call.expect
    OBVIOUS
  <1>2. CASE req.kind = "save"
    <2> DEFINE text == Appending(req.key, req.text)
               patch == Patching(req.key, req.patch,
                                 IF req.text # None THEN Keep ELSE expect[req.key])
               s == When(req.text # None, text)
               t == When(~PatchEmpty(req.patch), patch)
    <2>1. Steps(req, expect) = SaveSteps(req, expect)
      BY <1>2 DEF Steps
    <2>2. RoleAllows(req)
      BY <1>1, <2>1 DEF TwoStep, SaveSteps
    <2>3. Steps(req, expect) = s \o t
      BY <2>1, <2>2 DEF SaveSteps
    <2>4. s \in {<< >>, <<text>>} /\ t \in {<< >>, <<patch>>}
      BY DEF When
    <2>5. text.do = "append"
      BY DEF Appending
    <2> HIDE DEF text, patch, s, t
    <2>6. 2 \in DOMAIN (s \o t)
      BY <1>1, <2>3 DEF TwoStep
    <2>7. (s \o t)[1] = text
      <3>1. PICK set : text \in set /\ patch \in set
        <4>1. text \in {text, patch} /\ patch \in {text, patch}
          OBVIOUS
        <4> QED
          BY <4>1
      <3>2. s \in Seq(set) /\ Len(s) \in {0, 1} /\ (Len(s) = 1 => s[1] = text)
        BY <2>4, <3>1, OneAtMost
      <3>3. t \in Seq(set) /\ Len(t) \in {0, 1}
        BY <2>4, <3>1, OneAtMost
      <3> QED
        BY <2>6, <3>2, <3>3, FirstOfTwo
    <2> QED
      BY <1>1, <2>3, <2>5, <2>7 DEF IsText
  <1>3. CASE req.kind = "form"
    <2> DEFINE text == Commenting(req.key, req.body, None)
               patch == Patching(req.key, req.patch, expect[req.key])
               s == When(req.body # None, text)
               t == When(~PatchEmpty(req.patch), patch)
    <2>1. Steps(req, expect) = FormSteps(req, expect)
      BY <1>3 DEF Steps
    <2>3. Steps(req, expect) = s \o t
      BY <2>1 DEF FormSteps
    <2>4. s \in {<< >>, <<text>>} /\ t \in {<< >>, <<patch>>}
      BY DEF When
    <2>5. text.do = "comment" /\ text.idem = None
      BY DEF Commenting
    <2> HIDE DEF text, patch, s, t
    <2>6. 2 \in DOMAIN (s \o t)
      BY <1>1, <2>3 DEF TwoStep
    <2>7. (s \o t)[1] = text
      <3>1. PICK set : text \in set /\ patch \in set
        <4>1. text \in {text, patch} /\ patch \in {text, patch}
          OBVIOUS
        <4> QED
          BY <4>1
      <3>2. s \in Seq(set) /\ Len(s) \in {0, 1} /\ (Len(s) = 1 => s[1] = text)
        BY <2>4, <3>1, OneAtMost
      <3>3. t \in Seq(set) /\ Len(t) \in {0, 1}
        BY <2>4, <3>1, OneAtMost
      <3> QED
        BY <2>6, <3>2, <3>3, FirstOfTwo
    <2> QED
      BY <1>1, <2>3, <2>5, <2>7 DEF IsText
  <1> QED
    BY <1>1, <1>2, <1>3 DEF TwoStep

\* The store takes a text and records it, or fails.
LEMMA TextRecorded ==
  ASSUME StoreInv, NEW step, IsText(step), NEW result, result \notin Failures,
         Outcome(step, result)
  PROVE  events' # events
  <1>1. TypeOK
    BY DEF StoreInv
  <1>2. result = "written" /\ Writes(step)
    <2>1. ~KeySpent("comment", None)
      BY <1>1, RequestAssumption DEF TypeOK, KeySpent
    <2>2. ~ChangesNothing(step)
      BY <2>1 DEF ChangesNothing, IsText
    <2> QED
      BY <2>2 DEF Outcome, Failures
  <1>3. \E action, row, before, after : Record(action, row, before, after)
    BY <1>2 DEF Writes, IsText, AppendDescription, AddComment
  <1>4. Trail!Extended
    BY <1>1, <1>3, RecordExtends
  <1>5. Len(events) \in Nat
    BY <1>1 DEF TypeOK
  <1> QED
    BY <1>4, <1>5 DEF Trail!Extended

TextEntry(c, attempt) == [call |-> c, attempt |-> attempt, step |-> 1]

\* A handler that is past its text has it on record.
HandlersTextFirst ==
  \A h \in handlers : \A call :
    /\ call = calls[h.call] /\ TwoStep(call)
    /\ Len(h.results) = 1 /\ h.results[1] \notin Failures
    => \E m \in DOMAIN by : by[m] = TextEntry(h.call, h.attempt)

PatchesAfterText ==
  \A n \in DOMAIN by : \A entry, call :
    /\ entry = by[n] /\ entry.call # None /\ call = calls[entry.call]
    /\ call.req.kind \in {"form", "save"} /\ entry.step = 2
    => \E m \in DOMAIN by : m < n /\ by[m] = TextEntry(entry.call, entry.attempt)

LEMMA SameTwoStep ==
  ASSUME TypesInv, [CallNext]_callVars, NEW c \in Callers, Started(c),
         NEW old, old = calls[c], NEW new, new = calls'[c]
  PROVE  /\ new.req = old.req
         /\ TwoStep(new) <=> TwoStep(old)
         /\ Started(c)'
  BY CallsMove, StartedStays DEF TypesInv, TwoStep

LEMMA HandlersTextFirstStep ==
  ASSUME RecordInv, HandlersTextFirst, [CallNext]_callVars
  PROVE  HandlersTextFirst'
  <1>1. /\ StoreInv /\ CallsTyped /\ HandlersTyped /\ TypesInv
        /\ by \in Seq(ByEntry) /\ Len(by) \in Nat
    BY DEF RecordInv, TypesInv, BySound
  <1>2. \A n \in DOMAIN by : n \in DOMAIN by' /\ by'[n] = by[n]
    <2>1. CASE by' = by
      BY <2>1
    <2>2. CASE by' # by
      <3>1. PICK h \in handlers : \E step : Records(h, step)
        BY <1>1, <2>2, RecordsOrNot
      <3>2. PICK new : new \in ByEntry /\ by' = Append(by, new)
        <4>1. PICK call, n, new : /\ call = calls[h.call] /\ n = Len(events) + 1
                                  /\ new = [call |-> h.call, attempt |-> h.attempt,
                                            step |-> Len(h.results) + 1]
          OBVIOUS
        <4>2. new \in ByEntry
          BY <1>1, <3>1, <4>1, NewEntrySound DEF RecordInv
        <4> QED
          BY <3>1, <4>1, <4>2 DEF Records
      <3> QED
        BY <1>1, <3>2
    <2> QED
      BY <2>1, <2>2
  <1>3. ASSUME NEW h \in handlers, NEW call, call = calls'[h.call], TwoStep(call),
               Len(h.results) = 1, h.results[1] \notin Failures
        PROVE  \E m \in DOMAIN by' : by'[m] = TextEntry(h.call, h.attempt)
    <2>1. PICK old : old = calls[h.call]
      OBVIOUS
    <2>2. h.call \in Callers /\ Started(h.call)
      BY <1>1 DEF HandlersTyped, Handler
    <2>3. TwoStep(old)
      BY <1>1, <1>3, <2>1, <2>2, SameTwoStep
    <2>4. PICK m \in DOMAIN by : by[m] = TextEntry(h.call, h.attempt)
      BY <1>3, <2>1, <2>3 DEF HandlersTextFirst
    <2> QED
      BY <1>2, <2>4
  <1>4. CASE handlers' \subseteq handlers
    BY <1>3, <1>4 DEF HandlersTextFirst
  <1>5. ASSUME NEW c \in Callers, Opens(c)
        PROVE  HandlersTextFirst'
    <2> DEFINE new == [call |-> c, attempt |-> calls[c].attempt + 1, results |-> << >>]
    <2>1. handlers' = handlers \cup {new} /\ Len(new.results) = 0
      BY <1>5 DEF Opens
    <2> HIDE DEF new
    <2> QED
      BY <1>3, <2>1 DEF HandlersTextFirst
  <1>6. ASSUME NEW h \in handlers, NEW result \in Results, Advances(h, result)
        PROVE  HandlersTextFirst'
    <2>1. /\ h \in Handler /\ h.results \in Seq(Results) /\ Len(h.results) \in Nat
          /\ h.call \in Callers /\ Started(h.call)
      BY <1>1 DEF HandlersTyped, Handler
    <2>2. PICK g : g = [h EXCEPT !.results = Append(@, result)]
      OBVIOUS
    <2>3. /\ g.call = h.call /\ g.attempt = h.attempt
          /\ Len(g.results) = Len(h.results) + 1
          /\ g.results[Len(h.results) + 1] = result
      BY <2>1, <2>2 DEF Handler
    <2>4. handlers' = (handlers \ {h}) \cup {g} /\ calls' = calls
      BY <1>6, <2>2 DEF Advances
    <2>5. ASSUME NEW call, call = calls'[g.call], TwoStep(call),
                 Len(g.results) = 1, g.results[1] \notin Failures
          PROVE  \E m \in DOMAIN by' : by'[m] = TextEntry(g.call, g.attempt)
      <3>1. Len(h.results) = 0 /\ result \notin Failures /\ call = calls[h.call]
        BY <2>1, <2>3, <2>4, <2>5
      <3>2. PICK step : step = Steps(call.req, call.expect)[1]
        OBVIOUS
      <3>3. IsText(step)
        BY <2>5, <3>2, TextIsFirst
      <3>4. Outcome(step, result)
        <4>1. Len(h.results) + 1 = 1
          BY <3>1
        <4> QED
          BY <1>6, <3>1, <3>2, <4>1 DEF Advances, StepsOf, CallOf
      <3>5. events' # events
        BY <1>1, <3>1, <3>3, <3>4, TextRecorded
      <3>6. by' = Append(by, TextEntry(h.call, h.attempt))
        BY <1>6, <3>1, <3>5 DEF Advances, TextEntry
      <3>7. TextEntry(h.call, h.attempt) \in ByEntry
        BY <2>1 DEF TextEntry, ByEntry, Handler
      <3>8. Len(by) + 1 \in DOMAIN by' /\ by'[Len(by) + 1] = TextEntry(h.call, h.attempt)
        BY <1>1, <3>6, <3>7
      <3> QED
        BY <2>3, <3>8
    <2> QED
      BY <1>3, <2>4, <2>5 DEF HandlersTextFirst
  <1> QED
    BY <1>4, <1>5, <1>6, HandlersMove

LEMMA PatchesAfterTextStep ==
  ASSUME RecordInv, HandlersTextFirst, PatchesAfterText, [CallNext]_callVars
  PROVE  PatchesAfterText'
  <1>1. /\ StoreInv /\ CallsTyped /\ HandlersTyped /\ TypesInv /\ ReadsStand
        /\ by \in Seq(ByEntry) /\ Len(by) \in Nat /\ Len(by) = Len(events)
    BY DEF RecordInv, TypesInv, BySound
  <1>2. ASSUME NEW n \in DOMAIN by, NEW entry, entry = by[n], entry.call # None,
               NEW call, call = calls'[entry.call],
               call.req.kind \in {"form", "save"}, entry.step = 2
        PROVE  \E m \in DOMAIN by : m < n /\ by[m] = TextEntry(entry.call, entry.attempt)
    <2>1. entry \in ByEntry
      BY <1>1, <1>2
    <2>2. PICK old : old = calls[entry.call]
      OBVIOUS
    <2>3. entry.call \in Callers /\ Started(entry.call)
      BY <1>2, <2>1, <2>2 DEF ByEntry, RecordInv, BySound
    <2>4. old.req = call.req
      BY <1>1, <1>2, <2>2, <2>3, SameTwoStep
    <2> QED
      BY <1>2, <2>2, <2>4 DEF PatchesAfterText
  <1>3. CASE by' = by
    BY <1>2, <1>3 DEF PatchesAfterText
  <1>4. ASSUME NEW h \in handlers, NEW step, Records(h, step)
        PROVE  PatchesAfterText'
    <2>1. PICK call, new, last :
            /\ call = calls[h.call] /\ last = Len(events) + 1
            /\ new = [call |-> h.call, attempt |-> h.attempt, step |-> Len(h.results) + 1]
      OBVIOUS
    <2>2. /\ new \in ByEntry /\ new.call = h.call /\ new.attempt = h.attempt
          /\ new.step = Len(h.results) + 1
          /\ Sound(call, new, last)'
      BY <1>1, <1>4, <2>1, NewEntrySound
    <2>3. by' = Append(by, new) /\ calls' = calls /\ ~Finished(h)
      BY <1>4, <2>1 DEF Records
    <2>4. /\ DOMAIN by' = DOMAIN by \cup {last} /\ by'[last] = new
          /\ \A n \in DOMAIN by : by'[n] = by[n] /\ n < last
      BY <1>1, <2>1, <2>2, <2>3
    <2>5. ASSUME call.req.kind \in {"form", "save"}, new.step = 2
          PROVE  \E m \in DOMAIN by : by[m] = TextEntry(h.call, h.attempt)
      <3>1. h.results \in Seq(Results) /\ Len(h.results) = 1
        <4>1. h.results \in Seq(Results) /\ Len(h.results) \in Nat
          BY <1>1 DEF HandlersTyped, Handler
        <4>2. PICK length \in Nat : length = Len(h.results)
          BY <4>1
        <4>3. length + 1 = 2
          BY <2>2, <2>5, <4>2
        <4>4. length = 1
          BY <4>3
        <4> QED
          BY <4>1, <4>2, <4>4, Zenon
      <3>2. 2 \in DOMAIN Steps(call.req, call.expect)
        <4>1. Len(h.results) + 1 = 2
          BY <3>1
        <4>2. Len(h.results) + 1 \in DOMAIN StepsOf(h)
          BY <1>1, <2>3, NextStepGood
        <4> QED
          BY <2>1, <4>1, <4>2 DEF StepsOf, CallOf
      <3>3. h.results[1] \notin Failures
        <4>1. h.results # << >> /\ Last(h.results) = h.results[1]
          BY <3>1 DEF Last
        <4>2. StopsOnError(CallOf(h).req)
          BY <2>1, <2>5 DEF StopsOnError, CallOf
        <4> QED
          BY <2>3, <4>1, <4>2 DEF Finished
      <3> QED
        BY <2>1, <2>5, <3>1, <3>2, <3>3 DEF HandlersTextFirst, TwoStep
    <2>6. ASSUME NEW n \in DOMAIN by', NEW entry, entry = by'[n], entry.call # None,
                 NEW now, now = calls'[entry.call],
                 now.req.kind \in {"form", "save"}, entry.step = 2
          PROVE  \E m \in DOMAIN by' : m < n /\ by'[m] = TextEntry(entry.call, entry.attempt)
      <3>1. CASE n \in DOMAIN by
        <4>1. entry = by[n]
          BY <2>4, <2>6, <3>1
        <4>2. PICK m \in DOMAIN by : m < n /\ by[m] = TextEntry(entry.call, entry.attempt)
          BY <1>2, <2>6, <3>1, <4>1
        <4> QED
          BY <2>4, <4>2
      <3>2. CASE n = last
        <4>1. entry = new /\ now = call
          BY <2>1, <2>2, <2>3, <2>4, <2>6, <3>2
        <4>2. PICK m \in DOMAIN by : by[m] = TextEntry(h.call, h.attempt)
          BY <2>5, <2>6, <4>1
        <4> QED
          BY <2>2, <2>4, <3>2, <4>1, <4>2
      <3> QED
        BY <2>4, <2>6, <3>1, <3>2
    <2> QED
      BY <2>6 DEF PatchesAfterText
  <1> QED
    BY <1>1, <1>3, <1>4, RecordsOrNot

\* The patch of a form or of a save is on record only after the text that the
\* same attempt stored (uiIssueAction, toolSaveIssue).
THEOREM TextsFirst == CallSpec => []TextFirst
  <1>1. ASSUME CallInit
        PROVE  HandlersTextFirst /\ PatchesAfterText
    <2>1. by = <<[call |-> None, attempt |-> 0, step |-> 0]>> /\ handlers = {}
      BY <1>1 DEF CallInit
    <2>2. \A n \in DOMAIN by : by[n].call = None
      BY <2>1
    <2> QED
      BY <2>1, <2>2 DEF HandlersTextFirst, PatchesAfterText
  <1>2. ASSUME RecordInv, PatchesAfterText
        PROVE  TextFirst
    <2>1. ASSUME NEW n \in ByCalls, RequestOf(n).kind \in {"form", "save"}, by[n].step = 2
          PROVE  \E m \in ByCalls : m < n /\ by[m] = [by[n] EXCEPT !.step = 1]
      <3>1. PICK entry, call : entry = by[n] /\ call = calls[entry.call]
        OBVIOUS
      <3>2. n \in DOMAIN by /\ entry.call # None /\ entry \in ByEntry
        BY <1>2, <3>1 DEF ByCalls, RecordInv, BySound
      <3>3. PICK m \in DOMAIN by : m < n /\ by[m] = TextEntry(entry.call, entry.attempt)
        BY <1>2, <2>1, <3>1, <3>2 DEF PatchesAfterText, RequestOf
      <3>4. [entry EXCEPT !.step = 1] = TextEntry(entry.call, entry.attempt)
        BY <3>2 DEF ByEntry, TextEntry
      <3>5. by[m].call # None
        BY <3>2, <3>3 DEF TextEntry
      <3> QED
        BY <3>1, <3>3, <3>4, <3>5 DEF ByCalls
    <2> QED
      BY <2>1 DEF TextFirst
  <1> QED
    BY <1>1, <1>2, RecordInvHolds, HandlersTextFirstStep, PatchesAfterTextStep, PTL
    DEF CallSpec

-----------------------------------------------------------------------------
(***************************************************************************)
(* Creates under a key.  The key is spent exactly when there is a record   *)
(* of the create, and nobody is told of a create before.                   *)
(***************************************************************************)
Made(key) ==
  {n \in ByCalls : LET req == RequestOf(n) IN
                   req.kind = "create" /\ req.in.idem = key
                   /\ events[n].action = "issue.created"}

SpentMeansMade == \A key \in IdemKeys : KeySpent("issue", key) => Made(key) # {}

MadeOnce == \A key \in IdemKeys : \A m, n \in Made(key) : m = n

\* A call that asked for a create under a key which is spent now.
KeyTaken(call) ==
  call.req.kind = "create" /\ call.req.in.idem # None =>
    KeySpent("issue", call.req.in.idem)

HandlersCreated ==
  \A h \in handlers : \A call :
    /\ call = calls[h.call] /\ h.results # << >> /\ Last(h.results) \notin Failures
    /\ Len(h.results) = Len(StepsOf(h))
    => KeyTaken(call)

CallersCreated ==
  \A c \in Callers : \A call :
    /\ call = calls[c] /\ call.phase = "done" /\ call.answer \in {"written", "same"}
    => KeyTaken(call)

\* A store call that records nothing spends nothing.
LEMMA SpentIsRecorded ==
  ASSUME TypeOK, [Next]_vars, events' = events
  PROVE  spent' = spent
  <1>1. ASSUME NEW action, NEW row, NEW before, NEW after,
               Record(action, row, before, after)
        PROVE  FALSE
    <2>1. Trail!Extended /\ Len(events) \in Nat
      BY <1>1, RecordExtends DEF TypeOK
    <2> QED
      BY <2>1 DEF Trail!Extended
  <1>2. ~IssueNext
    BY <1>1, IssueStepRecords
  <1>3. ~CommentNext
    BY <1>1, CommentStepRecords
  <1>4. CASE RelationNext \/ MilestoneNext \/ LabelNext \/ UNCHANGED vars
    BY <1>4 DEF RelationNext, AddRelation, RemoveRelation, MilestoneNext,
       CreateMilestone, UpdateMilestone, LabelNext, EnsureLabel, UpdateLabelGroups, vars
  <1> QED
    BY <1>2, <1>3, <1>4 DEF Next

\* The one step that spends a key of the issues is the create under it.
LEMMA SpentByCreate ==
  ASSUME NEW step, NEW req, NEW expect, GoodStep(step, req, expect), Writes(step),
         NEW key, KeySpent("issue", key)', ~KeySpent("issue", key)
  PROVE  step.do = "create" /\ step.in.idem = key
  <1>1. PICK s \in spent' : s[1] = "issue" /\ s[2] = key
    BY DEF KeySpent
  <1>2. s \notin spent
    BY <1>1 DEF KeySpent
  <1>3. CASE step.do \in {"patch", "append", "ensure"}
    BY <1>1, <1>2, <1>3 DEF Writes, UpdateIssue, AppendDescription, EnsureLabel
  <1>4. CASE step.do = "comment"
    <2>1. s = <<"comment", step.idem, Len(comments) + 1>>
      BY <1>1, <1>2, <1>4 DEF Writes, AddComment
    <2> QED
      BY <1>1, <2>1
  <1>5. CASE step.do = "create"
    <2>1. s = <<"issue", step.in.idem, NewKey>>
      BY <1>1, <1>2, <1>5 DEF Writes, CreateIssue
    <2> QED
      BY <1>1, <1>5, <2>1
  <1> QED
    BY <1>3, <1>4, <1>5 DEF GoodStep

\* A record of a create under a key is a record of the step that spent it.
LEMMA MadeIsSpent ==
  ASSUME RecordInv, NEW key \in IdemKeys, NEW n \in Made(key)
  PROVE  KeySpent("issue", key)
  <1>1. n \in ByCalls /\ RequestOf(n).kind = "create" /\ RequestOf(n).in.idem = key
    BY DEF Made
  <1>2. Recorded(StepBy(n), n) /\ GoodStep(StepBy(n), RequestOf(n), calls[by[n].call].expect)
    BY <1>1, OnRecord DEF Sound
  <1>3. StepBy(n).do = "create" /\ StepBy(n).in.idem = key
    BY <1>1, <1>2 DEF GoodStep, Recorded
  <1> QED
    BY <1>2, <1>3, RequestAssumption DEF Recorded

\* What a step of the callers does to the records of a create.
LEMMA MadeStays ==
  ASSUME RecordInv, [CallNext]_callVars, NEW key, NEW n \in DOMAIN by
  PROVE  n \in DOMAIN by' /\ by'[n] = by[n] /\ (n \in Made(key) <=> n \in Made(key)')
  <1>1. /\ StoreInv /\ CallsTyped /\ HandlersTyped /\ TypesInv /\ [Next]_vars
        /\ by \in Seq(ByEntry) /\ Len(by) = Len(events) /\ Len(by) \in Nat
    BY CallStepIsTransaction DEF RecordInv, TypesInv, BySound
  <1>2. n \in DOMAIN by' /\ by'[n] = by[n]
    <2>1. CASE by' = by
      BY <2>1
    <2>2. CASE by' # by
      <3>1. PICK h \in handlers : \E step : Records(h, step)
        BY <1>1, <2>2, RecordsOrNot
      <3>2. PICK new : new \in ByEntry /\ by' = Append(by, new)
        <4>1. PICK call, last, new :
                /\ call = calls[h.call] /\ last = Len(events) + 1
                /\ new = [call |-> h.call, attempt |-> h.attempt,
                          step |-> Len(h.results) + 1]
          OBVIOUS
        <4>2. new \in ByEntry
          BY <1>1, <3>1, <4>1, NewEntrySound DEF RecordInv
        <4> QED
          BY <3>1, <4>1, <4>2 DEF Records
      <3> QED
        BY <1>1, <3>2
    <2> QED
      BY <2>1, <2>2
  <1>3. PICK entry : entry = by[n]
    OBVIOUS
  <1>4. events'[n] = events[n]
    <2>1. DOMAIN by = DOMAIN events
      BY <1>1, StoreStep
    <2> QED
      BY <1>1, <2>1, EventsStay
  <1>5. ASSUME entry.call # None
        PROVE  calls'[entry.call].req = calls[entry.call].req
    <2>1. n \in ByCalls
      BY <1>3, <1>5 DEF ByCalls
    <2>2. entry.call \in Callers /\ Started(entry.call)
      BY <1>3, <2>1, OnRecord
    <2> QED
      BY <1>1, <2>2, CallsMove, StartedStays
  <1> QED
    BY <1>2, <1>3, <1>4, <1>5 DEF Made, ByCalls, RequestOf

\* A handler's step that records makes one record, and what it is a record of.
LEMMA MadeNew ==
  ASSUME RecordInv, [CallNext]_callVars, NEW h \in handlers, NEW step, Records(h, step),
         NEW last, last = Len(events) + 1, NEW key \in IdemKeys
  PROVE  /\ DOMAIN by' = DOMAIN by \cup {last}
         /\ last \in Made(key)' <=> step.do = "create" /\ step.in.idem = key
         /\ Fresh(step)
         /\ KeySpent("issue", key)' /\ ~KeySpent("issue", key) => last \in Made(key)'
  <1>1. /\ StoreInv /\ CallsTyped /\ HandlersTyped /\ TypesInv /\ ReadsStand
        /\ by \in Seq(ByEntry) /\ Len(by) = Len(events) /\ Len(by) \in Nat
    BY DEF RecordInv, TypesInv, BySound
  <1>2. PICK call, new :
          /\ call = calls[h.call]
          /\ new = [call |-> h.call, attempt |-> h.attempt, step |-> Len(h.results) + 1]
    OBVIOUS
  <1>3. /\ new \in ByEntry /\ new.call = h.call /\ new.call \in Callers
        /\ GoodStep(step, call.req, call.expect) /\ Fresh(step)
    BY <1>1, <1>2, NewEntrySound
  <1>4. by' = Append(by, new) /\ calls' = calls /\ Writes(step) /\ Trail!Extended
    BY <1>2 DEF Records
  <1>5. DOMAIN by' = DOMAIN by \cup {last} /\ by'[last] = new
    BY <1>1, <1>3, <1>4
  <1>6. new.call # None => last \in ByCalls' /\ RequestOf(last)' = call.req
    BY <1>2, <1>3, <1>4, <1>5 DEF ByCalls, RequestOf
  <1>7. last \in Made(key)' =>
          call.req.kind = "create" /\ call.req.in.idem = key
          /\ events'[last].action = "issue.created"
    BY <1>2, <1>3, <1>4, <1>5 DEF Made, ByCalls, RequestOf
  <1>8. step.do = "create" => events'[last].action = "issue.created"
    <2>1. ASSUME step.do = "create"
          PROVE  \E row, before, after : Record("issue.created", row, before, after)
      BY <1>4, <2>1 DEF Writes, CreateIssue
    <2>2. ASSUME NEW row, NEW before, NEW after,
                 Record("issue.created", row, before, after)
          PROVE  events'[last].action = "issue.created"
      <3>1. events'[last] = [action |-> "issue.created", row |-> row,
                             before |-> before, after |-> after]
        BY <1>1, <2>2, RecordExtends DEF StoreInv, Trail!NewEvent
      <3> QED
        BY <3>1
    <2> QED
      BY <2>1, <2>2
  <1>9. step.do # "ensure"
    <2>1. ASSUME step.do = "ensure" PROVE events' = events
      BY <1>4, <2>1 DEF Writes, EnsureLabel
    <2> QED
      BY <1>1, <1>4, <2>1 DEF Trail!Extended
  <1>10. step.do = "create" => call.req.kind = "create" /\ step.in.idem = call.req.in.idem
    BY <1>3 DEF GoodStep
  <1>11. call.req.kind = "create" => step.do = "create"
    BY <1>3, <1>9 DEF GoodStep
  <1>12. new.call # None
    BY <1>3, RequestAssumption
  <1>13. last \in Made(key)' <=> step.do = "create" /\ step.in.idem = key
    BY <1>6, <1>7, <1>8, <1>10, <1>11, <1>12 DEF Made
  <1>14. KeySpent("issue", key)' /\ ~KeySpent("issue", key)
           => step.do = "create" /\ step.in.idem = key
    BY <1>3, <1>4, SpentByCreate
  <1> QED
    BY <1>3, <1>5, <1>13, <1>14

LEMMA MadeStep ==
  ASSUME RecordInv, SpentMeansMade, MadeOnce, [CallNext]_callVars
  PROVE  SpentMeansMade' /\ MadeOnce'
  <1>1. /\ StoreInv /\ TypesInv /\ TypeOK /\ [Next]_vars
    BY CallStepIsTransaction DEF RecordInv, TypesInv, StoreInv
  <1>2. \A key : Made(key) \subseteq Made(key)'
    BY MadeStays DEF Made, ByCalls
  <1>3. CASE by' = by /\ events' = events
    <2>1. \A key : Made(key)' \subseteq Made(key)
      BY <1>3, MadeStays DEF Made, ByCalls
    <2>2. \A key : KeySpent("issue", key)' => KeySpent("issue", key)
      BY <1>1, <1>3, SpentIsRecorded DEF KeySpent
    <2>3. SpentMeansMade'
      BY <1>2, <2>2 DEF SpentMeansMade
    <2>4. MadeOnce'
      BY <2>1 DEF MadeOnce
    <2> QED
      BY <2>3, <2>4
  <1>4. ASSUME NEW h \in handlers, NEW step, Records(h, step)
        PROVE  SpentMeansMade' /\ MadeOnce'
    <2>1. PICK last : last = Len(events) + 1
      OBVIOUS
    <2>2. ASSUME NEW key \in IdemKeys, KeySpent("issue", key)'
          PROVE  Made(key)' # {}
      BY <1>2, <1>4, <2>1, <2>2, MadeNew DEF SpentMeansMade
    <2>3. ASSUME NEW key \in IdemKeys
          PROVE  \A m, n \in Made(key)' : m = n
      <3>1. Made(key)' \subseteq Made(key) \cup {last}
        <4>1. Made(key)' \subseteq DOMAIN by'
          BY DEF Made, ByCalls
        <4> QED
          BY <1>4, <2>1, <4>1, MadeNew, MadeStays
      <3>2. last \in Made(key)' => Made(key) = {}
        <4>1. last \in Made(key)' => ~KeySpent("issue", key)
          BY <1>4, <2>1, MadeNew DEF Fresh
        <4> QED
          BY <4>1, MadeIsSpent
      <3>3. \A m, n \in Made(key) : m = n
        BY DEF MadeOnce
      <3> QED
        BY <3>1, <3>2, <3>3
    <2>4. SpentMeansMade'
      BY <2>2 DEF SpentMeansMade
    <2>5. MadeOnce'
      BY <2>3 DEF MadeOnce
    <2> QED
      BY <2>4, <2>5
  <1> QED
    BY <1>1, <1>3, <1>4, RecordsOrNot

\* The last step of a create is the one that creates.
LEMMA CreatesLast ==
  ASSUME NEW req, NEW expect, req.kind = "create"
  PROVE  Steps(req, expect)[Len(Steps(req, expect))].do = "create"
  <1>1. Steps(req, expect) = CreateSteps(req)
    BY DEF Steps
  <1> DEFINE label == [do |-> "ensure", label |-> AgentLabel]
             plain == [do |-> "create", in |-> req.in]
             labelled == [do |-> "create",
                          in |-> [req.in EXCEPT !.labels = @ \cup {AgentLabel}]]
  <1>2. plain.do = "create" /\ labelled.do = "create"
    OBVIOUS
  <1>3. Steps(req, expect) = <<plain>> \/ Steps(req, expect) = <<label, labelled>>
    BY <1>1, Zenon DEF CreateSteps
  <1> HIDE DEF label, plain, labelled
  <1>4. CASE Steps(req, expect) = <<plain>>
    BY <1>2, <1>4
  <1>5. CASE Steps(req, expect) = <<label, labelled>>
    BY <1>2, <1>5
  <1> QED
    BY <1>3, <1>4, <1>5

LEMMA KeyStaysTaken ==
  ASSUME [Next]_vars, NEW call, KeyTaken(call)
  PROVE  KeyTaken(call)'
  BY SpentGrows DEF KeyTaken, KeySpent

LEMMA HandlersCreatedStep ==
  ASSUME RecordInv, HandlersCreated, [CallNext]_callVars
  PROVE  HandlersCreated'
  <1>1. /\ StoreInv /\ CallsTyped /\ HandlersTyped /\ TypesInv /\ [Next]_vars
    BY CallStepIsTransaction DEF RecordInv, TypesInv
  <1>2. ASSUME NEW h \in handlers, NEW call, call = calls'[h.call],
               h.results # << >>, Last(h.results) \notin Failures,
               Len(h.results) = Len(StepsOf(h)')
        PROVE  KeyTaken(call)'
    <2>1. PICK old : old = calls[h.call]
      OBVIOUS
    <2>2. h.call \in Callers /\ Started(h.call)
      BY <1>1 DEF HandlersTyped, Handler
    <2>3. call.req = old.req /\ call.expect = old.expect
      BY <1>1, <1>2, <2>1, <2>2, CallsMove, StartedStays
    <2>4. StepsOf(h)' = StepsOf(h)
      BY <1>2, <2>1, <2>3 DEF StepsOf, CallOf
    <2>5. KeyTaken(old)
      BY <1>2, <2>1, <2>4 DEF HandlersCreated
    <2>6. KeyTaken(call)
      BY <2>3, <2>5 DEF KeyTaken
    <2> QED
      BY <1>1, <2>6, KeyStaysTaken
  <1>3. CASE handlers' \subseteq handlers
    BY <1>2, <1>3 DEF HandlersCreated
  <1>4. ASSUME NEW c \in Callers, Opens(c)
        PROVE  HandlersCreated'
    <2> DEFINE new == [call |-> c, attempt |-> calls[c].attempt + 1, results |-> << >>]
    <2>1. handlers' = handlers \cup {new} /\ new.results = << >>
      BY <1>4 DEF Opens
    <2> HIDE DEF new
    <2> QED
      BY <1>2, <2>1 DEF HandlersCreated
  <1>5. ASSUME NEW h \in handlers, NEW result \in Results, Advances(h, result)
        PROVE  HandlersCreated'
    <2>1. /\ h \in Handler /\ h.results \in Seq(Results) /\ Len(h.results) \in Nat
          /\ h.call \in Callers /\ Started(h.call)
      BY <1>1 DEF HandlersTyped, Handler
    <2>2. PICK g : g = [h EXCEPT !.results = Append(@, result)]
      OBVIOUS
    <2>3. /\ g.call = h.call /\ Last(g.results) = result
          /\ Len(g.results) = Len(h.results) + 1
      BY <2>1, <2>2 DEF Handler, Last
    <2>4. handlers' = (handlers \ {h}) \cup {g} /\ calls' = calls /\ ~Finished(h)
      BY <1>5, <2>2 DEF Advances
    <2>5. ASSUME NEW call, call = calls'[g.call], Last(g.results) \notin Failures,
                 Len(g.results) = Len(StepsOf(g)'),
                 call.req.kind = "create", call.req.in.idem # None
          PROVE  KeySpent("issue", call.req.in.idem)'
      <3>1. StepsOf(g)' = Steps(call.req, call.expect)
            /\ StepsOf(h) = Steps(call.req, call.expect)
        BY <2>3, <2>4, <2>5 DEF StepsOf, CallOf
      <3>2. PICK step : step = StepsOf(h)[Len(h.results) + 1]
        OBVIOUS
      <3>3. step.do = "create"
        BY <2>3, <2>5, <3>1, <3>2, CreatesLast
      <3>4. step.in.idem = call.req.in.idem
        <4>1. GoodStep(step, CallOf(h).req, CallOf(h).expect) /\ CallOf(h) = call
          BY <1>1, <2>3, <2>4, <2>5, <3>2, NextStepGood DEF CallOf
        <4> QED
          BY <3>3, <4>1 DEF GoodStep
      <3>5. Outcome(step, result) /\ result \notin Failures
        BY <1>5, <2>3, <2>5, <3>2 DEF Advances
      <3>6. CASE Writes(step)
        <4> DEFINE entry == <<"issue", step.in.idem, NewKey>>
        <4>1. entry \in spent'
          BY <2>5, <3>3, <3>4, <3>6 DEF Writes, CreateIssue
        <4>2. entry[1] = "issue" /\ entry[2] = step.in.idem
          OBVIOUS
        <4> HIDE DEF entry
        <4> QED
          BY <3>4, <4>1, <4>2 DEF KeySpent
      <3>7. CASE ChangesNothing(step)
        <4>1. KeySpent("issue", step.in.idem)
          BY <3>3, <3>7 DEF ChangesNothing
        <4> QED
          BY <1>1, <3>4, <4>1, SpentGrows DEF KeySpent
      <3> QED
        BY <3>5, <3>6, <3>7 DEF Outcome, Failures
    <2> QED
      BY <1>2, <2>4, <2>5 DEF HandlersCreated, KeyTaken
  <1> QED
    BY <1>3, <1>4, <1>5, HandlersMove

LEMMA CallersCreatedStep ==
  ASSUME RecordInv, HandlersCreated, CallersCreated, [CallNext]_callVars
  PROVE  CallersCreated'
  <1>1. /\ StoreInv /\ CallsTyped /\ HandlersTyped /\ [Next]_vars /\ TypesInv
    BY CallStepIsTransaction DEF RecordInv, TypesInv
  <1>2. ASSUME NEW c \in Callers, NEW call, call = calls'[c], call.phase = "done",
               call.answer \in {"written", "same"}
        PROVE  KeyTaken(call)'
    <2>1. CASE calls'[c] = calls[c]
      <3>1. KeyTaken(call)
        BY <1>2, <2>1 DEF CallersCreated
      <3> QED
        BY <1>1, <3>1, KeyStaysTaken
    <2>2. CASE Started(c) /\ \E h \in handlers :
                 Finished(h) /\ h.call = c /\ calls'[c].answer = Reply(h)
      <3>1. PICK h \in handlers : Finished(h) /\ h.call = c /\ Reply(h) = call.answer
        BY <1>2, <2>2
      <3>2. PICK old : old = calls[c]
        OBVIOUS
      <3>3. call.req = old.req
        BY <1>1, <1>2, <2>2, <3>2, CallsMove, StartedStays
      <3>4. h.results # << >> /\ Last(h.results) = call.answer
        BY <1>2, <3>1 DEF Reply
      <3>5. Last(h.results) \notin Failures /\ Len(h.results) = Len(StepsOf(h))
        BY <1>2, <3>1, <3>4 DEF Finished, Failures
      <3>6. KeyTaken(old)
        BY <3>1, <3>2, <3>4, <3>5 DEF HandlersCreated
      <3>7. KeyTaken(call)
        BY <3>3, <3>6 DEF KeyTaken
      <3> QED
        BY <1>1, <3>7, KeyStaysTaken
    <2>3. CASE calls'[c].answer = "unreachable"
      BY <1>2, <2>3
    <2> QED
      BY <1>1, <1>2, <2>1, <2>2, <2>3, Concluded
  <1> QED
    BY <1>2 DEF CallersCreated, KeyTaken, KeySpent

\* An idempotency key makes one record, and a caller told of a create finds it
\* made (CreateIssue's lookup of the key in the transaction of the insert).
THEOREM KeysCreateOnce == CallSpec => []KeyedCreatesOnce
  <1>1. ASSUME CallInit
        PROVE  SpentMeansMade /\ MadeOnce /\ HandlersCreated /\ CallersCreated
    <2>1. /\ by = <<[call |-> None, attempt |-> 0, step |-> 0]>> /\ handlers = {}
          /\ spent = {} /\ calls = [c \in Callers |-> Idle]
      BY <1>1 DEF CallInit
    <2>2. \A n \in DOMAIN by : by[n].call = None
      BY <2>1
    <2>3. \A key : Made(key) = {}
      BY <2>2 DEF Made, ByCalls
    <2> QED
      BY <2>1, <2>3
      DEF SpentMeansMade, MadeOnce, HandlersCreated, CallersCreated, KeySpent, Idle
  <1>2. ASSUME SpentMeansMade, MadeOnce, CallersCreated
        PROVE  KeyedCreatesOnce
    <2>1. ASSUME NEW key \in IdemKeys
          PROVE  Cardinality(Made(key)) <= 1
      <3>1. CASE Made(key) = {}
        BY <3>1, FS_EmptySet
      <3>2. CASE Made(key) # {}
        <4>1. PICK n : Made(key) = {n}
          BY <1>2, <3>2 DEF MadeOnce
        <4> QED
          BY <4>1, FS_Singleton
      <3> QED
        BY <3>1, <3>2
    <2>2. ASSUME NEW key \in IdemKeys, NEW c \in Callers, calls[c].phase = "done",
                 calls[c].answer \in {"written", "same"},
                 calls[c].req.kind = "create", calls[c].req.in.idem = key
          PROVE  Made(key) # {}
      BY <1>2, <2>2, RequestAssumption DEF CallersCreated, KeyTaken, SpentMeansMade
    <2> QED
      BY <2>1, <2>2 DEF KeyedCreatesOnce, Made
  <1> QED
    BY <1>1, <1>2, RecordInvHolds, MadeStep, HandlersCreatedStep, CallersCreatedStep,
       PTL DEF CallSpec

-----------------------------------------------------------------------------
(***************************************************************************)
(* Descriptions.  Every event shows the description it found at the start  *)
(* of the one it left, unless the step overwrote it, which only a request  *)
(* of an admin asks for.                                                   *)
(***************************************************************************)
Adds(n) == IsPrefix(events[n].before.description, events[n].after.description)

Asked(n, req) == events[n].action = "issue.updated" /\ ~Adds(n) => req.admin

OverwritesAsked ==
  \A n \in DOMAIN by : \A entry :
    entry = by[n] /\ entry.call # None => Asked(n, calls[entry.call].req)

LEMMA PrefixOfItself ==
  ASSUME NEW set, NEW s \in Seq(set)
  PROVE  IsPrefix(s, s)
BY DEF IsPrefix

LEMMA PrefixOfMore ==
  ASSUME NEW set, NEW s \in Seq(set), NEW e \in set
  PROVE  IsPrefix(s, Append(s, e))
<1>1. Append(s, e) \in Seq(set) /\ Len(Append(s, e)) = Len(s) + 1 /\ Len(s) \in Nat
  OBVIOUS
<1>2. \A i \in 1..Len(s) : Append(s, e)[i] = s[i]
  OBVIOUS
<1>3. SubSeq(Append(s, e), 1, Len(s)) = SubSeq(s, 1, Len(s))
  BY <1>1, <1>2
<1>4. Len(s) <= Len(Append(s, e))
  BY <1>1
<1> QED
  BY <1>3, <1>4 DEF IsPrefix

LEMMA EmptyIsPrefix ==
  ASSUME NEW set, NEW t \in Seq(set)
  PROVE  IsPrefix(<< >>, t)
<1>1. Len(<< >>) = 0 /\ Len(t) \in Nat
  OBVIOUS
<1>2. SubSeq(<< >>, 1, 0) = SubSeq(t, 1, 0)
  OBVIOUS
<1> QED
  BY <1>1, <1>2 DEF IsPrefix

\* What a patch makes of the description.
LEMMA PatchedDescription ==
  ASSUME TypeOK, NEW row \in Issue, NEW p \in Patches, NEW m \in Nat
  PROVE  /\ Loaded(row).description = row.description
         /\ Loaded(Bumped(Patched(row, p, m))).description
              = Pick(p.description, row.description)
<1>1. StatusAfter(row, p) \in Issue
  BY StatusAfterType
<1>2. StatusAfter(row, p).description = row.description
  BY DEF StatusAfter, Issue
<1>3. Patched(row, p, m).description = Pick(p.description, row.description)
  BY <1>1, <1>2 DEF Patched, Issue
<1>4. Patched(row, p, m) \in Issue
  BY PatchedType
<1>5. /\ Bumped(Patched(row, p, m)) \in Issue
      /\ Bumped(Patched(row, p, m)).description = Patched(row, p, m).description
  BY <1>4, BumpedType DEF Bumped, Issue
<1>6. \A r \in Issue : Loaded(r).description = r.description
  BY DEF Loaded, Issue
<1> QED
  BY <1>3, <1>5, <1>6

\* What a step that records leaves in its event.
LEMMA WrittenAsked ==
  ASSUME StoreInv, NEW req, NEW expect, NEW step, GoodStep(step, req, expect),
         Writes(step), Trail!Extended, NEW n, n = Len(events) + 1
  PROVE  Asked(n, req)'
  <1>1. TypeOK
    BY DEF StoreInv
  <1>2. ASSUME NEW action, NEW row, NEW before, NEW after,
               Record(action, row, before, after)
        PROVE  events'[n].action = action /\ events'[n].before = before
               /\ events'[n].after = after
    <2>1. events'[n] = [action |-> action, row |-> row, before |-> before, after |-> after]
      BY <1>1, <1>2, RecordExtends DEF Trail!NewEvent
    <2> QED
      BY <2>1
  <1>3. CASE step.do = "patch"
    <2>1. PICK k, p : k = step.key /\ p = step.patch
      OBVIOUS
    <2>2. k \in Keys /\ p \in Patches /\ (Overwrites(p) => req.admin)
      BY <1>3, <2>1 DEF GoodStep
    <2>3. PICK row : row = issues[k] /\ row \in Issue
      BY <1>1, <2>2 DEF TypeOK, Keys
    <2>4. PICK m \in MilestonesAfter(row, p) :
            Record("issue.updated", k, Loaded(row), Loaded(Bumped(Patched(row, p, m))))
      BY <1>3, <2>1, <2>3 DEF Writes, UpdateIssue
    <2>5. DescriptionAllowed(row, p)
      BY <1>3, <2>1, <2>3 DEF Writes, UpdateIssue
    <2>6. m \in Nat
      BY <1>1, <2>2, <2>3, MilestonesAfterType
    <2>7. /\ events'[n].before.description = row.description
          /\ events'[n].after.description = Pick(p.description, row.description)
      BY <1>1, <1>2, <2>2, <2>3, <2>4, <2>6, PatchedDescription
    <2>8. row.description \in Seq(Texts)
      BY <2>3 DEF Issue
    <2>9. CASE p.description = Keep
      BY <2>7, <2>8, <2>9, PrefixOfItself DEF Asked, Adds, Pick
    <2>10. CASE p.description # Keep /\ row.description = << >>
      <3>1. p.description \in Seq(Texts)
        <4>1. p \in Patch
          BY <2>2, InputAssumption
        <4> QED
          BY <2>10, <4>1 DEF Patch
      <3>2. IsPrefix(<< >>, p.description)
        BY <3>1, EmptyIsPrefix
      <3> QED
        BY <2>7, <2>10, <3>2 DEF Asked, Adds, Pick
    <2>11. CASE p.description # Keep /\ p.replace
      BY <2>2, <2>11 DEF Overwrites, Asked
    <2> QED
      BY <2>5, <2>9, <2>10, <2>11 DEF DescriptionAllowed
  <1>4. CASE step.do = "append"
    <2>1. PICK k, text : k = step.key /\ text = step.text
      OBVIOUS
    <2>2. k \in Keys /\ text \in Texts
      BY <1>4, <2>1 DEF GoodStep
    <2>3. PICK row : row = issues[k] /\ row \in Issue
      BY <1>1, <2>2 DEF TypeOK, Keys
    <2>4. row.description \in Seq(Texts)
      BY <2>3 DEF Issue
    <2> DEFINE longer == Append(row.description, text)
               after == [row EXCEPT !.description = longer]
    <2>5. Record("issue.updated", k, Loaded(row), Loaded(Bumped(after)))
      BY <1>4, <2>1, <2>3 DEF Writes, AppendDescription
    <2>6. longer \in Seq(Texts) /\ IsPrefix(row.description, longer)
      BY <2>2, <2>4, PrefixOfMore
    <2> HIDE DEF longer
    <2>7. after \in Issue /\ after.description = longer
      BY <2>3, <2>6 DEF Issue
    <2> HIDE DEF after
    <2>8. Bumped(after) \in Issue /\ Bumped(after).description = longer
      BY <2>7, BumpedType DEF Bumped, Issue
    <2>9. \A r \in Issue : Loaded(r).description = r.description
      BY DEF Loaded, Issue
    <2>10. /\ events'[n].before.description = row.description
           /\ events'[n].after.description = longer
      BY <1>2, <2>3, <2>5, <2>8, <2>9
    <2> QED
      BY <2>6, <2>10 DEF Asked, Adds
  <1>5. CASE step.do = "comment"
    <2>1. \E row, before, after : Record("comment.created", row, before, after)
      BY <1>5 DEF Writes, AddComment
    <2>2. events'[n].action = "comment.created"
      BY <1>2, <2>1
    <2> QED
      BY <2>2 DEF Asked
  <1>6. CASE step.do = "create"
    <2>1. \E row, before, after : Record("issue.created", row, before, after)
      <3>1. CreateIssue(step.in)
        BY <1>6 DEF Writes
      <3> QED
        BY <3>1 DEF CreateIssue
    <2>2. events'[n].action = "issue.created"
      BY <1>2, <2>1
    <2> QED
      BY <2>2 DEF Asked
  <1>7. CASE step.do = "ensure"
    <2>1. events' = events
      BY <1>7 DEF Writes, EnsureLabel
    <2> QED
      BY <1>1, <2>1 DEF Trail!Extended, TypeOK
  <1> QED
    BY <1>3, <1>4, <1>5, <1>6, <1>7 DEF GoodStep

LEMMA OverwritesAskedStep ==
  ASSUME RecordInv, OverwritesAsked, [CallNext]_callVars
  PROVE  OverwritesAsked'
  <1>1. /\ StoreInv /\ CallsTyped /\ HandlersTyped /\ TypesInv /\ ReadsStand /\ [Next]_vars
        /\ by \in Seq(ByEntry) /\ Len(by) \in Nat /\ Len(by) = Len(events)
    BY CallStepIsTransaction DEF RecordInv, TypesInv, BySound
  <1>2. ASSUME NEW n \in DOMAIN by, NEW entry, entry = by[n], entry.call # None
        PROVE  Asked(n, calls[entry.call].req)'
    <2>1. n \in ByCalls
      BY <1>2 DEF ByCalls
    <2>2. entry.call \in Callers /\ Started(entry.call) /\ n \in DOMAIN events
      BY <1>2, <2>1, OnRecord
    <2>3. calls'[entry.call].req = calls[entry.call].req
      BY <1>1, <2>2, CallsMove, StartedStays
    <2>4. events'[n] = events[n]
      BY <1>1, <2>2, EventsStay
    <2>5. Asked(n, calls[entry.call].req)
      BY <1>2 DEF OverwritesAsked
    <2> QED
      BY <2>3, <2>4, <2>5 DEF Asked, Adds
  <1>3. CASE by' = by
    BY <1>2, <1>3 DEF OverwritesAsked, Asked, Adds
  <1>4. ASSUME NEW h \in handlers, NEW step, Records(h, step)
        PROVE  OverwritesAsked'
    <2>1. PICK call, new, last :
            /\ call = calls[h.call] /\ last = Len(events) + 1
            /\ new = [call |-> h.call, attempt |-> h.attempt, step |-> Len(h.results) + 1]
      OBVIOUS
    <2>2. /\ new \in ByEntry /\ new.call = h.call
          /\ GoodStep(step, call.req, call.expect)
      BY <1>1, <1>4, <2>1, NewEntrySound
    <2>3. by' = Append(by, new) /\ calls' = calls /\ Writes(step) /\ Trail!Extended
      BY <1>4, <2>1 DEF Records
    <2>4. /\ DOMAIN by' = DOMAIN by \cup {last} /\ by'[last] = new
          /\ \A n \in DOMAIN by : by'[n] = by[n]
      BY <1>1, <2>1, <2>2, <2>3
    <2>5. Asked(last, call.req)'
      BY <1>1, <2>1, <2>2, <2>3, WrittenAsked
    <2>6. ASSUME NEW n \in DOMAIN by', NEW entry, entry = by'[n], entry.call # None
          PROVE  Asked(n, calls[entry.call].req)'
      <3>1. CASE n \in DOMAIN by
        BY <1>2, <2>4, <2>6, <3>1
      <3>2. CASE n = last
        <4>1. calls'[entry.call].req = call.req
          BY <2>1, <2>2, <2>3, <2>4, <2>6, <3>2
        <4> QED
          BY <2>5, <3>2, <4>1 DEF Asked, Adds
      <3> QED
        BY <2>4, <2>6, <3>1, <3>2
    <2> QED
      BY <2>6 DEF OverwritesAsked, Asked, Adds
  <1> QED
    BY <1>1, <1>3, <1>4, RecordsOrNot

\* What a description says is only ever added to, whatever calls come together,
\* unless an admin asked for the overwrite (the check of the role before the
\* store is called, and the store's own check of replace_description).
THEOREM AdminsOverwrite == CallSpec => []OnlyAdminsOverwrite
  <1>1. ASSUME CallInit
        PROVE  OverwritesAsked
    <2>1. by = <<[call |-> None, attempt |-> 0, step |-> 0]>>
      BY <1>1 DEF CallInit
    <2>2. \A n \in DOMAIN by : by[n].call = None
      BY <2>1
    <2> QED
      BY <2>2 DEF OverwritesAsked
  <1>2. OverwritesAsked => OnlyAdminsOverwrite
    BY DEF OverwritesAsked, Asked, Adds, OnlyAdminsOverwrite, ByCalls, RequestOf
  <1> QED
    BY <1>1, <1>2, RecordInvHolds, OverwritesAskedStep, PTL DEF CallSpec
=============================================================================
