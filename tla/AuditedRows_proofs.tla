-------------------------- MODULE AuditedRows_proofs --------------------------
(***************************************************************************)
(* The trail of every audited table is complete.  The inductive invariant  *)
(* is the trail itself with the log being a sequence: Current says the row *)
(* is what the last event left, which is what makes the next event chain.  *)
(***************************************************************************)
EXTENDS AuditedRows, TLAPS

LogOK == Len(log) \in Nat /\ DOMAIN log = 1..Len(log)

TrailInv == LogOK /\ AuditTrail

LEMMA TrailInit == Init => TrailInv
  BY DEF Init, TrailInv, LogOK, AuditTrail, Current, Chained, Born

\* What a step that extends the log keeps of the earlier events.
LEMMA EarlierKept ==
  ASSUME LogOK, Extended
  PROVE  /\ LogOK'
         /\ Len(log') = Len(log) + 1
         /\ \A n \in DOMAIN log : n \in DOMAIN log' /\ log'[n] = log[n]
         /\ \A n \in DOMAIN log' : n \in DOMAIN log \/ n = Len(log) + 1
  BY DEF LogOK, Extended

\* A step that records one event about row k, and changes no other row, keeps
\* the trail: this is every Create and every Write.
LEMMA RecordedStepKeepsTrail ==
  ASSUME TrailInv, Extended, NEW k \in DOMAIN rows',
         IsAbout(NewEvent, k), Agree(NewEvent.after, rows'[k]),
         DOMAIN rows' = DOMAIN rows \cup {k},
         \A j \in DOMAIN rows \ {k} : rows'[j] = rows[j],
         k \in DOMAIN rows => NewEvent.before # NoRow /\ Agree(NewEvent.before, rows[k]),
         k \notin DOMAIN rows => NewEvent.before = NoRow
  PROVE  TrailInv'
<1> DEFINE last == Len(log) + 1
<1>1. LogOK /\ LogOK' /\ Len(log') = last /\ DOMAIN log = 1..(last - 1) /\ last \in Nat \ {0}
  <2>1. LogOK /\ LogOK' /\ Len(log') = last
    BY EarlierKept DEF TrailInv
  <2>2. QED
    BY <2>1 DEF LogOK
<1>2. \A n \in DOMAIN log : n \in DOMAIN log' /\ log'[n] = log[n] /\ n \in Nat /\ n < last
  BY <1>1, EarlierKept DEF TrailInv
<1>3. DOMAIN log' = 1..last
  BY <1>1 DEF LogOK
<1>4. Current /\ Chained /\ Born
  BY DEF TrailInv, AuditTrail
<1> HIDE DEF last
<1>5. log'[last] = NewEvent /\ log'[last].row = k /\ log'[last].action \in Actions
  BY DEF NewEvent, IsAbout, last
<1>6. Current'
  <2>1. \A n \in DOMAIN log' : log'[n].action \in Actions => log'[n].row \in DOMAIN rows'
    BY <1>1, <1>2, <1>3, <1>4, <1>5 DEF Current
  <2>2. ASSUME NEW j \in DOMAIN rows'
        PROVE  \E n \in DOMAIN log' :
                 Precedes(n, Len(log) + 1, j)' /\ Agree(log[n].after, rows[j])'
    <3>1. CASE j = k
      BY <1>1, <1>3, <1>5, <3>1 DEF Precedes, IsAbout
    <3>2. CASE j # k
      <4>1. j \in DOMAIN rows /\ rows'[j] = rows[j]
        BY <3>2
      <4>2. PICK n \in DOMAIN log : Precedes(n, last, j) /\ Agree(log[n].after, rows[j])
        BY <1>4, <4>1 DEF Current, last
      <4>3. \A i \in (n + 1)..last : ~IsAbout(log'[i], j)
        BY <1>1, <1>2, <1>5, <3>2, <4>2 DEF Precedes, IsAbout
      <4>4. Precedes(n, Len(log) + 1, j)'
        BY <1>1, <1>2, <4>2, <4>3 DEF Precedes
      <4>5. QED
        BY <1>2, <4>1, <4>2, <4>4 DEF Agree
    <3>3. QED
      BY <3>1, <3>2
  <2>3. QED
    BY <2>1, <2>2 DEF Current
<1>7. Chained'
  <2> SUFFICES ASSUME NEW m \in DOMAIN log', NEW n \in DOMAIN log',
                      IsAbout(log'[n], log'[n].row), Precedes(m, n, log[n].row)'
               PROVE  log'[n].before # NoRow /\ Agree(log'[m].after, log'[n].before)
    BY DEF Chained, Agree
  <2>1. m \in DOMAIN log /\ m < n /\ log'[m] = log[m] /\ IsAbout(log[m], log'[n].row)
    BY <1>1, <1>2, <1>3 DEF Precedes
  <2>2. CASE n = last
    <3>1. log'[n].row = k /\ k \in DOMAIN rows
      BY <1>4, <1>5, <2>1, <2>2 DEF Current, IsAbout
    <3>2. PICK n0 \in DOMAIN log : Precedes(n0, last, k) /\ Agree(log[n0].after, rows[k])
      BY <1>4, <3>1 DEF Current, last
    <3>3. n0 = m
      <4>1. \A i \in (m + 1)..(last - 1) : ~IsAbout(log[i], k)
        BY <1>1, <1>2, <2>2, <3>1 DEF Precedes
      <4>2. \A i \in (n0 + 1)..(last - 1) : ~IsAbout(log[i], k)
        BY <3>2 DEF Precedes
      <4>3. QED
        BY <1>1, <1>2, <2>1, <3>1, <3>2, <4>1, <4>2 DEF Precedes
    <3>4. QED
      BY <1>5, <2>1, <2>2, <3>1, <3>2, <3>3 DEF Agree
  <2>3. CASE n # last
    <3>1. n \in DOMAIN log /\ log'[n] = log[n]
      BY <1>1, <1>2, <1>3, <2>3
    <3>2. Precedes(m, n, log[n].row)
      BY <1>1, <1>2, <2>1, <3>1 DEF Precedes
    <3>3. QED
      BY <1>4, <2>1, <3>1, <3>2 DEF Chained
  <2>4. QED
    BY <2>2, <2>3
<1>8. Born'
  <2> SUFFICES ASSUME NEW n \in DOMAIN log', log'[n].action \in Actions,
                      \A m \in 1..(n - 1) : ~IsAbout(log'[m], log'[n].row)
               PROVE  log'[n].before = NoRow
    BY DEF Born
  <2>1. CASE n = last
    <3>1. \A m \in DOMAIN log : ~IsAbout(log[m], k)
      BY <1>1, <1>2, <1>5, <2>1
    <3>2. k \notin DOMAIN rows
      BY <1>4, <3>1 DEF Current, Precedes
    <3>3. QED
      BY <1>5, <2>1, <3>2
  <2>2. CASE n # last
    <3>1. n \in DOMAIN log /\ log'[n] = log[n]
      BY <1>1, <1>2, <1>3, <2>2
    <3>2. \A m \in 1..(n - 1) : m \in DOMAIN log /\ log'[m] = log[m]
      BY <1>1, <1>2, <3>1
    <3>3. QED
      BY <1>4, <3>1, <3>2 DEF Born
  <2>3. QED
    BY <2>1, <2>2
<1>9. QED
  BY <1>1, <1>6, <1>7, <1>8 DEF TrailInv, AuditTrail

\* A step that records an event about another table keeps the trail.
LEMMA ElsewhereKeepsTrail ==
  ASSUME TrailInv, Elsewhere
  PROVE  TrailInv'
<1> DEFINE last == Len(log) + 1
<1>1. LogOK /\ LogOK' /\ Len(log') = last
  BY EarlierKept DEF TrailInv, Elsewhere
<1>2. DOMAIN log = 1..(last - 1) /\ DOMAIN log' = 1..last /\ last \in Nat \ {0}
  BY <1>1 DEF LogOK
<1>3. \A n \in DOMAIN log : n \in DOMAIN log' /\ log'[n] = log[n] /\ n \in Nat /\ n < last
  BY <1>2, EarlierKept DEF TrailInv, Elsewhere
<1>4. Current /\ Chained /\ Born
  BY DEF TrailInv, AuditTrail
<1> HIDE DEF last
<1>5. rows' = rows /\ log'[last].action \notin Actions
  BY DEF Elsewhere, NewEvent, last
<1>6. \A n \in DOMAIN log' : log'[n].action \in Actions => n \in DOMAIN log
  BY <1>2, <1>5
<1>7. \A k : \A m, n \in DOMAIN log : Precedes(m, n, k)' <=> Precedes(m, n, k)
  BY <1>2, <1>3 DEF Precedes, IsAbout
<1>8. Current'
  <2>1. ASSUME NEW k \in DOMAIN rows
        PROVE  \E n \in DOMAIN log' :
                 Precedes(n, Len(log) + 1, k)' /\ Agree(log[n].after, rows[k])'
    <3>1. PICK n \in DOMAIN log : Precedes(n, last, k) /\ Agree(log[n].after, rows[k])
      BY <1>4 DEF Current, last
    <3>2. \A i \in (n + 1)..last : ~IsAbout(log'[i], k)
      BY <1>2, <1>3, <1>5, <3>1 DEF Precedes, IsAbout
    <3>3. Precedes(n, Len(log) + 1, k)'
      BY <1>1, <1>2, <1>3, <3>1, <3>2 DEF Precedes
    <3>4. QED
      BY <1>3, <1>5, <3>1, <3>3 DEF Agree
  <2>2. QED
    BY <1>3, <1>4, <1>5, <1>6, <2>1 DEF Current
<1>9. Chained'
  BY <1>3, <1>4, <1>6, <1>7 DEF Chained, Precedes, IsAbout, Agree
<1>10. Born'
  BY <1>2, <1>3, <1>4, <1>6 DEF Born, IsAbout
<1>11. QED
  BY <1>1, <1>8, <1>9, <1>10 DEF TrailInv, AuditTrail

LEMMA TrailStep == TrailInv /\ [Next]_vars => TrailInv'
<1> SUFFICES ASSUME TrailInv, [Next]_vars
             PROVE  TrailInv'
  OBVIOUS
<1>1. ASSUME NEW k \in DOMAIN rows', Create(k)
      PROVE  TrailInv'
  BY <1>1, RecordedStepKeepsTrail DEF Create
<1>2. ASSUME NEW k \in DOMAIN rows', Write(k)
      PROVE  TrailInv'
  BY <1>2, RecordedStepKeepsTrail DEF Write
<1>3. CASE Elsewhere
  BY <1>3, ElsewhereKeepsTrail
<1>4. CASE UNCHANGED vars
  BY <1>4 DEF vars, TrailInv, LogOK, AuditTrail, Current, Chained, Born, Precedes, Agree
<1>5. QED
  BY <1>1, <1>2, <1>3, <1>4 DEF Next

\* A table kept as the specification says has a complete trail: every state of
\* every row is on record, in order and without a gap.
THEOREM TrailComplete == Spec => []AuditTrail
<1>1. TrailInv => AuditTrail
  BY DEF TrailInv
<1>2. QED
  BY <1>1, TrailInit, TrailStep, PTL DEF Spec
=============================================================================
