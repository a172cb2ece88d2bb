----------------------------- MODULE Files_proofs -----------------------------
(***************************************************************************)
(* Theorems on the files that trackd writes beside its database: the       *)
(* snapshots of Backup and the dumps of Dump.  Both put rows or files in   *)
(* an order by counting, so they share the lemmas that come first.         *)
(***************************************************************************)
EXTENDS BackupProperties, DumpProperties, FiniteSetTheorems, SequenceTheorems, TLAPS

(***************************************************************************)
(* Counting in a finite set.                                               *)
(***************************************************************************)

UpTo(S, r, x) == {y \in S : r[y] <= r[x]}

\* In a finite set whose members have different ranks, exactly n members have a
\* rank up to that of the n-th.
LEMMA Ranked ==
  ASSUME NEW S, IsFiniteSet(S), NEW r \in [S -> Int],
         \A x, y \in S : r[x] = r[y] => x = y,
         NEW n \in 1..Cardinality(S)
  PROVE  \E x \in S : Cardinality(UpTo(S, r, x)) = n
<1> DEFINE f == [x \in S |-> Cardinality(UpTo(S, r, x))]
           N == Cardinality(S)
<1>1. N \in Nat
  BY FS_CardinalityType
<1>2. \A x \in S : UpTo(S, r, x) \in SUBSET S /\ IsFiniteSet(UpTo(S, r, x)) /\ x \in UpTo(S, r, x)
  <2> TAKE x \in S
  <2>1. UpTo(S, r, x) \in SUBSET S /\ x \in UpTo(S, r, x)
    BY DEF UpTo
  <2> QED
    BY <2>1, FS_Subset
<1>3. \A x \in S : Cardinality(UpTo(S, r, x)) \in 1..N
  <2> TAKE x \in S
  <2>1. Cardinality(UpTo(S, r, x)) \in Nat
    BY <1>2, FS_CardinalityType
  <2>2. Cardinality(UpTo(S, r, x)) # 0
    BY <1>2, FS_EmptySet
  <2>3. Cardinality(UpTo(S, r, x)) <= N
    BY <1>2, FS_Subset
  <2> QED
    BY <1>1, <2>1, <2>2, <2>3
<1>4. \A x, y \in S : r[x] < r[y] => Cardinality(UpTo(S, r, x)) # Cardinality(UpTo(S, r, y))
  <2> SUFFICES ASSUME NEW x \in S, NEW y \in S, r[x] < r[y],
                      Cardinality(UpTo(S, r, x)) = Cardinality(UpTo(S, r, y))
               PROVE  FALSE
    OBVIOUS
  <2>1. UpTo(S, r, x) \in SUBSET UpTo(S, r, y) /\ y \in UpTo(S, r, y) /\ y \notin UpTo(S, r, x)
    BY DEF UpTo
  <2>2. UpTo(S, r, x) = UpTo(S, r, y)
    BY <1>2, <2>1, FS_Subset
  <2> QED
    BY <2>1, <2>2
<1>5. \A x, y \in S : x # y => f[x] # f[y]
  <2> SUFFICES ASSUME NEW x \in S, NEW y \in S, x # y
               PROVE  f[x] # f[y]
    OBVIOUS
  <2>1. r[x] < r[y] \/ r[y] < r[x]
    OBVIOUS
  <2> QED
    BY <1>4, <2>1
<1>6. f \in Injection(S, 1..N)
  BY <1>3, <1>5 DEF Injection, IsInjective
<1>7. IsFiniteSet(1..N) /\ Cardinality(1..N) = N
  BY <1>1, FS_Interval
<1>8. f \in Surjection(S, 1..N)
  BY <1>6, <1>7, FS_Injection
<1>9. PICK x \in S : f[x] = n
  BY <1>8 DEF Surjection
<1> QED
  BY <1>9

\* A finite set of integers that is not empty has a greatest member.
LEMMA HasGreatest ==
  ASSUME NEW S, IsFiniteSet(S), S \subseteq Int, S # {}
  PROVE  \E x \in S : \A y \in S : y <= x
<1> DEFINE r == [x \in S |-> x]
<1>1. Cardinality(S) \in Nat /\ Cardinality(S) # 0
  BY FS_CardinalityType, FS_EmptySet
<1>2. Cardinality(S) \in 1..Cardinality(S) /\ r \in [S -> Int]
  BY <1>1
<1>3. \A x, y \in S : r[x] = r[y] => x = y
  OBVIOUS
<1> HIDE DEF r
<1>4. PICK x \in S : Cardinality(UpTo(S, r, x)) = Cardinality(S)
  <2>1. \A n \in 1..Cardinality(S) : \E x \in S : Cardinality(UpTo(S, r, x)) = n
    BY <1>2, <1>3, Ranked
  <2> QED
    BY <1>2, <2>1
<1>5. UpTo(S, r, x) = S
  <2>1. UpTo(S, r, x) \in SUBSET S
    BY DEF UpTo
  <2> QED
    BY <1>4, <2>1, FS_Subset
<1> QED
  BY <1>5 DEF r, UpTo

(***************************************************************************)
(* The files of a directory, and what becomes of their places.             *)
(***************************************************************************)

\* Without the k-th member, those behind it move up by one.
LEMMA RemoveAtIs ==
  ASSUME NEW T, NEW s \in Seq(T), NEW k \in 1..Len(s)
  PROVE  /\ RemoveAt(s, k) \in Seq(T)
         /\ Len(RemoveAt(s, k)) = Len(s) - 1
         /\ \A i \in 1..(Len(s) - 1) :
              RemoveAt(s, k)[i] = IF i < k THEN s[i] ELSE s[i + 1]
<1> DEFINE front == SubSeq(s, 1, k - 1)
           back == SubSeq(s, k + 1, Len(s))
<1>1. Len(s) \in Nat /\ k \in Nat /\ \A i \in 1..Len(s) : s[i] \in T
  BY ElementOfSeq, LenProperties
<1>2. front \in Seq(T) /\ Len(front) = k - 1 /\ \A i \in 1..(k - 1) : front[i] = s[i]
  BY <1>1, SubSeqProperties, SMTT(20)
<1>3. back \in Seq(T) /\ Len(back) = Len(s) - k
      /\ \A i \in 1..(Len(s) - k) : back[i] = s[k + i]
  <2>1. \A i \in (k + 1)..Len(s) : s[i] \in T
    BY <1>1
  <2>2. /\ SubSeq(s, k + 1, Len(s)) \in Seq(T)
        /\ Len(SubSeq(s, k + 1, Len(s))) =
             IF k + 1 <= Len(s) THEN Len(s) - (k + 1) + 1 ELSE 0
        /\ \A i \in 1..(Len(s) - (k + 1) + 1) :
             SubSeq(s, k + 1, Len(s))[i] = s[(k + 1) + i - 1]
    BY <1>1, <2>1, SubSeqProperties
  <2> QED
    BY <1>1, <2>2
<1> HIDE DEF front, back
<1>4. /\ front \o back \in Seq(T)
      /\ Len(front \o back) = Len(front) + Len(back)
      /\ \A i \in 1..(Len(front) + Len(back)) :
           (front \o back)[i] = IF i <= Len(front) THEN front[i] ELSE back[i - Len(front)]
  BY <1>2, <1>3, ConcatProperties
<1>5. RemoveAt(s, k) = front \o back
  BY DEF RemoveAt, front, back
<1>6. ASSUME NEW i \in 1..(Len(s) - 1)
      PROVE  RemoveAt(s, k)[i] = IF i < k THEN s[i] ELSE s[i + 1]
  <2>1. RemoveAt(s, k)[i] = IF i <= k - 1 THEN front[i] ELSE back[i - (k - 1)]
    BY <1>1, <1>2, <1>3, <1>4, <1>5
  <2>2. CASE i < k
    BY <1>1, <1>2, <2>1, <2>2
  <2>3. CASE ~(i < k)
    BY <1>1, <1>3, <2>1, <2>3
  <2> QED
    BY <2>2, <2>3
<1>7. Len(RemoveAt(s, k)) = Len(s) - 1
  <2>1. (k - 1) + (Len(s) - k) = Len(s) - 1
    BY <1>1
  <2> QED
    BY <1>2, <1>3, <1>4, <1>5, <2>1
<1> QED
  BY <1>4, <1>5, <1>6, <1>7

LEMMA FunctionIsSeq ==
  ASSUME NEW T, NEW n \in Nat, NEW f \in [1..n -> T]
  PROVE  f \in Seq(T) /\ Len(f) = n /\ DOMAIN f = 1..n
  BY SeqDef, LenProperties

(***************************************************************************)
(* Snapshots: types.                                                       *)
(***************************************************************************)
Attempt == [step: Steps, name: Names \cup {None}, left: BOOLEAN]

Places == {"list", "timer", "idle", "probe", "choose", "wait", "prune", "remove"}

SchedTypes ==
  /\ sched \in [pc: Places, run: Runs \cup {None}, elapsed: 0..Timeout,
                left: (0..Every) \cup {None}, blocked: BOOLEAN]
  /\ sched.blocked => sched.pc \in MayBlock

LastTypes == last \in [at: (0..Horizon) \cup {None}, error: BOOLEAN]

AttemptTypes ==
  /\ attempt \in [Attempts -> Attempt]
  /\ \A a \in Attempts : attempt[a].step = "free" <=> attempt[a].name = None

DirTypes ==
  /\ files \in Seq(File)
  /\ AttemptTypes
  /\ second \in Names \cup {None}
  /\ pruning \in [Pruners -> Seq(Names)]

LEMMA WithoutTypes ==
  ASSUME DirTypes, NEW name, NEW hidden
  PROVE  Without(name, hidden) \in Seq(File)
<1>1. CASE ~Exists(name, hidden)
  BY <1>1 DEF Without, DirTypes
<1>2. CASE Exists(name, hidden)
  <2>1. \E i \in DOMAIN files : Is(files[i], name, hidden)
    BY <1>2 DEF Exists, ToSet
  <2>2. Position(name, hidden) \in DOMAIN files
    BY <2>1 DEF Position
  <2>3. Position(name, hidden) \in 1..Len(files)
    BY <2>2, LenProperties DEF DirTypes
  <2> QED
    BY <1>2, <2>3, RemoveAtIs DEF Without, DirTypes
<1> QED
  BY <1>1, <1>2

LEMMA LetGoTypes ==
  ASSUME NEW dir \in Seq(File), NEW writers
  PROVE  LetGo(dir, writers) \in Seq(File)
<1>1. DOMAIN dir = 1..Len(dir) /\ Len(dir) \in Nat /\ \A i \in 1..Len(dir) : dir[i] \in File
  BY LenProperties, ElementOfSeq
<1>2. \A i \in 1..Len(dir) :
        (IF dir[i].by \in writers THEN [dir[i] EXCEPT !.by = None] ELSE dir[i]) \in File
  BY <1>1 DEF File
<1>3. LetGo(dir, writers) \in [1..Len(dir) -> File]
  BY <1>1, <1>2 DEF LetGo
<1> QED
  BY <1>1, <1>3, FunctionIsSeq

LEMMA RenamedTypes ==
  ASSUME DirTypes, NEW name
  PROVE  Renamed(name) \in Seq(File)
<1> DEFINE dir == Without(name, FALSE)
<1>1. dir \in Seq(File)
  BY WithoutTypes
<1>2. DOMAIN dir = 1..Len(dir) /\ Len(dir) \in Nat /\ \A i \in 1..Len(dir) : dir[i] \in File
  BY <1>1, LenProperties, ElementOfSeq
<1>3. \A i \in 1..Len(dir) :
        (IF Is(dir[i], name, TRUE) THEN [dir[i] EXCEPT !.hidden = FALSE] ELSE dir[i]) \in File
  BY <1>2 DEF File
<1>4. Renamed(name) \in [1..Len(dir) -> File]
  BY <1>2, <1>3 DEF Renamed
<1> QED
  BY <1>2, <1>4, FunctionIsSeq

LEMMA VerifiedFinite ==
  ASSUME DirTypes
  PROVE  /\ Verified \subseteq 1..Len(files)
         /\ IsFiniteSet(Verified)
         /\ Cardinality(Verified) \in Nat
<1>1. Len(files) \in Nat /\ Verified \subseteq 1..Len(files)
  BY LenProperties DEF DirTypes, Verified
<1>2. IsFiniteSet(1..Len(files))
  BY <1>1, FS_Interval
<1> QED
  BY <1>1, <1>2, FS_Subset, FS_CardinalityType

\* The k-th snapshot to prune is a verified one, with Keep newer ones.
LEMMA SurplusIs ==
  ASSUME DirTypes, NEW k \in 1..(Cardinality(Verified) - Keep)
  PROVE  \E i \in Verified :
           /\ Surplus[k] = files[i].name
           /\ \E j \in Verified : j > i
<1> DEFINE n == Keep + k
           r == [i \in Verified |-> -i]
           Upwards(i) == {j \in Verified : j >= i}
<1>1. Verified \subseteq Nat /\ IsFiniteSet(Verified) /\ Cardinality(Verified) \in Nat
  BY VerifiedFinite
<1>2. Keep \in Nat \ {0} /\ n \in 1..Cardinality(Verified) /\ n > 1
  BY <1>1, BackupAssumption
<1> HIDE DEF n
<1>3. \E i \in Verified : Cardinality(UpTo(Verified, r, i)) = n
  <2>1. r \in [Verified -> Int] /\ \A x, y \in Verified : r[x] = r[y] => x = y
    BY <1>1
  <2> HIDE DEF r
  <2>2. \A m \in 1..Cardinality(Verified) :
          \E i \in Verified : Cardinality(UpTo(Verified, r, i)) = m
    BY <1>1, <2>1, Ranked
  <2> QED
    BY <1>2, <2>2
<1>4. \A i \in Verified : UpTo(Verified, r, i) = Upwards(i)
  <2> TAKE i \in Verified
  <2>1. \A j \in Verified : r[j] <= r[i] <=> j >= i
    BY <1>1
  <2> QED
    BY <2>1 DEF UpTo
<1>5. \E i \in Verified : Cardinality(Upwards(i)) = n
  BY <1>3, <1>4
<1> DEFINE i == NthNewest(n)
<1>6. i \in Verified /\ Cardinality(Upwards(i)) = n
  BY <1>5 DEF NthNewest
<1>7. Surplus[k] = files[i].name
  BY DEF Surplus, n
<1>8. \E j \in Verified : j > i
  <2> SUFFICES ASSUME \A j \in Verified : ~(j > i) PROVE FALSE
    OBVIOUS
  <2> HIDE DEF i
  <2>1. \A j \in Verified : j >= i => j = i
    BY <1>1, <1>6
  <2>2. Upwards(i) = {i}
    <3>1. i \in Upwards(i)
      BY <1>1, <1>6
    <3>2. \A j \in Upwards(i) : j = i
      BY <2>1
    <3> HIDE DEF Upwards
    <3> QED
      BY <3>1, <3>2
  <2>3. Cardinality({i}) = 1
    BY FS_Singleton
  <2> QED
    BY <1>2, <1>6, <2>2, <2>3
<1> QED
  BY <1>6, <1>7, <1>8

LEMMA SurplusTypes ==
  ASSUME DirTypes
  PROVE  /\ Surplus \in Seq(Names)
         /\ DOMAIN Surplus = 1..(Cardinality(Verified) - Keep)
<1> DEFINE n == Cardinality(Verified) - Keep
<1>1. n \in Int
  BY VerifiedFinite, BackupAssumption
<1>2. \A k \in 1..n : Surplus[k] \in Names
  <2> TAKE k \in 1..n
  <2>1. PICK i \in Verified : Surplus[k] = files[i].name
    BY SurplusIs
  <2>2. i \in 1..Len(files)
    BY VerifiedFinite
  <2>3. files[i] \in File
    BY <2>2, ElementOfSeq DEF DirTypes
  <2> QED
    BY <2>1, <2>3 DEF File
<1>3. Surplus \in [1..n -> Names]
  BY <1>2 DEF Surplus
<1>4. CASE n >= 0
  BY <1>1, <1>3, <1>4, FunctionIsSeq
<1>5. CASE n < 0
  <2>1. 1..n = 1..0
    BY <1>1, <1>5
  <2> QED
    BY <1>3, <2>1, FunctionIsSeq
<1> QED
  BY <1>1, <1>3, <1>4, <1>5

LEMMA FreshIs ==
  ASSUME DirTypes, NEW n \in Candidates
  PROVE  n \in Names
<1>1. n \in Names \ Taken \/ n \in {second} \ {None}
  BY DEF Candidates
<1> QED
  BY <1>1 DEF DirTypes

LEMMA RemovesTypes ==
  ASSUME DirTypes, NEW p \in Pruners, Removes(p)
  PROVE  files' \in Seq(File) /\ pruning' \in [Pruners -> Seq(Names)]
<1>1. pruning[p] \in Seq(Names) /\ pruning[p] # << >>
  BY DEF DirTypes, Removes
<1>2. Tail(pruning[p]) \in Seq(Names)
  BY <1>1, HeadTailProperties
<1>3. << >> \in Seq(Names)
  OBVIOUS
<1> QED
  BY <1>2, <1>3, WithoutTypes DEF DirTypes, Removes

LEMMA GivesUpTypes ==
  ASSUME DirTypes, NEW a \in Attempts, attempt[a].step # "free", GivesUp(a)
  PROVE  files' \in Seq(File) /\ AttemptTypes'
<1>1. files' \in Seq(File)
  BY WithoutTypes, LetGoTypes DEF GivesUp
<1>2. AttemptTypes'
  BY DEF GivesUp, Goes, DirTypes, AttemptTypes, Attempt, Steps
<1> QED
  BY <1>1, <1>2

\* Every step of the scheduler leaves the directory's and the attempts' state
\* well formed, and so does every other step.
LEMMA DirTypesStep ==
  ASSUME DirTypes, [BackupNext]_backupVars
  PROVE  DirTypes'
<1> USE DEF DirTypes
<1>1. CASE UNCHANGED backupVars
  BY <1>1 DEF backupVars, AttemptTypes
<1>2. ASSUME NEW a \in Attempts, attempt[a].step # "free",
             NEW step \in Steps \ {"free"}, Goes(a, step)
      PROVE  AttemptTypes'
  BY <1>2 DEF Goes, Attempt, AttemptTypes
<1>3. ASSUME NEW a \in Attempts, NEW n \in Names, Started(a, n)
      PROVE  AttemptTypes' /\ second' \in Names \cup {None}
  BY <1>3, BackupAssumption DEF Started, Attempt, Steps, AttemptTypes
<1>4. Idle \in Attempt /\ Idle.step = "free" /\ Idle.name = None /\ << >> \in Seq(Names) /\ Surplus \in Seq(Names)
  BY SurplusTypes DEF Idle, Attempt, Steps
<1>5. ASSUME SchedulerSteps PROVE DirTypes'
  <2>1. CASE ListAtStart
    BY <2>1 DEF ListAtStart, AttemptTypes
  <2>2. CASE TimerFires \/ TickerFires \/ Probe \/ ProbeFails
    BY <2>2 DEF TimerFires, TickerFires, Probe, ProbeFails, AttemptTypes
  <2>3. CASE ChooseName
    BY <2>3, <1>3, FreshIs DEF ChooseName, Attempts
  <2>4. CASE Finish \/ AttemptFailed
    BY <2>4, <1>4 DEF Finish, AttemptFailed, AttemptTypes
  <2>5. CASE Abandon
    BY <2>5 DEF Abandon, Attempt, AttemptTypes
  <2>6. CASE PruneLists \/ PruneEnds
    BY <2>6, <1>4 DEF PruneLists, PruneEnds, AttemptTypes
  <2>7. CASE PruneRemoves
    BY <2>7, RemovesTypes DEF PruneRemoves, Pruners, AttemptTypes
  <2> QED
    BY <1>5, <2>1, <2>2, <2>3, <2>4, <2>5, <2>6, <2>7 DEF SchedulerSteps
<1>6. ASSUME NEW a \in Attempts, AttemptNext(a) PROVE DirTypes'
  <2>1. CASE OpenTemp(a)
    <3>1. attempt[a].name \in Names
      BY <2>1 DEF OpenTemp, Attempt, AttemptTypes
    <3>2. [name |-> attempt[a].name, hidden |-> TRUE, by |-> a, whole |-> FALSE, age |-> 0] \in File
      BY <3>1, BackupAssumption DEF File
    <3> QED
      BY <2>1, <3>2, <1>2, AppendProperties DEF OpenTemp, Steps
  <2>2. CASE VacuumFails(a)
    BY <2>2, GivesUpTypes DEF VacuumFails
  <2>3. CASE Vacuumed(a)
    <3>1. CASE UNCHANGED files
      BY <2>3, <3>1, <1>2 DEF Vacuumed, Steps
    <3>2. ASSUME NEW i \in DOMAIN files, NEW ok \in BOOLEAN,
                 files' = Append(RemoveAt(files, i),
                            [files[i] EXCEPT !.by = None, !.whole = ok, !.age = 0])
          PROVE  files' \in Seq(File)
      <4>1. i \in 1..Len(files) /\ files[i] \in File
        BY ElementOfSeq, LenProperties
      <4>2. [files[i] EXCEPT !.by = None, !.whole = ok, !.age = 0] \in File
        <5>1. 0 \in 0..Horizon
          BY BackupAssumption
        <5> QED
          BY <4>1, <5>1 DEF File
      <4>3. RemoveAt(files, i) \in Seq(File)
        BY <4>1, RemoveAtIs
      <4> QED
        BY <3>2, <4>2, <4>3, AppendProperties
    <3> QED
      BY <2>3, <3>1, <3>2, <1>2 DEF Vacuumed, Steps
  <2>4. CASE Verify(a)
    BY <2>4, <1>2, GivesUpTypes DEF Verify, Steps
  <2>5. CASE CheckDeadline(a)
    BY <2>5, <1>2, GivesUpTypes DEF CheckDeadline, Steps
  <2>6. CASE Publish(a)
    BY <2>6, <1>2, GivesUpTypes, RenamedTypes DEF Publish, Steps
  <2>7. CASE CleanUp(a)
    BY <2>7, <1>4, WithoutTypes DEF CleanUp, AttemptTypes
  <2> QED
    BY <1>6, <2>1, <2>2, <2>3, <2>4, <2>5, <2>6, <2>7 DEF AttemptNext
<1>7. ASSUME NEW c \in Commands, CommandStarts(c) \/ CommandNext(c) PROVE DirTypes'
  <2>1. CASE CommandStarts(c)
    BY <2>1, <1>3, FreshIs DEF CommandStarts, Attempts
  <2>2. CASE CommandLists(c)
    BY <2>2, <1>2, <1>4 DEF CommandLists, Attempts, Steps
  <2>3. CASE CommandRemoves(c)
    BY <2>3, RemovesTypes DEF CommandRemoves, Pruners, AttemptTypes
  <2>4. CASE CommandEnds(c)
    BY <2>4, <1>4 DEF CommandEnds, AttemptTypes
  <2> QED
    BY <1>7, <2>1, <2>2, <2>3, <2>4 DEF CommandNext
<1>8. CASE Blocks
  BY <1>8 DEF Blocks, AttemptTypes
<1>9. CASE Crash
  BY <1>9, <1>4, LetGoTypes DEF Crash, AttemptTypes
<1>10. CASE Tick
  <2>1. DOMAIN files = 1..Len(files) /\ Len(files) \in Nat /\ \A i \in 1..Len(files) : files[i] \in File
    BY LenProperties, ElementOfSeq
  <2>2. \A i \in 1..Len(files) : AgeAfter(files[i]) \in 0..Horizon
    BY <2>1, BackupAssumption DEF AgeAfter, Aged, File
  <2>3. \A i \in 1..Len(files) : [files[i] EXCEPT !.age = AgeAfter(files[i])] \in File
    BY <2>1, <2>2 DEF File
  <2>4. files' \in [1..Len(files) -> File]
    BY <1>10, <2>1, <2>3 DEF Tick
  <2> QED
    BY <1>10, <2>1, <2>4, FunctionIsSeq DEF Tick, AttemptTypes
<1>11. CASE MakeRoom
  BY <1>11, WithoutTypes DEF MakeRoom, AttemptTypes
<1> QED
  BY <1>1, <1>5, <1>6, <1>7, <1>8, <1>9, <1>10, <1>11 DEF BackupNext

(***************************************************************************)
(* Snapshots: the scheduler's clock.                                       *)
(***************************************************************************)
Latest(i) == i \in Verified /\ \A j \in Verified : j <= i

LEMMA NewestIs ==
  /\ \A i : Latest(i) => files[i] \in Newest
  /\ \A f \in Newest : \E i : Latest(i) /\ f = files[i]
BY DEF Newest, Latest

\* The same after a step.
LEMMA NewestIsThen ==
  /\ \A i : Latest(i)' => files'[i] \in Newest'
  /\ \A f \in Newest' : \E i : Latest(i)' /\ f = files'[i]
BY DEF Newest, Latest

LEMMA HasLatest ==
  /\ DirTypes => \A j \in Verified : \E i : Latest(i) /\ j <= i
  /\ DirTypes' => \A j \in Verified' : \E i : Latest(i)' /\ j <= i
<1>1. ASSUME NEW fs \in Seq(File), NEW V, V \subseteq DOMAIN fs, NEW j \in V
      PROVE  \E i \in V : (\A k \in V : k <= i) /\ j <= i
  <2>1. Len(fs) \in Nat /\ V \subseteq 1..Len(fs)
    BY <1>1, LenProperties
  <2>2. IsFiniteSet(V)
    <3>1. IsFiniteSet(1..Len(fs))
      BY <2>1, FS_Interval
    <3> QED
      BY <2>1, <3>1, FS_Subset
  <2>3. V \subseteq Int /\ V # {}
    BY <2>1
  <2> QED
    BY <2>2, <2>3, HasGreatest
<1>2. Verified \subseteq DOMAIN files /\ Verified' \subseteq DOMAIN files'
  BY DEF Verified
<1>3. DirTypes => files \in Seq(File)
  BY DEF DirTypes
<1>4. DirTypes' => files' \in Seq(File)
  BY DEF DirTypes
<1>5. DirTypes => \A j \in Verified : \E i : Latest(i) /\ j <= i
  <2>1. DirTypes => \A j \in Verified : \E i \in Verified : (\A k \in Verified : k <= i) /\ j <= i
    BY <1>1, <1>2, <1>3
  <2> QED
    BY <2>1 DEF Latest
<1>6. DirTypes' => \A j \in Verified' : \E i : Latest(i)' /\ j <= i
  <2>1. DirTypes' => \A j \in Verified' : \E i \in Verified' : (\A k \in Verified' : k <= i) /\ j <= i
    BY <1>1, <1>2, <1>4
  <2> QED
    BY <2>1 DEF Latest
<1> QED
  BY <1>5, <1>6

LEMMA NewestTypes ==
  ASSUME DirTypes
  PROVE  \A f \in Newest : f \in File
<1> TAKE f \in Newest
<1>1. PICK i : Latest(i) /\ f = files[i]
  BY NewestIs
<1>2. i \in 1..Len(files)
  BY <1>1, VerifiedFinite DEF Latest
<1> QED
  BY <1>1, <1>2, ElementOfSeq DEF DirTypes

LEMMA SchedTypesStep ==
  ASSUME DirTypes, SchedTypes, [BackupNext]_backupVars
  PROVE  SchedTypes'
<1>0. 0 \in 0..Timeout /\ 0 \in 0..Every /\ Every \in 0..Every /\ Timeout \in Nat /\ Every \in Nat
  BY BackupAssumption
<1> USE <1>0 DEF SchedTypes, Places
<1>1. CASE UNCHANGED backupVars
  BY <1>1 DEF backupVars
<1>2. NextTick \in (0..Every) \cup {None}
  BY DEF NextTick
<1>3. RunFails /\ ~sched.blocked => SchedTypes'
  BY <1>2 DEF RunFails
<1>4. CASE ListAtStart
  <2>1. CASE RunStarts(None)
    BY <1>4, <2>1 DEF ListAtStart, RunStarts, AtStep
  <2>2. ASSUME NEW f \in Newest, 4 * f.age < Every,
               sched' = [sched EXCEPT !.pc = "timer", !.left = FirstDelay(f.age)]
        PROVE  SchedTypes'
    <3>1. f.age \in Nat
      BY NewestTypes DEF File
    <3>2. FirstDelay(f.age) \in 0..Every
      BY <2>2, <3>1 DEF FirstDelay
    <3> QED
      BY <1>4, <2>2, <3>2 DEF ListAtStart, AtStep
  <2> QED
    BY <1>4, <2>1, <2>2 DEF ListAtStart
<1>5. CASE TimerFires \/ TickerFires
  <2>1. \E left \in {None, Every} : RunStarts(left) /\ ~sched.blocked
    BY <1>5 DEF TimerFires, TickerFires, AtStep
  <2>2. PICK left \in {None, Every} : RunStarts(left)
    BY <2>1
  <2>3. left \in (0..Every) \cup {None}
    OBVIOUS
  <2> QED
    BY <2>1, <2>2, <2>3 DEF RunStarts
<1>6. CASE Probe
  BY <1>6 DEF Probe, AtStep
<1>7. CASE ProbeFails \/ AttemptFailed \/ Abandon
  BY <1>3, <1>7 DEF ProbeFails, AttemptFailed, Abandon, AtStep
<1>8. CASE ChooseName
  BY <1>8, BackupAssumption DEF ChooseName, AtStep
<1>9. CASE Finish
  BY <1>2, <1>9 DEF Finish, AtStep
<1>10. CASE PruneLists \/ PruneEnds
  BY <1>10 DEF PruneLists, PruneEnds, AtStep
<1>11. CASE PruneRemoves
  BY <1>11 DEF PruneRemoves
<1>12. ASSUME NEW a \in Attempts, AttemptNext(a) PROVE SchedTypes'
  BY <1>12 DEF AttemptNext, OpenTemp, VacuumFails, Vacuumed, Verify, CheckDeadline, Publish, CleanUp
<1>13. ASSUME NEW c \in Commands, CommandStarts(c) \/ CommandNext(c) PROVE SchedTypes'
  BY <1>13 DEF CommandStarts, CommandNext, CommandLists, CommandRemoves, CommandEnds
<1>14. CASE Blocks
  BY <1>14, BackupAssumption DEF Blocks
<1>15. CASE Crash
  BY <1>15, BackupAssumption DEF Crash, Starting
<1>16. CASE Tick
  <2>1. sched.pc \in {"probe", "wait"} => sched.elapsed + 1 \in 0..Timeout
    <3>1. sched.pc \in {"probe", "wait"} => sched.elapsed # Timeout
      BY <1>16, BackupAssumption DEF Tick, Prompt
    <3>2. sched.elapsed \in 0..Timeout
      OBVIOUS
    <3> QED
      BY <3>1, <3>2
  <2>2. sched.left \in {None, 0} \/ sched.left - 1 \in 0..Every
    OBVIOUS
  <2> QED
    BY <1>16, <2>1, <2>2 DEF Tick
<1>17. CASE MakeRoom
  BY <1>17 DEF MakeRoom
<1> QED
  BY <1>1, <1>4, <1>5, <1>6, <1>7, <1>8, <1>9, <1>10, <1>11, <1>12, <1>13, <1>14, <1>15,
     <1>16, <1>17 DEF BackupNext, SchedulerSteps

LEMMA LastTypesStep ==
  ASSUME DirTypes, LastTypes, [BackupNext]_backupVars
  PROVE  LastTypes'
<1> USE BackupAssumption DEF LastTypes
<1>1. UNCHANGED last => LastTypes'
  OBVIOUS
<1>2. RunFails => LastTypes'
  BY DEF RunFails, Failed
<1>3. CASE ListAtStart
  <2>1. ASSUME NEW f \in Newest, last' = [at |-> f.age, error |-> FALSE]
        PROVE  LastTypes'
    <3>1. f.age \in 0..Horizon
      BY NewestTypes DEF File
    <3> QED
      BY <2>1, <3>1
  <2> QED
    BY <1>1, <1>3, <2>1 DEF ListAtStart
<1>4. CASE ProbeFails \/ AttemptFailed \/ Abandon
  BY <1>2, <1>4 DEF ProbeFails, AttemptFailed, Abandon
<1>5. CASE Finish
  BY <1>5 DEF Finish
<1>6. CASE Crash
  BY <1>6 DEF Crash, Never
<1>7. CASE Tick
  BY <1>7 DEF Tick, Aged
<1>8. UNCHANGED last \/ ListAtStart \/ ProbeFails \/ AttemptFailed \/ Abandon \/ Finish
      \/ Crash \/ Tick
  BY DEF BackupNext, SchedulerSteps, TimerFires, TickerFires, Probe, ChooseName, PruneLists,
     PruneRemoves, PruneEnds, AttemptNext, OpenTemp, VacuumFails, Vacuumed, Verify,
     CheckDeadline, Publish, CleanUp, CommandStarts, CommandNext, CommandLists,
     CommandRemoves, CommandEnds, Blocks, MakeRoom, backupVars
<1> QED
  BY <1>1, <1>3, <1>4, <1>5, <1>6, <1>7, <1>8

\* How old the last snapshot is at most, by what the scheduler waits for: its
\* timer or ticker is set to the end of the interval, and a run that is under
\* way began no later than that.
AlarmInv ==
  last.at # None /\ ~last.error /\ ~sched.blocked =>
    /\ sched.pc # "list"
    /\ sched.pc \in {"timer", "prune", "remove", "idle"} =>
         sched.left # None /\ last.at + sched.left <= Every
    /\ sched.pc \in {"probe", "choose", "wait"} => last.at <= Every + sched.elapsed

LEMMA AlarmStep ==
  ASSUME DirTypes, SchedTypes, LastTypes, AlarmInv, [BackupNext]_backupVars
  PROVE  AlarmInv'
<1> USE BackupAssumption DEF SchedTypes, LastTypes, AlarmInv
<1>1. CASE UNCHANGED <<sched, last>>
  BY <1>1
<1>2. RunFails => AlarmInv'
  BY DEF RunFails, Failed
<1>3. CASE ListAtStart
  <2>1. CASE RunStarts(None) /\ UNCHANGED last
    BY <1>3, <2>1 DEF ListAtStart, RunStarts, AtStep
  <2>2. ASSUME NEW f \in Newest, 4 * f.age < Every, last' = [at |-> f.age, error |-> FALSE],
               sched' = [sched EXCEPT !.pc = "timer", !.left = FirstDelay(f.age)]
        PROVE  AlarmInv'
    <3>1. f.age \in Nat
      BY NewestTypes DEF File
    <3>2. FirstDelay(f.age) = Every - f.age
      BY <2>2, <3>1 DEF FirstDelay
    <3> QED
      BY <2>2, <3>1, <3>2
  <2> QED
    BY <1>3, <2>1, <2>2 DEF ListAtStart
<1>4. CASE TimerFires \/ TickerFires
  <2>1. sched'.pc = "probe" /\ sched'.elapsed = 0 /\ sched'.blocked = sched.blocked
        /\ last' = last /\ sched.left = 0 /\ sched.pc \in {"timer", "idle"}
    BY <1>4 DEF TimerFires, TickerFires, RunStarts, AtStep
  <2>2. last.at # None /\ ~last.error /\ ~sched.blocked => last.at \in Nat /\ last.at <= Every + 0
    BY <2>1
  <2> QED
    BY <2>1, <2>2
<1>5. CASE Probe
  BY <1>5 DEF Probe, AtStep
<1>6. CASE ProbeFails \/ AttemptFailed \/ Abandon
  BY <1>2, <1>6 DEF ProbeFails, AttemptFailed, Abandon
<1>7. CASE ChooseName
  BY <1>7 DEF ChooseName, AtStep
<1>8. CASE Finish
  <2>1. NextTick \in 0..Every
    BY DEF NextTick
  <2> QED
    BY <1>8, <2>1 DEF Finish
<1>9. CASE PruneLists \/ PruneEnds
  BY <1>9 DEF PruneLists, PruneEnds, AtStep
<1>10. CASE Blocks
  BY <1>10 DEF Blocks
<1>11. CASE Crash
  BY <1>11 DEF Crash, Never
<1>12. CASE Tick
  <2>1. last.at # None => last'.at \in Nat /\ last'.at <= last.at + 1 /\ last.at \in Nat
    BY <1>12 DEF Tick, Aged
  <2>2. last.at = None => last'.at = None
    BY <1>12 DEF Tick
  <2>3. last'.error = last.error /\ sched'.pc = sched.pc /\ sched'.blocked = sched.blocked
    BY <1>12 DEF Tick
  <2>4. CASE ~sched.blocked
    <3>1. CASE sched.pc \in {"timer", "idle"}
      <4>1. sched.left = None \/ (sched.left \in 1..Every /\ sched'.left = sched.left - 1)
        <5>1. sched.left # 0
          BY <1>12, <2>4, <3>1 DEF Tick, Prompt
        <5>2. sched.left = None \/ sched.left \in 1..Every
          BY <5>1
        <5>3. sched.left \notin {None, 0} => sched'.left = sched.left - 1
          BY <1>12 DEF Tick
        <5> QED
          BY <5>1, <5>2, <5>3
      <4> QED
        BY <2>1, <2>2, <2>3, <2>4, <3>1, <4>1
    <3>2. CASE sched.pc \in {"probe", "wait"}
      <4>1. sched'.elapsed = sched.elapsed + 1
        BY <1>12, <3>2 DEF Tick
      <4> QED
        BY <2>1, <2>2, <2>3, <2>4, <3>2, <4>1
    <3>3. CASE sched.pc \in {"list", "choose", "prune", "remove"}
      BY <1>12, <2>4, <3>3 DEF Tick, Prompt
    <3> QED
      BY <3>1, <3>2, <3>3 DEF Places
  <2>5. CASE sched.blocked
    BY <2>3, <2>5
  <2> QED
    BY <2>4, <2>5
<1>13. UNCHANGED <<sched, last>> \/ ListAtStart \/ TimerFires \/ TickerFires \/ Probe
       \/ ProbeFails \/ AttemptFailed \/ Abandon \/ ChooseName \/ Finish \/ PruneLists
       \/ PruneEnds \/ Blocks \/ Crash \/ Tick
  BY DEF BackupNext, SchedulerSteps, PruneRemoves, AttemptNext, OpenTemp, VacuumFails,
     Vacuumed, Verify, CheckDeadline, Publish, CleanUp, CommandStarts, CommandNext,
     CommandLists, CommandRemoves, CommandEnds, MakeRoom, backupVars
<1> QED
  BY <1>1, <1>3, <1>4, <1>5, <1>6, <1>7, <1>8, <1>9, <1>10, <1>11, <1>12, <1>13

LEMMA BackupTypesInit ==
  ASSUME BackupInit
  PROVE  DirTypes /\ SchedTypes /\ LastTypes /\ AlarmInv /\ second = None
<1> USE BackupAssumption
<1>1. files \in Seq(File)
  <2>1. CASE files = << >>
    BY <2>1
  <2>2. ASSUME NEW n \in Names, NEW m \in Names, NEW a \in {0, 1, Horizon},
               NEW b \in {0, 1, Horizon}, files = <<Found(n, TRUE, a), Found(m, FALSE, b)>>
        PROVE  files \in Seq(File)
    <3>1. {0, 1, Horizon} \subseteq 0..Horizon
      OBVIOUS
    <3>2. Found(n, TRUE, a) \in File /\ Found(m, FALSE, b) \in File
      BY <3>1 DEF Found, File
    <3>3. <<Found(n, TRUE, a), Found(m, FALSE, b)>> \in Seq(File)
      <4> DEFINE F == File
      <4> HIDE DEF F
      <4>1. \A f, g \in F : <<f, g>> \in Seq(F)
        OBVIOUS
      <4> QED
        BY <3>2, <4>1 DEF F
    <3> QED
      BY <2>2, <3>3
  <2> QED
    BY <2>1, <2>2 DEF BackupInit
<1>2. AttemptTypes
  BY DEF BackupInit, AttemptTypes, Attempt, Idle, Steps
<1>3. pruning \in [Pruners -> Seq(Names)]
  <2>1. << >> \in Seq(Names)
    OBVIOUS
  <2> QED
    BY <2>1 DEF BackupInit
<1>4. SchedTypes /\ LastTypes /\ AlarmInv
  BY DEF BackupInit, SchedTypes, LastTypes, AlarmInv, Starting, Never, Places
<1> QED
  BY <1>1, <1>2, <1>3, <1>4 DEF BackupInit, DirTypes

\* While /healthz shows no error, the last snapshot is at most an interval and
\* a run old, for any interval and deadline, whichever restarts skip their run.
THEOREM AlarmHolds == BackupSpec => []NoFalseAlarm
<1>1. BackupInit => DirTypes /\ SchedTypes /\ LastTypes /\ AlarmInv
  BY BackupTypesInit
<1>2. DirTypes /\ SchedTypes /\ LastTypes /\ AlarmInv /\ [BackupNext]_backupVars =>
        (DirTypes /\ SchedTypes /\ LastTypes /\ AlarmInv)'
  BY DirTypesStep, SchedTypesStep, LastTypesStep, AlarmStep
<1>3. DirTypes /\ SchedTypes /\ LastTypes /\ AlarmInv => NoFalseAlarm
  BY BackupAssumption DEF AlarmInv, NoFalseAlarm, SchedTypes, LastTypes, Places
<1> QED
  BY <1>1, <1>2, <1>3, PTL DEF BackupSpec

(***************************************************************************)
(* Snapshots: what one step does to the directory.  m tells where in the   *)
(* directory the first n files were before the step; behind them there may *)
(* be one that is new or newly written.                                    *)
(***************************************************************************)
Writing == {"fill", "verify", "check", "rename"}

SameAttempt(a) == attempt'[a].step = attempt[a].step /\ attempt'[a].name = attempt[a].name

\* files'[i] is what the step made of files[k].
Continues(i, k) ==
  /\ files'[i].name = files[k].name
  /\ files'[i].whole = files[k].whole
  /\ \/ files'[i].hidden = files[k].hidden
     \/ /\ files[k].hidden /\ ~files'[i].hidden
        /\ \E a \in Attempts : /\ attempt[a].step = "rename"
                              /\ attempt[a].name = files[k].name
                              /\ attempt'[a].name = attempt[a].name
                              /\ attempt'[a].step \in {"done", "failed"}
  /\ \/ files'[i].by = files[k].by /\ (files[k].by # None => SameAttempt(files[k].by))
     \/ files'[i].by = None /\ files[k].by # None
        /\ attempt'[files[k].by].step \notin {"fill", "verify"}

\* files'[i] is the file that an attempt has made or finished.
Rewritten(i) ==
  \E a \in Attempts :
    /\ files'[i].name = attempt'[a].name /\ files'[i].hidden /\ files'[i].age = 0
    /\ \/ attempt'[a].step = "fill" /\ files'[i].by = a /\ ~files'[i].whole
       \/ attempt'[a].step = "verify" /\ files'[i].by = None
    /\ \A j \in DOMAIN files' : files'[j].name = files'[i].name => j = i

\* No attempt needs the k-th file, and it is not the newest snapshot.
Dispensable(k) ==
  /\ ~Latest(k)
  /\ \A a \in Attempts :
       attempt'[a].step \in {"check", "rename"} => attempt'[a].name # files[k].name

FilesMove(n, m) ==
  /\ n \in Nat /\ n <= Len(files')
  /\ m \in [1..n -> 1..Len(files)]
  /\ \A i, j \in 1..n : i < j => m[i] < m[j]
  /\ \A i \in 1..n : Continues(i, m[i])
  /\ \A k \in 1..Len(files) : (\E i \in 1..n : m[i] = k) \/ Dispensable(k)
  /\ \A i \in (n + 1)..Len(files') : Rewritten(i)

\* The k-th file may yet be, or is, the one whose age is asked for.
Counting(k) ==
  Latest(k) \/ (files[k].hidden /\ Intact(files[k]) /\ Pending(files[k]))

SameAges(n, m) == \A i \in 1..n : files'[i].age = files[m[i]].age

Ageing(n, m) ==
  \A i \in 1..n :
    /\ Intact(files[m[i]]) => files'[i].age \in {Aged(files[m[i]].age), Horizon}
    /\ Counting(m[i]) => files'[i].age = Aged(files[m[i]].age)

\* Nothing has the name n or remembers it.
Unused(n) ==
  /\ n \in Names
  /\ \A i \in DOMAIN files : files[i].name # n
  /\ \A a \in Attempts : attempt[a].name # n
  /\ \A p \in Pruners : \A k \in DOMAIN pruning[p] : pruning[p][k] # n

Begins(a) ==
  /\ attempt[a].step = "free" /\ attempt'[a].step = "open" /\ ~attempt'[a].left
  /\ Unused(attempt'[a].name)
  /\ \A b \in Attempts \ {a} : attempt'[b] = attempt[b]

Proceeds(a) ==
  /\ attempt'[a].name = attempt[a].name
  /\ attempt'[a].left = attempt[a].left
  /\ \/ attempt'[a].step \in {"done", "failed", "remove"}
     \/ attempt[a].step = "open" /\ attempt'[a].step = "fill"
     \/ attempt[a].step = "fill" /\ attempt'[a].step = "verify"
     \/ attempt[a].step = "verify" /\ attempt'[a].step = "check" /\ PassesCheck(a)
     \/ attempt[a].step = "check" /\ attempt'[a].step = "rename" /\ ~attempt[a].left

AttemptsMove ==
  \A a \in Attempts :
    \/ attempt'[a] = Idle
    \/ SameAttempt(a) /\ (attempt[a].left => attempt'[a].left)
    \/ Begins(a)
    \/ Proceeds(a)

\* What is still to be pruned was so before, or is a snapshot with a newer one.
PruningMoves ==
  \A p \in Pruners : \A k \in DOMAIN pruning'[p] :
    \/ \E l \in DOMAIN pruning[p] : pruning'[p][k] = pruning[p][l]
    \/ \E i \in Verified : ~Latest(i) /\ pruning'[p][k] = files[i].name

DirectoryMoves ==
  /\ \E n, m : FilesMove(n, m) /\ (SameAges(n, m) \/ (Tick /\ Ageing(n, m)))
  /\ AttemptsMove
  /\ PruningMoves
  /\ second' = None

(***************************************************************************)
(* Snapshots: the inductive invariant of the directory.                    *)
(***************************************************************************)
\* Names, of files and of attempts that are under way, are never shared.
NamesApart ==
  \A i, j \in DOMAIN files : files[i].name = files[j].name => i = j

AttemptsApart ==
  \A a, b \in Attempts :
    attempt[a].name = attempt[b].name => attempt[a].name = None \/ a = b

\* A file that is being written is an attempt's own, and not yet a snapshot.
Written ==
  \A i \in DOMAIN files : files[i].by # None =>
    /\ files[i].hidden /\ ~files[i].whole
    /\ attempt[files[i].by].step = "fill"
    /\ attempt[files[i].by].name = files[i].name

\* What an attempt finds under its name.
FilesTold ==
  \A a \in Attempts, i \in DOMAIN files : files[i].name = attempt[a].name =>
    /\ attempt[a].step # "open"
    /\ attempt[a].step = "fill" => files[i].by = a
    /\ attempt[a].step \in Writing => files[i].hidden
    /\ attempt[a].step \in {"check", "rename"} => Intact(files[i])

TempThere ==
  \A a \in Attempts : attempt[a].step \in {"check", "rename"} =>
    \E i \in DOMAIN files : files[i].name = attempt[a].name

\* No pruning, however old its listing, is going to remove the newest snapshot,
\* or a name under which a newer one is being written.
PrunesOld ==
  \A p \in Pruners : \A k \in DOMAIN pruning[p] :
    /\ \A i : Latest(i) => files[i].name # pruning[p][k]
    /\ \A a \in Attempts : attempt[a].step \in Writing \cup {"open"} =>
         attempt[a].name # pruning[p][k]

\* Files are in the order of their ages, as far as ages are asked for.
Ordered ==
  \A i, j \in DOMAIN files :
    i < j /\ Intact(files[i]) /\ Counting(j) => files[j].age <= files[i].age

DirInv ==
  /\ NamesApart /\ AttemptsApart /\ Written /\ FilesTold /\ TempThere
  /\ PrunesOld /\ Ordered /\ second = None

\* Where the files of a directory are.
LEMMA Domains ==
  /\ DirTypes => /\ DOMAIN files = 1..Len(files) /\ Len(files) \in Nat
                 /\ \A i \in 1..Len(files) : files[i] \in File
  /\ DirTypes' => /\ DOMAIN files' = 1..Len(files') /\ Len(files') \in Nat
                  /\ \A i \in 1..Len(files') : files'[i] \in File
BY LenProperties, ElementOfSeq DEF DirTypes

\* One step of an attempt, from what it was.
LEMMA AttemptsApartStep ==
  ASSUME DirTypes, DirTypes', DirInv, AttemptsMove
  PROVE  AttemptsApart'
<1> SUFFICES ASSUME NEW a \in Attempts, NEW b \in Attempts,
                    attempt'[a].name = attempt'[b].name, attempt'[a].name # None, a # b
             PROVE  FALSE
  BY DEF AttemptsApart
<1>1. Idle.name = None
  BY DEF Idle
<1>2. \A c \in Attempts : Begins(c) \/ attempt'[c].name = attempt[c].name \/ attempt'[c].name = None
  BY <1>1 DEF AttemptsMove, SameAttempt, Proceeds
<1>3. CASE Begins(a)
  BY <1>3 DEF Begins, Unused
<1>4. CASE Begins(b)
  BY <1>4 DEF Begins, Unused
<1> QED
  BY <1>2, <1>3, <1>4 DEF DirInv, AttemptsApart

LEMMA DirStep ==
  ASSUME DirTypes, DirTypes', DirInv, DirectoryMoves
  PROVE  /\ DirInv'
         /\ \A f \in Newest : \E g \in Newest' :
              g.age <= f.age \/ (Tick /\ g.age <= Aged(f.age))
         /\ \A f \in Snapshots' :
              Intact(f) \/ \E g \in Snapshots : g.name = f.name /\ g.whole = f.whole
<1> DEFINE len == Len(files)
           len2 == Len(files')
<1>1. PICK n, m : FilesMove(n, m) /\ (SameAges(n, m) \/ (Tick /\ Ageing(n, m)))
  BY DEF DirectoryMoves
<1>2. AttemptsMove /\ PruningMoves /\ AttemptsApart' /\ second' = None
  BY AttemptsApartStep DEF DirectoryMoves
<1>3. /\ DOMAIN files = 1..len /\ len \in Nat
      /\ \A i \in 1..len : files[i] \in File
      /\ DOMAIN files' = 1..len2 /\ len2 \in Nat
      /\ \A i \in 1..len2 : files'[i] \in File
  BY Domains
<1>4. n \in Nat /\ n <= len2 /\ 1..n \subseteq 1..len2
  BY <1>1, <1>3 DEF FilesMove
<1>5. \A i \in 1..n : m[i] \in 1..len
  BY <1>1 DEF FilesMove
<1>6. \A i, j \in 1..n : m[i] < m[j] <=> i < j
  <2> TAKE i, j \in 1..n
  <2>1. i < j => m[i] < m[j]
    BY <1>1 DEF FilesMove
  <2>2. j < i => m[j] < m[i]
    BY <1>1 DEF FilesMove
  <2>3. i \in Nat /\ j \in Nat /\ m[i] \in Nat /\ m[j] \in Nat
    BY <1>3, <1>4, <1>5
  <2> QED
    BY <2>1, <2>2, <2>3
<1>7. \A i \in 1..n : Continues(i, m[i])
  BY <1>1 DEF FilesMove
<1>8. \A k \in 1..len : (\E i \in 1..n : m[i] = k) \/ Dispensable(k)
  BY <1>1 DEF FilesMove
<1>9. \A i \in 1..len2 : i \in 1..n \/ Rewritten(i)
  BY <1>1, <1>3, <1>4 DEF FilesMove
<1> HIDE DEF len, len2
<1>10. NamesApart'
  <2> SUFFICES ASSUME NEW i \in 1..len2, NEW j \in 1..len2, files'[i].name = files'[j].name
               PROVE  i = j
    BY <1>3 DEF NamesApart
  <2>1. CASE Rewritten(i) \/ Rewritten(j)
    BY <1>3, <2>1 DEF Rewritten
  <2>2. CASE i \in 1..n /\ j \in 1..n
    <3>1. m[i] = m[j]
      BY <1>3, <1>5, <1>7, <2>2 DEF Continues, DirInv, NamesApart
    <3>2. ~(i < j) /\ ~(j < i) /\ i \in Nat /\ j \in Nat
      BY <1>3, <1>4, <1>5, <1>6, <2>2, <3>1
    <3> QED
      BY <3>2
  <2> QED
    BY <1>9, <2>1, <2>2
\* An attempt that has its name since before the step.
<1>11. \A a \in Attempts :
         \/ attempt'[a].name = None
         \/ Begins(a)
         \/ attempt'[a].name = attempt[a].name /\ (SameAttempt(a) \/ Proceeds(a))
  BY <1>2 DEF AttemptsMove, Idle, SameAttempt, Proceeds
<1>12. \A i \in 1..n : Intact(files'[i]) <=> Intact(files[m[i]])
  <2> TAKE i \in 1..n
  <2>1. files'[i].whole = files[m[i]].whole
    BY <1>7 DEF Continues
  <2>2. files'[i].by = files[m[i]].by \/ (files'[i].by = None /\ files[m[i]].by # None)
    BY <1>7 DEF Continues
  <2>3. files[m[i]].by # None => ~files[m[i]].whole
    BY <1>3, <1>5 DEF DirInv, Written
  <2> QED
    BY <2>1, <2>2, <2>3 DEF Intact
<1>13. Written'
  <2> SUFFICES ASSUME NEW i \in 1..len2, files'[i].by # None
               PROVE  /\ files'[i].hidden /\ ~files'[i].whole
                      /\ attempt'[files'[i].by].step = "fill"
                      /\ attempt'[files'[i].by].name = files'[i].name
    BY <1>3 DEF Written
  <2>1. CASE Rewritten(i)
    BY <2>1 DEF Rewritten
  <2>2. CASE i \in 1..n
    <3> DEFINE k == m[i]
               b == files[k].by
    <3>1. k \in 1..len /\ files'[i].by = b /\ b # None /\ SameAttempt(b) /\ b \in Attempts
      BY <1>3, <1>5, <1>7, <2>2 DEF Continues, File
    <3>2. files[k].hidden /\ ~files[k].whole /\ attempt[b].step = "fill" /\ attempt[b].name = files[k].name
      BY <1>3, <3>1 DEF DirInv, Written
    <3>3. files'[i].whole = files[k].whole /\ files'[i].name = files[k].name
      BY <1>7, <2>2 DEF Continues
    <3>4. files[k].name # None
      BY <1>3, <3>1, BackupAssumption DEF File
    <3>5. ~\E a \in Attempts : attempt[a].step = "rename" /\ attempt[a].name = files[k].name
      BY <3>1, <3>2, <3>4 DEF DirInv, AttemptsApart
    <3>6. files'[i].hidden = files[k].hidden
      BY <1>7, <2>2, <3>5 DEF Continues
    <3> QED
      BY <3>1, <3>2, <3>3, <3>6 DEF SameAttempt
  <2> QED
    BY <1>9, <2>1, <2>2
<1>14. FilesTold'
  <2> SUFFICES ASSUME NEW a \in Attempts, NEW i \in 1..len2, files'[i].name = attempt'[a].name
               PROVE  /\ attempt'[a].step # "open"
                      /\ attempt'[a].step = "fill" => files'[i].by = a
                      /\ attempt'[a].step \in Writing => files'[i].hidden
                      /\ attempt'[a].step \in {"check", "rename"} => Intact(files'[i])
    BY <1>3 DEF FilesTold, Intact
  <2>1. attempt'[a].name # None
    BY <1>3, BackupAssumption DEF File
  <2>2. CASE Rewritten(i)
    <3>1. PICK b \in Attempts :
            /\ files'[i].name = attempt'[b].name /\ files'[i].hidden
            /\ \/ attempt'[b].step = "fill" /\ files'[i].by = b
               \/ attempt'[b].step = "verify"
      BY <2>2 DEF Rewritten
    <3>2. a = b
      BY <1>2, <2>1, <3>1 DEF AttemptsApart
    <3> QED
      BY <3>1, <3>2 DEF Writing
  <2>3. CASE i \in 1..n
    <3> DEFINE k == m[i]
    <3>1. k \in 1..len /\ Continues(i, k) /\ files'[i].name = files[k].name
      BY <1>5, <1>7, <2>3 DEF Continues
    <3>2. ~Begins(a)
      BY <1>3, <3>1 DEF Begins, Unused
    <3>3. attempt'[a].name = attempt[a].name /\ (SameAttempt(a) \/ Proceeds(a))
      BY <1>11, <2>1, <3>2
    <3>4. /\ attempt[a].step # "open"
          /\ attempt[a].step = "fill" => files[k].by = a
          /\ attempt[a].step \in Writing => files[k].hidden
          /\ attempt[a].step \in {"check", "rename"} => Intact(files[k])
      BY <1>3, <3>1, <3>3 DEF DirInv, FilesTold
    <3>5. attempt'[a].step # "open" /\ (attempt'[a].step = "fill" => attempt[a].step = "fill")
      BY <3>3, <3>4 DEF SameAttempt, Proceeds
    <3>6. attempt'[a].step = "fill" => files'[i].by = a
      BY <3>1, <3>4, <3>5 DEF Continues
    <3>7. attempt'[a].step \in Writing => attempt[a].step \in Writing
      BY <3>3, <3>4 DEF SameAttempt, Proceeds, Writing
    <3>8. attempt'[a].step \in Writing => files'[i].hidden
      <4>1. \A b \in Attempts : attempt'[b].name = attempt[b].name /\ attempt[b].name = files[k].name => b = a
        BY <1>2, <2>1, <3>1 DEF AttemptsApart
      <4>2. attempt'[a].step \in Writing =>
              ~\E b \in Attempts : /\ attempt[b].name = files[k].name
                                  /\ attempt'[b].name = attempt[b].name
                                  /\ attempt'[b].step \in {"done", "failed"}
        BY <4>1 DEF Writing
      <4> QED
        BY <3>1, <3>4, <3>7, <4>2 DEF Continues
    <3>9. attempt'[a].step \in {"check", "rename"} => Intact(files'[i])
      <4>1. CASE attempt[a].step \in {"check", "rename"}
        BY <1>12, <2>3, <3>4, <4>1
      <4>2. CASE attempt[a].step = "verify" /\ PassesCheck(a)
        <5>1. PICK j \in 1..len : files[j].name = attempt[a].name /\ Intact(files[j])
          BY <1>3, <4>2 DEF PassesCheck, ToSet, Is
        <5>2. j = k
          BY <1>3, <3>1, <3>3, <5>1 DEF DirInv, NamesApart
        <5> QED
          BY <1>12, <2>3, <5>1, <5>2
      <4>3. attempt'[a].step \in {"check", "rename"} =>
              \/ attempt[a].step \in {"check", "rename"}
              \/ attempt[a].step = "verify" /\ PassesCheck(a)
        BY <3>3 DEF SameAttempt, Proceeds
      <4> QED
        BY <4>1, <4>2, <4>3
    <3> QED
      BY <3>5, <3>6, <3>8, <3>9
  <2> QED
    BY <1>9, <2>2, <2>3
<1>15. TempThere'
  <2> SUFFICES ASSUME NEW a \in Attempts, attempt'[a].step \in {"check", "rename"}
               PROVE  \E i \in 1..len2 : files'[i].name = attempt'[a].name
    BY <1>3 DEF TempThere
  <2>1. attempt'[a].name # None
    BY DEF DirTypes, AttemptTypes
  <2>2. attempt'[a].name = attempt[a].name /\ (SameAttempt(a) \/ Proceeds(a))
    BY <1>11, <2>1 DEF Begins
  <2>3. attempt[a].step \in {"check", "rename"} \/ PassesCheck(a)
    BY <2>2 DEF SameAttempt, Proceeds
  <2>4. PICK k \in 1..len : files[k].name = attempt[a].name
    BY <1>3, <2>3 DEF DirInv, TempThere, PassesCheck, ToSet, Is
  <2>5. ~Dispensable(k)
    BY <2>2, <2>4 DEF Dispensable
  <2>6. PICK i \in 1..n : m[i] = k
    BY <1>8, <2>5
  <2> QED
    BY <1>4, <1>7, <2>2, <2>4, <2>6 DEF Continues
\* The snapshot that stays the newest, or the one that is published now.
<1>16. ASSUME NEW k, Latest(k)
       PROVE  \E i \in 1..n : m[i] = k /\ i \in Verified'
  <2>1. k \in 1..len /\ ~files[k].hidden /\ Intact(files[k])
    BY <1>3, <1>16 DEF Latest, Verified
  <2>2. PICK i \in 1..n : m[i] = k
    BY <1>8, <1>16, <2>1 DEF Dispensable
  <2>3. ~files'[i].hidden
    BY <1>7, <2>1, <2>2 DEF Continues
  <2>4. Intact(files'[i])
    BY <1>12, <2>1, <2>2
  <2> QED
    BY <1>3, <1>4, <2>2, <2>3, <2>4 DEF Verified, Intact
<1>17. ASSUME NEW i, i \in Verified'
       PROVE  i \in 1..n /\ Intact(files[m[i]]) /\
              \/ m[i] \in Verified
              \/ /\ files[m[i]].hidden
                 /\ \E a \in Attempts : attempt[a].step = "rename" /\ attempt[a].name = files[m[i]].name
  <2>1. i \in 1..len2 /\ ~files'[i].hidden /\ Intact(files'[i])
    BY <1>3, <1>17 DEF Verified, Intact
  <2>2. i \in 1..n
    BY <1>9, <2>1 DEF Rewritten
  <2>3. Intact(files[m[i]]) /\ m[i] \in 1..len
    BY <1>5, <1>12, <2>1, <2>2
  <2>4. Continues(i, m[i])
    BY <1>7, <2>2
  <2>5. CASE files[m[i]].hidden
    BY <2>1, <2>2, <2>3, <2>4, <2>5 DEF Continues
  <2>6. CASE ~files[m[i]].hidden
    BY <1>3, <2>2, <2>3, <2>6 DEF Verified
  <2> QED
    BY <2>5, <2>6
<1>18. ASSUME NEW i, Latest(i)'
       PROVE  /\ i \in 1..n /\ Intact(files[m[i]])
              /\ \/ Latest(m[i])
                 \/ /\ files[m[i]].hidden
                    /\ \E a \in Attempts : attempt[a].step = "rename" /\ attempt[a].name = files[m[i]].name
  <2>1. i \in Verified' /\ \A j \in Verified' : j <= i
    BY <1>18 DEF Latest
  <2>2. i \in 1..n /\ Intact(files[m[i]])
    BY <1>17, <2>1
  <2>3. CASE m[i] \in Verified
    <3>1. PICK k : Latest(k) /\ m[i] <= k
      BY <2>3, HasLatest
    <3>2. PICK j \in 1..n : m[j] = k /\ j \in Verified'
      BY <1>16, <3>1
    <3>3. j <= i /\ i \in Nat /\ j \in Nat /\ m[i] \in Nat /\ m[j] \in Nat
      BY <1>3, <1>4, <1>5, <2>1, <2>2, <3>2
    <3>4. m[j] <= m[i]
      BY <1>6, <2>2, <3>2, <3>3
    <3>5. m[i] = k
      BY <3>1, <3>2, <3>3, <3>4
    <3> QED
      BY <2>2, <3>1, <3>5
  <2>4. CASE m[i] \notin Verified
    BY <1>17, <2>1, <2>2, <2>4
  <2> QED
    BY <2>3, <2>4
<1>19. PrunesOld'
  <2> SUFFICES ASSUME NEW p \in Pruners, NEW l \in DOMAIN pruning'[p]
               PROVE  /\ \A i : Latest(i)' => files'[i].name # pruning'[p][l]
                      /\ \A a \in Attempts : attempt'[a].step \in Writing \cup {"open"} =>
                           attempt'[a].name # pruning'[p][l]
    BY DEF PrunesOld
  <2> DEFINE name == pruning'[p][l]
  \* A name that was there, or that of a snapshot with a newer one, is neither
  \* the newest's nor that of a file that is being written.
  <2>1. /\ \A k : Latest(k) => files[k].name # name
        /\ \A a \in Attempts : attempt[a].step \in Writing \cup {"open"} => attempt[a].name # name
    <3>1. CASE \E x \in DOMAIN pruning[p] : name = pruning[p][x]
      BY <3>1 DEF DirInv, PrunesOld
    <3>2. ASSUME NEW j \in Verified, ~Latest(j), name = files[j].name
          PROVE  /\ \A k : Latest(k) => files[k].name # name
                 /\ \A a \in Attempts : attempt[a].step \in Writing \cup {"open"} => attempt[a].name # name
      <4>1. j \in 1..len /\ ~files[j].hidden
        BY <1>3 DEF Verified
      <4>2. \A k : Latest(k) => files[k].name # name
        BY <1>3, <3>2, <4>1 DEF Latest, Verified, DirInv, NamesApart
      <4>3. \A a \in Attempts : attempt[a].step \in Writing \cup {"open"} => attempt[a].name # name
        BY <1>3, <3>2, <4>1 DEF DirInv, FilesTold
      <4> QED
        BY <4>2, <4>3
    <3> QED
      BY <1>2, <3>1, <3>2 DEF PruningMoves
  <2>2. \A a \in Attempts : Begins(a) => attempt'[a].name # name
    <3> SUFFICES ASSUME NEW a \in Attempts, Begins(a) PROVE attempt'[a].name # name
      OBVIOUS
    <3>1. CASE \E x \in DOMAIN pruning[p] : name = pruning[p][x]
      BY <3>1 DEF Begins, Unused
    <3>2. CASE \E j \in Verified : name = files[j].name
      BY <3>2 DEF Begins, Unused, Verified
    <3> QED
      BY <1>2, <3>1, <3>2 DEF PruningMoves
  <2> HIDE DEF name
  <2>3. \A i : Latest(i)' => files'[i].name # name
    <3> SUFFICES ASSUME NEW i, Latest(i)' PROVE files'[i].name # name
      OBVIOUS
    <3>1. i \in 1..n /\ files'[i].name = files[m[i]].name
      BY <1>7, <1>18 DEF Continues
    <3> QED
      BY <1>18, <2>1, <3>1 DEF Writing
  <2>4. \A a \in Attempts : attempt'[a].step \in Writing \cup {"open"} => attempt'[a].name # name
    <3> SUFFICES ASSUME NEW a \in Attempts, attempt'[a].step \in Writing \cup {"open"}
                 PROVE  attempt'[a].name # name
      OBVIOUS
    <3>1. attempt'[a].name # None
      BY DEF DirTypes, AttemptTypes, Writing
    <3>2. CASE Begins(a)
      BY <2>2, <3>2
    <3>3. CASE attempt'[a].name = attempt[a].name /\ (SameAttempt(a) \/ Proceeds(a))
      <4>1. attempt[a].step \in Writing \cup {"open"}
        BY <3>3 DEF SameAttempt, Proceeds, Writing
      <4> QED
        BY <2>1, <3>3, <4>1
    <3> QED
      BY <1>11, <3>1, <3>2, <3>3
  <2> QED
    BY <2>3, <2>4 DEF name
<1>20. ASSUME NEW j \in 1..n, Counting(j)'
       PROVE  Counting(m[j])
  <2>1. CASE Latest(j)'
    <3>1. CASE Latest(m[j])
      BY <3>1 DEF Counting
    <3>2. CASE \E a \in Attempts : attempt[a].step = "rename" /\ attempt[a].name = files[m[j]].name
      <4>1. files[m[j]].hidden \/ Latest(m[j])
        BY <1>18, <2>1
      <4>2. Intact(files[m[j]])
        BY <1>18, <2>1
      <4> QED
        BY <3>2, <4>1, <4>2 DEF Counting, Pending
    <3> QED
      BY <1>18, <2>1, <3>1, <3>2
  <2>2. CASE files'[j].hidden /\ Intact(files'[j]) /\ Pending(files[j])'
    <3>1. files[m[j]].hidden /\ files'[j].name = files[m[j]].name
      BY <1>7, <2>2 DEF Continues
    <3>2. Intact(files[m[j]])
      BY <1>12, <2>2
    <3>3. PICK a \in Attempts : attempt'[a].name = files'[j].name
                              /\ (attempt'[a].left => attempt'[a].step = "rename")
      BY <2>2 DEF Pending
    <3>4. m[j] \in 1..len /\ files'[j].name # None
      BY <1>3, <1>5, <3>1, BackupAssumption DEF File
    <3>5. ~Begins(a)
      BY <1>3, <3>1, <3>3, <3>4 DEF Begins, Unused
    <3>6. attempt'[a] # Idle
      BY <3>3, <3>4 DEF Idle
    <3>7. \/ SameAttempt(a) /\ (attempt[a].left => attempt'[a].left)
          \/ Proceeds(a)
      BY <1>2, <3>5, <3>6 DEF AttemptsMove
    <3>8. attempt[a].name = files[m[j]].name /\ (attempt[a].left => attempt[a].step = "rename")
      BY <3>1, <3>3, <3>7 DEF SameAttempt, Proceeds
    <3> QED
      BY <3>1, <3>2, <3>8 DEF Counting, Pending
  <2> QED
    BY <1>20, <2>1, <2>2 DEF Counting, Intact
<1>21. \A i, j \in 1..n :
         files[m[j]].age <= files[m[i]].age /\ Intact(files[m[i]]) /\ Counting(m[j])
           => files'[j].age <= files'[i].age
  <2> SUFFICES ASSUME NEW i \in 1..n, NEW j \in 1..n, files[m[j]].age <= files[m[i]].age,
                      Intact(files[m[i]]), Counting(m[j])
               PROVE  files'[j].age <= files'[i].age
    OBVIOUS
  <2> DEFINE x == files[m[i]].age
             y == files[m[j]].age
  <2>1. x \in 0..Horizon /\ y \in 0..Horizon /\ y <= x /\ Horizon \in Nat
    BY <1>3, <1>5, BackupAssumption DEF File
  <2>2. CASE SameAges(n, m)
    BY <2>2 DEF SameAges
  <2>3. CASE Ageing(n, m)
    <3>1. files'[j].age = Aged(y) /\ files'[i].age \in {Aged(x), Horizon}
      BY <2>3 DEF Ageing
    <3> HIDE DEF x, y
    <3>2. Aged(y) <= Aged(x) /\ Aged(y) <= Horizon
      BY <2>1 DEF Aged
    <3> QED
      BY <3>1, <3>2
  <2> QED
    BY <1>1, <2>2, <2>3
<1>22. Ordered'
  <2> SUFFICES ASSUME NEW i \in 1..len2, NEW j \in 1..len2, i < j, Intact(files'[i]), Counting(j)'
               PROVE  files'[j].age <= files'[i].age
    BY <1>3 DEF Ordered, Intact
  <2>1. CASE Rewritten(j)
    BY <1>3, <2>1, BackupAssumption DEF Rewritten, File
  <2>2. CASE j \in 1..n
    <3>1. i \in 1..n
      BY <1>3, <1>4, <2>2
    <3>2. Counting(m[j]) /\ Intact(files[m[i]]) /\ m[i] < m[j]
      BY <1>6, <1>12, <1>20, <2>2, <3>1
    <3>3. files[m[j]].age <= files[m[i]].age
      BY <1>3, <1>5, <2>2, <3>1, <3>2 DEF DirInv, Ordered
    <3> QED
      BY <1>21, <2>2, <3>1, <3>2, <3>3
  <2> QED
    BY <1>9, <2>1, <2>2
<1>23. ASSUME NEW f \in Newest
       PROVE  \E g \in Newest' : g.age <= f.age \/ (Tick /\ g.age <= Aged(f.age))
  <2>1. PICK k : Latest(k) /\ f = files[k]
    BY NewestIs
  <2>2. PICK i \in 1..n : m[i] = k /\ i \in Verified'
    BY <1>16, <2>1
  <2>3. PICK j : Latest(j)' /\ i <= j
    BY <2>2, HasLatest
  <2>4. files'[j] \in Newest'
    BY <2>3, NewestIsThen
  <2>5. i \in 1..len2 /\ j \in 1..len2 /\ Intact(files'[i])
    BY <1>3, <2>2, <2>3 DEF Latest, Verified, Intact
  <2>6. files'[j].age <= files'[i].age
    <3>1. CASE i = j
      BY <1>3, <2>5, <3>1 DEF File
    <3>2. CASE i < j
      BY <1>3, <1>22, <2>3, <2>5, <3>2 DEF Ordered, Counting, Intact
    <3> QED
      BY <1>3, <2>3, <2>5, <3>1, <3>2
  <2>7. files'[i].age = f.age \/ (Tick /\ files'[i].age = Aged(f.age))
    BY <1>1, <2>1, <2>2 DEF SameAges, Ageing, Counting
  <2> QED
    BY <2>4, <2>6, <2>7
<1>24. ASSUME NEW f \in Snapshots'
       PROVE  Intact(f) \/ \E g \in Snapshots : g.name = f.name /\ g.whole = f.whole
  <2>1. PICK i \in 1..len2 : f = files'[i] /\ ~files'[i].hidden
    BY <1>3 DEF Snapshots, ToSet
  <2>2. i \in 1..n
    BY <1>9, <2>1 DEF Rewritten
  <2> DEFINE k == m[i]
  <2>3. k \in 1..len /\ Continues(i, k)
    BY <1>5, <1>7, <2>2
  <2>4. CASE ~files[k].hidden
    <3>1. files[k] \in Snapshots
      BY <1>3, <2>3, <2>4 DEF Snapshots, ToSet
    <3> QED
      BY <2>1, <2>3, <3>1 DEF Continues
  <2>5. CASE files[k].hidden
    <3>1. PICK a \in Attempts : attempt[a].step = "rename" /\ attempt[a].name = files[k].name
      BY <2>1, <2>3, <2>5 DEF Continues
    <3>2. Intact(files[k])
      BY <1>3, <2>3, <3>1 DEF DirInv, FilesTold
    <3> QED
      BY <1>12, <2>1, <2>2, <3>2
  <2> QED
    BY <2>4, <2>5
<1> QED
  BY <1>2, <1>10, <1>13, <1>14, <1>15, <1>19, <1>22, <1>23, <1>24 DEF DirInv
(***************************************************************************)
(* Snapshots: every step is such a move.                                   *)
(***************************************************************************)
FilesMoved ==
  \E n, m : FilesMove(n, m) /\ (SameAges(n, m) \/ (Tick /\ Ageing(n, m)))

\* No file comes or goes.
LEMMA InPlace ==
  ASSUME DirTypes, DirTypes', Len(files') = Len(files),
         \A i \in 1..Len(files) : Continues(i, i),
         \/ \A i \in 1..Len(files) : files'[i].age = files[i].age
         \/ Tick /\ \A i \in 1..Len(files) :
              /\ Intact(files[i]) => files'[i].age \in {Aged(files[i].age), Horizon}
              /\ Counting(i) => files'[i].age = Aged(files[i].age)
  PROVE  FilesMoved
<1> DEFINE n == Len(files)
           m == [i \in 1..n |-> i]
<1>1. n \in Nat /\ \A i \in 1..n : m[i] = i
  BY Domains
<1>2. m \in [1..n -> 1..n]
  OBVIOUS
<1>3. (n + 1)..Len(files') = {}
  BY <1>1
<1> HIDE DEF m
<1>4. FilesMove(n, m)
  BY <1>1, <1>2, <1>3 DEF FilesMove
<1>5. SameAges(n, m) \/ (Tick /\ Ageing(n, m))
  BY <1>1 DEF SameAges, Ageing
<1> QED
  BY <1>4, <1>5 DEF FilesMoved

\* Where the files are when one may have been removed.
Leaves(dir, m, name, hidden) ==
  /\ m \in [1..Len(dir) -> 1..Len(files)]
  /\ \A i, j \in 1..Len(dir) : i < j => m[i] < m[j]
  /\ \A i \in 1..Len(dir) : dir[i] = files[m[i]]
  /\ \A k \in 1..Len(files) :
       Is(files[k], name, hidden) \/ \E i \in 1..Len(dir) : m[i] = k

LEMMA WithoutIs ==
  ASSUME DirTypes, NEW name, NEW hidden
  PROVE  \E m : Leaves(Without(name, hidden), m, name, hidden)
<1> DEFINE dir == Without(name, hidden)
           len == Len(files)
<1>1. DOMAIN files = 1..len /\ len \in Nat /\ files \in Seq(File)
  BY Domains DEF DirTypes
<1>2. CASE ~Exists(name, hidden)
  <2> DEFINE m == [i \in 1..len |-> i]
  <2>1. dir = files /\ \A i \in 1..len : m[i] = i
    BY <1>2 DEF Without
  <2>2. m \in [1..len -> 1..len]
    OBVIOUS
  <2> HIDE DEF m
  <2>3. Leaves(dir, m, name, hidden)
    BY <2>1, <2>2 DEF Leaves
  <2> QED
    BY <2>3
<1>3. CASE Exists(name, hidden)
  <2> DEFINE q == Position(name, hidden)
             m == [i \in 1..(len - 1) |-> IF i < q THEN i ELSE i + 1]
  <2>1. \E i \in DOMAIN files : Is(files[i], name, hidden)
    BY <1>3 DEF Exists, ToSet
  <2>2. q \in 1..len /\ Is(files[q], name, hidden)
    BY <1>1, <2>1 DEF Position
  <2> HIDE DEF q
  <2>3. /\ dir = RemoveAt(files, q) /\ Len(dir) = len - 1
        /\ \A i \in 1..(len - 1) : dir[i] = IF i < q THEN files[i] ELSE files[i + 1]
    <3>1. dir = RemoveAt(files, q)
      BY <1>3 DEF Without, q
    <3> QED
      BY <1>1, <2>2, <3>1, RemoveAtIs
  <2>4. \A i \in 1..(len - 1) : m[i] = (IF i < q THEN i ELSE i + 1) /\ m[i] \in 1..len
    BY <1>1, <2>2
  <2>5. m \in [1..(len - 1) -> 1..len]
    BY <2>4
  <2> HIDE DEF m, dir
  <2>6. \A i, j \in 1..(len - 1) : i < j => m[i] < m[j]
    BY <1>1, <2>2, <2>4
  <2>7. \A i \in 1..(len - 1) : dir[i] = files[m[i]]
    BY <2>3, <2>4
  <2>8. ASSUME NEW k \in 1..len, k # q PROVE \E i \in 1..(len - 1) : m[i] = k
    <3>1. CASE k < q
      <4>1. k \in 1..(len - 1)
        BY <1>1, <2>2, <3>1
      <4> QED
        BY <2>4, <3>1, <4>1
    <3>2. CASE k > q
      <4>1. k - 1 \in 1..(len - 1) /\ ~(k - 1 < q) /\ k - 1 + 1 = k
        BY <1>1, <2>2, <3>2
      <4> QED
        BY <2>4, <4>1
    <3> QED
      BY <1>1, <2>2, <2>8, <3>1, <3>2
  <2>9. Leaves(dir, m, name, hidden)
    BY <2>2, <2>3, <2>5, <2>6, <2>7, <2>8 DEF Leaves
  <2> QED
    BY <2>9 DEF dir
<1> QED
  BY <1>2, <1>3

LEMMA LetGoIs ==
  ASSUME NEW dir \in Seq(File), NEW writers
  PROVE  /\ Len(LetGo(dir, writers)) = Len(dir)
         /\ \A i \in 1..Len(dir) :
              /\ LetGo(dir, writers)[i].name = dir[i].name
              /\ LetGo(dir, writers)[i].hidden = dir[i].hidden
              /\ LetGo(dir, writers)[i].whole = dir[i].whole
              /\ LetGo(dir, writers)[i].age = dir[i].age
              /\ LetGo(dir, writers)[i].by = IF dir[i].by \in writers THEN None ELSE dir[i].by
<1>1. DOMAIN dir = 1..Len(dir) /\ Len(dir) \in Nat /\ \A i \in 1..Len(dir) : dir[i] \in File
  BY LenProperties, ElementOfSeq
<1>2. \A i \in 1..Len(dir) : LetGo(dir, writers)[i] =
        IF dir[i].by \in writers THEN [dir[i] EXCEPT !.by = None] ELSE dir[i]
  BY <1>1 DEF LetGo
<1>3. DOMAIN LetGo(dir, writers) = 1..Len(dir)
  BY <1>1 DEF LetGo
<1>4. LetGo(dir, writers) \in Seq(File)
  BY LetGoTypes
<1>5. Len(LetGo(dir, writers)) = Len(dir)
  BY <1>1, <1>3, <1>4, LenProperties
<1>6. ASSUME NEW i \in 1..Len(dir)
      PROVE  /\ LetGo(dir, writers)[i].name = dir[i].name
             /\ LetGo(dir, writers)[i].hidden = dir[i].hidden
             /\ LetGo(dir, writers)[i].whole = dir[i].whole
             /\ LetGo(dir, writers)[i].age = dir[i].age
             /\ LetGo(dir, writers)[i].by = IF dir[i].by \in writers THEN None ELSE dir[i].by
  BY <1>1, <1>2 DEF File
<1> QED
  BY <1>5, <1>6

\* A file may have been removed, and writers may have let go of theirs.
LEMMA Dropped ==
  ASSUME DirTypes, DirTypes', NEW name, NEW hidden, NEW writers,
         files' = LetGo(Without(name, hidden), writers),
         \A k \in 1..Len(files) : Is(files[k], name, hidden) => Dispensable(k),
         \A k \in 1..Len(files) :
           \/ files[k].by \notin writers /\ (files[k].by # None => SameAttempt(files[k].by))
           \/ files[k].by # None /\ attempt'[files[k].by].step \notin {"fill", "verify"}
              /\ files[k].by \in writers
  PROVE  FilesMoved
<1> DEFINE dir == Without(name, hidden)
           n == Len(dir)
<1>1. dir \in Seq(File) /\ n \in Nat
  BY WithoutTypes, LenProperties
<1>2. /\ Len(files') = n
      /\ \A i \in 1..n :
           /\ files'[i].name = dir[i].name /\ files'[i].hidden = dir[i].hidden
           /\ files'[i].whole = dir[i].whole /\ files'[i].age = dir[i].age
           /\ files'[i].by = IF dir[i].by \in writers THEN None ELSE dir[i].by
  BY <1>1, LetGoIs
<1>3. PICK m : Leaves(dir, m, name, hidden)
  BY WithoutIs
<1>4. /\ m \in [1..n -> 1..Len(files)]
      /\ \A i, j \in 1..n : i < j => m[i] < m[j]
      /\ \A i \in 1..n : dir[i] = files[m[i]]
      /\ \A k \in 1..Len(files) : Is(files[k], name, hidden) \/ \E i \in 1..n : m[i] = k
  BY <1>3 DEF Leaves
<1> HIDE DEF dir, n
<1>5. ASSUME NEW i \in 1..n PROVE Continues(i, m[i])
  <2>1. m[i] \in 1..Len(files) /\ dir[i] = files[m[i]]
    BY <1>4
  <2> QED
    BY <1>2, <2>1 DEF Continues
<1>6. (n + 1)..Len(files') = {}
  BY <1>1, <1>2
<1>7. FilesMove(n, m)
  BY <1>1, <1>2, <1>4, <1>5, <1>6 DEF FilesMove
<1>8. SameAges(n, m)
  BY <1>2, <1>4 DEF SameAges
<1> QED
  BY <1>7, <1>8 DEF FilesMoved
LEMMA Unmoved ==
  ASSUME DirTypes, DirTypes', UNCHANGED files,
         \A i \in 1..Len(files) : files[i].by # None => SameAttempt(files[i].by)
  PROVE  FilesMoved
<1>1. \A i \in 1..Len(files) : Continues(i, i)
  BY DEF Continues
<1> QED
  BY <1>1, InPlace

LEMMA Removed ==
  ASSUME DirTypes, DirTypes', NEW name, NEW hidden, files' = Without(name, hidden),
         \A k \in 1..Len(files) : Is(files[k], name, hidden) => Dispensable(k),
         \A i \in 1..Len(files) : files[i].by # None => SameAttempt(files[i].by)
  PROVE  FilesMoved
<1>1. Without(name, hidden) \in Seq(File)
  BY WithoutTypes
<1>2. LetGo(Without(name, hidden), {}) = Without(name, hidden)
  <2> DEFINE dir == Without(name, hidden)
  <2>1. dir \in [1..Len(dir) -> File]
    BY <1>1, LenProperties, ElementOfSeq
  <2> HIDE DEF dir
  <2>2. LetGo(dir, {}) = [i \in DOMAIN dir |-> dir[i]]
    BY DEF LetGo
  <2> QED
    BY <2>1, <2>2 DEF dir
<1> QED
  BY <1>2, Dropped

LEMMA CandidateUnused ==
  ASSUME DirTypes, second = None, NEW n \in Candidates
  PROVE  Unused(n)
<1>1. n \in Names \ Taken
  BY DEF Candidates
<1>2. \A i \in DOMAIN files : files[i].name \in Taken
  BY DEF Taken, ToSet
<1>3. \A a \in Attempts : attempt[a].name \in Taken
  BY DEF Taken
<1>4. \A p \in Pruners : \A k \in DOMAIN pruning[p] : pruning[p][k] \in Taken
  <2> TAKE p \in Pruners
  <2> TAKE k \in DOMAIN pruning[p]
  <2>1. pruning[p][k] \in ToSet(pruning[p])
    BY DEF ToSet
  <2>2. pruning[p][k] \in UNION {ToSet(pruning[q]) : q \in Pruners}
    BY <2>1
  <2> QED
    BY <2>2 DEF Taken
<1> QED
  BY <1>1, <1>2, <1>3, <1>4 DEF Unused

LEMMA StartedMoves ==
  ASSUME DirTypes, DirInv, ~SameSecond, NEW a \in Attempts, NEW n \in Candidates,
         attempt[a].step = "free", Started(a, n)
  PROVE  /\ AttemptsMove /\ second' = None
         /\ \A i \in 1..Len(files) : files[i].by # None => SameAttempt(files[i].by)
<1>1. attempt' = [attempt EXCEPT ![a] = [step |-> "open", name |-> n, left |-> FALSE]] /\ second' = None
  BY DEF Started
<1>2. attempt \in [Attempts -> Attempt] /\ Unused(n)
  BY CandidateUnused DEF DirTypes, AttemptTypes, DirInv
<1>3. Begins(a)
  BY <1>1, <1>2 DEF Begins
<1>4. \A b \in Attempts \ {a} : SameAttempt(b) /\ attempt'[b].left = attempt[b].left
  BY <1>1, <1>2 DEF SameAttempt
<1>5. \A i \in 1..Len(files) : files[i].by # None => files[i].by \in Attempts \ {a}
  BY Domains DEF DirInv, Written, File
<1> QED
  BY <1>1, <1>3, <1>4, <1>5 DEF AttemptsMove

\* A step that leaves all attempts but a alone.
LEMMA OneMoves ==
  ASSUME DirTypes, DirInv, NEW a \in Attempts, NEW r, attempt' = [attempt EXCEPT ![a] = r],
         r = Idle \/ Proceeds(a) \/ (SameAttempt(a) /\ (attempt[a].left => attempt'[a].left))
  PROVE  /\ AttemptsMove
         /\ \A b \in Attempts \ {a} : SameAttempt(b)
         /\ attempt'[a] = r
         /\ attempt[a].step # "fill" \/ SameAttempt(a) =>
              \A i \in 1..Len(files) : files[i].by # None => SameAttempt(files[i].by)
<1>1. \A b \in Attempts \ {a} : SameAttempt(b) /\ attempt'[b].left = attempt[b].left
  BY DEF SameAttempt, DirTypes, AttemptTypes
<1>2. attempt'[a] = r
  BY DEF DirTypes, AttemptTypes
<1>3. AttemptsMove
  BY <1>1, <1>2 DEF AttemptsMove
<1>4. ASSUME attempt[a].step # "fill" \/ SameAttempt(a),
             NEW i \in 1..Len(files), files[i].by # None
      PROVE  SameAttempt(files[i].by)
  <2>1. files[i].by \in Attempts /\ attempt[files[i].by].step = "fill"
    BY <1>4, Domains DEF DirInv, Written, File
  <2>2. CASE files[i].by # a
    BY <1>1, <2>1, <2>2
  <2>3. CASE files[i].by = a
    BY <1>4, <2>1, <2>3
  <2> QED
    BY <2>2, <2>3
<1> QED
  BY <1>1, <1>2, <1>3, <1>4

LEMMA NoneMove ==
  ASSUME DirTypes, DirInv, UNCHANGED attempt
  PROVE  AttemptsMove /\ \A i \in 1..Len(files) : files[i].by # None => SameAttempt(files[i].by)
BY DEF AttemptsMove, SameAttempt

LEMMA GoesMoves ==
  ASSUME DirTypes, DirInv, NEW a \in Attempts, NEW step, Goes(a, step),
         \/ step \in {"done", "failed", "remove"}
         \/ attempt[a].step = "open" /\ step = "fill"
         \/ attempt[a].step = "fill" /\ step = "verify"
         \/ attempt[a].step = "verify" /\ step = "check" /\ PassesCheck(a)
         \/ attempt[a].step = "check" /\ step = "rename" /\ ~attempt[a].left
  PROVE  /\ AttemptsMove
         /\ \A b \in Attempts \ {a} : SameAttempt(b)
         /\ attempt'[a] = [attempt[a] EXCEPT !.step = step]
         /\ attempt'[a].step = step /\ attempt'[a].name = attempt[a].name
         /\ attempt[a].step # "fill" =>
              \A i \in 1..Len(files) : files[i].by # None => SameAttempt(files[i].by)
<1> DEFINE r == [attempt[a] EXCEPT !.step = step]
<1>1. attempt' = [attempt EXCEPT ![a] = r]
  BY DEF Goes
<1>2. attempt[a] \in Attempt /\ attempt'[a] = r
  BY <1>1 DEF DirTypes, AttemptTypes
<1>3. r.step = step /\ r.name = attempt[a].name /\ r.left = attempt[a].left
  BY <1>2 DEF Attempt
<1>4. Proceeds(a)
  BY <1>2, <1>3 DEF Proceeds
<1> HIDE DEF r
<1>5. /\ AttemptsMove
      /\ \A b \in Attempts \ {a} : SameAttempt(b)
      /\ attempt[a].step # "fill" \/ SameAttempt(a) =>
           \A i \in 1..Len(files) : files[i].by # None => SameAttempt(files[i].by)
  BY <1>1, <1>4, OneMoves
<1> QED
  BY <1>2, <1>3, <1>5 DEF r

\* What an attempt gives up is a file of its own.
LEMMA GivesUpMoves ==
  ASSUME DirTypes, DirTypes', DirInv, NEW a \in Attempts, GivesUp(a)
  PROVE  FilesMoved /\ AttemptsMove
<1>1. /\ AttemptsMove
      /\ \A b \in Attempts \ {a} : SameAttempt(b)
      /\ attempt'[a].step = "failed" /\ attempt'[a].name = attempt[a].name
  BY GoesMoves DEF GivesUp
<1>2. \A k \in 1..Len(files) : Is(files[k], attempt[a].name, TRUE) => Dispensable(k)
  <2> SUFFICES ASSUME NEW k \in 1..Len(files), Is(files[k], attempt[a].name, TRUE)
               PROVE  Dispensable(k)
    OBVIOUS
  <2>1. ~Latest(k)
    BY DEF Latest, Verified, Is
  <2>2. files[k].name # None
    BY Domains, BackupAssumption DEF File
  <2>3. \A b \in Attempts \ {a} : attempt'[b].name # files[k].name
    BY <1>1, <2>2 DEF SameAttempt, DirInv, AttemptsApart, Is
  <2> QED
    BY <1>1, <2>1, <2>3 DEF Dispensable
<1>3. \A k \in 1..Len(files) :
        \/ files[k].by \notin {a} /\ (files[k].by # None => SameAttempt(files[k].by))
        \/ files[k].by # None /\ attempt'[files[k].by].step \notin {"fill", "verify"}
           /\ files[k].by \in {a}
  <2> TAKE k \in 1..Len(files)
  <2>1. files[k].by \in Attempts \cup {None}
    BY Domains DEF File
  <2>2. a # None
    BY BackupAssumption DEF Attempts
  <2> QED
    BY <1>1, <2>1, <2>2
<1>4. FilesMoved
  <2> DEFINE name == attempt[a].name
  <2>1. files' = LetGo(Without(name, TRUE), {a})
    BY DEF GivesUp
  <2> HIDE DEF name
  <2> QED
    BY <1>2, <1>3, <2>1, Dropped DEF name
<1> QED
  BY <1>1, <1>4
LEMMA PruningSet ==
  ASSUME DirTypes, NEW p \in Pruners, NEW names, pruning' = [pruning EXCEPT ![p] = names],
         \/ names = << >>
         \/ pruning[p] # << >> /\ names = Tail(pruning[p])
         \/ names = Surplus
  PROVE  PruningMoves
<1> SUFFICES ASSUME NEW q \in Pruners, NEW k \in DOMAIN pruning'[q]
             PROVE  \/ \E l \in DOMAIN pruning[q] : pruning'[q][k] = pruning[q][l]
                    \/ \E i \in Verified : ~Latest(i) /\ pruning'[q][k] = files[i].name
  BY DEF PruningMoves
<1>1. pruning \in [Pruners -> Seq(Names)]
  BY DEF DirTypes
<1>2. CASE q # p
  BY <1>1, <1>2
<1>3. CASE q = p
  <2>1. pruning'[q] = names /\ k \in DOMAIN names
    BY <1>1, <1>3
  <2>2. CASE names = << >>
    BY <2>1, <2>2
  <2>3. CASE pruning[p] # << >> /\ names = Tail(pruning[p])
    <3> DEFINE list == pruning[p]
    <3>1. list \in Seq(Names) /\ list # << >> /\ names = Tail(list)
      BY <1>1, <2>3
    <3> HIDE DEF list
    <3>2. /\ DOMAIN list = 1..Len(list) /\ Len(list) \in Nat
          /\ DOMAIN names = 1..(Len(list) - 1)
          /\ \A i \in 1..(Len(list) - 1) : names[i] = list[i + 1]
      <4>1. Len(list) \in Nat /\ Len(list) # 0 /\ DOMAIN list = 1..Len(list)
        BY <3>1, LenProperties, EmptySeq
      <4>2. names \in Seq(Names) /\ Len(names) = Len(list) - 1
        BY <3>1, HeadTailProperties
      <4>3. \A i \in 1..Len(Tail(list)) : Tail(list)[i] = list[i + 1]
        BY <3>1, HeadTailProperties
      <4> QED
        BY <3>1, <4>1, <4>2, <4>3, LenProperties
    <3>3. k \in 1..(Len(list) - 1) /\ k + 1 \in DOMAIN list
      BY <2>1, <3>2
    <3> QED
      BY <1>3, <2>1, <3>2, <3>3 DEF list
  <2>4. CASE names = Surplus
    <3>1. k \in 1..(Cardinality(Verified) - Keep)
      BY <2>1, <2>4, SurplusTypes
    <3>2. PICK i \in Verified : Surplus[k] = files[i].name /\ \E j \in Verified : j > i
      BY <3>1, SurplusIs
    <3>3. ~Latest(i)
      <4>1. Verified \subseteq Nat
        BY VerifiedFinite
      <4> QED
        BY <3>2, <4>1 DEF Latest
    <3> QED
      BY <2>1, <2>4, <3>2, <3>3
  <2> QED
    BY <2>2, <2>3, <2>4
<1> QED
  BY <1>2, <1>3

LEMMA RemovesMoves ==
  ASSUME DirTypes, DirTypes', DirInv, NEW p \in Pruners, Removes(p), UNCHANGED attempt
  PROVE  FilesMoved /\ PruningMoves
<1> DEFINE name == Head(pruning[p])
<1>1. pruning[p] \in Seq(Names) /\ pruning[p] # << >>
  BY DEF Removes, DirTypes
<1>2. 1 \in DOMAIN pruning[p] /\ name = pruning[p][1]
  BY <1>1, LenProperties, EmptySeq, HeadTailProperties
<1>3. files' = Without(name, FALSE)
  BY DEF Removes
<1> HIDE DEF name
<1>4. \A k \in 1..Len(files) : Is(files[k], name, FALSE) => Dispensable(k)
  <2> SUFFICES ASSUME NEW k \in 1..Len(files), Is(files[k], name, FALSE)
               PROVE  Dispensable(k)
    OBVIOUS
  <2>1. ~Latest(k)
    BY <1>2 DEF DirInv, PrunesOld, Is
  <2>2. \A a \in Attempts : attempt[a].step \in {"check", "rename"} => attempt[a].name # files[k].name
    BY Domains DEF DirInv, FilesTold, Writing, Is
  <2> QED
    BY <2>1, <2>2 DEF Dispensable
<1>5. FilesMoved
  BY <1>3, <1>4, NoneMove, Removed
<1>6. PruningMoves
  BY <1>1, PruningSet DEF Removes
<1> QED
  BY <1>5, <1>6

LEMMA OpenTempMoves ==
  ASSUME DirTypes, DirTypes', DirInv, NEW a \in Attempts, OpenTemp(a)
  PROVE  FilesMoved /\ AttemptsMove
<1> DEFINE n == Len(files)
           m == [i \in 1..n |-> i]
           f == [name |-> attempt[a].name, hidden |-> TRUE, by |-> a, whole |-> FALSE, age |-> 0]
<1>1. DOMAIN files = 1..n /\ n \in Nat /\ files \in Seq(File)
  BY Domains DEF DirTypes
<1>2. attempt[a].step = "open" /\ files' = Append(files, f) /\ Goes(a, "fill")
  BY DEF OpenTemp
<1>3. /\ AttemptsMove
      /\ attempt'[a].step = "fill" /\ attempt'[a].name = attempt[a].name
      /\ \A i \in 1..n : files[i].by # None => SameAttempt(files[i].by)
  BY <1>2, GoesMoves
<1>4. f.name = attempt[a].name /\ f.hidden /\ f.by = a /\ ~f.whole /\ f.age = 0
  OBVIOUS
<1> HIDE DEF f
<1>5. DOMAIN files' = 1..(n + 1) /\ Len(files') = n + 1 /\ files'[n + 1] = f
      /\ \A i \in 1..n : files'[i] = files[i]
  BY <1>1, <1>2, Domains
<1>6. m \in [1..n -> 1..n] /\ \A i \in 1..n : m[i] = i
  OBVIOUS
<1> HIDE DEF m
<1>7. \A i \in 1..n : Continues(i, i)
  BY <1>3, <1>5 DEF Continues
<1>8. Rewritten(n + 1)
  <2>1. \A j \in 1..n : files[j].name # attempt[a].name
    BY <1>1, <1>2 DEF DirInv, FilesTold
  <2> QED
    BY <1>1, <1>3, <1>4, <1>5, <2>1 DEF Rewritten
<1>9. (n + 1)..Len(files') = {n + 1}
  BY <1>1, <1>5
<1> HIDE DEF n
<1>10. FilesMove(n, m)
  BY <1>1, <1>5, <1>6, <1>7, <1>8, <1>9 DEF FilesMove, n
<1>11. SameAges(n, m)
  BY <1>5, <1>6 DEF SameAges
<1> QED
  BY <1>3, <1>10, <1>11 DEF FilesMoved

LEMMA VacuumedMoves ==
  ASSUME DirTypes, DirTypes', DirInv, NEW a \in Attempts, Vacuumed(a)
  PROVE  FilesMoved /\ AttemptsMove
<1> DEFINE len == Len(files)
           n == len - 1
<1>1. DOMAIN files = 1..len /\ len \in Nat /\ files \in Seq(File)
  BY Domains DEF DirTypes
<1>2. attempt[a].step = "fill" /\ Goes(a, "verify")
  BY DEF Vacuumed
<1>3. /\ AttemptsMove
      /\ \A b \in Attempts \ {a} : SameAttempt(b)
      /\ attempt'[a].step = "verify" /\ attempt'[a].name = attempt[a].name
  BY <1>2, GoesMoves
<1>4. \A i \in 1..len : files[i].by \in Attempts \cup {None}
  BY Domains DEF File
<1>5. CASE (\A f \in ToSet(files) : f.by # a) /\ UNCHANGED files
  <2>1. \A i \in 1..len : files[i].by # a
    BY <1>1, <1>5 DEF ToSet
  <2> QED
    BY <1>3, <1>4, <1>5, <2>1, Unmoved
<1>6. ASSUME NEW q \in DOMAIN files, NEW ok \in BOOLEAN, files[q].by = a,
             files' = Append(RemoveAt(files, q),
                        [files[q] EXCEPT !.by = None, !.whole = ok, !.age = 0])
      PROVE  FilesMoved
  <2> DEFINE f == [files[q] EXCEPT !.by = None, !.whole = ok, !.age = 0]
             dir == RemoveAt(files, q)
             m == [i \in 1..n |-> IF i < q THEN i ELSE i + 1]
  <2>1. q \in 1..len /\ files[q] \in File
    BY <1>1, <1>6, Domains
  <2>2. f.name = files[q].name /\ f.hidden = files[q].hidden /\ f.by = None /\ f.age = 0
    BY <2>1 DEF File
  <2>3. a # None
    BY BackupAssumption DEF Attempts
  <2>4. files[q].hidden /\ files[q].name = attempt[a].name
    BY <1>6, <2>3 DEF DirInv, Written
  <2> HIDE DEF f
  <2>5. dir \in Seq(File) /\ Len(dir) = n
        /\ \A i \in 1..n : dir[i] = IF i < q THEN files[i] ELSE files[i + 1]
    BY <1>1, <2>1, RemoveAtIs
  <2>6. files' = Append(dir, f)
    BY <1>6 DEF f
  <2> HIDE DEF dir
  <2>7. n \in Nat
    BY <1>1, <2>1
  <2>8. Len(files') = n + 1 /\ DOMAIN files' = 1..(n + 1) /\ files'[n + 1] = f
        /\ \A i \in 1..n : files'[i] = dir[i]
    BY <2>5, <2>6, <2>7, Domains
  <2>9. \A i \in 1..n : m[i] = (IF i < q THEN i ELSE i + 1) /\ m[i] \in 1..len
    BY <1>1, <2>1
  <2>10. m \in [1..n -> 1..len]
    BY <2>9
  <2> HIDE DEF m
  <2>11. \A i \in 1..n : files'[i] = files[m[i]] /\ m[i] # q
    BY <2>1, <2>5, <2>7, <2>8, <2>9
  <2>12. \A i \in 1..n : files[m[i]].name # attempt[a].name
    BY <1>1, <2>1, <2>4, <2>9, <2>11 DEF DirInv, NamesApart
  <2>13. ASSUME NEW i \in 1..n PROVE Continues(i, m[i])
    <3>1. files[m[i]].by # a
      BY <1>1, <2>3, <2>9, <2>12 DEF DirInv, Written
    <3> QED
      BY <1>3, <1>4, <2>9, <2>11, <3>1 DEF Continues
  <2>14. \A i, j \in 1..n : i < j => m[i] < m[j]
    BY <2>1, <2>7, <2>9
  <2>15. ASSUME NEW k \in 1..len PROVE (\E i \in 1..n : m[i] = k) \/ Dispensable(k)
    <3>1. CASE k < q
      <4>1. k \in 1..n
        BY <1>1, <2>1, <3>1
      <4> QED
        BY <2>9, <3>1, <4>1
    <3>2. CASE k > q
      <4>1. k - 1 \in 1..n /\ ~(k - 1 < q) /\ k - 1 + 1 = k
        BY <1>1, <2>1, <3>2
      <4> QED
        BY <2>9, <4>1
    <3>3. CASE k = q
      <4>1. ~Latest(k)
        BY <2>4, <3>3 DEF Latest, Verified
      <4>2. files[q].name # None
        BY <2>1, BackupAssumption DEF File
      <4>3. \A b \in Attempts \ {a} : attempt'[b].name # files[q].name
        BY <1>3, <2>4, <4>2 DEF DirInv, AttemptsApart, SameAttempt
      <4> QED
        BY <1>3, <3>3, <4>1, <4>3 DEF Dispensable
    <3> QED
      BY <1>1, <2>1, <3>1, <3>2, <3>3
  <2>16. Rewritten(n + 1)
    <3>1. files'[n + 1].name = attempt'[a].name /\ files'[n + 1].hidden
          /\ files'[n + 1].age = 0 /\ files'[n + 1].by = None
      BY <1>3, <2>2, <2>4, <2>8
    <3>2. \A j \in 1..n : files'[j].name # files'[n + 1].name
      BY <2>2, <2>4, <2>8, <2>11, <2>12
    <3>3. \A j \in 1..(n + 1) : j \in 1..n \/ j = n + 1
      BY <2>7
    <3> QED
      BY <1>3, <2>8, <3>1, <3>2, <3>3 DEF Rewritten
  <2>17. (n + 1)..Len(files') = {n + 1}
    BY <2>7, <2>8
  <2>18. FilesMove(n, m)
    <3>1. \A i \in (n + 1)..Len(files') : Rewritten(i)
      BY <2>16, <2>17
    <3>2. n <= Len(files')
      BY <2>7, <2>8
    <3> HIDE DEF n
    <3> QED
      BY <2>7, <2>10, <2>13, <2>14, <2>15, <3>1, <3>2 DEF FilesMove
  <2>19. SameAges(n, m)
    BY <2>11 DEF SameAges
  <2> QED
    BY <2>18, <2>19 DEF FilesMoved
<1> QED
  BY <1>3, <1>5, <1>6 DEF Vacuumed
LEMMA PublishMoves ==
  ASSUME DirTypes, DirTypes', DirInv, NEW a \in Attempts, Publish(a)
  PROVE  FilesMoved /\ AttemptsMove
<1>1. CASE GivesUp(a)
  BY <1>1, GivesUpMoves
<1>2. ASSUME files' = Renamed(attempt[a].name), NEW step \in {"done", "failed"}, Goes(a, step)
      PROVE  FilesMoved /\ AttemptsMove
  <2> DEFINE name == attempt[a].name
             len == Len(files)
  <2>1. DOMAIN files = 1..len /\ len \in Nat /\ \A i \in 1..len : files[i] \in File
    BY Domains
  <2>2. attempt[a].step = "rename"
    BY DEF Publish
  <2>3. /\ AttemptsMove
        /\ attempt'[a].step \in {"done", "failed"} /\ attempt'[a].name = attempt[a].name
        /\ \A i \in 1..len : files[i].by # None => SameAttempt(files[i].by)
    BY <1>2, <2>2, GoesMoves
  <2>4. ~Exists(name, FALSE)
    BY <2>1, <2>2 DEF DirInv, FilesTold, Exists, ToSet, Is, Writing
  <2>5. Without(name, FALSE) = files
    BY <2>4 DEF Without
  <2>6. files' = [i \in DOMAIN files |->
          IF Is(files[i], name, TRUE) THEN [files[i] EXCEPT !.hidden = FALSE] ELSE files[i]]
    BY <1>2, <2>5 DEF Renamed
  <2>7. DOMAIN files' = 1..len /\ Len(files') = len
    <3>1. DOMAIN files' = 1..len
      BY <2>1, <2>6
    <3> QED
      BY <2>1, <3>1, Domains
  <2>8. ASSUME NEW i \in 1..len
        PROVE  /\ files'[i].name = files[i].name /\ files'[i].whole = files[i].whole
               /\ files'[i].by = files[i].by /\ files'[i].age = files[i].age
               /\ \/ files'[i].hidden = files[i].hidden
                  \/ files[i].hidden /\ files[i].name = name /\ ~files'[i].hidden
    <3>1. files'[i] = IF Is(files[i], name, TRUE) THEN [files[i] EXCEPT !.hidden = FALSE] ELSE files[i]
      BY <2>1, <2>6
    <3> QED
      BY <2>1, <3>1 DEF File, Is
  <2>9. ASSUME NEW i \in 1..len PROVE Continues(i, i)
    BY <2>2, <2>3, <2>8 DEF Continues
  <2>10. FilesMoved
    BY <2>7, <2>8, <2>9, InPlace
  <2> QED
    BY <2>3, <2>10
<1> QED
  BY <1>1, <1>2 DEF Publish

LEMMA CleanUpMoves ==
  ASSUME DirTypes, DirTypes', DirInv, NEW a \in Attempts, CleanUp(a)
  PROVE  FilesMoved /\ AttemptsMove
<1>1. attempt[a].step \in {"done", "failed"} /\ attempt' = [attempt EXCEPT ![a] = Idle]
  BY DEF CleanUp
<1>2. /\ AttemptsMove /\ attempt'[a] = Idle
      /\ \A b \in Attempts \ {a} : SameAttempt(b)
      /\ \A i \in 1..Len(files) : files[i].by # None => SameAttempt(files[i].by)
  BY <1>1, OneMoves
<1> DEFINE name == attempt[a].name
<1>3. \A k \in 1..Len(files) : Is(files[k], name, TRUE) => Dispensable(k)
  <2> SUFFICES ASSUME NEW k \in 1..Len(files), Is(files[k], name, TRUE)
               PROVE  Dispensable(k)
    OBVIOUS
  <2>1. ~Latest(k)
    BY DEF Latest, Verified, Is
  <2>2. files[k].name # None
    BY Domains, BackupAssumption DEF File
  <2>3. \A b \in Attempts \ {a} : attempt'[b].name # files[k].name
    BY <1>2, <2>2 DEF SameAttempt, DirInv, AttemptsApart, Is
  <2> QED
    BY <1>2, <2>1, <2>3 DEF Dispensable, Idle
<1>4. files' = Without(name, TRUE)
  BY DEF CleanUp
<1> HIDE DEF name
<1> QED
  BY <1>2, <1>3, <1>4, Removed

LEMMA MakeRoomMoves ==
  ASSUME DirTypes, DirTypes', DirInv, MakeRoom
  PROVE  FilesMoved
<1>1. PICK f \in ToSet(files) :
        /\ Orphan(f) \/ (~f.hidden /\ f \notin Newest)
        /\ files' = Without(f.name, f.hidden)
  BY DEF MakeRoom
<1>2. PICK q \in 1..Len(files) : f = files[q]
  BY Domains DEF ToSet
<1>3. UNCHANGED attempt
  BY DEF MakeRoom
<1>4. \A k \in 1..Len(files) : Is(files[k], f.name, f.hidden) => Dispensable(k)
  <2> SUFFICES ASSUME NEW k \in 1..Len(files), Is(files[k], f.name, f.hidden)
               PROVE  Dispensable(k)
    OBVIOUS
  <2>1. k = q
    BY <1>2, Domains DEF Is, DirInv, NamesApart
  <2>2. ~Latest(k)
    BY <1>1, <1>2, <2>1, NewestIs DEF Orphan, Latest, Verified
  <2>3. \A a \in Attempts : attempt[a].step \in {"check", "rename"} => attempt[a].name # files[k].name
    BY <1>1, <1>2, <2>1, Domains DEF Orphan, DirInv, FilesTold, Writing
  <2> QED
    BY <1>3, <2>2, <2>3 DEF Dispensable
<1> QED
  BY <1>1, <1>3, <1>4, NoneMove, Removed

LEMMA CrashMoves ==
  ASSUME DirTypes, DirTypes', DirInv, Crash
  PROVE  FilesMoved /\ AttemptsMove /\ PruningMoves
<1>1. \A a \in Attempts : attempt'[a] = IF a \in Runs THEN Idle ELSE attempt[a]
  BY DEF Crash
<1>2. AttemptsMove
  BY <1>1 DEF AttemptsMove, SameAttempt
<1>3. PruningMoves
  BY PruningSet DEF Crash, Pruners
<1>4. files' = LetGo(files, Runs) /\ files \in Seq(File)
  BY DEF Crash, DirTypes
<1>5. /\ Len(files') = Len(files)
      /\ \A i \in 1..Len(files) :
           /\ files'[i].name = files[i].name /\ files'[i].hidden = files[i].hidden
           /\ files'[i].whole = files[i].whole /\ files'[i].age = files[i].age
           /\ files'[i].by = IF files[i].by \in Runs THEN None ELSE files[i].by
  BY <1>4, LetGoIs
<1>6. ASSUME NEW i \in 1..Len(files) PROVE Continues(i, i)
  <2>1. files[i].by \in Attempts \cup {None} /\ None \notin Runs
    BY Domains, BackupAssumption DEF File
  <2>2. CASE files[i].by \in Runs
    BY <1>1, <1>5, <2>1, <2>2 DEF Continues, Idle, Attempts
  <2>3. CASE files[i].by \notin Runs
    BY <1>1, <1>5, <2>1, <2>3 DEF Continues, SameAttempt
  <2> QED
    BY <2>2, <2>3
<1>7. FilesMoved
  BY <1>5, <1>6, InPlace
<1> QED
  BY <1>2, <1>3, <1>7

LEMMA TickMoves ==
  ASSUME DirTypes, DirTypes', DirInv, Tick
  PROVE  /\ FilesMoved
         /\ Len(files') = Len(files)
         /\ \A i \in 1..Len(files) :
              /\ files'[i].name = files[i].name /\ files'[i].hidden = files[i].hidden
              /\ files'[i].whole = files[i].whole /\ files'[i].by = files[i].by
              /\ files'[i].age = AgeAfter(files[i])
<1>1. DOMAIN files = 1..Len(files) /\ Len(files) \in Nat /\ \A i \in 1..Len(files) : files[i] \in File
  BY Domains
<1>2. files' = [i \in DOMAIN files |-> [files[i] EXCEPT !.age = AgeAfter(files[i])]]
  BY DEF Tick
<1>3. DOMAIN files' = 1..Len(files) /\ Len(files') = Len(files)
  <2>1. DOMAIN files' = 1..Len(files)
    BY <1>1, <1>2
  <2> QED
    BY <1>1, <2>1, Domains
<1>4. \A i \in 1..Len(files) :
        /\ files'[i].name = files[i].name /\ files'[i].hidden = files[i].hidden
        /\ files'[i].whole = files[i].whole /\ files'[i].by = files[i].by
        /\ files'[i].age = AgeAfter(files[i])
  BY <1>1, <1>2 DEF File
<1>5. \A i \in 1..Len(files) : Continues(i, i)
  BY <1>4 DEF Continues, SameAttempt, Tick
<1>6. ASSUME NEW i \in 1..Len(files)
      PROVE  /\ Intact(files[i]) => files'[i].age \in {Aged(files[i].age), Horizon}
             /\ Counting(i) => files'[i].age = Aged(files[i].age)
  <2> DEFINE f == files[i]
  <2>1. Counting(i) => f.by = None /\ (f \in Newest \/ (f.hidden /\ Pending(f)))
    BY NewestIs DEF Counting, Latest, Verified, Intact
  <2>2. f.by = None /\ (f \in Newest \/ (f.hidden /\ Pending(f))) => AgeAfter(f) = Aged(f.age)
    BY DEF AgeAfter
  <2>3. f.by = None /\ ~(f \in Newest \/ (f.hidden /\ Pending(f))) => AgeAfter(f) = Horizon
    BY DEF AgeAfter
  <2> QED
    BY <1>4, <2>1, <2>2, <2>3 DEF Intact
<1>7. FilesMoved
  BY <1>3, <1>5, <1>6, InPlace
<1> QED
  BY <1>3, <1>4, <1>7

LEMMA EveryStepMoves ==
  ASSUME DirTypes, DirTypes', DirInv, ~SameSecond, BackupNext
  PROVE  DirectoryMoves
<1>1. SUFFICES FilesMoved /\ AttemptsMove /\ PruningMoves /\ second' = None
  BY DEF DirectoryMoves, FilesMoved
<1>2. second = None
  BY DEF DirInv
<1>3. UNCHANGED <<files, attempt>> => FilesMoved /\ AttemptsMove
  BY NoneMove, Unmoved
<1>4. UNCHANGED pruning => PruningMoves
  BY DEF PruningMoves
<1>5. ASSUME SchedulerSteps
      PROVE  FilesMoved /\ AttemptsMove /\ PruningMoves /\ second' = None
  <2>1. CASE ListAtStart \/ TimerFires \/ TickerFires \/ Probe \/ ProbeFails
    BY <1>2, <1>3, <1>4, <2>1 DEF ListAtStart, TimerFires, TickerFires, Probe, ProbeFails
  <2>2. CASE ChooseName
    <3>1. PICK r \in Runs, k \in Candidates : attempt[r].step = "free" /\ Started(r, k)
      BY <2>2 DEF ChooseName
    <3>2. /\ AttemptsMove /\ second' = None
          /\ \A i \in 1..Len(files) : files[i].by # None => SameAttempt(files[i].by)
      BY <3>1, StartedMoves DEF Attempts
    <3> QED
      BY <1>4, <2>2, <3>2, Unmoved DEF ChooseName
  <2>3. CASE Finish \/ AttemptFailed
    <3>1. PICK r : r = sched.run
      OBVIOUS
    <3>2. attempt[r].step \in {"done", "failed"} /\ attempt' = [attempt EXCEPT ![r] = Idle]
      BY <2>3, <3>1 DEF Finish, AttemptFailed
    <3>3. CASE r \in Attempts
      <4>1. /\ AttemptsMove
            /\ \A i \in 1..Len(files) : files[i].by # None => SameAttempt(files[i].by)
        BY <3>2, <3>3, OneMoves
      <4> QED
        BY <1>2, <1>4, <2>3, <4>1, Unmoved DEF Finish, AttemptFailed
    <3>4. CASE r \notin Attempts
      <4>1. UNCHANGED attempt
        BY <3>2, <3>4 DEF DirTypes, AttemptTypes
      <4> QED
        BY <1>2, <1>3, <1>4, <2>3, <4>1 DEF Finish, AttemptFailed
    <3> QED
      BY <3>3, <3>4
  <2>4. CASE Abandon
    <3> DEFINE r == sched.run
               new == [attempt[r] EXCEPT !.left = TRUE]
    <3>1. attempt' = [attempt EXCEPT ![r] = new]
      BY <2>4 DEF Abandon
    <3>2. CASE r \in Attempts
      <4>1. attempt[r] \in Attempt /\ attempt'[r] = new
        BY <3>1, <3>2 DEF DirTypes, AttemptTypes
      <4>2. SameAttempt(r) /\ attempt'[r].left
        BY <4>1 DEF Attempt, SameAttempt
      <4> HIDE DEF r, new
      <4>3. /\ AttemptsMove
            /\ \A i \in 1..Len(files) : files[i].by # None => SameAttempt(files[i].by)
        BY <3>1, <3>2, <4>2, OneMoves
      <4> QED
        BY <1>2, <1>4, <2>4, <4>3, Unmoved DEF Abandon
    <3>3. CASE r \notin Attempts
      <4>1. UNCHANGED attempt
        BY <3>1, <3>3 DEF DirTypes, AttemptTypes
      <4> QED
        BY <1>2, <1>3, <1>4, <2>4, <4>1 DEF Abandon
    <3> QED
      BY <3>2, <3>3
  <2>5. CASE PruneLists \/ PruneEnds
    BY <1>2, <1>3, <2>5, PruningSet DEF PruneLists, PruneEnds, Pruners
  <2>6. CASE PruneRemoves
    BY <1>2, <2>6, NoneMove, RemovesMoves DEF PruneRemoves, Pruners
  <2> QED
    BY <1>5, <2>1, <2>2, <2>3, <2>4, <2>5, <2>6 DEF SchedulerSteps
<1>6. ASSUME NEW a \in Attempts, AttemptNext(a)
      PROVE  FilesMoved /\ AttemptsMove /\ PruningMoves /\ second' = None
  <2>1. UNCHANGED pruning /\ second' = None
    BY <1>2, <1>6 DEF AttemptNext, OpenTemp, VacuumFails, Vacuumed, Verify, CheckDeadline, Publish, CleanUp
  <2>2. CASE VacuumFails(a)
    BY <1>4, <2>1, <2>2, GivesUpMoves DEF VacuumFails
  <2>3. CASE Verify(a)
    <3>1. CASE GivesUp(a)
      BY <1>4, <2>1, <3>1, GivesUpMoves
    <3>2. CASE PassesCheck(a) /\ Goes(a, "check") /\ UNCHANGED files
      <4>1. attempt[a].step = "verify"
        BY <2>3 DEF Verify
      <4> QED
        BY <1>4, <2>1, <3>2, <4>1, GoesMoves, Unmoved
    <3> QED
      BY <2>3, <3>1, <3>2 DEF Verify
  <2>4. CASE CheckDeadline(a)
    <3>1. CASE GivesUp(a)
      BY <1>4, <2>1, <3>1, GivesUpMoves
    <3>2. CASE ~Expired(a) /\ Goes(a, "rename") /\ UNCHANGED files
      <4>1. attempt[a].step = "check" /\ ~attempt[a].left
        BY <2>4, <3>2 DEF CheckDeadline, Expired
      <4> QED
        BY <1>4, <2>1, <3>2, <4>1, GoesMoves, Unmoved
    <3> QED
      BY <2>4, <3>1, <3>2 DEF CheckDeadline
  <2> QED
    BY <1>4, <1>6, <2>1, <2>2, <2>3, <2>4, OpenTempMoves, VacuumedMoves, PublishMoves, CleanUpMoves
    DEF AttemptNext
<1>7. ASSUME NEW c \in Commands, CommandStarts(c) \/ CommandNext(c)
      PROVE  FilesMoved /\ AttemptsMove /\ PruningMoves /\ second' = None
  <2>1. CASE CommandStarts(c)
    <3>1. PICK k \in Candidates : attempt[c].step = "free" /\ Started(c, k)
      BY <2>1 DEF CommandStarts
    <3>2. /\ AttemptsMove /\ second' = None
          /\ \A i \in 1..Len(files) : files[i].by # None => SameAttempt(files[i].by)
      BY <3>1, StartedMoves DEF Attempts
    <3> QED
      BY <1>4, <2>1, <3>2, Unmoved DEF CommandStarts
  <2>2. CASE CommandLists(c)
    <3>1. attempt[c].step = "done" /\ Goes(c, "remove")
      BY <2>2 DEF CommandLists
    <3>2. AttemptsMove /\ FilesMoved
      BY <2>2, <3>1, GoesMoves, Unmoved DEF CommandLists, Attempts
    <3> QED
      BY <1>2, <2>2, <3>2, PruningSet DEF CommandLists, Pruners
  <2>3. CASE CommandRemoves(c)
    BY <1>2, <2>3, NoneMove, RemovesMoves DEF CommandRemoves, Pruners
  <2>4. CASE CommandEnds(c)
    <3>1. attempt[c].step # "fill" /\ attempt' = [attempt EXCEPT ![c] = Idle]
      BY <2>4 DEF CommandEnds
    <3>2. AttemptsMove /\ FilesMoved
      BY <2>4, <3>1, OneMoves, Unmoved DEF CommandEnds, Attempts
    <3> QED
      BY <1>2, <2>4, <3>2, PruningSet DEF CommandEnds, Pruners
  <2> QED
    BY <1>7, <2>1, <2>2, <2>3, <2>4 DEF CommandNext
<1>8. CASE Blocks
  BY <1>2, <1>3, <1>4, <1>8 DEF Blocks
<1>9. CASE Crash
  BY <1>2, <1>9, CrashMoves DEF Crash
<1>10. CASE Tick
  BY <1>4, <1>10, NoneMove, TickMoves DEF Tick
<1>11. CASE MakeRoom
  BY <1>2, <1>4, <1>11, NoneMove, MakeRoomMoves DEF MakeRoom
<1> QED
  BY <1>5, <1>6, <1>7, <1>8, <1>9, <1>10, <1>11 DEF BackupNext
(***************************************************************************)
(* Snapshots: what the scheduler's run has done so far, and the theorems.  *)
(***************************************************************************)
\* The run that is waited for is under way and not abandoned; what it has
\* written since its start is no older than the run, and once it is done there
\* is a verified snapshot that is no older.
RunInv ==
  sched.pc = "wait" =>
    /\ sched.run \in Runs
    /\ attempt[sched.run].step # "free" /\ ~attempt[sched.run].left
    /\ attempt[sched.run].step \in {"verify", "check", "rename"} =>
         \A i \in DOMAIN files :
           files[i].name = attempt[sched.run].name => files[i].age <= sched.elapsed
    /\ attempt[sched.run].step = "done" => \E f \in Newest : f.age <= sched.elapsed

LEMMA DirInit ==
  ASSUME BackupInit
  PROVE  DirInv /\ RunInv /\ LastAtStands
<1> USE BackupAssumption
<1>1. attempt = [a \in Attempts |-> Idle] /\ second = None /\ pruning = [p \in Pruners |-> << >>]
      /\ sched.pc = "list" /\ last.at = None
  BY DEF BackupInit, Starting, Never
<1>2. \A a \in Attempts : attempt[a] = Idle
  BY <1>1
<1>3. \/ files = << >>
      \/ \E n, m \in Names, a, b \in {0, 1, Horizon} :
           n # m /\ a >= b /\ files = <<Found(n, TRUE, a), Found(m, FALSE, b)>>
  BY DEF BackupInit
<1>4. \A i \in DOMAIN files : ~files[i].hidden /\ files[i].by = None /\ files[i].name \in Names
                             /\ i \in 1..2 /\ (i = 2 => ~files[i].whole)
  BY <1>3 DEF Found
<1>5. NamesApart
  BY <1>3 DEF NamesApart, Found
<1>6. AttemptsApart /\ TempThere /\ Written
  BY <1>2, <1>4 DEF AttemptsApart, TempThere, Written, Idle
<1>7. FilesTold
  BY <1>2, <1>4 DEF FilesTold, Idle
<1>8. PrunesOld
  BY <1>1 DEF PrunesOld
<1>9. Ordered
  <2>1. \A j \in DOMAIN files : Counting(j) => files[j].whole
    BY DEF Counting, Latest, Verified, Intact
  <2> QED
    BY <1>4, <2>1 DEF Ordered
<1> QED
  BY <1>1, <1>5, <1>6, <1>7, <1>8, <1>9 DEF DirInv, RunInv, LastAtStands

LEMMA PublishedThere ==
  ASSUME DirTypes, DirTypes', DirInv, NEW a \in Attempts, Publish(a), attempt'[a].step = "done"
  PROVE  \E i \in 1..Len(files) :
           /\ files[i].name = attempt[a].name
           /\ i \in Verified' /\ files'[i].age = files[i].age
<1> DEFINE name == attempt[a].name
           len == Len(files)
<1>1. DOMAIN files = 1..len /\ len \in Nat /\ \A i \in 1..len : files[i] \in File
  BY Domains
<1>2. attempt[a].step = "rename" /\ attempt \in [Attempts -> Attempt]
  BY DEF Publish, DirTypes, AttemptTypes
<1>3. ~GivesUp(a)
  BY <1>2 DEF GivesUp, Goes, Attempt
<1>4. files' = Renamed(name)
  BY <1>3 DEF Publish
<1>5. Without(name, FALSE) = files
  BY <1>1, <1>2 DEF DirInv, FilesTold, Exists, ToSet, Is, Writing, Without
<1>6. files' = [i \in DOMAIN files |->
        IF Is(files[i], name, TRUE) THEN [files[i] EXCEPT !.hidden = FALSE] ELSE files[i]]
  BY <1>4, <1>5 DEF Renamed
<1>7. PICK i \in 1..len : files[i].name = name
  BY <1>1, <1>2 DEF DirInv, TempThere
<1>8. files[i].hidden /\ Intact(files[i])
  BY <1>1, <1>2, <1>7 DEF DirInv, FilesTold, Writing
<1>9. files'[i] = [files[i] EXCEPT !.hidden = FALSE]
  BY <1>1, <1>6, <1>7, <1>8 DEF Is
<1>10. files'[i].age = files[i].age /\ ~files'[i].hidden /\ files'[i].whole /\ files'[i].by = None
  BY <1>1, <1>8, <1>9 DEF File, Intact
<1>11. i \in DOMAIN files'
  BY <1>1, <1>6
<1> QED
  BY <1>7, <1>10, <1>11 DEF Verified, Intact

\* A file is new, or one was there with its name and age.
LEMMA AgesKept ==
  ASSUME DirTypes, DirTypes', DirectoryMoves, ~Tick, NEW i \in DOMAIN files'
  PROVE  \/ files'[i].age = 0
         \/ \E k \in DOMAIN files : Continues(i, k) /\ files'[i].age = files[k].age
<1>1. PICK n, m : FilesMove(n, m) /\ SameAges(n, m)
  BY DEF DirectoryMoves
<1>2. DOMAIN files = 1..Len(files) /\ DOMAIN files' = 1..Len(files') /\ Len(files') \in Nat
  BY Domains
<1>3. CASE i \in 1..n
  <2>1. m[i] \in 1..Len(files)
    BY <1>1, <1>3 DEF FilesMove
  <2>2. Continues(i, m[i]) /\ files'[i].age = files[m[i]].age
    BY <1>1, <1>3 DEF FilesMove, SameAges
  <2> QED
    BY <1>2, <2>1, <2>2
<1>4. CASE i \notin 1..n
  <2>1. i \in (n + 1)..Len(files')
    BY <1>1, <1>2, <1>4 DEF FilesMove
  <2>2. Rewritten(i)
    BY <1>1, <2>1 DEF FilesMove
  <2> QED
    BY <2>2 DEF Rewritten
<1> QED
  BY <1>3, <1>4

\* How the scheduler's run gets on while it is waited for.
LEMMA RunProceeds ==
  ASSUME DirTypes, SchedTypes, DirInv, RunInv, sched.pc = "wait", UNCHANGED sched, BackupNext
  PROVE  /\ sched.run \in Attempts
         /\ attempt'[sched.run].step # "free" /\ ~attempt'[sched.run].left
         /\ attempt'[sched.run].name = attempt[sched.run].name
         /\ attempt'[sched.run].step \in {"verify", "check", "rename"} =>
              \/ attempt[sched.run].step \in {"verify", "check", "rename"}
              \/ attempt[sched.run].step = "fill" /\ attempt'[sched.run].step = "verify"
         /\ attempt'[sched.run].step = "done" =>
              attempt[sched.run].step = "done" \/ Publish(sched.run)
<1> DEFINE r == sched.run
<1>1. r \in Runs /\ r \in Attempts /\ r \notin Commands /\ attempt[r].step # "free" /\ ~attempt[r].left
  BY BackupAssumption DEF RunInv, Attempts
<1>2. attempt \in [Attempts -> Attempt] /\ attempt[r] \in Attempt
  BY <1>1 DEF DirTypes, AttemptTypes
<1>3. CASE attempt'[r] = attempt[r]
  BY <1>1, <1>3
<1>4. ASSUME NEW step, Goes(r, step)
      PROVE  /\ attempt'[r].step = step /\ attempt'[r].left = attempt[r].left
             /\ attempt'[r].name = attempt[r].name
  BY <1>1, <1>2, <1>4 DEF Goes, Attempt
<1> HIDE DEF r
<1>5. CASE AttemptNext(r)
  <2>1. CASE OpenTemp(r)
    <3>1. Goes(r, "fill")
      BY <2>1 DEF OpenTemp
    <3> QED
      BY <1>1, <1>4, <3>1 DEF r
  <2>2. CASE VacuumFails(r)
    <3>1. Goes(r, "failed")
      BY <2>2 DEF VacuumFails, GivesUp
    <3> QED
      BY <1>1, <1>4, <3>1 DEF r
  <2>3. CASE Vacuumed(r)
    <3>1. Goes(r, "verify") /\ attempt[r].step = "fill"
      BY <2>3 DEF Vacuumed
    <3> QED
      BY <1>1, <1>4, <3>1 DEF r
  <2>4. CASE Verify(r)
    <3>1. \E step \in {"check", "failed"} : Goes(r, step) /\ attempt[r].step = "verify"
      BY <2>4 DEF Verify, GivesUp
    <3> QED
      BY <1>1, <1>4, <3>1 DEF r
  <2>5. CASE CheckDeadline(r)
    <3>1. \E step \in {"rename", "failed"} : Goes(r, step) /\ attempt[r].step = "check"
      BY <2>5 DEF CheckDeadline, GivesUp
    <3> QED
      BY <1>1, <1>4, <3>1 DEF r
  <2>6. CASE Publish(r)
    <3>1. \E step \in {"done", "failed"} : Goes(r, step)
      BY <2>6 DEF Publish, GivesUp
    <3> QED
      BY <1>1, <1>4, <2>6, <3>1 DEF r
  <2>7. CASE CleanUp(r)
    BY <1>1, <2>7 DEF CleanUp
  <2> QED
    BY <1>5, <2>1, <2>2, <2>3, <2>4, <2>5, <2>6, <2>7 DEF AttemptNext
<1>6. ASSUME NEW a \in Attempts, a # r, AttemptNext(a) PROVE attempt'[r] = attempt[r]
  <2>1. attempt' = [attempt EXCEPT ![a] = Idle] \/ \E step : Goes(a, step)
    BY <1>6 DEF AttemptNext, OpenTemp, VacuumFails, Vacuumed, Verify, CheckDeadline, Publish,
       CleanUp, GivesUp
  <2> QED
    BY <1>1, <1>2, <1>6, <2>1 DEF Goes
<1>7. ASSUME NEW c \in Commands, CommandStarts(c) \/ CommandNext(c) PROVE attempt'[r] = attempt[r]
  BY <1>1, <1>2, <1>7 DEF CommandStarts, CommandNext, CommandLists, CommandRemoves, CommandEnds,
     Started, Goes
<1>8. CASE Blocks \/ MakeRoom
  BY <1>3, <1>8 DEF Blocks, MakeRoom, r
<1>9. ~Tick
  <2>1. Tick => sched'.elapsed = sched.elapsed + 1
    BY DEF Tick, SchedTypes
  <2>2. sched.elapsed + 1 # sched.elapsed
    BY BackupAssumption DEF SchedTypes
  <2> QED
    BY <2>1, <2>2
<1>10. ~SchedulerSteps /\ ~Crash
  <2>1. sched'.pc = "wait"
    OBVIOUS
  <2>2. ~(ListAtStart \/ TimerFires \/ TickerFires \/ Probe \/ ProbeFails \/ ChooseName)
    BY DEF ListAtStart, TimerFires, TickerFires, Probe, ProbeFails, ChooseName, AtStep
  <2>3. ~(PruneLists \/ PruneRemoves \/ PruneEnds)
    <3>1. ~PruneLists /\ ~PruneEnds
      BY DEF PruneLists, PruneEnds, AtStep
    <3>2. ~PruneRemoves
      BY DEF PruneRemoves, AtStep
    <3> QED
      BY <3>1, <3>2
  <2>4. ~RunFails
    BY <2>1 DEF RunFails, SchedTypes
  <2>5. ~Finish
    BY <2>1 DEF Finish, SchedTypes
  <2>6. ~Crash
    BY <2>1 DEF Crash, Starting
  <2> QED
    BY <2>2, <2>3, <2>4, <2>5, <2>6 DEF SchedulerSteps, AttemptFailed, Abandon
<1> QED
  BY <1>1, <1>3, <1>5, <1>6, <1>7, <1>8, <1>9, <1>10 DEF BackupNext, r

LEMMA RunStep ==
  ASSUME DirTypes, DirTypes', SchedTypes, DirInv, DirInv', RunInv, ~SameSecond, BackupNext,
         DirectoryMoves,
         \A f \in Newest : \E g \in Newest' : g.age <= f.age \/ (Tick /\ g.age <= Aged(f.age))
  PROVE  RunInv'
<1> SUFFICES ASSUME sched'.pc = "wait" PROVE RunInv'
  BY DEF RunInv
<1> DEFINE r == sched.run
<1>1. CASE ChooseName
  <2>1. PICK a \in Runs, k \in Candidates : Started(a, k) /\ sched' = [sched EXCEPT !.pc = "wait", !.run = a]
    BY <1>1 DEF ChooseName
  <2>2. sched'.run = a
    BY <2>1 DEF SchedTypes
  <2>3. attempt'[a].step = "open" /\ ~attempt'[a].left
    BY <2>1 DEF Started, DirTypes, AttemptTypes, Attempts
  <2> QED
    BY <2>1, <2>2, <2>3 DEF RunInv
<1>2. CASE sched.pc = "wait" /\ UNCHANGED sched
  <2>1. /\ r \in Attempts
        /\ attempt'[r].step # "free" /\ ~attempt'[r].left
        /\ attempt'[r].name = attempt[r].name
        /\ attempt'[r].step \in {"verify", "check", "rename"} =>
             \/ attempt[r].step \in {"verify", "check", "rename"}
             \/ attempt[r].step = "fill" /\ attempt'[r].step = "verify"
        /\ attempt'[r].step = "done" => attempt[r].step = "done" \/ Publish(r)
    BY <1>2, RunProceeds
  <2>2. sched.elapsed \in Nat /\ sched'.elapsed = sched.elapsed /\ sched'.run = r /\ r \in Runs
    BY <1>2, BackupAssumption DEF SchedTypes, RunInv
  <2>3. ~Tick
    <3>1. Tick => sched'.elapsed = sched.elapsed + 1
      BY <1>2 DEF Tick, SchedTypes
    <3>2. sched.elapsed + 1 # sched.elapsed
      BY <2>2
    <3> QED
      BY <2>2, <3>1, <3>2
  <2>4. ASSUME attempt'[r].step \in {"verify", "check", "rename"},
               NEW i \in DOMAIN files', files'[i].name = attempt'[r].name
        PROVE  files'[i].age <= sched.elapsed
    <3>1. CASE files'[i].age = 0
      BY <2>2, <3>1
    <3>2. ASSUME NEW k \in DOMAIN files, Continues(i, k), files'[i].age = files[k].age
          PROVE  files'[i].age <= sched.elapsed
      <4>1. files[k].name = attempt[r].name
        BY <2>1, <2>4, <3>2 DEF Continues
      <4>2. CASE attempt[r].step \in {"verify", "check", "rename"}
        BY <1>2, <3>2, <4>1, <4>2 DEF RunInv
      <4>3. CASE attempt[r].step = "fill" /\ attempt'[r].step = "verify"
        <5>1. files[k].by = r /\ r # None
          BY <2>1, <4>1, <4>3, BackupAssumption DEF DirInv, FilesTold, Attempts
        <5> QED
          BY <3>2, <4>3, <5>1 DEF Continues, SameAttempt
      <4> QED
        BY <2>1, <2>4, <4>2, <4>3
    <3> QED
      BY <2>3, <3>1, <3>2, AgesKept
  <2>5. ASSUME attempt'[r].step = "done"
        PROVE  \E f \in Newest' : f.age <= sched.elapsed
    <3>1. CASE attempt[r].step = "done"
      <4>1. PICK f \in Newest : f.age <= sched.elapsed
        BY <1>2, <3>1 DEF RunInv
      <4>2. PICK g \in Newest' : g.age <= f.age
        BY <2>3
      <4>3. f.age \in Nat /\ g.age \in Nat
        <5>1. f \in File
          BY NewestTypes
        <5>2. g \in File
          BY Domains, NewestIsThen DEF Latest, Verified
        <5> QED
          BY <5>1, <5>2 DEF File
      <4> QED
        BY <2>2, <4>1, <4>2, <4>3
    <3>2. CASE Publish(r)
      <4>1. PICK i \in 1..Len(files) :
              files[i].name = attempt[r].name /\ i \in Verified' /\ files'[i].age = files[i].age
        BY <2>1, <2>5, <3>2, PublishedThere
      <4>2. attempt[r].step = "rename"
        BY <3>2 DEF Publish
      <4>3. files[i].age <= sched.elapsed
        BY <1>2, <4>1, <4>2, Domains DEF RunInv
      <4>4. PICK j : Latest(j)' /\ i <= j
        BY <4>1, HasLatest
      <4>5. i \in DOMAIN files' /\ j \in DOMAIN files' /\ files'[i].whole /\ files'[i].by = None
            /\ files'[i].age \in Nat /\ files'[j].age \in Nat /\ i \in Nat /\ j \in Nat
        BY <4>1, <4>4, Domains DEF Latest, Verified, Intact, File
      <4>6. files'[j].age <= files'[i].age
        <5>1. CASE i = j
          BY <4>5, <5>1
        <5>2. CASE i < j
          BY <4>4, <4>5, <5>2 DEF DirInv, Ordered, Counting, Intact
        <5> QED
          BY <4>4, <4>5, <5>1, <5>2
      <4>7. files'[j] \in Newest'
        BY <4>4, NewestIsThen
      <4> QED
        BY <2>2, <4>1, <4>3, <4>5, <4>6, <4>7
    <3> QED
      BY <2>1, <2>5, <3>1, <3>2
  <2> QED
    BY <2>1, <2>2, <2>4, <2>5 DEF RunInv
<1>3. CASE sched.pc = "wait" /\ Tick
  <2>1. sched'.elapsed = sched.elapsed + 1 /\ sched'.run = r /\ attempt' = attempt
        /\ sched.elapsed \in Nat
    BY <1>3, BackupAssumption DEF Tick, SchedTypes
  <2>2. r \in Runs /\ r \in Attempts /\ attempt[r].step # "free" /\ ~attempt[r].left
    BY <1>3 DEF RunInv, Attempts
  <2>3. ASSUME attempt[r].step \in {"verify", "check", "rename"},
               NEW i \in DOMAIN files', files'[i].name = attempt[r].name
        PROVE  files'[i].age <= sched.elapsed + 1
    <3>1. i \in 1..Len(files) /\ files[i].name = attempt[r].name
          /\ files'[i].age = AgeAfter(files[i]) /\ files[i] \in File
      BY <1>3, <2>3, TickMoves, Domains
    <3>2. files[i].age <= sched.elapsed /\ files[i].age \in Nat
      BY <1>3, <2>3, <3>1, Domains DEF RunInv, File
    <3>3. files[i].hidden
      BY <2>2, <2>3, <3>1, Domains DEF DirInv, FilesTold, Writing
    <3>4. files[i].by = None
      <4>1. attempt[r].name # None
        BY <2>2 DEF DirTypes, AttemptTypes
      <4>2. files[i].by # None =>
              /\ files[i].by \in Attempts /\ attempt[files[i].by].step = "fill"
              /\ attempt[files[i].by].name = attempt[r].name
        BY <3>1, Domains DEF DirInv, Written, File
      <4> QED
        BY <2>2, <2>3, <4>1, <4>2 DEF DirInv, AttemptsApart
    <3>5. Pending(files[i])
      BY <2>2, <3>1 DEF Pending
    <3>6. AgeAfter(files[i]) = Aged(files[i].age)
      BY <3>3, <3>4, <3>5 DEF AgeAfter
    <3> QED
      BY <2>1, <3>1, <3>2, <3>6 DEF Aged
  <2>4. ASSUME attempt[r].step = "done"
        PROVE  \E f \in Newest' : f.age <= sched.elapsed + 1
    <3>1. PICK f \in Newest : f.age <= sched.elapsed
      BY <1>3, <2>4 DEF RunInv
    <3>2. PICK g \in Newest' : g.age <= f.age \/ g.age <= Aged(f.age)
      OBVIOUS
    <3>3. f.age \in Nat /\ g.age \in Nat
      <4>1. f \in File
        BY NewestTypes
      <4>2. g \in File
        BY Domains, NewestIsThen DEF Latest, Verified
      <4> QED
        BY <4>1, <4>2 DEF File
    <3> QED
      BY <2>1, <3>1, <3>2, <3>3 DEF Aged
  <2> QED
    BY <2>1, <2>2, <2>3, <2>4 DEF RunInv
<1>4. ChooseName \/ (sched.pc = "wait" /\ (UNCHANGED sched \/ Tick))
  <2>1. ASSUME SchedulerSteps PROVE ChooseName
    <3>1. ~(ListAtStart \/ TimerFires \/ TickerFires)
      BY DEF ListAtStart, TimerFires, TickerFires, RunStarts, SchedTypes
    <3>2. ~Probe /\ ~Finish
      BY DEF Probe, Finish, SchedTypes
    <3>3. ~RunFails
      BY DEF RunFails, SchedTypes
    <3>4. ~PruneLists /\ ~PruneEnds
      BY DEF PruneLists, PruneEnds, SchedTypes
    <3>5. ~PruneRemoves
      BY DEF PruneRemoves, AtStep
    <3> QED
      BY <2>1, <3>1, <3>2, <3>3, <3>4, <3>5 DEF SchedulerSteps, ProbeFails, AttemptFailed, Abandon
  <2>2. ~Crash
    BY DEF Crash, Starting
  <2>3. Blocks => sched.pc # "wait" /\ sched'.pc = sched.pc
    BY BackupAssumption DEF Blocks, SchedTypes
  <2>4. Tick => sched'.pc = sched.pc
    BY DEF Tick, SchedTypes
  <2>5. ASSUME NEW a \in Attempts, AttemptNext(a) PROVE UNCHANGED sched
    BY <2>5 DEF AttemptNext, OpenTemp, VacuumFails, Vacuumed, Verify, CheckDeadline, Publish, CleanUp
  <2>6. ASSUME NEW c \in Commands, CommandStarts(c) \/ CommandNext(c) PROVE UNCHANGED sched
    BY <2>6 DEF CommandStarts, CommandNext, CommandLists, CommandRemoves, CommandEnds
  <2>7. MakeRoom => UNCHANGED sched
    BY DEF MakeRoom
  <2> QED
    BY <2>1, <2>2, <2>3, <2>4, <2>5, <2>6, <2>7 DEF BackupNext
<1> QED
  BY <1>1, <1>2, <1>3, <1>4

\* What last_at stands for, after any step.
LEMMA LastStep ==
  ASSUME DirTypes, DirTypes', SchedTypes, LastTypes, RunInv, LastAtStands, BackupNext,
         \A f \in Newest : \E g \in Newest' : g.age <= f.age \/ (Tick /\ g.age <= Aged(f.age))
  PROVE  LastAtStands'
<1> SUFFICES ASSUME last'.at # None PROVE \E g \in Newest' : g.age <= last'.at + Timeout
  BY DEF LastAtStands
<1>1. Timeout \in Nat /\ Horizon \in Nat /\ None \notin Nat
  BY BackupAssumption
<1>2. /\ \A f \in Newest : f.age \in 0..Horizon
      /\ \A g \in Newest' : g.age \in 0..Horizon
  <2>1. \A g \in Newest' : g \in File
    BY Domains, NewestIsThen DEF Latest, Verified
  <2> QED
    BY <2>1, NewestTypes DEF File
<1>3. last.at # None => last.at \in 0..Horizon
  BY DEF LastTypes
<1>4. CASE Tick
  <2>1. last.at # None /\ last'.at = Aged(last.at)
    BY <1>4 DEF Tick, LastTypes
  <2>2. PICK f \in Newest : f.age <= last.at + Timeout
    BY <2>1 DEF LastAtStands
  <2>3. PICK g \in Newest' : g.age <= f.age \/ g.age <= Aged(f.age)
    OBVIOUS
  <2> QED
    BY <1>1, <1>2, <1>3, <2>1, <2>2, <2>3 DEF Aged
<1>5. ASSUME ~Tick, last'.at = last.at
      PROVE  \E g \in Newest' : g.age <= last'.at + Timeout
  <2>1. PICK f \in Newest : f.age <= last.at + Timeout
    BY <1>5 DEF LastAtStands
  <2>2. PICK g \in Newest' : g.age <= f.age
    BY <1>5
  <2> QED
    BY <1>1, <1>2, <1>3, <1>5, <2>1, <2>2
<1>6. ASSUME UNCHANGED files PROVE Newest' = Newest
  BY <1>6 DEF Newest, Verified
<1>7. CASE ListAtStart
  <2>1. CASE UNCHANGED last
    <3>1. CASE ~Tick
      BY <1>5, <2>1, <3>1
    <3> QED
      BY <1>4, <3>1
  <2>2. ASSUME NEW f \in Newest, last' = [at |-> f.age, error |-> FALSE]
        PROVE  \E g \in Newest' : g.age <= last'.at + Timeout
    <3>1. f \in Newest'
      BY <1>6, <1>7 DEF ListAtStart
    <3> QED
      BY <1>1, <1>2, <2>2, <3>1
  <2> QED
    BY <1>7, <2>1, <2>2 DEF ListAtStart
<1>8. CASE Finish
  <2>1. sched.pc = "wait" /\ attempt[sched.run].step = "done" /\ last'.at = 0
        /\ sched.elapsed \in 0..Timeout
    BY <1>8 DEF Finish, AtStep, SchedTypes
  <2>2. PICK f \in Newest : f.age <= sched.elapsed
    BY <2>1 DEF RunInv
  <2>3. f \in Newest'
    BY <1>6, <1>8 DEF Finish
  <2> QED
    BY <1>1, <1>2, <2>1, <2>2, <2>3
<1>9. CASE ~Crash /\ ~ListAtStart /\ ~Finish /\ ~Tick
  <2>1. RunFails => last'.at = last.at
    BY DEF RunFails, Failed, LastTypes
  <2>2. UNCHANGED last => last'.at = last.at
    OBVIOUS
  <2>3. SchedulerSteps => RunFails \/ UNCHANGED last
    BY <1>9 DEF SchedulerSteps, TimerFires, TickerFires, Probe, ProbeFails, ChooseName,
       AttemptFailed, Abandon, PruneLists, PruneRemoves, PruneEnds
  <2>4. ASSUME NEW a \in Attempts, AttemptNext(a) PROVE UNCHANGED last
    BY <2>4 DEF AttemptNext, OpenTemp, VacuumFails, Vacuumed, Verify, CheckDeadline, Publish, CleanUp
  <2>5. ASSUME NEW c \in Commands, CommandStarts(c) \/ CommandNext(c) PROVE UNCHANGED last
    BY <2>5 DEF CommandStarts, CommandNext, CommandLists, CommandRemoves, CommandEnds
  <2>6. Blocks \/ MakeRoom => UNCHANGED last
    BY DEF Blocks, MakeRoom
  <2>7. last'.at = last.at
    BY <1>9, <2>1, <2>2, <2>3, <2>4, <2>5, <2>6 DEF BackupNext
  <2> QED
    BY <1>5, <1>9, <2>7
<1>10. ~Crash
  BY DEF Crash, Never
<1> QED
  BY <1>4, <1>7, <1>8, <1>9, <1>10

\* The inductive invariant of the backups: types, what the files of the directory
\* tell of each other and of the attempts, where a run stands, and the time that
\* /api/health reports.
BackupInv ==
  DirTypes /\ SchedTypes /\ LastTypes /\ DirInv /\ RunInv /\ LastAtStands

\* Every step keeps the invariant; while names are distinct it loses neither the
\* newest snapshots nor a whole one.
LEMMA BackupStep ==
  ASSUME BackupInv, [BackupNext]_backupVars, ~SameSecond
  PROVE  /\ BackupInv'
         /\ \A f \in Newest : \E g \in Newest' : g.age <= f.age \/ (Tick /\ g.age <= Aged(f.age))
         /\ \A f \in Snapshots' :
              Intact(f) \/ \E g \in Snapshots : g.name = f.name /\ g.whole = f.whole
<1> USE DEF BackupInv
<1>1. DirTypes' /\ SchedTypes' /\ LastTypes'
  BY DirTypesStep, SchedTypesStep, LastTypesStep
<1>2. CASE BackupNext
  <2>1. DirectoryMoves
    BY <1>1, <1>2, EveryStepMoves
  <2>2. /\ DirInv'
        /\ \A f \in Newest : \E g \in Newest' : g.age <= f.age \/ (Tick /\ g.age <= Aged(f.age))
        /\ \A f \in Snapshots' :
             Intact(f) \/ \E g \in Snapshots : g.name = f.name /\ g.whole = f.whole
    BY <1>1, <2>1, DirStep
  <2>3. RunInv'
    BY <1>1, <1>2, <2>1, <2>2, RunStep
  <2>4. LastAtStands'
    BY <1>1, <1>2, <2>2, LastStep
  <2> QED
    BY <1>1, <2>2, <2>3, <2>4
<1>3. CASE UNCHANGED backupVars
  <2>1. UNCHANGED <<files, attempt, sched, last, second, pruning>>
    BY <1>3 DEF backupVars
  <2>2. Verified' = Verified /\ Newest' = Newest /\ Snapshots' = Snapshots
    BY <2>1 DEF Verified, Newest, Snapshots
  <2>3. DirInv'
    <3>1. NamesApart' /\ AttemptsApart' /\ Written' /\ FilesTold' /\ TempThere'
      BY <2>1 DEF DirInv, NamesApart, AttemptsApart, Written, FilesTold, TempThere
    <3>2. PrunesOld'
      BY <2>1, <2>2 DEF DirInv, PrunesOld, Latest
    <3>3. Ordered'
      BY <2>1, <2>2 DEF DirInv, Ordered, Counting, Latest, Intact, Pending
    <3> QED
      BY <2>1, <3>1, <3>2, <3>3 DEF DirInv
  <2>4. RunInv' /\ LastAtStands'
    BY <2>1, <2>2 DEF RunInv, LastAtStands
  <2>5. \A f \in Newest : f.age <= f.age
    BY NewestTypes DEF File
  <2>6. \A f \in Snapshots' :
          Intact(f) \/ \E g \in Snapshots : g.name = f.name /\ g.whole = f.whole
    BY <2>2
  <2> QED
    BY <1>1, <2>2, <2>3, <2>4, <2>5, <2>6
<1> QED
  BY <1>2, <1>3

LEMMA BackupInvHolds ==
  ASSUME ~SameSecond
  PROVE  BackupSpec => []BackupInv
<1>1. BackupInit => BackupInv
  BY BackupTypesInit, DirInit DEF BackupInv
<1>2. BackupInv /\ [BackupNext]_backupVars => BackupInv'
  BY BackupStep
<1> QED
  BY <1>1, <1>2, PTL DEF BackupSpec

\* Where no two attempts begin in one second, the last_at of /healthz stands for
\* a verified snapshot of the directory, at most one run older.
THEOREM LastAtHolds ==
  ASSUME ~SameSecond
  PROVE  BackupSpec => []LastAtStands
<1>1. BackupInv => LastAtStands
  BY DEF BackupInv
<1> QED
  BY <1>1, BackupInvHolds, PTL

\* Where no two attempts begin in one second, no step loses the newest verified
\* snapshot, but to one as new: however many commands and abandoned attempts there
\* are, and whatever they prune by listings that have gone stale.
THEOREM NewestIsKept ==
  ASSUME ~SameSecond
  PROVE  BackupSpec => NewestKept
<1>1. BackupInv /\ [BackupNext]_backupVars =>
        [\A f \in Newest : \E g \in Newest' : g.age <= Aged(f.age)]_backupVars
  <2> SUFFICES ASSUME BackupInv, [BackupNext]_backupVars, NEW f \in Newest
               PROVE  \E g \in Newest' : g.age <= Aged(f.age)
    OBVIOUS
  <2>1. PICK g \in Newest' : g.age <= f.age \/ g.age <= Aged(f.age)
    BY BackupStep
  <2>2. f.age \in Nat
    BY NewestTypes DEF BackupInv, File
  <2>3. g.age \in Nat
    <3>1. DirTypes'
      BY BackupStep DEF BackupInv
    <3>2. g \in File
      BY <3>1, Domains, NewestIsThen DEF Latest, Verified
    <3> QED
      BY <3>2 DEF File
  <2> QED
    BY <2>1, <2>2, <2>3, BackupAssumption DEF Aged
<1> QED
  BY <1>1, BackupInvHolds, PTL DEF BackupSpec, NewestKept

\* Where no two attempts begin in one second, whatever comes to stand under a
\* snapshot's name is whole and verified.
THEOREM PublishedIsWhole ==
  ASSUME ~SameSecond
  PROVE  BackupSpec => PublishedWhole
<1>1. BackupInv /\ [BackupNext]_backupVars =>
        [\A f \in Snapshots' :
           Intact(f) \/ \E g \in Snapshots : g.name = f.name /\ g.whole = f.whole]_backupVars
  BY BackupStep
<1> QED
  BY <1>1, BackupInvHolds, PTL DEF BackupSpec, PublishedWhole

(***************************************************************************)
(* Dumps: the lines of a dump, and of what a dump may turn into.           *)
(***************************************************************************)

\* A table's rows in the order of their ids are all of its rows.
LEMMA InOrderIs ==
  ASSUME NEW db, IsDatabase(db), NEW table \in {"setting", "issue", "event"}
  PROVE  /\ InOrder(table, db) \in Seq(db)
         /\ \A row \in Rows(table, db) :
              \E k \in DOMAIN InOrder(table, db) : InOrder(table, db)[k] = row
<1> DEFINE rows == Rows(table, db)
           N == Cardinality(rows)
           r == [row \in rows |-> row[table]]
           s == InOrder(table, db)
           nth(k) == CHOOSE row \in rows : Cardinality({y \in rows : y[table] <= row[table]}) = k
<1>1. IsFiniteSet(rows) /\ N \in Nat
  <2>1. rows \subseteq db /\ IsFiniteSet(db)
    BY DEF IsDatabase, Rows
  <2>2. IsFiniteSet(rows)
    BY <2>1, FS_Subset
  <2> QED
    BY <2>2, FS_CardinalityType
<1>2. r \in [rows -> Int]
  <2>1. \A row \in rows : row[table] \in Int
    <3> TAKE row \in rows
    <3>1. IsRow(row) /\ table \in DOMAIN row
      BY DEF IsDatabase, Rows
    <3> QED
      BY <3>1 DEF IsRow, IssuePrefix, IssueSeq
  <2> QED
    BY <2>1
<1>3. \A x, y \in rows : r[x] = r[y] => x = y
  BY DEF IsDatabase
<1>4. \A x \in rows : UpTo(rows, r, x) = {y \in rows : y[table] <= x[table]}
  BY DEF UpTo
<1>5. \A k \in 1..N : \E x \in rows : Cardinality(UpTo(rows, r, x)) = k
  <2> HIDE DEF r, rows
  <2> QED
    BY <1>1, <1>2, <1>3, Ranked
<1>6. \A k \in 1..N : nth(k) \in rows /\ Cardinality({y \in rows : y[table] <= nth(k)[table]}) = k
  <2> TAKE k \in 1..N
  <2>1. \E row \in rows : Cardinality({y \in rows : y[table] <= row[table]}) = k
    BY <1>4, <1>5
  <2> QED
    BY <2>1
<1>7. s = [k \in 1..N |-> nth(k)]
  BY DEF InOrder
<1> HIDE DEF rows, N, r, s, nth
<1>8. s \in [1..N -> rows] /\ DOMAIN s = 1..N
  BY <1>6, <1>7
<1>9. s \in Injection(1..N, rows)
  <2>1. ASSUME NEW a \in 1..N, NEW b \in 1..N, s[a] = s[b] PROVE a = b
    BY <1>6, <1>7, <2>1
  <2> QED
    BY <1>8, <2>1 DEF Injection, IsInjective
<1>10. IsFiniteSet(1..N) /\ Cardinality(1..N) = N
  BY <1>1, FS_Interval
<1>11. s \in Surjection(1..N, rows)
  BY <1>1, <1>9, <1>10, FS_Injection DEF N
<1>12. s \in [1..N -> db]
  BY <1>8 DEF rows, Rows
<1>13. s \in Seq(db)
  BY <1>1, <1>12, FunctionIsSeq
<1>14. \A row \in rows : \E k \in 1..N : s[k] = row
  BY <1>11 DEF Surjection
<1> QED
  BY <1>8, <1>13, <1>14 DEF s, rows

\* The lines of a dump of db, up to some table.
IsPart(lines, db) ==
  /\ lines \in Seq({Header} \cup db)
  /\ Len(lines) \in Nat \ {0}
  /\ lines[1] = Header
  /\ \A k \in 2..Len(lines) : lines[k] \in db

BodyHas(lines, row) == \E k \in 2..Len(lines) : lines[k] = row

LEMMA PartGrows ==
  ASSUME NEW db, NEW lines, IsPart(lines, db), NEW rows \in Seq(db)
  PROVE  /\ IsPart(lines \o rows, db)
         /\ \A row : BodyHas(lines, row) => BodyHas(lines \o rows, row)
         /\ \A k \in DOMAIN rows : BodyHas(lines \o rows, rows[k])
<1> DEFINE both == lines \o rows
           L == {Header} \cup db
<1>1. lines \in Seq(L) /\ Len(lines) \in Nat \ {0}
  BY DEF IsPart
<1>2. Len(rows) \in Nat /\ DOMAIN rows = 1..Len(rows) /\ \A k \in 1..Len(rows) : rows[k] \in db
  BY LenProperties, ElementOfSeq
<1>3. rows \in Seq(L)
  BY <1>2, LenProperties, SeqDef
<1> HIDE DEF L
<1>4. /\ both \in Seq(L) /\ Len(both) = Len(lines) + Len(rows)
      /\ \A k \in 1..(Len(lines) + Len(rows)) :
           both[k] = IF k <= Len(lines) THEN lines[k] ELSE rows[k - Len(lines)]
  BY <1>1, <1>3, ConcatProperties
<1> HIDE DEF both
<1>5. \A k \in 1..Len(lines) : both[k] = lines[k]
  BY <1>1, <1>2, <1>4
<1>6. \A k \in 1..Len(rows) : both[Len(lines) + k] = rows[k] /\ Len(lines) + k \in 2..Len(both)
  BY <1>1, <1>2, <1>4
<1>7. \A k \in 2..Len(both) : both[k] \in db
  <2> TAKE k \in 2..Len(both)
  <2>1. CASE k <= Len(lines)
    BY <1>1, <1>5, <2>1 DEF IsPart
  <2>2. CASE ~(k <= Len(lines))
    <3>1. k - Len(lines) \in 1..Len(rows) /\ k \in 1..(Len(lines) + Len(rows))
      BY <1>1, <1>2, <1>4, <2>2
    <3> QED
      BY <1>2, <1>4, <2>2, <3>1
  <2> QED
    BY <2>1, <2>2
<1>8. IsPart(both, db)
  BY <1>1, <1>2, <1>4, <1>5, <1>7 DEF IsPart, L
<1>9. \A row : BodyHas(lines, row) => BodyHas(both, row)
  BY <1>1, <1>2, <1>4, <1>5 DEF BodyHas
<1>10. \A k \in DOMAIN rows : BodyHas(both, rows[k])
  BY <1>2, <1>6 DEF BodyHas
<1> QED
  BY <1>8, <1>9, <1>10 DEF both

\* What is written of a dump of db before its n-th table.
SoFar(db, n) ==
  CASE n = 1 -> <<Header>>
    [] n = 2 -> <<Header>> \o InOrder("setting", db)
    [] n = 3 -> <<Header>> \o InOrder("setting", db) \o InOrder("issue", db)
    [] n = 4 -> <<Header>> \o InOrder("setting", db) \o InOrder("issue", db)
                  \o InOrder("event", db)

LEMMA SoFarIs ==
  ASSUME NEW db, IsDatabase(db)
  PROVE  /\ \A n \in 1..4 : IsPart(SoFar(db, n), db)
         /\ \A n \in 1..3 : SoFar(db, n + 1) = SoFar(db, n) \o InOrder(Tables[n], db)
         /\ \A row : row \in db <=> BodyHas(SoFar(db, 4), row)
         /\ DumpOf(db) = Append(SoFar(db, 4), End(SoFar(db, 4)))
<1>1. \A table \in {"setting", "issue", "event"} :
        /\ InOrder(table, db) \in Seq(db)
        /\ \A row \in Rows(table, db) :
             \E k \in DOMAIN InOrder(table, db) : InOrder(table, db)[k] = row
  BY InOrderIs
<1> DEFINE S == InOrder("setting", db)
           I == InOrder("issue", db)
           E == InOrder("event", db)
<1>2. S \in Seq(db) /\ I \in Seq(db) /\ E \in Seq(db)
  BY <1>1
<1>3. /\ \A row \in Rows("setting", db) : \E k \in DOMAIN S : S[k] = row
      /\ \A row \in Rows("issue", db) : \E k \in DOMAIN I : I[k] = row
      /\ \A row \in Rows("event", db) : \E k \in DOMAIN E : E[k] = row
  BY <1>1
<1>4. /\ SoFar(db, 1) = <<Header>> /\ SoFar(db, 2) = SoFar(db, 1) \o S
      /\ SoFar(db, 3) = SoFar(db, 2) \o I /\ SoFar(db, 4) = SoFar(db, 3) \o E
  BY DEF SoFar
<1>5. DumpOf(db) = Append(SoFar(db, 4), End(SoFar(db, 4)))
  BY DEF DumpOf, SoFar
<1>6. Tables[1] = "setting" /\ Tables[2] = "issue" /\ Tables[3] = "event"
  BY DEF Tables
<1>7. \A n \in 1..3 : SoFar(db, n + 1) = SoFar(db, n) \o InOrder(Tables[n], db)
  <2>1. 1 + 1 = 2 /\ 2 + 1 = 3 /\ 3 + 1 = 4
    OBVIOUS
  <2>2. \A n \in 1..3 : n = 1 \/ n = 2 \/ n = 3
    OBVIOUS
  <2> QED
    BY <1>4, <1>6, <2>1, <2>2
<1> HIDE DEF S, I, E
<1>8. IsPart(SoFar(db, 1), db)
  <2>1. <<Header>> \in Seq({Header} \cup db) /\ Len(<<Header>>) = 1 /\ <<Header>>[1] = Header
    OBVIOUS
  <2>2. \A k : k \notin 2..1
    OBVIOUS
  <2>3. IsPart(<<Header>>, db)
    BY <2>1, <2>2 DEF IsPart
  <2> QED
    BY <1>4, <2>3
<1>9. /\ IsPart(SoFar(db, 2), db)
      /\ \A k \in DOMAIN S : BodyHas(SoFar(db, 2), S[k])
  BY <1>2, <1>4, <1>8, PartGrows
<1>10. /\ IsPart(SoFar(db, 3), db)
       /\ \A row : BodyHas(SoFar(db, 2), row) => BodyHas(SoFar(db, 3), row)
       /\ \A k \in DOMAIN I : BodyHas(SoFar(db, 3), I[k])
  BY <1>2, <1>4, <1>9, PartGrows
<1>11. /\ IsPart(SoFar(db, 4), db)
       /\ \A row : BodyHas(SoFar(db, 3), row) => BodyHas(SoFar(db, 4), row)
       /\ \A k \in DOMAIN E : BodyHas(SoFar(db, 4), E[k])
  BY <1>2, <1>4, <1>10, PartGrows
<1>12. \A row \in db : BodyHas(SoFar(db, 4), row)
  <2> TAKE row \in db
  <2>1. row \in Rows("setting", db) \/ row \in Rows("issue", db) \/ row \in Rows("event", db)
    BY DEF IsDatabase, IsRow, Rows
  <2> QED
    BY <1>3, <1>9, <1>10, <1>11, <2>1
<1>13. \A row : BodyHas(SoFar(db, 4), row) => row \in db
  BY <1>11 DEF IsPart, BodyHas
<1>14. \A n \in 1..4 : IsPart(SoFar(db, n), db)
  <2>1. \A n \in 1..4 : n = 1 \/ n = 2 \/ n = 3 \/ n = 4
    OBVIOUS
  <2> QED
    BY <1>8, <1>9, <1>10, <1>11, <2>1
<1> QED
  BY <1>5, <1>7, <1>12, <1>13, <1>14

\* What a dump may turn into on its way.
LEMMA DamagedIs ==
  ASSUME NEW L, NEW c \in Seq(L), NEW lines \in Damaged(c)
  PROVE  /\ \E T : lines \in Seq(T)
         /\ \/ /\ Len(lines) <= Len(c)
               /\ \A i \in 1..Len(lines) : lines[i] = c[i]
            \/ /\ Len(lines) \in 1..Len(c) /\ lines[Len(lines)] = Torn
               /\ \A i \in 1..(Len(lines) - 1) : lines[i] = c[i]
            \/ \E k \in 1..Len(c) :
                 /\ Len(lines) = Len(c) - 1
                 /\ \A i \in 1..Len(lines) : lines[i] = IF i < k THEN c[i] ELSE c[i + 1]
            \/ \E k \in 1..Len(c) :
                 /\ Len(lines) = Len(c)
                 /\ \A i \in 1..Len(c) : i # k => lines[i] = c[i]
                 /\ "version" \in DOMAIN c[k] /\ DOMAIN lines[k] = DOMAIN c[k]
                 /\ lines[k].version = c[k].version + 1
            \/ /\ Len(lines) = Len(c) + Len(c)
               /\ \A i \in 1..Len(lines) :
                    lines[i] = IF i <= Len(c) THEN c[i] ELSE c[i - Len(c)]
<1>1. Len(c) \in Nat /\ DOMAIN c = 1..Len(c) /\ \A i \in 1..Len(c) : c[i] \in L
  BY LenProperties, ElementOfSeq
<1>2. \A n \in 0..Len(c) :
        /\ SubSeq(c, 1, n) \in Seq(L) /\ Len(SubSeq(c, 1, n)) = n
        /\ \A i \in 1..n : SubSeq(c, 1, n)[i] = c[i]
  BY <1>1, SubSeqProperties, SMTT(20)
<1>3. ASSUME NEW n \in 0..Len(c), lines = SubSeq(c, 1, n)
      PROVE  /\ \E T : lines \in Seq(T)
             /\ Len(lines) <= Len(c) /\ \A i \in 1..Len(lines) : lines[i] = c[i]
  BY <1>1, <1>2, <1>3
<1>4. ASSUME NEW n \in 0..(Len(c) - 1), lines = Append(SubSeq(c, 1, n), Torn)
      PROVE  /\ \E T : lines \in Seq(T)
             /\ Len(lines) \in 1..Len(c) /\ lines[Len(lines)] = Torn
             /\ \A i \in 1..(Len(lines) - 1) : lines[i] = c[i]
  <2> DEFINE s == SubSeq(c, 1, n)
             T == L \cup {Torn}
  <2>1. n \in 0..Len(c)
    BY <1>1
  <2>2. s \in Seq(L) /\ Len(s) = n /\ \A i \in 1..n : s[i] = c[i]
    BY <1>2, <2>1
  <2>3. s \in Seq(T) /\ Torn \in T
    <3>1. DOMAIN s = 1..n /\ \A i \in 1..n : s[i] \in L
      BY <2>2, LenProperties, ElementOfSeq
    <3> QED
      BY <2>1, <2>2, <3>1, SeqDef
  <2> HIDE DEF s, T
  <2>4. /\ Append(s, Torn) \in Seq(T) /\ Len(Append(s, Torn)) = n + 1
        /\ Append(s, Torn)[n + 1] = Torn
        /\ \A i \in 1..n : Append(s, Torn)[i] = s[i]
    BY <2>2, <2>3, AppendProperties
  <2> QED
    BY <1>1, <1>4, <2>1, <2>2, <2>4 DEF s
<1>5. ASSUME NEW k \in DOMAIN c, lines = RemoveAt(c, k)
      PROVE  /\ lines \in Seq(L)
             /\ Len(lines) = Len(c) - 1
             /\ \A i \in 1..Len(lines) : lines[i] = IF i < k THEN c[i] ELSE c[i + 1]
  BY <1>1, <1>5, RemoveAtIs
<1>6. ASSUME NEW k \in DOMAIN c, "version" \in DOMAIN c[k],
             lines = [c EXCEPT ![k].version = @ + 1]
      PROVE  /\ \E T : lines \in Seq(T)
             /\ Len(lines) = Len(c)
             /\ \A i \in 1..Len(c) : i # k => lines[i] = c[i]
             /\ DOMAIN lines[k] = DOMAIN c[k] /\ lines[k].version = c[k].version + 1
  <2> DEFINE line == [c[k] EXCEPT !.version = @ + 1]
             T == L \cup {line}
  <2>1. lines = [i \in 1..Len(c) |-> IF i = k THEN line ELSE c[i]]
    BY <1>1, <1>6
  <2>2. DOMAIN line = DOMAIN c[k] /\ line.version = c[k].version + 1
    BY <1>6
  <2> HIDE DEF line
  <2>3. lines \in [1..Len(c) -> T]
    BY <1>1, <2>1
  <2> HIDE DEF T
  <2>4. lines \in Seq(T) /\ Len(lines) = Len(c)
    BY <1>1, <2>3, FunctionIsSeq
  <2> QED
    BY <1>1, <2>1, <2>2, <2>4
<1>7. ASSUME lines = c \o c
      PROVE  /\ lines \in Seq(L)
             /\ Len(lines) = Len(c) + Len(c)
             /\ \A i \in 1..Len(lines) : lines[i] = IF i <= Len(c) THEN c[i] ELSE c[i - Len(c)]
  BY <1>1, <1>7, ConcatProperties
<1>8. \/ \E n \in 0..Len(c) : lines = SubSeq(c, 1, n)
      \/ \E n \in 0..(Len(c) - 1) : lines = Append(SubSeq(c, 1, n), Torn)
      \/ \E k \in DOMAIN c : lines = RemoveAt(c, k)
      \/ \E k \in DOMAIN c : "version" \in DOMAIN c[k] /\ lines = [c EXCEPT ![k].version = @ + 1]
      \/ lines = c \o c
  BY DEF Damaged, Cut
<1>9. CASE \E n \in 0..Len(c) : lines = SubSeq(c, 1, n)
  BY <1>3, <1>9
<1>10. CASE \E n \in 0..(Len(c) - 1) : lines = Append(SubSeq(c, 1, n), Torn)
  BY <1>4, <1>10
<1>11. CASE \E k \in DOMAIN c : lines = RemoveAt(c, k)
  BY <1>1, <1>5, <1>11
<1>12. CASE \E k \in DOMAIN c : "version" \in DOMAIN c[k] /\ lines = [c EXCEPT ![k].version = @ + 1]
  BY <1>1, <1>6, <1>12
<1>13. CASE lines = c \o c
  BY <1>7, <1>13
<1> QED
  BY <1>8, <1>9, <1>10, <1>11, <1>12, <1>13


LEMMA LinesApart ==
  /\ \A row : IsRow(row) => /\ DOMAIN row # {"counts", "sum"} /\ DOMAIN row # {"version", "schema"}
                            /\ "version" \in DOMAIN row => row.version \in Nat
  /\ DOMAIN Header = {"version", "schema"} /\ Header.version = 3
  /\ DOMAIN Header # {"counts", "sum"}
  /\ DOMAIN Torn # {"counts", "sum"} /\ DOMAIN Torn # {"version", "schema"}
  /\ \A lines : /\ DOMAIN End(lines) = {"counts", "sum"} /\ End(lines).sum = lines
                /\ "version" \notin DOMAIN End(lines) /\ DOMAIN End(lines) # {"version", "schema"}
<1>1. {"counts", "sum"} # {"version", "schema"}
  OBVIOUS
<1>2. \A row : IsRow(row) => DOMAIN row # {"counts", "sum"} /\ DOMAIN row # {"version", "schema"}
  BY DEF IsRow
<1>3. \A row : IsRow(row) => ("version" \in DOMAIN row => row.version \in Nat)
  BY DEF IsRow
<1>4. DOMAIN Header = {"version", "schema"} /\ Header.version = 3
  BY DEF Header
<1>5. DOMAIN Torn = {"torn"}
  BY DEF Torn
<1>6. {"torn"} # {"counts", "sum"} /\ {"torn"} # {"version", "schema"}
  OBVIOUS
<1>7. \A lines : DOMAIN End(lines) = {"counts", "sum"} /\ End(lines).sum = lines
  BY DEF End
<1> QED
  BY <1>1, <1>2, <1>3, <1>4, <1>5, <1>6, <1>7

\* No damage makes a dump pass for one without an end record.
LEMMA SealStays ==
  ASSUME NEW L, NEW c \in Seq(L),
         \A i \in 1..Len(c) : DOMAIN c[i] = {"version", "schema"} => c[i] = Header,
         NEW lines \in Damaged(c), HeaderRead(lines)
  PROVE  Sealed(lines)
<1>1. PICK T : lines \in Seq(T)
  BY DamagedIs
<1>2. Len(c) \in Nat /\ Len(lines) \in Nat \ {0}
  BY <1>1, LenProperties, EmptySeq DEF HeaderRead
<1>3. DOMAIN lines[1] = {"version", "schema"} /\ lines[1].version \in 1..3
  BY DEF HeaderRead
<1>4. ASSUME NEW i \in 1..Len(c), lines[1] = c[i] PROVE Sealed(lines)
  BY <1>3, <1>4, LinesApart DEF Sealed
<1>5. CASE Len(lines) <= Len(c) /\ \A i \in 1..Len(lines) : lines[i] = c[i]
  BY <1>2, <1>4, <1>5
<1>6. CASE /\ Len(lines) \in 1..Len(c) /\ lines[Len(lines)] = Torn
           /\ \A i \in 1..(Len(lines) - 1) : lines[i] = c[i]
  <2>1. Len(lines) # 1
    BY <1>3, <1>6, LinesApart
  <2>2. 1 \in 1..Len(c) /\ 1 \in 1..(Len(lines) - 1)
    <3>1. Len(lines) \in 1..Len(c)
      BY <1>6
    <3>2. \A x, y \in Nat : x \in 1..y /\ x # 0 /\ x # 1 => 1 \in 1..y /\ 1 \in 1..(x - 1)
      OBVIOUS
    <3>3. Len(lines) \in Nat /\ Len(lines) # 0 /\ Len(c) \in Nat
      BY <1>2
    <3> QED
      BY <2>1, <3>1, <3>2, <3>3
  <2> QED
    BY <1>4, <1>6, <2>2
<1>7. ASSUME NEW k \in 1..Len(c), Len(lines) = Len(c) - 1,
             \A i \in 1..Len(lines) : lines[i] = IF i < k THEN c[i] ELSE c[i + 1]
      PROVE  Sealed(lines)
  <2>1. lines[1] = c[1] \/ lines[1] = c[1 + 1]
    BY <1>2, <1>7
  <2>2. 1 \in 1..Len(c) /\ 1 + 1 \in 1..Len(c)
    BY <1>2, <1>7
  <2> QED
    BY <1>4, <2>1, <2>2
<1>8. ASSUME NEW k \in 1..Len(c), Len(lines) = Len(c),
             \A i \in 1..Len(c) : i # k => lines[i] = c[i],
             DOMAIN lines[k] = DOMAIN c[k], lines[k].version = c[k].version + 1
      PROVE  Sealed(lines)
  <2>1. CASE k = 1
    <3>1. lines[1].version = 3 + 1
      BY <1>2, <1>3, <1>8, <2>1, LinesApart
    <3> QED
      BY <1>3, <3>1
  <2>2. CASE k # 1
    BY <1>2, <1>4, <1>8, <2>2
  <2> QED
    BY <2>1, <2>2
<1>9. CASE /\ Len(lines) = Len(c) + Len(c)
           /\ \A i \in 1..Len(lines) : lines[i] = IF i <= Len(c) THEN c[i] ELSE c[i - Len(c)]
  <2>1. 1 \in 1..Len(c) /\ lines[1] = c[1]
    BY <1>2, <1>9
  <2> QED
    BY <1>4, <2>1
<1> QED
  BY <1>5, <1>6, <1>7, <1>8, <1>9, DamagedIs

LEMMA WholeIs ==
  ASSUME NEW T, NEW lines \in Seq(T), lines # << >>, Whole(lines)
  PROVE  /\ DOMAIN lines[Len(lines)] = {"counts", "sum"}
         /\ Len(lines[Len(lines)].sum) = Len(lines) - 1
         /\ \A i \in 1..(Len(lines) - 1) : lines[Len(lines)].sum[i] = lines[i]
<1> DEFINE m == Len(lines)
<1>1. m \in Nat \ {0} /\ \A i \in 1..m : lines[i] \in T
  BY LenProperties, EmptySeq, ElementOfSeq
<1>2. DOMAIN lines[m] = {"counts", "sum"} /\ lines[m] = End(SubSeq(lines, 1, m - 1))
  BY DEF Whole, EndMatches
<1>3. lines[m].sum = SubSeq(lines, 1, m - 1)
  BY <1>2, LinesApart
<1>4. /\ Len(SubSeq(lines, 1, m - 1)) = m - 1
      /\ \A i \in 1..(m - 1) : SubSeq(lines, 1, m - 1)[i] = lines[i]
  <2>1. \A i \in 1..(m - 1) : lines[i] \in T
    BY <1>1
  <2> HIDE DEF m
  <2> QED
    BY <1>1, <2>1, SubSeqProperties, SMTT(20)
<1> QED
  BY <1>2, <1>3, <1>4

LEMMA BroughtIs ==
  ASSUME NEW T, NEW lines \in Seq(T), lines # << >>, Sealed(lines)
  PROVE  Brought(lines) = {lines[k] : k \in 2..(Len(lines) - 1)}
<1> DEFINE m == Len(lines)
           s == SubSeq(lines, 2, m - 1)
<1>1. m \in Nat \ {0} /\ \A i \in 1..m : lines[i] \in T
  BY LenProperties, EmptySeq, ElementOfSeq
<1>2. /\ s \in Seq(T) /\ Len(s) = IF 2 <= m - 1 THEN (m - 1) - 2 + 1 ELSE 0
      /\ \A i \in 1..((m - 1) - 2 + 1) : s[i] = lines[2 + i - 1]
  <2>1. \A i \in 2..(m - 1) : lines[i] \in T
    BY <1>1
  <2> HIDE DEF m
  <2> QED
    BY <1>1, <2>1, SubSeqProperties, SMTT(20) DEF s
<1>3. Brought(lines) = {s[k] : k \in DOMAIN s}
  BY DEF Brought, Body
<1> HIDE DEF m, s
<1>4. DOMAIN s = 1..(m - 2)
  <2>1. DOMAIN s = 1..Len(s)
    BY <1>2, LenProperties
  <2>2. CASE 2 <= m - 1
    BY <1>1, <1>2, <2>1, <2>2
  <2>3. CASE ~(2 <= m - 1)
    <3>1. 1..(m - 2) = {} /\ 1..Len(s) = {}
      BY <1>1, <1>2, <2>3
    <3> QED
      BY <2>1, <3>1
  <2> QED
    BY <2>2, <2>3
<1>5. \A k \in 1..(m - 2) : s[k] = lines[k + 1]
  BY <1>1, <1>2
<1>6. \A k \in 1..(m - 2) : k + 1 \in 2..(m - 1)
  BY <1>1
<1>7. \A k \in 2..(m - 1) : k - 1 \in 1..(m - 2) /\ (k - 1) + 1 = k
  BY <1>1
<1>8. \A row : (\E k \in 1..(m - 2) : s[k] = row) <=> (\E k \in 2..(m - 1) : lines[k] = row)
  BY <1>5, <1>6, <1>7
<1> QED
  BY <1>3, <1>4, <1>8 DEF m

\* A dump whose end record was never written is not whole, whatever happens to it.
LEMMA EndMissing ==
  ASSUME NEW L, NEW c \in Seq(L),
         \A i \in 1..Len(c) : DOMAIN c[i] # {"counts", "sum"},
         NEW lines \in Damaged(c), lines # << >>
  PROVE  ~Whole(lines)
<1> DEFINE m == Len(lines)
<1>1. PICK T : lines \in Seq(T)
  BY DamagedIs
<1>2. Len(c) \in Nat /\ m \in Nat \ {0}
  BY <1>1, LenProperties, EmptySeq
<1>3. Whole(lines) => DOMAIN lines[m] = {"counts", "sum"}
  BY DEF Whole
<1>4. ASSUME NEW i \in 1..Len(c), DOMAIN lines[m] = DOMAIN c[i] PROVE ~Whole(lines)
  BY <1>3, <1>4
<1> HIDE DEF m
<1>5. CASE m <= Len(c) /\ \A i \in 1..m : lines[i] = c[i]
  BY <1>2, <1>4, <1>5
<1>6. CASE lines[m] = Torn
  BY <1>3, <1>6, LinesApart
<1>7. ASSUME NEW k \in 1..Len(c), m = Len(c) - 1,
             \A i \in 1..m : lines[i] = IF i < k THEN c[i] ELSE c[i + 1]
      PROVE  ~Whole(lines)
  <2> DEFINE n == Len(c)
  <2>1. m \in 1..m /\ m \in 1..n /\ m + 1 \in 1..n
    <3>1. n \in Nat /\ m \in Nat \ {0} /\ m = n - 1
      BY <1>2, <1>7
    <3> HIDE DEF n
    <3> QED
      BY <3>1
  <2>2. lines[m] = IF m < k THEN c[m] ELSE c[m + 1]
    BY <1>7, <2>1
  <2>3. lines[m] = c[m] \/ lines[m] = c[m + 1]
    BY <2>2
  <2> QED
    BY <1>4, <2>1, <2>3
<1>8. ASSUME NEW k \in 1..Len(c), m = Len(c),
             \A i \in 1..Len(c) : i # k => lines[i] = c[i],
             DOMAIN lines[k] = DOMAIN c[k]
      PROVE  ~Whole(lines)
  <2>1. DOMAIN lines[m] = DOMAIN c[m] /\ m \in 1..Len(c)
    BY <1>2, <1>8
  <2> QED
    BY <1>4, <2>1
<1>9. CASE /\ m = Len(c) + Len(c)
           /\ \A i \in 1..m : lines[i] = IF i <= Len(c) THEN c[i] ELSE c[i - Len(c)]
  <2>1. Len(c) \in 1..Len(c) /\ ~(m <= Len(c)) /\ m - Len(c) = Len(c)
    BY <1>2, <1>9
  <2>2. lines[m] = c[Len(c)]
    BY <1>2, <1>9, <2>1
  <2> QED
    BY <1>4, <2>1, <2>2
<1> QED
  BY <1>5, <1>6, <1>7, <1>8, <1>9, DamagedIs DEF m

\* A whole dump is the one that was written.
LEMMA WholeSame ==
  ASSUME NEW db, NEW b, IsDatabase(db), IsPart(b, db),
         NEW lines \in Damaged(Append(b, End(b))), lines # << >>, Whole(lines)
  PROVE  Len(lines) = Len(b) + 1 /\ \A i \in 1..Len(b) : lines[i] = b[i]
<1> DEFINE c == Append(b, End(b))
           L == ({Header} \cup db) \cup {End(b)}
           m == Len(lines)
           n == Len(b)
<1>1. n \in Nat \ {0} /\ b[1] = Header /\ \A k \in 2..n : b[k] \in db
  BY DEF IsPart
<1>2. \A i \in 1..n : DOMAIN b[i] # {"counts", "sum"}
                      /\ ("version" \in DOMAIN b[i] => b[i].version \in Int)
  <2> TAKE i \in 1..n
  <2>1. b[i] = Header \/ IsRow(b[i])
    <3>1. i = 1 \/ i \in 2..n
      BY <1>1
    <3> QED
      BY <1>1, <3>1 DEF IsDatabase
  <2>2. \A j \in Nat : j \in Int
    OBVIOUS
  <2> QED
    BY <2>1, <2>2, LinesApart
<1>3. c \in Seq(L) /\ Len(c) = n + 1 /\ c[n + 1] = End(b) /\ \A i \in 1..n : c[i] = b[i]
  <2>1. b \in Seq(L)
    <3>1. b \in Seq({Header} \cup db)
      BY DEF IsPart
    <3>2. DOMAIN b = 1..n /\ \A i \in 1..n : b[i] \in L
      BY <3>1, LenProperties, ElementOfSeq
    <3> QED
      BY <1>1, <3>1, <3>2, LenProperties, SeqDef
  <2>2. End(b) \in L
    OBVIOUS
  <2> HIDE DEF L
  <2> QED
    BY <1>1, <2>1, <2>2, AppendProperties
<1> HIDE DEF L
<1>4. PICK T : lines \in Seq(T)
  BY <1>3, DamagedIs
<1>5. m \in Nat \ {0}
  BY <1>4, LenProperties, EmptySeq
<1>6. /\ DOMAIN lines[m] = {"counts", "sum"} /\ Len(lines[m].sum) = m - 1
      /\ \A i \in 1..(m - 1) : lines[m].sum[i] = lines[i]
  BY <1>4, WholeIs
<1>7. \A i \in 1..n : DOMAIN lines[m] # DOMAIN b[i]
  BY <1>2, <1>6
<1>8. lines[m] = End(b) => n = m - 1 /\ \A i \in 1..(m - 1) : b[i] = lines[i]
  BY <1>6, LinesApart
<1>9. lines \in Damaged(c) /\ Len(lines) = m
  OBVIOUS
<1> HIDE DEF c, m, n
<1>10. \/ /\ m <= n + 1
          /\ \A i \in 1..m : lines[i] = c[i]
       \/ lines[m] = Torn
       \/ \E k \in 1..(n + 1) :
            /\ m = (n + 1) - 1
            /\ \A i \in 1..m : lines[i] = IF i < k THEN c[i] ELSE c[i + 1]
       \/ \E k \in 1..(n + 1) :
            /\ m = n + 1
            /\ \A i \in 1..(n + 1) : i # k => lines[i] = c[i]
            /\ "version" \in DOMAIN c[k]
            /\ lines[k].version = c[k].version + 1
       \/ /\ m = (n + 1) + (n + 1)
          /\ \A i \in 1..m : lines[i] = IF i <= n + 1 THEN c[i] ELSE c[i - (n + 1)]
  <2>1. \/ /\ Len(lines) <= Len(c)
           /\ \A i \in 1..Len(lines) : lines[i] = c[i]
        \/ lines[Len(lines)] = Torn
        \/ \E k \in 1..Len(c) :
             /\ Len(lines) = Len(c) - 1
             /\ \A i \in 1..Len(lines) : lines[i] = IF i < k THEN c[i] ELSE c[i + 1]
        \/ \E k \in 1..Len(c) :
             /\ Len(lines) = Len(c)
             /\ \A i \in 1..Len(c) : i # k => lines[i] = c[i]
             /\ "version" \in DOMAIN c[k]
             /\ lines[k].version = c[k].version + 1
        \/ /\ Len(lines) = Len(c) + Len(c)
           /\ \A i \in 1..Len(lines) :
                lines[i] = IF i <= Len(c) THEN c[i] ELSE c[i - Len(c)]
    BY <1>3, <1>9, DamagedIs
  <2> QED
    BY <1>3, <1>9, <2>1
<1>11. CASE m <= n + 1 /\ \A i \in 1..m : lines[i] = c[i]
  <2>1. ~(m <= n)
    BY <1>3, <1>5, <1>7, <1>11
  <2> QED
    BY <1>1, <1>3, <1>5, <1>11, <2>1 DEF m, n
<1>12. CASE lines[m] = Torn
  BY <1>6, <1>12, LinesApart
<1>13. ASSUME NEW k \in 1..(n + 1), m = (n + 1) - 1,
              \A i \in 1..m : lines[i] = IF i < k THEN c[i] ELSE c[i + 1]
       PROVE  FALSE
  <2>1. m = n /\ m \in 1..n
    BY <1>1, <1>13
  <2>2. lines[m] = c[m] \/ lines[m] = c[m + 1]
    BY <1>13, <2>1
  <2>3. lines[m] = b[m] \/ lines[m] = End(b)
    BY <1>3, <2>1, <2>2
  <2> QED
    BY <1>1, <1>7, <1>8, <2>1, <2>3
<1>14. ASSUME NEW k \in 1..(n + 1), m = n + 1,
              \A i \in 1..(n + 1) : i # k => lines[i] = c[i],
              "version" \in DOMAIN c[k], lines[k].version = c[k].version + 1
       PROVE  FALSE
  <2>1. k # n + 1
    BY <1>3, <1>14, LinesApart
  <2>2. k \in 1..n /\ k \in 1..(m - 1) /\ m \in 1..(n + 1) /\ m # k
    BY <1>1, <1>14, <2>1
  <2>3. lines[m] = End(b)
    BY <1>3, <1>14, <2>2
  <2>4. lines[k] = b[k] /\ c[k] = b[k]
    BY <1>3, <1>8, <2>2, <2>3
  <2>5. b[k].version \in Int /\ b[k].version = b[k].version + 1
    BY <1>2, <1>14, <2>2, <2>4
  <2> QED
    BY <2>5
<1>15. ASSUME m = (n + 1) + (n + 1),
              \A i \in 1..m : lines[i] = IF i <= n + 1 THEN c[i] ELSE c[i - (n + 1)]
       PROVE  FALSE
  <2>1. m \in 1..m /\ ~(m <= n + 1) /\ m - (n + 1) = n + 1
    BY <1>1, <1>15
  <2>2. lines[m] = End(b)
    BY <1>3, <1>15, <2>1
  <2> QED
    BY <1>1, <1>8, <1>15, <2>2
<1> QED
  BY <1>10, <1>11, <1>12, <1>13, <1>14, <1>15


(***************************************************************************)
(* Dumps: what is written into the files.                                  *)
(***************************************************************************)

\* A file is empty, or it has a dump of one moment, whole or up to a table.
Content(lines) ==
  \/ lines = << >>
  \/ \E db \in moments : lines = DumpOf(db) \/ \E n \in 1..4 : lines = SoFar(db, n)

HoldsFile(e) == exports[e].at \in {"opened", "reading", "synced", "linked"}

ExportInv(e) ==
  /\ exports[e].at \in {"off", "looked"} \/ HoldsFile(e)
  /\ exports[e].at = "looked" => exports[e].to = "partial"
  /\ exports[e].at \in {"opened", "reading"} =>
       exports[e].to \in {"stdout", "partial"} /\ exports[e].to \in DOMAIN disk
  /\ exports[e].at = "reading" =>
       /\ "table" \in DOMAIN exports[e] /\ exports[e].table \in 1..4
       /\ exports[e].sees \in moments
       /\ disk[exports[e].to] = SoFar(exports[e].sees, exports[e].table)
  /\ exports[e].at \in {"synced", "linked"} =>
       /\ exports[e].to = "partial" /\ "partial" \in DOMAIN disk
       /\ \E db \in moments : disk["partial"] = DumpOf(db)

FilesInv ==
  /\ DOMAIN exports = Exports
  /\ \A p \in DOMAIN disk : Content(disk[p])
  /\ \A e \in Exports : ExportInv(e)
  /\ \A e, f \in Exports :
       HoldsFile(e) /\ HoldsFile(f) /\ exports[e].to = exports[f].to => e = f
  /\ PublishedIsOneMoment

RowsInv ==
  /\ DOMAIN dbs = Databases /\ DOMAIN loaded = Databases
  /\ \A db \in moments : IsDatabase(db)
  /\ \A d \in Databases : dbs[d] \in moments
  /\ ImportedIsExported

\* Whatever an operator imports is a dump of an older trackd, or what was a
\* dump of this one: with its end record it is one of a moment, whole.
LEMMA TravelledIs ==
  ASSUME \A db \in moments : IsDatabase(db), \A p \in DOMAIN disk : Content(disk[p]),
         NEW lines \in Travelled, HeaderRead(lines)
  PROVE  \/ Sealed(lines) /\ (Whole(lines) => Brought(lines) \in moments)
         \/ lines \in OtherDumps /\ ~Sealed(lines)
<1>1. CASE lines \in OtherDumps
  BY <1>1, OtherDumpAssumption
<1>2. ASSUME NEW p \in DOMAIN disk, lines \in Damaged(disk[p])
      PROVE  Sealed(lines) /\ (Whole(lines) => Brought(lines) \in moments)
  <2>0. lines # << >>
    BY DEF HeaderRead
  <2>1. ASSUME disk[p] = << >> PROVE FALSE
    <3>1. << >> \in Seq({Header}) /\ Len(<< >>) = 0
      OBVIOUS
    <3>2. PICK T : lines \in Seq(T)
      BY <1>2, <2>1, <3>1, DamagedIs
    <3>3. Len(lines) \in Nat \ {0}
      BY <2>0, <3>2, LenProperties, EmptySeq
    <3> DEFINE c == << >>
    <3>4. c \in Seq({Header}) /\ Len(c) = 0 /\ lines \in Damaged(c)
      BY <1>2, <2>1, <3>1
    <3> HIDE DEF c
    <3>5. \/ Len(lines) <= Len(c)
          \/ Len(lines) \in 1..Len(c)
          \/ \E k \in 1..Len(c) : TRUE
          \/ Len(lines) = Len(c) + Len(c)
      BY <3>4, DamagedIs
    <3> QED
      BY <3>3, <3>4, <3>5
  <2>2. ASSUME NEW db \in moments, NEW n \in 1..4, disk[p] = SoFar(db, n)
        PROVE  Sealed(lines) /\ ~Whole(lines)
    <3> DEFINE c == SoFar(db, n)
               L == {Header} \cup db
    <3>1. IsDatabase(db) /\ IsPart(c, db)
      BY SoFarIs
    <3>2. c \in Seq(L)
      BY <3>1 DEF IsPart
    <3>3. \A i \in 1..Len(c) : c[i] = Header \/ IsRow(c[i])
      <4> TAKE i \in 1..Len(c)
      <4>1. i = 1 \/ i \in 2..Len(c)
        BY <3>1 DEF IsPart
      <4> QED
        BY <3>1, <4>1 DEF IsPart, IsDatabase
    <3>4. \A i \in 1..Len(c) : DOMAIN c[i] # {"counts", "sum"}
                               /\ (DOMAIN c[i] = {"version", "schema"} => c[i] = Header)
      BY <3>3, LinesApart
    <3>5. lines \in Damaged(c)
      BY <1>2, <2>2
    <3> HIDE DEF c, L
    <3> QED
      BY <2>0, <3>2, <3>4, <3>5, SealStays, EndMissing
  <2>3. ASSUME NEW db \in moments, disk[p] = DumpOf(db)
        PROVE  Sealed(lines) /\ (Whole(lines) => Brought(lines) \in moments)
    <3> DEFINE b == SoFar(db, 4)
               c == Append(b, End(b))
               L == ({Header} \cup db) \cup {End(b)}
    <3>1. IsDatabase(db) /\ IsPart(b, db) /\ (\A row : row \in db <=> BodyHas(b, row))
          /\ DumpOf(db) = c
      BY SoFarIs
    <3>2. lines \in Damaged(c)
      BY <1>2, <2>3, <3>1
    <3>3. b \in Seq(L) /\ Len(b) \in Nat \ {0} /\ End(b) \in L
      <4>1. b \in Seq({Header} \cup db) /\ Len(b) \in Nat \ {0}
        BY <3>1 DEF IsPart
      <4>2. DOMAIN b = 1..Len(b) /\ \A i \in 1..Len(b) : b[i] \in L
        BY <4>1, LenProperties, ElementOfSeq
      <4> QED
        BY <4>1, <4>2, LenProperties, SeqDef
    <3> HIDE DEF L, b
    <3>4. c \in Seq(L) /\ Len(c) = Len(b) + 1 /\ c[Len(b) + 1] = End(b)
          /\ \A i \in 1..Len(b) : c[i] = b[i]
      BY <3>3, AppendProperties
    <3> HIDE DEF c
    <3>5. \A i \in 1..Len(b) : b[i] = Header \/ IsRow(b[i])
      <4> TAKE i \in 1..Len(b)
      <4>1. i = 1 \/ i \in 2..Len(b)
        BY <3>3
      <4> QED
        BY <3>1, <4>1 DEF IsPart, IsDatabase
    <3>6. \A i \in 1..Len(c) : DOMAIN c[i] = {"version", "schema"} => c[i] = Header
      <4> TAKE i \in 1..Len(c)
      <4>1. i = Len(b) + 1 \/ i \in 1..Len(b)
        BY <3>3, <3>4
      <4>2. CASE i = Len(b) + 1
        BY <3>4, <4>2, LinesApart
      <4>3. CASE i \in 1..Len(b)
        <5>1. c[i] = Header \/ IsRow(c[i])
          BY <3>4, <3>5, <4>3
        <5> QED
          BY <5>1, LinesApart
      <4> QED
        BY <4>1, <4>2, <4>3
    <3>7. Sealed(lines)
      BY <3>2, <3>4, <3>6, SealStays
    <3>8. ASSUME Whole(lines) PROVE Brought(lines) = db
      <4>1. Len(lines) = Len(b) + 1 /\ \A i \in 1..Len(b) : lines[i] = b[i]
        BY <2>0, <3>1, <3>2, <3>8, WholeSame DEF c
      <4>2. \E T : lines \in Seq(T)
        BY <3>2, <3>4, DamagedIs
      <4>3. Brought(lines) = {lines[k] : k \in 2..(Len(lines) - 1)}
        BY <2>0, <3>7, <4>2, BroughtIs
      <4>4. 2..(Len(lines) - 1) = 2..Len(b) /\ \A k \in 2..Len(b) : k \in 1..Len(b)
        BY <3>3, <4>1
      <4>5. Brought(lines) = {b[k] : k \in 2..Len(b)}
        BY <4>1, <4>3, <4>4
      <4>6. \A row : row \in db <=> row \in {b[k] : k \in 2..Len(b)}
        BY <3>1 DEF BodyHas
      <4> QED
        BY <4>5, <4>6
    <3> QED
      BY <3>7, <3>8
  <2> QED
    BY <1>2, <2>1, <2>2, <2>3 DEF Content
<1> QED
  BY <1>1, <1>2 DEF Travelled


LEMMA StoresIs ==
  ASSUME NEW path, NEW lines, Stores(path, lines)
  PROVE  /\ DOMAIN disk' = DOMAIN disk \cup {path}
         /\ disk'[path] = lines
         /\ \A p \in DOMAIN disk : p # path => disk'[p] = disk[p]
  BY DEF Stores

LEMMA UnlinksIs ==
  ASSUME NEW path, Unlinks(path)
  PROVE  /\ DOMAIN disk' = DOMAIN disk \ {path}
         /\ \A p \in DOMAIN disk' : disk'[p] = disk[p]
  BY DEF Unlinks

\* An export's step touches no file another export holds.
LEMMA ExportMoves ==
  ASSUME FilesInv, moments' = moments, NEW e \in Exports, NEW export, Becomes(e, export),
         \A f \in Exports \ {e} : HoldsFile(f) =>
           exports[f].to \in DOMAIN disk' /\ disk'[exports[f].to] = disk[exports[f].to],
         ExportInv(e)',
         HoldsFile(e)' => \A f \in Exports \ {e} : HoldsFile(f) => exports[f].to # export.to,
         \A p \in DOMAIN disk' :
           Content(disk'[p]) \/ (p \in DOMAIN disk /\ disk'[p] = disk[p]),
         "out" \in DOMAIN disk' =>
           \/ \E db \in moments : disk'["out"] = DumpOf(db)
           \/ "out" \in DOMAIN disk /\ disk'["out"] = disk["out"]
  PROVE  FilesInv'
<1>1. /\ DOMAIN exports' = Exports /\ exports'[e] = export
      /\ \A f \in Exports \ {e} : exports'[f] = exports[f]
  BY DEF FilesInv, Becomes
<1>2. \A f \in Exports \ {e} : HoldsFile(f)' <=> HoldsFile(f)
  BY <1>1 DEF HoldsFile
<1>3. ASSUME NEW f \in Exports PROVE ExportInv(f)'
  <2>1. CASE f = e
    BY <2>1
  <2>2. CASE f # e
    <3>1. exports'[f] = exports[f] /\ ExportInv(f) /\ (HoldsFile(f)' <=> HoldsFile(f))
      BY <1>1, <1>2, <2>2 DEF FilesInv
    <3>2. HoldsFile(f) =>
            exports[f].to \in DOMAIN disk' /\ disk'[exports[f].to] = disk[exports[f].to]
      BY <2>2
    <3> QED
      BY <3>1, <3>2 DEF ExportInv, HoldsFile
  <2> QED
    BY <2>1, <2>2
<1>4. ASSUME NEW f \in Exports, NEW g \in Exports, HoldsFile(f)', HoldsFile(g)',
             exports'[f].to = exports'[g].to
      PROVE  f = g
  <2>1. CASE f = e /\ g # e
    BY <1>1, <1>2, <1>4, <2>1
  <2>2. CASE g = e /\ f # e
    BY <1>1, <1>2, <1>4, <2>2
  <2>3. CASE f # e /\ g # e
    BY <1>1, <1>2, <1>4, <2>3 DEF FilesInv
  <2> QED
    BY <2>1, <2>2, <2>3
<1>5. \A p \in DOMAIN disk' : Content(disk[p])'
  <2> TAKE p \in DOMAIN disk'
  <2>1. Content(disk'[p])
    BY DEF FilesInv
  <2> QED
    BY <2>1 DEF Content
<1>6. PublishedIsOneMoment'
  BY DEF FilesInv, PublishedIsOneMoment
<1> QED
  BY <1>1, <1>3, <1>4, <1>5, <1>6 DEF FilesInv


LEMMA ExportStep ==
  ASSUME FilesInv, RowsInv, NEW e \in Exports,
         \/ StartStdout(e) \/ StartOut(e) \/ CreatePartial(e)
         \/ \E d \in Databases : WriteHeader(e, d)
         \/ WriteTable(e) \/ WriteEnd(e)
         \/ Link(e) \/ RemovePartial(e) \/ FailExport(e) \/ KillExport(e)
  PROVE  FilesInv' /\ UNCHANGED <<dbs, loaded, renamed, moments>>
<1>1. UNCHANGED <<dbs, loaded, renamed, moments>>
  BY DEF StartStdout, StartOut, CreatePartial, WriteHeader, WriteTable, WriteEnd, Link,
     RemovePartial, FailExport, KillExport, Same
<1> SUFFICES FilesInv'
  BY <1>1
<1>2. DOMAIN exports = Exports /\ \A f \in Exports : ExportInv(f)
  BY DEF FilesInv
<1>3. \A f \in Exports : HoldsFile(f) =>
        /\ exports[f].to \in {"stdout", "partial"} /\ exports[f].to \in DOMAIN disk
        /\ exports[f].at # "off"
        /\ f # e /\ HoldsFile(e) => exports[f].to # exports[e].to
  BY DEF FilesInv, ExportInv, HoldsFile
<1>4. \A export : Becomes(e, export) => exports'[e] = export
  BY <1>2 DEF Becomes
<1>5. \A export : Becomes(e, export) /\ export.at = "off" => ExportInv(e)' /\ ~HoldsFile(e)'
  BY <1>4 DEF ExportInv, HoldsFile
<1>6. Off.at = "off"
  BY DEF Off
<1>7. \A path, lines : Stores(path, lines) =>
        /\ DOMAIN disk' = DOMAIN disk \cup {path} /\ disk'[path] = lines
        /\ \A p \in DOMAIN disk : p # path => disk'[p] = disk[p]
  BY StoresIs
<1>8. \A path : Unlinks(path) =>
        DOMAIN disk' = DOMAIN disk \ {path} /\ \A p \in DOMAIN disk' : disk'[p] = disk[p]
  BY UnlinksIs
<1>9. ASSUME UNCHANGED disk, NEW export, Becomes(e, export), export.at = "off"
      PROVE  FilesInv'
  BY <1>1, <1>3, <1>5, <1>9, ExportMoves
<1>10. CASE StartStdout(e)
  <2> DEFINE x == [at |-> "opened", to |-> "stdout"]
  <2>1. Stores("stdout", << >>) /\ Becomes(e, x) /\ Exporting("stdout") = {} /\ exports[e].at = "off"
    BY <1>10 DEF StartStdout
  <2>2. \A f \in Exports : HoldsFile(f) => exports[f].to # "stdout"
    BY <1>3, <2>1 DEF Exporting
  <2>3. DOMAIN disk' = DOMAIN disk \cup {"stdout"} /\ disk'["stdout"] = << >>
        /\ \A p \in DOMAIN disk : p # "stdout" => disk'[p] = disk[p]
    BY <1>7, <2>1
  <2>4. exports'[e] = x
    BY <1>4, <2>1
  <2>5. ExportInv(e)'
    BY <2>3, <2>4 DEF ExportInv, HoldsFile
  <2>6. Content(<< >>)
    BY DEF Content
  <2> HIDE DEF x
  <2>7. x.to = "stdout"
    BY DEF x
  <2> QED
    BY <1>1, <1>3, <2>1, <2>2, <2>3, <2>5, <2>6, <2>7, ExportMoves
<1>11. CASE StartOut(e)
  <2> DEFINE x == [at |-> "looked", to |-> "partial"]
  <2>1. UNCHANGED disk /\ Becomes(e, x)
    BY <1>11 DEF StartOut
  <2>2. exports'[e] = x
    BY <1>4, <2>1
  <2>3. ExportInv(e)' /\ ~HoldsFile(e)'
    BY <2>2 DEF ExportInv, HoldsFile
  <2> HIDE DEF x
  <2> QED
    BY <1>1, <1>3, <2>1, <2>3, ExportMoves
<1>12. CASE CreatePartial(e)
  <2> DEFINE x == [exports[e] EXCEPT !.at = "opened"]
  <2>1. CASE UNCHANGED disk /\ Becomes(e, Off)
    BY <1>6, <1>9, <2>1
  <2>2. CASE Stores("partial", << >>) /\ Becomes(e, x) /\ "partial" \notin DOMAIN disk
    <3>1. \A f \in Exports : HoldsFile(f) => exports[f].to # "partial"
      BY <1>3, <2>2
    <3>2. DOMAIN disk' = DOMAIN disk \cup {"partial"} /\ disk'["partial"] = << >>
          /\ \A p \in DOMAIN disk : p # "partial" => disk'[p] = disk[p]
      BY <1>7, <2>2
    <3>3. exports'[e] = x
      BY <1>4, <2>2
    <3>4. x.to = "partial" /\ x.at \in {"opened", exports[e].at}
      BY <1>2, <1>12 DEF CreatePartial, ExportInv
    <3>5. exports[e].at = "looked"
      BY <1>12 DEF CreatePartial
    <3>6. ExportInv(e)'
      BY <3>2, <3>3, <3>4, <3>5 DEF ExportInv, HoldsFile
    <3>7. Content(<< >>)
      BY DEF Content
    <3> HIDE DEF x
    <3> QED
      BY <1>1, <1>3, <2>2, <3>1, <3>2, <3>4, <3>6, <3>7, ExportMoves
  <2> QED
    BY <1>12, <2>1, <2>2 DEF CreatePartial
<1>13. ASSUME NEW d \in Databases, WriteHeader(e, d) PROVE FilesInv'
  <2> DEFINE to == exports[e].to
             x == [at |-> "reading", to |-> to, of |-> d, sees |-> dbs[d], table |-> 1]
  <2>1. Stores(to, <<Header>>) /\ Becomes(e, x) /\ exports[e].at = "opened"
    BY <1>13 DEF WriteHeader
  <2>2. HoldsFile(e) /\ to \in {"stdout", "partial"} /\ to \in DOMAIN disk
    BY <1>3, <2>1 DEF HoldsFile
  <2>3. <<Header>> = SoFar(dbs[d], 1) /\ dbs[d] \in moments
    BY DEF SoFar, RowsInv
  <2>4. DOMAIN disk' = DOMAIN disk \cup {to} /\ disk'[to] = <<Header>>
        /\ \A p \in DOMAIN disk : p # to => disk'[p] = disk[p]
    BY <1>7, <2>1
  <2>5. exports'[e] = x
    BY <1>4, <2>1
  <2>6. ExportInv(e)'
    BY <1>1, <2>2, <2>3, <2>4, <2>5 DEF ExportInv, HoldsFile
  <2>7. Content(<<Header>>)
    BY <2>3 DEF Content
  <2>8. x.to = to
    OBVIOUS
  <2> HIDE DEF x, to
  <2> QED
    BY <1>1, <1>3, <2>1, <2>2, <2>4, <2>6, <2>7, <2>8, ExportMoves DEF to
<1>14. CASE WriteTable(e)
  <2> DEFINE to == exports[e].to
             t == exports[e].table
             db == exports[e].sees
             x == [exports[e] EXCEPT !.table = @ + 1]
             lines == disk[to] \o InOrder(Tables[t], db)
  <2>1. Stores(to, lines) /\ Becomes(e, x) /\ exports[e].at = "reading" /\ t <= Len(Tables)
    BY <1>14 DEF WriteTable, Sees
  <2>2. HoldsFile(e) /\ to \in {"stdout", "partial"} /\ to \in DOMAIN disk
    BY <1>3, <2>1 DEF HoldsFile
  <2>3. t \in 1..4 /\ db \in moments /\ disk[to] = SoFar(db, t)
    BY <1>2, <2>1 DEF ExportInv
  <2>4. Len(Tables) = 3
    BY DEF Tables
  <2>5. t \in 1..3 /\ t + 1 \in 1..4
    BY <2>1, <2>3, <2>4
  <2>6. lines = SoFar(db, t + 1)
    BY <2>3, <2>5, SoFarIs DEF RowsInv
  <2>7. DOMAIN disk' = DOMAIN disk \cup {to} /\ disk'[to] = lines
        /\ \A p \in DOMAIN disk : p # to => disk'[p] = disk[p]
    BY <1>7, <2>1
  <2>8. exports'[e] = x
    BY <1>4, <2>1
  <2>9. x.to = to /\ x.at \in {"reading", exports[e].at} /\ x.sees = db
        /\ x.table \in {t + 1, exports[e].table}
    OBVIOUS
  <2> HIDE DEF lines
  <2>10. Content(lines)
    BY <2>3, <2>5, <2>6 DEF Content
  <2>11. ExportInv(e)'
    <3>1. exports'[e].at = "reading" /\ exports'[e].to = to /\ exports'[e].sees = db
      BY <2>1, <2>8, <2>9
    <3>2. exports'[e].table \in 1..4 /\ disk'[to] = SoFar(db, exports'[e].table)
      <4>1. "table" \in DOMAIN exports[e] => exports'[e].table = t + 1
        BY <2>8
      <4>2. "table" \in DOMAIN exports[e]
        BY <1>2, <2>1 DEF ExportInv
      <4> QED
        BY <2>5, <2>6, <2>7, <4>1, <4>2
    <3>3. "table" \in DOMAIN exports'[e]
      BY <1>2, <2>1, <2>8 DEF ExportInv
    <3> HIDE DEF to, t, db, x
    <3> QED
      BY <1>1, <2>2, <2>3, <2>7, <3>1, <3>2, <3>3 DEF ExportInv, HoldsFile
  <2> HIDE DEF x, to
  <2> QED
    BY <1>1, <1>3, <2>1, <2>2, <2>7, <2>9, <2>10, <2>11, ExportMoves DEF to
<1>15. CASE WriteEnd(e)
  <2> DEFINE to == exports[e].to
             db == exports[e].sees
             x == IF to = "stdout" THEN Off ELSE [at |-> "synced", to |-> "partial"]
             lines == Append(disk[to], End(disk[to]))
  <2>1. Stores(to, lines) /\ Becomes(e, x) /\ exports[e].at = "reading" /\ exports[e].table > Len(Tables)
    BY <1>15 DEF WriteEnd
  <2>2. HoldsFile(e) /\ to \in {"stdout", "partial"} /\ to \in DOMAIN disk
    BY <1>3, <2>1 DEF HoldsFile
  <2>3. exports[e].table \in 1..4 /\ db \in moments /\ disk[to] = SoFar(db, exports[e].table)
    BY <1>2, <2>1 DEF ExportInv
  <2>4. Len(Tables) = 3
    BY DEF Tables
  <2>5. exports[e].table = 4
    BY <2>1, <2>3, <2>4
  <2>6. lines = DumpOf(db)
    BY <2>3, <2>5, SoFarIs DEF RowsInv
  <2>7. DOMAIN disk' = DOMAIN disk \cup {to} /\ disk'[to] = lines
        /\ \A p \in DOMAIN disk : p # to => disk'[p] = disk[p]
    BY <1>7, <2>1
  <2>8. exports'[e] = x
    BY <1>4, <2>1
  <2>9. Content(lines)
    BY <2>3, <2>6 DEF Content
  <2>10. ExportInv(e)'
    <3>1. CASE to = "stdout"
      <4>1. x.at = "off"
        BY <1>6, <3>1
      <4> QED
        BY <1>5, <2>1, <4>1
    <3>2. CASE to = "partial"
      BY <1>1, <2>3, <2>6, <2>7, <2>8, <3>2 DEF ExportInv, HoldsFile
    <3> QED
      BY <2>2, <3>1, <3>2
  <2>11. HoldsFile(e)' => x.to = to
    BY <1>6, <2>2, <2>8 DEF HoldsFile
  <2> HIDE DEF x, to, lines
  <2> QED
    BY <1>1, <1>3, <2>1, <2>2, <2>7, <2>9, <2>10, <2>11, ExportMoves DEF to
<1>16. CASE Link(e)
  <2> DEFINE x == [exports[e] EXCEPT !.at = "linked"]
  <2>1. Becomes(e, x) /\ exports[e].at = "synced"
    BY <1>16 DEF Link
  <2>2. exports[e].to = "partial" /\ "partial" \in DOMAIN disk /\ HoldsFile(e)
        /\ \E db \in moments : disk["partial"] = DumpOf(db)
    BY <1>2, <2>1 DEF ExportInv, HoldsFile
  <2>3. exports'[e] = x /\ x.to = "partial" /\ x.at \in {"linked", "synced"}
    BY <1>4, <2>1, <2>2
  <2>4. CASE UNCHANGED disk
    <3>1. ExportInv(e)'
      BY <1>1, <2>2, <2>3, <2>4 DEF ExportInv, HoldsFile
    <3> HIDE DEF x
    <3> QED
      BY <1>1, <1>3, <2>1, <2>2, <2>3, <2>4, <3>1, ExportMoves
  <2>5. CASE Stores("out", disk["partial"])
    <3>1. DOMAIN disk' = DOMAIN disk \cup {"out"} /\ disk'["out"] = disk["partial"]
          /\ \A p \in DOMAIN disk : p # "out" => disk'[p] = disk[p]
      BY <1>7, <2>5
    <3>2. ExportInv(e)'
      <4>1. "partial" \in DOMAIN disk' /\ disk'["partial"] = disk["partial"]
        BY <2>2, <3>1
      <4> QED
        BY <1>1, <2>2, <2>3, <4>1 DEF ExportInv, HoldsFile
    <3>3. Content(disk["partial"])
      BY <2>2 DEF FilesInv
    <3> HIDE DEF x
    <3> QED
      BY <1>1, <1>3, <2>1, <2>2, <2>3, <3>1, <3>2, <3>3, ExportMoves
  <2> QED
    BY <1>16, <2>4, <2>5 DEF Link
<1>17. CASE RemovePartial(e) \/ FailExport(e) \/ KillExport(e)
  <2>1. Becomes(e, Off)
    BY <1>17 DEF RemovePartial, FailExport, KillExport
  <2>2. CASE UNCHANGED disk
    BY <1>6, <1>9, <2>1, <2>2
  <2>3. CASE Unlinks("partial") /\ HoldsFile(e) /\ exports[e].to = "partial"
    <3>1. DOMAIN disk' = DOMAIN disk \ {"partial"} /\ \A p \in DOMAIN disk' : disk'[p] = disk[p]
      BY <1>8, <2>3
    <3>2. \A f \in Exports \ {e} : HoldsFile(f) =>
            exports[f].to \in DOMAIN disk' /\ disk'[exports[f].to] = disk[exports[f].to]
      BY <1>3, <2>3, <3>1
    <3> QED
      BY <1>1, <1>5, <1>6, <2>1, <3>1, <3>2, ExportMoves
  <2>4. RemovePartial(e) => Unlinks("partial") /\ HoldsFile(e) /\ exports[e].to = "partial"
    BY <1>2 DEF RemovePartial, ExportInv, HoldsFile
  <2>5. FailExport(e) => UNCHANGED disk \/ (Unlinks("partial") /\ HoldsFile(e) /\ exports[e].to = "partial")
    BY DEF FailExport, HoldsFile
  <2> QED
    BY <1>17, <2>2, <2>3, <2>4, <2>5 DEF KillExport
<1> QED
  BY <1>10, <1>11, <1>12, <1>13, <1>14, <1>15, <1>16, <1>17

LEMMA CleanStep ==
  ASSUME FilesInv, Clean
  PROVE  FilesInv' /\ UNCHANGED <<dbs, loaded, renamed, moments>>
<1>1. UNCHANGED <<dbs, loaded, renamed, moments, exports>> /\ Unlinks("partial") /\ Exporting("partial") = {}
  BY DEF Clean, Same
<1>2. DOMAIN disk' = DOMAIN disk \ {"partial"} /\ \A p \in DOMAIN disk' : disk'[p] = disk[p]
  BY <1>1, UnlinksIs
<1>3. \A e \in Exports : HoldsFile(e) => exports[e].to # "partial"
  BY <1>1 DEF Exporting, HoldsFile
<1>4. ASSUME NEW e \in Exports PROVE ExportInv(e)'
  <2>1. ExportInv(e)
    BY DEF FilesInv
  <2>2. HoldsFile(e) => exports[e].to \in DOMAIN disk'
                        /\ disk'[exports[e].to] = disk[exports[e].to]
    BY <1>2, <1>3, <2>1 DEF ExportInv, HoldsFile
  <2> QED
    BY <1>1, <1>3, <2>1, <2>2 DEF ExportInv, HoldsFile
<1>5. \A p \in DOMAIN disk' : Content(disk[p])'
  BY <1>1, <1>2 DEF FilesInv, Content
<1>6. PublishedIsOneMoment'
  BY <1>1, <1>2 DEF FilesInv, PublishedIsOneMoment
<1>7. \A e \in Exports : HoldsFile(e)' <=> HoldsFile(e)
  BY <1>1 DEF HoldsFile
<1> QED
  BY <1>1, <1>4, <1>5, <1>6, <1>7 DEF FilesInv


(***************************************************************************)
(* Dumps: what is written to the databases.                                *)
(***************************************************************************)
TableNames == {"setting", "issue", "event"}

RowsApart(db) ==
  /\ IsFiniteSet(db)
  /\ \A row \in db : IsRow(row)
  /\ \A table \in TableNames : \A r, s \in Rows(table, db) : r[table] = s[table] => r = s

SettingsThere(db) ==
  \A key \in {IssuePrefix, IssueSeq} : \E row \in Rows("setting", db) : row.setting = key

LEMMA DatabaseIs ==
  \A db : IsDatabase(db) <=> RowsApart(db) /\ SettingsThere(db)
<1> TAKE db
<1>1. {IssuePrefix, IssueSeq} \subseteq {row.setting : row \in Rows("setting", db)}
        <=> SettingsThere(db)
  BY DEF SettingsThere
<1> QED
  BY <1>1 DEF IsDatabase, RowsApart, TableNames

LEMMA RowShapes ==
  /\ \A key, value : /\ DOMAIN Setting(key, value) = {"setting", "value"}
                     /\ Setting(key, value).setting = key /\ Setting(key, value).value = value
  /\ \A id, key, version : /\ DOMAIN Issue(id, key, version) = {"issue", "key", "version"}
                           /\ Issue(id, key, version).issue = id
                           /\ Issue(id, key, version).key = key
                           /\ Issue(id, key, version).version = version
  /\ \A id, of, version : /\ DOMAIN Event(id, of, version) = {"event", "of", "version"}
                          /\ Event(id, of, version).event = id
                          /\ Event(id, of, version).version = version
  BY DEF Setting, Issue, Event

LEMMA RowKinds ==
  ASSUME NEW row, IsRow(row)
  PROVE  \/ /\ "setting" \in DOMAIN row /\ "issue" \notin DOMAIN row /\ "event" \notin DOMAIN row
            /\ row.setting \in {IssuePrefix, IssueSeq}
            /\ row.setting = IssuePrefix => row.value \in KeyPrefixes \cup {Nothing}
            /\ row.setting = IssueSeq => row.value \in Nat
         \/ /\ "setting" \notin DOMAIN row /\ "issue" \in DOMAIN row /\ "event" \notin DOMAIN row
            /\ row.issue \in Nat /\ row.version \in Nat /\ row.key \in Key
         \/ /\ "setting" \notin DOMAIN row /\ "issue" \notin DOMAIN row /\ "event" \in DOMAIN row
            /\ row.event \in Nat /\ row.version \in Nat
  BY DEF IsRow, IssuePrefix, IssueSeq

LEMMA RowsMade ==
  /\ \A value \in KeyPrefixes \cup {Nothing} : IsRow(Setting(IssuePrefix, value))
  /\ \A value \in Nat : IsRow(Setting(IssueSeq, value))
  /\ \A id \in Nat, key \in Key, version \in Nat : IsRow(Issue(id, key, version))
  /\ \A id \in Nat, version \in Nat : \A of : IsRow(Event(id, of, version))
<1>1. \A value \in KeyPrefixes \cup {Nothing} : IsRow(Setting(IssuePrefix, value))
  BY RowShapes DEF IsRow
<1>2. \A value \in Nat : IsRow(Setting(IssueSeq, value))
  BY RowShapes DEF IsRow
<1>3. \A id \in Nat, key \in Key, version \in Nat : IsRow(Issue(id, key, version))
  <2> TAKE id \in Nat, key \in Key, version \in Nat
  <2> DEFINE row == Issue(id, key, version)
  <2>1. DOMAIN row = {"issue", "key", "version"} /\ {row.issue, row.version} \subseteq Nat
        /\ row.key \in Key
    BY RowShapes
  <2> QED
    BY <2>1 DEF IsRow
<1>4. \A id \in Nat, version \in Nat : \A of : IsRow(Event(id, of, version))
  <2> TAKE id \in Nat, version \in Nat
  <2> TAKE of
  <2> DEFINE row == Event(id, of, version)
  <2>1. DOMAIN row = {"event", "of", "version"} /\ {row.event, row.version} \subseteq Nat
    BY RowShapes
  <2> QED
    BY <2>1 DEF IsRow
<1> QED
  BY <1>1, <1>2, <1>3, <1>4

LEMMA SubRows ==
  ASSUME NEW db, RowsApart(db), NEW some, some \subseteq db
  PROVE  RowsApart(some)
<1>1. IsFiniteSet(some)
  BY FS_Subset DEF RowsApart
<1>2. \A table \in TableNames : Rows(table, some) \subseteq Rows(table, db)
  BY DEF Rows
<1> QED
  BY <1>1, <1>2 DEF RowsApart

LEMMA MoreRows ==
  ASSUME NEW a, NEW b, RowsApart(a), RowsApart(b),
         \A table \in TableNames : \A r \in Rows(table, a), s \in Rows(table, b) : r[table] # s[table]
  PROVE  RowsApart(a \cup b)
<1>1. IsFiniteSet(a \cup b)
  BY FS_Union DEF RowsApart
<1>2. \A table \in TableNames : Rows(table, a \cup b) = Rows(table, a) \cup Rows(table, b)
  BY DEF Rows
<1>3. \A table \in TableNames : \A r, s \in Rows(table, a \cup b) : r[table] = s[table] => r = s
  BY <1>2 DEF RowsApart
<1> QED
  BY <1>1, <1>3 DEF RowsApart

LEMMA OneRow ==
  ASSUME NEW row, IsRow(row)
  PROVE  RowsApart({row})
<1>1. IsFiniteSet({row})
  BY FS_Singleton
<1> QED
  BY <1>1 DEF RowsApart, Rows

\* UPDATE settings changes that setting's row and no other.
LEMMA SetIs ==
  ASSUME NEW db, IsDatabase(db), NEW key \in {IssuePrefix, IssueSeq}, NEW value,
         IsRow(Setting(key, value))
  PROVE  /\ IsDatabase(Set(db, key, value))
         /\ \A table \in {"issue", "event"} : Rows(table, Set(db, key, value)) = Rows(table, db)
         /\ \A row \in Rows("setting", Set(db, key, value)) :
              IF row.setting = key THEN row.value = value ELSE row \in Rows("setting", db)
<1> DEFINE new(row) == IF "setting" \in DOMAIN row /\ row.setting = key THEN Setting(key, value) ELSE row
           f == [row \in db |-> new(row)]
           s == Set(db, key, value)
<1>1. RowsApart(db) /\ SettingsThere(db)
  BY DatabaseIs
<1>2. s = {new(row) : row \in db}
  BY DEF Set
<1>3. \A row \in db : /\ IsRow(new(row))
                      /\ \A table \in TableNames :
                           /\ table \in DOMAIN new(row) <=> table \in DOMAIN row
                           /\ table \in DOMAIN row => new(row)[table] = row[table]
  <2> TAKE row \in db
  <2>1. IsRow(row)
    BY <1>1 DEF RowsApart
  <2>2. CASE "setting" \in DOMAIN row /\ row.setting = key
    <3>1. new(row) = Setting(key, value) /\ "issue" \notin DOMAIN row /\ "event" \notin DOMAIN row
      BY <2>1, <2>2, RowKinds
    <3>2. DOMAIN Setting(key, value) = {"setting", "value"} /\ Setting(key, value).setting = key
      BY RowShapes
    <3> QED
      BY <2>2, <3>1, <3>2 DEF TableNames
  <2>3. CASE ~("setting" \in DOMAIN row /\ row.setting = key)
    BY <2>1, <2>3
  <2> QED
    BY <2>2, <2>3
<1>4. \A row \in db : "setting" \notin DOMAIN row => new(row) = row
  OBVIOUS
<1>5. \A row \in db : "setting" \in DOMAIN row /\ row.setting = key => new(row).value = value
  BY RowShapes
<1>6. \A row \in db : "setting" \in DOMAIN row /\ row.setting # key => new(row) = row
  OBVIOUS
<1>7. IsFiniteSet(s)
  <2>1. f \in Surjection(db, s)
    BY <1>2 DEF Surjection
  <2> QED
    BY <1>1, <2>1, FS_Surjection DEF RowsApart
<1> HIDE DEF new, f
<1>8. RowsApart(s)
  <2>1. \A row \in s : IsRow(row)
    BY <1>2, <1>3
  <2>2. ASSUME NEW table \in TableNames, NEW r \in Rows(table, s), NEW q \in Rows(table, s),
               r[table] = q[table]
        PROVE  r = q
    <3>1. r \in s /\ q \in s /\ table \in DOMAIN r /\ table \in DOMAIN q
      BY DEF Rows
    <3>2. PICK r0 \in db, q0 \in db : r = new(r0) /\ q = new(q0)
      BY <1>2, <3>1
    <3>3. r0 \in Rows(table, db) /\ q0 \in Rows(table, db) /\ r0[table] = q0[table]
      BY <1>3, <2>2, <3>1, <3>2 DEF Rows
    <3> QED
      BY <1>1, <3>2, <3>3 DEF RowsApart
  <2> QED
    BY <1>7, <2>1, <2>2 DEF RowsApart
<1>9. SettingsThere(s)
  <2> SUFFICES ASSUME NEW k \in {IssuePrefix, IssueSeq}
               PROVE  \E row \in Rows("setting", s) : row.setting = k
    BY DEF SettingsThere
  <2>1. PICK row \in Rows("setting", db) : row.setting = k
    BY <1>1 DEF SettingsThere
  <2>2. row \in db /\ "setting" \in DOMAIN row /\ "setting" \in TableNames
    BY DEF Rows, TableNames
  <2>3. new(row) \in s /\ "setting" \in DOMAIN new(row) /\ new(row).setting = k
    BY <1>2, <1>3, <2>1, <2>2
  <2> QED
    BY <2>3 DEF Rows
<1>10. ASSUME NEW table \in {"issue", "event"} PROVE Rows(table, s) = Rows(table, db)
  <2>1. \A row \in db : table \in DOMAIN row => "setting" \notin DOMAIN row
    BY <1>1, RowKinds DEF RowsApart
  <2>2. table \in TableNames
    BY DEF TableNames
  <2>3. \A row \in Rows(table, s) : row \in Rows(table, db)
    <3> TAKE row \in Rows(table, s)
    <3>1. PICK row0 \in db : row = new(row0) /\ table \in DOMAIN row
      BY <1>2 DEF Rows
    <3>2. table \in DOMAIN row0
      BY <1>3, <2>2, <3>1
    <3> QED
      BY <1>4, <2>1, <3>1, <3>2 DEF Rows
  <2>4. \A row \in Rows(table, db) : row \in Rows(table, s)
    <3> TAKE row \in Rows(table, db)
    <3>1. row \in db /\ table \in DOMAIN row
      BY DEF Rows
    <3>2. new(row) = row /\ new(row) \in s
      BY <1>2, <1>4, <2>1, <3>1
    <3> QED
      BY <3>1, <3>2 DEF Rows
  <2> QED
    BY <2>3, <2>4
<1>11. ASSUME NEW row \in Rows("setting", s)
       PROVE  IF row.setting = key THEN row.value = value ELSE row \in Rows("setting", db)
  <2>1. PICK row0 \in db : row = new(row0) /\ "setting" \in DOMAIN row
    BY <1>2 DEF Rows
  <2>2. "setting" \in DOMAIN row0 /\ row.setting = row0.setting
    BY <1>3, <2>1 DEF TableNames
  <2> QED
    BY <1>5, <1>6, <2>1, <2>2 DEF Rows
<1>12. IsDatabase(s)
  BY <1>8, <1>9, DatabaseIs
<1> QED
  BY <1>10, <1>11, <1>12 DEF s

LEMMA MaxIs ==
  ASSUME NEW S, IsFiniteSet(S), S \subseteq Nat, S # {}
  PROVE  Max(S) \in S /\ \A y \in S : Max(S) >= y
<1>1. S \subseteq Int
  OBVIOUS
<1>2. PICK x \in S : \A y \in S : y <= x
  BY <1>1, HasGreatest
<1>3. \E z \in S : \A y \in S : z >= y
  BY <1>2
<1> QED
  BY <1>3 DEF Max

\* The next id of a table is a new one.
LEMMA NextIdIs ==
  ASSUME NEW db, RowsApart(db), NEW table \in TableNames
  PROVE  /\ NextId(table, db) \in Nat
         /\ \A row \in Rows(table, db) : row[table] # NextId(table, db)
<1> DEFINE rows == Rows(table, db)
           ids == {row[table] : row \in rows}
           S == {0} \cup ids
           f == [row \in rows |-> row[table]]
<1>1. IsFiniteSet(rows)
  <2>1. rows \subseteq db
    BY DEF Rows
  <2> QED
    BY <2>1, FS_Subset DEF RowsApart
<1>2. f \in Surjection(rows, ids)
  BY DEF Surjection
<1>3. IsFiniteSet(ids)
  BY <1>1, <1>2, FS_Surjection
<1>4. IsFiniteSet(S)
  <2>1. IsFiniteSet({0})
    BY FS_Singleton
  <2> HIDE DEF ids
  <2> QED
    BY <1>3, <2>1, FS_Union
<1>5. \A row \in rows : row[table] \in Nat
  <2> TAKE row \in rows
  <2>1. IsRow(row) /\ table \in DOMAIN row
    BY DEF RowsApart, Rows
  <2> QED
    BY <2>1 DEF IsRow, TableNames, IssuePrefix, IssueSeq
<1>6. S \subseteq Nat /\ S # {} /\ S \subseteq Int
  BY <1>5
<1>7. NextId(table, db) = 1 + Max(S)
  BY DEF NextId
<1>8. \A row \in rows : row[table] \in S
  OBVIOUS
<1> HIDE DEF S
<1>9. Max(S) \in S /\ \A y \in S : Max(S) >= y
  BY <1>4, <1>6, MaxIs
<1>10. PICK m \in Nat : m = Max(S) /\ \A y \in S : m >= y
  BY <1>6, <1>9
<1>11. NextId(table, db) = 1 + m /\ 1 + m \in Nat
  BY <1>7, <1>10
<1>12. \A row \in rows : row[table] # 1 + m
  <2> TAKE row \in rows
  <2>1. row[table] \in Nat /\ m >= row[table]
    BY <1>5, <1>8, <1>10
  <2> QED
    BY <1>10, <2>1
<1> QED
  BY <1>11, <1>12


\* The key an issue is created under, from the settings.
LEMMA NextKeyIs ==
  ASSUME NEW db, IsDatabase(db)
  PROVE  \E prefix \in KeyPrefixes \cup {Nothing}, seq \in Nat :
           /\ \A row \in Rows("setting", db) :
                /\ row.setting = IssuePrefix => row.value = prefix
                /\ row.setting = IssueSeq => row.value = seq
           /\ NextKey(db) = <<IF prefix = Nothing THEN TSK ELSE prefix, seq + 1>>
<1>1. RowsApart(db) /\ SettingsThere(db)
  BY DatabaseIs
<1>2. ASSUME NEW key \in {IssuePrefix, IssueSeq}, NEW default
      PROVE  \E row \in Rows("setting", db) :
               /\ row.setting = key /\ SettingOf(db, key, default) = row.value
               /\ \A other \in Rows("setting", db) : other.setting = key => other = row
  <2> DEFINE rows == {row \in Rows("setting", db) : row.setting = key}
  <2>1. rows # {}
    BY <1>1 DEF SettingsThere
  <2>2. SettingOf(db, key, default) = (CHOOSE row \in rows : TRUE).value
    BY <2>1 DEF SettingOf
  <2>3. (CHOOSE row \in rows : TRUE) \in rows
    BY <2>1
  <2>4. \A r, s \in Rows("setting", db) : r.setting = s.setting => r = s
    BY <1>1 DEF RowsApart, TableNames
  <2> QED
    BY <2>2, <2>3, <2>4
<1>3. PICK p \in Rows("setting", db) :
        /\ p.setting = IssuePrefix /\ SettingOf(db, IssuePrefix, Nothing) = p.value
        /\ \A other \in Rows("setting", db) : other.setting = IssuePrefix => other = p
  BY <1>2
<1>4. PICK q \in Rows("setting", db) :
        /\ q.setting = IssueSeq /\ SettingOf(db, IssueSeq, 0) = q.value
        /\ \A other \in Rows("setting", db) : other.setting = IssueSeq => other = q
  BY <1>2
<1>5. IsRow(p) /\ IsRow(q) /\ "setting" \in DOMAIN p /\ "setting" \in DOMAIN q
  BY <1>1 DEF RowsApart, Rows
<1>6. p.value \in KeyPrefixes \cup {Nothing} /\ q.value \in Nat
  BY <1>3, <1>4, <1>5, RowKinds
<1>7. NextKey(db) = <<IF p.value = Nothing THEN TSK ELSE p.value, q.value + 1>>
  BY <1>3, <1>4 DEF NextKey
<1> QED
  BY <1>3, <1>4, <1>6, <1>7

\* The next key that is due has a number above any that is there under its prefix.
SeqAhead(db) ==
  \A row \in Rows("issue", db) :
    row.key[1] = NextKey(db)[1] /\ row.key[2] # Nothing => row.key[2] < NextKey(db)[2]

LEMMA AheadIsFree ==
  ASSUME NEW db, IsDatabase(db), SeqAhead(db)
  PROVE  NextKey(db) \notin Keys(db)
<1>1. PICK prefix \in KeyPrefixes \cup {Nothing}, seq \in Nat :
        /\ \A row \in Rows("setting", db) :
             /\ row.setting = IssuePrefix => row.value = prefix
             /\ row.setting = IssueSeq => row.value = seq
        /\ NextKey(db) = <<IF prefix = Nothing THEN TSK ELSE prefix, seq + 1>>
  BY NextKeyIs
<1>2. NextKey(db)[2] \in Nat /\ NextKey(db)[2] # Nothing
  BY <1>1, PrefixAssumption
<1> SUFFICES ASSUME NEW row \in Rows("issue", db), row.key = NextKey(db)
             PROVE  FALSE
  BY DEF Keys
<1> QED
  BY <1>2 DEF SeqAhead

LEMMA FreshDatabaseIs == IsDatabase(Fresh) /\ SeqAhead(Fresh)
<1> DEFINE p == Setting(IssuePrefix, TSK)
           q == Setting(IssueSeq, 0)
<1>1. IsRow(p) /\ IsRow(q) /\ p.setting = IssuePrefix /\ q.setting = IssueSeq
      /\ "setting" \in DOMAIN p /\ "setting" \in DOMAIN q
  BY RowsMade, RowShapes, PrefixAssumption
<1>2. IssuePrefix # IssueSeq
  BY DEF IssuePrefix, IssueSeq
<1>3. "issue" \notin DOMAIN p /\ "event" \notin DOMAIN p /\ "issue" \notin DOMAIN q /\ "event" \notin DOMAIN q
  BY <1>1, RowKinds
<1> HIDE DEF p, q
<1>4. RowsApart({p}) /\ RowsApart({q})
  BY <1>1, OneRow
<1>5. \A table \in TableNames : \A r \in Rows(table, {p}), s \in Rows(table, {q}) : r[table] # s[table]
  BY <1>1, <1>2, <1>3 DEF TableNames, Rows
<1>6. RowsApart({p} \cup {q})
  BY <1>4, <1>5, MoreRows
<1>7. Fresh = {p} \cup {q}
  BY DEF Fresh, p, q
<1>8. SettingsThere(Fresh)
  BY <1>1, <1>7 DEF SettingsThere, Rows
<1>9. Rows("issue", Fresh) = {}
  BY <1>3, <1>7 DEF Rows
<1> QED
  BY <1>6, <1>7, <1>8, <1>9, DatabaseIs DEF SeqAhead

LEMMA SettingsSame ==
  ASSUME NEW a, NEW b, Rows("setting", a) = Rows("setting", b)
  PROVE  NextKey(a) = NextKey(b)
<1>1. \A key, default : SettingOf(a, key, default) = SettingOf(b, key, default)
  <2> TAKE key, default
  <2>1. {row \in Rows("setting", a) : row.setting = key} = {row \in Rows("setting", b) : row.setting = key}
    OBVIOUS
  <2> DEFINE rowsA == {row \in Rows("setting", a) : row.setting = key}
             rowsB == {row \in Rows("setting", b) : row.setting = key}
  <2>2. SettingOf(a, key, default) = IF rowsA = {} THEN default ELSE (CHOOSE row \in rowsA : TRUE).value
    BY DEF SettingOf
  <2>3. SettingOf(b, key, default) = IF rowsB = {} THEN default ELSE (CHOOSE row \in rowsB : TRUE).value
    BY DEF SettingOf
  <2>4. rowsA = rowsB
    BY <2>1
  <2> HIDE DEF rowsA, rowsB
  <2> QED
    BY <2>2, <2>3, <2>4
<1> QED
  BY <1>1 DEF NextKey

\* Rows of issues and events beside those of a database.
LEMMA RowsBeside ==
  ASSUME NEW db, IsDatabase(db), NEW more, RowsApart(more), Rows("setting", more) = {},
         \A table \in {"issue", "event"} : \A r \in Rows(table, db), s \in Rows(table, more) :
           r[table] # s[table]
  PROVE  /\ IsDatabase(db \cup more) /\ NextKey(db \cup more) = NextKey(db)
         /\ Rows("issue", db \cup more) = Rows("issue", db) \cup Rows("issue", more)
<1>1. RowsApart(db) /\ SettingsThere(db)
  BY DatabaseIs
<1>2. \A table \in TableNames : \A r \in Rows(table, db), s \in Rows(table, more) : r[table] # s[table]
  BY DEF TableNames
<1>3. RowsApart(db \cup more)
  BY <1>1, <1>2, MoreRows
<1>4. Rows("setting", db \cup more) = Rows("setting", db)
  <2>1. Rows("setting", db \cup more) = Rows("setting", db) \cup Rows("setting", more)
    BY DEF Rows
  <2> QED
    BY <2>1
<1>5. SettingsThere(db \cup more)
  BY <1>1, <1>4 DEF SettingsThere
<1>6. NextKey(db \cup more) = NextKey(db)
  BY <1>4, SettingsSame
<1> QED
  BY <1>3, <1>5, <1>6, DatabaseIs DEF Rows

\* An issue and its event, as a create and an update write them.
IsPair(more, issue, event) ==
  /\ RowsApart(more) /\ Rows("setting", more) = {} /\ ~IsEmpty(more)
  /\ Rows("issue", more) = {issue} /\ Rows("event", more) = {event}

LEMMA IssueAndEvent ==
  ASSUME NEW id \in Nat, NEW eid \in Nat, NEW key \in Key, NEW version \in Nat
  PROVE  IsPair({Issue(id, key, version), Event(eid, key, version)},
                Issue(id, key, version), Event(eid, key, version))
<1> DEFINE i == Issue(id, key, version)
           v == Event(eid, key, version)
<1>1. IsRow(i) /\ IsRow(v)
  BY RowsMade
<1>2. DOMAIN i = {"issue", "key", "version"} /\ DOMAIN v = {"event", "of", "version"}
  BY RowShapes
<1> HIDE DEF i, v
<1>3. "setting" \notin DOMAIN i /\ "setting" \notin DOMAIN v /\ "issue" \in DOMAIN i
      /\ "issue" \notin DOMAIN v /\ "event" \notin DOMAIN i /\ "event" \in DOMAIN v
  BY <1>2
<1>4. \A table \in TableNames : \A r \in Rows(table, {i}), s \in Rows(table, {v}) : r[table] # s[table]
  BY <1>3 DEF TableNames, Rows
<1>5. RowsApart({i} \cup {v})
  BY <1>1, <1>4, MoreRows, OneRow
<1>6. {i, v} = {i} \cup {v}
  OBVIOUS
<1>7. /\ Rows("setting", {i, v}) = {} /\ Rows("issue", {i, v}) = {i}
      /\ Rows("event", {i, v}) = {v} /\ ~IsEmpty({i, v})
  BY <1>3 DEF Rows, IsEmpty
<1> QED
  BY <1>5, <1>6, <1>7 DEF IsPair, i, v

LEMMA CreateIs ==
  ASSUME NEW db, IsDatabase(db)
  PROVE  LET key == NextKey(db)
             new == Set(db, IssueSeq, key[2]) \cup
                      {Issue(NextId("issue", db), key, 1), Event(NextId("event", db), key, 1)}
         IN IsDatabase(new) /\ (SeqAhead(db) => SeqAhead(new)) /\ ~IsEmpty(new)
<1> DEFINE key == NextKey(db)
           base == Set(db, IssueSeq, key[2])
           id == NextId("issue", db)
           eid == NextId("event", db)
           more == {Issue(id, key, 1), Event(eid, key, 1)}
<1>1. RowsApart(db)
  BY DatabaseIs
<1>2. PICK prefix \in KeyPrefixes \cup {Nothing}, seq \in Nat :
        /\ \A row \in Rows("setting", db) :
             /\ row.setting = IssuePrefix => row.value = prefix
             /\ row.setting = IssueSeq => row.value = seq
        /\ key = <<IF prefix = Nothing THEN TSK ELSE prefix, seq + 1>>
  BY NextKeyIs
<1>3. key[2] = seq + 1 /\ key[2] \in Nat /\ key[1] = IF prefix = Nothing THEN TSK ELSE prefix
  BY <1>2
<1>4. key \in Key
  BY <1>2, PrefixAssumption DEF Key
<1> HIDE DEF key
<1>5. id \in Nat /\ \A row \in Rows("issue", db) : row.issue # id
  BY <1>1, NextIdIs DEF TableNames
<1>6. eid \in Nat /\ \A row \in Rows("event", db) : row.event # eid
  BY <1>1, NextIdIs DEF TableNames
<1>7. IsRow(Setting(IssueSeq, key[2]))
  BY <1>3, RowsMade
<1>8. /\ IsDatabase(base)
      /\ Rows("issue", base) = Rows("issue", db) /\ Rows("event", base) = Rows("event", db)
      /\ \A row \in Rows("setting", base) :
           IF row.setting = IssueSeq THEN row.value = key[2] ELSE row \in Rows("setting", db)
  BY <1>7, SetIs
<1> HIDE DEF id, eid, base
<1>9. /\ RowsApart(more) /\ Rows("setting", more) = {} /\ ~IsEmpty(more)
      /\ Rows("issue", more) = {Issue(id, key, 1)} /\ Rows("event", more) = {Event(eid, key, 1)}
  <2>1. IsPair(more, Issue(id, key, 1), Event(eid, key, 1))
    BY <1>4, <1>5, <1>6, IssueAndEvent
  <2> QED
    BY <2>1 DEF IsPair
<1>10. Issue(id, key, 1).issue = id /\ Issue(id, key, 1).key = key /\ Event(eid, key, 1).event = eid
  BY RowShapes
<1> HIDE DEF more
<1>11. \A table \in {"issue", "event"} : \A r \in Rows(table, base), s \in Rows(table, more) :
         r[table] # s[table]
  BY <1>5, <1>6, <1>8, <1>9, <1>10
<1>12. /\ IsDatabase(base \cup more) /\ NextKey(base \cup more) = NextKey(base)
       /\ Rows("issue", base \cup more) = Rows("issue", base) \cup Rows("issue", more)
  BY <1>8, <1>9, <1>11, RowsBeside
<1>13. NextKey(base) = <<key[1], key[2] + 1>>
  <2>1. PICK p \in KeyPrefixes \cup {Nothing}, q \in Nat :
          /\ \A row \in Rows("setting", base) :
               /\ row.setting = IssuePrefix => row.value = p
               /\ row.setting = IssueSeq => row.value = q
          /\ NextKey(base) = <<IF p = Nothing THEN TSK ELSE p, q + 1>>
    BY <1>8, NextKeyIs
  <2>2. IssuePrefix # IssueSeq
    BY DEF IssuePrefix, IssueSeq
  <2>3. SettingsThere(base)
    BY <1>8, DatabaseIs
  <2>4. q = key[2]
    BY <1>8, <2>1, <2>3 DEF SettingsThere
  <2>5. p = prefix
    BY <1>2, <1>8, <2>1, <2>2, <2>3 DEF SettingsThere
  <2> QED
    BY <1>3, <2>1, <2>4, <2>5
<1>14. ASSUME SeqAhead(db) PROVE SeqAhead(base \cup more)
  <2>0. NextKey(base \cup more)[1] = key[1] /\ NextKey(base \cup more)[2] = key[2] + 1
    BY <1>12, <1>13
  <2> SUFFICES ASSUME NEW row \in Rows("issue", base \cup more),
                      row.key[1] = key[1], row.key[2] # Nothing
               PROVE  row.key[2] < key[2] + 1
    BY <2>0 DEF SeqAhead
  <2>1. CASE row = Issue(id, key, 1)
    BY <1>3, <1>10, <2>1
  <2>2. CASE row \in Rows("issue", db)
    <3>1. row.key[2] < key[2]
      BY <1>14, <2>2 DEF SeqAhead, key
    <3>2. row.key[2] \in Nat
      <4>1. row.key \in Key
        BY <1>1, <2>2, RowKinds DEF RowsApart, Rows
      <4> QED
        BY <4>1 DEF Key
    <3> QED
      BY <1>3, <3>1, <3>2
  <2> QED
    BY <1>8, <1>9, <1>12, <2>1, <2>2
<1>15. ~IsEmpty(base \cup more)
  BY <1>9 DEF IsEmpty
<1> QED
  BY <1>12, <1>14, <1>15 DEF key, base, id, eid, more

LEMMA UpdateIs ==
  ASSUME NEW db, IsDatabase(db), NEW row \in Rows("issue", db)
  PROVE  LET new == (db \ {row}) \cup
                      {Issue(row.issue, row.key, row.version + 1),
                       Event(NextId("event", db), row.key, row.version + 1)}
         IN IsDatabase(new) /\ (SeqAhead(db) => SeqAhead(new)) /\ ~IsEmpty(new)
<1> DEFINE base == db \ {row}
           version == row.version + 1
           eid == NextId("event", db)
           more == {Issue(row.issue, row.key, version), Event(eid, row.key, version)}
<1>1. RowsApart(db) /\ SettingsThere(db)
  BY DatabaseIs
<1>2. row \in db /\ "issue" \in DOMAIN row /\ "setting" \notin DOMAIN row
      /\ row.issue \in Nat /\ row.key \in Key /\ version \in Nat
  <2>1. row \in db /\ "issue" \in DOMAIN row /\ IsRow(row)
    BY <1>1 DEF Rows, RowsApart
  <2> QED
    BY <2>1, RowKinds
<1> HIDE DEF version
<1>3. Rows("setting", base) = Rows("setting", db)
  BY <1>2 DEF Rows
<1>4. IsDatabase(base) /\ NextKey(base) = NextKey(db)
  <2>1. RowsApart(base)
    BY <1>1, SubRows
  <2>2. SettingsThere(base)
    BY <1>1, <1>3 DEF SettingsThere
  <2>3. NextKey(base) = NextKey(db)
    BY <1>3, SettingsSame
  <2> QED
    BY <2>1, <2>2, <2>3, DatabaseIs
<1>5. eid \in Nat /\ \A r \in Rows("event", db) : r.event # eid
  BY <1>1, NextIdIs DEF TableNames
<1>6. \A r \in Rows("issue", base) : r.issue # row.issue
  BY <1>1 DEF RowsApart, TableNames, Rows
<1>7. Rows("event", base) \subseteq Rows("event", db) /\ Rows("issue", base) \subseteq Rows("issue", db)
  BY DEF Rows
<1> HIDE DEF base, eid
<1>8. /\ RowsApart(more) /\ Rows("setting", more) = {} /\ ~IsEmpty(more)
      /\ Rows("issue", more) = {Issue(row.issue, row.key, version)}
      /\ Rows("event", more) = {Event(eid, row.key, version)}
  <2>1. IsPair(more, Issue(row.issue, row.key, version), Event(eid, row.key, version))
    BY <1>2, <1>5, IssueAndEvent
  <2> QED
    BY <2>1 DEF IsPair
<1>9. Issue(row.issue, row.key, version).issue = row.issue
      /\ Issue(row.issue, row.key, version).key = row.key /\ Event(eid, row.key, version).event = eid
  BY RowShapes
<1> HIDE DEF more
<1>10. \A table \in {"issue", "event"} : \A r \in Rows(table, base), s \in Rows(table, more) :
         r[table] # s[table]
  BY <1>5, <1>6, <1>7, <1>8, <1>9
<1>11. /\ IsDatabase(base \cup more) /\ NextKey(base \cup more) = NextKey(db)
       /\ Rows("issue", base \cup more) = Rows("issue", base) \cup Rows("issue", more)
  BY <1>4, <1>8, <1>10, RowsBeside
<1>12. SeqAhead(db) => SeqAhead(base \cup more)
  BY <1>7, <1>8, <1>9, <1>11 DEF SeqAhead
<1>13. ~IsEmpty(base \cup more)
  BY <1>8 DEF IsEmpty
<1> QED
  BY <1>11, <1>12, <1>13 DEF base, version, eid, more

LEMMA PrefixIs ==
  ASSUME NEW db, IsDatabase(db), NEW prefix \in KeyPrefixes
  PROVE  LET others == {row \in db : ~("setting" \in DOMAIN row /\ row.setting = IssuePrefix)}
             new == others \cup {Setting(IssuePrefix, prefix), Event(NextId("event", db), Nothing, 0)}
         IN IsDatabase(new) /\ ~IsEmpty(new)
<1> DEFINE others == {row \in db : ~("setting" \in DOMAIN row /\ row.setting = IssuePrefix)}
           eid == NextId("event", db)
           s == Setting(IssuePrefix, prefix)
           v == Event(eid, Nothing, 0)
<1>1. RowsApart(db) /\ SettingsThere(db)
  BY DatabaseIs
<1>2. RowsApart(others)
  <2>1. others \subseteq db
    OBVIOUS
  <2> HIDE DEF others
  <2> QED
    BY <1>1, <2>1, SubRows
<1>3. eid \in Nat /\ \A r \in Rows("event", db) : r.event # eid
  BY <1>1, NextIdIs DEF TableNames
<1>4. IsRow(s) /\ IsRow(v) /\ s.setting = IssuePrefix /\ v.event = eid
      /\ DOMAIN s = {"setting", "value"} /\ DOMAIN v = {"event", "of", "version"}
  <2> HIDE DEF eid
  <2> QED
    BY <1>3, RowsMade, RowShapes
<1>5. \A r \in Rows("setting", others) : r.setting # IssuePrefix
  BY DEF Rows
<1>6. Rows("event", others) \subseteq Rows("event", db)
  BY DEF Rows
<1>7. \A r \in Rows("setting", db) : r.setting # IssuePrefix => r \in Rows("setting", others)
  BY DEF Rows
<1> HIDE DEF others, eid, s, v
<1>8. /\ Rows("setting", {s}) = {s} /\ Rows("issue", {s}) = {} /\ Rows("event", {s}) = {}
      /\ Rows("setting", {v}) = {} /\ Rows("issue", {v}) = {} /\ Rows("event", {v}) = {v}
  BY <1>4 DEF Rows
<1>9. RowsApart(others \cup {s})
  <2>1. \A table \in TableNames : \A r \in Rows(table, others), q \in Rows(table, {s}) : r[table] # q[table]
    BY <1>4, <1>5, <1>8 DEF TableNames
  <2> QED
    BY <1>2, <1>4, <2>1, OneRow, MoreRows
<1>10. RowsApart((others \cup {s}) \cup {v})
  <2>1. Rows("event", others \cup {s}) = Rows("event", others)
    <3>1. Rows("event", others \cup {s}) = Rows("event", others) \cup Rows("event", {s})
      BY DEF Rows
    <3> QED
      BY <1>8, <3>1
  <2>2. \A table \in TableNames :
          \A r \in Rows(table, others \cup {s}), q \in Rows(table, {v}) : r[table] # q[table]
    BY <1>3, <1>4, <1>6, <1>8, <2>1 DEF TableNames
  <2> QED
    BY <1>4, <1>9, <2>2, OneRow, MoreRows
<1>11. (others \cup {s}) \cup {v} = others \cup {s, v}
  OBVIOUS
<1>12. SettingsThere(others \cup {s, v})
  <2> SUFFICES ASSUME NEW k \in {IssuePrefix, IssueSeq}
               PROVE  \E r \in Rows("setting", others \cup {s, v}) : r.setting = k
    BY DEF SettingsThere
  <2>1. Rows("setting", others) \cup {s} \subseteq Rows("setting", others \cup {s, v})
    BY <1>4 DEF Rows
  <2>2. CASE k = IssuePrefix
    BY <1>4, <2>1, <2>2
  <2>3. CASE k # IssuePrefix
    BY <1>1, <1>7, <2>1, <2>3 DEF SettingsThere
  <2> QED
    BY <2>2, <2>3
<1>13. ~IsEmpty(others \cup {s, v})
  BY <1>4 DEF IsEmpty
<1> QED
  BY <1>10, <1>11, <1>12, <1>13, DatabaseIs DEF others, eid, s, v


LEMMA EmptyIs ==
  ASSUME NEW db, IsDatabase(db), IsEmpty(db)
  PROVE  Rows("issue", db) = {} /\ Rows("event", db) = {}
<1>1. \A row \in db : IsRow(row) /\ "setting" \in DOMAIN row
  BY DatabaseIs DEF RowsApart, IsEmpty
<1>2. \A row \in db : "issue" \notin DOMAIN row /\ "event" \notin DOMAIN row
  BY <1>1, RowKinds
<1> QED
  BY <1>2 DEF Rows

\* What trackd import linear makes of a database without data.
LEMMA LinearIs ==
  ASSUME NEW db, IsDatabase(db), IsEmpty(db), NEW csv \in Seq(Key), NEW prefix \in Dominant(csv)
  PROVE  LET new == Set(Set(db, IssuePrefix, prefix), IssueSeq, LastNumber(csv, prefix))
                      \cup {Issue(k, csv[k], 1) : k \in DOMAIN csv}
                      \cup {Event(k, csv[k], 1) : k \in DOMAIN csv}
         IN IsDatabase(new) /\ SeqAhead(new)
<1> DEFINE highest == LastNumber(csv, prefix)
           renamedDb == Set(db, IssuePrefix, prefix)
           base == Set(renamedDb, IssueSeq, highest)
           issues == {Issue(k, csv[k], 1) : k \in DOMAIN csv}
           trail == {Event(k, csv[k], 1) : k \in DOMAIN csv}
           more == issues \cup trail
           numbers == {csv[k][2] : k \in {n \in Numbered(csv) : csv[n][1] = prefix}}
           all == {0} \cup numbers
<1>1. Len(csv) \in Nat /\ DOMAIN csv = 1..Len(csv) /\ \A k \in DOMAIN csv : k \in Nat /\ csv[k] \in Key
  BY LenProperties, ElementOfSeq
<1>2. IsFiniteSet(DOMAIN csv)
  BY <1>1, FS_Interval
<1>3. \A k \in DOMAIN csv : csv[k][1] \in KeyPrefixes /\ csv[k][2] \in Nat \cup {Nothing}
  BY <1>1 DEF Key
<1>4. \A k \in Numbered(csv) : k \in DOMAIN csv /\ csv[k][1] \in KeyPrefixes /\ csv[k][2] \in Nat
  BY <1>3 DEF Numbered
<1>5. /\ prefix \in KeyPrefixes \cup {Nothing}
      /\ Numbered(csv) # {} => prefix \in KeyPrefixes
  <2> DEFINE used == {csv[k][1] : k \in Numbered(csv)}
  <2>1. used = {} <=> Numbered(csv) = {}
    OBVIOUS
  <2>2. used \subseteq KeyPrefixes
    BY <1>4
  <2>3. IF used = {} THEN prefix = Nothing ELSE prefix \in used
    BY DEF Dominant
  <2> HIDE DEF used
  <2> QED
    BY <2>1, <2>2, <2>3
<1>6. highest \in Nat /\ \A n \in numbers : highest >= n
  <2>1. highest = Max(all)
    BY DEF LastNumber
  <2>2. IsFiniteSet(all)
    <3> DEFINE some == {n \in Numbered(csv) : csv[n][1] = prefix}
               f == [k \in some |-> csv[k][2]]
    <3>1. some \subseteq DOMAIN csv
      BY <1>4
    <3>2. IsFiniteSet(some)
      BY <1>2, <3>1, FS_Subset
    <3>3. f \in Surjection(some, numbers)
      BY DEF Surjection
    <3>4. IsFiniteSet(numbers)
      BY <3>2, <3>3, FS_Surjection
    <3>5. IsFiniteSet({0})
      BY FS_Singleton
    <3> HIDE DEF numbers
    <3> QED
      BY <3>4, <3>5, FS_Union
  <2>3. all \subseteq Nat /\ all # {} /\ \A n \in numbers : n \in all
    BY <1>4
  <2> HIDE DEF all, highest, numbers
  <2> QED
    BY <2>1, <2>2, <2>3, MaxIs
<1>7. \A k \in DOMAIN csv : csv[k][2] # Nothing /\ csv[k][1] = prefix => csv[k][2] \in numbers
  BY DEF Numbered
<1> HIDE DEF numbers, all, highest
<1>8. IsRow(Setting(IssuePrefix, prefix)) /\ IsRow(Setting(IssueSeq, highest))
  BY <1>5, <1>6, RowsMade
<1>9. /\ IsDatabase(renamedDb)
      /\ Rows("issue", renamedDb) = Rows("issue", db) /\ Rows("event", renamedDb) = Rows("event", db)
      /\ \A row \in Rows("setting", renamedDb) :
           IF row.setting = IssuePrefix THEN row.value = prefix ELSE row \in Rows("setting", db)
  BY <1>8, SetIs
<1> HIDE DEF renamedDb
<1>10. /\ IsDatabase(base)
       /\ Rows("issue", base) = Rows("issue", renamedDb) /\ Rows("event", base) = Rows("event", renamedDb)
       /\ \A row \in Rows("setting", base) :
            IF row.setting = IssueSeq THEN row.value = highest ELSE row \in Rows("setting", renamedDb)
  BY <1>8, <1>9, SetIs
<1> HIDE DEF base
<1>11. NextKey(base) = <<IF prefix = Nothing THEN TSK ELSE prefix, highest + 1>>
  <2>1. PICK p \in KeyPrefixes \cup {Nothing}, q \in Nat :
          /\ \A row \in Rows("setting", base) :
               /\ row.setting = IssuePrefix => row.value = p
               /\ row.setting = IssueSeq => row.value = q
          /\ NextKey(base) = <<IF p = Nothing THEN TSK ELSE p, q + 1>>
    BY <1>10, NextKeyIs
  <2>2. IssuePrefix # IssueSeq
    BY DEF IssuePrefix, IssueSeq
  <2>3. SettingsThere(base)
    BY <1>10, DatabaseIs
  <2>4. q = highest
    BY <1>10, <2>1, <2>3 DEF SettingsThere
  <2>5. p = prefix
    BY <1>9, <1>10, <2>1, <2>2, <2>3 DEF SettingsThere
  <2> QED
    BY <2>1, <2>4, <2>5
<1>12. Rows("issue", base) = {} /\ Rows("event", base) = {}
  BY <1>9, <1>10, EmptyIs
<1>13. \A k \in DOMAIN csv :
         /\ IsRow(Issue(k, csv[k], 1)) /\ IsRow(Event(k, csv[k], 1))
         /\ Issue(k, csv[k], 1).issue = k /\ Issue(k, csv[k], 1).key = csv[k]
         /\ Event(k, csv[k], 1).event = k
         /\ DOMAIN Issue(k, csv[k], 1) = {"issue", "key", "version"}
         /\ DOMAIN Event(k, csv[k], 1) = {"event", "of", "version"}
  BY <1>1, RowsMade, RowShapes
<1>14. /\ Rows("setting", issues) = {} /\ Rows("event", issues) = {} /\ Rows("issue", issues) = issues
       /\ Rows("setting", trail) = {} /\ Rows("issue", trail) = {} /\ Rows("event", trail) = trail
  <2>1. \A row \in issues : "issue" \in DOMAIN row /\ "setting" \notin DOMAIN row /\ "event" \notin DOMAIN row
    BY <1>13
  <2>2. \A row \in trail : "event" \in DOMAIN row /\ "setting" \notin DOMAIN row /\ "issue" \notin DOMAIN row
    BY <1>13
  <2> HIDE DEF issues, trail
  <2> QED
    BY <2>1, <2>2 DEF Rows
<1>15. RowsApart(issues)
  <2> DEFINE f == [k \in DOMAIN csv |-> Issue(k, csv[k], 1)]
  <2>1. f \in Surjection(DOMAIN csv, issues)
    BY DEF Surjection
  <2>2. IsFiniteSet(issues)
    BY <1>2, <2>1, FS_Surjection
  <2>3. \A r, s \in issues : r.issue = s.issue => r = s
    BY <1>13
  <2>4. \A row \in issues : IsRow(row)
    BY <1>13
  <2> HIDE DEF issues
  <2> QED
    BY <1>14, <2>2, <2>3, <2>4 DEF RowsApart, TableNames
<1>16. RowsApart(trail)
  <2> DEFINE f == [k \in DOMAIN csv |-> Event(k, csv[k], 1)]
  <2>1. f \in Surjection(DOMAIN csv, trail)
    BY DEF Surjection
  <2>2. IsFiniteSet(trail)
    BY <1>2, <2>1, FS_Surjection
  <2>3. \A r, s \in trail : r.event = s.event => r = s
    BY <1>13
  <2>4. \A row \in trail : IsRow(row)
    BY <1>13
  <2> HIDE DEF trail
  <2> QED
    BY <1>14, <2>2, <2>3, <2>4 DEF RowsApart, TableNames
<1>17. \A row \in issues : \E k \in DOMAIN csv : row.key = csv[k]
  BY <1>13
<1> HIDE DEF issues, trail
<1>18. RowsApart(more) /\ Rows("setting", more) = {} /\ Rows("issue", more) = issues
  <2>1. \A table \in TableNames : \A r \in Rows(table, issues), s \in Rows(table, trail) : r[table] # s[table]
    BY <1>14 DEF TableNames
  <2>2. \A table \in TableNames : Rows(table, more) = Rows(table, issues) \cup Rows(table, trail)
    BY DEF Rows
  <2>3. RowsApart(more)
    BY <1>15, <1>16, <2>1, MoreRows
  <2>4. "setting" \in TableNames /\ "issue" \in TableNames
    BY DEF TableNames
  <2> QED
    BY <1>14, <2>2, <2>3, <2>4
<1> HIDE DEF more
<1>19. /\ IsDatabase(base \cup more) /\ NextKey(base \cup more) = NextKey(base)
       /\ Rows("issue", base \cup more) = Rows("issue", base) \cup Rows("issue", more)
  BY <1>10, <1>12, <1>18, RowsBeside
<1>20. SeqAhead(base \cup more)
  <2>1. NextKey(base \cup more)[1] = (IF prefix = Nothing THEN TSK ELSE prefix)
        /\ NextKey(base \cup more)[2] = highest + 1
    BY <1>11, <1>19
  <2> SUFFICES ASSUME NEW row \in issues, row.key[1] = NextKey(base \cup more)[1], row.key[2] # Nothing
               PROVE  row.key[2] < highest + 1
    BY <1>12, <1>18, <1>19, <2>1 DEF SeqAhead
  <2>2. PICK k \in DOMAIN csv : row.key = csv[k]
    BY <1>17
  <2>3. k \in Numbered(csv)
    BY <2>2 DEF Numbered
  <2>4. prefix \in KeyPrefixes /\ prefix # Nothing
    BY <1>5, <2>3, PrefixAssumption
  <2>5. csv[k][1] = prefix
    BY <2>1, <2>2, <2>4
  <2>6. csv[k][2] \in numbers /\ csv[k][2] \in Nat
    BY <1>4, <1>7, <2>2, <2>3, <2>5
  <2> QED
    BY <1>6, <2>2, <2>6
<1>21. (base \cup issues) \cup trail = base \cup more
  BY DEF more
<1> QED
  BY <1>19, <1>20, <1>21 DEF base, renamedDb, highest, issues, trail

\* Until a prefix is set, or data came in unverified, every moment has its next
\* key free.
KeysInv ==
  \/ renamed # {}
  \/ \E d \in Databases : loaded[d].how = "unverified" /\ ~IsEmpty(dbs[d])
  \/ \A db \in moments : SeqAhead(db)

LEMMA FilesStay ==
  ASSUME FilesInv, UNCHANGED <<exports, disk>>, moments \subseteq moments'
  PROVE  FilesInv'
<1>1. \A p \in DOMAIN disk' : Content(disk[p])'
  BY DEF FilesInv, Content
<1>2. \A e \in Exports : ExportInv(e)' /\ (HoldsFile(e)' <=> HoldsFile(e))
  BY DEF FilesInv, ExportInv, HoldsFile
<1>3. PublishedIsOneMoment'
  BY DEF FilesInv, PublishedIsOneMoment
<1> QED
  BY <1>1, <1>2, <1>3 DEF FilesInv

LEMMA RowsWritten ==
  ASSUME RowsInv, NEW d \in Databases, NEW db, IsDatabase(db), dbs' = [dbs EXCEPT ![d] = db],
         moments' = moments \cup {db}, NEW was,
         loaded' = loaded \/ (loaded' = [loaded EXCEPT ![d] = was] /\ (was.how = "dump" => was.rows = db))
  PROVE  RowsInv' /\ dbs'[d] = db /\ \A o \in Databases : o # d => dbs'[o] = dbs[o]
<1>1. /\ DOMAIN dbs' = Databases /\ dbs'[d] = db /\ \A o \in Databases : o # d => dbs'[o] = dbs[o]
      /\ DOMAIN loaded' = Databases /\ \A o \in Databases : o # d => loaded'[o] = loaded[o]
      /\ \/ loaded'[d] = loaded[d]
         \/ loaded'[d] = was /\ (was.how = "dump" => was.rows = db)
  BY DEF RowsInv
<1>2. \A o \in Databases : dbs'[o] \in moments'
  BY <1>1 DEF RowsInv
<1>3. \A m \in moments' : IsDatabase(m)
  BY DEF RowsInv
<1>4. ImportedIsExported'
  BY <1>1 DEF RowsInv, ImportedIsExported
<1> QED
  BY <1>1, <1>2, <1>3, <1>4 DEF RowsInv


LEMMA WriteStep ==
  ASSUME RowsInv, FilesInv, KeysInv, WriteNext
  PROVE  RowsInv' /\ FilesInv' /\ KeysInv'
<1>1. PICK d \in Databases :
        \/ CreateIssue(d) \/ UpdateIssue(d)
        \/ \E prefix \in KeyPrefixes : SetPrefix(d, prefix)
        \/ \E csv \in LinearExports : ImportLinear(d, csv)
        \/ \E unverified \in BOOLEAN : ImportDump(d, unverified)
  BY DEF WriteNext
<1>2. dbs[d] \in moments /\ IsDatabase(dbs[d]) /\ DOMAIN dbs = Databases /\ DOMAIN loaded = Databases
  BY DEF RowsInv
<1>3. ASSUME NEW db, Wrote(d, db)
      PROVE  dbs' = [dbs EXCEPT ![d] = db] /\ moments' = moments \cup {db} /\ FilesInv'
  <2>1. dbs' = [dbs EXCEPT ![d] = db] /\ moments' = moments \cup {db} /\ UNCHANGED <<exports, disk>>
    BY <1>3 DEF Wrote
  <2> QED
    BY <2>1, FilesStay
<1>4. ASSUME NEW db, IsDatabase(db), SeqAhead(dbs[d]) => SeqAhead(db), ~IsEmpty(db),
             Wrote(d, db), UNCHANGED <<loaded, renamed>>
      PROVE  RowsInv' /\ FilesInv' /\ KeysInv'
  <2>1. dbs' = [dbs EXCEPT ![d] = db] /\ moments' = moments \cup {db} /\ FilesInv'
    BY <1>3, <1>4
  <2>2. RowsInv' /\ dbs'[d] = db /\ \A o \in Databases : o # d => dbs'[o] = dbs[o]
    BY <1>4, <2>1, RowsWritten
  <2>3. KeysInv'
    BY <1>2, <1>4, <2>1, <2>2 DEF KeysInv
  <2> QED
    BY <2>1, <2>2, <2>3
<1>5. CASE CreateIssue(d)
  <2> DEFINE key == NextKey(dbs[d])
             new == Set(dbs[d], IssueSeq, key[2]) \cup
                      {Issue(NextId("issue", dbs[d]), key, 1), Event(NextId("event", dbs[d]), key, 1)}
  <2>1. Wrote(d, new) /\ UNCHANGED <<loaded, renamed>>
    BY <1>5 DEF CreateIssue
  <2>2. IsDatabase(new) /\ (SeqAhead(dbs[d]) => SeqAhead(new)) /\ ~IsEmpty(new)
    BY <1>2, CreateIs
  <2> HIDE DEF new
  <2> QED
    BY <1>4, <2>1, <2>2
<1>6. CASE UpdateIssue(d)
  <2>1. PICK row \in Rows("issue", dbs[d]) :
          /\ Wrote(d, (dbs[d] \ {row}) \cup
               {Issue(row.issue, row.key, row.version + 1),
                Event(NextId("event", dbs[d]), row.key, row.version + 1)})
          /\ UNCHANGED <<loaded, renamed>>
    BY <1>6 DEF UpdateIssue
  <2> DEFINE new == (dbs[d] \ {row}) \cup
               {Issue(row.issue, row.key, row.version + 1),
                Event(NextId("event", dbs[d]), row.key, row.version + 1)}
  <2>2. IsDatabase(new) /\ (SeqAhead(dbs[d]) => SeqAhead(new)) /\ ~IsEmpty(new)
    BY <1>2, UpdateIs
  <2>3. Wrote(d, new)
    BY <2>1
  <2> HIDE DEF new
  <2> QED
    BY <1>4, <2>1, <2>2, <2>3
<1>7. ASSUME NEW prefix \in KeyPrefixes, SetPrefix(d, prefix)
      PROVE  RowsInv' /\ FilesInv' /\ KeysInv'
  <2> DEFINE others == {row \in dbs[d] : ~("setting" \in DOMAIN row /\ row.setting = IssuePrefix)}
             new == others \cup
               {Setting(IssuePrefix, prefix), Event(NextId("event", dbs[d]), Nothing, 0)}
  <2>1. Wrote(d, new) /\ renamed' = renamed \cup {d} /\ UNCHANGED loaded
    BY <1>7 DEF SetPrefix
  <2>2. IsDatabase(new)
    BY <1>2, PrefixIs
  <2> HIDE DEF new
  <2>3. dbs' = [dbs EXCEPT ![d] = new] /\ moments' = moments \cup {new} /\ FilesInv'
    BY <1>3, <2>1
  <2>4. RowsInv'
    BY <2>1, <2>2, <2>3, RowsWritten
  <2>5. KeysInv'
    BY <2>1 DEF KeysInv
  <2> QED
    BY <2>3, <2>4, <2>5
<1>8. ASSUME NEW csv \in LinearExports, ImportLinear(d, csv)
      PROVE  RowsInv' /\ FilesInv' /\ KeysInv'
  <2>1. IsEmpty(dbs[d]) /\ UNCHANGED renamed
    BY <1>8 DEF ImportLinear, Importable
  <2>2. PICK prefix \in Dominant(csv) :
          LET db == Set(Set(dbs[d], IssuePrefix, prefix), IssueSeq, LastNumber(csv, prefix))
                      \cup {Issue(k, csv[k], 1) : k \in DOMAIN csv}
                      \cup {Event(k, csv[k], 1) : k \in DOMAIN csv}
          IN /\ Wrote(d, db)
             /\ loaded' = [loaded EXCEPT ![d] = [how |-> "linear", rows |-> db]]
    BY <1>8 DEF ImportLinear
  <2> DEFINE new == Set(Set(dbs[d], IssuePrefix, prefix), IssueSeq, LastNumber(csv, prefix))
                      \cup {Issue(k, csv[k], 1) : k \in DOMAIN csv}
                      \cup {Event(k, csv[k], 1) : k \in DOMAIN csv}
             was == [how |-> "linear", rows |-> new]
  <2>3. csv \in Seq(Key)
    BY LinearAssumption
  <2>4. IsDatabase(new) /\ SeqAhead(new)
    BY <1>2, <2>1, <2>3, LinearIs
  <2>5. Wrote(d, new) /\ loaded' = [loaded EXCEPT ![d] = was]
    BY <2>2
  <2>6. was.how = "linear"
    OBVIOUS
  <2> HIDE DEF new, was
  <2>7. dbs' = [dbs EXCEPT ![d] = new] /\ moments' = moments \cup {new} /\ FilesInv'
    BY <1>3, <2>5
  <2>8. RowsInv' /\ \A o \in Databases : o # d => dbs'[o] = dbs[o]
    BY <2>4, <2>5, <2>6, <2>7, RowsWritten
  <2>9. \A o \in Databases : o # d => loaded'[o] = loaded[o]
    BY <1>2, <2>5
  <2>10. KeysInv'
    BY <2>1, <2>4, <2>7, <2>8, <2>9 DEF KeysInv
  <2> QED
    BY <2>7, <2>8, <2>10
<1>9. ASSUME NEW unverified \in BOOLEAN, ImportDump(d, unverified)
      PROVE  RowsInv' /\ FilesInv' /\ KeysInv'
  <2>1. PICK lines \in Travelled :
          /\ HeaderRead(lines)
          /\ IF Sealed(lines) THEN Whole(lines) ELSE unverified
          /\ Loads(Body(lines))
          /\ dbs' = [dbs EXCEPT ![d] = Brought(lines)]
          /\ loaded' = [loaded EXCEPT ![d] =
               [how |-> IF Sealed(lines) THEN "dump" ELSE "unverified", rows |-> Brought(lines)]]
          /\ moments' = IF Sealed(lines) THEN moments ELSE moments \cup {Brought(lines)}
    BY <1>9 DEF ImportDump
  <2>2. IsEmpty(dbs[d]) /\ UNCHANGED <<exports, disk, renamed>>
    BY <1>9 DEF ImportDump
  <2> DEFINE new == Brought(lines)
             was == [how |-> IF Sealed(lines) THEN "dump" ELSE "unverified", rows |-> new]
  <2>3. \/ Sealed(lines) /\ new \in moments
        \/ lines \in OtherDumps /\ ~Sealed(lines)
    <3>1. \A p \in DOMAIN disk : Content(disk[p])
      BY DEF FilesInv
    <3>2. \A db \in moments : IsDatabase(db)
      BY DEF RowsInv
    <3> QED
      BY <2>1, <3>1, <3>2, TravelledIs
  <2>4. IsDatabase(new)
    <3>1. CASE new \in moments
      BY <3>1 DEF RowsInv
    <3>2. CASE lines \in OtherDumps
      BY <2>1, <3>2, OtherDumpAssumption
    <3> QED
      BY <2>3, <3>1, <3>2
  <2>5. moments' = moments \cup {new} /\ dbs' = [dbs EXCEPT ![d] = new]
    BY <2>1, <2>3
  <2>6. loaded' = [loaded EXCEPT ![d] = was] /\ was.rows = new
        /\ was.how = IF Sealed(lines) THEN "dump" ELSE "unverified"
    BY <2>1
  <2> HIDE DEF new, was
  <2>7. RowsInv' /\ dbs'[d] = new /\ \A o \in Databases : o # d => dbs'[o] = dbs[o]
    BY <2>4, <2>5, <2>6, RowsWritten
  <2>8. FilesInv'
    BY <2>2, <2>5, FilesStay
  <2>9. loaded'[d] = was /\ \A o \in Databases : o # d => loaded'[o] = loaded[o]
    BY <1>2, <2>6
  <2>10. KeysInv'
    <3>1. CASE renamed # {}
      BY <2>2, <3>1 DEF KeysInv
    <3>2. CASE \E o \in Databases : loaded[o].how = "unverified" /\ ~IsEmpty(dbs[o])
      BY <2>2, <2>7, <2>9, <3>2 DEF KeysInv
    <3>3. CASE \A db \in moments : SeqAhead(db)
      <4>1. CASE new \in moments
        BY <2>5, <3>3, <4>1 DEF KeysInv
      <4>2. CASE ~Sealed(lines) /\ ~IsEmpty(new)
        BY <2>6, <2>7, <2>9, <4>2 DEF KeysInv
      <4>3. CASE IsEmpty(new)
        <5>1. SeqAhead(new)
          BY <2>4, <4>3, EmptyIs DEF SeqAhead
        <5> QED
          BY <2>5, <3>3, <5>1 DEF KeysInv
      <4> QED
        BY <2>3, <4>1, <4>2, <4>3
    <3> QED
      BY <3>1, <3>2, <3>3 DEF KeysInv
  <2> QED
    BY <2>7, <2>8, <2>10
<1> QED
  BY <1>1, <1>5, <1>6, <1>7, <1>8, <1>9

\* The inductive invariant of the dumps: what the databases hold, what the files
\* hold against the moments the databases were in, and the numbers of the issues.
DumpInv == RowsInv /\ FilesInv /\ KeysInv

LEMMA DumpInit ==
  ASSUME Init
  PROVE  DumpInv
<1>1. /\ dbs = [d \in Databases |-> Fresh] /\ exports = [e \in Exports |-> Off] /\ disk = << >>
      /\ loaded = [d \in Databases |-> [how |-> "created", rows |-> Fresh]]
      /\ moments = {Fresh}
  BY DEF Init
<1>2. \A e \in Exports : exports[e].at = "off"
  BY <1>1 DEF Off
<1>3. DOMAIN disk = {}
  BY <1>1
<1>4. RowsInv
  BY <1>1, FreshDatabaseIs DEF RowsInv, ImportedIsExported
<1>5. FilesInv
  BY <1>1, <1>2, <1>3 DEF FilesInv, ExportInv, HoldsFile, PublishedIsOneMoment
<1>6. KeysInv
  BY <1>1, FreshDatabaseIs DEF KeysInv
<1> QED
  BY <1>4, <1>5, <1>6 DEF DumpInv

LEMMA DumpStep ==
  ASSUME DumpInv, [Next]_vars
  PROVE  DumpInv'
<1> USE DEF DumpInv
<1>1. CASE WriteNext
  BY <1>1, WriteStep
<1>2. ASSUME FilesInv', UNCHANGED <<dbs, loaded, renamed, moments>> PROVE DumpInv'
  <2>1. RowsInv'
    BY <1>2 DEF RowsInv, ImportedIsExported
  <2>2. KeysInv'
    BY <1>2 DEF KeysInv
  <2> QED
    BY <1>2, <2>1, <2>2
<1>3. CASE ExportNext
  BY <1>2, <1>3, ExportStep DEF ExportNext
<1>4. CASE Clean
  BY <1>2, <1>4, CleanStep
<1>5. CASE UNCHANGED vars
  <2>1. UNCHANGED <<exports, disk>> /\ UNCHANGED <<dbs, loaded, renamed, moments>>
    BY <1>5 DEF vars
  <2>2. FilesInv'
    BY <2>1, FilesStay
  <2> QED
    BY <1>2, <2>1, <2>2
<1> QED
  BY <1>1, <1>3, <1>4, <1>5 DEF Next

LEMMA DumpInvHolds == DumpSpec => []DumpInv
  BY DumpInit, DumpStep, PTL DEF DumpSpec

\* What stands under the name given to --out is a whole dump of a moment, for
\* any number of exports to that name and of writers beside them, whenever an
\* export fails, is killed, or finds its file in the way.
THEOREM PublishedHolds == DumpSpec => []PublishedIsOneMoment
<1>1. DumpInv => PublishedIsOneMoment
  BY DEF DumpInv, FilesInv
<1> QED
  BY <1>1, DumpInvHolds, PTL

\* A database loaded from a dump with its end record has the rows of a moment,
\* whatever databases, however long, were exported, and whichever of their dumps
\* was cut, lost or changed a line, or was doubled.
THEOREM ImportedHolds == DumpSpec => []ImportedIsExported
<1>1. DumpInv => ImportedIsExported
  BY DEF DumpInv, RowsInv
<1> QED
  BY <1>1, DumpInvHolds, PTL

\* Without a change of prefix or an unverified import the next key is free, in
\* every database, whatever it was loaded from.
THEOREM KeysHold == DumpSpec => []KeysContinue
<1>1. DumpInv => KeysContinue
  <2> SUFFICES ASSUME DumpInv, renamed = {}, \A d \in Databases : loaded[d].how # "unverified",
                      NEW d \in Databases
               PROVE  NextKeyFree(d)
    BY DEF KeysContinue
  <2>1. dbs[d] \in moments /\ IsDatabase(dbs[d]) /\ SeqAhead(dbs[d])
    BY DEF DumpInv, RowsInv, KeysInv
  <2> QED
    BY <2>1, AheadIsFree DEF NextKeyFree
<1> QED
  BY <1>1, DumpInvHolds, PTL
===============================================================================
