--------------------------- MODULE Lifecycle_proofs ---------------------------
(***************************************************************************)
(* Proofs about the database file, for any number of processes, schemas,   *)
(* restores and writes.  The inductive invariant says, for as long as no   *)
(* writer opened a file that a restore was writing, who may touch the file *)
(* (HolderSound, RestoreSound) and where each of its rows is kept          *)
(* (RowsKept).                                                             *)
(***************************************************************************)
EXTENDS LifecycleProperties, TLAPS

\* A process that has the file open, at whatever stage.
Past(w) == writers[w] \in {"opened", "migrating", "open"}

\* A restore that has created its file.
Busy(r) == restores[r].at \in {"created", "copied"}

\* The row is in a snapshot of the schema it was made under.
Kept(row) == \E s \in snapshots : s.schema = row[2] /\ row \in s.rows

\* What a file or a snapshot holds was made under its schema or an older one,
\* and what is older is kept.
Sound(f) ==
  \A row \in f.rows :
    /\ row[2] \in 1..f.schema
    /\ row[2] < f.schema => Kept(row)

HolderSound ==
  \A w \in Writers : Past(w) =>
    /\ db # None /\ db.part # "torn"
    /\ \A r \in Restores : ~Busy(r)
    /\ writers[w] = "migrating" => \A row \in db.rows : Kept(row)
    /\ writers[w] = "open" => db.part = "whole" /\ db.schema = Schemas[w]

RestoreSound ==
  \A r \in Restores :
    /\ Busy(r) =>
         /\ db # None /\ sidecars = "none"
         /\ restores[r].at = "created" => db.rows = {}
         /\ restores[r].at = "copied" => db.part # "torn"
         /\ \A q \in Restores : Busy(q) => q = r
    /\ restores[r].at # "off" =>
         /\ restores[r].from \in snapshots
         /\ db = None => sidecars = "none"

RowsKept ==
  /\ db # None => Sound(db) /\ (db.part = "empty" => db.schema = 0)
  /\ \A s \in snapshots : Sound(s)

FileInv == HolderSound /\ RestoreSound /\ RowsKept

LifecycleInv ==
  /\ LifecycleTypeOK
  /\ OneHolder
  /\ overlapped \/ FileInv

-----------------------------------------------------------------------------
(***************************************************************************)
(* Types and the lock.                                                     *)
(***************************************************************************)
LEMMA InitLifecycle == Init => LifecycleInv
  <1> SUFFICES ASSUME Init PROVE LifecycleInv
    OBVIOUS
  <1>1. Waiting \in Restore /\ Waiting.at = "off"
    BY DEF Waiting, Restore
  <1>2. LifecycleTypeOK
    <2>1. DOMAIN restores = Restores /\ \A r \in Restores : restores[r] \in Restore
      BY <1>1 DEF Init
    <2>2. writes \in 0..MaxWrites
      BY WritesAssumption DEF Init
    <2>3. overlapped \in BOOLEAN
      BY DEF Init
    <2> QED
      BY <2>1, <2>2, <2>3 DEF Init, LifecycleTypeOK
  <1>3. HolderSound /\ OneHolder
    BY DEF Init, HolderSound, Past, OneHolder
  <1>4. RestoreSound
    BY <1>1 DEF Init, RestoreSound, Busy
  <1>5. RowsKept
    BY DEF Init, RowsKept
  <1> QED
    BY <1>2, <1>3, <1>4, <1>5 DEF LifecycleInv, FileInv

LEMMA WrittenFile ==
  ASSUME LifecycleTypeOK, NEW w \in Writers, Write(w)
  PROVE  /\ db' \in File
         /\ db'.rows = db.rows \cup {<<writes + 1, db.schema>>}
         /\ db'.schema = db.schema /\ db'.part = db.part
  <1> DEFINE row == <<writes + 1, db.schema>>
  <1>1. db \in File /\ row \in Row
    BY DEF Write, LifecycleTypeOK, Row, File
  <1>2. db' = [db EXCEPT !.rows = @ \cup {row}]
    BY DEF Write
  <1> HIDE DEF row
  <1>3. db' \in File /\ db'.rows = db.rows \cup {row}
    BY <1>1, <1>2 DEF File
  <1>4. db'.schema = db.schema /\ db'.part = db.part
    BY <1>1, <1>2 DEF File
  <1> QED
    BY <1>3, <1>4 DEF row

LEMMA WriterStepType ==
  ASSUME LifecycleTypeOK, NEW w \in Writers,
         SnapshotBeforeMigration(w) \/ Backup(w) \/ OpenFile(w) \/ Migrate(w)
           \/ Write(w) \/ Close(w) \/ Kill(w) \/ Lock(w)
  PROVE  LifecycleTypeOK'
  <1>1. db # None => db \in File
    BY DEF LifecycleTypeOK
  <1>2. Schemas[w] \in Nat \ {0}
    BY SchemaAssumption
  <1>3. CASE SnapshotBeforeMigration(w) \/ Backup(w)
    <2> DEFINE s == [schema |-> db.schema, rows |-> db.rows]
    <2>1. s \in Snapshot
      BY <1>1, <1>3 DEF SnapshotBeforeMigration, Backup, File, Snapshot
    <2>2. snapshots' = snapshots \cup {s}
      BY <1>3 DEF SnapshotBeforeMigration, Backup
    <2> HIDE DEF s
    <2> QED
      BY <1>3, <2>1, <2>2 DEF SnapshotBeforeMigration, Backup, LifecycleTypeOK, Restore
  <1>4. CASE OpenFile(w)
    <2>1. Opened \in File
      BY <1>1 DEF Opened, NewFile, File
    <2> QED
      BY <1>4, <2>1 DEF OpenFile, LifecycleTypeOK
  <1>5. CASE Migrate(w)
    <2>1. db \in File /\ db.schema \in Nat
      BY <1>1, <1>5 DEF Migrate, File
    <2> DEFINE n == db.schema + 1
    <2>2. n \in Nat /\ db' = [db EXCEPT !.schema = n, !.part = "whole"]
      BY <1>5, <2>1 DEF Migrate
    <2> HIDE DEF n
    <2>3. db' \in File
      BY <2>1, <2>2 DEF File
    <2> QED
      BY <1>5, <2>3 DEF Migrate, LifecycleTypeOK
  <1>6. CASE Write(w)
    BY <1>6, WrittenFile, WritesAssumption DEF Write, LifecycleTypeOK
  <1>7. CASE Close(w) \/ Kill(w) \/ Lock(w)
    BY <1>7 DEF Close, Kill, Lock, LifecycleTypeOK
  <1> QED
    BY <1>3, <1>4, <1>5, <1>6, <1>7

LEMMA RestoreStepType ==
  ASSUME LifecycleTypeOK, NEW r \in Restores,
         \/ \E s \in snapshots : CheckPath(r, s)
         \/ CreateFile(r) \/ Copy(r) \/ CopyFails(r) \/ Verify(r) \/ KillRestore(r)
  PROVE  LifecycleTypeOK'
  <1>1. /\ db # None => db \in File
        /\ restores[r] \in Restore /\ Waiting \in Restore
        /\ \A s \in snapshots : s \in Snapshot
    BY DEF LifecycleTypeOK, Waiting, Restore
  <1>2. ASSUME NEW row \in Restore, restores' = [restores EXCEPT ![r] = row],
               db' = None \/ db' \in File,
               UNCHANGED <<sidecars, snapshots, writers, writes, overlapped>>
        PROVE  LifecycleTypeOK'
    BY <1>2 DEF LifecycleTypeOK
  <1>3. ASSUME NEW s \in snapshots, CheckPath(r, s)
        PROVE  LifecycleTypeOK'
    <2>1. [at |-> "checked", from |-> s] \in Restore
      BY <1>1 DEF Restore
    <2> QED
      BY <1>1, <1>2, <1>3, <2>1 DEF CheckPath
  <1>4. ASSUME restores[r].at # "off", NEW at \in {"created", "copied"},
               restores' = [restores EXCEPT ![r].at = at],
               db' \in File,
               UNCHANGED <<sidecars, snapshots, writers, writes, overlapped>>
        PROVE  LifecycleTypeOK'
    <2> DEFINE row == [restores[r] EXCEPT !.at = at]
    <2>1. row \in Restore
      BY <1>1, <1>4 DEF Restore
    <2>2. restores' = [restores EXCEPT ![r] = row]
      BY <1>4
    <2> HIDE DEF row
    <2> QED
      BY <1>2, <1>4, <2>1, <2>2
  <1>5. CASE CreateFile(r)
    BY <1>1, <1>2, <1>4, <1>5 DEF CreateFile, NewFile, File
  <1>6. CASE Copy(r)
    <2>1. restores[r].from \in Snapshot
      BY <1>1, <1>6 DEF Copy, Restore
    <2>2. db' \in File
      BY <1>6, <2>1 DEF Copy, Snapshot, File
    <2> QED
      BY <1>4, <1>6, <2>2 DEF Copy
  <1>7. CASE CopyFails(r) \/ Verify(r)
    BY <1>1, <1>2, <1>7 DEF CopyFails, Verify
  <1>8. CASE KillRestore(r)
    BY <1>1, <1>2, <1>8 DEF KillRestore, File
  <1> QED
    BY <1>3, <1>5, <1>6, <1>7, <1>8

LEMMA NextLifecycleType == LifecycleTypeOK /\ [Next]_vars => LifecycleTypeOK'
  <1>1. ASSUME LifecycleTypeOK, \E b \in BOOLEAN : MoveAside(b)
        PROVE  LifecycleTypeOK'
    BY <1>1 DEF MoveAside, LifecycleTypeOK
  <1>2. ASSUME LifecycleTypeOK, UNCHANGED vars
        PROVE  LifecycleTypeOK'
    BY <1>2 DEF vars, LifecycleTypeOK
  <1> QED
    BY <1>1, <1>2, WriterStepType, RestoreStepType DEF Next, WriterNext, RestoreNext

\* A process takes the lock when nobody has it, and goes on from where it was.
LEMMA NextOneHolder ==
  ASSUME LifecycleTypeOK, OneHolder, [Next]_vars
  PROVE  OneHolder'
  <1>1. ASSUME NEW w \in Writers, NEW at, writers' = [writers EXCEPT ![w] = at],
               writers[w] # "off" \/ LockFree
        PROVE  OneHolder'
    BY <1>1 DEF OneHolder, LockFree, LifecycleTypeOK
  <1>2. CASE UNCHANGED writers
    BY <1>2 DEF OneHolder
  <1>3. ASSUME NEW w \in Writers,
               \/ Lock(w) \/ OpenFile(w) \/ SnapshotBeforeMigration(w) \/ Migrate(w)
               \/ Write(w) \/ Close(w) \/ Kill(w) \/ Backup(w)
        PROVE  OneHolder'
    BY <1>1, <1>2, <1>3
    DEF Lock, OpenFile, SnapshotBeforeMigration, Migrate, Write, Close, Kill, Backup
  <1>4. ASSUME RestoreNext \/ (\E b \in BOOLEAN : MoveAside(b)) \/ UNCHANGED vars
        PROVE  UNCHANGED writers
    BY <1>4 DEF RestoreNext, CheckPath, CreateFile, Copy, CopyFails, Verify,
                KillRestore, MoveAside, vars
  <1> QED
    BY <1>2, <1>3, <1>4 DEF Next, WriterNext

-----------------------------------------------------------------------------
(***************************************************************************)
(* The file and the snapshots, one action at a time.                       *)
(***************************************************************************)
LEMMA FileTypes ==
  ASSUME LifecycleTypeOK
  PROVE  /\ db # None => db \in File
         /\ \A f \in File : f # None
         /\ \A s \in snapshots : s \in Snapshot
         /\ \A w \in Writers : Schemas[w] \in Nat \ {0}
  BY SchemaAssumption, NoneAssumption DEF LifecycleTypeOK

LEMMA KeptStays ==
  ASSUME snapshots \subseteq snapshots', NEW row, Kept(row)
  PROVE  Kept(row)'
  BY DEF Kept

\* A writer that has the lock is the only one with the file.
LEMMA Alone ==
  ASSUME OneHolder, NEW w \in Writers, writers[w] # "off"
  PROVE  \A v \in Writers : v # w => writers[v] = "off"
  BY DEF OneHolder

LEMMA LockKeeps ==
  ASSUME LifecycleTypeOK, FileInv, NEW w \in Writers, Lock(w)
  PROVE  FileInv'
  BY DEF LifecycleTypeOK, Lock, FileInv, HolderSound, RestoreSound, RowsKept, Sound,
         Kept, Past, Busy

LEMMA OpenFileKeeps ==
  ASSUME LifecycleTypeOK, OneHolder, FileInv, NEW w \in Writers, OpenFile(w),
         ~overlapped'
  PROVE  FileInv'
  <1>1. /\ \A r \in Restores : ~Busy(r)
        /\ \A v \in Writers : v # w => writers[v] = "off"
        /\ UNCHANGED <<snapshots, restores>>
    BY Alone DEF OpenFile, Restoring, Busy
  <1>2. Opened \in File /\ Opened # None /\ db' = Opened
    BY FileTypes DEF OpenFile, Opened, NewFile, File
  <1>3. /\ Sound(Opened)
        /\ Opened.part = "empty" => Opened.schema = 0
    <2>1. CASE db = None
      BY <2>1 DEF Opened, NewFile, Sound
    <2>2. CASE db # None
      BY <2>2, FileTypes DEF Opened, FileInv, RowsKept, Sound, File
    <2> QED
      BY <2>1, <2>2
  <1>4. RowsKept'
    BY <1>1, <1>2, <1>3 DEF FileInv, RowsKept, Sound, Kept
  <1>5. RestoreSound'
    BY <1>1, <1>2 DEF FileInv, RestoreSound, Busy
  <1>6. /\ writers'[w] \in {"opened", "migrating", "open"} => Accepts(Opened, w)
        /\ writers'[w] = "migrating" => Opened.schema = 0
        /\ writers'[w] = "open" => Opened.schema >= Schemas[w]
        /\ \A v \in Writers : v # w => writers'[v] = writers[v]
    BY <1>2 DEF OpenFile, ToKeep, LifecycleTypeOK, File
  <1>7. Opened.schema = 0 => Opened.rows = {}
    BY <1>3 DEF Sound
  <1>8. ASSUME writers'[w] \in {"opened", "migrating", "open"}
        PROVE  /\ Opened.part # "torn"
               /\ writers'[w] = "migrating" => Opened.rows = {}
               /\ writers'[w] = "open" =>
                    Opened.part = "whole" /\ Opened.schema = Schemas[w]
    BY <1>2, <1>3, <1>6, <1>7, <1>8, FileTypes DEF Accepts, File
  <1>9. HolderSound'
    BY <1>1, <1>2, <1>6, <1>8 DEF HolderSound, Past, Busy, Kept
  <1> QED
    BY <1>4, <1>5, <1>9 DEF FileInv

\* A copy of the file joins the snapshots.
LEMMA CopyKept ==
  ASSUME LifecycleTypeOK, RowsKept, db # None,
         snapshots' = snapshots \cup {[schema |-> db.schema, rows |-> db.rows]},
         UNCHANGED db
  PROVE  /\ RowsKept'
         /\ snapshots \subseteq snapshots'
         /\ \A row \in db.rows : Kept(row)'
  <1> DEFINE copy == [schema |-> db.schema, rows |-> db.rows]
  <1>1. Sound(db) /\ db \in File
    BY FileTypes DEF RowsKept
  <1>2. snapshots \subseteq snapshots' /\ copy \in snapshots'
    OBVIOUS
  <1>3. copy.schema = db.schema /\ copy.rows = db.rows
    OBVIOUS
  <1>4. \A s \in snapshots' : s \in snapshots \/ s = copy
    OBVIOUS
  <1> HIDE DEF copy
  <1>5. \A row : Kept(row) => Kept(row)'
    BY <1>2, KeptStays
  <1>6. Sound(db)'
    BY <1>1, <1>5 DEF Sound
  <1>7. \A s \in snapshots' : Sound(s)'
    BY <1>1, <1>3, <1>4, <1>5 DEF RowsKept, Sound
  <1>8. ASSUME NEW row \in db.rows
        PROVE  Kept(row)'
    <2>1. CASE row[2] < db.schema
      BY <1>1, <1>5, <2>1 DEF Sound
    <2>2. CASE row[2] = db.schema
      BY <1>2, <1>3, <2>2 DEF Kept
    <2> QED
      BY <1>1, <2>1, <2>2 DEF Sound, File
  <1> QED
    BY <1>2, <1>6, <1>7, <1>8 DEF RowsKept

LEMMA SnapshotKeeps ==
  ASSUME LifecycleTypeOK, OneHolder, FileInv, NEW w \in Writers,
         SnapshotBeforeMigration(w) \/ Backup(w)
  PROVE  FileInv'
  <1>1. /\ RowsKept' /\ snapshots \subseteq snapshots'
        /\ \A row \in db.rows : Kept(row)'
        /\ UNCHANGED <<db, sidecars, restores>>
    BY CopyKept DEF SnapshotBeforeMigration, Backup, FileInv
  <1>2. RestoreSound'
    BY <1>1 DEF FileInv, RestoreSound, Busy
  <1>3. \A v \in Writers :
          /\ Past(v)' <=> Past(v)
          /\ writers'[v] = "open" <=> writers[v] = "open"
    BY DEF SnapshotBeforeMigration, Backup, Past, LifecycleTypeOK
  <1>4. HolderSound'
    BY <1>1, <1>3 DEF FileInv, HolderSound, Busy
  <1> QED
    BY <1>1, <1>2, <1>4 DEF FileInv

LEMMA MigrateKeeps ==
  ASSUME LifecycleTypeOK, OneHolder, FileInv, NEW w \in Writers, Migrate(w)
  PROVE  FileInv'
  <1>1. /\ db \in File /\ db # None /\ db.schema \in Nat
        /\ \A v \in Writers : v # w => writers[v] = "off"
        /\ \A r \in Restores : ~Busy(r)
        /\ \A row \in db.rows : Kept(row)
        /\ UNCHANGED <<snapshots, restores>>
    BY Alone, FileTypes DEF Migrate, FileInv, HolderSound, Past, File
  <1> DEFINE n == db.schema + 1
  <1>2. n \in Nat /\ db' = [db EXCEPT !.schema = n, !.part = "whole"]
    BY <1>1 DEF Migrate
  <1>3. /\ writers'[w] = "open" => n = Schemas[w]
        /\ \A v \in Writers : v # w => writers'[v] = writers[v]
    BY DEF Migrate, LifecycleTypeOK
  <1>4. n > db.schema
    BY <1>1
  <1> HIDE DEF n
  <1>5. /\ db' \in File /\ db' # None
        /\ db'.rows = db.rows /\ db'.schema = n /\ db'.part = "whole"
    BY <1>1, <1>2, FileTypes DEF File
  <1>6. Sound(db)'
    <2>1. \A row \in db.rows : row[2] \in 1..n
      BY <1>1, <1>2, <1>4 DEF FileInv, RowsKept, Sound
    <2> QED
      BY <1>1, <1>5, <2>1 DEF Sound, Kept
  <1>7. RowsKept'
    BY <1>1, <1>5, <1>6 DEF FileInv, RowsKept, Sound, Kept
  <1>8. HolderSound'
    BY <1>1, <1>3, <1>5 DEF HolderSound, Past, Busy, Kept
  <1>9. RestoreSound'
    BY <1>1, <1>5 DEF FileInv, RestoreSound, Busy
  <1> QED
    BY <1>7, <1>8, <1>9 DEF FileInv

LEMMA WriteKeeps ==
  ASSUME LifecycleTypeOK, OneHolder, FileInv, NEW w \in Writers, Write(w)
  PROVE  FileInv'
  <1> DEFINE new == <<writes + 1, db.schema>>
  <1>1. /\ db \in File /\ db # None /\ db.schema \in Nat \ {0}
        /\ \A v \in Writers : v # w => writers[v] = "off"
        /\ \A r \in Restores : ~Busy(r)
        /\ db.part = "whole" /\ writers[w] = "open"
        /\ UNCHANGED <<snapshots, restores, writers>>
    BY Alone, FileTypes DEF Write, FileInv, HolderSound, Past
  <1>2. new[2] = db.schema
    OBVIOUS
  <1>3. /\ db'.rows = db.rows \cup {new}
        /\ db'.schema = db.schema /\ db'.part = "whole"
        /\ db' # None
    BY WrittenFile, FileTypes, <1>1
  <1> HIDE DEF new
  <1>4. Sound(db)'
    BY <1>1, <1>2, <1>3 DEF FileInv, RowsKept, Sound, Kept
  <1>5. RowsKept'
    BY <1>1, <1>3, <1>4 DEF FileInv, RowsKept, Sound, Kept
  <1>6. HolderSound'
    BY <1>1, <1>3 DEF FileInv, HolderSound, Past, Busy, Kept
  <1>7. RestoreSound'
    BY <1>1, <1>3 DEF FileInv, RestoreSound, Busy
  <1> QED
    BY <1>5, <1>6, <1>7 DEF FileInv

LEMMA CloseKeeps ==
  ASSUME LifecycleTypeOK, OneHolder, FileInv, NEW w \in Writers, Close(w) \/ Kill(w)
  PROVE  FileInv'
  <1>1. /\ \A v \in Writers : ~Past(v)'
        /\ UNCHANGED <<db, snapshots, restores>>
        /\ sidecars' \in {sidecars, "none"}
    BY Alone DEF Close, Kill, Past, LifecycleTypeOK
  <1> QED
    BY <1>1 DEF FileInv, HolderSound, RestoreSound, RowsKept, Sound, Kept, Busy

LEMMA CheckPathKeeps ==
  ASSUME LifecycleTypeOK, FileInv, NEW r \in Restores, NEW s \in snapshots,
         CheckPath(r, s)
  PROVE  FileInv'
  <1>1. /\ \A q \in Restores : Busy(q)' <=> Busy(q)
        /\ \A q \in Restores : q # r => restores'[q] = restores[q]
        /\ restores'[r] = [at |-> "checked", from |-> s]
        /\ UNCHANGED <<db, sidecars, snapshots, writers>>
        /\ db = None /\ sidecars = "none"
    BY DEF CheckPath, PathClear, Busy, LifecycleTypeOK
  <1>2. RestoreSound'
    BY <1>1 DEF FileInv, RestoreSound
  <1>3. HolderSound'
    BY <1>1 DEF FileInv, HolderSound, Past, Kept
  <1> QED
    BY <1>1, <1>2, <1>3 DEF FileInv, RowsKept, Sound, Kept

\* Nobody has the file of a restore that is at work, or no file.
LEMMA NobodyPast ==
  ASSUME FileInv, db = None \/ \E r \in Restores : Busy(r)
  PROVE  \A w \in Writers : ~Past(w)
  BY DEF FileInv, HolderSound

LEMMA CreateFileKeeps ==
  ASSUME LifecycleTypeOK, FileInv, NEW r \in Restores, CreateFile(r)
  PROVE  FileInv'
  <1>1. CASE db = None
    <2> DEFINE row == [restores[r] EXCEPT !.at = "created"]
    <2>1. restores' = [restores EXCEPT ![r] = row] /\ db' = NewFile
      BY <1>1 DEF CreateFile, MayCreate
    <2>2. row.at = "created" /\ row.from = restores[r].from
      BY DEF CreateFile, LifecycleTypeOK, Restore
    <2> HIDE DEF row
    <2>3. db' # None /\ db'.rows = {} /\ db'.schema = 0
      BY <2>1, FileTypes DEF NewFile, File
    <2>4. /\ restores'[r] = row
          /\ \A q \in Restores : q # r => restores'[q] = restores[q] /\ ~Busy(q)
      BY <1>1, <2>1 DEF LifecycleTypeOK, FileInv, RestoreSound
    <2>5. sidecars = "none" /\ restores[r].from \in snapshots
      BY <1>1 DEF CreateFile, FileInv, RestoreSound
    <2>6. UNCHANGED <<sidecars, snapshots, writers>>
      BY DEF CreateFile
    <2>7. RestoreSound'
      BY <2>2, <2>3, <2>4, <2>5, <2>6 DEF RestoreSound, FileInv, Busy
    <2>8. HolderSound'
      BY <1>1, <2>6, NobodyPast DEF HolderSound, Past
    <2>9. RowsKept'
      BY <2>3, <2>6 DEF FileInv, RowsKept, Sound, Kept
    <2> QED
      BY <2>7, <2>8, <2>9 DEF FileInv
  <1>2. CASE db # None
    <2>1. /\ restores' = [restores EXCEPT ![r] = Waiting]
          /\ UNCHANGED <<db, sidecars, snapshots, writers>>
      BY <1>2 DEF CreateFile, MayCreate
    <2> QED
      BY <2>1 DEF FileInv, HolderSound, RestoreSound, RowsKept, Sound, Kept, Past,
                  Busy, Waiting, LifecycleTypeOK
  <1> QED
    BY <1>1, <1>2

LEMMA CopyKeeps ==
  ASSUME LifecycleTypeOK, FileInv, NEW r \in Restores, Copy(r)
  PROVE  FileInv'
  <1> DEFINE s == restores[r].from
             row == [restores[r] EXCEPT !.at = "copied"]
  <1>1. /\ Busy(r) /\ sidecars = "none" /\ s \in snapshots /\ s \in Snapshot
        /\ \A q \in Restores : Busy(q) => q = r
    BY DEF Copy, FileInv, RestoreSound, Busy, LifecycleTypeOK
  <1>2. row.at = "copied" /\ row.from = s
    BY DEF Copy, LifecycleTypeOK, Restore
  <1>3. /\ db' = [schema |-> s.schema, rows |-> s.rows, part |-> "whole"]
        /\ restores' = [restores EXCEPT ![r] = row]
        /\ UNCHANGED <<sidecars, snapshots, writers>>
    BY <1>1 DEF Copy
  <1> HIDE DEF s, row
  <1>4. db' # None /\ db'.part = "whole" /\ db'.rows = s.rows /\ db'.schema = s.schema
    BY <1>1, <1>3, FileTypes DEF Snapshot, File
  <1>5. /\ restores'[r] = row
        /\ \A q \in Restores : q # r => restores'[q] = restores[q] /\ ~Busy(q)
    BY <1>1, <1>3 DEF LifecycleTypeOK
  <1>6. RestoreSound'
    BY <1>1, <1>2, <1>3, <1>4, <1>5 DEF RestoreSound, FileInv, Busy
  <1>7. HolderSound'
    BY <1>1, <1>3, NobodyPast DEF HolderSound, Past
  <1>8. RowsKept'
    BY <1>1, <1>3, <1>4 DEF FileInv, RowsKept, Sound, Kept
  <1> QED
    BY <1>6, <1>7, <1>8 DEF FileInv

\* A restore that ends takes its file with it, damages it, or leaves it.
LEMMA RestoreEndsKeeps ==
  ASSUME LifecycleTypeOK, FileInv, NEW r \in Restores,
         CopyFails(r) \/ Verify(r) \/ KillRestore(r)
  PROVE  FileInv'
  <1>1. /\ restores' = [restores EXCEPT ![r] = Waiting]
        /\ UNCHANGED <<sidecars, snapshots, writers>>
    BY DEF CopyFails, Verify, KillRestore
  <1>2. /\ restores'[r].at = "off"
        /\ \A q \in Restores : q # r => restores'[q] = restores[q]
    BY <1>1 DEF Waiting, LifecycleTypeOK
  <1>3. CASE Busy(r)
    <2>1. /\ db \in File /\ db # None /\ sidecars = "none"
          /\ \A q \in Restores : q # r => ~Busy(q)
          /\ \A w \in Writers : ~Past(w)
      BY <1>3, NobodyPast, FileTypes DEF FileInv, RestoreSound
    <2>2. \/ db' = None
          \/ db' = db
          \/ restores[r].at = "created" /\ db' = [db EXCEPT !.part = "torn"]
      BY DEF CopyFails, Verify, KillRestore
    <2>3. \/ db' = None
          \/ /\ db' # None /\ db'.rows = db.rows /\ db'.schema = db.schema
             /\ db'.part = "empty" => db.part = "empty"
      BY <2>1, <2>2, FileTypes DEF File
    <2>4. RowsKept'
      BY <1>1, <2>1, <2>3 DEF FileInv, RowsKept, Sound, Kept
    <2>5. RestoreSound'
      BY <1>1, <1>2, <2>1, <2>3 DEF FileInv, RestoreSound, Busy
    <2> QED
      BY <1>1, <2>1, <2>4, <2>5 DEF FileInv, HolderSound, Past
  <1>4. CASE ~Busy(r)
    <2>1. db' = db /\ \A q \in Restores : Busy(q)' => Busy(q)
      BY <1>2, <1>4 DEF CopyFails, Verify, KillRestore, Busy
    <2> QED
      BY <1>1, <1>2, <2>1
      DEF FileInv, HolderSound, RestoreSound, RowsKept, Sound, Kept, Past, Busy
  <1> QED
    BY <1>3, <1>4

LEMMA MoveAsideKeeps ==
  ASSUME LifecycleTypeOK, FileInv, NEW b \in BOOLEAN, MoveAside(b)
  PROVE  FileInv'
  BY DEF MoveAside, LockFree, FileInv, HolderSound, RestoreSound, RowsKept, Sound,
         Kept, Past, Busy

LEMMA NextFileInv ==
  ASSUME LifecycleTypeOK, OneHolder, FileInv, [Next]_vars, ~overlapped'
  PROVE  FileInv'
  <1>1. CASE WriterNext
    BY <1>1, LockKeeps, OpenFileKeeps, SnapshotKeeps, MigrateKeeps, WriteKeeps, CloseKeeps
    DEF WriterNext
  <1>2. CASE RestoreNext
    BY <1>2, CheckPathKeeps, CreateFileKeeps, CopyKeeps, RestoreEndsKeeps DEF RestoreNext
  <1>3. CASE UNCHANGED vars
    BY <1>3 DEF vars, FileInv, HolderSound, RestoreSound, RowsKept, Sound, Kept, Past, Busy
  <1> QED
    BY <1>1, <1>2, <1>3, MoveAsideKeeps DEF Next

LEMMA NextLifecycle == LifecycleInv /\ [Next]_vars => LifecycleInv'
  <1> SUFFICES ASSUME LifecycleInv, [Next]_vars
               PROVE  LifecycleInv'
    OBVIOUS
  <1>1. overlapped => overlapped'
    BY DEF Next, WriterNext, RestoreNext, Lock, OpenFile, SnapshotBeforeMigration,
           Migrate, Write, Close, Kill, Backup, CheckPath, CreateFile, Copy,
           CopyFails, Verify, KillRestore, MoveAside, vars
  <1> QED
    BY <1>1, NextLifecycleType, NextOneHolder, NextFileInv DEF LifecycleInv

LEMMA LifecycleInvariant == LifecycleSpec => []LifecycleInv
  BY InitLifecycle, NextLifecycle, PTL DEF LifecycleSpec

-----------------------------------------------------------------------------
\* One process at a time is past the lock, whoever is killed where.
THEOREM OneWriter == LifecycleSpec => [](LifecycleTypeOK /\ OneHolder)
  <1>1. LifecycleInv => LifecycleTypeOK /\ OneHolder
    BY DEF LifecycleInv
  <1> QED
    BY <1>1, LifecycleInvariant, PTL

\* However migrations and restores were cut short before, who opens the
\* database has it whole and at its own schema (OpenWith, applyMigrations).
THEOREM OpensSound == LifecycleSpec => []OpenIsSound
  <1>1. LifecycleInv => OpenIsSound
    BY DEF LifecycleInv, FileInv, HolderSound, Past, OpenIsSound
  <1> QED
    BY <1>1, LifecycleInvariant, PTL

\* No chain of migrations, kills, backups and restores leaves a migrated write
\* without a copy from before its migration (applyMigrations).
THEOREM OldCopiesKept == LifecycleSpec => []OldCopyKept
  <1>1. LifecycleInv => OldCopyKept
    BY DEF LifecycleInv, FileInv, RowsKept, Sound, Kept, OldCopyKept
  <1> QED
    BY <1>1, LifecycleInvariant, PTL

\* Committed writes leave the file only with the file, when it is moved aside.
LEMMA StepCommitted ==
  ASSUME LifecycleInv, [Next]_vars, db # None, db.rows # {}, ~overlapped
  PROVE  \/ LockFree /\ db' = None
         \/ db' # None /\ db.rows \subseteq db'.rows
  <1>1. LifecycleTypeOK /\ FileInv /\ db \in File
    BY FileTypes DEF LifecycleInv
  <1>2. \A r \in Restores :
          /\ restores[r].at # "created"
          /\ restores[r].at = "copied" => db.part # "torn"
    BY DEF LifecycleInv, FileInv, RestoreSound, Busy
  <1>3. ASSUME NEW w \in Writers, OpenFile(w)
        PROVE  db' # None /\ db'.rows = db.rows
    <2>1. db' = db \/ db' = [db EXCEPT !.part = "torn"]
      BY <1>3 DEF OpenFile, Opened
    <2> QED
      BY <1>1, <2>1, FileTypes DEF File
  <1>4. ASSUME NEW w \in Writers, Migrate(w)
        PROVE  db' # None /\ db'.rows = db.rows
    <2> DEFINE n == db.schema + 1
    <2>1. n \in Nat /\ db' = [db EXCEPT !.schema = n, !.part = "whole"]
      BY <1>1, <1>4 DEF Migrate, File
    <2> HIDE DEF n
    <2> QED
      BY <1>1, <2>1, FileTypes DEF File
  <1>5. ASSUME NEW w \in Writers, Write(w)
        PROVE  db' # None /\ db.rows \subseteq db'.rows
    BY <1>1, <1>5, WrittenFile, FileTypes
  <1>6. ASSUME RestoreNext \/ UNCHANGED vars
        PROVE  db' = db
    BY <1>2, <1>6 DEF RestoreNext, CheckPath, CreateFile, MayCreate, Copy, CopyFails,
                      Verify, KillRestore, vars
  <1>7. ASSUME NEW w \in Writers,
               \/ Lock(w) \/ SnapshotBeforeMigration(w) \/ Close(w) \/ Kill(w) \/ Backup(w)
        PROVE  db' = db
    BY <1>7 DEF Lock, SnapshotBeforeMigration, Close, Kill, Backup
  <1>8. ASSUME NEW b \in BOOLEAN, MoveAside(b)
        PROVE  LockFree /\ db' = None
    BY <1>8 DEF MoveAside
  <1> QED
    BY <1>3, <1>4, <1>5, <1>6, <1>7, <1>8 DEF Next, WriterNext

\* What was committed stays in the file, whoever is killed, migrates or restores,
\* until the operator moves the file aside (OpenWith, Restore).
THEOREM WritesStay == LifecycleSpec => CommittedStays
  <1>1. LifecycleInv /\ [Next]_vars =>
          [db # None /\ db.rows # {} =>
             \/ overlapped
             \/ LockFree /\ db' = None
             \/ db' # None /\ db.rows \subseteq db'.rows]_vars
    BY StepCommitted
  <1> QED
    BY <1>1, LifecycleInvariant, PTL DEF LifecycleSpec, CommittedStays
=============================================================================
