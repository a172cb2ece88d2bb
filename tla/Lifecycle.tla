------------------------------ MODULE Lifecycle ------------------------------
(***************************************************************************)
(* The database file from the outside: processes that open it under the    *)
(* exclusive lock (the server, token add and revoke, setting set, import), *)
(* check it, migrate it and write to it; processes that read it without    *)
(* the lock; restores, which create it without holding the lock; and the   *)
(* operator who moves it aside.  Any of them may be killed at any step.    *)
(*                                                                         *)
(* Data: a database is the set of the writes committed to it, each with    *)
(* the schema it was made under.  What SQLite keeps in the -wal file is    *)
(* part of it, and the -wal and -shm files are one thing, the sidecars.    *)
(* Losing power after a write was synced loses nothing and is no step.     *)
(***************************************************************************)
EXTENDS Naturals, FiniteSets

CONSTANTS
  Writers,  \* processes that open the database read-write
  Schemas,  \* writer -> SchemaVersion of its binary
  Restores, \* restore commands
  MaxWrites,\* bound on the writes ever made
  None      \* no file

VARIABLES
  db,        \* the file under the path
  sidecars,  \* "none", "own" of that file, or "stale": of one moved aside
  snapshots, \* the snapshot directory
  writers,   \* writer -> where it is
  restores,  \* restore -> where it is
  writes,    \* writes made so far
  overlapped \* a writer has had the file a restore was writing

vars == <<db, sidecars, snapshots, writers, restores, writes, overlapped>>

ASSUME SchemaAssumption == Schemas \in [Writers -> Nat \ {0}]
ASSUME WritesAssumption == MaxWrites \in Nat

Row == Nat \X Nat \* a write and the schema it was made under

\* part says how much of the file there is: "torn" is a file quick_check and
\* integrity_check refuse.
File == [schema: Nat, rows: SUBSET Row, part: {"whole", "empty", "torn"}]

Snapshot == [schema: Nat, rows: SUBSET Row]

NewFile == [schema |-> 0, rows |-> {}, part |-> "empty"]

ASSUME NoneAssumption == None \notin File

-----------------------------------------------------------------------------
(***************************************************************************)
(* Opening read-write: OpenWith with Exclusive.                            *)
(***************************************************************************)
\* Mutant: the lock of a platform without flock.
LockFreeAnywhere == TRUE

LockFree == \A w \in Writers : writers[w] = "off"

Lock(w) ==
  /\ writers[w] = "off"
  /\ LockFree
  /\ writers' = [writers EXCEPT ![w] = "locked"]
  /\ UNCHANGED <<db, sidecars, snapshots, restores, writes, overlapped>>

Restoring == \E r \in Restores : restores[r].at \in {"created", "copied"}

\* SQLite creates a file that is not there, drops a write-ahead log it finds
\* beside an empty one, and applies one it finds beside any other.
Opened ==
  IF db = None THEN NewFile
  ELSE IF sidecars = "stale" /\ db.part # "empty" THEN [db EXCEPT !.part = "torn"]
  ELSE db

\* quick_check and checkSchemaVersion.  A process that refuses the file closes
\* it again, with its sidecars if SQLite can.
Accepts(file, w) == file.part # "torn" /\ file.schema <= Schemas[w]

\* Mutant: no migration starts with a snapshot.
KeepsNothing(file) == FALSE

\* What is there to keep before a migration: user_version > 0.
ToKeep(file) == file.schema > 0

OpenFile(w) ==
  /\ writers[w] = "locked"
  /\ db' = Opened
  /\ sidecars' \in IF Accepts(Opened, w) THEN {"own"}
                   ELSE IF Opened.part = "torn" THEN {"own", "none"} ELSE {"none"}
  /\ writers' = [writers EXCEPT ![w] =
       IF ~Accepts(Opened, w) THEN "off"
       ELSE IF Opened.schema >= Schemas[w] THEN "open"
       ELSE IF ToKeep(Opened) THEN "opened" ELSE "migrating"]
  /\ overlapped' = (overlapped \/ Restoring)
  /\ UNCHANGED <<snapshots, restores, writes>>

\* The copy a migration starts from, when there is data to lose.
SnapshotBeforeMigration(w) ==
  /\ writers[w] = "opened"
  /\ db # None
  /\ snapshots' = snapshots \cup {[schema |-> db.schema, rows |-> db.rows]}
  /\ writers' = [writers EXCEPT ![w] = "migrating"]
  /\ UNCHANGED <<db, sidecars, restores, writes, overlapped>>

\* One migration, with its version number, is one transaction.  On a file that
\* changed under the process it fails, and the process ends.
Migrate(w) ==
  /\ writers[w] = "migrating"
  /\ db # None /\ db.schema < Schemas[w]
  /\ db' = [db EXCEPT !.schema = @ + 1, !.part = "whole"]
  /\ writers' = [writers EXCEPT ![w] =
       IF db.schema + 1 = Schemas[w] THEN "open" ELSE "migrating"]
  /\ UNCHANGED <<sidecars, snapshots, restores, writes, overlapped>>

Write(w) ==
  /\ writers[w] = "open"
  /\ db # None
  /\ writes < MaxWrites
  /\ writes' = writes + 1
  /\ db' = [db EXCEPT !.rows = @ \cup {<<writes + 1, db.schema>>}]
  /\ UNCHANGED <<sidecars, snapshots, writers, restores, overlapped>>

\* The last connection takes the sidecars with it.
Close(w) ==
  /\ writers[w] = "open"
  /\ writers' = [writers EXCEPT ![w] = "off"]
  /\ sidecars' = "none"
  /\ UNCHANGED <<db, snapshots, restores, writes, overlapped>>

Kill(w) ==
  /\ writers[w] # "off"
  /\ writers' = [writers EXCEPT ![w] = "off"]
  /\ UNCHANGED <<db, sidecars, snapshots, restores, writes, overlapped>>

-----------------------------------------------------------------------------
\* trackd backup, on a read-only handle that takes no lock.
Backup(w) ==
  /\ db # None
  /\ db.part = "whole" /\ db.schema <= Schemas[w]
  /\ snapshots' = snapshots \cup {[schema |-> db.schema, rows |-> db.rows]}
  /\ UNCHANGED <<db, sidecars, writers, restores, writes, overlapped>>

-----------------------------------------------------------------------------
(***************************************************************************)
(* Restoring a snapshot.                                                   *)
(***************************************************************************)
Waiting == [at |-> "off"]

PathClear == db = None /\ sidecars = "none"

\* The command takes the lock of a file it finds and lets it go again, which
\* leaves nothing behind; then Restore looks at the path.
CheckPath(r, s) ==
  /\ restores[r].at = "off"
  /\ PathClear
  /\ restores' = [restores EXCEPT ![r] = [at |-> "checked", from |-> s]]
  /\ UNCHANGED <<db, sidecars, snapshots, writers, writes, overlapped>>

\* Mutant: the copy replaces what is at the path.
MayCreateOver == TRUE

\* O_EXCL: a file that appeared since is not overwritten.
MayCreate == db = None

CreateFile(r) ==
  /\ restores[r].at = "checked"
  /\ IF MayCreate
       THEN /\ db' = NewFile
            /\ restores' = [restores EXCEPT ![r].at = "created"]
       ELSE UNCHANGED db /\ restores' = [restores EXCEPT ![r] = Waiting]
  /\ UNCHANGED <<sidecars, snapshots, writers, writes, overlapped>>

\* The copy, into the file that is at the path: its pages land beside the log
\* of whoever has it open.
Copy(r) ==
  LET s == restores[r].from
  IN /\ restores[r].at = "created"
     /\ db # None
     /\ db' = [schema |-> s.schema, rows |-> s.rows,
               part |-> IF sidecars = "none" THEN "whole" ELSE "torn"]
     /\ restores' = [restores EXCEPT ![r].at = "copied"]
     /\ UNCHANGED <<sidecars, snapshots, writers, writes, overlapped>>

\* A copy that fails is removed, whatever has become of the file since.
CopyFails(r) ==
  /\ restores[r].at = "created"
  /\ db' = None
  /\ restores' = [restores EXCEPT ![r] = Waiting]
  /\ UNCHANGED <<sidecars, snapshots, writers, writes, overlapped>>

\* A copy that does not verify is removed.
Verify(r) ==
  /\ restores[r].at = "copied"
  /\ IF db # None /\ db.part = "torn" THEN db' = None ELSE UNCHANGED db
  /\ restores' = [restores EXCEPT ![r] = Waiting]
  /\ UNCHANGED <<sidecars, snapshots, writers, writes, overlapped>>

\* Killed before the copy, in the middle of it, or after.
KillRestore(r) ==
  /\ restores[r].at # "off"
  /\ \/ UNCHANGED db
     \/ /\ restores[r].at = "created" /\ db # None
        /\ db' = [db EXCEPT !.part = "torn"]
  /\ restores' = [restores EXCEPT ![r] = Waiting]
  /\ UNCHANGED <<sidecars, snapshots, writers, writes, overlapped>>

\* The operator moves the database aside, with its sidecars or without, or the
\* sidecars that are left, while no writer or restore runs.
MoveAside(withSidecars) ==
  /\ LockFree
  /\ \A r \in Restores : restores[r].at = "off"
  /\ \/ db # None /\ ~withSidecars /\ sidecars # "none" /\ sidecars' = "stale"
     \/ (withSidecars \/ sidecars = "none") /\ sidecars' = "none"
  /\ db' = None
  /\ UNCHANGED <<snapshots, writers, restores, writes, overlapped>>

-----------------------------------------------------------------------------
Init ==
  /\ db = None
  /\ sidecars = "none"
  /\ snapshots = {}
  /\ writers = [w \in Writers |-> "off"]
  /\ restores = [r \in Restores |-> Waiting]
  /\ writes = 0
  /\ overlapped = FALSE

WriterNext ==
  \E w \in Writers :
    \/ Lock(w) \/ OpenFile(w) \/ SnapshotBeforeMigration(w) \/ Migrate(w)
    \/ Write(w) \/ Close(w) \/ Kill(w) \/ Backup(w)

RestoreNext ==
  \E r \in Restores :
    \/ \E s \in snapshots : CheckPath(r, s)
    \/ CreateFile(r) \/ Copy(r) \/ CopyFails(r) \/ Verify(r) \/ KillRestore(r)

Next == WriterNext \/ RestoreNext \/ \E b \in BOOLEAN : MoveAside(b)

LifecycleSpec == Init /\ [][Next]_vars
=============================================================================
