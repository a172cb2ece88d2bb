------------------------- MODULE LifecycleProperties -------------------------
(***************************************************************************)
(* What the commands promise about the database file.  Restores do not     *)
(* hold the lock; the properties say "unless overlapped" where that        *)
(* matters, and RestoreRefusesServed, which TLC refutes, says why.         *)
(***************************************************************************)
EXTENDS Lifecycle

Restore ==
  [at: {"off"}] \cup [at: {"checked", "created", "copied"}, from: Snapshot]

LifecycleTypeOK ==
  /\ db = None \/ db \in File
  /\ sidecars \in {"none", "own", "stale"}
  /\ \A s \in snapshots : s \in Snapshot
  /\ writers \in [Writers -> {"off", "locked", "opened", "migrating", "open"}]
  /\ DOMAIN restores = Restores
  /\ \A r \in Restores : restores[r] \in Restore
  /\ writes \in 0..MaxWrites /\ overlapped \in BOOLEAN

\* At most one process is past the lock: nothing checks, migrates or writes
\* the file while another does (OpenWith, README "One writer").
OneHolder ==
  \A v, w \in Writers : writers[v] # "off" /\ writers[w] # "off" => v = w

\* Whoever has the database open has it whole and at the schema of its own
\* binary, however migrations and restores before it were cut short.
OpenIsSound ==
  \A w \in Writers : writers[w] = "open" =>
    \/ overlapped
    \/ db # None /\ db.part = "whole" /\ db.schema = Schemas[w]

\* A write that was migrated is also in a snapshot of the schema it was made
\* under, at whatever migration the process was killed (applyMigrations).
OldCopyKept ==
  db # None =>
    \A row \in db.rows : row[2] < db.schema =>
      \/ overlapped
      \/ \E s \in snapshots : s.schema = row[2] /\ row \in s.rows

\* Committed writes leave the file only when the operator moves it aside.
CommittedStays ==
  [][db # None /\ db.rows # {} =>
       \/ overlapped
       \/ LockFree /\ db' = None
       \/ db' # None /\ db.rows \subseteq db'.rows]_vars

\* "A second server, or a ... restore aimed at a database a server is already
\* serving, refuses" (README.md:171-172): no restore writes the file that
\* another trackd holds.
RestoreRefusesServed ==
  \A w \in Writers, r \in Restores :
    ~(writers[w] = "open" /\ restores[r].at \in {"created", "copied"})
=============================================================================
