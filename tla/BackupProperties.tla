--------------------------- MODULE BackupProperties ---------------------------
(***************************************************************************)
(* What the snapshots and /healthz promise an operator.                    *)
(***************************************************************************)
EXTENDS Backup

\* A step that puts a file under a snapshot's name puts a whole and verified one
\* there: a run killed or abandoned leaves its half-written copy under the
\* temporary name only (vacuumIntoContext).
PublishedWhole ==
    [][\A f \in Snapshots':
          Intact(f) \/ \E g \in Snapshots: g.name = f.name /\ g.whole = f.whole
      ]_backupVars

\* Whatever steps the scheduler, a command and abandoned attempts take, the
\* directory never loses its newest verified snapshot, except to one that is at
\* least as new: pruning by an old listing never removes the last good copy.
NewestKept ==
    [][\A f \in Newest: \E g \in Newest': g.age <= Aged(f.age)]_backupVars

\* The last_at that /healthz shows, with or without an error beside it, stands
\* for a verified snapshot that is in the directory, at most one run older.
LastAtStands ==
    last.at # None =>
       \E f \in Newest: f.age <= last.at + Timeout

\* While /healthz has no error to show, its last snapshot is no older than the
\* interval and one run: a restart that skips its startup run does not stretch
\* the interval, and no healthy scheduler trips the alarm at twice the interval.
NoFalseAlarm ==
    (last.at # None /\ ~last.error /\ ~sched.blocked) => last.at <= Every + Timeout

\* A run never goes on for ever: an attempt whose file operations hang is
\* abandoned at its deadline, and the scheduler goes on.
EveryRunEnds ==
    (sched.pc \in {"probe", "choose", "wait"}) ~> (sched.pc \in {"prune", "idle", "list"})

\* GET /healthz answers 503 for the backups' sake.
Degraded == last.error \/ (last.at # None /\ last.at > 2 * Every)

\* "trackd detects a blocked backup directory and reports it in /healthz
\* instead of hanging" (README.md:291-292).
BlockedDirectoryReported == sched.blocked ~> (Degraded \/ ~sched.blocked)

\* "Same-second backups get a numeric suffix rather than an error"
\* (internal/store/backup.go:40): two attempts that are under way have names,
\* and so temporary files, of their own.
SuffixedApart ==
    \A a, b \in Attempts:
       a # b /\ attempt[a].step # "free" /\ attempt[b].step # "free" =>
         attempt[a].name # attempt[b].name
===============================================================================
