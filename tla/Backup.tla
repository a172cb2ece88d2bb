-------------------------------- MODULE Backup --------------------------------
(***************************************************************************)
(* The snapshots of a trackd database: the server's scheduler              *)
(* (server.RunBackups), the goroutine that writes one snapshot             *)
(* (Store.vacuumIntoContext), pruning (PruneBackups), the `trackd backup`  *)
(* command, which works on the same directory from another process, and    *)
(* what GET /healthz says of it all.                                       *)
(*                                                                         *)
(* Time is counted in steps of the clock; a snapshot, its pruning and a    *)
(* restart may all happen between two of them.  A file operation that is   *)
(* slow or hangs is a step that is not taken: only the scheduler's own     *)
(* goroutine is prompt, except where MayBlock lets the directory hold it.  *)
(***************************************************************************)
EXTENDS Integers, Sequences, FiniteSets, SequencesExt

CONSTANTS Names,      \* snapshot file names, one or more for each second
          Runs,       \* the scheduler's attempts that may be under way at once
          Wedged,     \* the one of them whose file operations may never return
          Commands,   \* `trackd backup` commands run at once
          SameSecond, \* whether two attempts may begin in one second
          Every,      \* --backup-every, in steps of the clock
          Timeout,    \* --backup-timeout
          Keep,       \* --backup-keep, and the command's --keep
          Horizon,    \* the age from which ages are not told apart
          MayBlock,   \* calls outside runCtx that the directory may hold for good
          None

ASSUME BackupAssumption ==
    /\ {Every, Timeout, Keep} \subseteq Nat \ {0}
    /\ Timeout < Every
    /\ Horizon \in Nat /\ Horizon > Every + Timeout
    /\ Wedged \in Runs
    /\ Runs \cap Commands = {}
    /\ SameSecond \in BOOLEAN
    /\ MayBlock \subseteq {"list", "choose", "prune"}
    /\ None \notin Names \cup Runs \cup Commands \cup Nat
    /\ "sched" \notin Commands

VARIABLES files,     \* the directory's files, in the order they were last written
          attempt,   \* the goroutine of each attempt
          sched,     \* the goroutine of RunBackups
          last,      \* Server.lastBackup
          second,    \* the name that this second's stamp gives, once it is used
          pruning    \* what PruneBackups has still to remove, for each caller

backupVars == <<files, attempt, sched, last, second, pruning>>

Attempts == Runs \cup Commands
Pruners == {"sched"} \cup Commands

Aged(n) == IF n < Horizon THEN n + 1 ELSE n

(***************************************************************************)
(* The directory.  hidden files have the temporary name of a snapshot,     *)
(* which no listing takes for one; by is the attempt still writing a file. *)
(***************************************************************************)
File == [name: Names, hidden: BOOLEAN, by: Attempts \cup {None},
         whole: BOOLEAN, age: 0..Horizon]

Is(f, name, hidden) == f.name = name /\ f.hidden = hidden
Exists(name, hidden) == \E f \in ToSet(files): Is(f, name, hidden)
Position(name, hidden) == CHOOSE i \in DOMAIN files: Is(files[i], name, hidden)
Without(name, hidden) ==
    IF Exists(name, hidden) THEN RemoveAt(files, Position(name, hidden)) ELSE files

\* Nobody of writers has one of the files dir open any more.
LetGo(dir, writers) ==
    [i \in DOMAIN dir |->
        IF dir[i].by \in writers THEN [dir[i] EXCEPT !.by = None] ELSE dir[i]]

Intact(f) == f.whole /\ f.by = None
Snapshots == {f \in ToSet(files): ~f.hidden}

\* Where the snapshots are that pass their integrity check.
Verified == {i \in DOMAIN files: ~files[i].hidden /\ Intact(files[i])}

\* The newest verified snapshot, if there is one.
Newest == {files[i]: i \in {k \in Verified: \A j \in Verified: j <= k}}

\* os.Rename: the temporary file takes the snapshot's name and keeps its
\* modification time; a file that had that name is gone.
Renamed(name) ==
    LET dir == Without(name, FALSE)
    IN  [i \in DOMAIN dir |->
            IF Is(dir[i], name, TRUE) THEN [dir[i] EXCEPT !.hidden = FALSE] ELSE dir[i]]

(***************************************************************************)
(* One attempt: Store.BackupContext from the choice of the name, and the   *)
(* goroutine of vacuumIntoContext.                                         *)
(***************************************************************************)
Steps == {"free", "open", "fill", "verify", "check", "rename", "done", "failed",
          "remove"}
Idle == [step |-> "free", name |-> None, left |-> FALSE]

\* Names in use, by a file or by something that remembers one.
Taken == {f.name: f \in ToSet(files)} \cup {second}
         \cup {attempt[a].name: a \in Attempts}
         \cup UNION {ToSet(pruning[p]): p \in Pruners}

\* The loop over os.Stat: the stamp's own name, unless it is published, or the
\* first suffix that is not.  Another attempt that chose a name in this second
\* and has not published it yet is not seen.
Candidates ==
    (Names \ Taken) \cup {n \in {second} \ {None}: ~Exists(n, FALSE)}

Started(a, n) ==
    /\ attempt' = [attempt EXCEPT ![a] = [step |-> "open", name |-> n, left |-> FALSE]]
    /\ second' = IF SameSecond THEN n ELSE None
Goes(a, step) == attempt' = [attempt EXCEPT ![a].step = step]

\* ctx.Err() # nil: only the scheduler's runs have a deadline.
Expired(a) ==
    attempt[a].left \/ (sched.run = a /\ sched.elapsed = Timeout)

\* An error on the way removes the temporary file, whoever wrote it.
GivesUp(a) ==
    /\ files' = LetGo(Without(attempt[a].name, TRUE), {a})
    /\ Goes(a, "failed")

\* VACUUM INTO creates its file, and refuses one that is there.
OpenTemp(a) ==
    /\ attempt[a].step = "open"
    /\ ~Expired(a)
    /\ ~Exists(attempt[a].name, TRUE)
    /\ files' = Append(files, [name |-> attempt[a].name, hidden |-> TRUE,
                               by |-> a, whole |-> FALSE, age |-> 0])
    /\ Goes(a, "fill")
    /\ UNCHANGED <<sched, last, second, pruning>>

VacuumFails(a) ==
    /\ attempt[a].step \in {"open", "fill"}
    /\ GivesUp(a)
    /\ UNCHANGED <<sched, last, second, pruning>>

\* VACUUM INTO returns without an error; the copy may still be a bad one.  The
\* file that a wrote may since have been removed or renamed under its hands.
Vacuumed(a) ==
    /\ attempt[a].step = "fill"
    /\ \/ /\ \A f \in ToSet(files): f.by # a
          /\ UNCHANGED files
       \/ \E i \in DOMAIN files, ok \in BOOLEAN:
            /\ files[i].by = a
            /\ files' = Append(RemoveAt(files, i),
                   [files[i] EXCEPT !.by = None, !.whole = ok, !.age = 0])
    /\ Goes(a, "verify")
    /\ UNCHANGED <<sched, last, second, pruning>>

\* Mutant: the integrity check is skipped.
PassesCheckIfThere(a) == Exists(attempt[a].name, TRUE)

\* verifyIntegrity on the temporary file.
PassesCheck(a) ==
    \E f \in ToSet(files): Is(f, attempt[a].name, TRUE) /\ Intact(f)

Verify(a) ==
    /\ attempt[a].step = "verify"
    /\ IF PassesCheck(a) THEN Goes(a, "check") /\ UNCHANGED files ELSE GivesUp(a)
    /\ UNCHANGED <<sched, last, second, pruning>>

CheckDeadline(a) ==
    /\ attempt[a].step = "check"
    /\ IF Expired(a) THEN GivesUp(a) ELSE Goes(a, "rename") /\ UNCHANGED files
    /\ UNCHANGED <<sched, last, second, pruning>>

\* The rename fails when the temporary file is gone; syncDir may fail after it.
Publish(a) ==
    /\ attempt[a].step = "rename"
    /\ \/ /\ Exists(attempt[a].name, TRUE)
          /\ files' = Renamed(attempt[a].name)
          /\ \E step \in {"done", "failed"}: Goes(a, step)
       \/ GivesUp(a)
    /\ UNCHANGED <<sched, last, second, pruning>>

\* Nobody waits for an abandoned attempt: when it ends, whatever it left behind
\* under the temporary name is removed.
CleanUp(a) ==
    /\ attempt[a].step \in {"done", "failed"}
    /\ attempt[a].left
    /\ files' = Without(attempt[a].name, TRUE)
    /\ attempt' = [attempt EXCEPT ![a] = Idle]
    /\ UNCHANGED <<sched, last, second, pruning>>

AttemptNext(a) ==
    \/ OpenTemp(a) \/ VacuumFails(a) \/ Vacuumed(a) \/ Verify(a)
    \/ CheckDeadline(a) \/ Publish(a) \/ CleanUp(a)

(***************************************************************************)
(* Pruning.                                                                *)
(***************************************************************************)
NthNewest(n) == CHOOSE i \in Verified: Cardinality({j \in Verified: j >= i}) = n

\* Mutant: the snapshots are sorted the other way round.
SurplusNewest ==
    LET nthOldest(n) == CHOOSE i \in Verified: Cardinality({j \in Verified: j <= i}) = n
    IN  [k \in 1..(Cardinality(Verified) - Keep) |-> files[nthOldest(Keep + k)].name]

\* The verified snapshots beyond the newest Keep, in the order of removal.
Surplus == [k \in 1..(Cardinality(Verified) - Keep) |-> files[NthNewest(Keep + k)].name]

\* The next file is removed; one that is gone already ends the pruning.
Removes(p) ==
    LET n == Head(pruning[p])
    IN  /\ pruning[p] # <<>>
        /\ files' = Without(n, FALSE)
        /\ pruning' = [pruning EXCEPT ![p] =
               IF Exists(n, FALSE) THEN Tail(@) ELSE <<>>]

(***************************************************************************)
(* The scheduler: RunBackups.                                              *)
(***************************************************************************)
Never == [at |-> None, error |-> FALSE]
Starting == [pc |-> "list", run |-> None, elapsed |-> 0, left |-> None,
             blocked |-> FALSE]
AtStep(pc) == sched.pc = pc /\ ~sched.blocked
RunStarts(left) ==
    sched' = [sched EXCEPT !.pc = "probe", !.elapsed = 0, !.left = left]

\* The ticker is made when the first run has ended.
NextTick == IF sched.left = None THEN Every ELSE sched.left

\* Mutant: a restart waits a whole interval.
FirstDelayWhole(age) == Every

\* firstBackupDelay, for a snapshot that stands in for the startup run.
FirstDelay(age) == IF age >= Every THEN 0 ELSE Every - age

\* NewestBackupAge: a recent snapshot stands in for the run at startup.
ListAtStart ==
    /\ AtStep("list")
    /\ \/ \E f \in Newest:
            /\ 4 * f.age < Every
            /\ last' = [at |-> f.age, error |-> FALSE]
            /\ sched' = [sched EXCEPT !.pc = "timer", !.left = FirstDelay(f.age)]
       \/ /\ \A f \in Newest: 4 * f.age >= Every
          /\ RunStarts(None)
          /\ UNCHANGED last
    /\ UNCHANGED <<files, attempt, second, pruning>>

TimerFires ==
    /\ AtStep("timer")
    /\ sched.left = 0
    /\ RunStarts(None)
    /\ UNCHANGED <<files, attempt, last, second, pruning>>

TickerFires ==
    /\ AtStep("idle")
    /\ sched.left = 0
    /\ RunStarts(Every)
    /\ UNCHANGED <<files, attempt, last, second, pruning>>

\* Mutant: a failed run moves the time of the last snapshot.
FailedNow == [at |-> 0, error |-> TRUE]

\* A failed run keeps the time of the last snapshot beside its error.
Failed == [last EXCEPT !.error = TRUE]

RunFails ==
    /\ last' = Failed
    /\ sched' = [sched EXCEPT !.pc = "idle", !.run = None, !.elapsed = 0,
                              !.left = NextTick]

\* probeWritable answers, refuses, or is still out at the deadline.
Probe ==
    /\ AtStep("probe")
    /\ sched.elapsed < Timeout
    /\ sched' = [sched EXCEPT !.pc = "choose"]
    /\ UNCHANGED <<files, attempt, last, second, pruning>>

ProbeFails ==
    /\ AtStep("probe")
    /\ RunFails
    /\ UNCHANGED <<files, attempt, second, pruning>>

ChooseName ==
    /\ AtStep("choose")
    /\ \E r \in Runs, n \in Candidates:
         /\ attempt[r].step = "free"
         /\ Started(r, n)
         /\ sched' = [sched EXCEPT !.pc = "wait", !.run = r]
    /\ UNCHANGED <<files, last, pruning>>

Finish ==
    /\ AtStep("wait")
    /\ attempt[sched.run].step = "done"
    /\ attempt' = [attempt EXCEPT ![sched.run] = Idle]
    /\ last' = [at |-> 0, error |-> FALSE]
    /\ sched' = [sched EXCEPT !.pc = "prune", !.run = None, !.elapsed = 0,
                              !.left = NextTick]
    /\ UNCHANGED <<files, second, pruning>>

AttemptFailed ==
    /\ AtStep("wait")
    /\ attempt[sched.run].step = "failed"
    /\ attempt' = [attempt EXCEPT ![sched.run] = Idle]
    /\ RunFails
    /\ UNCHANGED <<files, second, pruning>>

\* Mutant: the select has no case for the context.
DeadlineIgnored == FALSE

\* The select's other case; with both ready Go takes either.
DeadlinePassed == sched.elapsed = Timeout

Abandon ==
    /\ AtStep("wait")
    /\ DeadlinePassed
    /\ attempt' = [attempt EXCEPT ![sched.run].left = TRUE]
    /\ RunFails
    /\ UNCHANGED <<files, second, pruning>>

PruneLists ==
    /\ AtStep("prune")
    /\ pruning' = [pruning EXCEPT !["sched"] = Surplus]
    /\ sched' = [sched EXCEPT !.pc = "remove"]
    /\ UNCHANGED <<files, attempt, last, second>>

PruneRemoves ==
    /\ AtStep("remove")
    /\ Removes("sched")
    /\ UNCHANGED <<attempt, sched, last, second>>

\* Nothing is left to prune, or an error, which is only logged, ends the pruning.
PruneEnds ==
    /\ sched.pc \in {"prune", "remove"} /\ ~sched.blocked
    /\ pruning' = [pruning EXCEPT !["sched"] = <<>>]
    /\ sched' = [sched EXCEPT !.pc = "idle"]
    /\ UNCHANGED <<files, attempt, last, second>>

\* The directory holds the scheduler in a call that no context bounds.
Blocks ==
    /\ sched.pc \in MayBlock
    /\ sched' = [sched EXCEPT !.blocked = TRUE]
    /\ UNCHANGED <<files, attempt, last, second, pruning>>

SchedulerSteps ==
    \/ ListAtStart \/ TimerFires \/ TickerFires \/ Probe \/ ProbeFails
    \/ ChooseName \/ Finish \/ AttemptFailed \/ Abandon
    \/ PruneLists \/ PruneRemoves \/ PruneEnds

\* The process stops, in the middle of whatever it does, and starts again.
Crash ==
    /\ sched' = Starting
    /\ last' = Never
    /\ attempt' = [a \in Attempts |->
           IF a \in Runs THEN Idle ELSE attempt[a]]
    /\ files' = LetGo(files, Runs)
    /\ pruning' = [pruning EXCEPT !["sched"] = <<>>]
    /\ UNCHANGED second

(***************************************************************************)
(* The command `trackd backup --keep`, and time.                           *)
(***************************************************************************)
CommandStarts(c) ==
    /\ attempt[c].step = "free"
    /\ \E n \in Candidates: Started(c, n)
    /\ UNCHANGED <<files, sched, last, pruning>>

CommandLists(c) ==
    /\ attempt[c].step = "done"
    /\ pruning' = [pruning EXCEPT ![c] = Surplus]
    /\ Goes(c, "remove")
    /\ UNCHANGED <<files, sched, last, second>>

CommandRemoves(c) ==
    /\ Removes(c)
    /\ UNCHANGED <<attempt, sched, last, second>>

\* The command ends: without --keep, on an error, or when it has pruned.
CommandEnds(c) ==
    /\ attempt[c].step \in {"done", "failed", "remove"}
    /\ attempt' = [attempt EXCEPT ![c] = Idle]
    /\ pruning' = [pruning EXCEPT ![c] = <<>>]
    /\ UNCHANGED <<files, sched, last, second>>

\* What the scheduler's goroutine does without delay.
Prompt ==
    /\ ~sched.blocked
    /\ \/ sched.pc \in {"list", "choose", "prune", "remove"}
       \/ sched.pc \in {"timer", "idle"} /\ sched.left = 0
       \/ sched.pc \in {"probe", "wait"} /\ sched.elapsed = Timeout

\* A file's age counts from the end of its writing, and as long as it may be, or
\* be about to be, the newest verified snapshot: nobody asks for another one's.
Pending(f) == \E a \in Attempts:
    attempt[a].name = f.name /\ (attempt[a].left => attempt[a].step = "rename")
AgeAfter(f) ==
    CASE f.by # None -> 0
      [] f.by = None /\ (f \in Newest \/ (f.hidden /\ Pending(f))) -> Aged(f.age)
      [] OTHER -> Horizon

\* A temporary file that a crash left behind: no process looks at it again.
Orphan(f) == f.hidden /\ \A a \in Attempts: attempt[a].name # f.name

Tick ==
    /\ ~Prompt
    /\ files' = [i \in DOMAIN files |-> [files[i] EXCEPT !.age = AgeAfter(files[i])]]
    /\ sched' = [sched EXCEPT
           !.elapsed = IF sched.pc \in {"probe", "wait"} THEN @ + 1 ELSE @,
           !.left = IF @ \in {None, 0} THEN @ ELSE @ - 1]
    /\ last' = [last EXCEPT !.at = IF @ = None THEN None ELSE Aged(@)]
    /\ second' = None
    /\ UNCHANGED <<attempt, pruning>>

\* Bound: when every name is taken, somebody clears away a file that no attempt
\* works on and that is not the newest verified snapshot.
MakeRoom ==
    /\ Names \subseteq Taken
    /\ \E f \in ToSet(files):
         /\ Orphan(f) \/ (~f.hidden /\ f \notin Newest)
         /\ files' = Without(f.name, f.hidden)
    /\ UNCHANGED <<attempt, sched, last, second, pruning>>

Found(n, whole, age) ==
    [name |-> n, hidden |-> FALSE, by |-> None, whole |-> whole, age |-> age]

\* The server starts over an empty directory, or over one that holds a verified
\* snapshot and a later one that has gone bad.
BackupInit ==
    /\ \/ files = <<>>
       \/ \E n, m \in Names, a, b \in {0, 1, Horizon}:
            /\ n # m /\ a >= b
            /\ files = <<Found(n, TRUE, a), Found(m, FALSE, b)>>
    /\ attempt = [a \in Attempts |-> Idle]
    /\ sched = Starting
    /\ last = Never
    /\ second = None
    /\ pruning = [p \in Pruners |-> <<>>]

CommandNext(c) == CommandLists(c) \/ CommandRemoves(c) \/ CommandEnds(c)

BackupNext ==
    \/ SchedulerSteps
    \/ \E a \in Attempts: AttemptNext(a)
    \/ \E c \in Commands: CommandStarts(c) \/ CommandNext(c)
    \/ Blocks
    \/ Crash
    \/ Tick
    \/ MakeRoom

\* The clock goes on, the scheduler's goroutine runs unless the directory holds
\* it, and so do all attempts but the wedged one; no file operation has to end
\* by any deadline.
BackupFairness ==
    /\ WF_backupVars(Tick)
    /\ WF_backupVars(SchedulerSteps)
    /\ WF_backupVars(MakeRoom)
    /\ \A a \in Attempts \ {Wedged}: WF_backupVars(AttemptNext(a))
    /\ \A c \in Commands: WF_backupVars(CommandNext(c))

BackupSpec == BackupInit /\ [][BackupNext]_backupVars /\ BackupFairness
===============================================================================
