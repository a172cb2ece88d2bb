# A model of trackd

trackd is an issue tracker for agents and people: one Go process, one SQLite
file, a REST API, an MCP endpoint, a web board and a command line that talks to
the API. This directory models it in TLA+, checks the models with TLC and proves
the results that matter most with TLAPS. Paths below are relative to the
repository root; `store/`, `server/` and `client/` stand for `internal/store/`,
`internal/server/` and `internal/client/`.

## The system

| Component | State it keeps | Operations | What makes it correct |
|---|---|---|---|
| Issue tables (`store/issues.go`, `events.go`, `store.go`) | issues, comments, relations, `issue_seq`, idempotency keys, the events table | create, update, append, comment, edit a comment, relate, unrelate | the audit trail is the whole history; versions never come back; stamps agree with the statuses; no loop among parents |
| Labels and milestones (`store/labels.go`, `milestones.go`) | label names, memberships, milestones | ensure a label, edit an issue's labels, create, rename and archive a milestone | at most one label of each exclusive group; an issue's milestone is one of its project |
| Projects (`store/projects.go`) | projects, slugs | create, update | names and slugs name one project, archived or not |
| Settings (`store/settings.go`) | key/value rows | `trackd setting` while no server runs | no setting contradicts what is stored |
| Views (`store/views.go`, `server/views.go`) | named filters with an owner and quick actions | create, update, share, archive, apply | only the owner changes a view; a view that stays as it is keeps its name and its quick actions |
| HTTP handlers (`server/handlers.go`, `server.go`) | none between requests | one or more store calls per request | a failed step leaves nothing half done that the caller cannot tell |
| MCP tools (`server/mcp.go`) | none | the same store calls, some tools two in a row | as above |
| Web board (`server/ui.go`, `ui_views.go`) | sessions (`store/sessions.go`) | login, logout, forms, quick actions | a form never overwrites what its page did not show |
| HTTP client (`client/`) | the attempt it is on | request, time out, retry | nothing is applied twice unless it may be; every call ends |
| Tokens and sessions (`store/tokens.go`, `sessions.go`) | tokens, sessions with an expiry | create, revoke, log in, renew | a revoked token or an ended session never works again |
| Backup and health (`store/backup.go`, `server/server.go`) | snapshot files, last results | snapshot, verify, prune, report | a published snapshot is whole; `/healthz` tells the truth |
| Database lifecycle (`store/store.go`, `lock_*.go`, `main.go`) | the file, its lock, its schema version | open, lock, migrate, checkpoint, restore | one writer at a time; a crash leaves a file the next start can use |
| Dump and Linear import (`store/export.go`, `import_linear.go`) | none | export, import | an import is whole or nothing; the key sequence stays ahead of the keys |
| Command line, service files (`cli.go`, `service.go`) | none | parse and print | - |

How they meet: the CLI calls the REST API; REST handlers, MCP tools and the web
board all call the same store methods. The store has one SQLite connection and
runs every method as one immediate transaction (`store/store.go:95-97`,
`376-386`), so two store calls never overlap, but a handler that makes two of
them lets anyone write in between, and a client that timed out does not stop the
handler that serves it. The scheduler of backups and the health check run as
goroutines beside the handlers. Settings and migrations only change while the
process lock is held by someone else than a server.

What is hard here, and what the properties aim at: a version read before
another's write and used after it; the same request arriving twice, also while
the first is still running; handlers of two transactions of which the second
fails; long sequences of legal calls (reparent, move, archive, regroup) that
could reach a state no single call would; and the trail of events, which nothing
else can reconstruct. Where more than one process or database is involved, what is hard is
a kill between two steps, a file another process has open, and a dump that is not
what was exported. `PROJECT.json` lists each hazard at its line; the four without a
property say why.

## The modules

### IssueStore: the tables

One action per store method that writes. A call that returns an error rolls its
transaction back and a call that changes nothing rolls back or writes nothing, so
neither is a step. Everything a method does in its transaction is in its action:
`CreateIssue` takes the key from the counter, resolves the milestone, checks the
parent and the labels, stamps the phase, inserts and records the event;
`UpdateIssue` checks the version, the description guard, the parent walk and the
labels, and then writes, bumps the version and records.

| Model | Code |
|---|---|
| `issues`, a function from numbers to rows | table `issues`; the number is the key's, the prefix is a constant |
| `issueSeq` | setting `issue_seq` |
| `comments`, `milestones`, sequences | tables with an ascending integer key; rows are never deleted |
| `relations`, `labels`, `groups` | `issue_relations`, `labels`, setting `label_groups` |
| `spent` | the unique indexes on `idempotency_key` and the rows under them |
| `events` | table `events`; an event keeps the row before and after as `loadIssue` reads it |

Abstractions. Title, priority, assignee and due date are written as they come and
are one column, `details`. A description is the sequence of the texts it was
assembled from, so that losing a part of it shows. Time is the position of the
event that the same transaction records: a stamp says which write set it.
`updated_at` is left out. An issue row refers to its milestone by id, but events
and the comparison that detects a change of nothing see its name (`Loaded`), as
in the code. A key in a request is the issue with a flag for whether it is spelled
as stored (`KeyRef`), which matters to one check only. Comment events are stored
in the code under the issue's id; the model's `row` is the comment's id, which the
code keeps inside the event. `EnsureLabel` is the one write of IssueStore that records no event,
although the package comment says every mutation does (`store/store.go:3-4`).

### AuditedRows: what an audited table promises

The abstract specification: a table whose every change is one step that appends
exactly one event about the row it changed, with that row before and after.
`IssueProperties` instantiates it three times, for issues, comments and milestones
(`IssuesAudited`, `RowsAudited`), `ProjectProperties` once more for projects: the detailed store,
with all its tables and one shared log, implements each.

### ProjectStore: projects beside the issues

Extends IssueStore by the projects table. `CreateProject` derives the slug, checks name,
slug and labels, stamps and records; `UpdateProject` finds the project by its slug, which
no update changes. The writes of issues and milestones are those of IssueStore with the
look-up of the project they name (`ProjectExists`); the exclusive groups are checked
against both tables (`NoGroupConflict`). `ImportLinear` is the whole import but for
parsing and statuses: into an empty database, with numbered slugs (`ImportSlugs`),
milestones, issues, labels, parents and relations. A slug is without case, as all its
comparisons are; a name is as stored, with `FoldName` for the comparisons that ignore
case. In IssueStore by itself `Projects` is the set of the slugs that exist.

### IssueCalls: concurrent callers

Composes the tables with those who write them: callers that read the issues and
then send a request, the network, the client's retries, and the handlers. A
request comes to a list of store steps (`Steps`): one for PATCH, append and
comment; one or two for a create, which may first have to create the agent label;
one per item for a batch; append then patch for `save_issue`; reply then patch for
the board's form. Each step is one action of IssueStore and is applied to the
tables as they are when it runs.

| Action | Code |
|---|---|
| `Begin` | the caller reads the issue and takes its version |
| `Attempt` | `client.attempt` sends; the request may never arrive |
| `Lose` | the transport error or the timeout, whatever the server still does |
| `Handle` | one store call of a handler; may find the store busy |
| `Answer` | the reply, taken if the caller still waits, thrown away if not |

The handler goes on after its caller gave up: the store's transactions do not
carry the request's context. Only REST calls are retried, only if they are not a
POST or carry an idempotency key, and only after a transport error or a 503
(`client.go:78-94`, `132-140`). An MCP client or a browser sends once.

### Backup: snapshots and what /healthz says of them

The goroutine of `RunBackups`, the goroutine of each snapshot, pruning, the
`trackd backup` command in another process, and the clock.

| Model | Code |
|---|---|
| `files`, a sequence in the order of modification times | the backup directory: snapshots, and temporary files (`hidden`), with the attempt still writing one, and whether the content is whole |
| `attempt` | the goroutine of `vacuumIntoContext` of a scheduled run (`Runs`) or of a command (`Commands`); `left` once its caller has stopped waiting |
| `sched` | where `RunBackups` stands, the current run, its deadline, and the timer or ticker |
| `last` | `Server.lastBackup`: the age of the last success and whether there is an error |
| `pruning` | what a call of `PruneBackups` has listed and not removed yet |
| `second` | the stamp of this second, once an attempt has taken it |

An attempt is a chain of file operations (`OpenTemp`, `Vacuumed`, `Verify`,
`CheckDeadline`, `Publish`), each a step that may fail or not be taken at all; so
a hung operation needs no action of its own. After `Abandon` the attempt lives on
and may still publish, if its check of the deadline came just before it. The
scheduler's own calls are prompt, except that in a run with `MayBlock` the
directory may hold it in the three calls that no context bounds: the listing at
startup, the `os.Stat` loop, and pruning. Time is the age of files and of the last
backup; `Tick` is held back while the scheduler has something due. A crash ends
all goroutines of the server and keeps the files. A name stands in `files` at most once
as a snapshot and once as a temporary file, so a position is as good as a path; a
temporary file that nobody works on any more stays until `MakeRoom`. Left out: the checkpoint after a
run, `Restore`, the periodic integrity check (so `Degraded` is the backups' part of
a 503), a killed command, and `--backup-keep 0`.

### ViewStore and ViewCalls: views and those who share them

ViewStore is the views table and its events: `CreateView`, `UpdateView` (which
finds the row by its name, live rows before archived ones, the youngest first) and
any other write of the store. ViewCalls adds the callers. A handler looks a name up,
decides whether the caller may change that view, and then hands the *name* to
`UpdateView`: two transactions.

| Action | Code |
|---|---|
| `Read` | `trackd view update` reads the filter it changes a part of (`cli_views.go`); the edit page renders the fields that the form will post |
| `Check` | `handlePatchView` and its like: `GetView`, who may see and change it, whether an actor may be named |
| `Apply` | `UpdateView` of that name, or the store's refusal |
| `Create`, `Repeat` | the POST, sent once; the PATCH that the HTTP client sends again |
| `Open`, `Press`, `Settle` | a page with quick actions; `uiIssueAction`, which looks the view up again by its name and refuses an action whose signature is not there any more; and its patch of the issue, a transaction of its own |
| `ReadFeed` | `ListAllEvents`: filter by visibility, then cut to a page, and go on from its last event |

A filter gives each of its fields a value or none; what it selects among issues is
left out. Names are modelled as NOCASE compares them.

### Access: tokens and sessions

| Action | Code |
|---|---|
| `TokenAdd`, `TokenRevoke` | `trackd token`, which takes the exclusive lock: only while no server runs |
| `Serve`, `Stop` | the server, killed or not; a first start makes a token; requests in work are lost, responses already sent are not |
| `Login`, `StartSession` | `VerifyToken`, then `CreateUISession` with its sweep of expired rows |
| `Visit`, `LookUp` | `uiAuth` and `UISession`: the cookie and the clock are read, and then the query runs |
| `Judge`, `Renew` | `uiAuth` reads the clock again and, a day into the session's life, `RenewUISession` computes the new expiry, before its UPDATE runs; the cookie goes with the response |
| `Logout`, `Delete` | the row is deleted and the response clears the cookie |
| `Refused` | the database refuses one of these statements; a renewal or a delete is then only logged |
| `Arrive`, `Tick` | a response reaches its browser in any order, or never; time |

The store takes `now()` in Go and hands it to `db.Exec`, `QueryRow` or `tx`, which wait
for the one pooled connection (`store.go:95-97`). So a statement compares with a time that
may be past: reading the clock and using it are two steps, with `Tick` and the steps of
others between them. `MaxWait` bounds how old a reading gets. Two readings with nothing
to wait for between them, as those of `RenewUISession`, are one.

`visited` is a history variable: when a session last got a page whose renewal
the database did not refuse. Roles and `last_used_at` are left out.

### Lifecycle: the database file from outside

The processes that open the file under the exclusive lock, each with the schema of
its binary, the readers that take snapshots without it, the restore command, and the
operator. A database is the set of the writes committed to it, each with the schema
it was made under.

| Action | Code |
|---|---|
| `Lock`, `OpenFile` | `OpenWith` with `Exclusive`: the lock, `sql.Open`, `quick_check`, `checkSchemaVersion` |
| `SnapshotBeforeMigration`, `Migrate` | `applyMigrations`: a copy if `user_version > 0`, then one transaction per migration |
| `Write`, `Close`, `Kill`, `Backup` | any write; the last connection removes `-wal` and `-shm`, a kill does not |
| `CheckPath`, `CreateFile`, `Copy`, `CopyFails`, `Verify`, `KillRestore` | `trackd restore` and `Restore`, in its steps |
| `MoveAside` | the operator, who may forget the sidecars; SQLite then applies a foreign log to the file that comes after, unless it is empty |

Restore lets the lock go before it looks at the path, so a writer may come between
its steps. `overlapped` remembers that this happened, and the properties about the
file's content are stated for histories where it did not; see Findings. The Windows
lock, which grants itself to anyone, is left out.

### Dump: export and import

Export commands, with and without `--out`, read a database in one transaction,
table after table, while others write to it; the file is made under `.partial`,
synced, and linked to its name. A dump is a sequence of lines, and a checksum is the
lines it was computed over. On its way a dump may be cut short, lose or change a
line, or get another behind it (`Damaged`). `ImportDump` is one transaction with all
its checks; `ImportLinear` takes issues, prefix and sequence from a Linear export.
Three of the thirteen tables (settings, issues, events) stand for the rest, without
the references between them. `disk` has the files there are, so that a path is free when
it is not in its domain.

`IsDatabase` says what the schema keeps of a set of rows: ids are unique, and the settings
that the first migration inserts are there (`0001_init.sql:105-108`); nothing deletes one
but an import, which brings its own. `OtherDumps` are the dumps of other versions, as
those wrote them (`OtherDumpAssumption`): versions 1 and 2, which have no end record and
need `--unverified`, and versions or schemas this binary refuses. Two things are
therefore outside the model: a version 3 dump made by an older schema, which is another
tracker's export and not one of `moments`, and a version 1 or 2 dump that was damaged
on its way, about which the code promises nothing.

### Property modules, MC modules, proofs

Properties are apart from the models (`*Properties`). The `MC*` modules define the
inputs and symmetries of the instances. Eight modules hold the theorems:
`AuditedRows_proofs` and `IssueStore_proofs` about the tables, `IssueCalls_proofs` about
concurrent callers (first what holds at every step, then what is promised to a caller),
`Project_proofs`, `View_proofs`, `Access_proofs` and `Lifecycle_proofs` about the
components of those names, and `Files_proofs` about the snapshots and the dumps.

## What the runs check

| Run | Question | Bounds |
|---|---|---|
| `issue_trail` | Do histories of statuses, descriptions, archiving, conditional writes, idempotent creates, comments and milestones leave a gapless trail, versions that only grow and stamps that tell the truth? Do the three tables with one log implement the audited table? | 5 events |
| `issue_place` | Can reparenting close a loop, or a move leave a foreign milestone? Do labels, exclusive groups and relations agree with the settings and the trail, in every order? | 5 events, walk of at most 3 |
| `calls` | Two callers, each with one of ten ways to update an issue, create or comment, with loss, timeout, busy answers and retries: is an update lost, a conflict false, a protected step applied twice, a patch applied without its text? Does a key make one record, do only admins overwrite, does every call end? | 2 callers, 2 attempts |
| `backup_files` | Scheduler, abandoned attempt, command, two prunings, crashes, a blocking directory: is only a whole file published, is the newest snapshot ever lost, does `last_at` stand for a snapshot that exists? | 3 names, 2 runs, 1 command, interval 2 |
| `backup_clock` | With one attempt hung for good, does every run end? Without a failure, does the last snapshot ever get older than the interval and one run, restarts included? | 3 names, 2 runs, interval 5 |
| `views` | Three callers with nine requests, a page and a feed: is a name ever two views, is the trail complete, is a button refused although its view is as the page shows it, can a write reach a view its caller may not change other than by reuse of the name, does the feed skip an event? | 3 callers, 2 attempts, 2 names, feed pages of 2 |
| `access` | Can a session that ended work again, or one that is visited be lost, whatever requests, restarts and responses overlap? | 1 browser, 2 requests at a time, 2 session ids, 2 tokens, lifetime 5, renewal after 2, waits of 1, time to 5 |
| `lifecycle` | Kills and restores at every step: is an open database whole and at its schema, does a migrated write have its old copy, does a committed write stay? | binaries of schema 1 and 3, 1 restore at a time, 2 writes |
| `dump` | Is what is published one moment of the database, does only an exported database get imported, and does the key sequence go on? | 2 databases, 2 exports, 2 writes |
| `projects` | Projects created, renamed, relabelled, completed and archived in any order, with issues that refer to them, after an import or without: does a slug mean one project, is a shared name always the import's, are labels exclusive, does `completed_at` tell the truth, is the trail whole? | 3 names, 2 labels, 4 events, 2 exports |
| `call_save`, `backup_second` | Two statements of the repository the code does not keep; see Findings. | smallest that shows it |

**Why these bounds are enough.** Every write is one event, so `MaxEvents` bounds
the length of a history. Entering a phase, leaving it and entering it again takes
a create and three updates; closing a loop takes two creates and two reparentings,
and with three rows there is an issue in the middle; moving an issue to another
project's milestone takes two milestones, a create and a move: five events hold each
of these. The depth cap of the parent walk is
1000 in the code and 3 in the model, so that a chain that is too deep occurs. Two
attempts are the least with a retry, and with two callers every interleaving of
two handlers with each other and with one late attempt occurs; a third and fourth
attempt repeat what the second does. Callers are alike, so of two requests it does not
matter who sends which, and `InOrder` keeps one of the two cases; once both have begun a
state stays in its case, so no behaviour is cut in the middle. In IssueCalls `MaxEvents` is larger than
what all attempts can record, so it never cuts a behaviour short.

In Backup the ages are cut at `Horizon`, above the largest age a property asks for.
Three names hold the newest snapshot, the file of a hung attempt and one more; when
all are taken, `MakeRoom` lets somebody clear away any file that nobody works on
but the newest verified snapshot. Two attempts are one that hangs and one that goes
on. An interval of 5 is the least at which a snapshot younger than a quarter of it
can have an age other than 0, so that `FirstDelay` matters; 2 is enough for the
files. `backup_files` treats names and attempts as symmetric, which is sound as no
liveness is checked there. In both runs no two attempts begin in the same second
(`SameSecond = FALSE`); `backup_second` shows what happens when they do, and with it
`PublishedWhole` and `NewestKept` fail as well: a third attempt writes under the
temporary name while the first, already verified, renames it; and an attempt slow between choosing its name and
writing replaces an older snapshot of that name, a pruning that listed the older one
removes the new one in its place, and its own pruning removes the rest.

In `projects`, two names differ in case and the third slugifies to the number the second
would get; the two exports bring them in two orders, so that a number is taken when it is
handed out. Completing a project, giving the status again, leaving it and completing it
once more takes four events, as does a name given to and fro.

In `views`, three callers are one whose write goes between the two look-ups of
another, and one more that takes the freed name meanwhile; with 2 attempts a late
repeat falls on a name that has changed hands. A feed page of 2 is the least in which
a private event can take the place of a visible one. In `access`, a lifetime of 5 and a
renewal after 2 leave a time in which a session is live and due, and one in which it is
not due yet; at time 5 a session has run out, and a reading that is 1 old is from before
that: `ExpiredStaysExpired` below is refuted there. The wait of a look-up and that of
a renewal, 1 each, are together as long as a session rests, the most for which `VisitsExtend`
holds. Two requests are a
renewal and whatever it races; two ids are the session that ended and the one that came
after it. `lifecycle` has one migration too many for one kill to finish (schema 1 to 3),
and a database, its copy and a restored one differ by 2 writes. In `dump`, two writes are
one before and one while an export reads, and the Linear export has the larger number
under the smaller team; `OneDump` keeps a dump on stdout and one under `--out`, which
have nothing to do with each other, from being on disk together. Callers, sessions,
databases and exports are alike and treated as symmetric; no run with symmetry checks
liveness.

Deadlock is checked in the runs of Backup. It is not where behaviours really end or
are cut by a bound: the histories of IssueStore end at `MaxEvents`; each caller of
IssueCalls and ViewCalls makes one call and stops; `access`, `lifecycle` and `dump` end
when time, session ids or writes are used up.

**Fairness.** IssueStore and ProjectStore have none; their properties are about safety. In IssueCalls
a caller that is ready sends (`WF(Attempt)`) and an attempt that is not answered
ends (`WF(Lose)`): `http.Client.Timeout` bounds every attempt
(`client.go:15-18`) and the delays between them are constants. Nothing is assumed
of the server or the network, so `EveryCallEnds` holds even if no reply ever comes.
In Backup the clock goes on and the goroutine of the scheduler runs when it can,
which is what the Go runtime and its timers give; the attempt `Wedged` may never
take another step, and the others take theirs at any speed. `EveryRunEnds` assumes
that the calls outside `runCtx` return (`MayBlock = {}`); without that it fails, which
is one of the known disagreements below. ViewCalls, Access, Lifecycle and Dump state
none: their properties are about safety.

## What is proved

For every value of the constants, under the assumptions named in the modules; TLC
evaluates each of them in the runs.

**The issue tables**, under `InputAssumption` (inputs have the types of the request structs and of the
settings), `KeepAssumption` (a field that is left out is not confused with a
value), `PatchAssumption`, `BoundAssumption` and `NoneAssumption` (no row is the
empty "before"):

* `TypeCorrect`: `TypeOK` is inductive as it stands. It carries the claim that
  issue keys are handed out without gap and never twice
  (`issues \in [1..issueSeq -> Issue]`), which the other proofs build on.
* `TrailComplete` (of AuditedRows): a table that is kept as the abstract
  specification says has in its log the whole history of each row. The inductive
  invariant adds to the chain of events that the row stands where the last event
  left it, which the next event's "before" needs.
* `ImplementsAuditedIssues`: `Spec => IssuesAudited`, by mapping the initial
  state and each action to a step of AuditedRows or to one that is not about issues.
* `IssueHistoryComplete`: `IssueTrail`, from the two before.
* `ImplementsAuditedRows`: the same mapping for comments and for milestones: a step on one
  table is, for the others, an event about something else.
* `RelationsAsRecorded`: the invariant (`Alternates`) follows one relation through the
  events about it: there is a latest before every position, each says the opposite of
  the latest before it, and the relation is there if the latest says so. That there is
  a latest is part of the invariant, so that no induction on the trail is needed.
* `StampsTellHistory`: the invariant follows one issue and one phase (`Dated`, `FirstDated`):
  the stamp is a position at which the issue entered the phase and since which every event
  about it left it there; for `started_at`, the least position of an entry. A write that
  keeps the status keeps the stamps, because a stamp that is set is not 0.
* `LabelsExclusive`: inductive given types. The work is in `LabelsAfterExclusive`:
  of two labels of one group that survive an edit, one was added after the other
  and dropped it.
* `MilestonesInProject`: needs that a milestone never changes project.
* `HierarchyHasNoLoop`: stated over sets, "every non-empty set of issues has a
  member whose parent is outside it", so that no induction on paths is needed. The
  invariant adds that parents exist. For the step that reparents k under p, suppose
  a set closed under parents: it must hold k, hence p, hence all of the path from p
  that `ParentAllowed` exhibits, and so its root, whose parent is 0.
* `VersionsOnlyGrow`: the invariant adds that no event about an issue holds a
  version beyond that of its row.

**Projects**, also under `ProjectAssumption`, `ProjectPatchAssumption`, `ImportAssumption`
and `NoProjectAssumption`:

* `ProjectWritesAudited`: each step of the composed store maps to a step of AuditedRows
  about projects, to an import, or to a stutter.
* `OneProjectPerSlug`: an import hands out a slug that none before it has, a create asks,
  an update keeps.
* `ProjectLabelsExclusive`: `LabelsAfterExclusive` again, and `NoGroupConflict`.
* `NamesSharedByImportOnly`: a project is created when some event about it has an empty
  "before"; a new name differs from every other, and the import makes no such event.
* `CompletionDated`: one project at a time (`CompletedAtFits`): the stamp is the position
  of the event that made it completed, and events of other rows do not count.

**Concurrent callers**, also under `RequestAssumption` (requests have their types,
`First` is a legal first issue, the bound on events leaves room for it),
`FormAssumption` (the board's form has no field for the description) and
`InputsCovered` (the inputs and patches that requests come to, with the agent label
and any version in them, are among those of the store):

* `CallsAreTransactions`: `CallSpec => [][Next]_vars`. Whatever callers, network and
  handlers do, the tables see a transaction of IssueStore or nothing. It needs that a
  handler's step is an input of the store, hence that requests, versions read and
  results are typed (`TypesInv`).
* `TablesKeptUnderCalls`: so what was proved of the tables from their own initial state
  holds under any callers from the database they start with; only that it starts
  so is new.
* `UpdatesNotLost`: the invariant `RecordInv` adds that a version that was read stands
  for the writes up to the read (`ReadsStand`: as long as the issue has that version,
  nobody has written it since) and that each event recorded under a version was,
  when recorded, the first write since the read (`BySound`).
* `ConflictsAreNews`: the news travels: a handler that found a conflict has it among
  its results (`HandlerNews`), then its caller has it as the answer (`CallerNews`);
  events are only added, so it stays true.
* `StepsAppliedOnce`: `AttemptsInv` says that there is one handler per attempt, that
  its results are as many as the steps it has recorded at most, and that only the
  attempts sent so far have recorded anything. Two records of one step are then of
  two attempts, so the request is repeatable, so a keyed create or comment or a
  patch. The second of two keyed writes finds the key spent, and the second of two
  conditional patches finds the version moved.
* `TextsFirst`: a request whose patch is its second step has a text as its first, and
  a store that took the text recorded it; so a handler that is past its text has it
  on record (`HandlersTextFirst`), before the patch it records next
  (`PatchesAfterText`).
* `KeysCreateOnce`: a create that was recorded has spent its key for the issue, a key is
  spent for one issue, and a create that finds its key spent records nothing. An answer
  of success comes from a result, and the result from the transaction.
* `AdminsOverwrite`: a handler that holds a patch which overwrites is of an admin's
  request (`GoodStep`); every other write of a description appends or fills an empty one.

**Views**, under `KeepAssumption`, `NoneAssumption`, `FirstAssumption` (the first
rows are live and their names differ) and ViewCalls' `RequestAssumption`:

* `CallsImplementStore`: `ViewSpec => StoreSpec`, each handler step a transaction of
  the table or a stutter.
* `OneViewPerName`, inductive with the types; `ViewHistoryComplete`, by refinement of
  AuditedRows.
* `StraysOnlyByReuse`: the invariant keeps that the row a handler has checked was
  one its caller may change (an owner never changes). A live row found under the
  name by the second look-up is that row, unless that row has been renamed or archived.
* `ViewTypeCorrect`.
* `RefusalsMeanChange`: the page shows a view that was live and visible. As long as the
  view is as shown, its name stands for it, as names are unique (`OneViewPerName`) and
  live rows come before archived ones, so the button is found.
* `FeedLeavesNothingOut`: a page is cut by counting, so what is earlier than an event of
  the page is on it (`PageKeeps`). If a short page left something out, the least of what
  it left out would be counted within the limit; that there is a least one
  (`Least`) is taken from the library's theorem that the naturals are well-founded.

**Access**, under `TimeAssumption`, `JarAssumption` and `CookieAssumption`:

* `AccessTypeCorrect`: its types, and that every session row is of a token that exists
  and under an id that was handed out, which the others need.
* `EndedForGood`, however long statements wait: an id is handed out once, a row that is
  gone is not inserted again and a token stays revoked; a row that ran out is renewed only
  by who read the clock before, and then the session has not ended (`Ended`), while
  whoever reads it later finds no row.
* `VisitsKeepSessions`, if `2 * MaxWait <= RenewAfter`: the invariant (`VisitInv`) says that
  `visited` is never in the future, that a session with time left, its token good or not,
  had enough of it at its last visit, and that a request holds the expiry as it is, or
  one that another request has renewed since with a clock at most `MaxWait` old
  (`RecentInv`). A page served without a renewal has waited twice by then.
* `NothingElseEnds`, if `MaxWait < TTL`: the sweep takes only rows that have ended, as its
  clock is past, and a renewal leaves a row that has time left.

The code enforces no bound on the wait. The hypotheses ask for one of half a day and of
thirty days; every transaction of the store is short, and who waits longer than a minute gets no answer
(`WriteTimeout`, `server/server.go:32`), though the handler goes on.

**Lifecycle**, under `SchemaAssumption`, `WritesAssumption` and `NoneAssumption`:

* `OneWriter`: at most one process is past the lock.
* `OpensSound`, `OldCopiesKept`: the invariant (`FileInv`) says, unless a restore
  overlapped a writer, what the holder knows at each of its steps, that a restore
  under way is alone with its file, and that each row older than the file's schema
  is in a snapshot of its schema; with it, that a row of the file is never newer than
  the schema, which the migration's step needs.
* `WritesStay`: from the same invariant, step by step.

**Snapshots**, under `BackupAssumption`. The three about the directory have `~SameSecond`
as their hypothesis: no two backups begin in one second, so that no two share a name.
It cannot be dropped: `backup_second` refutes `PublishedWhole` without it (see Findings).
It is a constant of the model, and every behaviour of `backup_files` satisfies it.

* `AlarmHolds` (`NoFalseAlarm`) needs no such hypothesis. The invariant (`AlarmInv`) ties the
  age of the last backup to what the scheduler waits for: the timer and the ticker are
  set to the end of the interval, counted from that backup, and a run under way began
  no later than that, after a restart that skipped its startup run as well.
* `LastAtHolds`, `NewestIsKept`, `PublishedIsWhole` share the invariant `BackupInv`: types,
  `LastAtStands`, where the run stands that is waited for (`RunInv`), and `DirInv` about
  the directory: nobody shares a name; a file being written is its attempt's and not a
  snapshot; an attempt past its verification finds its own file, intact (`FilesTold`,
  `TempThere`); no pruning, however old its listing, holds the name of the newest
  snapshot or of one being written (`PrunesOld`); and files stand in the order of their
  ages, as far as a property asks for ages (`Ordered`).
  That an abandoned attempt may still publish is why `FilesTold` is about every attempt
  and not about the one that is waited for.
* Each of the twenty-odd actions is first reduced to a `DirectoryMoves`: a map tells where
  each file was before the step, in the same order; a file that is gone was `Dispensable`;
  one that is new was `Rewritten`. That `DirInv` holds after a step, and that the newest
  snapshot survives it, is then proved once, from the map, and not once per action.

**Dumps**, under `PrefixAssumption`, `BoundAssumption`, `LinearAssumption` (keys of a Linear
export have a prefix, and a number or none) and `OtherDumpAssumption`. The inductive
invariant `DumpInv` is about files, rows and keys:

* `PublishedHolds`: every file is empty, or holds a complete dump of one moment or one up to
  a table (`Content`). An export that is reading has written just that much of what its
  transaction sees, and two exports never hold the same file (`FilesInv`), so what is
  linked is complete.
* `ImportedHolds`: what an import accepts is what was exported. The kinds of damage are
  taken one by one (`DamagedIs`) against the end record: a dump cut short ends in another
  line or is torn; one that lost or changed a line does not have the lines that its
  end record has the checksum of; two dumps in a row end in a checksum of the second
  alone; an unfinished dump has no end record, whatever happens to it (`EndMissing`).
  What passes is a whole dump, and its body is the rows of its moment, which needs
  that a table put in order by counting has all of its rows (`InOrderIs`).
* `KeysHold`: the invariant (`KeysInv`) is about every moment, not only the present,
  as any of them may be imported later: the sequence is ahead of the numbers under
  the current prefix (`SeqAhead`). After a Linear import, this is what `LastNumber`, the
  largest number under the chosen prefix, gives.
* `Ranked` serves both: in a finite set whose members have different ranks, for each n one
  has exactly n members up to its rank. So the n-th newest snapshot and the n-th row
  of a table exist.

Every safety property that a passing run checks is the statement of a theorem. Only
model-checked are the two liveness properties, `EveryCallEnds` and `EveryRunEnds`, as this
prover does no liveness, and what the violation runs refute.

## Findings

* `save_issue` in mode update with `append_description` and `expected_version`
  appends without looking at the version and then drops it from the patch
  (`server/mcp.go:406-440`), while the schema promises to "fail with a version
  conflict unless the issue is still at this version" (`server/mcp.go:138`). Run
  `call_save`.
* Backups that begin in one second share a name and a temporary file until one is
  published (`store/backup.go:38-46`, `87`), so one of them fails on the other's file
  and removes it; the comment promises a suffix "rather than an error"
  (`store/backup.go:40`). With three of them, the rename of the first publishes the file
  the third has only begun to write, against `store/backup.go:80-82`. Run
  `backup_second`.

Known disagreements that no run is spent on. Each is stated by a definition of the
property modules, which TLC refutes when it is put in the cfg of the run named:

* Milestone names are looked up without regard to case but unique with it
  (`store/milestones.go:206`, `store/migrations/0003_cutover.sql:55`):
  `MilestoneNameMeansOne`, `issue_place` with two spellings of a name.
* An issue can be related to itself under two spellings of its key
  (`store/issues.go:738`): `NoSelfRelation`, `issue_place`.
* A backup directory whose reads block holds the scheduler in `NewestBackupAge`
  (`server/server.go:436`), before the probe and outside any context; no run is ever
  recorded and `/healthz` stays `ok`, while the README says the block is detected and
  reported (`README.md:291-292`): `BlockedDirectoryReported`, `backup_clock` with
  `MayBlock = {"list"}`.
* Two backups of one second share a name where the comment promises a suffix
  (`store/backup.go:40`): `SuffixedApart`, `backup_second`.
* A PATCH of a view can reach a view its caller may not change, when the name changed
  hands between the two look-ups (`server/views.go:147-161`, against
  `docs/API.md:75-76`): `OnlyEditorsChange`, `views`. `StraysOnlyByReuse` proves that
  this is the only way.
* A restore lets the lock go before it writes (`main.go:319-345`,
  `store/backup.go:252-281`), so it can write the file of a server that started
  meanwhile, while the README says it refuses (`README.md:171-172`):
  `RestoreRefusesServed`, `lifecycle`.
* After a Linear import of two teams, `trackd setting set issue_prefix` to the smaller
  team's prefix makes every create fail, as the sequence does not know that team's
  numbers and a failed create does not advance it (`store/import_linear.go:345-373`,
  `store/issues.go:956-974`, against `docs/CONCEPTS.md:85-87`): `AnyPrefixContinues`,
  `dump`.
* A renewal whose clock was read before the expiry and whose UPDATE waited past it brings
  the session back, after other requests were refused (`store/sessions.go:75-79`), while the
  comment says that renewing an expired session is a no-op (`store/sessions.go:69-71`):
  `ExpiredStaysExpired`, `access`. `EndedForGood` proves that no other session comes back.
* The comment on `projectNameFree` says that "Site Rebuild" and "site rebuild" cannot both
  exist (`store/projects.go:187-188`); a Linear import tells names apart as they are
  spelled (`store/import_linear.go:162`) and makes both: `NamesApart`, `projects`.
  `NamesSharedByImportOnly` proves that nothing else does.
* "Every mutation records an audit event with before/after state" (`store/store.go:3-4`);
  the import records its issues, without their state, and its projects and milestones
  not at all: `EveryProjectRecorded`, `projects`.

## Plan

What further work on this project would take up, in this order:

1. *Refinement*: ViewStore, Access and Lifecycle have no abstract specification of what
   they promise as a whole, as AuditedRows is one for the tables; the backup directory as
   a register that holds the newest good snapshot would be one, with `DirectoryMoves`
   as the step that maps to it.
2. *SameSecond*: the counterexample takes three backups of one second; what holds with
   two of them, which is what a server and a command can make, is not stated yet.
3. *Dumps*: the references between rows, and with them `checkLabelGroups` and the foreign keys
   that an import checks at commit.

## Not modelled

* Settings other than `label_groups` and `issue_prefix`: `agent_label` and
  `actor_from_token` are constants of the call modules, as they change only while no
  server runs; the others (`base_url`, `workspace_name`) are shown and nothing else.
* Reads that return lists and searches, which change nothing, with their paging by
  offset; what a view's filter selects; wording, layout and colours; logging.
* The periodic integrity check and the checkpoint after a backup; the lock of Windows.
* Of a Linear import: parsing and statuses. Of a dump: ten of its tables and the references between rows.
* The service files (`service.go`), whose state is the operating system's; argument
  parsing and printing (`cli.go`).
