-------------------------------- MODULE Dump --------------------------------
(***************************************************************************)
(* Moving a tracker between databases: trackd export writes a database as  *)
(* one line per row, trackd import trackd loads such a dump, and trackd    *)
(* import linear loads the issues of a Linear export.  Databases are       *)
(* written to while they are exported.  Exports fail and are killed, dumps *)
(* are cut short and damaged on their way, and keys are handed out after   *)
(* an import as before it.                                                 *)
(*                                                                         *)
(* Data: a database is the set of its rows, and a row is its line in a     *)
(* dump.  Three of the thirteen tables stand for the rest: the settings    *)
(* issue_prefix and issue_seq, the issues, and their events.  A checksum   *)
(* is the lines it was computed over.                                      *)
(***************************************************************************)
EXTENDS Integers, Sequences, FiniteSets, SequencesExt

CONSTANTS
  Databases,
  Exports,       \* trackd export commands
  KeyPrefixes,      \* issue key prefixes
  TSK,           \* the prefix a new database starts with
  LinearExports, \* Linear exports: the keys in the order of the file
  OtherDumps,    \* dumps other versions of trackd wrote
  Schema,        \* the schema of this binary
  MaxWrites,     \* bound on the writes ever made
  Nothing        \* no issue, no number, no prefix

VARIABLES
  dbs,      \* database -> its rows
  exports,  \* export -> where it is
  disk,     \* the files there are: what --out names, its .partial, what the
            \* shell redirects stdout to
  loaded,   \* database -> how it came to its first rows
  renamed,  \* the databases whose issue_prefix was set
  moments,  \* what databases held from write to write
  writes    \* writes made so far

vars == <<dbs, exports, disk, loaded, renamed, moments, writes>>

ASSUME PrefixAssumption == TSK \in KeyPrefixes /\ Nothing \notin KeyPrefixes \cup Nat
ASSUME BoundAssumption == MaxWrites \in Nat /\ Schema \in Nat \ {0}

-----------------------------------------------------------------------------
(***************************************************************************)
(* Rows.  A row has its id under the name of its table.                    *)
(***************************************************************************)
Tables == <<"setting", "issue", "event">>

Rows(table, lines) == {row \in lines : table \in DOMAIN row}

\* The settings table is ordered by key.
IssuePrefix == 1
IssueSeq == 2

Setting(key, value) == [setting |-> key, value |-> value]

Issue(id, key, version) == [issue |-> id, key |-> key, version |-> version]

Event(id, of, version) == [event |-> id, of |-> of, version |-> version]

\* A key's number, where a Linear export has one.
Key == KeyPrefixes \X (Nat \cup {Nothing})

ASSUME LinearAssumption == LinearExports \subseteq Seq(Key)

IsRow(row) ==
  \/ /\ DOMAIN row = {"setting", "value"}
     /\ \/ row.setting = IssuePrefix /\ row.value \in KeyPrefixes \cup {Nothing}
        \/ row.setting = IssueSeq /\ row.value \in Nat
  \/ /\ DOMAIN row = {"issue", "key", "version"}
     /\ {row.issue, row.version} \subseteq Nat /\ row.key \in Key
  \/ /\ DOMAIN row = {"event", "of", "version"}
     /\ {row.event, row.version} \subseteq Nat

\* What the schema keeps of a database: its rows' ids tell them apart, and the
\* settings its first migration put there stay.
IsDatabase(db) ==
  /\ IsFiniteSet(db)
  /\ \A row \in db : IsRow(row)
  /\ \A table \in {"setting", "issue", "event"} : \A r, s \in Rows(table, db) :
       r[table] = s[table] => r = s
  /\ {IssuePrefix, IssueSeq} \subseteq {row.setting : row \in Rows("setting", db)}

Fresh == {Setting(IssuePrefix, TSK), Setting(IssueSeq, 0)}

\* isEmpty asks the tables an operator's data is in, not the settings.
IsEmpty(db) == \A row \in db : "setting" \in DOMAIN row

NextId(table, db) == 1 + Max({0} \cup {row[table] : row \in Rows(table, db)})

SettingOf(db, key, default) ==
  LET rows == {row \in Rows("setting", db) : row.setting = key}
  IN IF rows = {} THEN default ELSE (CHOOSE row \in rows : TRUE).value

\* An UPDATE: a setting without a row stays without one.
Set(db, key, value) ==
  {IF "setting" \in DOMAIN row /\ row.setting = key THEN Setting(key, value) ELSE row :
     row \in db}

Keys(db) == {row.key : row \in Rows("issue", db)}

\* The key the next issue is created under.
NextKey(db) ==
  LET prefix == SettingOf(db, IssuePrefix, Nothing)
  IN <<IF prefix = Nothing THEN TSK ELSE prefix, SettingOf(db, IssueSeq, 0) + 1>>

-----------------------------------------------------------------------------
(***************************************************************************)
(* Writes, each one transaction.  A create whose key is taken fails and    *)
(* takes the number it drew back with it.                                  *)
(***************************************************************************)
Wrote(d, db) ==
  /\ writes < MaxWrites
  /\ writes' = writes + 1
  /\ dbs' = [dbs EXCEPT ![d] = db]
  /\ moments' = moments \cup {db}
  /\ UNCHANGED <<exports, disk>>

CreateIssue(d) ==
  LET db == dbs[d]
      key == NextKey(db)
  IN /\ key \notin Keys(db)
     /\ Wrote(d, Set(db, IssueSeq, key[2]) \cup
          {Issue(NextId("issue", db), key, 1), Event(NextId("event", db), key, 1)})
     /\ UNCHANGED <<loaded, renamed>>

UpdateIssue(d) ==
  LET db == dbs[d]
  IN \E row \in Rows("issue", db) :
       /\ Wrote(d, (db \ {row}) \cup
            {Issue(row.issue, row.key, row.version + 1),
             Event(NextId("event", db), row.key, row.version + 1)})
       /\ UNCHANGED <<loaded, renamed>>

\* UpdateSetting inserts the row where an UPDATE would find none.
SetPrefix(d, prefix) ==
  LET db == dbs[d]
      others == {row \in db : ~("setting" \in DOMAIN row /\ row.setting = IssuePrefix)}
  IN /\ Wrote(d, others \cup {Setting(IssuePrefix, prefix), Event(NextId("event", db), Nothing, 0)})
     /\ renamed' = renamed \cup {d}
     /\ UNCHANGED loaded

-----------------------------------------------------------------------------
(***************************************************************************)
(* Exporting.                                                              *)
(***************************************************************************)
Header == [version |-> 3, schema |-> Schema]

Torn == [torn |-> TRUE] \* a line that is not all there

\* The rows of a table, in the order of their ids.
InOrder(table, db) ==
  LET rows == Rows(table, db)
  IN [k \in 1..Cardinality(rows) |->
        CHOOSE row \in rows : Cardinality({r \in rows : r[table] <= row[table]}) = k]

Counts(lines) == [n \in DOMAIN Tables |->
  Cardinality({k \in DOMAIN lines : Tables[n] \in DOMAIN lines[k]})]

End(lines) == [counts |-> Counts(lines), sum |-> lines]

Off == [at |-> "off"]

Exporting(to) == {e \in Exports : exports[e].at # "off" /\ exports[e].to = to}

Becomes(e, export) == exports' = [exports EXCEPT ![e] = export]

Stores(path, lines) ==
  disk' = [p \in DOMAIN disk \cup {path} |-> IF p = path THEN lines ELSE disk[p]]

Unlinks(path) == disk' = [p \in DOMAIN disk \ {path} |-> disk[p]]

Same == UNCHANGED <<dbs, loaded, renamed, moments, writes>>

\* Without --out, into a file the shell has emptied.
StartStdout(e) ==
  /\ exports[e].at = "off"
  /\ Exporting("stdout") = {}
  /\ Stores("stdout", << >>)
  /\ Becomes(e, [at |-> "opened", to |-> "stdout"])
  /\ Same

\* With --out nothing may be at the path, which is only an early refusal, and
\* then nothing at its .partial.
StartOut(e) ==
  /\ exports[e].at = "off"
  /\ "out" \notin DOMAIN disk
  /\ Becomes(e, [at |-> "looked", to |-> "partial"])
  /\ UNCHANGED disk /\ Same

CreatePartial(e) ==
  /\ exports[e].at = "looked"
  /\ \/ /\ "partial" \notin DOMAIN disk
        /\ Stores("partial", << >>)
        /\ Becomes(e, [exports[e] EXCEPT !.at = "opened"])
     \/ /\ "partial" \in DOMAIN disk
        /\ UNCHANGED disk
        /\ Becomes(e, Off)
  /\ Same

\* The transaction starts: what it reads first is what it sees to its end.
WriteHeader(e, d) ==
  LET export == exports[e]
  IN /\ export.at = "opened"
     /\ Stores(export.to, <<Header>>)
     /\ Becomes(e, [at |-> "reading", to |-> export.to, of |-> d,
                 sees |-> dbs[d], table |-> 1])
     /\ Same

\* Mutant: no transaction, each table is read as it is.
SeesLive(e) == dbs[exports[e].of]

Sees(e) == exports[e].sees

WriteTable(e) ==
  LET export == exports[e]
  IN /\ export.at = "reading"
     /\ export.table <= Len(Tables)
     /\ Stores(export.to, disk[export.to] \o InOrder(Tables[export.table], Sees(e)))
     /\ Becomes(e, [export EXCEPT !.table = @ + 1])
     /\ Same

\* The end record; what goes to --out is synced then.
WriteEnd(e) ==
  LET export == exports[e]
  IN /\ export.at = "reading"
     /\ export.table > Len(Tables)
     /\ Stores(export.to, Append(disk[export.to], End(disk[export.to])))
     /\ Becomes(e, IF export.to = "stdout" THEN Off ELSE [at |-> "synced", to |-> "partial"])
     /\ Same

MayLink == "out" \notin DOMAIN disk

Link(e) ==
  /\ exports[e].at = "synced"
  /\ IF MayLink THEN Stores("out", disk["partial"]) ELSE UNCHANGED disk
  /\ Becomes(e, [exports[e] EXCEPT !.at = "linked"])
  /\ Same

RemovePartial(e) ==
  /\ exports[e].at = "linked"
  /\ Unlinks("partial")
  /\ Becomes(e, Off)
  /\ Same

\* A write that fails: no .partial stays.  What stdout got stays; the lines
\* still buffered are missing from it, as they may be from any dump below.
FailExport(e) ==
  /\ exports[e].at \in {"opened", "reading"}
  /\ IF exports[e].to = "partial" THEN Unlinks("partial") ELSE UNCHANGED disk
  /\ Becomes(e, Off)
  /\ Same

KillExport(e) ==
  /\ exports[e].at # "off"
  /\ Becomes(e, Off)
  /\ UNCHANGED disk /\ Same

\* The operator removes the .partial of an export that was killed.
Clean ==
  /\ Exporting("partial") = {}
  /\ "partial" \in DOMAIN disk
  /\ Unlinks("partial")
  /\ UNCHANGED exports /\ Same

\* What is there of lines whose writing was broken off.
Cut(lines) ==
  {SubSeq(lines, 1, n) : n \in 0..Len(lines)}
  \cup {Append(SubSeq(lines, 1, n), Torn) : n \in 0..(Len(lines) - 1)}

\* What may become of a dump on its way: cut short, a line lost, a line
\* changed, another dump behind it.
Damaged(lines) ==
  Cut(lines)
  \cup {RemoveAt(lines, k) : k \in DOMAIN lines}
  \cup {[lines EXCEPT ![k].version = @ + 1] :
          k \in {n \in DOMAIN lines : "version" \in DOMAIN lines[n]}}
  \cup {lines \o lines}

\* The dumps an operator may import.
Travelled ==
  OtherDumps \cup UNION {Damaged(disk[p]) : p \in DOMAIN disk}

-----------------------------------------------------------------------------
(***************************************************************************)
(* Importing a dump: one transaction of a process that has the database to *)
(* itself, so a kill leaves nothing of it.                                 *)
(***************************************************************************)
HeaderRead(lines) ==
  /\ lines # << >>
  /\ {"version", "schema"} = DOMAIN lines[1]
  /\ lines[1].version \in 1..3
  /\ lines[1].schema <= Schema

Sealed(lines) == lines[1].version = 3

\* Mutant: the end record's counts are compared, and not its checksum.
EndMatchesCounts(lines, n) == lines[n].counts = Counts(SubSeq(lines, 1, n - 1))

EndMatches(lines, n) == lines[n] = End(SubSeq(lines, 1, n - 1))

\* The end record is there, matches, and is the last line.
Whole(lines) ==
  /\ DOMAIN lines[Len(lines)] = {"counts", "sum"}
  /\ EndMatches(lines, Len(lines))

Body(lines) ==
  IF Sealed(lines) THEN SubSeq(lines, 2, Len(lines) - 1) ELSE Tail(lines)

\* Every line is a row, and the tables' primary and unique keys hold.
Loads(body) ==
  /\ \A k \in DOMAIN body : \E n \in DOMAIN Tables : Tables[n] \in DOMAIN body[k]
  /\ \A j, k \in DOMAIN body : \A n \in DOMAIN Tables :
       LET t == Tables[n]
       IN t \in DOMAIN body[j] /\ t \in DOMAIN body[k] /\ j # k =>
            /\ body[j][t] # body[k][t]
            /\ t = "issue" => body[j].key # body[k].key

Brought(lines) == {Body(lines)[k] : k \in DOMAIN Body(lines)}

\* The dumps of other versions that get as far as their rows have no end record
\* yet; the rows are those of a database.
ASSUME OtherDumpAssumption ==
  \A lines \in OtherDumps : HeaderRead(lines) =>
    /\ ~Sealed(lines)
    /\ Loads(Body(lines)) => IsDatabase(Brought(lines))

ImportDump(d, unverified) ==
  /\ IsEmpty(dbs[d])
  /\ \E lines \in Travelled :
       LET db == Brought(lines)
       IN /\ HeaderRead(lines)
          /\ IF Sealed(lines) THEN Whole(lines) ELSE unverified
          /\ Loads(Body(lines))
          /\ dbs' = [dbs EXCEPT ![d] = db]
          /\ loaded' = [loaded EXCEPT ![d] =
               [how |-> IF Sealed(lines) THEN "dump" ELSE "unverified", rows |-> db]]
          /\ moments' = IF Sealed(lines) THEN moments ELSE moments \cup {db}
  /\ UNCHANGED <<exports, disk, renamed, writes>>

-----------------------------------------------------------------------------
(***************************************************************************)
(* Importing a Linear export, in one transaction.                          *)
(***************************************************************************)
Numbered(csv) == {k \in DOMAIN csv : csv[k][2] # Nothing}

\* Mutant: the sequence continues from the number of issues.
LastNumberCounted(csv, prefix) == Cardinality({k \in Numbered(csv) : csv[k][1] = prefix})

\* maxSeq: the largest number under a prefix.
LastNumber(csv, prefix) ==
  Max({0} \cup {csv[k][2] : k \in {n \in Numbered(csv) : csv[n][1] = prefix}})

\* A prefix no other has more issues under; among equals the order of a map
\* decides, and none is left when no key has a number.
Dominant(csv) ==
  LET count(prefix) == Cardinality({k \in Numbered(csv) : csv[k][1] = prefix})
      used == {csv[k][1] : k \in Numbered(csv)}
  IN IF used = {} THEN {Nothing}
     ELSE {prefix \in used : \A other \in used : count(other) <= count(prefix)}

\* ImportLinearCSV: the database is empty and the export is not.
Importable(d, csv) == IsEmpty(dbs[d]) /\ csv # << >>

ImportLinear(d, csv) ==
  LET issues == {Issue(k, csv[k], 1) : k \in DOMAIN csv}
      trail == {Event(k, csv[k], 1) : k \in DOMAIN csv}
  IN /\ Importable(d, csv)
     /\ \A j, k \in DOMAIN csv : csv[j] = csv[k] => j = k
     /\ \E prefix \in Dominant(csv) :
          LET db == Set(Set(dbs[d], IssuePrefix, prefix), IssueSeq, LastNumber(csv, prefix))
                      \cup issues \cup trail
          IN /\ Wrote(d, db)
             /\ loaded' = [loaded EXCEPT ![d] = [how |-> "linear", rows |-> db]]
     /\ UNCHANGED renamed

-----------------------------------------------------------------------------
Init ==
  /\ dbs = [d \in Databases |-> Fresh]
  /\ exports = [e \in Exports |-> Off]
  /\ disk = << >>
  /\ loaded = [d \in Databases |-> [how |-> "created", rows |-> Fresh]]
  /\ renamed = {}
  /\ moments = {Fresh}
  /\ writes = 0

WriteNext ==
  \E d \in Databases :
    \/ CreateIssue(d) \/ UpdateIssue(d)
    \/ \E prefix \in KeyPrefixes : SetPrefix(d, prefix)
    \/ \E csv \in LinearExports : ImportLinear(d, csv)
    \/ \E unverified \in BOOLEAN : ImportDump(d, unverified)

ExportNext ==
  \E e \in Exports :
    \/ StartStdout(e) \/ StartOut(e) \/ CreatePartial(e)
    \/ \E d \in Databases : WriteHeader(e, d)
    \/ WriteTable(e) \/ WriteEnd(e)
    \/ Link(e) \/ RemovePartial(e) \/ FailExport(e) \/ KillExport(e)

Next == WriteNext \/ ExportNext \/ Clean

DumpSpec == Init /\ [][Next]_vars
=============================================================================
