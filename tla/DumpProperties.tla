--------------------------- MODULE DumpProperties ---------------------------
(***************************************************************************)
(* What a dump is good for, and what keys mean after an import.            *)
(***************************************************************************)
EXTENDS Dump

\* The complete dump of a database.
DumpOf(db) ==
  LET lines == <<Header>> \o InOrder("setting", db) \o InOrder("issue", db)
                 \o InOrder("event", db)
  IN Append(lines, End(lines))

\* What trackd export --out leaves under the name it was given is the complete
\* dump of a database as it was at one moment, whatever was written to it
\* meanwhile and however other exports to that name ended (writeNewFile).
PublishedIsOneMoment ==
  "out" \in DOMAIN disk => \E db \in moments : disk["out"] = DumpOf(db)

\* A database loaded from a dump, without --unverified, is one that was
\* exported, row for row: no dump that was cut short, lost or changed a line,
\* or has something behind it gets in (docs/CLI.md:169-172).
ImportedIsExported ==
  \A d \in Databases : loaded[d].how = "dump" => loaded[d].rows \in moments

NextKeyFree(d) == NextKey(dbs[d]) \notin Keys(dbs[d])

\* The key sequence continues: as long as issue_prefix is left alone, the next
\* issue of a database gets a key nothing in it has, be the database new, from
\* Linear or from a dump of one that was (README.md:214).
KeysContinue ==
  (renamed = {} /\ \A d \in Databases : loaded[d].how # "unverified")
    => \A d \in Databases : NextKeyFree(d)

\* "issue_prefix (the key prefix for new issues ...; existing keys keep
\* theirs)" (docs/CONCEPTS.md:85-87): new issues get a key under any prefix.
AnyPrefixContinues == \A d \in Databases : loaded[d].how = "linear" => NextKeyFree(d)
=============================================================================
