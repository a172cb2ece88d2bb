------------------------------- MODULE MCDump -------------------------------
(***************************************************************************)
(* A small instance of Dump: a database and the one it is moved to, two    *)
(* exports, a Linear export of two teams whose smaller one has the larger  *)
(* numbers, and dumps of an older and a newer trackd.                      *)
(***************************************************************************)
EXTENDS DumpProperties, TLC

CONSTANTS d1, d2, e1, e2, TSKp, ENG

MCLinear == {<< <<ENG, 1>>, <<TSKp, 4>>, <<ENG, 3>> >>, << <<ENG, Nothing>> >>,
             << <<ENG, 1>>, <<ENG, 1>> >>}

MCOld ==
  {<<[version |-> 2, schema |-> 4], Setting(IssuePrefix, ENG), Setting(IssueSeq, 1),
     Issue(1, <<ENG, 1>>, 1)>>,
   <<[version |-> 3, schema |-> 6], End(<<[version |-> 3, schema |-> 6]>>)>>}

\* Bound: a dump made with --out and one on stdout, which have nothing to do
\* with each other, are not both on disk.
OneDump == {"out", "stdout"} \cap DOMAIN disk # {"out", "stdout"}

\* Either database, and either export.
Alike == Permutations(Databases) \cup Permutations(Exports)
=============================================================================
