-------------------------------- MODULE MCBackup --------------------------------
(***************************************************************************)
(* Backup on small instances.                                              *)
(***************************************************************************)
EXTENDS BackupProperties, TLC

Symmetric == Permutations(Names) \cup Permutations(Runs)
===============================================================================
