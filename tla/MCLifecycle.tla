----------------------------- MODULE MCLifecycle -----------------------------
(***************************************************************************)
(* A small instance of Lifecycle: a binary of the first schema and two     *)
(* processes of one that is two migrations on, and one restore at a time.  *)
(***************************************************************************)
EXTENDS LifecycleProperties, TLC

CONSTANTS old, new, r1

MCSchemas == (old :> 1) @@ (new :> 3)
=============================================================================
