---------------------------- MODULE MCExecution ----------------------------
(***************************************************************************)
(* Execution with two threads besides the bootstrap thread, in a process   *)
(* of their own.                                                           *)
(***************************************************************************)
EXTENDS Execution

MCOwner == [t \in Threads |-> IF t = BootstrapThread THEN "System" ELSE "Test"]

=============================================================================
