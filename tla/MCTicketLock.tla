---------------------------- MODULE MCTicketLock ----------------------------
(* Both ticket locks: contexts of two processors on one lock.              *)
EXTENDS TicketLockUninterruptible

MCCores == Cpus \X {"task", "irq"}
=============================================================================
