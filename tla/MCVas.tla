------------------------------- MODULE MCVas -------------------------------
(***************************************************************************)
(* Five pages and as many descriptors.  The requests are those of the      *)
(* kernel: memory on demand, a guarded stack, and the permanent region     *)
(* that Vmm::Bootstrap reserves.                                           *)
(***************************************************************************)
EXTENDS Vas, TLC

MCStart == 2
MCEnd == 7

Generic == [flags |-> "RW", content |-> "Generic", strategy |-> "AllocateOnDemand",
            perm |-> FALSE, low |-> FALSE, high |-> FALSE]
Stack == [flags |-> "RW", content |-> "ThreadStack", strategy |-> "AllocateOnDemand",
          perm |-> FALSE, low |-> TRUE, high |-> TRUE]
Bootstrap == [flags |-> "RW", content |-> "VmmBootstrap", strategy |-> "Reserve",
              perm |-> TRUE, low |-> FALSE, high |-> FALSE]

MCRequests == {Generic, Stack, Bootstrap}

NodeSymmetry == Permutations(Node)
=============================================================================
