------------------------------- MODULE MCVmm -------------------------------
(***************************************************************************)
(* Two cores, three pages and a list of one entry, so that a range of two  *)
(* mapped pages takes two rounds.  Two of the four frames become page      *)
(* tables: two cores that need a third and a fourth run out of memory at   *)
(* every place where this can happen.                                      *)
(***************************************************************************)
EXTENDS Vmm, TLC

VmmSymmetry == Permutations(Cores) \cup Permutations(Frame)
=============================================================================
