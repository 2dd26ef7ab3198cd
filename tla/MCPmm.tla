------------------------------- MODULE MCPmm -------------------------------
(* Two spaces: one of a single large frame below 4 GiB, one of two large   *)
(* frames and a stray one, so that a split list of three frames exists.    *)
EXTENDS Pmm, TLC

MCWhole == << <<1>>, <<2, 3>> >>
MCStray == << <<>>, <<4>> >>
MCRequests == {<<"4KiB", "Any", 0>>, <<"4KiB", "Any", 1>>,
               <<"4KiB", "32bit", 1>>, <<"2MiB", "Any", 1>>}
MCLow == {1}
CoreSymmetry == Permutations(Cores)
=============================================================================
