---------------------------- MODULE AddressMap ----------------------------
(***************************************************************************)
(* What an address space promises its users, page by page: each page is    *)
(* free or carries the attributes it was allocated with, a guard page      *)
(* knows which end of its allocation it guards, and the only changes are   *)
(* an allocation of free pages and the release of allocated ones.          *)
(***************************************************************************)
EXTENDS Integers

CONSTANTS Page,     \* the pages of the address space, an interval
          Requests  \* the attributes that may be asked for

VARIABLE map

FreePage == [flags |-> "None", content |-> "Free", strategy |-> "Reserve",
             perm |-> FALSE, guard |-> "none"]

PageFor(req, guard) ==
    [flags |-> req.flags, content |-> req.content, strategy |-> req.strategy,
     perm |-> req.perm, guard |-> guard]

Init == map = [p \in Page |-> FreePage]

(* Pages a .. b were all free and become one allocation, guards included. *)
Allocate(a, b, req) ==
    /\ \A p \in a .. b : map[p] = FreePage
    /\ map' = [p \in Page |->
                 IF p \notin a .. b THEN map[p]
                 ELSE PageFor(req, CASE req.low /\ p = a -> "low"
                                     [] req.high /\ p = b -> "high"
                                     [] OTHER -> "none")]

(* The allocated pages among a .. b become free, with the guard page right *)
(* below or right above them; none of them is permanent.                   *)
Free(a, b) ==
    LET Freed == {p \in Page : \/ p \in a .. b /\ map[p] # FreePage
                               \/ p = a - 1 /\ map[p].guard = "low"
                               \/ p = b + 1 /\ map[p].guard = "high"}
    IN  /\ \A p \in Freed : ~map[p].perm
        /\ map' = [p \in Page |-> IF p \in Freed THEN FreePage ELSE map[p]]

Next == \E a, b \in Page :
            a <= b /\ (Free(a, b) \/ \E req \in Requests : Allocate(a, b, req))

Spec == Init /\ [][Next]_map
=============================================================================
