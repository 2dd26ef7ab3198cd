------------------------------ MODULE FifoLock ------------------------------
(***************************************************************************)
(* What a ticket lock promises its callers: first come, first served, one  *)
(* at a time.  A core that asks for the lock remembers who asked before it *)
(* and is admitted when all of them have left.  A conditional request is   *)
(* admitted only when nobody holds or awaits the lock.                     *)
(***************************************************************************)
CONSTANT Cores

VARIABLES asked,     \* the cores that hold or await the lock
          holding,   \* those that hold it
          ahead      \* for each core, who asked before it and has not left

vars == <<asked, holding, ahead>>

Init ==
    /\ asked = {}
    /\ holding = {}
    /\ ahead = [c \in Cores |-> {}]

Ask(c) ==
    /\ c \notin asked
    /\ asked' = asked \cup {c}
    /\ ahead' = [ahead EXCEPT ![c] = asked]
    /\ UNCHANGED holding

Enter(c) ==
    /\ c \in asked \ holding
    /\ ahead[c] = {}
    /\ holding' = holding \cup {c}
    /\ UNCHANGED <<asked, ahead>>

EnterAtOnce(c) ==
    /\ asked = {}
    /\ asked' = {c}
    /\ holding' = {c}
    /\ UNCHANGED ahead

Leave(c) ==
    /\ c \in holding
    /\ asked' = asked \ {c}
    /\ holding' = holding \ {c}
    /\ ahead' = [d \in Cores |-> ahead[d] \ {c}]

Next == \E c \in Cores : Ask(c) \/ Enter(c) \/ EnterAtOnce(c) \/ Leave(c)

Spec == Init /\ [][Next]_vars
=============================================================================
