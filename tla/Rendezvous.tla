----------------------------- MODULE Rendezvous -----------------------------
(***************************************************************************)
(* What a barrier promises.  Members arrive, no one goes on before all     *)
(* have arrived, and then everyone may; a member that has gone on may      *)
(* arrive for the next round while others have yet to notice.              *)
(***************************************************************************)
EXTENDS FiniteSets

CONSTANT Members

VARIABLES arrived,   \* those who wait in the current round
          released   \* those who may leave the last one

Init == arrived = {} /\ released = {}

Arrive(c) ==
    /\ c \notin arrived \cup released
    /\ arrived' = arrived \cup {c}
    /\ UNCHANGED released

\* The last to arrive opens the barrier and leaves.
Open(c) ==
    /\ arrived = Members
    /\ arrived' = {}
    /\ released' = Members \ {c}

Leave(c) ==
    /\ c \in released
    /\ released' = released \ {c}
    /\ UNCHANGED arrived

Next == \E c \in Members : Arrive(c) \/ Open(c) \/ Leave(c)

Spec == Init /\ [][Next]_<<arrived, released>>
=============================================================================
