------------------------------- MODULE Barrier -------------------------------
(***************************************************************************)
(* Barrier::Reach of libs/common/src/sync/barrier.cpp.  Each access to     *)
(* Left and Step is a step of its own.  Reset runs before any core reaches *)
(* the barrier and gives Init.                                             *)
(***************************************************************************)
EXTENDS Naturals, FiniteSets

CONSTANTS Cores,
          StepCount   \* values of Step: 2^64 in the code

ASSUME BarrierAssumption ==
    /\ IsFiniteSet(Cores)
    /\ Cardinality(Cores) > 1    \* Reach returns at once when Total is one
    /\ StepCount \in Nat /\ StepCount > 1

VARIABLES Left, Step,
          pc,
          step    \* the copy of Step each core took on its way in

vars == <<Left, Step, pc, step>>

Total == Cardinality(Cores)

IncStep(s) == IF s + 1 = StepCount THEN 0 ELSE s + 1

\* Reset(Total) or the constructor.
Init ==
    /\ Left = 0
    /\ Step = 0
    /\ pc = [c \in Cores |-> "out"]
    /\ step = [c \in Cores |-> 0]

\* step = Step.Load()
ReachLoad(c) ==
    /\ pc[c] = "out"
    /\ pc' = [pc EXCEPT ![c] = "loaded"]
    /\ step' = [step EXCEPT ![c] = Step]
    /\ UNCHANGED <<Left, Step>>

\* Variant: the one before the last believes to be the last.
ReachAddEarly(c) ==
    /\ pc[c] = "loaded"
    /\ Left' = Left + 1
    /\ pc' = [pc EXCEPT ![c] = IF Left + 1 >= Total - 1 THEN "last" ELSE "spin"]
    /\ UNCHANGED <<Step, step>>

\* Left.FetchAdd(1) == total
ReachAdd(c) ==
    /\ pc[c] = "loaded"
    /\ Left' = Left + 1
    /\ pc' = [pc EXCEPT ![c] = IF Left = Total - 1 THEN "last" ELSE "spin"]
    /\ UNCHANGED <<Step, step>>

\* Variant: the count is not reset for the next round.
ReachResetNot(c) ==
    /\ pc[c] = "last"
    /\ pc' = [pc EXCEPT ![c] = "open"]
    /\ UNCHANGED <<Left, Step, step>>

\* The last one: Left.Store(0) ...
ReachReset(c) ==
    /\ pc[c] = "last"
    /\ Left' = 0
    /\ pc' = [pc EXCEPT ![c] = "open"]
    /\ UNCHANGED <<Step, step>>

\* ... and Step += 1.
ReachStep(c) ==
    /\ pc[c] = "open"
    /\ Step' = IncStep(Step)
    /\ pc' = [pc EXCEPT ![c] = "out"]
    /\ UNCHANGED <<Left, step>>

\* The others: while (Step.Load() == step).
ReachSpin(c) ==
    /\ pc[c] = "spin"
    /\ Step # step[c]
    /\ pc' = [pc EXCEPT ![c] = "out"]
    /\ UNCHANGED <<Left, Step, step>>

Reach(c) ==
    \/ ReachLoad(c) \/ ReachAdd(c)
    \/ ReachReset(c) \/ ReachStep(c)
    \/ ReachSpin(c)

Next == \E c \in Cores : Reach(c)

Spec == Init /\ [][Next]_vars

\* Every core keeps running and comes to the barrier again.
FairSpec == Spec /\ \A c \in Cores : WF_vars(Reach(c))

-----------------------------------------------------------------------------

TypeOK ==
    /\ Left \in 0 .. Total
    /\ Step \in 0 .. StepCount - 1
    /\ pc \in [Cores -> {"out", "loaded", "last", "open", "spin"}]
    /\ step \in [Cores -> 0 .. StepCount - 1]

\* The cores that have been counted in the current round, and those of the last
\* round that have yet to see Step move.
Arrived == {c \in Cores : \/ pc[c] \in {"last", "open"}
                          \/ pc[c] = "spin" /\ step[c] = Step}

Released == {c \in Cores : pc[c] = "spin" /\ step[c] # Step}

\* The core that completes a round has all the others waiting for Step to move,
\* until it has moved it.
LastAlone ==
    \A c \in Cores : pc[c] \in {"last", "open"} =>
        \A d \in Cores \ {c} : pc[d] = "spin" /\ step[d] = Step

\* Left counts the arrivals of the current round, also while cores of the last
\* round are still on their way out; and a core never enters with a stale Step.
ArrivalsCounted ==
    /\ (\A c \in Cores : pc[c] # "open") => Left = Cardinality(Arrived)
    /\ \A c \in Cores : pc[c] = "open" => Left = 0
    /\ \A c \in Cores : pc[c] = "loaded" => step[c] = Step

\* The inductive invariant behind the refinement.
IInv ==
    /\ TypeOK
    /\ LastAlone
    /\ ArrivalsCounted

Meeting == INSTANCE Rendezvous
               WITH Members <- Cores, arrived <- Arrived, released <- Released

\* No core gets past Reach before all cores have come to it, in any round.
ImplementsRendezvous == Meeting!Spec

\* Every core that comes to the barrier gets past it: resetting Left before moving
\* Step leaves no core of either round behind.
ReachTerminates == \A c \in Cores : pc[c] = "spin" ~> pc[c] = "out"
=============================================================================
