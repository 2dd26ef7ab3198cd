--------------------------- MODULE SmpBootProofs ---------------------------
(***************************************************************************)
(* The barrier is a rendezvous for any number of cores and for any range   *)
(* of Step: every step of Reach is a step of Rendezvous or invisible to    *)
(* it.  The invariant says that the core that completes a round is alone   *)
(* outside of the loop, so that nobody can be counted or read Step between *)
(* the reset of Left and the increment of Step.                            *)
(*                                                                         *)
(* The processors come up one at a time, for any number of them: what the  *)
(* handshake, the lock and the barrier promise, whichever processors never *)
(* start.  InitializationSerial does not depend on how long the BSP waits  *)
(* for an AP; HandshakeKept does.                                          *)
(***************************************************************************)
EXTENDS SmpBoot, FiniteSetTheorems, TLAPS

\* The cores are counted by Left, and so are those that arrived.
LEMMA ArrivedFinite ==
    /\ Total \in Nat /\ Total > 1
    /\ IsFiniteSet(Arrived) /\ Cardinality(Arrived) \in Nat
    /\ Cardinality(Arrived) <= Total
    /\ Cardinality(Arrived) = Total => Arrived = Cores
<1>1. IsFiniteSet(Cores) /\ Cardinality(Cores) > 1
  BY BarrierAssumption, Zenon
<1>2. Arrived \in SUBSET Cores
  BY Zenon DEF Arrived
<1> QED
  BY <1>1, <1>2, FS_Subset, FS_CardinalityType, Zenon DEF Total

\* Step + 1 is another value of Step.
LEMMA StepMoves ==
    \A s \in 0 .. StepCount - 1 : IncStep(s) \in 0 .. StepCount - 1 /\ IncStep(s) # s
BY BarrierAssumption DEF IncStep

\* At the start nobody has arrived.
LEMMA InitIInv == Init => IInv
<1> SUFFICES ASSUME Init PROVE IInv
  BY Zenon
<1>1. TypeOK
  BY BarrierAssumption, ArrivedFinite DEF Init, TypeOK
<1>2. Arrived = {}
  BY Zenon DEF Init, Arrived
<1>3. LastAlone
  BY Zenon DEF Init, LastAlone
<1>4. ArrivalsCounted
  BY <1>2, FS_EmptySet, Zenon DEF Init, ArrivalsCounted
<1> QED
  BY <1>1, <1>3, <1>4, Zenon DEF IInv

\* The core that counts itself in was not counted; when it is the last, all the
\* others are in the loop with the current Step.
LEMMA ReachAddEffect ==
    ASSUME IInv, NEW c \in Cores, ReachAdd(c)
    PROVE  /\ c \notin Arrived /\ c \notin Released
           /\ Arrived' = Arrived \cup {c} /\ Released' = Released
           /\ \A d \in Cores : pc[d] \notin {"last", "open"}
           /\ Left = Cardinality(Arrived) /\ Left' = Cardinality(Arrived')
           /\ Left < Total
           /\ Left = Total - 1 => Arrived = Cores \ {c}
<1> USE DEF IInv
<1>1. pc[c] = "loaded" /\ step[c] = Step
  BY Zenon DEF ReachAdd, ArrivalsCounted
<1>2. c \notin Arrived /\ c \notin Released
  BY <1>1, Zenon DEF Arrived, Released
<1>3. \A d \in Cores : pc[d] \notin {"last", "open"}
  BY <1>1, Zenon DEF LastAlone
<1>4. Arrived' = Arrived \cup {c} /\ Released' = Released
  <2>1. pc'[c] \in {"last", "spin"} /\ Step' = Step /\ step' = step
    BY Zenon DEF TypeOK, ReachAdd
  <2>2. \A d \in Cores : d # c => pc'[d] = pc[d]
    BY Zenon DEF TypeOK, ReachAdd
  <2>3. Arrived' = Arrived \cup {c}
    BY <1>1, <2>1, <2>2, Zenon DEF Arrived
  <2>4. c \notin Released'
    BY <1>1, <2>1, Zenon DEF Released
  <2> QED
    BY <1>2, <2>1, <2>2, <2>3, <2>4, Zenon DEF Released
<1>5. Left = Cardinality(Arrived)
  BY <1>3, Zenon DEF ArrivalsCounted
<1>6. Cardinality(Arrived \cup {c}) = Cardinality(Arrived) + 1
  BY <1>2, ArrivedFinite, FS_AddElement, Zenon
<1>7. Left' = Cardinality(Arrived')
  BY <1>4, <1>5, <1>6, Zenon DEF ReachAdd
<1>8. Left < Total
  BY <1>2, <1>5, ArrivedFinite
<1>9. ASSUME Left = Total - 1 PROVE Arrived = Cores \ {c}
  <2>1. Arrived \cup {c} \in SUBSET Cores /\ Cardinality(Arrived \cup {c}) = Cardinality(Cores)
    BY <1>5, <1>6, <1>9, ArrivedFinite DEF Arrived, Total
  <2>2. Arrived \cup {c} = Cores
    BY <2>1, BarrierAssumption, FS_Subset, Zenon
  <2> QED
    BY <1>2, <2>2, Zenon
<1> QED
  BY <1>2, <1>3, <1>4, <1>5, <1>7, <1>8, <1>9, Zenon

\* When the last core moves Step, all the others are in the loop with the old one.
LEMMA ReachStepEffect ==
    ASSUME IInv, NEW c \in Cores, ReachStep(c)
    PROVE  /\ Arrived = Cores /\ Arrived' = {} /\ Released' = Cores \ {c}
           /\ \A d \in Cores : pc'[d] \in {"out", "spin"}
           /\ Left' = 0
<1> USE DEF IInv
<1>1. \A d \in Cores \ {c} : pc[d] = "spin" /\ step[d] = Step
  BY Zenon DEF ReachStep, LastAlone
<1>2. \A d \in Cores \ {c} : pc'[d] = "spin" /\ step'[d] = Step
  BY <1>1, Zenon DEF TypeOK, ReachStep
<1>3. pc[c] = "open" /\ pc'[c] = "out" /\ Step' # Step
  BY StepMoves, Zenon DEF TypeOK, ReachStep
<1>4. Left' = 0
  BY <1>3, Zenon DEF ReachStep, ArrivalsCounted
<1>5. Arrived = Cores
  BY <1>1, <1>3, Zenon DEF Arrived
<1>6. Arrived' = {} /\ Released' = Cores \ {c}
  BY <1>2, <1>3, Zenon DEF Arrived, Released
<1> QED
  BY <1>2, <1>3, <1>4, <1>5, <1>6, Zenon

\* The steps that no one is counted by: reading Step, resetting Left, and
\* leaving the loop.
LEMMA OtherStepsEffect ==
    ASSUME IInv, NEW c \in Cores
    PROVE  /\ ReachLoad(c) \/ ReachReset(c) => Arrived' = Arrived /\ Released' = Released
           /\ ReachSpin(c) => /\ Arrived' = Arrived /\ c \in Released
                              /\ Released' = Released \ {c}
<1> USE DEF IInv
<1>1. ASSUME ReachLoad(c) PROVE Arrived' = Arrived /\ Released' = Released
  BY <1>1, Zenon DEF TypeOK, ReachLoad, Arrived, Released
<1>2. ASSUME ReachReset(c) PROVE Arrived' = Arrived /\ Released' = Released
  BY <1>2, Zenon DEF TypeOK, ReachReset, Arrived, Released
<1>3. ASSUME ReachSpin(c)
      PROVE  Arrived' = Arrived /\ c \in Released /\ Released' = Released \ {c}
  BY <1>3, Zenon DEF TypeOK, ReachSpin, Arrived, Released
<1> QED
  BY <1>1, <1>2, <1>3, Zenon

\* Every step of Reach preserves the invariant.
LEMMA ReachIInv ==
    ASSUME IInv, NEW c \in Cores, Reach(c)
    PROVE  IInv'
<1> USE DEF IInv
<1>1. CASE ReachLoad(c)
  <2>1. TypeOK'
    BY <1>1, Zenon DEF TypeOK, ReachLoad
  <2>2. \A d \in Cores : pc[d] \notin {"last", "open"}
    BY <1>1, Zenon DEF ReachLoad, LastAlone
  <2>3. \A d \in Cores : pc'[d] \notin {"last", "open"}
    BY <1>1, <2>2, Zenon DEF TypeOK, ReachLoad
  <2>4. LastAlone'
    BY <2>3, Zenon DEF LastAlone
  <2>5. /\ Left' = Left /\ Step' = Step /\ step'[c] = Step
        /\ \A d \in Cores : d # c => pc'[d] = pc[d] /\ step'[d] = step[d]
    BY <1>1, Zenon DEF TypeOK, ReachLoad
  <2>6. Left' = Cardinality(Arrived')
    BY <1>1, <2>2, <2>5, OtherStepsEffect, Zenon DEF ArrivalsCounted
  <2>7. ArrivalsCounted'
    BY <2>3, <2>5, <2>6, Zenon DEF ArrivalsCounted
  <2> QED
    BY <2>1, <2>4, <2>7, Zenon
<1>2. CASE ReachAdd(c)
  <2>1. /\ Left' = Left + 1 /\ Step' = Step /\ step' = step
        /\ pc'[c] = IF Left = Total - 1 THEN "last" ELSE "spin"
        /\ \A d \in Cores : d # c => pc'[d] = pc[d]
    BY <1>2, Zenon DEF TypeOK, ReachAdd
  <2>2. TypeOK'
    <3>1. Left < Total /\ Left \in 0 .. Total /\ Total \in Nat
      BY <1>2, ArrivedFinite, ReachAddEffect, Zenon DEF TypeOK
    <3>2. Left' \in 0 .. Total
      BY <2>1, <3>1
    <3>3. pc' \in [Cores -> {"out", "loaded", "last", "open", "spin"}]
      BY <1>2, Zenon DEF TypeOK, ReachAdd
    <3> QED
      BY <2>1, <3>2, <3>3, Zenon DEF TypeOK
  <2>3. \A d \in Cores : pc'[d] # "open"
    BY <1>2, <2>1, ReachAddEffect, Zenon
  <2>4. LastAlone'
    <3> SUFFICES ASSUME NEW e \in Cores, pc'[e] \in {"last", "open"},
                        NEW d \in Cores \ {e}
                 PROVE  pc'[d] = "spin" /\ step'[d] = Step'
      BY Zenon DEF LastAlone
    <3>1. e = c /\ Left = Total - 1
      BY <1>2, <2>1, ReachAddEffect, Zenon
    <3>2. d \in Arrived /\ pc[d] \notin {"last", "open"}
      BY <1>2, <3>1, ReachAddEffect, Zenon
    <3> QED
      BY <2>1, <3>1, <3>2, Zenon DEF Arrived
  <2>5. ArrivalsCounted'
    BY <1>2, <2>1, <2>3, ReachAddEffect, Zenon DEF ArrivalsCounted
  <2> QED
    BY <2>2, <2>4, <2>5, Zenon
<1>3. CASE ReachReset(c)
  <2>1. /\ Left' = 0 /\ Step' = Step /\ step' = step /\ pc[c] = "last" /\ pc'[c] = "open"
        /\ \A d \in Cores : d # c => pc'[d] = pc[d]
    BY <1>3, Zenon DEF TypeOK, ReachReset
  <2>2. TypeOK'
    BY <1>3, ArrivedFinite DEF TypeOK, ReachReset
  <2>3. \A d \in Cores \ {c} : pc'[d] = "spin" /\ step'[d] = Step'
    BY <2>1, Zenon DEF LastAlone
  <2>4. LastAlone'
    BY <2>1, <2>3, Zenon DEF LastAlone
  <2>5. ArrivalsCounted'
    BY <2>1, <2>3, Zenon DEF ArrivalsCounted
  <2> QED
    BY <2>2, <2>4, <2>5, Zenon
<1>4. CASE ReachStep(c)
  <2>1. TypeOK'
    BY <1>4, StepMoves, Zenon DEF TypeOK, ReachStep
  <2>2. LastAlone'
    BY <1>4, ReachStepEffect, Zenon DEF LastAlone
  <2>3. ArrivalsCounted'
    BY <1>4, ReachStepEffect, FS_EmptySet, Zenon DEF ArrivalsCounted
  <2> QED
    BY <2>1, <2>2, <2>3, Zenon
<1>5. CASE ReachSpin(c)
  <2>1. /\ Left' = Left /\ Step' = Step /\ step' = step /\ pc[c] = "spin" /\ pc'[c] = "out"
        /\ step[c] # Step
        /\ \A d \in Cores : d # c => pc'[d] = pc[d]
    BY <1>5, Zenon DEF TypeOK, ReachSpin
  <2>2. TypeOK'
    BY <1>5, Zenon DEF TypeOK, ReachSpin
  <2>3. \A d \in Cores : pc[d] \notin {"last", "open"}
    BY <2>1, Zenon DEF LastAlone
  <2>4. LastAlone'
    BY <2>1, <2>3, Zenon DEF LastAlone
  <2>5. ArrivalsCounted'
    BY <1>5, <2>1, <2>3, OtherStepsEffect, Zenon DEF ArrivalsCounted
  <2> QED
    BY <2>2, <2>4, <2>5, Zenon
<1> QED
  BY <1>1, <1>2, <1>3, <1>4, <1>5, Zenon DEF Reach

\* The barrier counts exactly the arrivals of the current round, at every moment.
THEOREM BarrierInvariant == Spec => []IInv
<1>1. IInv /\ [Next]_vars => IInv'
  <2> SUFFICES ASSUME IInv, [Next]_vars PROVE IInv'
    BY Zenon
  <2>1. CASE UNCHANGED vars
    BY <2>1, Zenon DEF vars, IInv, TypeOK, LastAlone, ArrivalsCounted, Arrived
  <2>2. CASE Next
    BY <2>2, ReachIInv, Zenon DEF Next
  <2> QED
    BY <2>1, <2>2, Zenon
<1> QED
  BY <1>1, InitIInv, PTL DEF Spec

\* No core gets past Reach before all have come to it, in any round and for any
\* number of cores: the barrier implements the rendezvous.
THEOREM BarrierIsRendezvous == Spec => ImplementsRendezvous
<1>1. Init => Meeting!Init
  BY Zenon DEF Init, Meeting!Init, Arrived, Released
<1>2. IInv /\ [Next]_vars => [Meeting!Next]_<<Arrived, Released>>
  <2> SUFFICES ASSUME IInv, [Next]_vars PROVE [Meeting!Next]_<<Arrived, Released>>
    BY Zenon
  <2>1. CASE UNCHANGED vars
    BY <2>1, Zenon DEF vars, Arrived, Released
  <2>2. ASSUME NEW c \in Cores, ReachLoad(c) \/ ReachReset(c)
        PROVE  UNCHANGED <<Arrived, Released>>
    BY <2>2, OtherStepsEffect, Zenon
  <2>3. ASSUME NEW c \in Cores, ReachAdd(c)
        PROVE  Meeting!Arrive(c)
    BY <2>3, ReachAddEffect, Zenon DEF Meeting!Arrive
  <2>4. ASSUME NEW c \in Cores, ReachStep(c)
        PROVE  Meeting!Open(c)
    BY <2>4, ReachStepEffect, Zenon DEF Meeting!Open
  <2>5. ASSUME NEW c \in Cores, ReachSpin(c)
        PROVE  Meeting!Leave(c)
    BY <2>5, OtherStepsEffect, Zenon DEF Meeting!Leave
  <2> QED
    BY <2>1, <2>2, <2>3, <2>4, <2>5, Zenon DEF Next, Reach, Meeting!Next
<1> QED
  BY <1>1, <1>2, BarrierInvariant, PTL DEF Spec, ImplementsRendezvous, Meeting!Spec

-----------------------------------------------------------------------------
Places == {"off", "main", "next", "wait1", "wait1again", "wait3", "rest", "reset", "boot",
           "stacked", "barrier", "leaving", "entry", "inside", "reach", "waiting", "engaged"}

\* The BSP holds the lock from MainAcquire to MainRelease.
Locking == {"next", "wait1", "wait1again", "wait3", "rest", "reset"}

\* The APs that have registered.
Registered == {a \in Aps : at[a] \in {"reach", "waiting", "engaged"}}

\* An AP is initialized by the holder of the lock, after the BSP has set the total;
\* the barrier and the counter remember who has been there.
SerialInv ==
    /\ at \in [Cores -> Places]
    /\ at[BSP] \in Locking \cup {"main", "reach", "waiting", "engaged"}
    /\ at[BSP] \in Locking => lock = BSP
    /\ at[BSP] = "main" => \A a \in Aps : at[a] = "off"
    /\ \A a \in Aps : at[a] = "inside" => lock = a
    /\ \A a \in Aps : at[a] \in {"inside", "reach", "waiting", "engaged"}
                         => at[BSP] \in {"reach", "waiting", "engaged"}
    /\ at[BSP] \in {"reset", "reach", "waiting", "engaged"} => total = Count
    /\ reached = {c \in Cores : at[c] \in {"waiting", "engaged"}}
    /\ registered = 1 + Cardinality(Registered)
    /\ \A c \in Cores : at[c] = "engaged" => reached = Cores

Waits == {"wait1", "wait1again", "wait3"}

\* An AP that may still use the words of the handshake.
Active(a) ==
    \/ at[a] \in {"boot", "stacked", "barrier"}
    \/ at[a] = "off" /\ a \notin todo /\ a \notin dead

\* Only the AP that the BSP is waiting for may use the words, and while it has not
\* cleared one, it is set.
ShakeInv ==
    /\ at \in [Cores -> Places]
    /\ stack \in [Cores -> Cores \cup {NoStack}]
    /\ \A c \in Cores : stack[c] \in {NoStack, c}
    /\ \A a \in Aps : a \in todo \/ a \in dead => at[a] = "off"
    /\ at[BSP] = "main" => todo = Aps
    /\ at[BSP] \in Waits => current \in Aps /\ current \notin todo /\ ApStackTop = current
    /\ \A a \in Aps : Active(a) => current = a /\ at[BSP] \in Waits
    /\ at[BSP] \in {"wait1", "wait1again"} /\ at[current] \in {"off", "boot", "stacked"}
          => Lock1 = 1
    /\ at[BSP] = "wait3" => at[current] \notin {"off", "boot", "stacked"}
    /\ at[BSP] \in Waits /\ at[current] \in {"off", "boot", "stacked", "barrier"} => Lock3 = 1

-----------------------------------------------------------------------------

LEMMA ApsFinite ==
    /\ IsFiniteSet(Aps) /\ Cardinality(Aps) \in Nat /\ Count = 1 + Cardinality(Aps)
    /\ BSP \in Cores /\ BSP \notin Aps /\ Cores = Aps \cup {BSP}
    /\ \A S \in SUBSET Cores : Cardinality(S) = Count => S = Cores
<1>1. IsFiniteSet(Cores) /\ BSP \in Cores
  BY BarrierAssumption, BootAssumption, Zenon
<1>2. IsFiniteSet(Aps) /\ Cardinality(Aps) = Cardinality(Cores) - 1
  BY <1>1, FS_RemoveElement, Zenon DEF Aps
<1>3. Cardinality(Aps) \in Nat /\ Cardinality(Cores) \in Nat
  BY <1>1, <1>2, FS_CardinalityType, Zenon
<1>4. \A S \in SUBSET Cores : Cardinality(S) = Count => S = Cores
  BY <1>1, FS_Subset, Zenon DEF Count
<1> QED
  BY <1>1, <1>2, <1>3, <1>4 DEF Count, Aps

LEMMA InitSerial == BootInit => SerialInv
<1> SUFFICES ASSUME BootInit PROVE SerialInv
  BY Zenon
<1>1. Registered = {} /\ {c \in Cores : at[c] \in {"waiting", "engaged"}} = {}
  BY Zenon DEF BootInit, Registered, Aps
<1>2. Cardinality(Registered) = 0
  BY <1>1, FS_EmptySet, Zenon
<1> QED
  BY <1>1, <1>2, ApsFinite DEF BootInit, SerialInv, Places, Locking, Aps

\* Steps that leave the lock, the barrier and the counter alone, and do not take a
\* processor past or into a place that matters.
LEMMA SerialQuiet ==
    ASSUME SerialInv, NEW c \in Cores, NEW to \in Places, at' = [at EXCEPT ![c] = to],
           UNCHANGED <<lock, total, reached, registered>>,
           \/ c = BSP /\ at[c] \in Locking /\ to \in Locking /\ to # "reset"
           \/ c \in Aps /\ at[c] \in {"off", "boot", "stacked", "barrier", "leaving"}
              /\ to \in {"boot", "stacked", "barrier", "leaving", "entry"}
              /\ at[BSP] # "main"
    PROVE  SerialInv'
<1>1. \A d \in Cores : at'[d] = IF d = c THEN to ELSE at[d]
  BY Zenon DEF SerialInv
<1>2. /\ Registered' = Registered
      /\ {d \in Cores : at'[d] \in {"waiting", "engaged"}} = {d \in Cores : at[d] \in {"waiting", "engaged"}}
  BY <1>1, Zenon DEF Registered, Locking, Aps
<1>3. at' \in [Cores -> Places]
  BY Zenon DEF SerialInv
<1>4. BSP \in Cores /\ BSP \notin Aps /\ Aps \subseteq Cores
  BY ApsFinite, Zenon
<1>5. CASE c = BSP /\ at[c] \in Locking /\ to \in Locking /\ to # "reset"
  <2>1. /\ at[BSP] \in Locking /\ at'[BSP] = to /\ \A a \in Aps : at'[a] = at[a]
    BY <1>1, <1>4, <1>5, Zenon
  <2> QED
    BY <2>1, <1>1, <1>2, <1>3, <1>4, <1>5 DEF SerialInv, Locking, Count
<1>6. CASE c \in Aps
  <2>1. at'[BSP] = at[BSP] /\ \A a \in Aps : at'[a] = IF a = c THEN to ELSE at[a]
    BY <1>1, <1>4, <1>6, Zenon
  <2> QED
    BY <2>1, <1>1, <1>2, <1>3, <1>4, <1>6, Zenon DEF SerialInv, Locking, Count
<1> QED
  BY <1>5, <1>6, Zenon

\* The steps of Main around the start of the APs.
LEMMA SerialMain ==
    ASSUME SerialInv, MainAcquire \/ MainResetBarrier \/ MainRelease
    PROVE  SerialInv'
<1>1. BSP \in Cores /\ BSP \notin Aps /\ Aps \subseteq Cores
  BY ApsFinite, Zenon
<1>2. /\ \A a \in Aps : at'[a] = at[a] /\ at[a] \notin {"inside", "reach", "waiting", "engaged"}
      /\ Registered' = Registered /\ registered' = registered /\ reached = {} /\ reached' = {}
  <2>1. \A a \in Aps : at'[a] = at[a] /\ at[a] \notin {"inside", "reach", "waiting", "engaged"}
    BY <1>1, Zenon DEF SerialInv, MainAcquire, MainResetBarrier, MainRelease, Goto
  <2>2. Registered' = Registered /\ registered' = registered
    BY <2>1, Zenon DEF Registered, MainAcquire, MainResetBarrier, MainRelease
  <2>3. at[BSP] \notin {"waiting", "engaged"}
    BY Zenon DEF MainAcquire, MainResetBarrier, MainRelease, Goto
  <2>4. reached = {}
    BY <2>1, <2>3, ApsFinite, Zenon DEF SerialInv
  <2> QED
    BY <2>1, <2>2, <2>4, Zenon DEF MainAcquire, MainResetBarrier, MainRelease
<1>3. /\ at' \in [Cores -> Places] /\ at'[BSP] \in Locking \cup {"reach"}
      /\ at'[BSP] \in Locking => lock' = BSP
      /\ at'[BSP] \in {"reset", "reach"} => total' = Count
  <2>1. CASE MainAcquire
    BY <2>1, <1>1, Zenon DEF SerialInv, MainAcquire, Goto, Places, Locking
  <2>2. CASE MainResetBarrier
    BY <2>2, <1>1, Zenon DEF SerialInv, MainResetBarrier, Goto, Places, Locking
  <2>3. CASE MainRelease
    BY <2>3, <1>1, Zenon DEF SerialInv, MainRelease, Goto, Places, Locking
  <2> QED
    BY <2>1, <2>2, <2>3, Zenon
<1>4. {c \in Cores : at'[c] \in {"waiting", "engaged"}} = {}
  BY <1>2, <1>3, ApsFinite, Zenon DEF Locking
<1>5. \A c \in Cores : at'[c] # "engaged"
  BY <1>4, Zenon
<1>6. at'[BSP] \notin {"main", "waiting", "engaged"}
  BY <1>3, Zenon DEF Locking
<1> QED
  BY <1>1, <1>2, <1>3, <1>4, <1>5, <1>6, Zenon DEF SerialInv, Count

\* An AP takes the lock, which the BSP has released.
LEMMA SerialSecondaryAcquire ==
    ASSUME SerialInv, NEW a \in Aps, SecondaryAcquire(a)
    PROVE  SerialInv'
<1>1. BSP \in Cores /\ BSP \notin Aps /\ Aps \subseteq Cores /\ NoStack \notin Cores
  BY ApsFinite, BootAssumption, Zenon
<1>2. /\ at[a] = "entry" /\ lock = NoStack /\ lock' = a
      /\ UNCHANGED <<total, reached, registered>>
      /\ \A d \in Cores : at'[d] = IF d = a THEN "inside" ELSE at[d]
      /\ at' \in [Cores -> Places]
  BY Zenon DEF SecondaryAcquire, Goto, SerialInv, Places
<1>3. at[BSP] \in {"reach", "waiting", "engaged"} /\ at'[BSP] = at[BSP]
  BY <1>1, <1>2, Zenon DEF SerialInv
<1>4. \A b \in Aps : at[b] # "inside"
  BY <1>1, <1>2, Zenon DEF SerialInv
<1>5. /\ Registered' = Registered
      /\ {d \in Cores : at'[d] \in {"waiting", "engaged"}} = {d \in Cores : at[d] \in {"waiting", "engaged"}}
  BY <1>1, <1>2, Zenon DEF Registered
<1> QED
  BY <1>1, <1>2, <1>3, <1>4, <1>5, Zenon DEF SerialInv, Locking, Count

\* It registers and releases the lock.
LEMMA SerialSecondaryInitialize ==
    ASSUME SerialInv, NEW a \in Aps, SecondaryInitialize(a)
    PROVE  SerialInv'
<1>1. BSP \in Cores /\ BSP \notin Aps /\ Aps \subseteq Cores
  BY ApsFinite, Zenon
<1>2. /\ at[a] = "inside" /\ registered' = registered + 1 /\ UNCHANGED <<total, reached>>
      /\ \A d \in Cores : at'[d] = IF d = a THEN "reach" ELSE at[d]
      /\ at' \in [Cores -> Places]
  BY Zenon DEF SecondaryInitialize, Goto, SerialInv, Places
<1>3. at[BSP] \in {"reach", "waiting", "engaged"} /\ at'[BSP] = at[BSP]
  BY <1>1, <1>2, Zenon DEF SerialInv
<1>4. \A b \in Aps : at'[b] # "inside"
  BY <1>1, <1>2, Zenon DEF SerialInv
<1>5. Registered' = Registered \cup {a} /\ a \notin Registered
  BY <1>1, <1>2, Zenon DEF Registered
<1>6. Cardinality(Registered') = Cardinality(Registered) + 1 /\ Cardinality(Registered) \in Nat
  <2>1. IsFiniteSet(Registered)
    BY ApsFinite, FS_Subset, Zenon DEF Registered
  <2> QED
    BY <2>1, <1>5, FS_AddElement, FS_CardinalityType, Zenon
<1>7. registered' = 1 + Cardinality(Registered')
  BY <1>2, <1>6 DEF SerialInv
<1>8. {d \in Cores : at'[d] \in {"waiting", "engaged"}} = {d \in Cores : at[d] \in {"waiting", "engaged"}}
  BY <1>1, <1>2, Zenon
<1> QED
  BY <1>1, <1>2, <1>3, <1>4, <1>7, <1>8, Zenon DEF SerialInv, Locking, Count

\* The barrier counts a processor that was not counted.
LEMMA SerialReach ==
    ASSUME SerialInv, NEW c \in Cores, ReachInitialization(c)
    PROVE  SerialInv'
<1>1. BSP \in Cores /\ BSP \notin Aps /\ Aps \subseteq Cores
  BY ApsFinite, Zenon
<1>2. /\ at[c] = "reach" /\ reached' = reached \cup {c} /\ UNCHANGED <<lock, total, registered>>
      /\ \A d \in Cores : at'[d] = IF d = c THEN "waiting" ELSE at[d]
      /\ at' \in [Cores -> Places]
  BY Zenon DEF ReachInitialization, Goto, SerialInv, Places
<1>3. at[BSP] \in {"reach", "waiting", "engaged"} /\ at'[BSP] \in {"reach", "waiting", "engaged"}
  BY <1>1, <1>2, ApsFinite, Zenon DEF SerialInv
<1>4. Registered' = Registered
  BY <1>1, <1>2, Zenon DEF Registered
<1>5. reached' = {d \in Cores : at'[d] \in {"waiting", "engaged"}}
  BY <1>2, Zenon DEF SerialInv
<1>6. \A d \in Cores : at'[d] = "engaged" => reached' = Cores
  BY <1>2, Zenon DEF SerialInv
<1> QED
  BY <1>1, <1>2, <1>3, <1>4, <1>5, <1>6, Zenon DEF SerialInv, Locking, Count

\* Nobody leaves it before all have been counted.
LEMMA SerialEngage ==
    ASSUME SerialInv, NEW c \in Cores, Engage(c)
    PROVE  SerialInv'
<1>1. BSP \in Cores /\ BSP \notin Aps /\ Aps \subseteq Cores
  BY ApsFinite, Zenon
<1>2. /\ at[c] = "waiting" /\ Cardinality(reached) = total
      /\ UNCHANGED <<lock, total, reached, registered>>
      /\ \A d \in Cores : at'[d] = IF d = c THEN "engaged" ELSE at[d]
      /\ at' \in [Cores -> Places]
  BY Zenon DEF Engage, Goto, SerialInv, Places
<1>3. at[BSP] \in {"reach", "waiting", "engaged"} /\ at'[BSP] \in {"reach", "waiting", "engaged"}
  BY <1>1, <1>2, ApsFinite, Zenon DEF SerialInv
<1>4. Registered' = Registered
  BY <1>1, <1>2, Zenon DEF Registered
<1>5. reached' = {d \in Cores : at'[d] \in {"waiting", "engaged"}}
  BY <1>2, Zenon DEF SerialInv
<1>6. reached = Cores
  <2>1. total = Count /\ reached \in SUBSET Cores
    BY <1>3, Zenon DEF SerialInv
  <2> QED
    BY <2>1, <1>2, ApsFinite, Zenon
<1> QED
  BY <1>1, <1>2, <1>3, <1>4, <1>5, <1>6, Zenon DEF SerialInv, Locking, Count

LEMMA SerialStep == SerialInv /\ [BootNext]_<<bootVars, vars>> => SerialInv'
<1> SUFFICES ASSUME SerialInv, [BootNext]_<<bootVars, vars>> PROVE SerialInv'
  BY Zenon
<1>0. BSP \in Cores /\ BSP \notin Aps /\ Aps \subseteq Cores
  BY ApsFinite, Zenon
<1>1. CASE UNCHANGED bootVars
  BY <1>1, Zenon DEF bootVars, SerialInv, Registered, Count
<1>2. CASE MainAcquire \/ MainResetBarrier \/ MainRelease
  BY <1>2, SerialMain, Zenon
<1>3. CASE \/ \E a \in Aps : InitializeAp(a)
           \/ Wait1Retry \/ Wait1Done \/ Wait3Done \/ WaitTimeout \/ UnmapBootstrap
  <2>1. PICK to \in Locking \ {"reset"} : at' = [at EXCEPT ![BSP] = to]
    BY <1>3, Zenon DEF InitializeAp, Wait1Retry, Wait1Done, Wait3Done, WaitTimeout, UnmapBootstrap,
                Goto, Locking
  <2>2. at[BSP] \in Locking /\ UNCHANGED <<lock, total, reached, registered>>
    BY <1>3, Zenon DEF InitializeAp, Wait1Retry, Wait1Done, Wait3Done, WaitTimeout, UnmapBootstrap,
                Goto, Locking
  <2>3. to \in Places
    BY Zenon DEF Locking, Places
  <2> QED
    BY <2>1, <2>2, <2>3, <1>0, SerialQuiet, Zenon
<1>4. ASSUME NEW a \in Aps,
             ApStart(a) \/ ApLoadStack(a) \/ ApSignal1(a) \/ ApSignal3(a) \/ ApLeave(a)
      PROVE  SerialInv'
  <2>1. PICK to \in {"boot", "stacked", "barrier", "leaving", "entry"} : at' = [at EXCEPT ![a] = to]
    BY <1>4, Zenon DEF ApStart, ApLoadStack, ApSignal1, ApSignal3, ApLeave, Goto
  <2>2. /\ at[a] \in {"off", "boot", "stacked", "barrier", "leaving"}
        /\ UNCHANGED <<lock, total, reached, registered>>
    BY <1>4, Zenon DEF ApStart, ApLoadStack, ApSignal1, ApSignal3, ApLeave, Goto
  <2>3. at[BSP] # "main"
    BY <1>4, Zenon DEF SerialInv, ApStart, ApLoadStack, ApSignal1, ApSignal3, ApLeave, Goto
  <2>4. to \in Places
    BY Zenon DEF Places
  <2> QED
    BY <2>1, <2>2, <2>3, <2>4, <1>0, SerialQuiet, Zenon
<1>5. ASSUME NEW a \in Aps, SecondaryAcquire(a) \/ SecondaryInitialize(a) PROVE SerialInv'
  BY <1>5, SerialSecondaryAcquire, SerialSecondaryInitialize, Zenon
<1>6. ASSUME NEW c \in Cores, ReachInitialization(c) \/ Engage(c) PROVE SerialInv'
  BY <1>6, SerialReach, SerialEngage, Zenon
<1>7. CASE BootNext
  <2>1. CASE \E c \in Cores : ReachTest(c)
    BY <2>1, <1>1, Zenon DEF ReachTest
  <2>2. CASE BspNext
    BY <2>2, <1>0, <1>2, <1>3, <1>6, Zenon DEF BspNext
  <2>3. CASE \E a \in Aps : ApNext(a)
    BY <2>3, <1>0, <1>4, <1>5, <1>6, Zenon DEF ApNext
  <2> QED
    BY <1>7, <2>1, <2>2, <2>3, Zenon DEF BootNext, Boot
<1> QED
  BY <1>1, <1>7, Zenon

\* Processors initialize themselves one after the other, after the BSP, and none
\* starts scheduling before all are registered; for any number of processors, however
\* long the BSP waits and whichever of them never start.
THEOREM BootIsSerial == BootSpec => []InitializationSerial
<1>1. SerialInv => InitializationSerial
  <2> SUFFICES ASSUME SerialInv PROVE InitializationSerial
    BY Zenon
  <2>0. BSP \in Cores /\ BSP \notin Aps /\ Aps \subseteq Cores /\ Cores = Aps \cup {BSP}
    BY ApsFinite, Zenon
  <2>1. \A c, d \in Aps : at[c] = "inside" /\ at[d] = "inside" => c = d
    BY Zenon DEF SerialInv
  <2>2. at[BSP] \notin {"reach", "waiting", "engaged"} => \A a \in Aps : at[a] # "inside"
    BY Zenon DEF SerialInv
  <2>3. reached # {} => total = Count
    BY <2>0, Zenon DEF SerialInv
  <2>4. ASSUME NEW c \in Cores, at[c] = "engaged" PROVE registered = Count
    <3>1. reached = Cores
      BY <2>4, Zenon DEF SerialInv
    <3>2. Registered = Aps
      BY <3>1, <2>0, Zenon DEF SerialInv, Registered
    <3> QED
      BY <3>2, ApsFinite, Zenon DEF SerialInv
  <2> QED
    BY <2>1, <2>2, <2>3, <2>4, Zenon DEF InitializationSerial
<1> QED
  BY <1>1, InitSerial, SerialStep, PTL DEF BootSpec

-----------------------------------------------------------------------------

LEMMA InitShake == BootInit => ShakeInv
BY ApsFinite DEF BootInit, ShakeInv, Active, Places, Waits, Aps

\* The BSP begins with an AP when none uses the words, and goes on from it when it
\* has cleared them or will never use them.
LEMMA ShakeBsp ==
    ASSUME ~Slow, ShakeInv,
           \/ MainAcquire \/ \E a \in Aps : InitializeAp(a)
           \/ Wait1Retry \/ Wait1Done \/ Wait3Done \/ WaitTimeout
           \/ UnmapBootstrap \/ MainResetBarrier \/ MainRelease
    PROVE  ShakeInv'
<1>0. BSP \in Cores /\ BSP \notin Aps /\ Aps \subseteq Cores
  BY ApsFinite, Zenon
<1>1. /\ \A a \in Aps : at'[a] = at[a]
      /\ UNCHANGED <<dead, stack>> /\ at' \in [Cores -> Places]
  BY <1>0 DEF ShakeInv, MainAcquire, InitializeAp, Wait1Retry, Wait1Done, Wait3Done, WaitTimeout,
     UnmapBootstrap, MainResetBarrier, MainRelease, Goto, Places
<1>2. CASE \E a \in Aps : InitializeAp(a)
  <2>1. PICK a \in Aps : InitializeAp(a)
    BY <1>2, Zenon
  <2>2. /\ at[BSP] = "next" /\ at'[BSP] = "wait1" /\ a \in todo /\ todo' = todo \ {a}
        /\ current' = a /\ ApStackTop' = a /\ Lock1' = 1 /\ Lock3' = 1
    BY <2>1, <1>0, Zenon DEF InitializeAp, Goto, ShakeInv
  <2>3. \A b \in Aps : ~Active(b)
    BY <2>2, Zenon DEF ShakeInv, Waits
  <2>4. \A b \in Aps : Active(b)' => b = a
    BY <2>2, <2>3, <1>1, Zenon DEF Active
  <2> QED
    BY <2>2, <2>4, <1>0, <1>1, Zenon DEF ShakeInv, Waits
<1>3. CASE Wait1Retry \/ Wait1Done
  <2>1. /\ at[BSP] \in {"wait1", "wait1again"} /\ UNCHANGED <<todo, current, Lock1, Lock3, ApStackTop>>
        /\ \/ at'[BSP] = "wait1again"
           \/ at'[BSP] = "wait3" /\ Lock1 = 0
    BY <1>0, <1>3, Zenon DEF Wait1Retry, Wait1Done, Goto, ShakeInv, handshake
  <2>2. \A b \in Aps : Active(b)' = Active(b)
    BY <2>1, <1>1, Zenon DEF Active
  <2>3. current \in Aps /\ at'[current] = at[current]
    BY <2>1, <1>1, Zenon DEF ShakeInv, Waits
  <2> QED
    BY <2>1, <2>2, <2>3, <1>0, <1>1 DEF ShakeInv, Waits
<1>4. CASE Wait3Done \/ WaitTimeout
  <2>1. /\ at[BSP] \in Waits /\ at'[BSP] = "next" /\ todo' = todo
        /\ \/ Lock3 = 0
           \/ current \in dead
    BY <1>0, <1>4, Zenon DEF Wait3Done, WaitTimeout, Impatient, Goto, ShakeInv, Waits
  <2>2. current \in Aps /\ ~Active(current)
    BY <2>1 DEF ShakeInv, Active
  <2>3. \A b \in Aps : ~Active(b)'
    BY <2>1, <2>2, <1>1, Zenon DEF ShakeInv, Active
  <2> QED
    BY <2>1, <2>3, <1>0, <1>1, Zenon DEF ShakeInv, Waits
<1>5. CASE MainAcquire \/ UnmapBootstrap \/ MainResetBarrier \/ MainRelease
  <2>1. /\ at[BSP] \notin Waits /\ at'[BSP] \notin Waits /\ at'[BSP] # "main" /\ todo' = todo
    BY <1>0, <1>5, Zenon DEF MainAcquire, UnmapBootstrap, MainResetBarrier, MainRelease, Goto, ShakeInv, Waits
  <2>2. \A b \in Aps : ~Active(b) /\ ~Active(b)'
    BY <2>1, <1>1, Zenon DEF ShakeInv, Active
  <2> QED
    BY <2>1, <2>2, <1>0, <1>1, Zenon DEF ShakeInv, Waits
<1> QED
  BY <1>2, <1>3, <1>4, <1>5, Zenon

\* An AP that uses the words is the current one.
LEMMA ShakeAp ==
    ASSUME ShakeInv, NEW a \in Aps,
           ApStart(a) \/ ApLoadStack(a) \/ ApSignal1(a) \/ ApSignal3(a)
    PROVE  ShakeInv'
<1>0. BSP \in Cores /\ BSP \notin Aps /\ Aps \subseteq Cores
  BY ApsFinite, Zenon
<1>1. Active(a) /\ a \notin dead /\ a \notin todo
  BY Zenon DEF ShakeInv, Active, ApStart, ApLoadStack, ApSignal1, ApSignal3, Goto
<1>2. current = a /\ at[BSP] \in Waits /\ ApStackTop = a /\ \A b \in Aps : Active(b) => b = a
  BY <1>1, Zenon DEF ShakeInv
<1>3. /\ UNCHANGED <<dead, todo, current, ApStackTop>> /\ at' \in [Cores -> Places]
      /\ \A d \in Cores : d # a => at'[d] = at[d]
  BY <1>0 DEF ShakeInv, ApStart, ApLoadStack, ApSignal1, ApSignal3, Goto, Places
<1>4. at'[BSP] = at[BSP] /\ \A b \in Aps : Active(b)' => b = a
  BY <1>0, <1>2, <1>3, Zenon DEF Active
<1>5. stack' \in [Cores -> Cores \cup {NoStack}] /\ \A c \in Cores : stack'[c] \in {NoStack, c}
  <2>1. CASE ApLoadStack(a)
    BY <2>1, <1>0, <1>2, Zenon DEF ShakeInv, ApLoadStack
  <2>2. CASE stack' = stack
    BY <2>2, Zenon DEF ShakeInv
  <2> QED
    BY <2>1, <2>2, Zenon DEF ApStart, ApSignal1, ApSignal3
<1>6. /\ at'[a] \in {"off", "boot", "stacked"} => Lock1' = Lock1 /\ at[a] \in {"off", "boot", "stacked"}
      /\ at'[a] \in {"off", "boot", "stacked", "barrier"} => Lock3' = Lock3
         /\ at[a] \in {"off", "boot", "stacked", "barrier"}
  BY <1>0, Zenon DEF ShakeInv, ApStart, ApLoadStack, ApSignal1, ApSignal3, Goto, handshake
<1>7. /\ \A b \in Aps : b \in todo' \/ b \in dead' => at'[b] = "off"
      /\ at'[BSP] # "main"
  BY <1>0, <1>1, <1>2, <1>3, Zenon DEF ShakeInv, Waits
<1> QED
  BY <1>0, <1>1, <1>2, <1>3, <1>4, <1>5, <1>6, <1>7, Zenon DEF ShakeInv, Waits

\* The others have done with them.
LEMMA ShakeQuiet ==
    ASSUME ShakeInv, NEW c \in Cores,
           \/ ReachInitialization(c) \/ Engage(c)
           \/ c \in Aps /\ (ApLeave(c) \/ SecondaryAcquire(c) \/ SecondaryInitialize(c))
    PROVE  ShakeInv'
<1>0. BSP \in Cores /\ BSP \notin Aps /\ Aps \subseteq Cores
  BY ApsFinite, Zenon
<1>1. /\ at[c] \in {"reach", "waiting", "leaving", "entry", "inside"}
      /\ at'[c] \in {"waiting", "engaged", "entry", "inside", "reach"}
      /\ \A d \in Cores : d # c => at'[d] = at[d]
      /\ at' \in [Cores -> Places]
      /\ UNCHANGED <<dead, todo, current, Lock1, Lock3, ApStackTop, stack>>
  BY Zenon DEF ShakeInv, ReachInitialization, Engage, ApLeave, SecondaryAcquire, SecondaryInitialize,
         Goto, Places, handshake
<1>2. \A b \in Aps : Active(b)' = Active(b) /\ (Active(b) => b # c)
  BY <1>0, <1>1, Zenon DEF Active, ShakeInv
<1>3. at[BSP] \in Waits \cup {"main"} \/ at'[BSP] \in Waits \cup {"main"} => c # BSP /\ at'[BSP] = at[BSP]
  BY <1>0, <1>1, Zenon DEF Waits
<1>4. \A b \in Aps : b \in todo' \/ b \in dead' => at'[b] = "off"
  BY <1>0, <1>1, Zenon DEF ShakeInv
<1>5. at'[BSP] \in Waits => current \in Cores
        /\ \/ at'[current] = at[current]
           \/ at'[current] \notin {"off", "boot", "stacked", "barrier"}
  BY <1>0, <1>1, <1>3, Zenon DEF ShakeInv
<1> QED
  BY <1>0, <1>1, <1>2, <1>3, <1>4, <1>5, Zenon DEF ShakeInv, Waits

LEMMA ShakeStep ==
    ASSUME ~Slow
    PROVE  ShakeInv /\ [BootNext]_<<bootVars, vars>> => ShakeInv'
<1> SUFFICES ASSUME ShakeInv, [BootNext]_<<bootVars, vars>> PROVE ShakeInv'
  BY Zenon
<1>0. BSP \in Cores /\ Aps \subseteq Cores
  BY ApsFinite, Zenon
<1>1. CASE UNCHANGED bootVars
  BY <1>1, Zenon DEF bootVars, handshake, ShakeInv, Active
<1>2. CASE \E c \in Cores : ReachTest(c)
  BY <1>1, <1>2, Zenon DEF ReachTest
<1>3. CASE BspNext
  BY <1>0, <1>3, ShakeBsp, ShakeQuiet, Zenon DEF BspNext
<1>4. CASE \E a \in Aps : ApNext(a)
  BY <1>0, <1>4, ShakeAp, ShakeQuiet, Zenon DEF ApNext
<1> QED
  BY <1>1, <1>2, <1>3, <1>4, Zenon DEF BootNext, Boot

\* When no AP that starts outlasts the patience of the BSP, the stack pointer and the
\* words go from AP to AP without a mistake, for any number of them.
THEOREM BootShakesHands ==
    ASSUME ~Slow
    PROVE  BootSpec => []HandshakeKept
<1>1. ShakeInv => HandshakeKept
  BY Zenon DEF ShakeInv, HandshakeKept, StacksExclusive, HandshakeIsCurrent
<1> QED
  BY <1>1, InitShake, ShakeStep, PTL DEF BootSpec
=============================================================================
