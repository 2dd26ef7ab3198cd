------------------------------- MODULE SmpBoot -------------------------------
(***************************************************************************)
(* How the bootstrap processor (BSP) brings up the application processors  *)
(* (APs): InitializeAp and InitializeProcessingUnits of                    *)
(* beelzebub/arc/x86/src/kernel.cpp, the bootstrap code of                 *)
(* arc/amd64/src/ap_bootstrap.asm, Cores::Register of cores.arc.cpp, and   *)
(* the ends of Main and SecondaryEntryPoint.                               *)
(*                                                                         *)
(* The two sides shake hands over three words (ApInitializationLock1 to 3) *)
(* and one stack pointer, reused for every AP; the BSP gives up waiting    *)
(* after a time.  Time is not modelled: Slow says whether a wait may end   *)
(* while the AP it is for is still coming up.  InitializationLock is a     *)
(* lock (TicketLock); InitializationBarrier is passed once, and the barrier *)
(* of the tests that follow, taken from Barrier, again and again.          *)
(***************************************************************************)
EXTENDS Barrier

CONSTANTS BSP,          \* the bootstrap processor, one of Cores
          SmpEnabled,   \* the command-line option "smp"
          Slow          \* whether an AP may outlast the BSP's patience

NoStack == "none"

ASSUME BootAssumption ==
    /\ BSP \in Cores /\ NoStack \notin Cores
    /\ SmpEnabled \in BOOLEAN /\ Slow \in BOOLEAN

\* The APs that the ACPI tables list as enabled.
Aps == Cores \ {BSP}

VARIABLES dead,          \* the APs that never start
          at,            \* of every processor
          todo,          \* APs the BSP has yet to bring up
          current,       \* the AP being brought up
          Lock1, Lock2, Lock3,  \* the handshake words
          ApStackTop,    \* the stack in ApStackTopPointer, named by its AP
          stack,         \* the stack each processor runs on
          mapped,        \* whether the page of the bootstrap code is mapped
          lock,          \* holder of InitializationLock
          total,         \* InitializationBarrier.Total; zero before Reset
          reached,       \* who reached the barrier since its last Reset
          registered     \* RegistrationCounter

handshake == <<Lock1, Lock2, Lock3>>

bootVars == <<dead, at, todo, current, handshake, ApStackTop, stack, mapped,
              lock, total, reached, registered>>

\* Cores::Count, set from Acpi::PresentLapicCount.
Count == Cardinality(Cores)

BootInit ==
    /\ Init
    /\ dead \in SUBSET Aps
    /\ at = [c \in Cores |-> IF c = BSP THEN "main" ELSE "off"]
    /\ todo = Aps
    /\ current = BSP
    /\ Lock1 = 0 /\ Lock2 = 0 /\ Lock3 = 0
    /\ ApStackTop = NoStack
    /\ stack = [c \in Cores |-> IF c = BSP THEN BSP ELSE NoStack]
    /\ mapped = FALSE
    /\ lock = NoStack
    /\ total = 0
    /\ reached = {}
    /\ registered = 1

Goto(c, from, to) ==
    /\ at[c] = from
    /\ at' = [at EXCEPT ![c] = to]
    /\ UNCHANGED dead

-----------------------------------------------------------------------------

\* Main: InitializationLock.Acquire(), then MainInitializeExtraCpus, which skips
\* the APs when the command line says so.
MainAcquire ==
    /\ Goto(BSP, "main", IF SmpEnabled THEN "next" ELSE "rest")
    /\ lock = NoStack
    /\ lock' = BSP
    /\ mapped' = SmpEnabled
    /\ UNCHANGED <<todo, current, handshake, ApStackTop, stack,
                   total, reached, registered>>

\* Variant: one stack serves all APs.
InitializeApShared(a) ==
    /\ Goto(BSP, "next", "wait1")
    /\ a \in todo
    /\ todo' = todo \ {a}
    /\ current' = a
    /\ ApStackTop' = IF ApStackTop = NoStack THEN a ELSE ApStackTop
    /\ Lock1' = 1 /\ Lock2' = 1 /\ Lock3' = 1
    /\ UNCHANGED <<stack, mapped, lock, total, reached, registered>>

\* Variant: the handshake words keep their values.
InitializeApStale(a) ==
    /\ Goto(BSP, "next", "wait1")
    /\ a \in todo
    /\ todo' = todo \ {a}
    /\ current' = a
    /\ ApStackTop' = a
    /\ UNCHANGED <<handshake, stack, mapped, lock, total, reached,
                   registered>>

\* InitializeAp: a new stack, the words set, INIT and the first startup IPI.
InitializeAp(a) ==
    /\ Goto(BSP, "next", "wait1")
    /\ a \in todo
    /\ todo' = todo \ {a}
    /\ current' = a
    /\ ApStackTop' = a
    /\ Lock1' = 1 /\ Lock2' = 1 /\ Lock3' = 1
    /\ UNCHANGED <<stack, mapped, lock, total, reached, registered>>

\* A wait for an AP may only run out if that AP is dead, unless APs are slow.
Impatient == Slow \/ current \in dead

\* The first wait is short: running out of it only means a second startup IPI,
\* which an AP that has started ignores.
Wait1Retry ==
    /\ Goto(BSP, "wait1", "wait1again")
    /\ Lock1 = 1
    /\ UNCHANGED <<todo, current, handshake, ApStackTop, stack,
                   mapped, lock, total, reached, registered>>

\* The AP has begun the handshake: lower the entry barrier.
Wait1Done ==
    /\ at[BSP] \in {"wait1", "wait1again"}
    /\ Lock1 = 0
    /\ at' = [at EXCEPT ![BSP] = "wait3"]
    /\ Lock2' = 0
    /\ UNCHANGED <<dead, todo, current, Lock1, Lock3, ApStackTop, stack,
                   mapped, lock, total, reached, registered>>

\* InitializeAp returns Okay ...
Wait3Done ==
    /\ Goto(BSP, "wait3", "next")
    /\ Lock3 = 0
    /\ UNCHANGED <<todo, current, handshake, ApStackTop, stack,
                   mapped, lock, total, reached, registered>>

\* ... or Timeout, which outside of debug builds only leaves a message.
WaitTimeout ==
    /\ \/ at[BSP] = "wait1again" /\ Lock1 = 1
       \/ at[BSP] = "wait3" /\ Lock3 = 1
    /\ Impatient
    /\ at' = [at EXCEPT ![BSP] = "next"]
    /\ UNCHANGED <<dead, todo, current, handshake, ApStackTop, stack,
                   mapped, lock, total, reached, registered>>

\* Wait a bitsy (long enough unless APs are slow) and unmap the bootstrap code.
UnmapBootstrap ==
    /\ Goto(BSP, "next", "rest")
    /\ todo = {}
    /\ Slow \/ \A a \in Aps : at[a] # "leaving"
    /\ mapped' = FALSE
    /\ UNCHANGED <<todo, current, handshake, ApStackTop, stack,
                   lock, total, reached, registered>>

\* Variant: the lock is released first.
MainResetBarrierLate ==
    \/ /\ Goto(BSP, "rest", "release")
       /\ lock' = NoStack
       /\ UNCHANGED <<todo, current, handshake, ApStackTop, stack,
                      mapped, total, reached, registered>>
    \/ /\ Goto(BSP, "release", "reset")
       /\ total' = Count
       /\ reached' = {}
       /\ UNCHANGED <<todo, current, handshake, ApStackTop, stack,
                      mapped, lock, registered>>

\* Main: InitializationBarrier.Reset(Cores::GetCount()) ...
MainResetBarrier ==
    /\ Goto(BSP, "rest", "reset")
    /\ total' = Count
    /\ reached' = {}
    /\ UNCHANGED <<todo, current, handshake, ApStackTop, stack,
                   mapped, lock, registered>>

\* ... InitializationLock.Release(), and on to the barrier.
MainRelease ==
    /\ Goto(BSP, "reset", "reach")
    /\ lock' = IF lock = BSP THEN NoStack ELSE lock
    /\ UNCHANGED <<todo, current, handshake, ApStackTop, stack,
                   mapped, total, reached, registered>>

-----------------------------------------------------------------------------

\* A startup IPI reaches an AP that waits for one.
ApStart(a) ==
    /\ Goto(a, "off", "boot")
    /\ a \notin dead
    /\ a \notin todo
    /\ SmpEnabled /\ at[BSP] # "main"
    /\ UNCHANGED <<todo, current, handshake, ApStackTop, stack,
                   mapped, lock, total, reached, registered>>

\* The bootstrap code loads the stack pointer.
ApLoadStack(a) ==
    /\ Goto(a, "boot", "stacked")
    /\ mapped
    /\ stack' = [stack EXCEPT ![a] = ApStackTop]
    /\ UNCHANGED <<todo, current, handshake, ApStackTop, mapped, lock, total,
                   reached, registered>>

\* It tells the BSP that it has started ...
ApSignal1(a) ==
    /\ Goto(a, "stacked", "barrier")
    /\ Lock1' = 0
    /\ UNCHANGED <<todo, current, Lock2, Lock3, ApStackTop, stack,
                   mapped, lock, total, reached, registered>>

\* ... waits for the entry barrier to be lowered, and tells that it is past it.
ApSignal3(a) ==
    /\ Goto(a, "barrier", "leaving")
    /\ Lock2 = 0
    /\ Lock3' = 0
    /\ UNCHANGED <<todo, current, Lock1, Lock2, ApStackTop, stack,
                   mapped, lock, total, reached, registered>>

\* The jump to kmain_ap leaves the page of the bootstrap code.
ApLeave(a) ==
    /\ Goto(a, "leaving", "entry")
    /\ UNCHANGED <<todo, current, handshake, ApStackTop, stack,
                   mapped, lock, total, reached, registered>>

\* Variant: SecondaryEntryPoint does not take the lock.
SecondaryAcquireNot(a) ==
    /\ Goto(a, "entry", "inside")
    /\ UNCHANGED <<todo, current, handshake, ApStackTop, stack,
                   mapped, lock, total, reached, registered>>

\* SecondaryEntryPoint: InitializationLock.Acquire() ...
SecondaryAcquire(a) ==
    /\ Goto(a, "entry", "inside")
    /\ lock = NoStack
    /\ lock' = a
    /\ UNCHANGED <<todo, current, handshake, ApStackTop, stack,
                   mapped, total, reached, registered>>

\* ... Cores::Register and the rest of the initialization, then Release.
SecondaryInitialize(a) ==
    /\ Goto(a, "inside", "reach")
    /\ registered' = registered + 1
    /\ lock' = IF lock = a THEN NoStack ELSE lock
    /\ UNCHANGED <<todo, current, handshake, ApStackTop, stack,
                   mapped, total, reached>>

\* InitializationBarrier.Reach(), in Main and in SecondaryEntryPoint ...
ReachInitialization(c) ==
    /\ Goto(c, "reach", "waiting")
    /\ reached' = reached \cup {c}
    /\ UNCHANGED <<todo, current, handshake, ApStackTop, stack,
                   mapped, lock, total, registered>>

\* ... which ends once the total has been reached; Scheduler::Engage() follows.
Engage(c) ==
    /\ Goto(c, "waiting", "engaged")
    /\ Cardinality(reached) = total
    /\ UNCHANGED <<todo, current, handshake, ApStackTop, stack,
                   mapped, lock, total, reached, registered>>

BspNext ==
    \/ MainAcquire
    \/ \E a \in Aps : InitializeAp(a)
    \/ Wait1Retry \/ Wait1Done \/ Wait3Done \/ WaitTimeout
    \/ UnmapBootstrap \/ MainResetBarrier \/ MainRelease
    \/ ReachInitialization(BSP) \/ Engage(BSP)

ApNext(a) ==
    \/ ApStart(a) \/ ApLoadStack(a) \/ ApSignal1(a) \/ ApSignal3(a) \/ ApLeave(a)
    \/ SecondaryAcquire(a) \/ SecondaryInitialize(a)
    \/ ReachInitialization(a) \/ Engage(a)

\* The tests that follow meet at a barrier of their own, again and again; Main
\* has reset it before it started the APs.
ReachTest(c) ==
    /\ at[c] = "engaged"
    /\ Reach(c)
    /\ UNCHANGED bootVars

Boot(c) ==
    \/ c = BSP /\ BspNext
    \/ c \in Aps /\ ApNext(c)

BootNext ==
    \E c \in Cores : ReachTest(c) \/ (Boot(c) /\ UNCHANGED vars)

BootSpec == BootInit /\ [][BootNext]_<<bootVars, vars>>

\* Processors keep executing; waits end one way or the other.
FairBootSpec ==
    /\ BootSpec
    /\ \A c \in Cores : /\ WF_bootVars(Boot(c) /\ UNCHANGED vars)
                       /\ WF_vars(ReachTest(c))

-----------------------------------------------------------------------------

\* The one stack pointer is handed from AP to AP without two of them ever running
\* on the same stack.
StacksExclusive ==
    \A c, d \in Cores : stack[c] = stack[d] /\ stack[c] # NoStack => c = d

\* "If this point was reached, the AP has begun the handshake." (kernel.cpp, line 836):
\* the BSP never takes the answer of one AP for that of another.
HandshakeIsCurrent ==
    at[BSP] = "wait3" => at[current] \notin {"off", "boot", "stacked"}

\* The words that are used for one AP after another belong to one at a time.
HandshakeKept == StacksExclusive /\ HandshakeIsCurrent

\* One processor at a time initializes itself; none reaches the barrier before the
\* BSP has set its total, because Reset would forget it; and scheduling starts on no
\* processor before all of them are registered.
InitializationSerial ==
    /\ \A c, d \in Aps : at[c] = "inside" /\ at[d] = "inside" => c = d
    /\ at[BSP] \notin {"reach", "waiting", "engaged"} => \A a \in Aps : at[a] # "inside"
    /\ reached # {} => total = Count
    /\ \A c \in Cores : at[c] = "engaged" => registered = Count

\* The kernel finishes booting on every processor if all of them start.
BootCompletes == dead = {} => <>(\A c \in Cores : at[c] = "engaged")
=============================================================================
