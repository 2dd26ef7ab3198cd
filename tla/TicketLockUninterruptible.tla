---------------------- MODULE TicketLockUninterruptible ----------------------
(***************************************************************************)
(* The ticket lock that also disables interrupts (SmpLockUni), of          *)
(* sysheaders/common/beel/sync/ticket.lock.unint.hpp, with InterruptState  *)
(* and InterruptGuard of sysheaders/x86/beel/interrupt.state.hpp.          *)
(*                                                                         *)
(* Each processor runs a task and, on top of it, at most one interrupt     *)
(* handler; both use the lock, so the Cores of TicketLock are here the     *)
(* contexts <<processor, "task">> and <<processor, "irq">>.  The steps on  *)
(* the lock's word are those of TicketLock.                                *)
(***************************************************************************)
EXTENDS TicketLock

CONSTANT Cpus

Task(c) == <<c, "task">>
Irq(c) == <<c, "irq">>

ASSUME ContextAssumption == Cores = Cpus \X {"task", "irq"}

VARIABLES IF_,      \* the interrupt flag of each processor
          at,       \* where each context is in the unint operations
          cookie,   \* the interrupt state Acquire or TryAcquire saved
          guard     \* the interrupt state a withInterrupts(false) scope saved

uvars == <<vars, IF_, at, cookie, guard>>

\* A processor runs its handler when there is one, its task otherwise.
Runs(x) == IF x[2] = "irq" THEN at[x] # "none" ELSE at[Irq(x[1])] = "none"

\* The context that runs is between operations.
Free(x) == Runs(x) /\ at[x] = "out" /\ pc[x] = "idle"

UInit ==
    /\ Init
    /\ IF_ = [c \in Cpus |-> TRUE]
    /\ at = [x \in Cores |-> IF x[2] = "irq" THEN "none" ELSE "out"]
    /\ cookie = [x \in Cores |-> FALSE]
    /\ guard = [x \in Cores |-> "none"]

\* The processor takes an interrupt: the gate clears the flag.
InterruptEnter(c) ==
    /\ IF_[c]
    /\ at[Irq(c)] = "none"
    /\ at' = [at EXCEPT ![Irq(c)] = "out"]
    /\ IF_' = [IF_ EXCEPT ![c] = FALSE]
    /\ UNCHANGED <<vars, cookie, guard>>

\* The handler returns and iret restores the flag, which was set.
InterruptExit(c) ==
    /\ Free(Irq(c)) /\ guard[Irq(c)] = "none"
    /\ at' = [at EXCEPT ![Irq(c)] = "none"]
    /\ IF_' = [IF_ EXCEPT ![c] = TRUE]
    /\ UNCHANGED <<vars, cookie, guard>>

\* withInterrupts(false): InterruptGuard<false>, its constructor ...
GuardEnter(x) ==
    /\ Free(x) /\ guard[x] = "none"
    /\ guard' = [guard EXCEPT ![x] = IF IF_[x[1]] THEN "on" ELSE "off"]
    /\ IF_' = [IF_ EXCEPT ![x[1]] = FALSE]
    /\ UNCHANGED <<vars, at, cookie>>

\* ... and its destructor.
GuardLeave(x) ==
    /\ Free(x) /\ guard[x] # "none"
    /\ IF_' = [IF_ EXCEPT ![x[1]] = guard[x] = "on"]
    /\ guard' = [guard EXCEPT ![x] = "none"]
    /\ UNCHANGED <<vars, at, cookie>>

\* Variant: the flags are saved but interrupts stay as they are.
DisableNot(x, to) ==
    /\ Free(x)
    /\ at' = [at EXCEPT ![x] = to]
    /\ cookie' = [cookie EXCEPT ![x] = IF_[x[1]]]
    /\ UNCHANGED <<vars, IF_, guard>>

\* InterruptState::Disable, with which Acquire and TryAcquire begin.
Disable(x, to) ==
    /\ Free(x)
    /\ at' = [at EXCEPT ![x] = to]
    /\ cookie' = [cookie EXCEPT ![x] = IF_[x[1]]]
    /\ IF_' = [IF_ EXCEPT ![x[1]] = FALSE]
    /\ UNCHANGED <<vars, guard>>

\* Acquire, after Disable.
UAcquireTicket(x) ==
    /\ Runs(x) /\ at[x] = "acquire"
    /\ AcquireTicket(x)
    /\ UNCHANGED <<IF_, at, cookie, guard>>

UAcquireSpin(x) ==
    /\ Runs(x) /\ at[x] = "acquire"
    /\ AcquireSpin(x)
    /\ at' = [at EXCEPT ![x] = "inside"]
    /\ UNCHANGED <<IF_, cookie, guard>>

\* TryAcquire, after Disable.
UTryAcquireLoad(x) ==
    /\ Runs(x) /\ at[x] = "try"
    /\ TryAcquireLoad(x)
    /\ UNCHANGED <<IF_, at, cookie, guard>>

\* Variant: a failed TryAcquire leaves without restoring the flags.
UTryAcquireCasNoRestore(x) ==
    /\ Runs(x) /\ at[x] = "try"
    /\ TryAcquireCas(x)
    /\ at' = [at EXCEPT ![x] = IF pc'[x] = "holding" THEN "inside" ELSE "out"]
    /\ UNCHANGED <<IF_, cookie, guard>>

\* A failure goes on to restore the flags.
UTryAcquireCas(x) ==
    /\ Runs(x) /\ at[x] = "try"
    /\ TryAcquireCas(x)
    /\ at' = [at EXCEPT ![x] = IF pc'[x] = "holding" THEN "inside" ELSE "restore"]
    /\ UNCHANGED <<IF_, cookie, guard>>

\* Release and SimplyRelease: ++Tail ...
UReleaseLoad(x) ==
    /\ Runs(x) /\ at[x] \in {"inside", "simply"}
    /\ ReleaseLoad(x)
    /\ UNCHANGED <<IF_, at, cookie, guard>>

UReleaseStore(x) ==
    /\ Runs(x) /\ at[x] \in {"inside", "simply"}
    /\ ReleaseStore(x)
    /\ at' = [at EXCEPT ![x] = IF at[x] = "inside" THEN "restore" ELSE "out"]
    /\ UNCHANGED <<IF_, cookie, guard>>

\* ... and cookie.Restore(), for Release and for a failed TryAcquire.
Restore(x) ==
    /\ Runs(x) /\ at[x] = "restore"
    /\ IF_' = [IF_ EXCEPT ![x[1]] = cookie[x]]
    /\ at' = [at EXCEPT ![x] = "out"]
    /\ cookie' = [cookie EXCEPT ![x] = FALSE]
    /\ UNCHANGED <<vars, guard>>

\* SimplyAcquire leaves the flag alone: callers have disabled interrupts.
SimplyAcquireTicket(x) ==
    /\ Free(x) /\ ~IF_[x[1]]
    /\ AcquireTicket(x)
    /\ at' = [at EXCEPT ![x] = "simply"]
    /\ UNCHANGED <<IF_, cookie, guard>>

SimplyAcquireSpin(x) ==
    /\ Runs(x) /\ at[x] = "simply"
    /\ AcquireSpin(x)
    /\ UNCHANGED <<IF_, at, cookie, guard>>

\* Spin and Await take no ticket and leave the flag alone.
UAwait(x) ==
    /\ Runs(x) /\ at[x] = "out"
    /\ AwaitStart(x) \/ AwaitEnd(x)
    /\ UNCHANGED <<IF_, at, cookie, guard>>

\* What a context does once it is inside an operation.
Continue(x) ==
    \/ UAcquireTicket(x) \/ UAcquireSpin(x)
    \/ UTryAcquireLoad(x) \/ UTryAcquireCas(x)
    \/ SimplyAcquireSpin(x)
    \/ UReleaseLoad(x) \/ UReleaseStore(x) \/ Restore(x)

UNext ==
    \/ \E c \in Cpus : InterruptEnter(c) \/ InterruptExit(c)
    \/ \E x \in Cores :
         \/ GuardEnter(x) \/ GuardLeave(x)
         \/ Disable(x, "acquire") \/ Disable(x, "try")
         \/ SimplyAcquireTicket(x) \/ UAwait(x)
         \/ Continue(x)

USpec == UInit /\ [][UNext]_uvars

(***************************************************************************)
(* Fairness: a processor keeps executing what it runs.  Weak fairness is   *)
(* enough for a task inside the lock's operations only because no handler  *)
(* can run on top of it.                                                   *)
(***************************************************************************)
FairUSpec == USpec /\ \A x \in Cores : WF_uvars(Continue(x))

-----------------------------------------------------------------------------

UTypeOK ==
    /\ TypeOK
    /\ IF_ \in [Cpus -> BOOLEAN]
    /\ at \in [Cores -> {"none", "out", "acquire", "try", "inside",
                         "simply", "restore"}]
    /\ cookie \in [Cores -> BOOLEAN]
    /\ guard \in [Cores -> {"none", "on", "off"}]

\* No handler ever waits for a ticket behind the task it interrupted: the one
\* deadlock disabling interrupts is there to prevent.
NoSelfDeadlock ==
    \A c \in Cpus : ~(pc[Irq(c)] = "waiting" /\ Task(c) \in Outstanding)

\* Acquire/Release pairs, failed TryAcquires and guard scopes nest without ever
\* leaving a processor with its interrupts off: a task outside of them runs with
\* the flag set.
InterruptsNotLost ==
    \A c \in Cpus :
        at[Irq(c)] = "none" /\ at[Task(c)] = "out" /\ guard[Task(c)] = "none"
            => IF_[c]
-----------------------------------------------------------------------------
(***************************************************************************)
(* The inductive invariant behind the two.                                 *)
(***************************************************************************)

\* Where a context is in the unint operations tells where it may be in those
\* of the ticket lock.
StagesAgree ==
    \A x \in Cores :
        /\ at[x] = "none" => pc[x] = "idle"
        /\ at[x] = "out" => pc[x] \in {"idle", "awaiting"}
        /\ at[x] = "acquire" => pc[x] \in {"idle", "waiting"}
        /\ at[x] = "try" => pc[x] \in {"idle", "trying"}
        /\ at[x] = "inside" => pc[x] \in {"holding", "releasing"}
        /\ at[x] = "simply" => pc[x] \in {"waiting", "holding", "releasing"}
        /\ at[x] = "restore" => pc[x] = "idle"

\* While the task runs, the flag is set exactly outside of the lock's operations
\* and of guards, and what they saved is what the flag was when they began.
TaskFlag(c) ==
    LET t == Task(c) IN
    /\ at[t] # "none" /\ guard[t] # "off"
    /\ at[Irq(c)] = "none" => (IF_[c] <=> at[t] = "out" /\ guard[t] = "none")
    /\ at[t] \notin {"out", "simply"} => (cookie[t] <=> guard[t] = "none")
    /\ at[t] = "simply" => guard[t] = "on"

\* A handler never has the flag set, saves no other value of it, and has
\* interrupted a task outside of the lock and of guards.
HandlerFlag(c) ==
    LET h == Irq(c) IN
    /\ guard[h] # "on" /\ ~cookie[h]
    /\ at[h] = "none" => guard[h] = "none"
    /\ at[h] # "none" => ~IF_[c] /\ at[Task(c)] = "out" /\ guard[Task(c)] = "none"

\* Between them, Disable, Restore, the guards, the interrupt gate and iret keep
\* the flag, the saved flags and the stage of both contexts in step.
UIInv ==
    /\ UTypeOK
    /\ StagesAgree
    /\ \A c \in Cpus : TaskFlag(c) /\ HandlerFlag(c)
=============================================================================
