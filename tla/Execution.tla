----------------------------- MODULE Execution -----------------------------
(***************************************************************************)
(* Threads of one core that spawn further threads, enrol them and are      *)
(* pre-empted, at any point between two steps, by the timer they share     *)
(* with everyone else: Scheduler and IdPool together.                      *)
(*                                                                         *)
(* Threads are named by their identifiers.                                 *)
(***************************************************************************)
EXTENDS Scheduler, IdPool

CONSTANT Delays   \* the delays that threads ask for, in ticks of the timer

ASSUME ExecutionAssumption ==
    /\ Threads = Ids \ {Reserved} /\ BootstrapThread = Bootstrap
    /\ Actors = Threads
    /\ Delays \subseteq Nat

vars == <<timerVars, schedulerVars, poolVars>>

Init == TimerInit /\ SchedulerInit /\ PoolInit

-----------------------------------------------------------------------------

\* A thread takes a step only while it runs; the lock of the pool keeps interrupts
\* off.
Spawn(a) ==
    /\ Runs(a)
    /\ Spawning(a)
    /\ UNCHANGED <<timerVars, schedulerVars>>

\* The new thread is enrolled on this core.
EnrollSpawned ==
    /\ step[CurrentThread] = "spawned"
    /\ EnrollLink(id[CurrentThread])
    /\ UNCHANGED poolVars

EnrollReturn ==
    /\ EnrollFinish
    /\ SpawnReturn(CurrentThread)

Core ==
    \/ Interrupt \/ SchedulerTick \/ FunctionDone \/ EnqueueFinish \/ Tick
    \/ Engage \/ SetPostpone \/ ClearPostpone
    \/ \E f \in Functions \ {"SchedulerTick"}, d \in Delays : EnqueueTimer(f, d)
    \/ \E t \in Threads : NoMathCoprocessorHandler(t) \/ UseFpu(t)

Next ==
    \/ \E a \in Actors : Spawn(a)
    \/ EnrollSpawned \/ EnrollReturn
    \/ Core /\ UNCHANGED poolVars

Spec == Init /\ [][Next]_vars

\* Code that has no choice.
GoesOn ==
    \/ (SchedulerTick \/ FunctionDone \/ EnqueueFinish \/ Engage) /\ UNCHANGED poolVars
    \/ EnrollReturn

\* The hardware counts, a pending interrupt is taken once interrupts are enabled,
\* however often code disables them for a moment; straight-line code goes on, and
\* a test that postpones ticks ends, as its thread runs all the while.  Nothing is
\* assumed of what threads do.
FairSpec ==
    /\ Spec
    /\ WF_vars(Tick /\ UNCHANGED poolVars)
    /\ SF_vars(Interrupt /\ UNCHANGED poolVars)
    /\ WF_vars(GoesOn)
    /\ SF_vars(ClearPostpone /\ UNCHANGED poolVars)

-----------------------------------------------------------------------------

\* The k-th thread of the queue, following Next from First.
Nth[k \in 1 .. Cardinality(Threads) + 1] ==
    IF k = 1 THEN queue.First
    ELSE IF Nth[k - 1] = Null THEN Null ELSE queue.Next[Nth[k - 1]]

\* Outside of Enroll, every thread that was enrolled is the current one or in the
\* queue, once; the links, the ends and the bit agree; and the core works for the
\* current thread and its process (scheduler.cpp, Push, Pop and SchedulerTick;
\* Thread::SwitchTo).
ThreadsKept ==
    LET queued == {t \in Threads : Status[t] = "Queued"}
        n == Cardinality(queued)
    IN  (\A t \in Threads : enrolling[t] = Null) =>
           /\ {Nth[k] : k \in 1 .. n} = queued
           /\ Nth[n + 1] = Null
           /\ queue.Last = IF n = 0 THEN Null ELSE Nth[n]
           /\ \A k \in 1 .. n : queue.Previous[Nth[k]] = IF k = 1 THEN Null ELSE Nth[k - 1]
           /\ queue.bit = (n > 0)
           /\ CurrentThread \notin queued
           /\ ActiveThread = CurrentThread
           /\ ActiveProcess = Owner[CurrentThread]
           /\ \A p \in Processes : ActiveCoreCount[p] = IF p = ActiveProcess THEN 1 ELSE 0

\* No timer fires before the delay that was asked for has passed, in whatever order
\* timers are added and however late the interrupt is taken (timer.arc.cpp, Enqueue).
NeverEarly ==
    [][calling = None /\ calling' # None => MyTimers # <<>> /\ Head(MyTimers).left = 0]_vars

\* The chain of ticks does not break: once engaged, exactly one SchedulerTick is
\* queued, being queued or running, even if threads fill the queue of timers; and
\* the hardware is set whenever a timer waits (scheduler.cpp, assert(enqueued)).
TickKept ==
    LET ticks(s) == {k \in DOMAIN s : s[k].Function = "SchedulerTick"}
    IN  /\ MyTimers # <<>> => count > 0 \/ pending
        /\ engaged => Cardinality(ticks(MyTimers)) + Cardinality(ticks(enqueuing))
                      + (IF calling = "SchedulerTick" THEN 1 ELSE 0) = 1

\* Every timer fires: adding others in front of it delays it, but not for ever.
TimersFire ==
    \A f \in Functions \ {"SchedulerTick"} :
        (\E k \in DOMAIN MyTimers : MyTimers[k].Function = f) ~> calling = f

\* Every thread that was enrolled gets to run, again and again.
EveryThreadRuns ==
    \A t \in Threads : Status[t] = "Queued" ~> CurrentThread = t

\* A thread that can use the FPU finds its own values in it, or those a thread
\* starts with: LastExtendedStateThread, by which SwitchTo tells whether it has to
\* load them, is "the last thread whose extended state was used"
\* (thread_switching.cpp, SwitchTo; exceptions.cpp, NoMathCoprocessorHandler).
OwnExtendedState ==
    ~TaskSwitched => fpu \in {ActiveThread, Template}

=============================================================================
