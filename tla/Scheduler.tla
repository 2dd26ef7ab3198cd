----------------------------- MODULE Scheduler -----------------------------
(***************************************************************************)
(* The scheduler of one core (beelzebub/src/scheduler.cpp), on top of its  *)
(* timers, and what a switch does to the core: Thread::SwitchTo of         *)
(* arc/amd64/src/execution/thread_switching.cpp, Process::SwitchTo, and    *)
(* the lazy handling of the FPU's registers with                           *)
(* NoMathCoprocessorHandler of arc/x86/src/system/exceptions.cpp.          *)
(*                                                                         *)
(* Nothing assigns a priority or moves a thread to another core, so that   *)
(* of the queues of a core only the one of priority zero is ever used; the *)
(* bitmap is one bit.  Threads neither block nor end.                      *)
(***************************************************************************)
EXTENDS Timer

CONSTANTS Threads,         \* the threads this core may run
          BootstrapThread, \* the one that is running at first
          Owner,           \* Owner[t]: the process of thread t
          FpuUsers,        \* threads that use the FPU
          TickDelay,       \* 10 ms, in ticks of the timer
          PostponeDelay,   \* 10 us
          MaxPostpones     \* bound: how often Postpone gets set

Processes == {Owner[t] : t \in Threads}

ASSUME SchedulerAssumption ==
    /\ BootstrapThread \in Threads
    /\ FpuUsers \subseteq Threads
    /\ {TickDelay, PostponeDelay, MaxPostpones} \subseteq Nat
    /\ "SchedulerTick" \in Functions

Null == 0                  \* nullptr
ASSUME NullAssumption == Null \notin Threads

\* The contents of the registers of the FPU are named by the thread that computed
\* them; the template is what a thread starts with.
Template == -1

VARIABLES queue,      \* SchedulerQueue: First, Last and the links; Bitmap
          Status,     \* of each thread
          CurrentThread,
          ActiveThread, ActiveProcess, ActiveCoreCount,
          enrolling,  \* enrolling[t]: the thread that t is inserting in Enroll, or Null
          engaged, Postpone, postpones,
          TaskSwitched, fpu, ExtendedState, LastExtendedStateThread

cpuVars == <<ActiveThread, ActiveProcess, ActiveCoreCount>>
fpuVars == <<TaskSwitched, fpu, ExtendedState, LastExtendedStateThread>>
runVars == <<queue, Status, CurrentThread, enrolling>>
flagVars == <<engaged, Postpone, postpones>>
schedulerVars == <<runVars, cpuVars, flagVars, fpuVars>>

\* After Scheduler::Initialize on the bootstrap processor.
SchedulerInit ==
    /\ queue = [First |-> Null, Last |-> Null, bit |-> FALSE,
                Next |-> [t \in Threads |-> Null],
                Previous |-> [t \in Threads |-> Null]]
    /\ Status = [t \in Threads |-> "Unscheduled"]
    /\ CurrentThread = BootstrapThread
    /\ enrolling = [t \in Threads |-> Null]
    /\ ActiveThread = BootstrapThread
    /\ ActiveProcess = Owner[BootstrapThread]
    /\ ActiveCoreCount = [p \in Processes |-> IF p = Owner[BootstrapThread] THEN 1 ELSE 0]
    /\ engaged = FALSE
    /\ Postpone = FALSE
    /\ postpones = 0
    /\ TaskSwitched = TRUE
    /\ fpu = Template
    /\ ExtendedState = [t \in Threads |-> Null]
    /\ LastExtendedStateThread = Null

-----------------------------------------------------------------------------
(* SchedulerQueue and SchedulerData.                                       *)

\* SchedulerQueue::Push up to the store to Last.
LinkLast(q, t) ==
    IF q.Last = Null
    THEN [q EXCEPT !.Previous[t] = q.Last, !.First = t]
    ELSE [q EXCEPT !.Previous[t] = q.Last, !.Next[q.Last] = t]

\* Variant: threads are put in front.
PushFirst(q, t) ==
    [q EXCEPT !.Next[t] = q.First, !.First = t, !.bit = TRUE,
              !.Last = IF @ = Null THEN t ELSE @,
              !.Previous = IF q.First = Null THEN @ ELSE [@ EXCEPT ![q.First] = t]]

Push(q, t) == [LinkLast(q, t) EXCEPT !.Last = t, !.bit = TRUE]

\* Variant: the end of the queue stays when its only thread is taken.
PopKeepsLast(q) ==
    LET t == q.First
        n == q.Next[t]
        unlinked == [q EXCEPT !.First = n, !.Next[t] = Null, !.Previous[t] = Null]
    IN  IF n = Null THEN [unlinked EXCEPT !.bit = FALSE]
        ELSE [unlinked EXCEPT !.Previous[n] = q.Previous[t]]

\* SchedulerData::Pop, for a queue that is not empty.
Pop(q) ==
    LET t == q.First
        n == q.Next[t]
        unlinked == [q EXCEPT !.First = n, !.Next[t] = Null, !.Previous[t] = Null]
    IN  IF n = Null THEN [unlinked EXCEPT !.Last = Null, !.bit = FALSE]
        ELSE [unlinked EXCEPT !.Previous[n] = q.Previous[t]]

-----------------------------------------------------------------------------
(* Switching.                                                              *)

Has(t) == ExtendedState[t] # Null

\* The part of Thread::SwitchTo that is about the FPU.
SwitchExtendedState(from, to) ==
    LET saved == [ExtendedState EXCEPT ![from] = IF Has(from) THEN fpu ELSE @]
        reload == Has(to) /\ LastExtendedStateThread # to
    IN  /\ ExtendedState' = saved
        /\ fpu' = IF reload THEN saved[to] ELSE fpu
        /\ TaskSwitched' = CASE Has(to) /\ (~Has(from) \/ reload) -> FALSE
                             [] ~Has(to) /\ Has(from) -> TRUE
                             [] OTHER -> TaskSwitched
        /\ LastExtendedStateThread' = CASE Has(to) -> Null
                                        [] ~Has(to) /\ Has(from) -> from
                                        [] OTHER -> LastExtendedStateThread

\* Process::SwitchTo, skipped when the process stays the same.
CountCores(from, to) ==
    [p \in Processes |-> ActiveCoreCount[p] + (IF p = to /\ p # from THEN 1 ELSE 0)
                                            - (IF p = from /\ p # to THEN 1 ELSE 0)]

SwitchTo(from, to) ==
    /\ ActiveThread' = to
    /\ ActiveProcess' = Owner[to]
    /\ ActiveCoreCount' = CountCores(Owner[from], Owner[to])
    /\ SwitchExtendedState(from, to)

-----------------------------------------------------------------------------
(* The tick.                                                               *)

\* SchedulerTick, up to the middle of its call of Enqueue.  It returns thereafter.
SchedulerTick ==
    /\ calling = "SchedulerTick"
    /\ calling' = "return"
    /\ IF Postpone
       THEN /\ EnqueueRead("SchedulerTick", PostponeDelay)
            /\ UNCHANGED <<runVars, cpuVars, fpuVars>>
       ELSE LET q == Push(queue, CurrentThread)
                next == q.First
            IN  /\ queue' = Pop(q)
                /\ Status' = [Status EXCEPT ![CurrentThread] = "Queued",
                                            ![next] = "Executing"]
                /\ CurrentThread' = next
                /\ SwitchTo(CurrentThread, next)
                /\ EnqueueRead("SchedulerTick", TickDelay)
                /\ UNCHANGED enrolling
    /\ UNCHANGED flagVars

\* Every other function does nothing to this state; TimerIrqReturn is their return
\* as well.
FunctionDone ==
    /\ calling # "SchedulerTick"
    /\ TimerIrqReturn
    /\ UNCHANGED schedulerVars

Interrupt ==
    /\ enrolling[CurrentThread] # Null => TightTiming
    /\ TimerIrqHandler
    /\ UNCHANGED schedulerVars

EnqueueFinish == EnqueueWrite /\ UNCHANGED schedulerVars

Tick == Clock /\ UNCHANGED schedulerVars

-----------------------------------------------------------------------------
(* What threads do.                                                        *)

\* Thread t runs, and is not in the middle of Enqueue or Enroll.
Runs(t) == /\ engaged /\ CurrentThread = t /\ calling = None
           /\ ~Reading /\ enrolling[t] = Null

\* Main engages the scheduler, enables interrupts and goes on to the tests, which
\* are what spawns threads and asks for timers.
Engage ==
    /\ ~engaged
    /\ engaged' = TRUE
    /\ EnqueueRead("SchedulerTick", TickDelay)
    /\ UNCHANGED <<calling, runVars, cpuVars, fpuVars, Postpone, postpones>>

\* Enroll inserts thread t.  It does not disable interrupts: when TightTiming, a
\* tick may come between the stores of Push.
EnrollLink(t) ==
    /\ Runs(CurrentThread)
    /\ Status[t] = "Unscheduled"
    /\ queue' = LinkLast(queue, t)
    /\ enrolling' = [enrolling EXCEPT ![CurrentThread] = t]
    /\ UNCHANGED <<timerVars, Status, CurrentThread, cpuVars, flagVars, fpuVars>>

EnrollFinish ==
    LET t == enrolling[CurrentThread]
    IN  /\ t # Null /\ calling = None
        /\ queue' = [queue EXCEPT !.Last = t, !.bit = TRUE]
        /\ Status' = [Status EXCEPT ![t] = "Queued"]
        /\ enrolling' = [enrolling EXCEPT ![CurrentThread] = Null]
        /\ UNCHANGED <<timerVars, CurrentThread, cpuVars, flagVars, fpuVars>>

\* Tests, in the thread of Main, set Scheduler::Postpone and clear it at their end.
SetPostpone ==
    /\ Runs(BootstrapThread) /\ postpones < MaxPostpones /\ ~Postpone
    /\ Postpone' = TRUE
    /\ postpones' = postpones + 1
    /\ UNCHANGED <<timerVars, runVars, cpuVars, fpuVars, engaged>>

ClearPostpone ==
    /\ Runs(BootstrapThread) /\ Postpone
    /\ Postpone' = FALSE
    /\ UNCHANGED <<timerVars, runVars, cpuVars, fpuVars, engaged, postpones>>

\* A thread asks for a timer.
EnqueueTimer(f, delay) ==
    /\ Runs(CurrentThread)
    /\ EnqueueRead(f, delay)
    /\ UNCHANGED <<calling, schedulerVars>>

\* The first use of the FPU after a switch is trapped, unless the switch already
\* loaded the registers.
NoMathCoprocessorHandler(t) ==
    LET fresh == [ExtendedState EXCEPT ![t] = IF Has(t) THEN @ ELSE Template]
    IN  /\ Runs(t) /\ t \in FpuUsers /\ TaskSwitched
        /\ TaskSwitched' = FALSE
        /\ IF LastExtendedStateThread # t
           THEN /\ ExtendedState' = fresh
                /\ fpu' = fresh[t]
           ELSE UNCHANGED <<ExtendedState, fpu>>
        /\ UNCHANGED <<timerVars, runVars, cpuVars, flagVars, LastExtendedStateThread>>

UseFpu(t) ==
    /\ Runs(t) /\ t \in FpuUsers /\ ~TaskSwitched
    /\ fpu' = t
    /\ UNCHANGED <<timerVars, runVars, cpuVars, flagVars, TaskSwitched,
                   ExtendedState, LastExtendedStateThread>>

=============================================================================
