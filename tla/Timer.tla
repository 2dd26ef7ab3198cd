------------------------------- MODULE Timer -------------------------------
(***************************************************************************)
(* The timers of one core: beelzebub/arc/x86/src/timer.arc.cpp.  One       *)
(* hardware count-down (the APIC timer in one-shot mode) serves a queue of *)
(* up to Count entries, in the order in which they are due; the Time of an *)
(* entry is the number of ticks after the entry before it.                 *)
(*                                                                         *)
(* The hardware counts while the code runs.  So Enqueue is two steps: the  *)
(* count is read in the first one and written, if need be, in the second.  *)
(* Both happen with interrupts disabled, as does the whole of the handler  *)
(* and the function it calls.                                              *)
(***************************************************************************)
EXTENDS Integers, Sequences, FiniteSets

LOCAL INSTANCE Folds

CONSTANTS Functions,   \* what timers call
          Count,       \* Timer::Count: 32
          Counts,      \* the number of values of the count: 2^32
          TightTiming  \* whether code and ticks may meet; see TicksApart

ASSUME TimerAssumption ==
    /\ Count \in Nat \ {0} /\ Counts \in Nat \ {0}
    /\ TightTiming \in BOOLEAN

None == "none"

VARIABLES MyTimers,  \* entries: Function, Time, and the ticks `left' of the delay
                     \* that was asked for, which the program does not keep
          count,     \* the current count of the APIC timer; 0 when it is stopped
          pending,   \* the interrupt of the timer is pending
          masked,    \* interrupts are disabled
          enqueuing, \* <<e>> for the entry of an Enqueue between its two steps, or <<>>
          calling    \* the function the handler is in, or None

timerVars == <<MyTimers, count, pending, masked, enqueuing, calling>>

TimerInit ==
    /\ MyTimers = <<>>
    /\ count = 0
    /\ pending = FALSE
    /\ masked = FALSE
    /\ enqueuing = <<>>
    /\ calling = None

AtLeastOne(n) == IF n = 0 THEN 1 ELSE n

-----------------------------------------------------------------------------

Reading == enqueuing # <<>>

\* A count of one that the handler wrote for an entry with Time zero has run out
\* by the time it is read; the count does not run out between the two steps of
\* Enqueue.  Both fail only if a tick is not short, or not long, compared with
\* the few instructions in between.
TicksApart ==
    \/ TightTiming
    \/ ~(Reading /\ count = 1)

CountSettled ==
    \/ TightTiming
    \/ ~(MyTimers # <<>> /\ Head(MyTimers).Time = 0 /\ count = 1)

OneLess(n) == IF n = 0 THEN 0 ELSE n - 1

Elapse(entries) ==
    [i \in DOMAIN entries |-> [entries[i] EXCEPT !.left = OneLess(@)]]

\* One tick of the hardware.
Clock ==
    /\ TicksApart
    /\ count' = OneLess(count)
    /\ pending' = (pending \/ count = 1)
    /\ MyTimers' = Elapse(MyTimers)
    /\ enqueuing' = Elapse(enqueuing)
    /\ UNCHANGED <<masked, calling>>

-----------------------------------------------------------------------------

\* Variant: the time that passed since the count was written is not added.
ElapsedForgotten == 0

\* The ticks since the count was written, in 32 bits.
Elapsed ==
    IF MyTimers = <<>> THEN 0 ELSE (Head(MyTimers).Time - count) % Counts

Full == Len(MyTimers) = Count

\* Enqueue up to the reading of the count; in a full queue, all of it.  Where it
\* was called from is for the caller to say.
EnqueueRead(f, delay) ==
    /\ ~Reading
    /\ CountSettled
    /\ enqueuing' = IF Full THEN <<>>
                    ELSE <<[Function |-> f, Time |-> AtLeastOne(delay) + Elapsed,
                            left |-> delay]>>
    /\ masked' = (masked \/ ~Full)
    /\ UNCHANGED <<MyTimers, count, pending>>

\* When entry i is due, from the time the count was written.
Due(i) == MapThenFoldSet(+, 0, LAMBDA k : MyTimers[k].Time,
                         LAMBDA S : CHOOSE k \in S : TRUE, 1 .. i)

\* How many entries are due no later than the new one.
Before == Cardinality({i \in DOMAIN MyTimers : Due(i) <= Head(enqueuing).Time})

\* The new entry goes behind the first i entries, diff ticks after the last of them.
InsertAfter(entries, i, diff) ==
    SubSeq(entries, 1, i) \o <<[Head(enqueuing) EXCEPT !.Time = diff]>>
       \o SubSeq(entries, i + 1, Len(entries))

\* Variant: the entry after the new one keeps its time.
InsertUnadjusted(i, diff) == InsertAfter(MyTimers, i, diff)

Insert(i, diff) ==
    InsertAfter([k \in DOMAIN MyTimers |-> IF k = i + 1
                                           THEN [MyTimers[k] EXCEPT !.Time = @ - diff]
                                           ELSE MyTimers[k]],
                i, diff)

SetCount(i, diff) == IF i = 0 THEN diff ELSE count

TooLarge == Head(enqueuing).Time - Due(Before) > Counts - 1

\* The rest of Enqueue.  Interrupts stay disabled in a handler.
EnqueueWrite ==
    LET i == Before
        diff == Head(enqueuing).Time - Due(i)
    IN  /\ Reading
        /\ MyTimers' = IF TooLarge THEN MyTimers ELSE Insert(i, diff)
        /\ count' = IF TooLarge THEN count ELSE SetCount(i, diff)
        /\ enqueuing' = <<>>
        /\ masked' = (calling # None)
        /\ UNCHANGED <<pending, calling>>

-----------------------------------------------------------------------------

\* Variant: the count is not written for the entry that is now the first.
TimerIrqHandlerIdle ==
    /\ pending /\ ~masked
    /\ pending' = FALSE
    /\ masked' = TRUE
    /\ calling' = IF MyTimers = <<>> THEN "nothing" ELSE Head(MyTimers).Function
    /\ MyTimers' = IF MyTimers = <<>> THEN <<>> ELSE Tail(MyTimers)
    /\ UNCHANGED <<count, enqueuing>>

\* Takes the first entry, restarts the count for the next one and calls the function.
TimerIrqHandler ==
    /\ pending /\ ~masked
    /\ pending' = FALSE
    /\ masked' = TRUE
    /\ calling' = IF MyTimers = <<>> THEN "nothing" ELSE Head(MyTimers).Function
    /\ MyTimers' = IF MyTimers = <<>> THEN <<>> ELSE Tail(MyTimers)
    /\ count' = IF Len(MyTimers) > 1 THEN AtLeastOne(MyTimers[2].Time) ELSE count
    /\ UNCHANGED enqueuing

\* The function returned, and so does the interrupt.
TimerIrqReturn ==
    /\ calling # None /\ ~Reading
    /\ calling' = None
    /\ masked' = FALSE
    /\ UNCHANGED <<MyTimers, count, pending, enqueuing>>

=============================================================================
