----------------------------- MODULE TicketLock -----------------------------
(***************************************************************************)
(* The inline ticket lock of sysheaders/common/beel/sync/ticket.lock.hpp,  *)
(* the lock behind SmpLock.  Head dispenses tickets and Tail is the ticket *)
(* being served (here head and tail); both are 16-bit halves of one 32-bit *)
(* word and wrap around.                                                   *)
(*                                                                         *)
(* Every access to the shared word is a step of its own: the fetch-and-add *)
(* and the spin of Acquire, the load and the compare-and-swap of           *)
(* TryAcquire, and the load and the store of Release, whose increment is   *)
(* not atomic.                                                             *)
(***************************************************************************)
EXTENDS Naturals, FiniteSets

CONSTANTS Cores,        \* the processors that use the lock
          TicketCount   \* how many values head and tail have: 2^16 in the code

\* Fewer processors than tickets: the kernel never runs on 65536 of them.
ASSUME TicketAssumption ==
    /\ IsFiniteSet(Cores)
    /\ TicketCount \in Nat \ {0}
    /\ Cardinality(Cores) < TicketCount

VARIABLES tail,   \* the ticket being served
          head,   \* the next ticket to dispense
          pc,     \* where each core is in the lock's operations
          reg     \* the ticket value each core keeps in a register; zero when
                  \* the register is dead

vars == <<tail, head, pc, reg>>

Tickets == 0 .. TicketCount - 1

\* uint16_t increment.
Inc(t) == IF t + 1 = TicketCount THEN 0 ELSE t + 1

\* uint16_t subtraction a - b.
Diff(a, b) == IF a >= b THEN a - b ELSE a + TicketCount - b

Init ==
    /\ tail = 0
    /\ head = 0
    /\ pc = [c \in Cores |-> "idle"]
    /\ reg = [c \in Cores |-> 0]

\* Acquire: myTicket = fetch_add(head, 1).
AcquireTicket(c) ==
    /\ pc[c] = "idle"
    /\ pc' = [pc EXCEPT ![c] = "waiting"]
    /\ reg' = [reg EXCEPT ![c] = head]
    /\ head' = Inc(head)
    /\ UNCHANGED tail

\* Variant: the spin ends one turn early.
AcquireSpinEarly(c) ==
    /\ pc[c] = "waiting"
    /\ Diff(reg[c], tail) <= 1
    /\ pc' = [pc EXCEPT ![c] = "holding"]
    /\ UNCHANGED <<tail, head, reg>>

\* Acquire: the spin ends when myTicket - tail is zero.
AcquireSpin(c) ==
    /\ pc[c] = "waiting"
    /\ Diff(reg[c], tail) = 0
    /\ pc' = [pc EXCEPT ![c] = "holding"]
    /\ UNCHANGED <<tail, head, reg>>

\* TryAcquire: oldHead = head.
TryAcquireLoad(c) ==
    /\ pc[c] = "idle"
    /\ pc' = [pc EXCEPT ![c] = "trying"]
    /\ reg' = [reg EXCEPT ![c] = head]
    /\ UNCHANGED <<tail, head>>

\* Variant: the swap compares Head alone.
TryAcquireCasHeadOnly(c) ==
    /\ pc[c] = "trying"
    /\ UNCHANGED <<tail, reg>>
    /\ \/ /\ head = reg[c]
          /\ head' = Inc(reg[c])
          /\ pc' = [pc EXCEPT ![c] = "holding"]
       \/ /\ head # reg[c]
          /\ pc' = [pc EXCEPT ![c] = "idle"]
          /\ UNCHANGED head

\* TryAcquire: compare-and-swap {oldHead, oldHead} -> {oldHead, oldHead + 1}.
TryAcquireCas(c) ==
    /\ pc[c] = "trying"
    /\ UNCHANGED tail
    /\ \/ /\ tail = reg[c] /\ head = reg[c]
          /\ head' = Inc(reg[c])
          /\ pc' = [pc EXCEPT ![c] = "holding"]
          /\ UNCHANGED reg
       \/ /\ ~(tail = reg[c] /\ head = reg[c])
          /\ pc' = [pc EXCEPT ![c] = "idle"]
          /\ reg' = [reg EXCEPT ![c] = 0]
          /\ UNCHANGED head

\* Release: ++tail, the load ...
ReleaseLoad(c) ==
    /\ pc[c] = "holding"
    /\ pc' = [pc EXCEPT ![c] = "releasing"]
    /\ reg' = [reg EXCEPT ![c] = tail]
    /\ UNCHANGED <<tail, head>>

\* Variant: the store opens the lock to every ticket dispensed so far.
ReleaseStoreToHead(c) ==
    /\ pc[c] = "releasing"
    /\ tail' = head
    /\ pc' = [pc EXCEPT ![c] = "idle"]
    /\ reg' = [reg EXCEPT ![c] = 0]
    /\ UNCHANGED head

\* ... and the store.
ReleaseStore(c) ==
    /\ pc[c] = "releasing"
    /\ tail' = Inc(reg[c])
    /\ pc' = [pc EXCEPT ![c] = "idle"]
    /\ reg' = [reg EXCEPT ![c] = 0]
    /\ UNCHANGED head

\* Spin, Await: wait, without taking a ticket, until a single read of the
\* word shows the lock free.
AwaitStart(c) ==
    /\ pc[c] = "idle"
    /\ pc' = [pc EXCEPT ![c] = "awaiting"]
    /\ UNCHANGED <<tail, head, reg>>

AwaitEnd(c) ==
    /\ pc[c] = "awaiting"
    /\ tail = head
    /\ pc' = [pc EXCEPT ![c] = "idle"]
    /\ UNCHANGED <<tail, head, reg>>

Operation(c) ==
    \/ AcquireTicket(c)
    \/ AcquireSpin(c)
    \/ TryAcquireLoad(c)
    \/ TryAcquireCas(c)
    \/ ReleaseLoad(c)
    \/ ReleaseStore(c)
    \/ AwaitStart(c)
    \/ AwaitEnd(c)

Next == \E c \in Cores : Operation(c)

Spec == Init /\ [][Next]_vars

(***************************************************************************)
(* Fairness: a core that is inside an operation keeps executing it, and a  *)
(* critical section ends.  No core is obliged to start an operation.       *)
(***************************************************************************)
Fairness ==
    \A c \in Cores :
        /\ WF_vars(AcquireSpin(c))
        /\ WF_vars(TryAcquireCas(c))
        /\ WF_vars(ReleaseLoad(c))
        /\ WF_vars(ReleaseStore(c))

FairSpec == Spec /\ Fairness

-----------------------------------------------------------------------------

Outstanding == {c \in Cores : pc[c] \in {"waiting", "holding", "releasing"}}

Holders == {c \in Cores : pc[c] \in {"holding", "releasing"}}

TypeOK ==
    /\ tail \in Tickets
    /\ head \in Tickets
    /\ pc \in [Cores -> {"idle", "waiting", "trying", "holding",
                         "releasing", "awaiting"}]
    /\ reg \in [Cores -> Tickets]

\* Acquire and TryAcquire admit one core at a time, wherever the 16-bit
\* counters wrap and although Release does not increment tail atomically.
MutualExclusion ==
    \A c, d \in Holders : c = d

\* head - tail counts the cores that hold or await the lock, and their tickets
\* are the distinct values from tail up to head: Check, Await and TryAcquire
\* may read "head = tail" as "free".
TicketsOutstanding ==
    /\ Cardinality(Outstanding) = Diff(head, tail)
    /\ \A c \in Outstanding : Diff(reg[c], tail) < Diff(head, tail)
    /\ \A c, d \in Outstanding : reg[c] = reg[d] => c = d

\* The holder's register is the ticket being served, so that the store of
\* Release cannot lose or repeat a turn.
HolderIsServed ==
    \A c \in Holders : reg[c] = tail

\* The inductive invariant behind mutual exclusion.
IInv ==
    /\ TypeOK
    /\ TicketsOutstanding
    /\ HolderIsServed

\* A turn, once given, is only passed on by its holder: no step of another
\* core, a TryAcquire that swaps the whole word included, moves tail.
OnlyHolderMovesTail ==
    [][tail' # tail => \E c \in Cores : pc[c] = "releasing" /\ pc'[c] = "idle"]_vars

\* Acquire is starvation-free: every ticket is eventually served.
AcquireTerminates ==
    \A c \in Cores : pc[c] = "waiting" ~> pc[c] = "holding"

-----------------------------------------------------------------------------
(***************************************************************************)
(* The ticket lock implements a first-come first-served lock: those ahead  *)
(* of a core are the ones whose tickets are closer to Tail.                *)
(***************************************************************************)

Ahead ==
    [c \in Cores |->
        {d \in Outstanding : /\ c \in Outstanding
                             /\ Diff(reg[d], tail) < Diff(reg[c], tail)}]

Fifo == INSTANCE FifoLock
            WITH asked <- Outstanding, holding <- Holders, ahead <- Ahead

\* Requests are granted in the order of their fetch_add, and a TryAcquire
\* never overtakes a waiting core.
ImplementsFifoLock == Fifo!Spec
=============================================================================
