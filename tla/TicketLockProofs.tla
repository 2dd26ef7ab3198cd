-------------------------- MODULE TicketLockProofs --------------------------
(***************************************************************************)
(* Mutual exclusion and order of the ticket lock for any number of cores   *)
(* below the number of tickets.  The invariant counts: Head - Tail is the  *)
(* number of cores with a ticket, which stays below 2^16, so that no two   *)
(* of them ever carry the same ticket although tickets are reused.         *)
(*                                                                         *)
(* The lock that disables interrupts, on any number of processors, is      *)
(* still a ticket lock, so that the theorems carry over; no handler waits  *)
(* for the task below it; and no processor is left with its interrupts     *)
(* off.                                                                    *)
(***************************************************************************)
EXTENDS TicketLockUninterruptible, FiniteSetTheorems, TLAPS

\* uint16_t arithmetic on tickets: closure, and how the distance to Tail
\* changes when Head is incremented and when Tail is.
LEMMA TicketArithmetic ==
    /\ 0 \in Tickets
    /\ \A t \in Tickets : Inc(t) \in Tickets
    /\ \A a, b \in Tickets : Diff(a, b) \in Tickets
    /\ \A a, b \in Tickets : Diff(a, b) = 0 <=> a = b
    /\ \A a, b, t \in Tickets : Diff(a, t) = Diff(b, t) => a = b
    /\ \A h, t \in Tickets :
          Diff(h, t) + 1 < TicketCount => Diff(Inc(h), t) = Diff(h, t) + 1
    /\ \A a, t \in Tickets : a # t => Diff(a, Inc(t)) = Diff(a, t) - 1
BY TicketAssumption DEF Tickets, Inc, Diff

\* The cores that hold or await the lock are finitely many, and fewer than the
\* tickets even when one more core asks.
LEMMA OutstandingFinite ==
    /\ IsFiniteSet(Cores)
    /\ IsFiniteSet(Outstanding)
    /\ Cardinality(Outstanding) \in Nat
    /\ \A c \in Cores \ Outstanding :
          Cardinality(Outstanding) + 1 < TicketCount
<1>1. IsFiniteSet(Cores) /\ Cardinality(Cores) < TicketCount /\ TicketCount \in Nat
  BY TicketAssumption, Zenon
<1>2. Outstanding \in SUBSET Cores
  BY Zenon DEF Outstanding
<1>3. IsFiniteSet(Outstanding) /\ Cardinality(Outstanding) \in Nat
  BY <1>1, <1>2, FS_Subset, FS_CardinalityType, Zenon
<1>4. ASSUME NEW c \in Cores \ Outstanding
      PROVE  Cardinality(Outstanding) + 1 < TicketCount
  <2>1. Cardinality(Outstanding \cup {c}) = Cardinality(Outstanding) + 1
    BY <1>3, FS_AddElement, Zenon
  <2>2. Outstanding \cup {c} \in SUBSET Cores
    BY <1>2, Zenon
  <2>3. Cardinality(Outstanding \cup {c}) <= Cardinality(Cores)
    BY <1>1, <2>2, FS_Subset, Zenon
  <2>4. Cardinality(Cores) \in Nat
    BY <1>1, FS_CardinalityType, Zenon
  <2> QED
    BY <1>1, <1>3, <2>1, <2>3, <2>4
<1> QED
  BY <1>1, <1>3, <1>4, Zenon

\* The lock starts free, with no ticket dispensed.
LEMMA InitIInv == Init => IInv
<1> SUFFICES ASSUME Init PROVE IInv
  BY Zenon
<1>1. TypeOK
  BY TicketArithmetic, Zenon DEF Init, TypeOK
<1>2. Outstanding = {} /\ Holders = {}
  BY Zenon DEF Init, Outstanding, Holders
<1>3. Diff(head, tail) = 0
  BY DEF Init, Diff
<1> QED
  BY <1>1, <1>2, <1>3, FS_EmptySet, Zenon DEF IInv, TicketsOutstanding, HolderIsServed

\* Acquire's fetch_add: the new ticket is beyond all the outstanding ones.
LEMMA AcquireTicketIInv ==
    ASSUME IInv, NEW c \in Cores, AcquireTicket(c)
    PROVE  IInv'
<1> USE DEF IInv
<1>1. TypeOK'
  BY TicketArithmetic, Zenon DEF TypeOK, AcquireTicket
<1>2. c \notin Outstanding /\ Outstanding' = Outstanding \cup {c} /\ Holders' = Holders
  BY Zenon DEF TypeOK, AcquireTicket, Outstanding, Holders
<1>3. Diff(head, tail) + 1 < TicketCount
  BY <1>2, OutstandingFinite, Zenon DEF TicketsOutstanding
<1>4. Diff(head', tail') = Diff(head, tail) + 1 /\ Diff(head, tail) \in Nat
  BY <1>3, TicketArithmetic, TicketAssumption DEF TypeOK, AcquireTicket, Tickets
<1>5. Cardinality(Outstanding') = Diff(head', tail')
  BY <1>2, <1>4, OutstandingFinite, FS_AddElement, Zenon DEF TicketsOutstanding
<1>6. ASSUME NEW d \in Outstanding'
      PROVE  Diff(reg'[d], tail') < Diff(head', tail')
  <2>1. CASE d = c
    BY <2>1, <1>4 DEF TypeOK, AcquireTicket
  <2>2. CASE d # c
    <3>1. d \in Outstanding /\ reg'[d] = reg[d] /\ tail' = tail
      BY <2>2, <1>2 DEF TypeOK, AcquireTicket
    <3>2. Diff(reg[d], tail) < Diff(head, tail) /\ Diff(reg[d], tail) \in Tickets
      BY <3>1, TicketArithmetic, Zenon DEF TicketsOutstanding, TypeOK, Outstanding
    <3> QED
      BY <3>1, <3>2, <1>4, TicketAssumption DEF Tickets
  <2> QED
    BY <2>1, <2>2, Zenon
<1>7. ASSUME NEW d \in Outstanding
      PROVE  reg[d] # head
  BY TicketAssumption DEF TicketsOutstanding, TypeOK, Outstanding, Diff, Tickets
<1>8. ASSUME NEW d \in Outstanding', NEW e \in Outstanding', reg'[d] = reg'[e]
      PROVE  d = e
  BY <1>2, <1>7, <1>8, Zenon DEF TicketsOutstanding, TypeOK, AcquireTicket, Outstanding
<1>9. HolderIsServed'
  BY <1>2, Zenon DEF HolderIsServed, TypeOK, AcquireTicket, Holders
<1> QED
  BY <1>1, <1>5, <1>6, <1>8, <1>9, Zenon DEF TicketsOutstanding

\* The end of Acquire's spin: the core is served, the outstanding set is kept.
LEMMA AcquireSpinIInv ==
    ASSUME IInv, NEW c \in Cores, AcquireSpin(c)
    PROVE  IInv'
<1> USE DEF IInv
<1>1. TypeOK'
  BY Zenon DEF TypeOK, AcquireSpin
<1>2. Outstanding' = Outstanding /\ Holders' = Holders \cup {c}
  BY Zenon DEF TypeOK, AcquireSpin, Outstanding, Holders
<1>3. reg[c] = tail
  BY TicketArithmetic, Zenon DEF TypeOK, AcquireSpin
<1>4. TicketsOutstanding'
  BY <1>2, Zenon DEF TicketsOutstanding, AcquireSpin
<1>5. HolderIsServed'
  BY <1>2, <1>3, Zenon DEF HolderIsServed, AcquireSpin
<1> QED
  BY <1>1, <1>4, <1>5, Zenon

\* TryAcquire's compare-and-swap: Head = Tail means that nobody is outstanding.
LEMMA TryAcquireCasIInv ==
    ASSUME IInv, NEW c \in Cores, TryAcquireCas(c)
    PROVE  IInv'
<1> USE DEF IInv
<1>1. CASE tail = reg[c] /\ head = reg[c]
  <2>1. TypeOK'
    <3>1. /\ pc' = [pc EXCEPT ![c] = "holding"]
          /\ head' = Inc(head) /\ tail' = tail /\ reg' = reg
      BY <1>1, Zenon DEF TryAcquireCas
    <3>2. Inc(head) \in Tickets
      BY TicketArithmetic, Zenon DEF TypeOK
    <3> QED
      BY <3>1, <3>2, Zenon DEF TypeOK
  <2>2. Diff(head, tail) = 0
    BY <1>1, TicketArithmetic, Zenon DEF TypeOK
  <2>3. Outstanding = {}
    BY <2>2, OutstandingFinite, FS_EmptySet, Zenon DEF TicketsOutstanding
  <2>4. Outstanding' = {c} /\ Holders' = {c}
    <3>1. /\ pc' = [pc EXCEPT ![c] = "holding"]
          /\ head' = Inc(reg[c]) /\ tail' = tail /\ reg' = reg
      BY <1>1, Zenon DEF TryAcquireCas
    <3> QED
      BY <3>1, <2>3, Zenon DEF TypeOK, Outstanding, Holders
  <2>5. head' = Inc(head) /\ tail' = tail /\ reg' = reg
    BY <1>1, Zenon DEF TryAcquireCas
  <2>6. 1 < TicketCount
    <3>1. c \in Cores \ Outstanding
      BY <2>3, Zenon
    <3>2. Cardinality(Outstanding) + 1 < TicketCount /\ Cardinality(Outstanding) \in Nat
      BY <3>1, OutstandingFinite, Zenon
    <3> QED
      BY <3>2, TicketAssumption
  <2>7. Diff(head', tail') = 1
    <3>0. Diff(head, tail) + 1 < TicketCount
      BY <2>2, <2>6
    <3>1. Diff(Inc(head), tail) = Diff(head, tail) + 1
      BY <3>0, TicketArithmetic, Zenon DEF TypeOK
    <3> QED
      BY <2>2, <2>5, <3>1
  <2>8. Cardinality(Outstanding') = 1
    BY <2>4, FS_Singleton, Zenon
  <2>9. Diff(reg'[c], tail') = 0
    BY <1>1, <2>2, <2>5, Zenon
  <2>10. TicketsOutstanding'
    BY <2>4, <2>7, <2>8, <2>9 DEF TicketsOutstanding
  <2>11. HolderIsServed'
    BY <1>1, <2>4, <2>5, Zenon DEF HolderIsServed
  <2> QED
    BY <2>1, <2>10, <2>11, Zenon
<1>2. CASE ~(tail = reg[c] /\ head = reg[c])
  <2>1. /\ pc[c] = "trying" /\ pc' = [pc EXCEPT ![c] = "idle"]
        /\ reg' = [reg EXCEPT ![c] = 0]
        /\ UNCHANGED <<tail, head>>
    BY <1>2, Zenon DEF TryAcquireCas
  <2>2. TypeOK'
    BY <2>1, TicketAssumption DEF TypeOK, Tickets
  <2>3. Outstanding' = Outstanding /\ Holders' = Holders /\ Holders \subseteq Outstanding
    BY <2>1, Zenon DEF TypeOK, Outstanding, Holders
  <2>4. \A d \in Outstanding : reg'[d] = reg[d]
    BY <2>1, Zenon DEF TypeOK, Outstanding
  <2> QED
    BY <2>1, <2>2, <2>3, <2>4 DEF TicketsOutstanding, HolderIsServed
<1> QED
  BY <1>1, <1>2, Zenon

\* The store of Release: the served ticket leaves, and the distance of every
\* other one to Tail shrinks by one.
LEMMA ReleaseStoreIInv ==
    ASSUME IInv, NEW c \in Cores, ReleaseStore(c)
    PROVE  IInv'
<1> USE DEF IInv
<1>1. TypeOK'
  BY TicketArithmetic, TicketAssumption, Zenon DEF TypeOK, ReleaseStore, Tickets
<1>2. /\ c \in Outstanding /\ c \in Holders /\ Outstanding' = Outstanding \ {c}
      /\ Holders' = Holders \ {c}
  BY Zenon DEF TypeOK, ReleaseStore, Outstanding, Holders
<1>3. /\ reg[c] = tail /\ tail' = Inc(tail) /\ head' = head
      /\ \A d \in Outstanding' : reg'[d] = reg[d]
  BY <1>2, Zenon DEF HolderIsServed, ReleaseStore, TypeOK, Outstanding
<1>4. ASSUME NEW d \in Outstanding, d # c
      PROVE  reg[d] # tail /\ reg[d] \in Tickets
  BY <1>2, <1>3, <1>4, Zenon DEF TicketsOutstanding, TypeOK, Outstanding
<1>5. head # tail
  <2>1. Diff(reg[c], tail) < Diff(head, tail) /\ Diff(reg[c], tail) = 0
    BY <1>2, <1>3, TicketArithmetic, Zenon DEF TicketsOutstanding, TypeOK
  <2> QED
    BY <2>1, TicketArithmetic DEF TypeOK
<1>6. Diff(head', tail') = Diff(head, tail) - 1
  BY <1>3, <1>5, TicketArithmetic, Zenon DEF TypeOK
<1>7. Cardinality(Outstanding') = Diff(head', tail')
  BY <1>2, <1>6, OutstandingFinite, FS_RemoveElement, Zenon DEF TicketsOutstanding
<1>8. ASSUME NEW d \in Outstanding'
      PROVE  Diff(reg'[d], tail') < Diff(head', tail')
  <2>1. d \in Outstanding /\ d # c
    BY <1>2, Zenon
  <2>2. Diff(reg'[d], tail') = Diff(reg[d], tail) - 1
    <3>1. reg'[d] = reg[d] /\ tail' = Inc(tail)
      BY <1>3, Zenon
    <3>2. Diff(reg[d], Inc(tail)) = Diff(reg[d], tail) - 1
      BY <1>4, <2>1, TicketArithmetic, Zenon DEF TypeOK
    <3> QED
      BY <3>1, <3>2, Zenon
  <2>3. Diff(reg[d], tail) < Diff(head, tail)
    BY <2>1, Zenon DEF TicketsOutstanding
  <2>4. Diff(reg[d], tail) \in Tickets /\ Diff(head, tail) \in Tickets
    BY <2>1, <1>4, TicketArithmetic, Zenon DEF TypeOK
  <2> QED
    BY <1>6, <2>2, <2>3, <2>4, TicketAssumption DEF Tickets
<1>9. HolderIsServed'
  <2> SUFFICES ASSUME NEW d \in Holders' PROVE FALSE
    BY Zenon DEF HolderIsServed
  <2>1. d \in Holders /\ d # c /\ d \in Outstanding
    BY <1>2, Zenon DEF Holders, Outstanding
  <2> QED
    BY <2>1, <1>4, Zenon DEF HolderIsServed
<1> QED
  BY <1>1, <1>2, <1>3, <1>7, <1>8, <1>9, Zenon DEF TicketsOutstanding

\* The remaining steps leave Head, Tail and the outstanding tickets alone.
LEMMA OtherStepsIInv ==
    ASSUME IInv, NEW c \in Cores,
           \/ TryAcquireLoad(c) \/ ReleaseLoad(c)
           \/ AwaitStart(c) \/ AwaitEnd(c)
    PROVE  IInv'
<1> USE DEF IInv
<1>1. CASE TryAcquireLoad(c)
  <2>1. TypeOK' /\ Outstanding' = Outstanding /\ Holders' = Holders
    BY <1>1, Zenon DEF TypeOK, TryAcquireLoad, Outstanding, Holders
  <2>2. \A d \in Outstanding : reg'[d] = reg[d]
    BY <1>1, Zenon DEF TypeOK, TryAcquireLoad, Outstanding
  <2>3. Holders \subseteq Outstanding
    BY Zenon DEF Holders, Outstanding
  <2> QED
    BY <1>1, <2>1, <2>2, <2>3 DEF TryAcquireLoad, TicketsOutstanding, HolderIsServed
<1>2. CASE ReleaseLoad(c)
  <2>1. TypeOK' /\ Outstanding' = Outstanding /\ Holders' = Holders /\ c \in Holders
    BY <1>2, Zenon DEF TypeOK, ReleaseLoad, Outstanding, Holders
  <2>2. reg' = reg
    BY <1>2, <2>1, Zenon DEF TypeOK, ReleaseLoad, HolderIsServed
  <2> QED
    BY <1>2, <2>1, <2>2 DEF ReleaseLoad, TicketsOutstanding, HolderIsServed
<1>3. CASE AwaitStart(c) \/ AwaitEnd(c)
  <2>1. TypeOK' /\ Outstanding' = Outstanding /\ Holders' = Holders
    BY <1>3, Zenon DEF TypeOK, AwaitStart, AwaitEnd, Outstanding, Holders
  <2> QED
    BY <1>3, <2>1, Zenon DEF AwaitStart, AwaitEnd, TicketsOutstanding, HolderIsServed
<1> QED
  BY <1>1, <1>2, <1>3, Zenon

\* Every step of every operation preserves the inductive invariant.
LEMMA NextIInv == IInv /\ [Next]_vars => IInv'
<1> SUFFICES ASSUME IInv, [Next]_vars PROVE IInv'
  BY Zenon
<1>1. CASE UNCHANGED vars
  BY <1>1, Zenon DEF vars, IInv, TypeOK, TicketsOutstanding, HolderIsServed, Outstanding, Holders
<1>2. ASSUME NEW c \in Cores, Operation(c)
      PROVE  IInv'
  BY <1>2, AcquireTicketIInv, AcquireSpinIInv, TryAcquireCasIInv,
     ReleaseStoreIInv, OtherStepsIInv, Zenon DEF Operation
<1> QED
  BY <1>1, <1>2, Zenon DEF Next

\* All the states of the ticket lock are well typed and satisfy the invariant.
THEOREM TicketLockInvariant == Spec => []IInv
BY InitIInv, NextIInv, PTL DEF Spec

\* Acquire and TryAcquire admit one core at a time, for every number of cores
\* below the number of tickets.
THEOREM TicketLockMutualExclusion == Spec => []MutualExclusion
<1>1. IInv => MutualExclusion
  BY Zenon DEF IInv, MutualExclusion, TicketsOutstanding, HolderIsServed, Holders, Outstanding
<1> QED
  BY <1>1, TicketLockInvariant, PTL

\* Tail moves only when the core that was served stores it in Release.
THEOREM TicketLockOnlyHolderMovesTail == Spec => OnlyHolderMovesTail
<1>1. IInv /\ [Next]_vars =>
        [tail' # tail => \E c \in Cores : pc[c] = "releasing" /\ pc'[c] = "idle"]_vars
  BY Zenon DEF IInv, TypeOK, vars, Next, Operation, AcquireTicket, AcquireSpin, TryAcquireLoad,
     TryAcquireCas, ReleaseLoad, ReleaseStore, AwaitStart, AwaitEnd
<1> QED
  BY <1>1, TicketLockInvariant, PTL DEF Spec, OnlyHolderMovesTail

-----------------------------------------------------------------------------
(* The lock is also first come, first served: every step is a step of      *)
(* FifoLock, or invisible to it, when those ahead of a core are the ones   *)
(* whose tickets are closer to Tail.                                       *)

\* Who asked before whom is decided by the distance of their tickets to Tail.
LEMMA AheadOf ==
    \A c \in Cores :
        /\ c \notin Outstanding => Ahead[c] = {}
        /\ c \in Outstanding =>
              Ahead[c] = {d \in Outstanding : Diff(reg[d], tail) < Diff(reg[c], tail)}
BY Zenon DEF Ahead

\* Distances to Tail are natural numbers, and those of tickets that were drawn
\* are below that of Head.
LEMMA Distances ==
    ASSUME IInv
    PROVE  /\ Diff(head, tail) \in Nat
           /\ \A c \in Cores : Diff(reg[c], tail) \in Nat
           /\ \A c \in Outstanding : c \in Cores /\ Diff(reg[c], tail) < Diff(head, tail)
<1>1. Tickets \subseteq Nat
  BY TicketAssumption DEF Tickets
<1>2. head \in Tickets /\ tail \in Tickets /\ \A c \in Cores : reg[c] \in Tickets
  BY Zenon DEF IInv, TypeOK
<1>3. Diff(head, tail) \in Nat /\ \A c \in Cores : Diff(reg[c], tail) \in Nat
  BY <1>1, <1>2, TicketArithmetic, Zenon
<1> QED
  BY <1>3, Zenon DEF IInv, TicketsOutstanding, Outstanding

\* A ticket drawn from Head is behind all the outstanding ones.
LEMMA AcquireTicketAsks ==
    ASSUME IInv, NEW c \in Cores, AcquireTicket(c)
    PROVE  Fifo!Ask(c)
<1> USE DEF IInv
<1>1. /\ c \notin Outstanding /\ Outstanding' = Outstanding \cup {c} /\ Holders' = Holders
  BY Zenon DEF TypeOK, AcquireTicket, Outstanding, Holders
<1>2. /\ tail' = tail /\ reg'[c] = head
      /\ \A d \in Outstanding : reg'[d] = reg[d]
  BY <1>1, Zenon DEF TypeOK, AcquireTicket, Outstanding
<1>3. \A d \in Outstanding : /\ Diff(reg[d], tail) < Diff(head, tail)
                             /\ Diff(reg[d], tail) \in Nat
  BY Distances, Zenon
<1>4. Diff(head, tail) \in Nat
  BY Distances, Zenon
<1>5. Ahead'[c] = Outstanding
  <2>1. Ahead'[c] = {d \in Outstanding' : Diff(reg'[d], tail) < Diff(head, tail)}
    BY <1>1, <1>2, Zenon DEF Ahead, Diff
  <2> QED
    BY <1>1, <1>2, <1>3, <1>4, <2>1
<1>6. ASSUME NEW e \in Cores, e # c PROVE Ahead'[e] = Ahead[e]
  <2>1. CASE e \notin Outstanding
    BY <1>1, <1>6, <2>1, Zenon DEF Ahead
  <2>2. CASE e \in Outstanding
    <3>1. Ahead'[e] = {d \in Outstanding' : Diff(reg'[d], tail) < Diff(reg[e], tail)}
      BY <1>1, <1>2, <2>2, Zenon DEF Ahead, Diff
    <3>2. ~(Diff(head, tail) < Diff(reg[e], tail))
      BY <1>3, <1>4, <2>2
    <3> QED
      BY <1>1, <1>2, <2>2, <3>1, <3>2, AheadOf, Zenon
  <2> QED
    BY <2>1, <2>2, Zenon
<1>7. Ahead' = [Ahead EXCEPT ![c] = Outstanding]
  BY <1>5, <1>6, Zenon DEF Ahead
<1> QED
  BY <1>1, <1>7, Zenon DEF Fifo!Ask

\* The core whose ticket is Tail has nobody ahead.
LEMMA AcquireSpinEnters ==
    ASSUME IInv, NEW c \in Cores, AcquireSpin(c)
    PROVE  Fifo!Enter(c)
<1> USE DEF IInv
<1>1. /\ Outstanding' = Outstanding /\ c \in Outstanding
      /\ c \notin Holders /\ Holders' = Holders \cup {c}
  BY Zenon DEF TypeOK, AcquireSpin, Outstanding, Holders
<1>2. Ahead' = Ahead
  BY <1>1, Zenon DEF AcquireSpin, Ahead, Diff
<1>3. \A d \in Outstanding : ~(Diff(reg[d], tail) < 0)
  BY Distances
<1>4. Ahead[c] = {}
  BY <1>1, <1>3, AheadOf, Zenon DEF AcquireSpin
<1> QED
  BY <1>1, <1>2, <1>4, Zenon DEF Fifo!Enter

\* A TryAcquire succeeds only when nobody holds or awaits the lock, and a failed
\* one changes nothing.
LEMMA TryAcquireCasEntersAtOnce ==
    ASSUME IInv, NEW c \in Cores, TryAcquireCas(c)
    PROVE  Fifo!EnterAtOnce(c) \/ UNCHANGED <<Outstanding, Holders, Ahead>>
<1> USE DEF IInv
<1>1. CASE tail = reg[c] /\ head = reg[c]
  <2>1. Diff(head, tail) = 0
    BY <1>1, TicketArithmetic, Zenon DEF TypeOK
  <2>2. Outstanding = {}
    BY <2>1, OutstandingFinite, FS_EmptySet, Zenon DEF TicketsOutstanding
  <2>3. pc' = [pc EXCEPT ![c] = "holding"] /\ tail' = tail /\ reg' = reg
    BY <1>1, Zenon DEF TryAcquireCas
  <2>4. Outstanding' = {c} /\ Holders' = {c}
    BY <2>2, <2>3, Zenon DEF TypeOK, Outstanding, Holders
  <2>5. ~(Diff(reg[c], tail) < Diff(reg[c], tail))
    BY Distances
  <2>6. \A e \in Cores : Ahead[e] = {} /\ Ahead'[e] = {}
    BY <2>2, <2>3, <2>4, <2>5, Zenon DEF Ahead, Diff
  <2>7. Ahead' = Ahead
    BY <2>6, Zenon DEF Ahead
  <2> QED
    BY <2>2, <2>4, <2>7, Zenon DEF Fifo!EnterAtOnce
<1>2. CASE ~(tail = reg[c] /\ head = reg[c])
  <2>1. /\ pc[c] = "trying" /\ pc' = [pc EXCEPT ![c] = "idle"] /\ tail' = tail
        /\ reg' = [reg EXCEPT ![c] = 0]
    BY <1>2, Zenon DEF TryAcquireCas
  <2>2. Outstanding' = Outstanding /\ Holders' = Holders /\ c \notin Outstanding
    BY <2>1, Zenon DEF TypeOK, Outstanding, Holders
  <2>3. \A d \in Outstanding : reg'[d] = reg[d]
    BY <2>1, <2>2, Zenon DEF TypeOK, Outstanding
  <2>4. Ahead' = Ahead
    BY <2>1, <2>2, <2>3 DEF Ahead, Diff
  <2> QED
    BY <2>2, <2>4, Zenon
<1> QED
  BY <1>1, <1>2, Zenon

\* When Tail moves on, everybody else is one ticket closer and in the same order.
LEMMA ReleaseStoreLeaves ==
    ASSUME IInv, NEW c \in Cores, ReleaseStore(c)
    PROVE  Fifo!Leave(c)
<1> USE DEF IInv
<1>1. /\ pc[c] = "releasing" /\ pc' = [pc EXCEPT ![c] = "idle"]
      /\ reg' = [reg EXCEPT ![c] = 0] /\ c \in Holders /\ c \in Outstanding
  BY Zenon DEF ReleaseStore, Holders, Outstanding
<1>2. Outstanding' = Outstanding \ {c} /\ Holders' = Holders \ {c}
  BY <1>1, Zenon DEF TypeOK, Outstanding, Holders
<1>3. reg[c] = tail /\ tail' = Inc(tail)
  BY <1>1, Zenon DEF HolderIsServed, ReleaseStore
<1>4. ASSUME NEW d \in Outstanding, d # c
      PROVE  /\ reg'[d] = reg[d] /\ Diff(reg'[d], tail') = Diff(reg[d], tail) - 1
             /\ Diff(reg[d], tail) \in Nat
  <2>1. reg'[d] = reg[d] /\ reg[d] # tail /\ reg[d] \in Tickets /\ tail \in Tickets
    BY <1>1, <1>3, <1>4, Zenon DEF TypeOK, Outstanding, TicketsOutstanding
  <2>2. Diff(reg[d], Inc(tail)) = Diff(reg[d], tail) - 1
    BY <2>1, TicketArithmetic, Zenon
  <2> QED
    BY <1>3, <1>4, <2>1, <2>2, Distances, Zenon
<1>5. ASSUME NEW e \in Cores PROVE Ahead'[e] = Ahead[e] \ {c}
  <2>1. CASE e \notin Outstanding
    BY <1>2, <2>1, Zenon DEF Ahead
  <2>2. CASE e = c
    <3>1. Diff(reg[c], tail) = 0
      BY <1>3, TicketArithmetic, Zenon DEF TypeOK
    <3>2. Ahead[c] = {}
      BY <1>1, <3>1, AheadOf, Distances
    <3>3. Ahead'[c] = {}
      BY <1>2, Zenon DEF Ahead
    <3> QED
      BY <2>2, <3>2, <3>3, Zenon
  <2>3. CASE e \in Outstanding /\ e # c
    <3>1. Ahead'[e] = {d \in Outstanding \ {c} : Diff(reg'[d], tail') < Diff(reg'[e], tail')}
      BY <1>2, <2>3, Zenon DEF Ahead, Diff
    <3>2. \A d \in Outstanding \ {c} : (Diff(reg'[d], tail') < Diff(reg'[e], tail'))
                                       <=> (Diff(reg[d], tail) < Diff(reg[e], tail))
      BY <1>4, <2>3
    <3> QED
      BY <2>3, <3>1, <3>2, AheadOf, Zenon
  <2> QED
    BY <2>1, <2>2, <2>3, Zenon
<1>6. Ahead' = [d \in Cores |-> Ahead[d] \ {c}]
  BY <1>5, Zenon DEF Ahead
<1> QED
  BY <1>1, <1>2, <1>6, Zenon DEF Fifo!Leave

\* Loads, and waiting without a ticket, are invisible.
LEMMA OtherStepsInvisible ==
    ASSUME IInv, NEW c \in Cores,
           TryAcquireLoad(c) \/ ReleaseLoad(c) \/ AwaitStart(c) \/ AwaitEnd(c)
    PROVE  UNCHANGED <<Outstanding, Holders, Ahead>>
<1> USE DEF IInv
<1>1. Outstanding' = Outstanding /\ Holders' = Holders /\ tail' = tail
  BY Zenon DEF TypeOK, TryAcquireLoad, ReleaseLoad, AwaitStart, AwaitEnd, Outstanding, Holders
<1>2. ASSUME NEW d \in Outstanding PROVE reg'[d] = reg[d]
  BY Zenon DEF TypeOK, TryAcquireLoad, ReleaseLoad, AwaitStart, AwaitEnd, Outstanding, Holders,
     HolderIsServed
<1>3. Ahead' = Ahead
  BY <1>1, <1>2, Zenon DEF Ahead, Diff
<1> QED
  BY <1>1, <1>3, Zenon

\* Requests are granted in the order of their fetch_add, and a TryAcquire never
\* overtakes a waiting core: the ticket lock implements the first-come
\* first-served lock.
THEOREM TicketLockIsFifoLock == Spec => ImplementsFifoLock
<1>1. Init => Fifo!Init
  <2> SUFFICES ASSUME Init PROVE Fifo!Init
    BY Zenon
  <2>1. Outstanding = {} /\ Holders = {}
    BY Zenon DEF Init, Outstanding, Holders
  <2> QED
    BY <2>1, Zenon DEF Fifo!Init, Ahead
<1>2. IInv /\ [Next]_vars => [Fifo!Next]_Fifo!vars
  <2> SUFFICES ASSUME IInv, [Next]_vars PROVE [Fifo!Next]_Fifo!vars
    BY Zenon
  <2>1. CASE UNCHANGED vars
    BY <2>1, Zenon DEF vars, Fifo!vars, Outstanding, Holders, Ahead, Diff
  <2>2. ASSUME NEW c \in Cores, Operation(c)
        PROVE  [Fifo!Next]_Fifo!vars
    BY <2>2, AcquireTicketAsks, AcquireSpinEnters, TryAcquireCasEntersAtOnce,
       ReleaseStoreLeaves, OtherStepsInvisible, Zenon DEF Operation, Fifo!Next, Fifo!vars
  <2> QED
    BY <2>1, <2>2, Zenon DEF Next
<1> QED
  BY <1>1, <1>2, TicketLockInvariant, PTL DEF Spec, ImplementsFifoLock, Fifo!Spec

-----------------------------------------------------------------------------
(* The uninterruptible lock. *)
\* The contexts are a task and a handler for each processor.
LEMMA Contexts ==
    /\ \A c \in Cpus : /\ Task(c) \in Cores /\ Task(c)[1] = c /\ Task(c)[2] = "task"
                       /\ Irq(c) \in Cores /\ Irq(c)[1] = c /\ Irq(c)[2] = "irq"
                       /\ Task(c) # Irq(c)
    /\ \A x \in Cores : /\ x[1] \in Cpus
                        /\ x = Task(x[1]) \/ x = Irq(x[1])
    /\ \A c, d \in Cpus : c # d => /\ Task(c) # Task(d) /\ Irq(c) # Irq(d)
                                   /\ Task(c) # Irq(d)
BY ContextAssumption DEF Task, Irq

\* The word of the lock changes by the steps of the ticket lock only.
LEMMA UNextIsNext == [UNext]_uvars => [Next]_vars
<1> SUFFICES ASSUME [UNext]_uvars PROVE [Next]_vars
  BY Zenon
<1>1. CASE UNCHANGED uvars
  BY <1>1, Zenon DEF uvars
<1>2. ASSUME NEW c \in Cpus, InterruptEnter(c) \/ InterruptExit(c)
      PROVE  [Next]_vars
  BY <1>2, Zenon DEF InterruptEnter, InterruptExit
<1>3. ASSUME NEW x \in Cores,
             GuardEnter(x) \/ GuardLeave(x) \/ Disable(x, "acquire") \/ Disable(x, "try")
             \/ Restore(x)
      PROVE  [Next]_vars
  BY <1>3, Zenon DEF GuardEnter, GuardLeave, Disable, Restore
<1>4. ASSUME NEW x \in Cores,
             SimplyAcquireTicket(x) \/ UAwait(x) \/ UAcquireTicket(x) \/ UAcquireSpin(x)
             \/ UTryAcquireLoad(x) \/ UTryAcquireCas(x) \/ SimplyAcquireSpin(x)
             \/ UReleaseLoad(x) \/ UReleaseStore(x)
      PROVE  [Next]_vars
  BY <1>4, Zenon DEF SimplyAcquireTicket, UAwait, UAcquireTicket, UAcquireSpin, UTryAcquireLoad,
     UTryAcquireCas, SimplyAcquireSpin, UReleaseLoad, UReleaseStore, Next, Operation
<1> QED
  BY <1>1, <1>2, <1>3, <1>4, Zenon DEF UNext, Continue

\* The uninterruptible lock implements the ticket lock: disabling and restoring
\* interrupts around its operations never touches the word.
THEOREM UninterruptibleIsTicketLock == USpec => Spec
<1>1. UInit => Init
  BY Zenon DEF UInit
<1> QED
  BY <1>1, UNextIsNext, PTL DEF USpec, Spec

\* One context at a time, be it a task or a handler, is inside the lock.
THEOREM UninterruptibleMutualExclusion == USpec => []MutualExclusion
BY UninterruptibleIsTicketLock, TicketLockMutualExclusion, PTL

\* Tasks and handlers of all processors are admitted in the order they asked.
THEOREM UninterruptibleIsFifoLock == USpec => ImplementsFifoLock
BY UninterruptibleIsTicketLock, TicketLockIsFifoLock, PTL

-----------------------------------------------------------------------------

\* At the start tasks run with interrupts on, and nobody uses the lock.
LEMMA UInitUIInv == UInit => UIInv
<1> SUFFICES ASSUME UInit PROVE UIInv
  BY Zenon
<1>1. TypeOK
  BY InitIInv, Zenon DEF UInit, IInv
<1>2. UTypeOK
  BY <1>1, Zenon DEF UInit, UTypeOK
<1>3. StagesAgree
  BY Zenon DEF UInit, Init, StagesAgree
<1>4. ASSUME NEW c \in Cpus PROVE TaskFlag(c) /\ HandlerFlag(c)
  BY Contexts, Zenon DEF UInit, TaskFlag, HandlerFlag
<1> QED
  BY <1>2, <1>3, <1>4, Zenon DEF UIInv

\* The flags of a processor are not disturbed by what another one does.
LEMMA OtherProcessor ==
    ASSUME UIInv, NEW x \in Cores, NEW d \in Cpus, d # x[1],
           IF_'[d] = IF_[d],
           \A y \in Cores : y # x =>
               at'[y] = at[y] /\ cookie'[y] = cookie[y] /\ guard'[y] = guard[y]
    PROVE  TaskFlag(d)' /\ HandlerFlag(d)'
<1>1. Task(d) # x /\ Irq(d) # x /\ Task(d) \in Cores /\ Irq(d) \in Cores
  BY Contexts, Zenon
<1>2. TaskFlag(d) /\ HandlerFlag(d)
  BY Zenon DEF UIInv
<1> QED
  BY <1>1, <1>2, Zenon DEF TaskFlag, HandlerFlag

\* A step that leaves the word of the lock alone and moves one context, which is
\* outside of the lock's operations, to a stage where it may be so.
LEMMA FlagStepStages ==
    ASSUME UIInv, NEW x \in Cores, UNCHANGED vars, pc[x] = "idle",
           at'[x] \in {"none", "out", "acquire", "try", "restore"},
           \A y \in Cores : y # x => at'[y] = at[y]
    PROVE  TypeOK' /\ StagesAgree'
<1>1. TypeOK'
  BY Zenon DEF UIInv, UTypeOK, TypeOK, vars
<1>2. pc' = pc
  BY Zenon DEF vars
<1>3. ASSUME NEW y \in Cores, y # x
      PROVE  at'[y] = at[y] /\ pc'[y] = pc[y]
  BY <1>2, <1>3, Zenon
<1> QED
  BY <1>1, <1>2, <1>3, Zenon DEF StagesAgree, UIInv

\* The interrupt gate and iret.
LEMMA InterruptUIInv ==
    ASSUME UIInv, NEW c \in Cpus, InterruptEnter(c) \/ InterruptExit(c)
    PROVE  UIInv'
<1> USE DEF UIInv
<1> DEFINE h == Irq(c)
<1>1. h \in Cores /\ h[1] = c /\ h[2] = "irq" /\ Task(c) \in Cores /\ Task(c) # h
  BY Contexts, Zenon
<1>2. /\ \A y \in Cores : y # h =>
            at'[y] = at[y] /\ cookie'[y] = cookie[y] /\ guard'[y] = guard[y]
      /\ \A d \in Cpus : d # c => IF_'[d] = IF_[d]
      /\ UNCHANGED vars /\ cookie' = cookie /\ guard' = guard
  BY Zenon DEF UTypeOK, InterruptEnter, InterruptExit
<1>3. /\ IF_' \in [Cpus -> BOOLEAN]
      /\ at' \in [Cores -> {"none", "out", "acquire", "try", "inside", "simply", "restore"}]
  BY <1>1, Zenon DEF UTypeOK, InterruptEnter, InterruptExit
<1>4. pc[h] = "idle" /\ at'[h] \in {"none", "out"}
  BY <1>1 DEF UTypeOK, StagesAgree, InterruptEnter, InterruptExit, Free
<1>5. TypeOK' /\ StagesAgree'
  BY <1>1, <1>2, <1>4, FlagStepStages, Zenon
<1>6. TaskFlag(c) /\ HandlerFlag(c)
  BY Zenon
<1>7. TaskFlag(c)' /\ HandlerFlag(c)'
  <2>1. CASE InterruptEnter(c)
    <3>1. IF_[c] /\ at[h] = "none" /\ at'[h] = "out" /\ ~IF_'[c]
      BY <1>1, <2>1, Zenon DEF UTypeOK, InterruptEnter
    <3> QED
      BY <1>1, <1>2, <1>6, <3>1, Zenon DEF TaskFlag, HandlerFlag
  <2>2. CASE InterruptExit(c)
    <3>1. at[h] = "out" /\ guard[h] = "none" /\ at'[h] = "none" /\ IF_'[c]
      BY <1>1, <2>2, Zenon DEF UTypeOK, InterruptExit, Free
    <3> QED
      BY <1>1, <1>2, <1>6, <3>1, Zenon DEF TaskFlag, HandlerFlag
  <2> QED
    BY <2>1, <2>2, Zenon
<1>8. ASSUME NEW d \in Cpus PROVE TaskFlag(d)' /\ HandlerFlag(d)'
  BY <1>1, <1>2, <1>7, OtherProcessor, Zenon
<1> QED
  BY <1>2, <1>3, <1>5, <1>8, Zenon DEF UTypeOK

\* What the steps on the flag do to the context that takes them.
LEMMA FlagStepEffect ==
    ASSUME UTypeOK, NEW x \in Cores
    PROVE  /\ GuardEnter(x) =>
                /\ at[x] = "out" /\ guard[x] = "none" /\ at'[x] = at[x] /\ cookie'[x] = cookie[x]
                /\ IF_[x[1]] => guard'[x] = "on"
                /\ ~IF_[x[1]] => guard'[x] = "off"
                /\ ~IF_'[x[1]]
           /\ GuardLeave(x) =>
                /\ at[x] = "out" /\ guard[x] # "none" /\ at'[x] = at[x] /\ cookie'[x] = cookie[x]
                /\ guard'[x] = "none"
                /\ IF_'[x[1]] <=> guard[x] = "on"
           /\ Disable(x, "acquire") \/ Disable(x, "try") =>
                /\ at[x] = "out" /\ at'[x] \in {"acquire", "try"} /\ guard'[x] = guard[x]
                /\ cookie'[x] <=> IF_[x[1]]
                /\ ~IF_'[x[1]]
           /\ Restore(x) =>
                /\ at[x] = "restore" /\ at'[x] = "out" /\ guard'[x] = guard[x]
                /\ IF_'[x[1]] <=> cookie[x]
                /\ ~cookie'[x]
<1>1. x[1] \in Cpus
  BY Contexts, Zenon
<1>2. GuardEnter(x) =>
        /\ at[x] = "out" /\ guard[x] = "none" /\ at'[x] = at[x] /\ cookie'[x] = cookie[x]
        /\ IF_[x[1]] => guard'[x] = "on"
        /\ ~IF_[x[1]] => guard'[x] = "off"
        /\ ~IF_'[x[1]]
  BY <1>1, Zenon DEF UTypeOK, GuardEnter, Free
<1>3. GuardLeave(x) =>
        /\ at[x] = "out" /\ guard[x] # "none" /\ at'[x] = at[x] /\ cookie'[x] = cookie[x]
        /\ guard'[x] = "none"
        /\ IF_'[x[1]] <=> guard[x] = "on"
  BY <1>1, Zenon DEF UTypeOK, GuardLeave, Free
<1>4. Disable(x, "acquire") \/ Disable(x, "try") =>
        /\ at[x] = "out" /\ at'[x] \in {"acquire", "try"} /\ guard'[x] = guard[x]
        /\ cookie'[x] <=> IF_[x[1]]
        /\ ~IF_'[x[1]]
  BY <1>1, Zenon DEF UTypeOK, Disable, Free
<1>5. Restore(x) =>
        /\ at[x] = "restore" /\ at'[x] = "out" /\ guard'[x] = guard[x]
        /\ IF_'[x[1]] <=> cookie[x]
        /\ ~cookie'[x]
  BY <1>1, Zenon DEF UTypeOK, Restore
<1> QED
  BY <1>2, <1>3, <1>4, <1>5, Zenon

\* Guards, and the beginning and the end of Acquire, TryAcquire and Release.
LEMMA FlagStepsUIInv ==
    ASSUME UIInv, NEW x \in Cores,
           GuardEnter(x) \/ GuardLeave(x) \/ Disable(x, "acquire") \/ Disable(x, "try")
           \/ Restore(x)
    PROVE  UIInv'
<1> USE DEF UIInv
<1> DEFINE c == x[1]
<1>1. c \in Cpus /\ TaskFlag(c) /\ HandlerFlag(c) /\ Runs(x)
  BY Contexts, Zenon DEF GuardEnter, GuardLeave, Disable, Restore, Free
<1>2. /\ \A y \in Cores : y # x =>
            at'[y] = at[y] /\ cookie'[y] = cookie[y] /\ guard'[y] = guard[y]
      /\ \A d \in Cpus : d # c => IF_'[d] = IF_[d]
      /\ UNCHANGED vars
  BY Zenon DEF UTypeOK, GuardEnter, GuardLeave, Disable, Restore
<1>3. /\ IF_' \in [Cpus -> BOOLEAN] /\ cookie' \in [Cores -> BOOLEAN]
      /\ at' \in [Cores -> {"none", "out", "acquire", "try", "inside", "simply", "restore"}]
      /\ guard' \in [Cores -> {"none", "on", "off"}]
  BY <1>1, Zenon DEF UTypeOK, GuardEnter, GuardLeave, Disable, Restore
<1>4. TypeOK' /\ StagesAgree'
  <2>1. pc[x] = "idle" /\ at'[x] \in {"none", "out", "acquire", "try", "restore"}
    BY FlagStepEffect, Zenon DEF UTypeOK, StagesAgree, GuardEnter, GuardLeave, Disable, Restore, Free
  <2> QED
    BY <1>2, <2>1, FlagStepStages, Zenon
<1>5. TaskFlag(c)' /\ HandlerFlag(c)'
  <2>1. CASE x = Task(c)
    <3>1. /\ at[Irq(c)] = "none" /\ at'[Irq(c)] = "none"
          /\ cookie'[Irq(c)] = cookie[Irq(c)] /\ guard'[Irq(c)] = guard[Irq(c)]
      BY <1>1, <1>2, <2>1, Contexts, Zenon DEF Runs
    <3>2. HandlerFlag(c)'
      BY <1>1, <3>1, Zenon DEF HandlerFlag
    <3>3. TaskFlag(c)'
      <4> DEFINE t == Task(c)
      <4>1. /\ at[t] # "none" /\ guard[t] # "off"
            /\ IF_[c] <=> at[t] = "out" /\ guard[t] = "none"
            /\ at[t] \notin {"out", "simply"} => (cookie[t] <=> guard[t] = "none")
        BY <1>1, <3>1, Zenon DEF TaskFlag
      <4>2. CASE GuardEnter(x)
        BY <2>1, <3>1, <4>1, <4>2, FlagStepEffect, Zenon DEF TaskFlag
      <4>3. CASE GuardLeave(x)
        <5>1. guard[t] = "on"
          BY <2>1, <4>1, <4>3, FlagStepEffect, SMTT(40) DEF UTypeOK
        <5> QED
          BY <2>1, <3>1, <4>1, <4>3, <5>1, FlagStepEffect, SMTT(40) DEF TaskFlag
      <4>4. CASE Disable(x, "acquire") \/ Disable(x, "try")
        BY <2>1, <3>1, <4>1, <4>4, FlagStepEffect, Zenon DEF TaskFlag
      <4>5. CASE Restore(x)
        BY <2>1, <3>1, <4>1, <4>5, FlagStepEffect, Zenon DEF TaskFlag
      <4> QED
        BY <4>2, <4>3, <4>4, <4>5, Zenon
    <3> QED
      BY <3>2, <3>3, Zenon
  <2>2. CASE x = Irq(c)
    <3>1. /\ at[x] # "none" /\ at[Task(c)] = "out" /\ guard[Task(c)] = "none"
          /\ at'[Task(c)] = "out" /\ guard'[Task(c)] = "none"
      BY <1>1, <1>2, <2>2, Contexts DEF Runs, HandlerFlag
    <3>2. at'[x] # "none" /\ ~IF_'[c] /\ ~cookie'[x] /\ guard'[x] # "on"
      BY <1>1, <2>2, <3>1, FlagStepEffect, SMTT(40) DEF HandlerFlag
    <3> QED
      BY <2>2, <3>1, <3>2, Zenon DEF TaskFlag, HandlerFlag
  <2> QED
    BY <2>1, <2>2, Contexts, Zenon
<1>6. ASSUME NEW d \in Cpus PROVE TaskFlag(d)' /\ HandlerFlag(d)'
  BY <1>2, <1>5, OtherProcessor, Zenon
<1> QED
  BY <1>3, <1>4, <1>6, Zenon DEF UTypeOK

\* What a step of the running context on the word of the lock does to its stage.
LEMMA LockStepEffect ==
    ASSUME UTypeOK, NEW x \in Cores,
           SimplyAcquireTicket(x) \/ UAwait(x) \/ UAcquireTicket(x) \/ UAcquireSpin(x)
           \/ UTryAcquireLoad(x) \/ UTryAcquireCas(x) \/ SimplyAcquireSpin(x)
           \/ UReleaseLoad(x) \/ UReleaseStore(x)
    PROVE  /\ Runs(x) /\ UNCHANGED <<IF_, cookie, guard>>
           /\ \A y \in Cores : y # x => at'[y] = at[y] /\ pc'[y] = pc[y]
           /\ at' \in [Cores -> {"none", "out", "acquire", "try", "inside", "simply", "restore"}]
           /\ \/ /\ at[x] = "out" /\ at'[x] = "simply" /\ ~IF_[x[1]] /\ pc'[x] = "waiting"
              \/ at[x] = "out" /\ at'[x] = "out" /\ pc'[x] \in {"idle", "awaiting"}
              \/ at[x] = "acquire" /\ at'[x] = "acquire" /\ pc'[x] = "waiting"
              \/ at[x] = "acquire" /\ at'[x] = "inside" /\ pc'[x] = "holding"
              \/ at[x] = "try" /\ at'[x] = "try" /\ pc'[x] = "trying"
              \/ at[x] = "try" /\ at'[x] = "inside" /\ pc'[x] = "holding"
              \/ at[x] = "try" /\ at'[x] = "restore" /\ pc'[x] = "idle"
              \/ at[x] = "simply" /\ at'[x] = "simply" /\ pc'[x] \in {"holding", "releasing"}
              \/ at[x] = "inside" /\ at'[x] = "inside" /\ pc'[x] = "releasing"
              \/ at[x] = "inside" /\ at'[x] = "restore" /\ pc'[x] = "idle"
              \/ at[x] = "simply" /\ at'[x] = "out" /\ pc'[x] = "idle"
<1>1. CASE SimplyAcquireTicket(x)
  BY <1>1, Zenon DEF UTypeOK, TypeOK, SimplyAcquireTicket, AcquireTicket, Free
<1>2. CASE UAwait(x)
  BY <1>2, Zenon DEF UTypeOK, TypeOK, UAwait, AwaitStart, AwaitEnd
<1>3. CASE UAcquireTicket(x) \/ UAcquireSpin(x)
  BY <1>3, Zenon DEF UTypeOK, TypeOK, UAcquireTicket, UAcquireSpin, AcquireTicket, AcquireSpin
<1>4. CASE UTryAcquireLoad(x)
  BY <1>4, Zenon DEF UTypeOK, TypeOK, UTryAcquireLoad, TryAcquireLoad
<1>5. CASE UTryAcquireCas(x)
  BY <1>5, Zenon DEF UTypeOK, TypeOK, UTryAcquireCas, TryAcquireCas
<1>6. CASE SimplyAcquireSpin(x)
  BY <1>6, Zenon DEF UTypeOK, TypeOK, SimplyAcquireSpin, AcquireSpin
<1>7. CASE UReleaseLoad(x)
  BY <1>7, Zenon DEF UTypeOK, TypeOK, UReleaseLoad, ReleaseLoad
<1>8. CASE UReleaseStore(x)
  BY <1>8, Zenon DEF UTypeOK, TypeOK, UReleaseStore, ReleaseStore
<1> QED
  BY <1>1, <1>2, <1>3, <1>4, <1>5, <1>6, <1>7, <1>8, Zenon

\* The operations of the ticket lock, called between Disable and Restore or, by
\* SimplyAcquire, with the flag already clear.
LEMMA LockStepsUIInv ==
    ASSUME UIInv, TypeOK', NEW x \in Cores,
           SimplyAcquireTicket(x) \/ UAwait(x) \/ UAcquireTicket(x) \/ UAcquireSpin(x)
           \/ UTryAcquireLoad(x) \/ UTryAcquireCas(x) \/ SimplyAcquireSpin(x)
           \/ UReleaseLoad(x) \/ UReleaseStore(x)
    PROVE  UIInv'
<1> USE DEF UIInv
<1> DEFINE c == x[1]
<1>1. c \in Cpus /\ TaskFlag(c) /\ HandlerFlag(c)
  BY Contexts, Zenon
<1>2. Runs(x) /\ UNCHANGED <<IF_, cookie, guard>>
  BY LockStepEffect, Zenon
<1>3. UTypeOK'
  BY <1>2, LockStepEffect, SMTT(40) DEF UTypeOK
<1>4. StagesAgree'
  <2>1. ASSUME NEW y \in Cores, y # x
        PROVE  at'[y] = at[y] /\ pc'[y] = pc[y]
    BY <2>1, LockStepEffect, Zenon
  <2> QED
    BY <2>1, LockStepEffect, SMTT(40) DEF StagesAgree
<1>5. \A y \in Cores : y # x => at'[y] = at[y]
  BY LockStepEffect, Zenon
<1>6. at[x] # "none" /\ at'[x] # "none"
  BY LockStepEffect, Zenon
<1>7. TaskFlag(c)' /\ HandlerFlag(c)'
  <2>1. CASE x = Task(c)
    <3>1. at[Irq(c)] = "none" /\ at'[Irq(c)] = "none"
      BY <1>1, <1>2, <1>5, <2>1, Contexts, SMTT(40) DEF Runs
    <3>2. /\ IF_[c] <=> at[x] = "out" /\ guard[x] = "none"
          /\ at[x] \notin {"out", "simply"} => (cookie[x] <=> guard[x] = "none")
          /\ at[x] = "simply" => guard[x] = "on"
          /\ guard[x] \in {"none", "on"}
      BY <1>1, <2>1, <3>1, SMTT(40) DEF TaskFlag, UTypeOK
    <3>3. /\ IF_[c] <=> at'[x] = "out" /\ guard[x] = "none"
          /\ at'[x] \notin {"out", "simply"} => (cookie[x] <=> guard[x] = "none")
          /\ at'[x] = "simply" => guard[x] = "on"
      BY <3>2, LockStepEffect, Zenon
    <3> QED
      BY <1>1, <1>2, <1>6, <2>1, <3>1, <3>2, <3>3, Zenon DEF TaskFlag, HandlerFlag
  <2>2. CASE x = Irq(c)
    <3>1. at'[Task(c)] = at[Task(c)]
      BY <1>1, <1>5, <2>2, Contexts, SMTT(40)
    <3> QED
      BY <1>1, <1>2, <1>6, <2>2, <3>1, Zenon DEF TaskFlag, HandlerFlag
  <2> QED
    BY <2>1, <2>2, Contexts, Zenon
<1>8. ASSUME NEW d \in Cpus PROVE TaskFlag(d)' /\ HandlerFlag(d)'
  BY <1>2, <1>5, <1>7, OtherProcessor, Zenon
<1> QED
  BY <1>3, <1>4, <1>8, Zenon

\* Every step preserves the invariant; the types of the word are those that the
\* ticket lock keeps.
LEMMA UNextUIInv == UIInv /\ TypeOK' /\ [UNext]_uvars => UIInv'
<1> SUFFICES ASSUME UIInv, TypeOK', [UNext]_uvars PROVE UIInv'
  BY Zenon
<1>1. CASE UNCHANGED uvars
  BY <1>1, Zenon DEF uvars, vars, UIInv, UTypeOK, StagesAgree, TaskFlag, HandlerFlag
<1>2. CASE UNext
  BY <1>2, InterruptUIInv, FlagStepsUIInv, LockStepsUIInv, Zenon DEF UNext, Continue
<1> QED
  BY <1>1, <1>2, Zenon

\* Flags, saved flags and stages agree in every reachable state.
THEOREM UninterruptibleInvariant == USpec => []UIInv
<1>1. USpec => []TypeOK
  BY UninterruptibleIsTicketLock, TicketLockInvariant, PTL DEF IInv
<1> QED
  BY <1>1, UInitUIInv, UNextUIInv, PTL DEF USpec

\* A handler never waits behind the task it has interrupted, on any number of
\* processors.
THEOREM UninterruptibleNoSelfDeadlock == USpec => []NoSelfDeadlock
<1>1. UIInv => NoSelfDeadlock
  BY Contexts, Zenon DEF UIInv, StagesAgree, HandlerFlag, NoSelfDeadlock, Outstanding
<1> QED
  BY <1>1, UninterruptibleInvariant, PTL

\* Whatever nesting of operations and guards a task has left, its processor has
\* interrupts on again.
THEOREM UninterruptibleInterruptsNotLost == USpec => []InterruptsNotLost
<1>1. UIInv => InterruptsNotLost
  BY Zenon DEF UIInv, TaskFlag, InterruptsNotLost
<1> QED
  BY <1>1, UninterruptibleInvariant, PTL
=============================================================================
