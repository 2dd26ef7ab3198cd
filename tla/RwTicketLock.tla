---------------------------- MODULE RwTicketLock ----------------------------
(***************************************************************************)
(* The readers-writer ticket lock of                                       *)
(* sysheaders/common/beel/sync/rw.ticket.lock.hpp, which guards every      *)
(* virtual address space (Vas::Lock).  Readers and writers draw tickets    *)
(* from the same Head.  A reader enters when ReadersTail reaches its       *)
(* ticket and immediately moves ReadersTail on; a writer enters when       *)
(* WritersTail reaches its ticket.  A leaving reader moves WritersTail, a  *)
(* leaving writer moves both.                                              *)
(*                                                                         *)
(* The three 16-bit fields share one 64-bit word; pad is its unused top.   *)
(* Steps are single accesses to that word; the plain increments of         *)
(* ReadersTail are a load and a store.  UpgradeToWriter, which nothing     *)
(* calls, is left out.                                                     *)
(***************************************************************************)
EXTENDS Integers, FiniteSets

CONSTANTS Cores,        \* the processors that use the lock
          TicketCount,  \* how many values each field has: 2^16 in the code
          TryAtLast     \* whether TryAcquireAs* may run at the last ticket

ASSUME RwTicketAssumption ==
    /\ IsFiniteSet(Cores)
    /\ TicketCount \in Nat
    /\ Cardinality(Cores) < TicketCount
    /\ TryAtLast \in BOOLEAN

VARIABLES WritersTail, ReadersTail, head, pad,
          pc,     \* where each core is
          reg,    \* the ticket of each core
          tmp     \* a copy of ReadersTail or WritersTail in a register

lock == <<WritersTail, ReadersTail, head, pad>>

vars == <<WritersTail, ReadersTail, head, pad, pc, reg, tmp>>

Tickets == 0 .. TicketCount - 1

\* uint16_t increment and subtraction.
Inc(t) == IF t + 1 = TicketCount THEN 0 ELSE t + 1

Diff(a, b) == IF a >= b THEN a - b ELSE a + TicketCount - b

Init ==
    /\ WritersTail = 0 /\ ReadersTail = 0 /\ head = 0 /\ pad = 0
    /\ pc = [c \in Cores |-> "idle"]
    /\ reg = [c \in Cores |-> 0]
    /\ tmp = [c \in Cores |-> 0]

Goto(c, from, to) ==
    /\ pc[c] = from
    /\ pc' = [pc EXCEPT ![c] = to]

\* The registers of c are not needed any more.
Drop(c) ==
    /\ reg' = [reg EXCEPT ![c] = 0]
    /\ tmp' = [tmp EXCEPT ![c] = 0]

\* me = fetch_add(Head, 1), for AcquireAsReader and AcquireAsWriter.
Draw(c, wait) ==
    /\ Goto(c, "idle", wait)
    /\ reg' = [reg EXCEPT ![c] = head]
    /\ head' = Inc(head)
    /\ UNCHANGED <<WritersTail, ReadersTail, pad, tmp>>

AcquireAsReaderDraw(c) == Draw(c, "readWait")

\* Variant: the spin ends one turn early.
AcquireAsReaderSpinEarly(c) ==
    /\ Goto(c, "readWait", "readEnter")
    /\ Diff(reg[c], ReadersTail) <= 1
    /\ Drop(c)
    /\ UNCHANGED lock

\* AcquireAsReader: the spin ends when me - ReadersTail is zero.
AcquireAsReaderSpin(c) ==
    /\ Goto(c, "readWait", "readEnter")
    /\ Diff(reg[c], ReadersTail) = 0
    /\ Drop(c)
    /\ UNCHANGED lock

\* AcquireAsReader: ++ReadersTail, the load and the store.
AcquireAsReaderLoad(c) ==
    /\ Goto(c, "readEnter", "readStore")
    /\ tmp' = [tmp EXCEPT ![c] = ReadersTail]
    /\ UNCHANGED <<lock, reg>>

AcquireAsReaderStore(c) ==
    /\ Goto(c, "readStore", "reading")
    /\ ReadersTail' = Inc(tmp[c])
    /\ Drop(c)
    /\ UNCHANGED <<WritersTail, head, pad>>

AcquireAsWriterDraw(c) == Draw(c, "writeWait")

\* Variant: a writer waits on the readers' tail.
AcquireAsWriterSpinReaders(c) ==
    /\ Goto(c, "writeWait", "writing")
    /\ Diff(reg[c], ReadersTail) = 0
    /\ Drop(c)
    /\ UNCHANGED lock

\* AcquireAsWriter: the spin ends when me - WritersTail is zero.
AcquireAsWriterSpin(c) ==
    /\ Goto(c, "writeWait", "writing")
    /\ Diff(reg[c], WritersTail) = 0
    /\ Drop(c)
    /\ UNCHANGED lock

\* TryAcquireAsReader: me = Head, write = WritersTail.  The swap that follows
\* compares the whole word, so nothing depends on the order of the two loads.
TryAcquireAsReaderLoad(c) ==
    /\ TryAtLast \/ head + 1 < TicketCount
    /\ Goto(c, "idle", "tryRead")
    /\ reg' = [reg EXCEPT ![c] = head]
    /\ tmp' = [tmp EXCEPT ![c] = WritersTail]
    /\ UNCHANGED lock

\* TryAcquireAsReader: swap {write, me, me} for the 64-bit sum
\* ((me + 1) << 32) + ((me + 1) << 16) + write.  The fields of the sum are not
\* masked: for the last ticket the readers' field carries into Head, which
\* becomes 1, and Head into the padding.
TryAcquireAsReaderCas(c) ==
    LET me == reg[c]
        last == me + 1 = TicketCount
    IN
    \/ /\ Goto(c, "tryRead", "reading")
       /\ WritersTail = tmp[c] /\ ReadersTail = me /\ head = me /\ pad = 0
       /\ ReadersTail' = Inc(me)
       /\ head' = IF last THEN 1 ELSE me + 1
       /\ pad' = IF last THEN 1 ELSE 0
       /\ Drop(c)
       /\ UNCHANGED <<WritersTail>>
    \/ /\ Goto(c, "tryRead", "idle")
       /\ ~(WritersTail = tmp[c] /\ ReadersTail = me /\ head = me /\ pad = 0)
       /\ Drop(c)
       /\ UNCHANGED lock

\* TryAcquireAsWriter: me = Head, read = ReadersTail << 16.
TryAcquireAsWriterLoad(c) ==
    /\ TryAtLast \/ head + 1 < TicketCount
    /\ Goto(c, "idle", "tryWrite")
    /\ reg' = [reg EXCEPT ![c] = head]
    /\ tmp' = [tmp EXCEPT ![c] = ReadersTail]
    /\ UNCHANGED lock

\* TryAcquireAsWriter: swap {me, read, me} for {me, read, me + 1}.  The shift is
\* done in a signed int: for the upper half of the values of ReadersTail it
\* sign-extends, the comparand is off by one in Head, and the swap fails.
TryAcquireAsWriterCas(c) ==
    LET me == reg[c]
        match == /\ WritersTail = me /\ ReadersTail = tmp[c] /\ head = me
                 /\ pad = 0
                 /\ 2 * tmp[c] < TicketCount
    IN
    \/ /\ Goto(c, "tryWrite", "writing")
       /\ match
       /\ head' = Inc(me)
       /\ Drop(c)
       /\ UNCHANGED <<WritersTail, ReadersTail, pad>>
    \/ /\ Goto(c, "tryWrite", "idle")
       /\ ~match
       /\ Drop(c)
       /\ UNCHANGED lock

\* ReleaseAsReader: an atomic increment of WritersTail.
ReleaseAsReader(c) ==
    /\ Goto(c, "reading", "idle")
    /\ WritersTail' = Inc(WritersTail)
    /\ Drop(c)
    /\ UNCHANGED <<ReadersTail, head, pad>>

\* ReleaseAsWriter: load the word ...
ReleaseAsWriterLoad(c) ==
    /\ Goto(c, "writing", "writeStore")
    /\ tmp' = [tmp EXCEPT ![c] = ReadersTail]
    /\ reg' = [reg EXCEPT ![c] = WritersTail]
    /\ UNCHANGED lock

\* Variant: only the writers' tail moves on.
ReleaseAsWriterStoreOne(c) ==
    /\ Goto(c, "writeStore", "idle")
    /\ WritersTail' = Inc(reg[c])
    /\ Drop(c)
    /\ UNCHANGED <<ReadersTail, head, pad>>

\* ... and store its lower half with both tails incremented.
ReleaseAsWriterStore(c) ==
    /\ Goto(c, "writeStore", "idle")
    /\ WritersTail' = Inc(reg[c])
    /\ ReadersTail' = Inc(tmp[c])
    /\ Drop(c)
    /\ UNCHANGED <<head, pad>>

\* DowngradeToReader: ++ReadersTail, the load and the store.
DowngradeToReaderLoad(c) ==
    /\ Goto(c, "writing", "downStore")
    /\ tmp' = [tmp EXCEPT ![c] = ReadersTail]
    /\ UNCHANGED <<lock, reg>>

DowngradeToReaderStore(c) ==
    /\ Goto(c, "downStore", "reading")
    /\ ReadersTail' = Inc(tmp[c])
    /\ Drop(c)
    /\ UNCHANGED <<WritersTail, head, pad>>

Next ==
    \E c \in Cores :
        \/ AcquireAsReaderDraw(c) \/ AcquireAsReaderSpin(c)
        \/ AcquireAsReaderLoad(c) \/ AcquireAsReaderStore(c)
        \/ AcquireAsWriterDraw(c) \/ AcquireAsWriterSpin(c)
        \/ TryAcquireAsReaderLoad(c) \/ TryAcquireAsReaderCas(c)
        \/ TryAcquireAsWriterLoad(c) \/ TryAcquireAsWriterCas(c)
        \/ ReleaseAsReader(c)
        \/ ReleaseAsWriterLoad(c) \/ ReleaseAsWriterStore(c)
        \/ DowngradeToReaderLoad(c) \/ DowngradeToReaderStore(c)

Spec == Init /\ [][Next]_vars

\* Cores keep executing the operation they are in, and critical sections end.
Fairness ==
    \A c \in Cores :
        /\ WF_vars(AcquireAsReaderSpin(c))
        /\ WF_vars(AcquireAsReaderLoad(c) \/ AcquireAsReaderStore(c))
        /\ WF_vars(AcquireAsWriterSpin(c))
        /\ WF_vars(ReleaseAsReader(c))
        /\ WF_vars(ReleaseAsWriterLoad(c) \/ ReleaseAsWriterStore(c))
        /\ WF_vars(DowngradeToReaderStore(c))

FairSpec == Spec /\ Fairness

-----------------------------------------------------------------------------

\* A core that downgrades is a writer until its store.
Writers == {c \in Cores : pc[c] \in {"writing", "writeStore", "downStore"}}

\* A core between the spin and the store of AcquireAsReader has been admitted.
Readers == {c \in Cores : pc[c] \in {"readEnter", "readStore", "reading"}}

Waiting == {c \in Cores : pc[c] \in {"readWait", "writeWait"}}

Outstanding == Writers \cup Readers \cup Waiting

TypeOK ==
    /\ WritersTail \in Tickets /\ ReadersTail \in Tickets
    /\ head \in Tickets /\ pad \in {0, 1}
    /\ pc \in [Cores -> {"idle", "readWait", "readEnter", "readStore", "reading",
                         "writeWait", "writing", "writeStore", "downStore",
                         "tryRead", "tryWrite"}]
    /\ reg \in [Cores -> Tickets] /\ tmp \in [Cores -> Tickets]

\* A writer is alone: AcquireAsWriter and TryAcquireAsWriter exclude readers and
\* other writers, across the wrap of the 16-bit tails and although the
\* increments of ReadersTail are not atomic.
WriterExclusion ==
    \A w \in Writers : Writers \cup Readers = {w}

\* Head - WritersTail counts the cores with a ticket, ReadersTail - WritersTail
\* those that read: what Vas and the conditional operations read from the word.
TailsCount ==
    /\ Diff(head, WritersTail) = Cardinality(Outstanding)
    /\ Diff(ReadersTail, WritersTail) = Cardinality({c \in Cores : pc[c] = "reading"})

\* How long ago a core drew its ticket, in tickets.
Age(c) == Diff(head, reg[c])

\* Cores are admitted in the order in which they drew their tickets: readers cannot
\* starve a writer, nor writers a reader.
TicketOrder ==
    [][\A c, d \in Waiting : c \in (Writers \cup Readers)' => Age(d) <= Age(c)]_vars

\* Every request of AcquireAsReader and AcquireAsWriter is eventually granted.
AcquireTerminates ==
    \A c \in Cores : c \in Waiting ~> c \notin Waiting

=============================================================================
