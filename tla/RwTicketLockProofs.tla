------------------------- MODULE RwTicketLockProofs -------------------------
(***************************************************************************)
(* The readers-writer lock excludes, counts and admits in order for any    *)
(* number of cores and any width of the tails, provided that no            *)
(* conditional acquisition runs at the last ticket.                        *)
(*                                                                         *)
(* Measured from WritersTail, the tickets of one round are, in order: those *)
(* of the cores that read, up to ReadersTail; that of the one core, if any, *)
(* that is between its admission and its move of ReadersTail; those of the *)
(* cores that wait, up to Head.  That there is only one core in the middle *)
(* is why the increments of ReadersTail need not be atomic.                *)
(***************************************************************************)
EXTENDS RwTicketLock, FiniteSetTheorems, TLAPS

Reading == {c \in Cores : pc[c] = "reading"}

\* Admitted, with the ticket that ReadersTail stands at.
Passing == Writers \cup {c \in Cores : pc[c] \in {"readEnter", "readStore"}}

\* The place of a ticket in the round.
Place(t) == Diff(t, WritersTail)

Counted ==
    /\ Place(head) = Cardinality(Outstanding)
    /\ Place(ReadersTail) = Cardinality(Reading)

WaitingInOrder ==
    /\ \A c \in Waiting : Place(ReadersTail) <= Place(reg[c]) /\ Place(reg[c]) < Place(head)
    /\ \A c, d \in Waiting : reg[c] = reg[d] => c = d

OnePasses ==
    \A p \in Passing :
        /\ \A q \in Passing : q = p
        /\ \A c \in Waiting : reg[c] # ReadersTail
        /\ p \in Writers => Reading = {}

\* Registers are up to date, and the word has no carry in its padding.
Current ==
    /\ pad = 0
    /\ \A c \in Cores :
          /\ pc[c] \in {"readStore", "writeStore", "downStore"} => tmp[c] = ReadersTail
          /\ pc[c] = "writeStore" => reg[c] = WritersTail
          /\ pc[c] \in {"tryRead", "tryWrite"} => reg[c] + 1 < TicketCount

IInv == TypeOK /\ Counted /\ WaitingInOrder /\ OnePasses /\ Current

-----------------------------------------------------------------------------

\* Arithmetic of uint16_t, for any width.
LEMMA TicketArithmetic ==
    /\ 0 \in Tickets
    /\ \A t \in Tickets : Inc(t) \in Tickets
    /\ \A a, b \in Tickets : Diff(a, b) \in Tickets
    /\ \A a, b \in Tickets : Diff(a, b) = 0 <=> a = b
    /\ \A a, b \in Tickets : Diff(a, b) + 1 < TicketCount => Diff(Inc(a), b) = Diff(a, b) + 1
    /\ \A a, b \in Tickets : Diff(a, b) > 0 => Diff(a, Inc(b)) = Diff(a, b) - 1
<1>1. TicketCount \in Nat /\ TicketCount > 0
  <2>1. Cardinality(Cores) \in Nat
    BY RwTicketAssumption, FS_CardinalityType, Zenon
  <2> QED
    BY <2>1, RwTicketAssumption
<1> QED
  BY <1>1 DEF Tickets, Inc, Diff

LEMMA SamePlace ==
    ASSUME NEW a \in Tickets, NEW b \in Tickets, NEW t \in Tickets, Diff(a, t) = Diff(b, t)
    PROVE  a = b
BY RwTicketAssumption DEF Tickets, Diff

LEMMA PlacesApart ==
    ASSUME NEW a \in Tickets, NEW b \in Tickets, NEW t \in Tickets, Diff(a, t) <= Diff(b, t)
    PROVE  Diff(b, a) = Diff(b, t) - Diff(a, t)
BY RwTicketAssumption DEF Tickets, Diff

\* There are fewer cores than tickets, and no more cores that read than cores that
\* have a ticket.
LEMMA Counts ==
    /\ IsFiniteSet(Outstanding) /\ IsFiniteSet(Reading)
    /\ Cardinality(Outstanding) \in Nat /\ Cardinality(Reading) \in Nat
    /\ Reading \subseteq Outstanding
    /\ Cardinality(Reading) <= Cardinality(Outstanding)
    /\ Cardinality(Reading) = Cardinality(Outstanding) => Reading = Outstanding
    /\ Cardinality(Outstanding) < TicketCount
    /\ \A c \in Cores \ Outstanding : Cardinality(Outstanding) + 1 < TicketCount
<1>1. IsFiniteSet(Cores) /\ Cardinality(Cores) \in Nat /\ Cardinality(Cores) < TicketCount
      /\ TicketCount \in Nat
  BY RwTicketAssumption, FS_CardinalityType, Zenon
<1>2. Outstanding \subseteq Cores /\ Reading \subseteq Outstanding
  BY Zenon DEF Outstanding, Writers, Readers, Waiting, Reading
<1>3. IsFiniteSet(Outstanding) /\ Cardinality(Outstanding) <= Cardinality(Cores)
  BY <1>1, <1>2, FS_Subset, Zenon
<1>4. /\ IsFiniteSet(Reading) /\ Cardinality(Reading) <= Cardinality(Outstanding)
      /\ Cardinality(Reading) = Cardinality(Outstanding) => Reading = Outstanding
  BY <1>2, <1>3, FS_Subset, Zenon
<1>5. Cardinality(Outstanding) \in Nat /\ Cardinality(Reading) \in Nat
  BY <1>3, <1>4, FS_CardinalityType, Zenon
<1>6. ASSUME NEW c \in Cores \ Outstanding PROVE Cardinality(Outstanding) + 1 < TicketCount
  <2>1. Cardinality(Outstanding) # Cardinality(Cores)
    BY <1>1, <1>2, <1>6, FS_Subset, Zenon
  <2> QED
    BY <2>1, <1>1, <1>3, <1>5
<1> QED
  BY <1>1, <1>2, <1>3, <1>4, <1>5, <1>6

\* How the sets follow the place of one core.
LEMMA SetsMove ==
    ASSUME TypeOK, NEW c \in Cores, NEW to, pc' = [pc EXCEPT ![c] = to]
    PROVE  /\ to = "reading" => Reading' = Reading \cup {c}
           /\ to # "reading" => Reading' = Reading \ {c}
           /\ to \in {"readWait", "writeWait"} => Waiting' = Waiting \cup {c}
           /\ to \notin {"readWait", "writeWait"} => Waiting' = Waiting \ {c}
           /\ to \in {"writing", "writeStore", "downStore"} => Writers' = Writers \cup {c}
           /\ to \notin {"writing", "writeStore", "downStore"} => Writers' = Writers \ {c}
           /\ to \in {"writing", "writeStore", "downStore", "readEnter", "readStore"}
                => Passing' = Passing \cup {c}
           /\ to \notin {"writing", "writeStore", "downStore", "readEnter", "readStore"}
                => Passing' = Passing \ {c}
           /\ to \in {"readWait", "writeWait", "writing", "writeStore", "downStore",
                      "readEnter", "readStore", "reading"} => Outstanding' = Outstanding \cup {c}
           /\ to \in {"idle", "tryRead", "tryWrite"} => Outstanding' = Outstanding \ {c}
<1>1. \A d \in Cores : pc'[d] = IF d = c THEN to ELSE pc[d]
  BY Zenon DEF TypeOK
<1>2. /\ to = "reading" => Reading' = Reading \cup {c}
      /\ to # "reading" => Reading' = Reading \ {c}
  BY <1>1, Zenon DEF Reading
<1>3. /\ to \in {"readWait", "writeWait"} => Waiting' = Waiting \cup {c}
      /\ to \notin {"readWait", "writeWait"} => Waiting' = Waiting \ {c}
  BY <1>1, Zenon DEF Waiting
<1>4. /\ to \in {"writing", "writeStore", "downStore"} => Writers' = Writers \cup {c}
      /\ to \notin {"writing", "writeStore", "downStore"} => Writers' = Writers \ {c}
  BY <1>1, Zenon DEF Writers
<1>5. /\ to \in {"writing", "writeStore", "downStore", "readEnter", "readStore"}
           => Passing' = Passing \cup {c}
      /\ to \notin {"writing", "writeStore", "downStore", "readEnter", "readStore"}
           => Passing' = Passing \ {c}
  BY <1>1, Zenon DEF Passing, Writers
<1>6. to \in {"idle", "tryRead", "tryWrite"} => Outstanding' = Outstanding \ {c}
  BY <1>1, Zenon DEF Outstanding, Writers, Readers, Waiting
<1>7. to \in {"readWait", "writeWait", "writing", "writeStore", "downStore", "readEnter",
              "readStore", "reading"} => Outstanding' = Outstanding \cup {c}
  BY <1>1, Zenon DEF Outstanding, Writers, Readers, Waiting
<1> QED
  BY <1>2, <1>3, <1>4, <1>5, <1>6, <1>7, Zenon

\* The counts, with one core more or less.
LEMMA CountsMove ==
    ASSUME NEW S, IsFiniteSet(S), NEW c
    PROVE  /\ c \notin S => Cardinality(S \cup {c}) = Cardinality(S) + 1
           /\ c \in S => Cardinality(S \ {c}) = Cardinality(S) - 1 /\ Cardinality(S) > 0
           /\ c \in S => S \cup {c} = S
           /\ c \notin S => S \ {c} = S
<1>1. c \notin S => Cardinality(S \cup {c}) = Cardinality(S) + 1
  BY FS_AddElement, Zenon
<1>2. c \in S => Cardinality(S \ {c}) = Cardinality(S) - 1
  BY FS_RemoveElement, Zenon
<1>3. c \in S => Cardinality(S) > 0
  <2>1. Cardinality(S) \in Nat /\ (Cardinality(S) = 0 <=> S = {})
    BY FS_CardinalityType, FS_EmptySet, Zenon
  <2> QED
    BY <2>1
<1> QED
  BY <1>1, <1>2, <1>3, Zenon

\* What the counts say of the word.
LEMMA Places ==
    ASSUME IInv
    PROVE  /\ Place(head) \in Nat /\ Place(ReadersTail) \in Nat
           /\ Place(head) < TicketCount /\ TicketCount \in Nat
           /\ Place(ReadersTail) <= Place(head)
           /\ \A c \in Cores \ Outstanding : Place(head) + 1 < TicketCount
           /\ \A c \in Waiting : reg[c] \in Tickets /\ Place(reg[c]) \in Nat
           /\ Passing # {} => Place(ReadersTail) < Place(head)
<1> USE DEF IInv
<1>1. /\ Place(head) \in Nat /\ Place(ReadersTail) \in Nat
      /\ Place(head) < TicketCount /\ Place(ReadersTail) <= Place(head)
      /\ \A c \in Cores \ Outstanding : Place(head) + 1 < TicketCount
  BY Counts, Zenon DEF Counted
<1>2. ASSUME NEW c \in Waiting PROVE reg[c] \in Tickets /\ Place(reg[c]) \in Nat
  <2>1. c \in Cores /\ reg[c] \in Tickets /\ WritersTail \in Tickets
    BY Zenon DEF Waiting, TypeOK
  <2>2. Place(reg[c]) \in Tickets
    BY <2>1, TicketArithmetic, Zenon DEF Place
  <2> QED
    BY <2>1, <2>2, RwTicketAssumption DEF Tickets
<1>3. ASSUME NEW p \in Passing PROVE Place(ReadersTail) < Place(head)
  <2>1. p \in Outstanding /\ p \notin Reading
    BY Zenon DEF Passing, Outstanding, Readers, Writers, Reading
  <2>2. Cardinality(Reading) # Cardinality(Outstanding)
    BY <2>1, Counts, Zenon
  <2> QED
    BY <2>2, <1>1 DEF Counted
<1> QED
  BY <1>1, <1>2, <1>3, RwTicketAssumption, Zenon

\* A core draws a ticket: it is last in the round.
LEMMA DrawIInv ==
    ASSUME IInv, NEW c \in Cores, Draw(c, "readWait") \/ Draw(c, "writeWait")
    PROVE  IInv'
<1> USE DEF IInv
<1>1. /\ pc[c] = "idle" /\ reg' = [reg EXCEPT ![c] = head] /\ head' = Inc(head)
      /\ UNCHANGED <<WritersTail, ReadersTail, pad, tmp>>
  BY Zenon DEF Draw, Goto
<1>0. PICK to \in {"readWait", "writeWait"} : pc' = [pc EXCEPT ![c] = to]
  BY Zenon DEF Draw, Goto
<1>2. TypeOK'
  BY <1>0, <1>1, TicketArithmetic, Zenon DEF TypeOK
<1>3. c \notin Outstanding /\ c \notin Reading /\ c \notin Passing /\ c \notin Waiting /\ c \notin Writers
  BY <1>1, Zenon DEF Outstanding, Reading, Passing, Waiting, Writers, Readers
<1>4. /\ Reading' = Reading /\ Waiting' = Waiting \cup {c} /\ Writers' = Writers
      /\ Passing' = Passing /\ Outstanding' = Outstanding \cup {c}
  <2>1. /\ Reading' = Reading \ {c} /\ Waiting' = Waiting \cup {c} /\ Writers' = Writers \ {c}
        /\ Passing' = Passing \ {c} /\ Outstanding' = Outstanding \cup {c}
    BY <1>0, SetsMove, Zenon
  <2> QED
    BY <2>1, <1>3, Zenon
<1>5. Place(head)' = Place(head) + 1 /\ Place(ReadersTail)' = Place(ReadersTail)
  BY <1>1, <1>3, Places, TicketArithmetic, Zenon DEF TypeOK, Place
<1>6. Counted'
  BY <1>3, <1>4, <1>5, CountsMove, Counts DEF Counted
<1>7. /\ reg'[c] = head /\ \A d \in Waiting : reg'[d] = reg[d] /\ reg[d] # head
      /\ \A d \in Waiting : Place(reg[d])' = Place(reg[d])
  <2>1. reg'[c] = head /\ \A d \in Waiting : reg'[d] = reg[d]
    BY <1>1, <1>3, Zenon DEF TypeOK, Waiting
  <2>2. \A d \in Waiting : reg[d] # head
    BY Places DEF WaitingInOrder
  <2> QED
    BY <2>1, <2>2, <1>1, Zenon DEF Place
<1>8. Place(reg[c])' = Place(head)
  BY <1>1, <1>7, Zenon DEF Place
<1>9. WaitingInOrder'
  <2>1. ASSUME NEW d \in Waiting'
        PROVE  Place(ReadersTail)' <= Place(reg[d])' /\ Place(reg[d])' < Place(head)'
    <3>1. CASE d = c
      BY <3>1, <1>5, <1>8, Places
    <3>2. CASE d # c
      BY <3>2, <1>4, <1>5, <1>7, Places DEF WaitingInOrder
    <3> QED
      BY <3>1, <3>2, Zenon
  <2>2. ASSUME NEW d \in Waiting', NEW e \in Waiting', reg'[d] = reg'[e] PROVE d = e
    BY <2>2, <1>4, <1>7, Zenon DEF WaitingInOrder
  <2> QED
    BY <2>1, <2>2, Zenon DEF WaitingInOrder
<1>10. OnePasses'
  <2> SUFFICES ASSUME NEW p \in Passing
               PROVE  /\ \A q \in Passing : q = p
                      /\ \A d \in Waiting' : reg'[d] # ReadersTail
                      /\ p \in Writers => Reading = {}
    BY <1>1, <1>4, Zenon DEF OnePasses
  <2>1. head # ReadersTail
    BY Places
  <2> QED
    BY <2>1, <1>4, <1>7, Zenon DEF OnePasses
<1>11. Current'
  BY <1>0, <1>1, Zenon DEF Current, TypeOK
<1> QED
  BY <1>2, <1>6, <1>9, <1>10, <1>11, Zenon

\* A core is admitted; nobody else passes, as the ticket is its own, and if it is a
\* writer nobody reads.
LEMMA SpinIInv ==
    ASSUME IInv, NEW c \in Cores, AcquireAsReaderSpin(c) \/ AcquireAsWriterSpin(c)
    PROVE  IInv'
<1> USE DEF IInv
<1>1. /\ c \in Waiting /\ UNCHANGED lock /\ Drop(c)
      /\ \E to \in {"readEnter", "writing"} : pc' = [pc EXCEPT ![c] = to]
      /\ \/ pc' = [pc EXCEPT ![c] = "readEnter"] /\ Diff(reg[c], ReadersTail) = 0
         \/ pc' = [pc EXCEPT ![c] = "writing"] /\ Diff(reg[c], WritersTail) = 0
  BY Zenon DEF AcquireAsReaderSpin, AcquireAsWriterSpin, Goto, Waiting
<1>2. TypeOK'
  BY <1>1, TicketArithmetic, Zenon DEF TypeOK, Drop, lock
<1>3. c \in Outstanding /\ c \notin Reading /\ c \notin Passing /\ c \notin Writers
  BY <1>1, Zenon DEF Outstanding, Reading, Passing, Waiting, Writers, Readers
<1>4. /\ Reading' = Reading /\ Waiting' = Waiting \ {c}
      /\ Passing' = Passing \cup {c} /\ Outstanding' = Outstanding
      /\ pc' = [pc EXCEPT ![c] = "readEnter"] => Writers' = Writers
  <2>1. /\ Reading' = Reading \ {c} /\ Waiting' = Waiting \ {c}
        /\ Passing' = Passing \cup {c} /\ Outstanding' = Outstanding \cup {c}
        /\ pc' = [pc EXCEPT ![c] = "readEnter"] => Writers' = Writers \ {c}
    BY <1>1, SetsMove, Zenon
  <2> QED
    BY <2>1, <1>3, Zenon
<1>6. reg[c] = ReadersTail /\ (pc' = [pc EXCEPT ![c] = "writing"] => Reading = {})
  <2>1. CASE pc' = [pc EXCEPT ![c] = "readEnter"] /\ Diff(reg[c], ReadersTail) = 0
    <3>1. pc' # [pc EXCEPT ![c] = "writing"]
      BY <2>1, Zenon DEF TypeOK
    <3> QED
      BY <2>1, <3>1, TicketArithmetic, Zenon DEF TypeOK
  <2>2. CASE Diff(reg[c], WritersTail) = 0
    <3>1. Place(ReadersTail) = 0
      BY <2>2, <1>1, Places DEF WaitingInOrder, Place
    <3>2. reg[c] = WritersTail /\ ReadersTail = WritersTail
      BY <2>2, <3>1, TicketArithmetic, Zenon DEF TypeOK, Place
    <3>3. Reading = {}
      BY <3>1, Counts, FS_EmptySet, Zenon DEF Counted
    <3> QED
      BY <3>2, <3>3, Zenon
  <2> QED
    BY <1>1, <2>1, <2>2, Zenon
<1>7. \A d \in Waiting' : d \in Waiting /\ d # c /\ reg'[d] = reg[d] /\ reg[d] # ReadersTail
  <2>1. \A d \in Waiting' : d \in Waiting /\ d # c /\ reg'[d] = reg[d]
    BY <1>1, <1>4, Zenon DEF TypeOK, Waiting, Drop
  <2> QED
    BY <2>1, <1>1, <1>6, Zenon DEF WaitingInOrder
<1>8. Counted'
  BY <1>1, <1>4, Zenon DEF Counted, Place, lock
<1>9. WaitingInOrder'
  BY <1>1, <1>7, Zenon DEF WaitingInOrder, Place, lock
<1>10. OnePasses'
  <2>1. Passing = {}
    BY <1>1, <1>6, Zenon DEF OnePasses
  <2>2. c \in Writers' => Reading = {}
    BY <1>1, <1>3, <1>4, <1>6, Zenon
  <2> QED
    BY <2>1, <2>2, <1>1, <1>4, <1>7, Zenon DEF OnePasses, lock
<1>11. Current'
  BY <1>1, Zenon DEF Current, TypeOK, Drop, lock
<1> QED
  BY <1>2, <1>8, <1>9, <1>10, <1>11, Zenon

\* The core that passes moves ReadersTail to the next ticket and reads.
LEMMA ReaderStoreIInv ==
    ASSUME IInv, NEW c \in Cores, AcquireAsReaderStore(c) \/ DowngradeToReaderStore(c)
    PROVE  IInv'
<1> USE DEF IInv
<1>1. /\ pc[c] \in {"readStore", "downStore"} /\ pc' = [pc EXCEPT ![c] = "reading"]
      /\ ReadersTail' = Inc(tmp[c]) /\ Drop(c) /\ UNCHANGED <<WritersTail, head, pad>>
  BY Zenon DEF AcquireAsReaderStore, DowngradeToReaderStore, Goto
<1>2. ReadersTail' = Inc(ReadersTail)
  BY <1>1, Zenon DEF Current
<1>3. TypeOK'
  <2>1. 0 \in Tickets /\ ReadersTail' \in Tickets
    BY <1>2, TicketArithmetic, Zenon DEF TypeOK
  <2> QED
    BY <2>1, <1>1, Zenon DEF TypeOK, Drop
<1>4. c \in Outstanding /\ c \notin Reading /\ c \in Passing /\ c \notin Waiting
  BY <1>1, Zenon DEF Outstanding, Reading, Passing, Waiting, Writers, Readers
<1>5. /\ Reading' = Reading \cup {c} /\ Waiting' = Waiting
      /\ Passing' = {} /\ Outstanding' = Outstanding
  <2>1. /\ Reading' = Reading \cup {c} /\ Waiting' = Waiting \ {c}
        /\ Passing' = Passing \ {c} /\ Outstanding' = Outstanding \cup {c}
    BY <1>1, SetsMove, Zenon
  <2>2. Passing = {c}
    BY <1>4, Zenon DEF OnePasses
  <2> QED
    BY <2>1, <2>2, <1>4, Zenon
<1>6. Place(ReadersTail)' = Place(ReadersTail) + 1 /\ Place(head)' = Place(head)
  <2>1. Place(ReadersTail) + 1 < TicketCount
    BY <1>4, Places
  <2> QED
    BY <2>1, <1>1, <1>2, TicketArithmetic, Zenon DEF TypeOK, Place
<1>7. Counted'
  BY <1>4, <1>5, <1>6, CountsMove, Counts DEF Counted
<1>8. WaitingInOrder'
  <2>1. \A d \in Waiting : reg'[d] = reg[d] /\ Place(reg[d])' = Place(reg[d])
    BY <1>1, <1>4, Zenon DEF TypeOK, Waiting, Drop, Place
  <2>2. ASSUME NEW d \in Waiting PROVE Place(ReadersTail) + 1 <= Place(reg[d])
    <3>1. reg[d] # ReadersTail
      BY <1>4, Zenon DEF OnePasses
    <3>2. reg[d] \in Tickets /\ ReadersTail \in Tickets /\ WritersTail \in Tickets
      BY Places, Zenon DEF TypeOK
    <3>3. Place(reg[d]) # Place(ReadersTail)
      BY <3>1, <3>2, SamePlace, Zenon DEF Place
    <3> QED
      BY <3>3, Places DEF WaitingInOrder
  <2>3. \A d \in Waiting : Place(ReadersTail)' <= Place(reg[d])' /\ Place(reg[d])' < Place(head)'
    BY <2>1, <2>2, <1>6, Zenon DEF WaitingInOrder
  <2>4. \A d, e \in Waiting : reg'[d] = reg'[e] => d = e
    BY <2>1, Zenon DEF WaitingInOrder
  <2> QED
    BY <2>3, <2>4, <1>5, Zenon DEF WaitingInOrder
<1>9. OnePasses'
  BY <1>5, Zenon DEF OnePasses
<1>10. Current'
  <2>1. ASSUME NEW d \in Cores, d # c
        PROVE  pc'[d] = pc[d] /\ reg'[d] = reg[d]
               /\ pc[d] \notin {"readStore", "writeStore", "downStore"}
    <3>1. pc'[d] = pc[d] /\ reg'[d] = reg[d]
      BY <1>1, <2>1, Zenon DEF TypeOK, Drop
    <3>2. d \notin Passing
      BY <1>4, <2>1, Zenon DEF OnePasses
    <3> QED
      BY <3>1, <3>2, Zenon DEF Passing, Writers
  <2>2. pc'[c] = "reading"
    BY <1>1, Zenon DEF TypeOK
  <2> QED
    BY <2>1, <2>2, <1>1, Zenon DEF Current
<1> QED
  BY <1>3, <1>7, <1>8, <1>9, <1>10, Zenon

\* The conditional acquisitions succeed only if nobody waits or passes.
LEMMA TryReadIInv ==
    ASSUME IInv, NEW c \in Cores, TryAcquireAsReaderCas(c), pc'[c] = "reading"
    PROVE  IInv'
<1> USE DEF IInv
<1>1. /\ pc[c] = "tryRead" /\ pc' = [pc EXCEPT ![c] = "reading"]
      /\ ReadersTail = head /\ reg[c] = head /\ ReadersTail' = Inc(head)
      /\ Drop(c) /\ UNCHANGED WritersTail
      /\ head' = (IF reg[c] + 1 = TicketCount THEN 1 ELSE reg[c] + 1)
      /\ pad' = (IF reg[c] + 1 = TicketCount THEN 1 ELSE 0)
  BY Zenon DEF TryAcquireAsReaderCas, Goto, TypeOK
<1>2. head' = Inc(head) /\ pad' = 0
  BY <1>1, RwTicketAssumption DEF Current, Inc, TypeOK, Tickets
<1>3. TypeOK'
  <2>1. 0 \in Tickets /\ ReadersTail' \in Tickets /\ head' \in Tickets
    BY <1>1, <1>2, TicketArithmetic DEF TypeOK
  <2> QED
    BY <2>1, <1>1, <1>2, Zenon DEF TypeOK, Drop
<1>4. Outstanding = Reading /\ Passing = {} /\ Waiting = {}
  <2>1. Outstanding = Reading
    BY <1>1, Counts, Zenon DEF Counted
  <2> QED
    BY <2>1, Zenon DEF Outstanding, Reading, Passing, Waiting, Writers, Readers
<1>5. c \notin Outstanding /\ c \notin Reading
  BY <1>1, Zenon DEF Outstanding, Reading, Waiting, Writers, Readers
<1>6. /\ Reading' = Reading \cup {c} /\ Waiting' = {}
      /\ Passing' = {} /\ Outstanding' = Outstanding \cup {c}
  <2>1. /\ Reading' = Reading \cup {c} /\ Waiting' = Waiting \ {c}
        /\ Passing' = Passing \ {c} /\ Outstanding' = Outstanding \cup {c}
    BY <1>1, SetsMove, Zenon
  <2> QED
    BY <2>1, <1>4, Zenon
<1>7. Place(ReadersTail)' = Place(ReadersTail) + 1 /\ Place(head)' = Place(head) + 1
  <2>1. Place(head) + 1 < TicketCount
    BY <1>5, Places, Zenon
  <2> QED
    BY <2>1, <1>1, <1>2, TicketArithmetic DEF TypeOK, Place
<1>8. Counted'
  BY <1>5, <1>6, <1>7, CountsMove, Counts DEF Counted
<1>9. WaitingInOrder' /\ OnePasses'
  BY <1>6, Zenon DEF WaitingInOrder, OnePasses
<1>10. Current'
  <2>1. ASSUME NEW d \in Cores, d # c
        PROVE  pc'[d] = pc[d] /\ reg'[d] = reg[d]
               /\ pc[d] \notin {"readStore", "writeStore", "downStore"}
    BY <2>1, <1>1, <1>4, Zenon DEF TypeOK, Drop, Passing, Writers
  <2>2. pc'[c] = "reading"
    BY <1>1, Zenon DEF TypeOK
  <2> QED
    BY <2>1, <2>2, <1>2, Zenon DEF Current
<1> QED
  BY <1>3, <1>8, <1>9, <1>10, Zenon

LEMMA TryWriteIInv ==
    ASSUME IInv, NEW c \in Cores, TryAcquireAsWriterCas(c), pc'[c] = "writing"
    PROVE  IInv'
<1> USE DEF IInv
<1>1. /\ pc[c] = "tryWrite" /\ pc' = [pc EXCEPT ![c] = "writing"]
      /\ WritersTail = head /\ head' = Inc(head)
      /\ Drop(c) /\ UNCHANGED <<WritersTail, ReadersTail, pad>>
  BY Zenon DEF TryAcquireAsWriterCas, Goto, TypeOK
<1>2. TypeOK'
  BY <1>1, TicketArithmetic, Zenon DEF TypeOK, Drop
<1>3. Outstanding = {} /\ Reading = {} /\ Passing = {} /\ Waiting = {}
  <2>1. Place(head) = 0
    BY <1>1, TicketArithmetic, Zenon DEF TypeOK, Place
  <2>2. Outstanding = {}
    BY <2>1, Counts, FS_EmptySet, Zenon DEF Counted
  <2> QED
    BY <2>2, Zenon DEF Outstanding, Reading, Passing, Waiting, Writers, Readers
<1>4. Reading' = {} /\ Waiting' = {} /\ Passing' = {c} /\ Outstanding' = Outstanding \cup {c}
  <2>1. /\ Reading' = Reading \ {c} /\ Waiting' = Waiting \ {c}
        /\ Passing' = Passing \cup {c} /\ Outstanding' = Outstanding \cup {c}
    BY <1>1, SetsMove, Zenon
  <2> QED
    BY <2>1, <1>3, Zenon
<1>5. Place(ReadersTail)' = Place(ReadersTail) /\ Place(head)' = Place(head) + 1
  <2>1. Place(head) + 1 < TicketCount
    BY <1>3, Places, Zenon
  <2> QED
    BY <2>1, <1>1, TicketArithmetic, Zenon DEF TypeOK, Place
<1>6. Counted'
  <2>1. c \notin Outstanding /\ Reading' = Reading
    BY <1>3, <1>4, Zenon
  <2>2. Cardinality(Outstanding') = Cardinality(Outstanding) + 1
    BY <2>1, <1>4, CountsMove, Counts, Zenon
  <2> QED
    BY <2>1, <2>2, <1>5, Zenon DEF Counted
<1>7. WaitingInOrder' /\ OnePasses'
  BY <1>4, Zenon DEF WaitingInOrder, OnePasses
<1>8. Current'
  BY <1>1, Zenon DEF Current, TypeOK, Drop
<1> QED
  BY <1>2, <1>6, <1>7, <1>8, Zenon

\* A reader leaves and moves the start of the round past its place; as long as one
\* reads no writer is in.
LEMMA ReleaseReaderIInv ==
    ASSUME IInv, NEW c \in Cores, ReleaseAsReader(c)
    PROVE  IInv'
<1> USE DEF IInv
<1>1. /\ pc[c] = "reading" /\ pc' = [pc EXCEPT ![c] = "idle"]
      /\ WritersTail' = Inc(WritersTail) /\ Drop(c) /\ UNCHANGED <<ReadersTail, head, pad>>
  BY Zenon DEF ReleaseAsReader, Goto
<1>2. TypeOK'
  <2>1. 0 \in Tickets /\ WritersTail' \in Tickets
    BY <1>1, TicketArithmetic, Zenon DEF TypeOK
  <2> QED
    BY <2>1, <1>1, Zenon DEF TypeOK, Drop
<1>3. c \in Outstanding /\ c \in Reading /\ c \notin Passing /\ c \notin Waiting /\ c \notin Writers
  BY <1>1, Zenon DEF Outstanding, Reading, Passing, Waiting, Writers, Readers
<1>4. /\ Reading' = Reading \ {c} /\ Waiting' = Waiting /\ Writers' = Writers
      /\ Passing' = Passing /\ Outstanding' = Outstanding \ {c}
  <2>1. /\ Reading' = Reading \ {c} /\ Waiting' = Waiting \ {c} /\ Writers' = Writers \ {c}
        /\ Passing' = Passing \ {c} /\ Outstanding' = Outstanding \ {c}
    BY <1>1, SetsMove, Zenon
  <2> QED
    BY <2>1, <1>3, Zenon
<1>5. Place(ReadersTail) > 0 /\ Place(head) > 0
  <2>1. Cardinality(Reading) > 0 /\ Cardinality(Outstanding) > 0
    BY <1>3, Counts, CountsMove, Zenon
  <2> QED
    BY <2>1, Zenon DEF Counted
<1>6. Place(ReadersTail)' = Place(ReadersTail) - 1 /\ Place(head)' = Place(head) - 1
  BY <1>1, <1>5, TicketArithmetic, Zenon DEF TypeOK, Place
<1>7. Counted'
  <2>1. /\ Cardinality(Outstanding') = Cardinality(Outstanding) - 1
        /\ Cardinality(Reading') = Cardinality(Reading) - 1
    BY <1>3, <1>4, CountsMove, Counts, Zenon
  <2> QED
    BY <2>1, <1>6, Zenon DEF Counted
<1>8. \A d \in Waiting : reg'[d] = reg[d]
  BY <1>1, <1>3, Zenon DEF TypeOK, Waiting, Drop
<1>9. WaitingInOrder'
  <2>1. ASSUME NEW d \in Waiting PROVE Place(reg[d])' = Place(reg[d]) - 1
    <3>1. Place(reg[d]) > 0 /\ reg[d] \in Tickets
      BY <1>5, Places DEF WaitingInOrder
    <3>2. Diff(reg[d], Inc(WritersTail)) = Diff(reg[d], WritersTail) - 1
      BY <3>1, TicketArithmetic, Zenon DEF TypeOK, Place
    <3> QED
      BY <3>2, <1>1, <1>8, Zenon DEF Place
  <2>2. \A d \in Waiting : Place(ReadersTail)' <= Place(reg[d])' /\ Place(reg[d])' < Place(head)'
    BY <2>1, <1>6, Places DEF WaitingInOrder
  <2>3. \A d, e \in Waiting : reg'[d] = reg'[e] => d = e
    BY <1>8, Zenon DEF WaitingInOrder
  <2> QED
    BY <2>2, <2>3, <1>4, Zenon DEF WaitingInOrder
<1>10. OnePasses'
  <2>1. \A p \in Passing : p \notin Writers
    BY <1>3, Zenon DEF OnePasses
  <2> QED
    BY <2>1, <1>1, <1>4, <1>8, Zenon DEF OnePasses
<1>11. Current'
  <2>1. ASSUME NEW d \in Cores, d # c
        PROVE  pc'[d] = pc[d] /\ reg'[d] = reg[d] /\ tmp'[d] = tmp[d] /\ pc[d] # "writeStore"
    <3>1. pc'[d] = pc[d] /\ reg'[d] = reg[d] /\ tmp'[d] = tmp[d]
      BY <2>1, <1>1, Zenon DEF TypeOK, Drop
    <3>2. pc[d] = "writeStore" => d \in Passing /\ d \in Writers
      BY Zenon DEF Passing, Writers
    <3> QED
      BY <3>1, <3>2, <1>3, Zenon DEF OnePasses
  <2>2. pc'[c] = "idle"
    BY <1>1, Zenon DEF TypeOK
  <2> QED
    BY <2>1, <2>2, <1>1, Zenon DEF Current
<1> QED
  BY <1>2, <1>7, <1>9, <1>10, <1>11, Zenon

\* A writer leaves and moves both tails; nobody reads.
LEMMA ReleaseWriterIInv ==
    ASSUME IInv, NEW c \in Cores, ReleaseAsWriterStore(c)
    PROVE  IInv'
<1> USE DEF IInv
<1>1. /\ pc[c] = "writeStore" /\ pc' = [pc EXCEPT ![c] = "idle"]
      /\ WritersTail' = Inc(reg[c]) /\ ReadersTail' = Inc(tmp[c])
      /\ Drop(c) /\ UNCHANGED <<head, pad>>
  BY Zenon DEF ReleaseAsWriterStore, Goto
<1>2. c \in Outstanding /\ c \notin Reading /\ c \in Passing /\ c \notin Waiting /\ c \in Writers
  BY <1>1, Zenon DEF Outstanding, Reading, Passing, Waiting, Writers, Readers
<1>3. Reading = {} /\ Passing = {c}
  BY <1>2, Zenon DEF OnePasses
<1>4. WritersTail' = Inc(WritersTail) /\ ReadersTail' = Inc(WritersTail) /\ ReadersTail = WritersTail
  <2>1. Place(ReadersTail) = 0
    BY <1>3, FS_EmptySet, Zenon DEF Counted
  <2>2. ReadersTail = WritersTail
    BY <2>1, TicketArithmetic, Zenon DEF TypeOK, Place
  <2> QED
    BY <2>2, <1>1, Zenon DEF Current
<1>5. TypeOK'
  <2>1. 0 \in Tickets /\ WritersTail' \in Tickets /\ ReadersTail' \in Tickets
    BY <1>4, TicketArithmetic, Zenon DEF TypeOK
  <2> QED
    BY <2>1, <1>1, Zenon DEF TypeOK, Drop
<1>6. Reading' = {} /\ Waiting' = Waiting /\ Passing' = {} /\ Outstanding' = Outstanding \ {c}
  <2>1. /\ Reading' = Reading \ {c} /\ Waiting' = Waiting \ {c}
        /\ Passing' = Passing \ {c} /\ Outstanding' = Outstanding \ {c}
    BY <1>1, SetsMove, Zenon
  <2> QED
    BY <2>1, <1>2, <1>3, Zenon
<1>7. Place(ReadersTail)' = 0 /\ Place(head)' = Place(head) - 1
  <2>1. Place(head) > 0
    BY <1>2, Counts, CountsMove DEF Counted
  <2>2. Place(ReadersTail)' = 0
    BY <1>4, <1>5, TicketArithmetic, Zenon DEF TypeOK, Place
  <2> QED
    BY <2>1, <2>2, <1>1, <1>4, TicketArithmetic DEF TypeOK, Place
<1>8. Counted'
  <2>1. Cardinality(Outstanding') = Cardinality(Outstanding) - 1
    BY <1>2, <1>6, CountsMove, Counts, Zenon
  <2>2. Cardinality(Reading') = 0
    BY <1>6, FS_EmptySet, Zenon
  <2> QED
    BY <2>1, <2>2, <1>7, Zenon DEF Counted
<1>9. \A d \in Waiting : reg'[d] = reg[d]
  BY <1>1, <1>2, Zenon DEF TypeOK, Waiting, Drop
<1>10. WaitingInOrder'
  <2>1. ASSUME NEW d \in Waiting PROVE Place(reg[d])' = Place(reg[d]) - 1 /\ Place(reg[d]) > 0
    <3>1. reg[d] \in Tickets /\ Place(reg[d]) \in Nat /\ WritersTail \in Tickets
      BY Places, Zenon DEF TypeOK
    <3>0. reg[d] # WritersTail
      BY <1>2, <1>4, Zenon DEF OnePasses
    <3>2. Diff(reg[d], WritersTail) # 0
      BY <3>0, <3>1, TicketArithmetic, Zenon
    <3>3. Diff(reg[d], WritersTail) > 0
      BY <3>1, <3>2 DEF Place
    <3>4. Diff(reg[d], Inc(WritersTail)) = Diff(reg[d], WritersTail) - 1
      BY <3>1, <3>3, TicketArithmetic, Zenon
    <3> QED
      BY <3>3, <3>4, <1>4, <1>9, Zenon DEF Place
  <2>2. \A d \in Waiting : Place(ReadersTail)' <= Place(reg[d])' /\ Place(reg[d])' < Place(head)'
    BY <2>1, <1>7, Places DEF WaitingInOrder
  <2>3. \A d, e \in Waiting : reg'[d] = reg'[e] => d = e
    BY <1>9, Zenon DEF WaitingInOrder
  <2> QED
    BY <2>2, <2>3, <1>6, Zenon DEF WaitingInOrder
<1>11. OnePasses'
  BY <1>6, Zenon DEF OnePasses
<1>12. Current'
  <2>1. ASSUME NEW d \in Cores, d # c
        PROVE  pc'[d] = pc[d] /\ reg'[d] = reg[d]
               /\ pc[d] \notin {"readStore", "writeStore", "downStore"}
    BY <2>1, <1>1, <1>3, Zenon DEF TypeOK, Drop, Passing, Writers
  <2>2. pc'[c] = "idle"
    BY <1>1, Zenon DEF TypeOK
  <2> QED
    BY <2>1, <2>2, <1>1, Zenon DEF Current
<1> QED
  BY <1>5, <1>8, <1>10, <1>11, <1>12, Zenon

\* Loads and failed swaps change neither the word nor who has a ticket.
LEMMA QuietIInv ==
    ASSUME IInv, NEW c \in Cores, NEW to, pc' = [pc EXCEPT ![c] = to], UNCHANGED lock,
           \/ pc[c] = "readEnter" /\ to = "readStore"
           \/ pc[c] = "writing" /\ to \in {"writeStore", "downStore"}
           \/ pc[c] \in {"idle", "tryRead", "tryWrite"} /\ to \in {"idle", "tryRead", "tryWrite"},
           \A d \in Cores : d # c => reg'[d] = reg[d],
           TypeOK', Current'
    PROVE  IInv'
<1> USE DEF IInv
<1>1. /\ Reading' = Reading /\ Waiting' = Waiting /\ Writers' = Writers
      /\ Passing' = Passing /\ Outstanding' = Outstanding
  <2>1. CASE pc[c] = "readEnter" /\ to = "readStore"
    <3>1. c \in Outstanding /\ c \notin Reading /\ c \in Passing /\ c \notin Waiting /\ c \notin Writers
      BY <2>1, Zenon DEF Outstanding, Reading, Passing, Waiting, Writers, Readers
    <3>2. /\ Reading' = Reading \ {c} /\ Waiting' = Waiting \ {c} /\ Writers' = Writers \ {c}
          /\ Passing' = Passing \cup {c} /\ Outstanding' = Outstanding \cup {c}
      BY <2>1, SetsMove, Zenon
    <3> QED
      BY <3>1, <3>2, Zenon
  <2>2. CASE pc[c] = "writing" /\ to \in {"writeStore", "downStore"}
    <3>1. c \in Outstanding /\ c \notin Reading /\ c \in Passing /\ c \notin Waiting /\ c \in Writers
      BY <2>2, Zenon DEF Outstanding, Reading, Passing, Waiting, Writers, Readers
    <3>2. /\ Reading' = Reading \ {c} /\ Waiting' = Waiting \ {c} /\ Writers' = Writers \cup {c}
          /\ Passing' = Passing \cup {c} /\ Outstanding' = Outstanding \cup {c}
      BY <2>2, SetsMove, Zenon
    <3> QED
      BY <3>1, <3>2, Zenon
  <2>3. CASE pc[c] \in {"idle", "tryRead", "tryWrite"} /\ to \in {"idle", "tryRead", "tryWrite"}
    <3>1. c \notin Outstanding /\ c \notin Reading /\ c \notin Passing /\ c \notin Waiting /\ c \notin Writers
      BY <2>3, Zenon DEF Outstanding, Reading, Passing, Waiting, Writers, Readers
    <3>2. /\ Reading' = Reading \ {c} /\ Waiting' = Waiting \ {c} /\ Writers' = Writers \ {c}
          /\ Passing' = Passing \ {c} /\ Outstanding' = Outstanding \ {c}
      BY <2>3, SetsMove, Zenon
    <3> QED
      BY <3>1, <3>2, Zenon
  <2> QED
    BY <2>1, <2>2, <2>3, Zenon
<1>2. \A d \in Waiting : reg'[d] = reg[d]
  BY Zenon DEF Waiting
<1>3. Counted'
  BY <1>1, Zenon DEF Counted, Place, lock
<1>4. WaitingInOrder'
  BY <1>1, <1>2 DEF WaitingInOrder, Place, lock
<1>5. OnePasses'
  BY <1>1, <1>2, Zenon DEF OnePasses, lock
<1> QED
  BY <1>3, <1>4, <1>5, Zenon

LEMMA LoadsIInv ==
    ASSUME ~TryAtLast, IInv, NEW c \in Cores,
           \/ AcquireAsReaderLoad(c) \/ ReleaseAsWriterLoad(c) \/ DowngradeToReaderLoad(c)
           \/ TryAcquireAsReaderLoad(c) \/ TryAcquireAsWriterLoad(c)
    PROVE  IInv'
<1> USE DEF IInv
<1>0. PICK to \in {"readStore", "writeStore", "downStore", "tryRead", "tryWrite"} :
        /\ pc' = [pc EXCEPT ![c] = to]
        /\ \/ pc[c] = "readEnter" /\ to = "readStore" /\ reg' = reg
              /\ tmp' = [tmp EXCEPT ![c] = ReadersTail]
           \/ pc[c] = "writing" /\ to = "writeStore" /\ reg' = [reg EXCEPT ![c] = WritersTail]
              /\ tmp' = [tmp EXCEPT ![c] = ReadersTail]
           \/ pc[c] = "writing" /\ to = "downStore" /\ reg' = reg
              /\ tmp' = [tmp EXCEPT ![c] = ReadersTail]
           \/ pc[c] = "idle" /\ to \in {"tryRead", "tryWrite"} /\ reg' = [reg EXCEPT ![c] = head]
              /\ tmp' \in [Cores -> Tickets] /\ head + 1 < TicketCount
              /\ \A d \in Cores : d # c => tmp'[d] = tmp[d]
  BY DEF AcquireAsReaderLoad, ReleaseAsWriterLoad, DowngradeToReaderLoad,
         TryAcquireAsReaderLoad, TryAcquireAsWriterLoad, Goto, TypeOK
<1>1. UNCHANGED lock
  BY Zenon DEF AcquireAsReaderLoad, ReleaseAsWriterLoad, DowngradeToReaderLoad,
         TryAcquireAsReaderLoad, TryAcquireAsWriterLoad
<1>2. TypeOK'
  BY <1>0, <1>1, Zenon DEF TypeOK, lock
<1>3. \A d \in Cores : d # c => reg'[d] = reg[d] /\ tmp'[d] = tmp[d] /\ pc'[d] = pc[d]
  BY <1>0, Zenon DEF TypeOK
<1>4. /\ to \in {"readStore", "writeStore", "downStore"} => tmp'[c] = ReadersTail
      /\ to = "writeStore" => reg'[c] = WritersTail
      /\ to \in {"tryRead", "tryWrite"} => reg'[c] + 1 < TicketCount
      /\ pc'[c] = to
  BY <1>0, Zenon DEF TypeOK
<1>5. Current'
  BY <1>1, <1>3, <1>4, Zenon DEF Current, lock
<1> QED
  BY <1>0, <1>1, <1>2, <1>3, <1>5, QuietIInv, Zenon

LEMMA TryFailsIInv ==
    ASSUME IInv, NEW c \in Cores,
           \/ TryAcquireAsReaderCas(c) /\ pc'[c] # "reading"
           \/ TryAcquireAsWriterCas(c) /\ pc'[c] # "writing"
    PROVE  IInv'
<1> USE DEF IInv
<1>1. /\ pc[c] \in {"tryRead", "tryWrite"} /\ pc' = [pc EXCEPT ![c] = "idle"]
      /\ Drop(c) /\ UNCHANGED lock
  BY Zenon DEF TryAcquireAsReaderCas, TryAcquireAsWriterCas, Goto, TypeOK
<1>2. TypeOK'
  BY <1>1, TicketArithmetic, Zenon DEF TypeOK, Drop, lock
<1>3. \A d \in Cores : d # c => reg'[d] = reg[d] /\ tmp'[d] = tmp[d] /\ pc'[d] = pc[d]
  BY <1>1, Zenon DEF TypeOK, Drop
<1>4. pc'[c] = "idle"
  BY <1>1, Zenon DEF TypeOK
<1>5. Current'
  BY <1>1, <1>3, <1>4, Zenon DEF Current, lock
<1> QED
  BY <1>1, <1>2, <1>3, <1>5, QuietIInv, Zenon

-----------------------------------------------------------------------------

LEMMA InitIInv == Init => IInv
<1> SUFFICES ASSUME Init PROVE IInv
  BY Zenon
<1>1. TypeOK
  BY TicketArithmetic, Zenon DEF Init, TypeOK
<1>2. Outstanding = {} /\ Reading = {} /\ Passing = {} /\ Waiting = {}
  BY Zenon DEF Init, Outstanding, Reading, Passing, Waiting, Writers, Readers
<1>3. Counted
  BY <1>1, <1>2, TicketArithmetic, FS_EmptySet, Zenon DEF Counted, Place, Init, TypeOK
<1>4. WaitingInOrder /\ OnePasses /\ Current
  BY <1>2, Zenon DEF WaitingInOrder, OnePasses, Current, Init
<1> QED
  BY <1>1, <1>3, <1>4, Zenon DEF IInv

LEMMA NextIInv ==
    ASSUME ~TryAtLast
    PROVE  IInv /\ [Next]_vars => IInv'
<1> SUFFICES ASSUME IInv, [Next]_vars PROVE IInv'
  BY Zenon
<1>1. CASE UNCHANGED vars
  BY <1>1, Zenon DEF vars, IInv, TypeOK, Counted, WaitingInOrder, OnePasses, Current, Place, Reading,
              Passing, Outstanding, Writers, Readers, Waiting
<1>2. ASSUME NEW c \in Cores, AcquireAsReaderDraw(c) \/ AcquireAsWriterDraw(c) PROVE IInv'
  BY <1>2, DrawIInv, Zenon DEF AcquireAsReaderDraw, AcquireAsWriterDraw
<1>3. ASSUME NEW c \in Cores, TryAcquireAsReaderCas(c) \/ TryAcquireAsWriterCas(c) PROVE IInv'
  BY <1>3, TryReadIInv, TryWriteIInv, TryFailsIInv, Zenon
<1> QED
  BY <1>1, <1>2, <1>3, SpinIInv, ReaderStoreIInv, ReleaseReaderIInv, ReleaseWriterIInv, LoadsIInv, Zenon
     DEF Next

\* A writer is alone, for any number of cores and any width of the tails.
THEOREM RwExclusion ==
    ASSUME ~TryAtLast
    PROVE  Spec => []WriterExclusion
<1>1. IInv => WriterExclusion
  <2> SUFFICES ASSUME IInv, NEW w \in Writers PROVE Writers \cup Readers = {w}
    BY Zenon DEF WriterExclusion
  <2>1. w \in Passing /\ Passing = {w} /\ Reading = {}
    BY Zenon DEF IInv, OnePasses, Passing
  <2>2. Writers \cup Readers = Passing \cup Reading
    BY Zenon DEF Passing, Reading, Readers, Writers
  <2> QED
    BY <2>1, <2>2, Zenon
<1> QED
  BY <1>1, InitIInv, NextIInv, PTL DEF Spec

\* The three fields count the cores that read and those that have a ticket.
THEOREM RwTailsCount ==
    ASSUME ~TryAtLast
    PROVE  Spec => []TailsCount
<1>1. IInv => TailsCount
  BY Zenon DEF IInv, Counted, TailsCount, Place, Reading
<1> QED
  BY <1>1, InitIInv, NextIInv, PTL DEF Spec

\* Cores are admitted in the order of their tickets.
THEOREM RwTicketOrder ==
    ASSUME ~TryAtLast
    PROVE  Spec => TicketOrder
<1> DEFINE InOrder == \A c, d \in Waiting : c \in (Writers \cup Readers)' => Age(d) <= Age(c)
<1>1. ASSUME IInv, [Next]_vars PROVE [InOrder]_vars
  <2> SUFFICES ASSUME Next, NEW c \in Waiting, NEW d \in Waiting, c \in (Writers \cup Readers)'
               PROVE  Age(d) <= Age(c)
    BY <1>1, Zenon
  <2> USE <1>1 DEF IInv
  <2>1. AcquireAsReaderSpin(c) \/ AcquireAsWriterSpin(c)
    <3>1. c \in Cores /\ pc[c] \in {"readWait", "writeWait"}
          /\ pc'[c] \notin {"readWait", "writeWait"}
      BY Zenon DEF Waiting, Writers, Readers
    <3>2. PICK e \in Cores :
        \/ AcquireAsReaderDraw(e) \/ AcquireAsReaderSpin(e)
        \/ AcquireAsReaderLoad(e) \/ AcquireAsReaderStore(e)
        \/ AcquireAsWriterDraw(e) \/ AcquireAsWriterSpin(e)
        \/ TryAcquireAsReaderLoad(e) \/ TryAcquireAsReaderCas(e)
        \/ TryAcquireAsWriterLoad(e) \/ TryAcquireAsWriterCas(e)
        \/ ReleaseAsReader(e)
        \/ ReleaseAsWriterLoad(e) \/ ReleaseAsWriterStore(e)
        \/ DowngradeToReaderLoad(e) \/ DowngradeToReaderStore(e)
      BY Zenon DEF Next
    <3>3. e = c
      BY <3>1, <3>2, Zenon DEF TypeOK, Goto, AcquireAsReaderDraw, AcquireAsReaderSpin,
         AcquireAsReaderLoad, AcquireAsReaderStore, AcquireAsWriterDraw, AcquireAsWriterSpin,
         TryAcquireAsReaderLoad, TryAcquireAsReaderCas, TryAcquireAsWriterLoad,
         TryAcquireAsWriterCas, ReleaseAsReader, ReleaseAsWriterLoad, ReleaseAsWriterStore,
         DowngradeToReaderLoad, DowngradeToReaderStore, Draw
    <3> QED
      BY <3>1, <3>2, <3>3, Zenon DEF Goto, AcquireAsReaderDraw,
         AcquireAsReaderLoad, AcquireAsReaderStore, AcquireAsWriterDraw,
         TryAcquireAsReaderLoad, TryAcquireAsReaderCas, TryAcquireAsWriterLoad,
         TryAcquireAsWriterCas, ReleaseAsReader, ReleaseAsWriterLoad, ReleaseAsWriterStore,
         DowngradeToReaderLoad, DowngradeToReaderStore, Draw
  <2>2. /\ reg[c] \in Tickets /\ reg[d] \in Tickets /\ WritersTail \in Tickets
        /\ head \in Tickets /\ ReadersTail \in Tickets
        /\ Place(reg[c]) \in Nat /\ Place(reg[d]) \in Nat /\ Place(head) \in Nat
    BY Places, Zenon DEF TypeOK
  <2>3. Place(reg[c]) <= Place(reg[d])
    <3>1. reg[c] = ReadersTail \/ reg[c] = WritersTail
      BY <2>1, <2>2, TicketArithmetic, Zenon DEF AcquireAsReaderSpin, AcquireAsWriterSpin
    <3>2. CASE reg[c] = ReadersTail
      BY <3>2, Zenon DEF WaitingInOrder
    <3>3. CASE reg[c] = WritersTail
      <4>1. Place(reg[c]) = 0
        BY <3>3, <2>2, TicketArithmetic, Zenon DEF Place
      <4> QED
        BY <4>1, <2>2
    <3> QED
      BY <3>1, <3>2, <3>3, Zenon
  <2>4. Place(reg[c]) <= Place(head) /\ Place(reg[d]) <= Place(head)
    BY <2>2 DEF WaitingInOrder
  <2>5. Age(c) = Place(head) - Place(reg[c]) /\ Age(d) = Place(head) - Place(reg[d])
    BY <2>2, <2>4, PlacesApart, Zenon DEF Age, Place
  <2> QED
    BY <2>2, <2>3, <2>5
<1> QED
  BY <1>1, InitIInv, NextIInv, PTL DEF Spec, TicketOrder

=============================================================================
