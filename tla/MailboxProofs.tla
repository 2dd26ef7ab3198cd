--------------------------- MODULE MailboxProofs ---------------------------
(***************************************************************************)
(* Mail is kept until each destination took it, and Post returns when each *)
(* has run it once, for any number of cores.  What hangs together by links *)
(* is described by the set that is reached from its first entry; the three *)
(* sets of a core (the queue, the stack, and what ExecuteNmMail took from  *)
(* the stack) are exactly the mail that it was sent and has not taken.     *)
(***************************************************************************)
EXTENDS Mailbox, FiniteSetTheorems, TLAPS

Pointers == [Core -> Core \cup {Nil}]

\* Nothing leads to the first entry, and no two entries lead to the same one.
Linear(next, e) ==
    \A x, y \in Reach(next, e) :
       next[x] # e /\ (next[x] = next[y] /\ next[x] # Nil => x = y)

LEMMA NilNoCore == Nil \notin Core
BY MailboxAssumption DEF Nil, Core

\* The reached set has its first entry and is closed, and it is the least such set.
LEMMA ReachClosed ==
    ASSUME NEW next \in Pointers, NEW e \in Core \cup {Nil}
    PROVE  /\ Reach(next, e) \in SUBSET Core
           /\ e \in Reach(next, e) \cup {Nil}
           /\ \A y \in Reach(next, e) : next[y] \in Reach(next, e) \cup {Nil}
<1>1. Reach(next, e) \in SUBSET Core
  BY Zenon DEF Reach
<1>2. e \in Reach(next, e) \cup {Nil}
  BY Zenon DEF Reach
<1>3. ASSUME NEW y \in Reach(next, e), next[y] # Nil PROVE next[y] \in Reach(next, e)
  <2>1. y \in Core /\ next[y] \in Core
    BY <1>1, <1>3, Zenon DEF Pointers
  <2>2. ASSUME NEW S \in SUBSET Core, e \in S \cup {Nil}, \A z \in S : next[z] \in S \cup {Nil}
        PROVE  next[y] \in S
    <3>1. y \in S
      BY <2>2, Zenon DEF Reach
    <3> QED
      BY <1>3, <2>2, <3>1, Zenon
  <2> QED
    BY <2>1, <2>2, Zenon DEF Reach
<1> QED
  BY <1>1, <1>2, <1>3, Zenon

LEMMA ReachLeast ==
    ASSUME NEW next, NEW e, NEW S \in SUBSET Core, e \in S \cup {Nil},
           \A y \in S : next[y] \in S \cup {Nil}
    PROVE  Reach(next, e) \subseteq S
BY Zenon DEF Reach

LEMMA ReachNil ==
    ASSUME NEW next PROVE Reach(next, Nil) = {}
<1> DEFINE T == {}
<1>1. T \in SUBSET Core /\ Nil \in T \cup {Nil} /\ \A y \in T : next[y] \in T \cup {Nil}
  BY Zenon
<1> HIDE DEF T
<1>2. Reach(next, Nil) \subseteq T
  BY <1>1, ReachLeast, Zenon
<1> QED
  BY <1>2, Zenon DEF T

\* Links outside of the set do not matter.
LEMMA ReachKept ==
    ASSUME NEW next \in Pointers, NEW new \in Pointers, NEW e \in Core \cup {Nil},
           \A x \in Reach(next, e) : new[x] = next[x]
    PROVE  Reach(new, e) = Reach(next, e) /\ (Linear(next, e) => Linear(new, e))
<1> DEFINE R == Reach(next, e)
<1>1. R \in SUBSET Core /\ e \in R \cup {Nil} /\ \A y \in R : next[y] \in R \cup {Nil}
  BY ReachClosed, Zenon
<1>2. Reach(new, e) \subseteq R
  BY <1>1, ReachLeast, Zenon
<1>3. R \subseteq Reach(new, e)
  <2> DEFINE S == Reach(new, e)
  <2>1. S \in SUBSET Core /\ e \in S \cup {Nil} /\ \A y \in S : new[y] \in S \cup {Nil}
    BY ReachClosed, Zenon
  <2>2. \A y \in S : next[y] \in S \cup {Nil}
    BY <1>2, <2>1, Zenon
  <2> HIDE DEF S
  <2>3. R \subseteq S
    BY <2>1, <2>2, ReachLeast, Zenon
  <2> QED
    BY <2>3, Zenon DEF S
<1>4. Reach(new, e) = R
  BY <1>2, <1>3, Zenon
<1> QED
  BY <1>4, Zenon DEF Linear

\* An entry on top of a stack.
LEMMA ReachPush ==
    ASSUME NEW next \in Pointers, NEW new \in Pointers, NEW h \in Core \cup {Nil}, NEW e \in Core,
           Linear(next, h), e \notin Reach(next, h), new[e] = h,
           \A x \in Reach(next, h) : new[x] = next[x]
    PROVE  Reach(new, e) = Reach(next, h) \cup {e} /\ Linear(new, e)
<1> DEFINE R == Reach(next, h)
<1>1. R \in SUBSET Core /\ h \in R \cup {Nil} /\ \A y \in R : next[y] \in R \cup {Nil}
  BY ReachClosed, Zenon
<1>2. Reach(new, h) = R
  BY ReachKept, Zenon
<1>3. Reach(new, e) \subseteq R \cup {e}
  <2> DEFINE T == R \cup {e}
  <2>1. T \in SUBSET Core /\ e \in T \cup {Nil}
    BY <1>1, Zenon
  <2>2. \A y \in T : new[y] \in T \cup {Nil}
    BY <1>1, Zenon
  <2> HIDE DEF T
  <2>3. Reach(new, e) \subseteq T
    BY <2>1, <2>2, ReachLeast, Zenon
  <2> QED
    BY <2>3, Zenon DEF T
<1>4. /\ Reach(new, e) \in SUBSET Core /\ e \in Reach(new, e)
      /\ \A y \in Reach(new, e) : new[y] \in Reach(new, e) \cup {Nil}
  BY ReachClosed, NilNoCore, Zenon
<1>5. R \subseteq Reach(new, e)
  BY <1>2, <1>4, ReachLeast, Zenon
<1>6. Reach(new, e) = R \cup {e}
  BY <1>3, <1>4, <1>5, Zenon
<1>7. ASSUME NEW x \in R \cup {e}, NEW y \in R \cup {e}
      PROVE  new[x] # e /\ (new[x] = new[y] /\ new[x] # Nil => x = y)
  <2>1. new[x] # e
    <3>1. CASE x = e
      BY <1>1, <3>1, NilNoCore, Zenon
    <3>2. CASE x \in R
      <4>1. new[x] \in R \cup {Nil} /\ e \notin R /\ e # Nil
        BY <1>1, <3>2, NilNoCore, Zenon
      <4> QED
        BY <4>1, Zenon
    <3> QED
      BY <3>1, <3>2, Zenon
  <2>2. CASE x \in R /\ y \in R
    BY <2>1, <2>2, Zenon DEF Linear
  <2>3. CASE x = e /\ y \in R
    BY <1>1, <2>1, <2>3, Zenon DEF Linear
  <2>4. CASE x \in R /\ y = e
    BY <1>1, <2>1, <2>4, Zenon DEF Linear
  <2> QED
    BY <2>1, <2>2, <2>3, <2>4, Zenon
<1> QED
  BY <1>6, <1>7, Zenon DEF Linear

\* The first entry is taken off.
LEMMA ReachPop ==
    ASSUME NEW next \in Pointers, NEW new \in Pointers, NEW e \in Core, Linear(next, e),
           \A x \in Core \ {e} : new[x] = next[x]
    PROVE  /\ e \in Reach(next, e)
           /\ Reach(new, next[e]) = Reach(next, e) \ {e}
           /\ Linear(new, next[e])
<1> DEFINE R == Reach(next, e)
           h == next[e]
<1>1. R \in SUBSET Core /\ e \in R /\ \A y \in R : next[y] \in R \cup {Nil}
  BY ReachClosed, NilNoCore, Zenon
<1>2. h \in (R \ {e}) \cup {Nil}
  BY <1>1, Zenon DEF Linear
<1>3. Reach(new, h) \subseteq R \ {e}
  <2> DEFINE T == R \ {e}
  <2>1. \A y \in T : new[y] \in T \cup {Nil}
    BY <1>1, Zenon DEF Linear
  <2>2. T \in SUBSET Core /\ h \in T \cup {Nil}
    BY <1>1, <1>2, Zenon
  <2> HIDE DEF T
  <2>3. Reach(new, h) \subseteq T
    BY <2>1, <2>2, ReachLeast, Zenon
  <2> QED
    BY <2>3, Zenon DEF T
<1>4. R \subseteq Reach(new, h) \cup {e}
  <2> DEFINE S == Reach(new, h)
  <2>1. S \in SUBSET Core /\ h \in S \cup {Nil} /\ \A y \in S : new[y] \in S \cup {Nil}
    BY <1>1, <1>2, ReachClosed, Zenon
  <2>2. \A y \in S \cup {e} : next[y] \in (S \cup {e}) \cup {Nil}
    BY <2>1, Zenon
  <2>3. S \cup {e} \in SUBSET Core /\ e \in (S \cup {e}) \cup {Nil}
    BY <2>1, Zenon
  <2> HIDE DEF S
  <2>4. R \subseteq S \cup {e}
    BY <2>2, <2>3, ReachLeast, Zenon
  <2> QED
    BY <2>4, Zenon DEF S
<1>5. Reach(new, h) = R \ {e}
  BY <1>3, <1>4, Zenon
<1>6. ASSUME NEW x \in R \ {e}, NEW y \in R \ {e}
      PROVE  new[x] # h /\ (new[x] = new[y] /\ new[x] # Nil => x = y)
  <2>1. new[x] = next[x] /\ new[y] = next[y] /\ x # e /\ h # Nil
    BY <1>1, <1>5, ReachNil, Zenon
  <2> QED
    BY <1>1, <2>1, Zenon DEF Linear
<1> QED
  BY <1>1, <1>5, <1>6, Zenon DEF Linear

\* An entry is linked to the last one.
LEMMA ReachAppend ==
    ASSUME NEW next \in Pointers, NEW new \in Pointers, NEW h \in Core, NEW t \in Reach(next, h),
           NEW e \in Core \ Reach(next, h), Linear(next, h), next[t] = Nil, new[t] = e, new[e] = Nil,
           \A x \in Reach(next, h) \ {t} : new[x] = next[x]
    PROVE  Reach(new, h) = Reach(next, h) \cup {e} /\ Linear(new, h)
<1> DEFINE R == Reach(next, h)
           S == Reach(new, h)
<1>1. R \in SUBSET Core /\ h \in R /\ \A y \in R : next[y] \in R \cup {Nil}
  BY ReachClosed, NilNoCore, Zenon
<1>2. S \in SUBSET Core /\ h \in S /\ \A y \in S : new[y] \in S \cup {Nil}
  BY ReachClosed, NilNoCore, Zenon
<1>3. S \subseteq R \cup {e}
  <2> DEFINE T == R \cup {e}
  <2>1. \A y \in T : new[y] \in T \cup {Nil}
    BY <1>1, Zenon
  <2>2. T \in SUBSET Core /\ h \in T \cup {Nil}
    BY <1>1, Zenon
  <2> HIDE DEF T
  <2>3. S \subseteq T
    BY <2>1, <2>2, ReachLeast, Zenon
  <2> QED
    BY <2>3, Zenon DEF T
<1>4. R \subseteq S
  <2>1. \A y \in S \cap R : next[y] \in (S \cap R) \cup {Nil}
    BY <1>1, <1>2, Zenon
  <2>2. S \cap R \in SUBSET Core /\ h \in (S \cap R) \cup {Nil}
    BY <1>1, <1>2, Zenon
  <2> DEFINE T == S \cap R
  <2> HIDE DEF T
  <2>3. R \subseteq T
    BY <2>1, <2>2, ReachLeast, Zenon DEF T
  <2> QED
    BY <2>3, Zenon DEF T
<1>5. e \in S
  BY <1>2, <1>4, NilNoCore, Zenon
<1>6. S = R \cup {e}
  BY <1>3, <1>4, <1>5, Zenon
<1>7. ASSUME NEW x \in R \cup {e}, NEW y \in R \cup {e}
      PROVE  new[x] # h /\ (new[x] = new[y] /\ new[x] # Nil => x = y)
  <2>1. \A z \in R \cup {e} : \/ z = t /\ new[z] = e
                              \/ z = e /\ new[z] = Nil
                              \/ z \in R \ {t} /\ new[z] = next[z]
    BY Zenon
  <2>2. e # h /\ e \notin R
    BY <1>1, Zenon
  <2>3. new[x] # h
    BY <1>1, <2>1, <2>2, NilNoCore, Zenon DEF Linear
  <2>4. ASSUME new[x] = new[y], new[x] # Nil PROVE x = y
    <3>1. CASE x = t
      BY <1>1, <2>1, <2>2, <2>4, <3>1, NilNoCore, Zenon
    <3>2. CASE x \in R \ {t} /\ new[x] = next[x]
      <4>1. next[x] \in R
        BY <1>1, <2>4, <3>2, Zenon
      <4>2. y \in R /\ new[y] = next[y]
        BY <2>1, <2>2, <2>4, <3>2, <4>1, Zenon
      <4> QED
        BY <2>4, <3>2, <4>2, Zenon DEF Linear
    <3> QED
      BY <2>1, <2>4, <3>1, <3>2, Zenon
  <2> QED
    BY <2>3, <2>4, Zenon
<1> QED
  BY <1>6, <1>7, Zenon DEF Linear

-----------------------------------------------------------------------------
Mail == [to : Core \cup {Broadcast}, await : BOOLEAN, nonMaskable : BOOLEAN, poll : BOOLEAN]

TypeOK ==
    /\ links \in [Core -> Seq(Core)]
    /\ NextLink \in [Core -> [Core -> Core \cup {Nil}]]
    /\ left \in [Core -> Int]
    /\ kind \in [Core -> Mail \cup {NoMail}]
    /\ MailHead \in Pointers /\ MailTail \in Pointers /\ MailNmTop \in Pointers
    /\ pc \in [Core -> {"idle", "post", "wait", "isr"}]
    /\ posted \in [Core -> Nat]
    /\ job \in Pointers /\ nmEntry \in Pointers /\ nmJob \in Pointers
    /\ ran \in [Core -> [Core -> Nat]]

Dest(e) == {c \in Core : \E i \in 1 .. Len(links[e]) : links[e][i] = c}
Sent(e) == {c \in Core : \E i \in 1 .. posted[e] : links[e][i] = c}
Left(e) == {c \in Dest(e) : ran[e][c] = 0}

InPost(e) == pc[e] \in {"post", "wait"}

\* An entry, its links and its counter, while its poster is in Post and otherwise.
Entry(e) ==
    /\ InPost(e) =>
          kind[e] \in Mails[e] /\ kind[e].to # e /\ links[e] = Destinations(e, kind[e].to)
    /\ ~InPost(e) => links[e] = <<>>
    /\ posted[e] <= Len(links[e])
    /\ left[e] = Cardinality(Left(e))
    /\ \A c \in Core : /\ ran[e][c] \in {0, 1}
                       /\ c \notin Sent(e) => ran[e][c] = 0 /\ NextLink[e][c] = Nil

Queue(c) == Chain(c, MailHead[c])
Stack(c) == Chain(c, MailNmTop[c])
Batch(c) == Chain(c, nmEntry[c])

Waits(e, c) == c \in Sent(e) /\ ran[e][c] = 0

\* Core c has the mail that it was sent and has not run: queued, or at hand.
Mailbox_(c) ==
    /\ Linear(Links(c), MailHead[c]) /\ Linear(Links(c), MailNmTop[c]) /\ Linear(Links(c), nmEntry[c])
    /\ MailHead[c] = Nil => MailTail[c] = Nil
    /\ MailHead[c] # Nil => MailTail[c] \in Queue(c) /\ NextLink[MailTail[c]][c] = Nil
    /\ job[c] # Nil => Waits(job[c], c) /\ ~kind[job[c]].nonMaskable
    /\ nmJob[c] # Nil => Waits(nmJob[c], c) /\ kind[nmJob[c]].nonMaskable
    /\ Queue(c) = {e \in Core : Waits(e, c) /\ ~kind[e].nonMaskable /\ e # job[c]}
    /\ Stack(c) \cup Batch(c) = {e \in Core : Waits(e, c) /\ kind[e].nonMaskable /\ e # nmJob[c]}
    /\ Stack(c) \cap Batch(c) = {}

IInv == TypeOK /\ (\A e \in Core : Entry(e)) /\ (\A c \in Core : Mailbox_(c))

LEMMA Counted ==
    ASSUME NEW S \in SUBSET Core
    PROVE  /\ Cardinality(S) \in Nat
           /\ S = {} <=> Cardinality(S) = 0
           /\ \A c \in S : Cardinality(S \ {c}) = Cardinality(S) - 1
<1>1. IsFiniteSet(Core)
  BY FS_Interval, MailboxAssumption DEF Core
<1>2. IsFiniteSet(S)
  BY <1>1, FS_Subset, Zenon
<1> QED
  BY <1>2, FS_CardinalityType, FS_EmptySet, FS_RemoveElement, Zenon

\* A destination is in the list of links once, and there are as many as links.
LEMMA DestinationsCounted ==
    ASSUME NEW c \in Core, NEW to \in Core \cup {Broadcast}, to # c
    PROVE  LET q == Destinations(c, to)
               S == {d \in Core : \E i \in 1 .. Len(q) : q[i] = d}
           IN  /\ q \in Seq(Core) /\ Len(q) \in Nat /\ Len(q) = Cardinality(S)
               /\ q # <<>>
               /\ \A i, j \in 1 .. Len(q) : q[i] = q[j] => i = j
<1> DEFINE q == Destinations(c, to)
           S == {d \in Core : \E i \in 1 .. Len(q) : q[i] = d}
<1>0. N \in Nat /\ N > 1 /\ c \in 0 .. N - 1
  BY MailboxAssumption DEF Core
<1>1. CASE to = Broadcast
  <2>1. q = [i \in 1 .. N - 1 |-> IF i - 1 < c THEN i - 1 ELSE i]
    BY <1>1, Zenon DEF Destinations
  <2>2. \A i \in 1 .. N - 1 : q[i] = (IF i - 1 < c THEN i - 1 ELSE i) /\ q[i] \in Core
    BY <1>0, <2>1 DEF Core
  <2>3. q \in Seq(Core) /\ Len(q) = N - 1
    BY <1>0, <2>1, <2>2
  <2>4. \A i, j \in 1 .. Len(q) : q[i] = q[j] => i = j
    BY <1>0, <2>2, <2>3
  <2>5. S = Core \ {c}
    <3>1. ASSUME NEW d \in Core, d # c PROVE \E i \in 1 .. N - 1 : q[i] = d
      <4>1. CASE d < c
        BY <1>0, <2>2, <3>1, <4>1 DEF Core
      <4>2. CASE d > c
        BY <1>0, <2>2, <3>1, <4>2 DEF Core
      <4> QED
        BY <1>0, <3>1, <4>1, <4>2 DEF Core
    <3>2. \A i \in 1 .. N - 1 : q[i] # c
      BY <1>0, <2>2
    <3> QED
      BY <2>3, <3>1, <3>2, Zenon
  <2>6. Cardinality(Core) = N
    BY <1>0, FS_Interval DEF Core
  <2>7. Cardinality(Core \ {c}) = N - 1
    BY <2>6, Counted, Zenon
  <2>8. Len(q) \in Nat /\ q # <<>>
    BY <1>0, <2>3
  <2> QED
    BY <2>3, <2>4, <2>5, <2>7, <2>8, Zenon
<1>2. CASE to # Broadcast
  <2>1. q = <<to>> /\ to \in Core
    BY <1>2, Zenon DEF Destinations
  <2>2. q \in Seq(Core) /\ Len(q) = 1 /\ q[1] = to /\ q # <<>>
    BY <2>1
  <2>3. S = {to}
    BY <2>1, <2>2
  <2>4. Cardinality({to}) = 1
    BY FS_Singleton, Zenon
  <2>5. \A i, j \in 1 .. Len(q) : q[i] = q[j] => i = j
    BY <2>2
  <2>6. Len(q) \in Nat
    BY <2>2
  <2> QED
    BY <2>2, <2>3, <2>4, <2>5, <2>6, Zenon
<1> QED
  BY <1>1, <1>2, Zenon

LEMMA SentDest ==
    ASSUME TypeOK, NEW e \in Core, Entry(e)
    PROVE  /\ Sent(e) \subseteq Dest(e) /\ Left(e) \in SUBSET Core
           /\ posted[e] \in Nat /\ Len(links[e]) \in Nat
<1>1. posted[e] \in Nat /\ Len(links[e]) \in Nat /\ posted[e] <= Len(links[e])
  BY DEF TypeOK, Entry
<1>2. \A i \in 1 .. posted[e] : i \in 1 .. Len(links[e])
  BY <1>1
<1> QED
  BY <1>1, <1>2, Zenon DEF Sent, Dest, Left

\* What core d was sent, and how it is linked, did not change.
LEMMA MailboxKept ==
    ASSUME IInv, TypeOK', NEW d \in Core,
           MailHead'[d] = MailHead[d], MailTail'[d] = MailTail[d], MailNmTop'[d] = MailNmTop[d],
           nmEntry'[d] = nmEntry[d], job'[d] = job[d], nmJob'[d] = nmJob[d],
           \A e \in Core : Waits(e, d)' <=> Waits(e, d),
           \A e \in Core : Waits(e, d) => NextLink'[e][d] = NextLink[e][d] /\ kind'[e] = kind[e]
    PROVE  Mailbox_(d)'
<1>1. TypeOK /\ Mailbox_(d)
  BY Zenon DEF IInv
<1>2. Links(d) \in Pointers /\ Links(d)' \in Pointers
  <2>0. NextLink \in [Core -> Pointers] /\ NextLink' \in [Core -> Pointers]
    BY <1>1, Zenon DEF TypeOK, Pointers
  <2>1. \A e \in Core : NextLink[e][d] \in Core \cup {Nil} /\ NextLink'[e][d] \in Core \cup {Nil}
    BY <2>0, Zenon DEF Pointers
  <2> QED
    BY <2>1, Zenon DEF Links, Pointers
<1>3. \A e \in Core : Waits(e, d) => Links(d)'[e] = Links(d)[e]
  BY Zenon DEF Links
<1>4. ASSUME NEW e \in Queue(d) \cup Stack(d) \cup Batch(d) PROVE e \in Core /\ Waits(e, d)
  BY <1>1, Zenon DEF Mailbox_
<1>5. MailHead[d] \in Core \cup {Nil} /\ MailNmTop[d] \in Core \cup {Nil} /\ nmEntry[d] \in Core \cup {Nil}
  BY <1>1, Zenon DEF TypeOK, Pointers
<1>6. Queue(d)' = Queue(d) /\ Linear(Links(d)', MailHead[d])
  <2>1. \A e \in Reach(Links(d), MailHead[d]) : Links(d)'[e] = Links(d)[e]
    BY <1>3, <1>4, Zenon DEF Queue, Chain
  <2>2. Linear(Links(d), MailHead[d])
    BY <1>1, Zenon DEF Mailbox_
  <2>3. Queue(d) = Reach(Links(d), MailHead[d]) /\ Queue(d)' = Reach(Links(d)', MailHead[d])
    BY Zenon DEF Queue, Chain
  <2> QED
    BY <1>2, <1>5, <2>1, <2>2, <2>3, ReachKept, Zenon
<1>7. Stack(d)' = Stack(d) /\ Linear(Links(d)', MailNmTop[d])
  <2>1. \A e \in Reach(Links(d), MailNmTop[d]) : Links(d)'[e] = Links(d)[e]
    BY <1>3, <1>4, Zenon DEF Stack, Chain
  <2>2. Linear(Links(d), MailNmTop[d])
    BY <1>1, Zenon DEF Mailbox_
  <2>3. Stack(d) = Reach(Links(d), MailNmTop[d]) /\ Stack(d)' = Reach(Links(d)', MailNmTop[d])
    BY Zenon DEF Stack, Chain
  <2> QED
    BY <1>2, <1>5, <2>1, <2>2, <2>3, ReachKept, Zenon
<1>8. Batch(d)' = Batch(d) /\ Linear(Links(d)', nmEntry[d])
  <2>1. \A e \in Reach(Links(d), nmEntry[d]) : Links(d)'[e] = Links(d)[e]
    BY <1>3, <1>4, Zenon DEF Batch, Chain
  <2>2. Linear(Links(d), nmEntry[d])
    BY <1>1, Zenon DEF Mailbox_
  <2>3. Batch(d) = Reach(Links(d), nmEntry[d]) /\ Batch(d)' = Reach(Links(d)', nmEntry[d])
    BY Zenon DEF Batch, Chain
  <2> QED
    BY <1>2, <1>5, <2>1, <2>2, <2>3, ReachKept, Zenon
<1>9. /\ Linear(Links(d), MailHead[d])' /\ Linear(Links(d), MailNmTop[d])'
      /\ Linear(Links(d), nmEntry[d])'
  BY <1>6, <1>7, <1>8, Zenon
<1>10. /\ (MailHead[d] = Nil => MailTail[d] = Nil)'
       /\ (MailHead[d] # Nil => MailTail[d] \in Queue(d) /\ NextLink[MailTail[d]][d] = Nil)'
  BY <1>1, <1>4, <1>6, Zenon DEF Mailbox_
<1>11. job[d] \in Core \cup {Nil} /\ nmJob[d] \in Core \cup {Nil}
  BY <1>1, Zenon DEF TypeOK, Pointers
<1>12. (job[d] # Nil => Waits(job[d], d) /\ ~kind[job[d]].nonMaskable)'
  BY <1>1, <1>11, Zenon DEF Mailbox_
<1>13. (nmJob[d] # Nil => Waits(nmJob[d], d) /\ kind[nmJob[d]].nonMaskable)'
  BY <1>1, <1>11, Zenon DEF Mailbox_
<1>14. (Queue(d) = {e \in Core : Waits(e, d) /\ ~kind[e].nonMaskable /\ e # job[d]})'
  <2>1. Queue(d) = {e \in Core : Waits(e, d) /\ ~kind[e].nonMaskable /\ e # job[d]}
    BY <1>1, Zenon DEF Mailbox_
  <2> QED
    BY <1>6, <2>1, Zenon
<1>15. (Stack(d) \cup Batch(d) = {e \in Core : Waits(e, d) /\ kind[e].nonMaskable /\ e # nmJob[d]})'
  BY <1>1, <1>7, <1>8, Zenon DEF Mailbox_
<1>16. (Stack(d) \cap Batch(d) = {})'
  BY <1>1, <1>7, <1>8, Zenon DEF Mailbox_
<1> QED
  BY <1>9, <1>10, <1>12, <1>13, <1>14, <1>15, <1>16, Zenon DEF Mailbox_

\* The entry of e did not change.
LEMMA EntryKept ==
    ASSUME NEW e \in Core, Entry(e), InPost(e)' <=> InPost(e), links'[e] = links[e],
           NextLink'[e] = NextLink[e],
           left'[e] = left[e], kind'[e] = kind[e], posted'[e] = posted[e], ran'[e] = ran[e]
    PROVE  Entry(e)' /\ \A d \in Core : Waits(e, d)' <=> Waits(e, d)
<1>1. Dest(e)' = Dest(e) /\ Sent(e)' = Sent(e)
  BY Zenon DEF Dest, Sent
<1>2. Left(e)' = Left(e)
  BY <1>1, Zenon DEF Left
<1> QED
  BY <1>1, <1>2, Zenon DEF Entry, Waits

-----------------------------------------------------------------------------
\* Steps that leave entries and queues alone.
LEMMA QuietStep ==
    ASSUME IInv, UNCHANGED <<entries, queues, posted, job, nmEntry, nmJob, ran>>,
           pc' \in [Core -> {"idle", "post", "wait", "isr"}],
           \A e \in Core : InPost(e)' <=> InPost(e)
    PROVE  IInv'
<1>1. /\ links' = links /\ NextLink' = NextLink /\ left' = left /\ kind' = kind
      /\ MailHead' = MailHead /\ MailTail' = MailTail /\ MailNmTop' = MailNmTop
      /\ posted' = posted /\ job' = job /\ nmEntry' = nmEntry /\ nmJob' = nmJob /\ ran' = ran
  BY Zenon DEF entries, queues
<1>2. TypeOK'
  BY <1>1, Zenon DEF IInv, TypeOK
<1>3. ASSUME NEW e \in Core PROVE Entry(e)' /\ \A d \in Core : Waits(e, d)' <=> Waits(e, d)
  BY <1>1, EntryKept, Zenon DEF IInv
<1>4. ASSUME NEW d \in Core PROVE Mailbox_(d)'
  BY <1>1, <1>2, <1>3, MailboxKept, Zenon
<1> QED
  BY <1>2, <1>3, <1>4, Zenon DEF IInv

LEMMA PostAnnounceStep ==
    ASSUME IInv, NEW c \in Core, PostAnnounce(c) PROVE IInv'
<1>1. pc \in [Core -> {"idle", "post", "wait", "isr"}] /\ pc' = [pc EXCEPT ![c] = "wait"] /\ pc[c] = "post"
  BY Zenon DEF IInv, TypeOK, PostAnnounce
<1>2. pc' \in [Core -> {"idle", "post", "wait", "isr"}] /\ \A e \in Core : InPost(e)' <=> InPost(e)
  BY <1>1, Zenon DEF InPost
<1> QED
  BY <1>2, QuietStep, Zenon DEF PostAnnounce, nm

LEMMA InterruptSteps ==
    ASSUME IInv, NEW c \in Core, IsrEnter(c) \/ IsrLeave(c) PROVE IInv'
<1>1. /\ pc \in [Core -> {"idle", "post", "wait", "isr"}] /\ pc[c] \in {"idle", "isr"}
      /\ pc' = [pc EXCEPT ![c] = "isr"] \/ pc' = [pc EXCEPT ![c] = "idle"]
  BY Zenon DEF IInv, TypeOK, IsrEnter, IsrLeave
<1>2. pc' \in [Core -> {"idle", "post", "wait", "isr"}] /\ \A e \in Core : InPost(e)' <=> InPost(e)
  BY <1>1, Zenon DEF InPost
<1> QED
  BY <1>2, QuietStep, Zenon DEF IsrEnter, IsrLeave, nm

LEMMA NmiEnterStep ==
    ASSUME IInv, NEW c \in Core, NmiEnter(c) PROVE IInv'
<1>1. pc' = pc
  BY Zenon DEF NmiEnter, main
<1> QED
  BY <1>1, QuietStep, Zenon DEF NmiEnter, main, IInv, TypeOK, InPost

\* Nobody was sent an entry that is made or given up.
LEMMA UnsentStep ==
    ASSUME IInv, TypeOK', NEW c \in Core, Entry(c)',
           \A d \in Core : ~Waits(c, d) /\ ~Waits(c, d)',
           \A e \in Core \ {c} : /\ InPost(e)' <=> InPost(e)
                                 /\ links'[e] = links[e] /\ NextLink'[e] = NextLink[e] /\ left'[e] = left[e]
                                 /\ kind'[e] = kind[e] /\ posted'[e] = posted[e] /\ ran'[e] = ran[e],
           UNCHANGED <<queues, job, nmEntry, nmJob>>
    PROVE  IInv'
<1>1. ASSUME NEW e \in Core, e # c PROVE Entry(e)' /\ \A d \in Core : Waits(e, d)' <=> Waits(e, d)
  <2>1. Entry(e)
    BY Zenon DEF IInv
  <2> QED
    BY <1>1, <2>1, EntryKept, Zenon
<1>2. ASSUME NEW d \in Core PROVE Mailbox_(d)'
  <2>1. \A e \in Core : Waits(e, d)' <=> Waits(e, d)
    BY <1>1, Zenon
  <2>2. \A e \in Core : Waits(e, d) => NextLink'[e][d] = NextLink[e][d] /\ kind'[e] = kind[e]
    BY Zenon
  <2> QED
    BY <2>1, <2>2, MailboxKept, Zenon DEF queues
<1> QED
  BY <1>1, <1>2, Zenon DEF IInv

LEMMA PostStep ==
    ASSUME IInv, NEW c \in Core, NEW mail \in Mails[c], Post(c, mail) PROVE IInv'
<1> DEFINE q == Destinations(c, mail.to)
           S == {d \in Core : \E i \in 1 .. Len(q) : q[i] = d}
<1>1. mail \in Mail /\ mail.to \in Core \cup {Broadcast} /\ mail.to # c
  BY MailboxAssumption, Zenon DEF Mail, Post
<1>2. q \in Seq(Core) /\ Len(q) \in Nat /\ Len(q) = Cardinality(S)
  BY <1>1, DestinationsCounted, Zenon
<1>2a. Len(q) \in Int /\ 0 <= Len(q)
  <2>1. \A n \in Nat : n \in Int /\ 0 <= n
    OBVIOUS
  <2> QED
    BY <1>2, <2>1, Zenon
<1> HIDE DEF q
<1>3. /\ TypeOK /\ Entry(c) /\ pc[c] = "idle"
      /\ links' = [links EXCEPT ![c] = q]
      /\ NextLink' = [NextLink EXCEPT ![c] = [d \in Core |-> Nil]]
      /\ left' = [left EXCEPT ![c] = Len(links'[c])]
      /\ kind' = [kind EXCEPT ![c] = mail]
      /\ ran' = [ran EXCEPT ![c] = [d \in Core |-> 0]]
      /\ pc' = [pc EXCEPT ![c] = "post"]
      /\ UNCHANGED <<queues, posted, job, nmEntry, nmJob>>
  BY Zenon DEF IInv, Post, q, nm
<1>4. posted[c] = 0 /\ posted' = posted
  BY <1>3 DEF Entry, InPost, TypeOK
<1>5. /\ links'[c] = q /\ NextLink'[c] = [d \in Core |-> Nil] /\ left'[c] = Len(q)
      /\ kind'[c] = mail /\ ran'[c] = [d \in Core |-> 0] /\ pc'[c] = "post"
  BY <1>3, Zenon DEF TypeOK
<1>6. TypeOK'
  <2>1. links' \in [Core -> Seq(Core)]
    BY <1>2, <1>3, Zenon DEF TypeOK
  <2>0. left' \in [Core -> Int]
    <3>1. left' = [left EXCEPT ![c] = Len(q)]
      BY <1>3, <1>5, Zenon
    <3> QED
      BY <1>2, <1>3, <3>1, <1>2a, Zenon DEF TypeOK
  <2>2. NextLink' \in [Core -> [Core -> Core \cup {Nil}]] /\ ran' \in [Core -> [Core -> Nat]]
    BY <1>3, Zenon DEF TypeOK
  <2>3. kind' \in [Core -> Mail \cup {NoMail}] /\ pc' \in [Core -> {"idle", "post", "wait", "isr"}]
    BY <1>1, <1>3, Zenon DEF TypeOK
  <2> QED
    BY <1>3, <1>4, <2>0, <2>1, <2>2, <2>3, Zenon DEF TypeOK, queues
<1>7. Sent(c) = {} /\ Sent(c)' = {}
  BY <1>4 DEF Sent
<1>8. Entry(c)'
  <2>1. Left(c)' = S
    BY <1>5, Zenon DEF Left, Dest
  <2>2. InPost(c)'
    BY <1>5, Zenon DEF InPost
  <2>3. kind'[c] \in Mails[c] /\ kind'[c].to # c /\ links'[c] = Destinations(c, kind'[c].to)
    BY <1>1, <1>5, Zenon DEF q
  <2>4. posted'[c] <= Len(links'[c])
    <3>1. posted'[c] = 0 /\ links'[c] = q
      BY <1>4, <1>5, Zenon
    <3>2. Len(links'[c]) = Len(q)
      BY <3>1, Zenon
    <3> QED
      BY <1>2a, <3>1, <3>2, Zenon
  <2>5. left'[c] = Cardinality(Left(c)')
    BY <1>2, <1>5, <2>1, Zenon
  <2>6. \A d \in Core : ran'[c][d] \in {0, 1} /\ ran'[c][d] = 0 /\ NextLink'[c][d] = Nil
    BY <1>5, Zenon
  <2> QED
    BY <2>2, <2>3, <2>4, <2>5, <2>6, Zenon DEF Entry
<1>9. \A d \in Core : ~Waits(c, d) /\ ~Waits(c, d)'
  BY <1>7, Zenon DEF Waits
<1>10. \A e \in Core \ {c} : /\ pc'[e] = pc[e] /\ links'[e] = links[e] /\ NextLink'[e] = NextLink[e]
                             /\ left'[e] = left[e] /\ kind'[e] = kind[e] /\ ran'[e] = ran[e]
  BY <1>3, Zenon DEF TypeOK
<1> QED
  BY <1>3, <1>4, <1>6, <1>8, <1>9, <1>10, UnsentStep, Zenon DEF InPost

LEMMA PostReturnStep ==
    ASSUME IInv, NEW c \in Core, PostReturn(c) PROVE IInv'
<1>1. /\ TypeOK /\ Entry(c) /\ left[c] = 0
      /\ pc' = [pc EXCEPT ![c] = "idle"]
      /\ posted' = [posted EXCEPT ![c] = 0]
      /\ links' = [links EXCEPT ![c] = <<>>]
      /\ NextLink' = [NextLink EXCEPT ![c] = [d \in Core |-> Nil]]
      /\ kind' = [kind EXCEPT ![c] = NoMail]
      /\ ran' = [ran EXCEPT ![c] = [d \in Core |-> 0]]
      /\ left' = left /\ UNCHANGED <<queues, job, nmEntry, nmJob>>
  BY Zenon DEF IInv, PostReturn, Done, nm
<1>2. /\ links'[c] = <<>> /\ NextLink'[c] = [d \in Core |-> Nil] /\ posted'[c] = 0
      /\ ran'[c] = [d \in Core |-> 0] /\ pc'[c] = "idle"
  BY <1>1, Zenon DEF TypeOK
<1>3. TypeOK'
  <2>1. links' \in [Core -> Seq(Core)] /\ posted' \in [Core -> Nat]
    BY <1>1 DEF TypeOK
  <2>2. NextLink' \in [Core -> [Core -> Core \cup {Nil}]] /\ ran' \in [Core -> [Core -> Nat]]
    BY <1>1, Zenon DEF TypeOK
  <2>3. kind' \in [Core -> Mail \cup {NoMail}] /\ pc' \in [Core -> {"idle", "post", "wait", "isr"}]
    BY <1>1, Zenon DEF TypeOK
  <2> QED
    BY <1>1, <2>1, <2>2, <2>3, Zenon DEF TypeOK, queues
<1>4. Left(c) = {}
  <2>1. Left(c) \in SUBSET Core
    BY Zenon DEF Left, Dest
  <2> QED
    BY <1>1, <2>1, Counted, Zenon DEF Entry
<1>5. Sent(c) \subseteq Dest(c)
  BY <1>1, SentDest, Zenon
<1>6. Sent(c)' = {} /\ Dest(c)' = {}
  BY <1>2 DEF Sent, Dest
<1>7. \A d \in Core : ~Waits(c, d) /\ ~Waits(c, d)'
  BY <1>4, <1>5, <1>6, Zenon DEF Waits, Left
<1>8. Entry(c)'
  <2>1. Left(c)' = {}
    BY <1>6, Zenon DEF Left
  <2>2. ~InPost(c)'
    BY <1>2, Zenon DEF InPost
  <2>3. posted'[c] <= Len(links'[c])
    BY <1>2
  <2>4. left'[c] = Cardinality(Left(c)')
    BY <1>1, <1>4, <2>1, Zenon DEF Entry
  <2>5. \A d \in Core : ran'[c][d] \in {0, 1} /\ ran'[c][d] = 0 /\ NextLink'[c][d] = Nil
    BY <1>2, Zenon
  <2> QED
    BY <1>2, <2>2, <2>3, <2>4, <2>5, Zenon DEF Entry
<1>9. \A e \in Core \ {c} : /\ pc'[e] = pc[e] /\ links'[e] = links[e] /\ NextLink'[e] = NextLink[e]
                            /\ posted'[e] = posted[e] /\ kind'[e] = kind[e] /\ ran'[e] = ran[e]
  BY <1>1, Zenon DEF TypeOK
<1> QED
  BY <1>1, <1>3, <1>7, <1>8, <1>9, UnsentStep, Zenon DEF InPost

-----------------------------------------------------------------------------
LEMMA ExceptOne ==
    ASSUME NEW T, NEW f \in [Core -> [Core -> T]], NEW a \in Core, NEW b \in Core, NEW v \in T,
           NEW g, g = [f EXCEPT ![a] = [f[a] EXCEPT ![b] = v]]
    PROVE  /\ g \in [Core -> [Core -> T]] /\ g[a][b] = v
           /\ \A x, y \in Core : ~(x = a /\ y = b) => g[x][y] = f[x][y]
<1>1. f[a] \in [Core -> T]
  BY Zenon
<1> DEFINE r == [f[a] EXCEPT ![b] = v]
<1>2. r \in [Core -> T] /\ r[b] = v /\ \A y \in Core : y # b => r[y] = f[a][y]
  BY <1>1, Zenon
<1> HIDE DEF r
<1>3. g = [f EXCEPT ![a] = r]
  BY Zenon DEF r
<1>4. g \in [Core -> [Core -> T]] /\ g[a] = r /\ \A x \in Core : x # a => g[x] = f[x]
  BY <1>2, <1>3, Zenon
<1> QED
  BY <1>2, <1>4, Zenon

\* One link of one entry is written.
SetLink(a, b, v) == NextLink' = [NextLink EXCEPT ![a] = [NextLink[a] EXCEPT ![b] = v]]

OneLink(a, b, v) ==
    /\ NextLink' \in [Core -> [Core -> Core \cup {Nil}]] /\ NextLink'[a][b] = v
    /\ \A x, y \in Core : ~(x = a /\ y = b) => NextLink'[x][y] = NextLink[x][y]

LEMMA LinkOne ==
    ASSUME TypeOK, NEW a \in Core, NEW b \in Core, NEW v \in Core \cup {Nil}, SetLink(a, b, v)
    PROVE  OneLink(a, b, v)
<1> DEFINE T == Core \cup {Nil}
<1>1. NextLink \in [Core -> [Core -> T]] /\ v \in T
  BY Zenon DEF TypeOK
<1> HIDE DEF T
<1>2. /\ NextLink' \in [Core -> [Core -> T]] /\ NextLink'[a][b] = v
      /\ \A x, y \in Core : ~(x = a /\ y = b) => NextLink'[x][y] = NextLink[x][y]
  BY <1>1, ExceptOne, Zenon DEF SetLink
<1> QED
  BY <1>2, Zenon DEF T, OneLink

LEMMA LinksTyped ==
    ASSUME TypeOK, TypeOK', NEW d \in Core
    PROVE  /\ Links(d) \in Pointers /\ Links(d)' \in Pointers
           /\ \A e \in Core : Links(d)[e] = NextLink[e][d] /\ Links(d)'[e] = NextLink'[e][d]
<1>1. NextLink \in [Core -> Pointers] /\ NextLink' \in [Core -> Pointers]
  BY Zenon DEF TypeOK, Pointers
<1>2. \A e \in Core : NextLink[e][d] \in Core \cup {Nil} /\ NextLink'[e][d] \in Core \cup {Nil}
  BY <1>1, Zenon DEF Pointers
<1> QED
  BY <1>2, Zenon DEF Links, Pointers

LEMMA ChainKept ==
    ASSUME TypeOK, TypeOK', NEW d \in Core, NEW h \in Core \cup {Nil}, Linear(Links(d), h),
           \A x \in Reach(Links(d), h) : NextLink'[x][d] = NextLink[x][d]
    PROVE  Reach(Links(d)', h) = Reach(Links(d), h) /\ Linear(Links(d)', h)
<1>1. /\ Links(d) \in Pointers /\ Links(d)' \in Pointers
      /\ \A e \in Core : Links(d)[e] = NextLink[e][d] /\ Links(d)'[e] = NextLink'[e][d]
  BY LinksTyped, Zenon
<1>2. Reach(Links(d), h) \in SUBSET Core
  BY <1>1, ReachClosed, Zenon
<1>3. \A x \in Reach(Links(d), h) : Links(d)'[x] = Links(d)[x]
  BY <1>1, <1>2, Zenon
<1> QED
  BY <1>1, <1>3, ReachKept, Zenon

LEMMA NilChain ==
    ASSUME NEW next PROVE Reach(next, Nil) = {} /\ Linear(next, Nil)
BY ReachNil, Zenon DEF Linear

LEMMA LinksTypedNow ==
    ASSUME TypeOK, NEW d \in Core
    PROVE  Links(d) \in Pointers /\ \A e \in Core : Links(d)[e] = NextLink[e][d]
<1>1. NextLink \in [Core -> Pointers]
  BY Zenon DEF TypeOK, Pointers
<1>2. \A e \in Core : NextLink[e][d] \in Core \cup {Nil}
  BY <1>1, Zenon DEF Pointers
<1> QED
  BY <1>2, Zenon DEF Links, Pointers

LEMMA ReachFirst ==
    ASSUME NEW next \in Pointers, NEW e \in Core PROVE e \in Reach(next, e)
BY ReachClosed, NilNoCore, Zenon

\* The lists of non-maskable mail of core c stay when their links do.
LEMMA OtherChains ==
    ASSUME TypeOK, TypeOK', NEW c \in Core, Mailbox_(c), MailNmTop'[c] = MailNmTop[c], nmEntry'[c] = nmEntry[c],
           \A x \in Stack(c) \cup Batch(c) : NextLink'[x][c] = NextLink[x][c]
    PROVE  /\ Stack(c)' = Stack(c) /\ Batch(c)' = Batch(c)
           /\ Linear(Links(c), MailNmTop[c])' /\ Linear(Links(c), nmEntry[c])'
<1>1. MailNmTop[c] \in Core \cup {Nil} /\ nmEntry[c] \in Core \cup {Nil}
  BY Zenon DEF TypeOK, Pointers
<1>2. /\ Stack(c) = Reach(Links(c), MailNmTop[c]) /\ Stack(c)' = Reach(Links(c)', MailNmTop[c])
      /\ Batch(c) = Reach(Links(c), nmEntry[c]) /\ Batch(c)' = Reach(Links(c)', nmEntry[c])
  BY Zenon DEF Stack, Batch, Chain
<1>3. Linear(Links(c), MailNmTop[c]) /\ Linear(Links(c), nmEntry[c])
  BY Zenon DEF Mailbox_
<1>4. Reach(Links(c)', MailNmTop[c]) = Stack(c) /\ Linear(Links(c)', MailNmTop[c])
  BY <1>1, <1>2, <1>3, ChainKept, Zenon
<1>5. Reach(Links(c)', nmEntry[c]) = Batch(c) /\ Linear(Links(c)', nmEntry[c])
  BY <1>1, <1>2, <1>3, ChainKept, Zenon
<1> QED
  BY <1>2, <1>4, <1>5, Zenon

LEMMA QueueKept ==
    ASSUME TypeOK, TypeOK', NEW c \in Core, Mailbox_(c), MailHead'[c] = MailHead[c],
           \A x \in Queue(c) : NextLink'[x][c] = NextLink[x][c]
    PROVE  Queue(c)' = Queue(c) /\ Linear(Links(c), MailHead[c])'
<1>1. MailHead[c] \in Core \cup {Nil}
  BY Zenon DEF TypeOK, Pointers
<1>2. Queue(c) = Reach(Links(c), MailHead[c]) /\ Queue(c)' = Reach(Links(c)', MailHead[c])
  BY Zenon DEF Queue, Chain
<1>3. Linear(Links(c), MailHead[c])
  BY Zenon DEF Mailbox_
<1>4. Reach(Links(c)', MailHead[c]) = Queue(c) /\ Linear(Links(c)', MailHead[c])
  BY <1>1, <1>2, <1>3, ChainKept, Zenon
<1> QED
  BY <1>2, <1>4, Zenon

\* What the invariant says of one core, with the first entries typed.
LEMMA MailboxFacts ==
    ASSUME IInv, NEW c \in Core
    PROVE  /\ TypeOK /\ Entry(c) /\ Mailbox_(c)
           /\ MailHead[c] \in Core \cup {Nil} /\ MailTail[c] \in Core \cup {Nil}
           /\ MailNmTop[c] \in Core \cup {Nil} /\ nmEntry[c] \in Core \cup {Nil}
           /\ job[c] \in Core \cup {Nil} /\ nmJob[c] \in Core \cup {Nil}
           /\ Queue(c) = Reach(Links(c), MailHead[c]) /\ Stack(c) = Reach(Links(c), MailNmTop[c])
           /\ Batch(c) = Reach(Links(c), nmEntry[c])
BY Zenon DEF IInv, TypeOK, Pointers, Queue, Stack, Batch, Chain

\* Only links to entries that were sent are written.
LEMMA EntriesLinked ==
    ASSUME IInv, UNCHANGED <<links, left, kind, pc, posted, ran>>,
           \A x, d \in Core : d \notin Sent(x) => NextLink'[x][d] = NextLink[x][d]
    PROVE  \A x \in Core : Entry(x)' /\ \A d \in Core : Waits(x, d)' <=> Waits(x, d)
<1> TAKE x \in Core
<1>1. Entry(x)
  BY Zenon DEF IInv
<1>2. Sent(x)' = Sent(x) /\ Left(x)' = Left(x) /\ InPost(x)' = InPost(x)
  BY Zenon DEF Sent, Left, Dest, InPost
<1> QED
  BY <1>1, <1>2, Zenon DEF Entry, Waits

\* Core c lets go of entry e: there is one destination less, and it has run the mail.
LEMMA LetGoEntries ==
    ASSUME IInv, NEW c \in Core, NEW e \in Core, Waits(e, c), LetGo(c, e),
           UNCHANGED <<links, kind, pc, posted>>,
           \A x, d \in Core : d \notin Sent(x) => NextLink'[x][d] = NextLink[x][d]
    PROVE  /\ left' \in [Core -> Int] /\ ran' \in [Core -> [Core -> Nat]]
           /\ \A x \in Core : /\ Entry(x)'
                              /\ \A d \in Core : Waits(x, d)' <=> Waits(x, d) /\ ~(x = e /\ d = c)
<1>1. TypeOK /\ \A x \in Core : Entry(x)
  BY Zenon DEF IInv
<1>2. left' = [left EXCEPT ![e] = left[e] - 1] /\ ran' = [ran EXCEPT ![e] = [ran[e] EXCEPT ![c] = ran[e][c] + 1]]
  BY Zenon DEF LetGo
<1>3. ran[e][c] = 0 /\ c \in Sent(e)
  BY Zenon DEF Waits
<1>4. left' \in [Core -> Int]
  BY <1>1, <1>2 DEF TypeOK
<1>5. /\ ran' \in [Core -> [Core -> Nat]] /\ ran'[e][c] = 1
      /\ \A x, d \in Core : ~(x = e /\ d = c) => ran'[x][d] = ran[x][d]
  <2>1. ran' = [ran EXCEPT ![e] = [ran[e] EXCEPT ![c] = 1]] /\ 1 \in Nat
    BY <1>2, <1>3
  <2>2. ran \in [Core -> [Core -> Nat]]
    BY <1>1, Zenon DEF TypeOK
  <2> QED
    BY <2>1, <2>2, ExceptOne, Zenon
<1>6. \A x \in Core : x # e => left'[x] = left[x]
  BY <1>1, <1>2, Zenon DEF TypeOK
<1>7. \A x \in Core : Sent(x)' = Sent(x) /\ Dest(x)' = Dest(x) /\ InPost(x)' = InPost(x)
  BY Zenon DEF Sent, Dest, InPost
<1>8. \A x, d \in Core : Waits(x, d)' <=> Waits(x, d) /\ ~(x = e /\ d = c)
  BY <1>5, <1>7 DEF Waits
<1>9. ASSUME NEW x \in Core PROVE left'[x] = Cardinality(Left(x)')
  <2>1. left[x] = Cardinality(Left(x))
    BY <1>1, Zenon DEF Entry
  <2>2. CASE x # e
    <3>1. Left(x)' = Left(x)
      BY <1>5, <1>7, <2>2, Zenon DEF Left, Dest
    <3> QED
      BY <1>6, <2>1, <2>2, <3>1, Zenon
  <2>3. CASE x = e
    <3>1. Left(e)' = Left(e) \ {c}
      <4>1. Dest(e)' = Dest(e) /\ Dest(e) \subseteq Core
        BY <1>7, Zenon DEF Dest
      <4>2. 1 # 0
        OBVIOUS
      <4>3. \A d \in Core : ran'[e][d] = 0 <=> ran[e][d] = 0 /\ d # c
        BY <1>3, <1>5, <4>2, Zenon
      <4> QED
        BY <4>1, <4>3, Zenon DEF Left
    <3>2. c \in Left(e) /\ Left(e) \in SUBSET Core
      BY <1>1, <1>3, SentDest, Zenon DEF Left
    <3>3. Cardinality(Left(e) \ {c}) = Cardinality(Left(e)) - 1
      BY <3>2, Counted, Zenon
    <3>4. left'[e] = left[e] - 1
      BY <1>1, <1>2, Zenon DEF TypeOK
    <3> QED
      BY <2>1, <2>3, <3>1, <3>3, <3>4, Zenon
  <2> QED
    BY <2>2, <2>3, Zenon
<1>10. ASSUME NEW x \in Core PROVE Entry(x)'
  <2>1. \A d \in Core : /\ ran'[x][d] \in {0, 1}
                        /\ d \notin Sent(x) => ran'[x][d] = 0 /\ NextLink'[x][d] = Nil
    <3> TAKE d \in Core
    <3>1. CASE x = e /\ d = c
      BY <1>3, <1>5, <3>1, Zenon
    <3>2. CASE ~(x = e /\ d = c)
      <4>1. ran'[x][d] = ran[x][d] /\ (d \notin Sent(x) => NextLink'[x][d] = NextLink[x][d])
        BY <1>5, <3>2, Zenon
      <4>2. Entry(x)
        BY <1>1, Zenon
      <4> QED
        BY <4>1, <4>2, Zenon DEF Entry
    <3> QED
      BY <3>1, <3>2, Zenon
  <2> QED
    BY <1>1, <1>7, <1>9, <2>1, Zenon DEF Entry
<1> QED
  BY <1>4, <1>5, <1>8, <1>10, Zenon

-----------------------------------------------------------------------------
\* The head leaves the queue; it is at hand if it is awaited, and else it has been run.
LEMMA ExecuteHeadStep ==
    ASSUME IInv, NEW c \in Core, ExecuteHead(c) PROVE IInv'
<1>1. PICK h \in Core : h = MailHead[c]
  BY MailboxFacts, Zenon DEF ExecuteHead
<1>2. /\ job[c] = Nil /\ Dequeue(c, h) /\ Take(c, h)
      /\ job' = [job EXCEPT ![c] = IF kind[h].await THEN h ELSE Nil]
      /\ SetLink(h, c, Nil)
      /\ UNCHANGED <<links, kind, pc, posted, nmEntry, nmJob>>
  BY <1>1, Zenon DEF ExecuteHead, nm, SetLink
<1>3. /\ TypeOK /\ Mailbox_(c) /\ MailHead[c] # Nil
      /\ Queue(c) = Reach(Links(c), h) /\ Linear(Links(c), h)
  BY <1>1, MailboxFacts, NilNoCore, Zenon DEF Mailbox_
<1>5. /\ NextLink' \in [Core -> [Core -> Core \cup {Nil}]]
      /\ \A x, d \in Core : ~(x = h /\ d = c) => NextLink'[x][d] = NextLink[x][d]
  <2>1. Nil \in Core \cup {Nil}
    BY Zenon
  <2>2. OneLink(h, c, Nil)
    BY <1>2, <1>3, <2>1, LinkOne, Zenon
  <2> QED
    BY <2>2, Zenon DEF OneLink
<1>6. h \in Queue(c)
  BY <1>3, ReachFirst, LinksTypedNow, Zenon
<1>7. Waits(h, c) /\ ~kind[h].nonMaskable
  BY <1>3, <1>6, Zenon DEF Mailbox_
<1>8. \A x, d \in Core : d \notin Sent(x) => NextLink'[x][d] = NextLink[x][d]
  BY <1>5, <1>7, Zenon DEF Waits
<1>9. /\ left' \in [Core -> Int] /\ ran' \in [Core -> [Core -> Nat]]
      /\ \A x \in Core : /\ Entry(x)'
                         /\ \A d \in Core : Waits(x, d)' <=> Waits(x, d) /\ ~(x = h /\ d = c /\ ~kind[h].await)
  <2>1. CASE kind[h].await
    BY <1>2, <1>3, <1>8, <2>1, EntriesLinked, Zenon DEF Take, TypeOK
  <2>2. CASE ~kind[h].await
    BY <1>2, <1>7, <1>8, <2>2, LetGoEntries, Zenon DEF Take, LetGo
  <2> QED
    BY <2>1, <2>2, Zenon
<1>10. /\ MailHead' = [MailHead EXCEPT ![c] = NextLink[h][c]]
       /\ MailTail' = [MailTail EXCEPT ![c] = IF NextLink[h][c] = Nil THEN Nil ELSE MailTail[c]]
       /\ MailNmTop' = MailNmTop
       /\ NextLink[h][c] \in Core \cup {Nil}
  <2>1. NextLink[h][c] \in Core \cup {Nil}
    BY <1>3 DEF TypeOK
  <2> QED
    BY <1>2, <2>1, Zenon DEF Dequeue
<1>11. MailHead' \in Pointers /\ MailTail' \in Pointers /\ job' \in Pointers
  <2>1. MailHead \in Pointers /\ MailTail \in Pointers /\ job \in Pointers
    BY <1>3, Zenon DEF TypeOK
  <2>2. MailHead' \in Pointers
    BY <1>10, <2>1, Zenon DEF Pointers
  <2>3. MailTail' \in Pointers
    BY <1>10, <2>1, Zenon DEF Pointers
  <2>4. job' \in Pointers
    BY <1>2, <2>1, Zenon DEF Pointers
  <2> QED
    BY <2>2, <2>3, <2>4, Zenon
<1>12. TypeOK'
  BY <1>2, <1>3, <1>5, <1>9, <1>10, <1>11, Zenon DEF TypeOK
<1>13. ASSUME NEW d \in Core, d # c PROVE Mailbox_(d)'
  <2>1. /\ MailHead'[d] = MailHead[d] /\ MailTail'[d] = MailTail[d] /\ MailNmTop'[d] = MailNmTop[d]
        /\ nmEntry'[d] = nmEntry[d] /\ job'[d] = job[d] /\ nmJob'[d] = nmJob[d]
    BY <1>2, <1>3, <1>10, <1>13, Zenon DEF TypeOK, Pointers
  <2>2. \A x \in Core : Waits(x, d)' <=> Waits(x, d)
    BY <1>9, <1>13, Zenon
  <2>3. \A x \in Core : NextLink'[x][d] = NextLink[x][d] /\ kind'[x] = kind[x]
    BY <1>2, <1>5, <1>13, Zenon
  <2> QED
    BY <1>12, <2>1, <2>2, <2>3, MailboxKept, Zenon
<1>14. Mailbox_(c)'
  <2>1. /\ MailHead'[c] = NextLink[h][c] /\ MailNmTop'[c] = MailNmTop[c]
        /\ MailTail'[c] = IF NextLink[h][c] = Nil THEN Nil ELSE MailTail[c]
        /\ nmEntry'[c] = nmEntry[c] /\ nmJob'[c] = nmJob[c] /\ kind' = kind
        /\ job'[c] = IF kind[h].await THEN h ELSE Nil
    BY <1>2, <1>3, <1>10, Zenon DEF TypeOK, Pointers
  <2>0. /\ Links(c) \in Pointers /\ Links(c)' \in Pointers
        /\ \A x \in Core : Links(c)[x] = NextLink[x][c] /\ Links(c)'[x] = NextLink'[x][c]
    BY <1>3, <1>12, LinksTyped, Zenon
  <2>2. Links(c)[h] = NextLink[h][c] /\ \A x \in Core \ {h} : Links(c)'[x] = Links(c)[x]
    BY <1>5, <2>0, Zenon
  <2>3. /\ Reach(Links(c)', NextLink[h][c]) = Reach(Links(c), h) \ {h}
        /\ Linear(Links(c)', NextLink[h][c])
    <3>1. Reach(Links(c)', Links(c)[h]) = Reach(Links(c), h) \ {h} /\ Linear(Links(c)', Links(c)[h])
      BY <1>3, <2>0, <2>2, ReachPop, Zenon
    <3> QED
      BY <2>2, <3>1, Zenon
  <2>4. Queue(c)' = Queue(c) \ {h} /\ Linear(Links(c), MailHead[c])'
    BY <1>3, <2>1, <2>3, Zenon DEF Queue, Chain
  <2>5. \A x \in Stack(c) \cup Batch(c) : NextLink'[x][c] = NextLink[x][c]
    BY <1>3, <1>5, <1>7, Zenon DEF Mailbox_
  <2>6. Stack(c)' = Stack(c) /\ Batch(c)' = Batch(c)
        /\ Linear(Links(c), MailNmTop[c])' /\ Linear(Links(c), nmEntry[c])'
    BY <1>3, <1>12, <2>1, <2>5, OtherChains, Zenon
  <2>7. /\ (MailHead[c] = Nil => MailTail[c] = Nil)'
        /\ (MailHead[c] # Nil => MailTail[c] \in Queue(c) /\ NextLink[MailTail[c]][c] = Nil)'
    <3>1. MailTail[c] \in Queue(c) /\ NextLink[MailTail[c]][c] = Nil /\ MailTail[c] \in Core
      BY <1>3, Zenon DEF Mailbox_
    <3>2. CASE NextLink[h][c] = Nil
      BY <2>1, <3>2, Zenon
    <3>3. CASE NextLink[h][c] # Nil
      <4>1. MailTail'[c] = MailTail[c] /\ MailHead'[c] # Nil /\ MailTail[c] # h
        BY <2>1, <3>1, <3>3, Zenon
      <4>2. NextLink'[MailTail[c]][c] = Nil
        BY <1>5, <3>1, <4>1, Zenon
      <4> QED
        BY <2>4, <3>1, <4>1, <4>2, Zenon
    <3> QED
      BY <3>2, <3>3, Zenon
  <2>8. (job[c] # Nil => Waits(job[c], c) /\ ~kind[job[c]].nonMaskable)'
    BY <1>7, <1>9, <2>1, Zenon
  <2>9. (nmJob[c] # Nil => Waits(nmJob[c], c) /\ kind[nmJob[c]].nonMaskable)'
    BY <1>3, <1>7, <1>9, <2>1, MailboxFacts, Zenon DEF Mailbox_
  <2>10. (Queue(c) = {e \in Core : Waits(e, c) /\ ~kind[e].nonMaskable /\ e # job[c]})'
    BY <1>1, <1>2, <1>3, <1>9, <2>1, <2>4, NilNoCore, Zenon DEF Mailbox_
  <2>11. (Stack(c) \cup Batch(c) = {e \in Core : Waits(e, c) /\ kind[e].nonMaskable /\ e # nmJob[c]})'
    BY <1>3, <1>7, <1>9, <2>1, <2>6, Zenon DEF Mailbox_
  <2>12. (Stack(c) \cap Batch(c) = {})'
    BY <1>3, <2>6, Zenon DEF Mailbox_
  <2> QED
    BY <2>4, <2>6, <2>7, <2>8, <2>9, <2>10, <2>11, <2>12, Zenon DEF Mailbox_
<1> QED
  BY <1>9, <1>12, <1>13, <1>14, Zenon DEF IInv

-----------------------------------------------------------------------------
\* A function returned, in either of the two loops: the entry was at hand, in no list.
LEMMA ExecuteDoneStep ==
    ASSUME IInv, NEW c \in Core, NEW e \in Core, LetGo(c, e),
           UNCHANGED <<links, NextLink, kind, queues, pc, posted, nmEntry>>,
           \/ e = job[c] /\ job' = [job EXCEPT ![c] = Nil] /\ nmJob' = nmJob
           \/ e = nmJob[c] /\ nmJob' = [nmJob EXCEPT ![c] = Nil] /\ job' = job
    PROVE  IInv'
<1>1. TypeOK /\ Mailbox_(c) /\ job[c] \in Core \cup {Nil} /\ nmJob[c] \in Core \cup {Nil} /\ e # Nil
  BY MailboxFacts, NilNoCore, Zenon
<1>2. Waits(e, c)
  BY <1>1, Zenon DEF Mailbox_
<1>3. /\ left' \in [Core -> Int] /\ ran' \in [Core -> [Core -> Nat]]
      /\ \A x \in Core : /\ Entry(x)'
                         /\ \A d \in Core : Waits(x, d)' <=> Waits(x, d) /\ ~(x = e /\ d = c)
  BY <1>2, LetGoEntries, Zenon
<1>4. MailHead' = MailHead /\ MailTail' = MailTail /\ MailNmTop' = MailNmTop /\ nmEntry' = nmEntry
      /\ NextLink' = NextLink /\ kind' = kind
  BY Zenon DEF queues
<1>5. job' \in Pointers /\ nmJob' \in Pointers
  BY <1>1, Zenon DEF TypeOK, Pointers
<1>6. TypeOK'
  BY <1>1, <1>3, <1>4, <1>5, Zenon DEF TypeOK
<1>7. ASSUME NEW d \in Core, d # c PROVE Mailbox_(d)'
  <2>1. job'[d] = job[d] /\ nmJob'[d] = nmJob[d]
    BY <1>1, <1>7, Zenon DEF TypeOK, Pointers
  <2>2. \A x \in Core : Waits(x, d)' <=> Waits(x, d)
    BY <1>3, <1>7, Zenon
  <2> QED
    BY <1>4, <1>6, <2>1, <2>2, MailboxKept, Zenon
<1>8. Mailbox_(c)'
  <2>1. Queue(c)' = Queue(c) /\ Linear(Links(c), MailHead[c])'
    BY <1>1, <1>4, <1>6, QueueKept, Zenon
  <2>2. /\ Stack(c)' = Stack(c) /\ Batch(c)' = Batch(c)
        /\ Linear(Links(c), MailNmTop[c])' /\ Linear(Links(c), nmEntry[c])'
    BY <1>1, <1>4, <1>6, OtherChains, Zenon
  <2>3. /\ (MailHead[c] = Nil => MailTail[c] = Nil)'
        /\ (MailHead[c] # Nil => MailTail[c] \in Queue(c) /\ NextLink[MailTail[c]][c] = Nil)'
        /\ (Stack(c) \cap Batch(c) = {})'
    BY <1>1, <1>4, <2>1, <2>2, Zenon DEF Mailbox_
  <2>4. CASE e = job[c] /\ job' = [job EXCEPT ![c] = Nil] /\ nmJob' = nmJob
    <3>1. job'[c] = Nil /\ ~kind[e].nonMaskable /\ \A x \in Core : x # Nil
      BY <1>1, <2>4, NilNoCore, Zenon DEF TypeOK, Pointers, Mailbox_
    <3>2. /\ (job[c] # Nil => Waits(job[c], c) /\ ~kind[job[c]].nonMaskable)'
          /\ (nmJob[c] # Nil => Waits(nmJob[c], c) /\ kind[nmJob[c]].nonMaskable)'
      BY <1>1, <1>3, <1>4, <2>4, <3>1, Zenon DEF Mailbox_
    <3>3. (Queue(c) = {x \in Core : Waits(x, c) /\ ~kind[x].nonMaskable /\ x # job[c]})'
      BY <1>1, <1>3, <1>4, <2>1, <2>4, <3>1, Zenon DEF Mailbox_
    <3>4. (Stack(c) \cup Batch(c) = {x \in Core : Waits(x, c) /\ kind[x].nonMaskable /\ x # nmJob[c]})'
      BY <1>1, <1>3, <1>4, <2>2, <2>4, <3>1, Zenon DEF Mailbox_
    <3> QED
      BY <2>1, <2>2, <2>3, <3>2, <3>3, <3>4, Zenon DEF Mailbox_
  <2>5. CASE e = nmJob[c] /\ nmJob' = [nmJob EXCEPT ![c] = Nil] /\ job' = job
    <3>1. nmJob'[c] = Nil /\ kind[e].nonMaskable /\ \A x \in Core : x # Nil
      BY <1>1, <2>5, NilNoCore, Zenon DEF TypeOK, Pointers, Mailbox_
    <3>2. /\ (job[c] # Nil => Waits(job[c], c) /\ ~kind[job[c]].nonMaskable)'
          /\ (nmJob[c] # Nil => Waits(nmJob[c], c) /\ kind[nmJob[c]].nonMaskable)'
      BY <1>1, <1>3, <1>4, <2>5, <3>1, Zenon DEF Mailbox_
    <3>3. (Queue(c) = {x \in Core : Waits(x, c) /\ ~kind[x].nonMaskable /\ x # job[c]})'
      BY <1>1, <1>3, <1>4, <2>1, <2>5, <3>1, Zenon DEF Mailbox_
    <3>4. (Stack(c) \cup Batch(c) = {x \in Core : Waits(x, c) /\ kind[x].nonMaskable /\ x # nmJob[c]})'
      BY <1>1, <1>3, <1>4, <2>2, <2>5, <3>1, Zenon DEF Mailbox_
    <3> QED
      BY <2>1, <2>2, <2>3, <3>2, <3>3, <3>4, Zenon DEF Mailbox_
  <2> QED
    BY <2>4, <2>5, Zenon
<1> QED
  BY <1>3, <1>6, <1>7, <1>8, Zenon DEF IInv

LEMMA ExecuteHeadDoneStep ==
    ASSUME IInv, NEW c \in Core, ExecuteHeadDone(c) PROVE IInv'
<1>1. PICK e \in Core : e = job[c]
  BY MailboxFacts, Zenon DEF ExecuteHeadDone
<1> QED
  BY <1>1, ExecuteDoneStep, Zenon DEF ExecuteHeadDone, nm

LEMMA NmExecuteDoneStep ==
    ASSUME IInv, NEW c \in Core, NmExecuteDone(c) PROVE IInv'
<1>1. PICK e \in Core : e = nmJob[c]
  BY MailboxFacts, Zenon DEF NmExecuteDone
<1> QED
  BY <1>1, ExecuteDoneStep, Zenon DEF NmExecuteDone, main

\* The whole stack is taken: it becomes what is gone through.
LEMMA NmTakeStep ==
    ASSUME IInv, NEW c \in Core, NmTake(c) PROVE IInv'
<1>1. CASE MailNmTop[c] = Nil
  <2>1. UNCHANGED <<entries, queues, main, nmEntry, nmJob, ran>>
    BY <1>1, Zenon DEF NmTake, queues
  <2> QED
    BY <2>1, QuietStep, Zenon DEF main, IInv, TypeOK, InPost
<1>2. CASE MailNmTop[c] # Nil
  <2>1. /\ nmEntry[c] = Nil /\ nmEntry' = [nmEntry EXCEPT ![c] = MailNmTop[c]]
        /\ MailNmTop' = [MailNmTop EXCEPT ![c] = Nil]
        /\ UNCHANGED <<links, NextLink, left, kind, MailHead, MailTail, pc, posted, job, nmJob, ran>>
    BY <1>2, Zenon DEF NmTake, entries, main
  <2>2. /\ TypeOK /\ Mailbox_(c) /\ MailNmTop[c] \in Core \cup {Nil}
        /\ Stack(c) = Reach(Links(c), MailNmTop[c]) /\ Batch(c) = Reach(Links(c), Nil)
    BY <2>1, MailboxFacts, Zenon
  <2>3. nmEntry' \in Pointers /\ MailNmTop' \in Pointers /\ nmEntry'[c] = MailNmTop[c] /\ MailNmTop'[c] = Nil
    BY <2>1, <2>2, Zenon DEF TypeOK, Pointers
  <2>4. TypeOK'
    BY <2>1, <2>2, <2>3, Zenon DEF TypeOK
  <2>5. \A x \in Core : Entry(x)' /\ \A d \in Core : Waits(x, d)' <=> Waits(x, d)
    BY <2>1, EntriesLinked, Zenon
  <2>6. ASSUME NEW d \in Core, d # c PROVE Mailbox_(d)'
    <3>1. nmEntry'[d] = nmEntry[d] /\ MailNmTop'[d] = MailNmTop[d]
      BY <2>1, <2>2, <2>6, Zenon DEF TypeOK, Pointers
    <3> QED
      BY <2>1, <2>4, <2>5, <3>1, MailboxKept, Zenon
  <2>7. Mailbox_(c)'
    <3>1. Links(c)' = Links(c)
      BY <2>1, Zenon DEF Links
    <3>2. /\ Queue(c)' = Queue(c) /\ Batch(c)' = Stack(c) /\ Stack(c)' = {} /\ Batch(c) = {}
          /\ Linear(Links(c), MailHead[c])' /\ Linear(Links(c), MailNmTop[c])' /\ Linear(Links(c), nmEntry[c])'
      <4>1. Linear(Links(c), MailHead[c]) /\ Linear(Links(c), MailNmTop[c]) /\ Linear(Links(c), Nil)
            /\ Reach(Links(c), Nil) = {}
        BY <2>2, NilChain, Zenon DEF Mailbox_
      <4> QED
        BY <2>1, <2>2, <2>3, <3>1, <4>1, Zenon DEF Queue, Stack, Batch, Chain
    <3>3. /\ (MailHead[c] = Nil => MailTail[c] = Nil)'
          /\ (MailHead[c] # Nil => MailTail[c] \in Queue(c) /\ NextLink[MailTail[c]][c] = Nil)'
          /\ (Stack(c) \cap Batch(c) = {})'
      BY <2>1, <2>2, <3>2, Zenon DEF Mailbox_
    <3>4. /\ (job[c] # Nil => Waits(job[c], c) /\ ~kind[job[c]].nonMaskable)'
          /\ (nmJob[c] # Nil => Waits(nmJob[c], c) /\ kind[nmJob[c]].nonMaskable)'
      BY <2>1, <2>2, <2>5, MailboxFacts, Zenon DEF Mailbox_
    <3>5. (Queue(c) = {x \in Core : Waits(x, c) /\ ~kind[x].nonMaskable /\ x # job[c]})'
      BY <2>1, <2>2, <2>5, <3>2, Zenon DEF Mailbox_
    <3>6. (Stack(c) \cup Batch(c) = {x \in Core : Waits(x, c) /\ kind[x].nonMaskable /\ x # nmJob[c]})'
      BY <2>1, <2>2, <2>5, <3>2, Zenon DEF Mailbox_
    <3> QED
      BY <3>2, <3>3, <3>4, <3>5, <3>6, Zenon DEF Mailbox_
  <2> QED
    BY <2>4, <2>5, <2>6, <2>7, Zenon DEF IInv
<1> QED
  BY <1>1, <1>2, Zenon

\* The next entry is read before the function of this one is called.
LEMMA NmExecuteStep ==
    ASSUME IInv, NEW c \in Core, NmExecute(c) PROVE IInv'
<1>1. PICK h \in Core : h = nmEntry[c]
  BY MailboxFacts, Zenon DEF NmExecute
<1>2. /\ nmJob[c] = Nil /\ nmEntry' = [nmEntry EXCEPT ![c] = NextLink[h][c]]
      /\ nmJob' = [nmJob EXCEPT ![c] = h]
      /\ SetLink(h, c, Nil)
      /\ UNCHANGED <<links, left, kind, MailHead, MailTail, MailNmTop, pc, posted, job, ran>>
  BY <1>1, Zenon DEF NmExecute, queues, main, SetLink
<1>3. /\ TypeOK /\ Mailbox_(c) /\ nmEntry[c] # Nil
      /\ Batch(c) = Reach(Links(c), h) /\ Linear(Links(c), h)
  BY <1>1, MailboxFacts, NilNoCore, Zenon DEF Mailbox_
<1>4. /\ NextLink' \in [Core -> [Core -> Core \cup {Nil}]]
      /\ \A x, d \in Core : ~(x = h /\ d = c) => NextLink'[x][d] = NextLink[x][d]
  <2>1. Nil \in Core \cup {Nil}
    BY Zenon
  <2>2. OneLink(h, c, Nil)
    BY <1>2, <1>3, <2>1, LinkOne, Zenon
  <2> QED
    BY <2>2, Zenon DEF OneLink
<1>4a. NextLink[h][c] \in Core \cup {Nil}
  BY <1>3 DEF TypeOK
<1>5. h \in Batch(c)
  BY <1>3, ReachFirst, LinksTypedNow, Zenon
<1>6. Waits(h, c) /\ kind[h].nonMaskable
  BY <1>3, <1>5, Zenon DEF Mailbox_
<1>7. \A x, d \in Core : d \notin Sent(x) => NextLink'[x][d] = NextLink[x][d]
  BY <1>4, <1>6, Zenon DEF Waits
<1>8. \A x \in Core : Entry(x)' /\ \A d \in Core : Waits(x, d)' <=> Waits(x, d)
  BY <1>2, <1>7, EntriesLinked, Zenon
<1>9. nmEntry' \in Pointers /\ nmJob' \in Pointers /\ nmEntry'[c] = NextLink[h][c] /\ nmJob'[c] = h
  <2>1. nmEntry \in Pointers /\ nmJob \in Pointers
    BY <1>3, Zenon DEF TypeOK
  <2>2. nmEntry' \in Pointers /\ nmEntry'[c] = NextLink[h][c]
    BY <1>2, <1>4a, <2>1, Zenon DEF Pointers
  <2>3. nmJob' \in Pointers /\ nmJob'[c] = h
    BY <1>2, <2>1, Zenon DEF Pointers
  <2> QED
    BY <2>2, <2>3, Zenon
<1>10. TypeOK'
  BY <1>2, <1>3, <1>4, <1>9, Zenon DEF TypeOK
<1>11. ASSUME NEW d \in Core, d # c PROVE Mailbox_(d)'
  <2>1. nmEntry'[d] = nmEntry[d] /\ nmJob'[d] = nmJob[d]
    BY <1>2, <1>3, <1>11, Zenon DEF TypeOK, Pointers
  <2>2. \A x \in Core : NextLink'[x][d] = NextLink[x][d] /\ kind'[x] = kind[x]
    BY <1>2, <1>4, <1>11, Zenon
  <2> QED
    BY <1>2, <1>8, <1>10, <2>1, <2>2, MailboxKept, Zenon
<1>12. Mailbox_(c)'
  <2>1. /\ Links(c) \in Pointers /\ Links(c)' \in Pointers
        /\ \A x \in Core : Links(c)[x] = NextLink[x][c] /\ Links(c)'[x] = NextLink'[x][c]
    BY <1>3, <1>10, LinksTyped, Zenon
  <2>2. Links(c)[h] = NextLink[h][c] /\ \A x \in Core \ {h} : Links(c)'[x] = Links(c)[x]
    BY <1>4, <2>1, Zenon
  <2>3. Reach(Links(c)', Links(c)[h]) = Batch(c) \ {h} /\ Linear(Links(c)', Links(c)[h])
    <3>1. Reach(Links(c)', Links(c)[h]) = Reach(Links(c), h) \ {h} /\ Linear(Links(c)', Links(c)[h])
      BY <1>3, <2>1, <2>2, ReachPop, Zenon
    <3> QED
      BY <1>3, <3>1, Zenon
  <2>4. Batch(c)' = Batch(c) \ {h} /\ Linear(Links(c), nmEntry[c])'
    BY <1>9, <2>2, <2>3, Zenon DEF Batch, Chain
  <2>5. h \notin Queue(c) /\ h \notin Stack(c)
    BY <1>3, <1>5, <1>6, Zenon DEF Mailbox_
  <2>6. \A x \in Queue(c) \cup Stack(c) : x \in Core /\ NextLink'[x][c] = NextLink[x][c]
    <3>1. \A x \in Queue(c) \cup Stack(c) : x \in Core /\ x # h
      BY <1>3, <2>5, Zenon DEF Mailbox_
    <3> QED
      BY <1>4, <3>1, Zenon
  <2>7. Queue(c)' = Queue(c) /\ Linear(Links(c), MailHead[c])'
    BY <1>2, <1>3, <1>10, <2>6, QueueKept, Zenon
  <2>8. Stack(c)' = Stack(c) /\ Linear(Links(c), MailNmTop[c])'
    <3>1. /\ MailNmTop[c] \in Core \cup {Nil} /\ Stack(c) = Reach(Links(c), MailNmTop[c])
          /\ Linear(Links(c), MailNmTop[c])
      BY <1>3, MailboxFacts, Zenon DEF Mailbox_
    <3>2. Reach(Links(c)', MailNmTop[c]) = Stack(c) /\ Linear(Links(c)', MailNmTop[c])
      BY <1>3, <1>10, <2>6, <3>1, ChainKept, Zenon
    <3> QED
      BY <1>2, <3>2, Zenon DEF Stack, Chain
  <2>9. /\ (MailHead[c] = Nil => MailTail[c] = Nil)'
        /\ (MailHead[c] # Nil => MailTail[c] \in Queue(c) /\ NextLink[MailTail[c]][c] = Nil)'
    BY <1>2, <1>3, <2>6, <2>7, Zenon DEF Mailbox_
  <2>10. /\ (job[c] # Nil => Waits(job[c], c) /\ ~kind[job[c]].nonMaskable)'
         /\ (nmJob[c] # Nil => Waits(nmJob[c], c) /\ kind[nmJob[c]].nonMaskable)'
    <3>1. job[c] # Nil => job[c] \in Core /\ Waits(job[c], c) /\ ~kind[job[c]].nonMaskable
      BY <1>3, MailboxFacts, Zenon DEF Mailbox_
    <3> QED
      BY <1>2, <1>6, <1>8, <1>9, <3>1, Zenon
  <2>11. (Queue(c) = {x \in Core : Waits(x, c) /\ ~kind[x].nonMaskable /\ x # job[c]})'
    BY <1>2, <1>3, <1>8, <2>7, Zenon DEF Mailbox_
  <2>12. (Stack(c) \cup Batch(c) = {x \in Core : Waits(x, c) /\ kind[x].nonMaskable /\ x # nmJob[c]})'
    <3>1. \A x \in Core : x # Nil
      BY NilNoCore, Zenon
    <3>2. Stack(c) \cup Batch(c) = {x \in Core : Waits(x, c) /\ kind[x].nonMaskable}
      BY <1>2, <1>3, <3>1, Zenon DEF Mailbox_
    <3> QED
      BY <1>2, <1>8, <1>9, <2>4, <2>5, <2>8, <3>2, Zenon
  <2>13. (Stack(c) \cap Batch(c) = {})'
    BY <1>3, <2>4, <2>8, Zenon DEF Mailbox_
  <2> QED
    BY <2>4, <2>7, <2>8, <2>9, <2>10, <2>11, <2>12, <2>13, Zenon DEF Mailbox_
<1> QED
  BY <1>8, <1>10, <1>11, <1>12, Zenon DEF IInv

-----------------------------------------------------------------------------
Sends(c, t) == /\ posted[c] < Len(links[c]) /\ t = links[c][posted[c] + 1]
               /\ posted' = [posted EXCEPT ![c] = @ + 1]

\* Entry c is now sent to target t as well.
LEMMA SentEntries ==
    ASSUME IInv, NEW c \in Core, NEW t \in Core, pc[c] = "post", Sends(c, t),
           UNCHANGED <<links, left, kind, pc, ran>>,
           \A x, d \in Core : d \notin Sent(x) /\ ~(x = c /\ d = t) => NextLink'[x][d] = NextLink[x][d]
    PROVE  /\ posted' \in [Core -> Nat] /\ t \notin Sent(c)
           /\ \A x \in Core : /\ Entry(x)'
                              /\ \A d \in Core : Waits(x, d)' <=> Waits(x, d) \/ (x = c /\ d = t)
<1>1. TypeOK /\ \A x \in Core : Entry(x)
  BY Zenon DEF IInv
<1>2. posted' \in [Core -> Nat] /\ posted'[c] = posted[c] + 1 /\ \A x \in Core : x # c => posted'[x] = posted[x]
  <2>1. posted \in [Core -> Nat] /\ posted[c] \in Nat
    BY <1>1, Zenon DEF TypeOK
  <2>2. posted[c] + 1 \in Nat
    BY <2>1
  <2> QED
    BY <2>1, <2>2, Zenon DEF Sends
<1>0. posted[c] < Len(links[c]) /\ t = links[c][posted[c] + 1]
  BY Zenon DEF Sends
<1>3. posted[c] \in Nat /\ Len(links[c]) \in Nat
  BY <1>1, SentDest, Zenon
<1>4. /\ InPost(c) /\ kind[c] \in Mails[c] /\ kind[c].to # c /\ links[c] = Destinations(c, kind[c].to)
  BY <1>1, Zenon DEF Entry, InPost
<1>5. \A i, j \in 1 .. Len(links[c]) : links[c][i] = links[c][j] => i = j
  <2>1. kind[c].to \in Core \cup {Broadcast}
    BY <1>4, MailboxAssumption, Zenon
  <2> DEFINE q == Destinations(c, kind[c].to)
  <2>2. \A i, j \in 1 .. Len(q) : q[i] = q[j] => i = j
    BY <1>4, <2>1, DestinationsCounted, Zenon
  <2> HIDE DEF q
  <2>3. links[c] = q
    BY <1>4, Zenon DEF q
  <2> QED
    BY <2>2, <2>3, Zenon
<1>6. t \notin Sent(c)
  <2>1. \A i \in 1 .. posted[c] : i \in 1 .. Len(links[c]) /\ i # posted[c] + 1
    BY <1>0, <1>3
  <2>2. posted[c] + 1 \in 1 .. Len(links[c])
    BY <1>0, <1>3
  <2> QED
    BY <1>0, <1>5, <2>1, <2>2, Zenon DEF Sent
<1>7. Sent(c)' = Sent(c) \cup {t}
  <2>1. \A i : i \in 1 .. posted[c] + 1 <=> i \in 1 .. posted[c] \/ i = posted[c] + 1
    BY <1>3
  <2>2. \A d \in Core : d \in Sent(c)' <=> \E i \in 1 .. posted[c] + 1 : links[c][i] = d
    BY <1>2, Zenon DEF Sent
  <2>3. \A d \in Core : d \in Sent(c)' <=> d \in Sent(c) \/ d = t
    BY <1>0, <2>1, <2>2, Zenon DEF Sent
  <2>4. Sent(c)' \subseteq Core /\ Sent(c) \subseteq Core
    BY Zenon DEF Sent
  <2> QED
    BY <2>3, <2>4, Zenon
<1>8. \A x \in Core : x # c => Sent(x)' = Sent(x)
  BY <1>2, Zenon DEF Sent
<1>9. \A x \in Core : InPost(x)' = InPost(x) /\ Left(x)' = Left(x)
  BY Zenon DEF InPost, Left, Dest
<1>10. ran[c][t] = 0
  BY <1>1, <1>6, Zenon DEF Entry
<1>11. \A x, d \in Core : Waits(x, d)' <=> Waits(x, d) \/ (x = c /\ d = t)
  BY <1>7, <1>8, <1>10, Zenon DEF Waits
<1>12. ASSUME NEW x \in Core PROVE Entry(x)'
  <2>1. posted'[x] <= Len(links'[x])
    <3>1. CASE x = c
      BY <1>0, <1>2, <1>3, <3>1
    <3>2. CASE x # c
      BY <1>1, <1>2, <3>2, Zenon DEF Entry
    <3> QED
      BY <3>1, <3>2, Zenon
  <2>2. ASSUME NEW d \in Core
        PROVE  /\ ran'[x][d] \in {0, 1}
               /\ d \notin Sent(x)' => ran'[x][d] = 0 /\ NextLink'[x][d] = Nil
    <3>1. /\ ran[x][d] \in {0, 1}
          /\ d \notin Sent(x) => ran[x][d] = 0 /\ NextLink[x][d] = Nil
      <4>1. Entry(x)
        BY <1>1, Zenon
      <4> QED
        BY <4>1, Zenon DEF Entry
    <3>2. d \notin Sent(x)' => d \notin Sent(x) /\ ~(x = c /\ d = t)
      BY <1>7, <1>8, Zenon
    <3> QED
      BY <3>1, <3>2, Zenon
  <2>3. Entry(x)
    BY <1>1, Zenon
  <2> QED
    BY <1>9, <2>1, <2>2, <2>3, Zenon DEF Entry
<1> QED
  BY <1>2, <1>6, <1>11, <1>12, Zenon

\* The mailbox of the target has the entry in the list it belongs to.
LEMMA SentMailbox ==
    ASSUME IInv, TypeOK', NEW c \in Core, NEW t \in Core, ~Waits(c, t),
           \A x \in Core : Waits(x, t)' <=> Waits(x, t) \/ x = c,
           kind' = kind, job' = job, nmJob' = nmJob,
           Linear(Links(t), MailHead[t])', Linear(Links(t), MailNmTop[t])', Linear(Links(t), nmEntry[t])',
           (MailHead[t] = Nil => MailTail[t] = Nil)',
           (MailHead[t] # Nil => MailTail[t] \in Queue(t) /\ NextLink[MailTail[t]][t] = Nil)',
           Queue(t)' = Queue(t) \cup (IF kind[c].nonMaskable THEN {} ELSE {c}),
           Stack(t)' = Stack(t) \cup (IF kind[c].nonMaskable THEN {c} ELSE {}),
           Batch(t)' = Batch(t)
    PROVE  Mailbox_(t)'
<1>1. /\ Mailbox_(t) /\ job[t] # c /\ nmJob[t] # c
      /\ job[t] \in Core \cup {Nil} /\ nmJob[t] \in Core \cup {Nil}
  <2>1. Mailbox_(t) /\ job[t] \in Core \cup {Nil} /\ nmJob[t] \in Core \cup {Nil} /\ c # Nil
    BY MailboxFacts, NilNoCore, Zenon
  <2> QED
    BY <2>1, Zenon DEF Mailbox_
<1>2. /\ (job[t] # Nil => Waits(job[t], t) /\ ~kind[job[t]].nonMaskable)'
      /\ (nmJob[t] # Nil => Waits(nmJob[t], t) /\ kind[nmJob[t]].nonMaskable)'
  BY <1>1, Zenon DEF Mailbox_
<1>3. c \notin Queue(t) /\ c \notin Stack(t) /\ c \notin Batch(t)
  BY <1>1, Zenon DEF Mailbox_
<1>4. (Queue(t) = {x \in Core : Waits(x, t) /\ ~kind[x].nonMaskable /\ x # job[t]})'
  <2>1. Queue(t) = {x \in Core : Waits(x, t) /\ ~kind[x].nonMaskable /\ x # job[t]}
    BY <1>1, Zenon DEF Mailbox_
  <2> QED
    BY <1>1, <2>1, Zenon
<1>5. (Stack(t) \cup Batch(t) = {x \in Core : Waits(x, t) /\ kind[x].nonMaskable /\ x # nmJob[t]})'
  <2>1. Stack(t) \cup Batch(t) = {x \in Core : Waits(x, t) /\ kind[x].nonMaskable /\ x # nmJob[t]}
    BY <1>1, Zenon DEF Mailbox_
  <2> QED
    BY <1>1, <2>1, Zenon
<1>6. (Stack(t) \cap Batch(t) = {})'
  <2>1. Stack(t) \cap Batch(t) = {}
    BY <1>1, Zenon DEF Mailbox_
  <2> QED
    BY <1>3, <2>1, Zenon
<1> QED
  BY <1>2, <1>4, <1>5, <1>6, Zenon DEF Mailbox_

\* Non-maskable mail is put on top of the stack of its target.
LEMMA PushNmMailbox ==
    ASSUME IInv, TypeOK', NEW c \in Core, NEW t \in Core, PushNm(c, t), kind[c].nonMaskable, t \notin Sent(c),
           \A x \in Core : Waits(x, t)' <=> Waits(x, t) \/ x = c,
           UNCHANGED <<kind, job, nmEntry, nmJob>>
    PROVE  Mailbox_(t)'
<1>1. /\ TypeOK /\ Mailbox_(t) /\ MailNmTop[t] \in Core \cup {Nil} /\ nmEntry[t] \in Core \cup {Nil}
      /\ Stack(t) = Reach(Links(t), MailNmTop[t]) /\ Batch(t) = Reach(Links(t), nmEntry[t])
  BY MailboxFacts, Zenon
<1>2. ~Waits(c, t) /\ c \notin Queue(t) /\ c \notin Stack(t) /\ c \notin Batch(t)
  BY <1>1, Zenon DEF Mailbox_, Waits
<1>3. /\ MailHead' = MailHead /\ MailTail' = MailTail /\ MailNmTop'[t] = c
      /\ SetLink(c, t, MailNmTop[t])
  BY <1>1, Zenon DEF PushNm, TypeOK, Pointers, SetLink
<1>4. NextLink'[c][t] = MailNmTop[t] /\ \A x, d \in Core : ~(x = c /\ d = t) => NextLink'[x][d] = NextLink[x][d]
  <2>1. TypeOK /\ MailNmTop[t] \in Core \cup {Nil} /\ SetLink(c, t, MailNmTop[t])
    BY <1>1, <1>3, Zenon
  <2>2. OneLink(c, t, MailNmTop[t])
    BY <2>1, LinkOne, Zenon
  <2> QED
    BY <2>2, Zenon DEF OneLink
<1>5. /\ Links(t) \in Pointers /\ Links(t)' \in Pointers
      /\ \A x \in Core : Links(t)[x] = NextLink[x][t] /\ Links(t)'[x] = NextLink'[x][t]
  BY <1>1, LinksTyped, Zenon
<1>6. \A x \in Queue(t) \cup Stack(t) \cup Batch(t) : x \in Core /\ x # c
  BY <1>1, <1>2, Zenon DEF Mailbox_
<1>7. \A x \in Queue(t) \cup Stack(t) \cup Batch(t) :
         NextLink'[x][t] = NextLink[x][t] /\ Links(t)'[x] = Links(t)[x]
  BY <1>4, <1>5, <1>6, Zenon
<1>8. Queue(t)' = Queue(t) /\ Linear(Links(t), MailHead[t])'
  BY <1>1, <1>3, <1>7, QueueKept, Zenon
<1>9. Stack(t)' = Stack(t) \cup {c} /\ Linear(Links(t), MailNmTop[t])'
  <2>1. Linear(Links(t), MailNmTop[t]) /\ Links(t)'[c] = MailNmTop[t]
    BY <1>1, <1>4, <1>5, Zenon DEF Mailbox_
  <2>a. c \notin Reach(Links(t), MailNmTop[t]) /\ \A x \in Reach(Links(t), MailNmTop[t]) : Links(t)'[x] = Links(t)[x]
    BY <1>1, <1>2, <1>7, Zenon
  <2>2. Reach(Links(t)', c) = Reach(Links(t), MailNmTop[t]) \cup {c} /\ Linear(Links(t)', c)
    BY <1>1, <1>5, <2>1, <2>a, ReachPush, Zenon
  <2> QED
    BY <1>1, <1>3, <2>2, Zenon DEF Stack, Chain
<1>10. Batch(t)' = Batch(t) /\ Linear(Links(t), nmEntry[t])'
  <2>1. Linear(Links(t), nmEntry[t])
    BY <1>1, Zenon DEF Mailbox_
  <2>2. Reach(Links(t)', nmEntry[t]) = Batch(t) /\ Linear(Links(t)', nmEntry[t])
    BY <1>1, <1>7, <2>1, ChainKept, Zenon
  <2> QED
    BY <2>2, Zenon DEF Batch, Chain
<1>11. /\ (MailHead[t] = Nil => MailTail[t] = Nil)'
       /\ (MailHead[t] # Nil => MailTail[t] \in Queue(t) /\ NextLink[MailTail[t]][t] = Nil)'
  BY <1>1, <1>3, <1>7, <1>8, Zenon DEF Mailbox_
<1> QED
  BY <1>2, <1>8, <1>9, <1>10, <1>11, SentMailbox, Zenon

\* The tail has a link for the core whose queue it is in, and PostInternal finds it.
LEMMA TailLinked ==
    ASSUME IInv, NEW c \in Core, NEW t \in Core, MailTail[t] # Nil, InPost(c), ~kind[c].nonMaskable
    PROVE  /\ MailTail[t] \in Queue(t) /\ MailHead[t] # Nil /\ NextLink[MailTail[t]][t] = Nil
           /\ MailTail[t] \in Core /\ Waits(MailTail[t], t)
           /\ \E j \in 1 .. Len(links[c]) : j <= Len(links[MailTail[t]]) /\ links[MailTail[t]][j] = t
<1> DEFINE e == MailTail[t]
<1>1. TypeOK /\ Mailbox_(t) /\ e \in Queue(t) /\ MailHead[t] # Nil /\ NextLink[e][t] = Nil
  BY MailboxFacts, Zenon DEF Mailbox_
<1>2. e \in Core /\ Waits(e, t) /\ ~kind[e].nonMaskable
  BY <1>1, Zenon DEF Mailbox_
<1> HIDE DEF e
<1>3. Entry(e) /\ Entry(c)
  BY <1>2, Zenon DEF IInv
<1>4. PICK i \in 1 .. posted[e] : links[e][i] = t
  BY <1>2, Zenon DEF Waits, Sent
<1>5. posted[e] \in Nat /\ Len(links[e]) \in Nat /\ posted[e] <= Len(links[e])
  BY <1>1, <1>2, <1>3, SentDest, Zenon DEF Entry
<1>6. InPost(e)
  <2>1. Len(links[e]) # 0
    BY <1>4, <1>5
  <2>2. links[e] # <<>>
    BY <2>1
  <2> QED
    BY <1>3, <2>2, Zenon DEF Entry
<1>7. Len(links[e]) = Len(links[c])
  <2>1. /\ kind[e] \in Mails[e] /\ kind[c] \in Mails[c]
        /\ links[e] = Destinations(e, kind[e].to) /\ links[c] = Destinations(c, kind[c].to)
    BY <1>3, <1>6, Zenon DEF Entry
  <2>2. Len(Destinations(e, kind[e].to)) = Len(Destinations(c, kind[c].to))
    BY <1>2, <2>1, EqualCounts, Zenon
  <2> QED
    BY <2>1, <2>2, Zenon
<1>8. i \in 1 .. Len(links[c]) /\ i <= Len(links[e])
  BY <1>4, <1>5, <1>7
<1> QED
  BY <1>1, <1>2, <1>4, <1>8, Zenon DEF e

\* Other mail goes to the end of the queue of its target.
LEMMA EnqueueMailbox ==
    ASSUME IInv, TypeOK', NEW c \in Core, NEW t \in Core, Enqueue(c, t), ~kind[c].nonMaskable, t \notin Sent(c),
           InPost(c), \A x \in Core : Waits(x, t)' <=> Waits(x, t) \/ x = c,
           UNCHANGED <<kind, job, nmEntry, nmJob>>
    PROVE  Mailbox_(t)'
<1>1. /\ TypeOK /\ Mailbox_(t) /\ MailHead[t] \in Core \cup {Nil}
      /\ Queue(t) = Reach(Links(t), MailHead[t])
  BY MailboxFacts, Zenon
<1>2. ~Waits(c, t) /\ c \notin Queue(t) /\ c \notin Stack(t) /\ c \notin Batch(t)
  BY <1>1, Zenon DEF Mailbox_, Waits
<1>3. MailTail'[t] = c /\ MailNmTop' = MailNmTop
  BY <1>1, Zenon DEF Enqueue, TypeOK, Pointers
<1>4. /\ Links(t) \in Pointers /\ Links(t)' \in Pointers
      /\ \A x \in Core : Links(t)[x] = NextLink[x][t] /\ Links(t)'[x] = NextLink'[x][t]
  BY <1>1, LinksTyped, Zenon
<1>5. NextLink[c][t] = Nil /\ c # Nil
  <2>1. Entry(c)
    BY Zenon DEF IInv
  <2> QED
    BY <2>1, NilNoCore, Zenon DEF Entry
<1>6. CASE MailTail[t] = Nil
  <2>1. MailHead'[t] = c /\ NextLink' = NextLink
    <3>1. MailHead' = [MailHead EXCEPT ![t] = c] /\ NextLink' = NextLink
      BY <1>6, Zenon DEF Enqueue
    <3> QED
      BY <1>1, <3>1, Zenon DEF TypeOK, Pointers
  <2>2. MailHead[t] = Nil
    BY <1>1, <1>6, NilNoCore, Zenon DEF Mailbox_
  <2>3. Queue(t) = {} /\ Linear(Links(t), Nil) /\ Reach(Links(t), Nil) = {}
    BY <1>1, <2>2, NilChain, Zenon
  <2>4. Reach(Links(t)', c) = Reach(Links(t), Nil) \cup {c} /\ Linear(Links(t)', c)
    <3>1. Links(t)'[c] = Nil
      BY <1>4, <1>5, <2>1, Zenon
    <3>2. /\ Nil \in Core \cup {Nil} /\ c \notin Reach(Links(t), Nil)
          /\ \A x \in Reach(Links(t), Nil) : Links(t)'[x] = Links(t)[x]
      BY <2>3, Zenon
    <3>3. Linear(Links(t), Nil)
      BY <2>3, Zenon
    <3> QED
      BY <1>4, <3>1, <3>2, <3>3, ReachPush
  <2>5. Queue(t)' = Queue(t) \cup {c} /\ Linear(Links(t), MailHead[t])'
    BY <2>1, <2>3, <2>4, Zenon DEF Queue, Chain
  <2>6. /\ Stack(t)' = Stack(t) /\ Batch(t)' = Batch(t)
        /\ Linear(Links(t), MailNmTop[t])' /\ Linear(Links(t), nmEntry[t])'
    BY <1>1, <1>3, <2>1, OtherChains, Zenon
  <2>7. /\ (MailHead[t] = Nil => MailTail[t] = Nil)'
        /\ (MailHead[t] # Nil => MailTail[t] \in Queue(t) /\ NextLink[MailTail[t]][t] = Nil)'
    BY <1>3, <1>5, <2>1, <2>5, Zenon
  <2> QED
    BY <1>2, <2>5, <2>6, <2>7, SentMailbox, Zenon
<1>7. CASE MailTail[t] # Nil
  <2>0. PICK e \in Core : e = MailTail[t]
    BY <1>7, TailLinked, Zenon
  <2>1. /\ e \in Queue(t) /\ MailHead[t] # Nil /\ NextLink[e][t] = Nil /\ Waits(e, t)
        /\ \E j \in 1 .. Len(links[c]) : j <= Len(links[e]) /\ links[e][j] = t
    <3>1. /\ MailTail[t] \in Queue(t) /\ MailHead[t] # Nil /\ NextLink[MailTail[t]][t] = Nil
          /\ Waits(MailTail[t], t)
          /\ \E j \in 1 .. Len(links[c]) : j <= Len(links[MailTail[t]]) /\ links[MailTail[t]][j] = t
      BY <1>7, TailLinked, Zenon
    <3> QED
      BY <2>0, <3>1, Zenon
  <2>2. MailHead' = MailHead /\ SetLink(e, t, c)
    BY <1>7, <2>0, <2>1, Zenon DEF Enqueue, LinkTail, SetLink
  <2>3. NextLink'[e][t] = c /\ \A x, d \in Core : ~(x = e /\ d = t) => NextLink'[x][d] = NextLink[x][d]
    <3>1. c \in Core \cup {Nil} /\ e \in Core
      BY <2>1, Zenon
    <3>2. TypeOK /\ SetLink(e, t, c)
      BY <1>1, <2>2, Zenon
    <3>3. OneLink(e, t, c)
      BY <3>1, <3>2, LinkOne, Zenon
    <3> QED
      BY <3>3, Zenon DEF OneLink
  <2>4. e # c /\ NextLink'[c][t] = Nil
    BY <1>2, <1>5, <2>1, <2>3, Zenon
  <2>5. Queue(t)' = Queue(t) \cup {c} /\ Linear(Links(t), MailHead[t])'
    <3>1. PICK h \in Core : h = MailHead[t]
      BY <1>1, <2>1, Zenon
    <3>2. Linear(Links(t), h) /\ Queue(t) = Reach(Links(t), h) /\ Queue(t) \subseteq Core
      BY <1>1, <3>1, Zenon DEF Mailbox_
    <3>3. Links(t)[e] = Nil /\ Links(t)'[e] = c /\ Links(t)'[c] = Nil
      BY <1>4, <2>1, <2>3, <2>4, Zenon
    <3>4. \A x \in Reach(Links(t), h) \ {e} : Links(t)'[x] = Links(t)[x]
      <4>1. \A x \in Reach(Links(t), h) \ {e} : x \in Core /\ x # e
        BY <3>2, Zenon
      <4> QED
        BY <1>4, <2>3, <4>1
    <3>5. Reach(Links(t)', h) = Reach(Links(t), h) \cup {c} /\ Linear(Links(t)', h)
      <4>1. e \in Reach(Links(t), h) /\ c \in Core \ Reach(Links(t), h)
        BY <1>2, <2>1, <3>2, Zenon
      <4>2. Linear(Links(t), h) /\ Links(t) \in Pointers /\ Links(t)' \in Pointers
        BY <1>4, <3>2, Zenon
      <4> QED
        BY <3>3, <3>4, <4>1, <4>2, ReachAppend
    <3> QED
      BY <2>2, <3>1, <3>2, <3>5, Zenon DEF Queue, Chain
  <2>6. /\ Stack(t)' = Stack(t) /\ Batch(t)' = Batch(t)
        /\ Linear(Links(t), MailNmTop[t])' /\ Linear(Links(t), nmEntry[t])'
    <3>1. e \notin Stack(t) \cup Batch(t) /\ Stack(t) \cup Batch(t) \subseteq Core
      BY <1>1, <2>1, Zenon DEF Mailbox_
    <3>2. \A x \in Stack(t) \cup Batch(t) : NextLink'[x][t] = NextLink[x][t]
      BY <2>3, <3>1, Zenon
    <3> QED
      BY <1>1, <1>3, <3>2, OtherChains, Zenon
  <2>7. /\ (MailHead[t] = Nil => MailTail[t] = Nil)'
        /\ (MailHead[t] # Nil => MailTail[t] \in Queue(t) /\ NextLink[MailTail[t]][t] = Nil)'
    BY <1>3, <2>1, <2>2, <2>4, <2>5, Zenon
  <2> QED
    BY <1>2, <2>5, <2>6, <2>7, SentMailbox, Zenon
<1> QED
  BY <1>6, <1>7, Zenon

LEMMA PostLinkStep ==
    ASSUME IInv, NEW c \in Core, PostLink(c) PROVE IInv'
<1>1. TypeOK /\ Entry(c) /\ pc[c] = "post" /\ posted[c] < Len(links[c])
  BY Zenon DEF IInv, PostLink
<1>2. PICK t \in Core : t = links[c][posted[c] + 1]
  <2>0. links[c] \in Seq(Core) /\ posted[c] \in Nat /\ Len(links[c]) \in Nat
    BY <1>1, SentDest, Zenon DEF TypeOK
  <2>1. links[c] \in Seq(Core) /\ posted[c] + 1 \in 1 .. Len(links[c])
    BY <1>1, <2>0
  <2> QED
    BY <2>1
<1>3. /\ IF kind[c].nonMaskable THEN PushNm(c, t) ELSE Enqueue(c, t)
      /\ posted' = [posted EXCEPT ![c] = @ + 1]
      /\ UNCHANGED <<links, left, kind, pc, job, nmEntry, nmJob, ran>>
  BY <1>2, Zenon DEF PostLink, nm
<1>4. /\ MailHead' \in Pointers /\ MailTail' \in Pointers /\ MailNmTop' \in Pointers
      /\ \A d \in Core : d # t => /\ MailHead'[d] = MailHead[d] /\ MailTail'[d] = MailTail[d]
                                  /\ MailNmTop'[d] = MailNmTop[d]
  BY <1>1, <1>3, Zenon DEF PushNm, Enqueue, TypeOK, Pointers
<1>5. \/ NextLink' = NextLink
      \/ \E e \in Core, v \in Core \cup {Nil} :
            /\ e = c \/ t \in Sent(e)
            /\ SetLink(e, t, v)
  <2>1. CASE kind[c].nonMaskable
    <3>1. SetLink(c, t, MailNmTop[t])
      BY <1>3, <2>1, Zenon DEF PushNm, SetLink
    <3> QED
      BY <1>1, <3>1, Zenon DEF TypeOK, Pointers
  <2>2. CASE ~kind[c].nonMaskable /\ MailTail[t] = Nil
    BY <1>3, <2>2, Zenon DEF Enqueue
  <2>3. CASE ~kind[c].nonMaskable /\ MailTail[t] # Nil
    <3>1. InPost(c)
      BY <1>1, Zenon DEF InPost
    <3>2. MailTail[t] \in Core /\ Waits(MailTail[t], t)
      BY <2>3, <3>1, TailLinked, Zenon
    <3>3. \/ NextLink' = NextLink
          \/ SetLink(MailTail[t], t, c)
      BY <1>3, <2>3, Zenon DEF Enqueue, LinkTail, SetLink
    <3> QED
      BY <3>2, <3>3, Zenon DEF Waits
  <2> QED
    BY <2>1, <2>2, <2>3, Zenon
<1>6. /\ NextLink' \in [Core -> [Core -> Core \cup {Nil}]]
      /\ \A x, d \in Core : d # t \/ (x # c /\ t \notin Sent(x)) => NextLink'[x][d] = NextLink[x][d]
  <2>2. CASE NextLink' = NextLink
    BY <1>1, <2>2, Zenon DEF TypeOK
  <2>3. ASSUME NEW e \in Core, NEW v \in Core \cup {Nil}, e = c \/ t \in Sent(e),
               SetLink(e, t, v)
        PROVE  /\ NextLink' \in [Core -> [Core -> Core \cup {Nil}]]
               /\ \A x, d \in Core : d # t \/ (x # c /\ t \notin Sent(x)) => NextLink'[x][d] = NextLink[x][d]
    <3>0. OneLink(e, t, v)
      BY <1>1, <2>3, LinkOne, Zenon
    <3>1. /\ NextLink' \in [Core -> [Core -> Core \cup {Nil}]]
          /\ \A x, y \in Core : ~(x = e /\ y = t) => NextLink'[x][y] = NextLink[x][y]
      BY <3>0, Zenon DEF OneLink
    <3> QED
      BY <2>3, <3>1, Zenon
  <2> QED
    BY <1>5, <2>2, <2>3, Zenon
<1>7. \A x, d \in Core : d \notin Sent(x) /\ ~(x = c /\ d = t) => NextLink'[x][d] = NextLink[x][d]
  BY <1>6, Zenon
<1>8. /\ posted' \in [Core -> Nat] /\ t \notin Sent(c)
      /\ \A x \in Core : /\ Entry(x)'
                         /\ \A d \in Core : Waits(x, d)' <=> Waits(x, d) \/ (x = c /\ d = t)
  <2>1. UNCHANGED <<links, left, kind, pc, ran>> /\ Sends(c, t)
    BY <1>1, <1>2, <1>3, Zenon DEF Sends
  <2>2. pc[c] = "post"
    BY <1>1, Zenon
  <2> QED
    BY <1>7, <2>1, <2>2, SentEntries, Zenon
<1>9. TypeOK'
  BY <1>1, <1>3, <1>4, <1>6, <1>8, Zenon DEF TypeOK
<1>10. ASSUME NEW d \in Core, d # t PROVE Mailbox_(d)'
  <2>1. \A x \in Core : NextLink'[x][d] = NextLink[x][d] /\ (Waits(x, d)' <=> Waits(x, d))
    BY <1>6, <1>8, <1>10, Zenon
  <2> QED
    BY <1>3, <1>4, <1>9, <1>10, <2>1, MailboxKept, Zenon
<1>11. Mailbox_(t)'
  <2>1. InPost(c) /\ \A x \in Core : Waits(x, t)' <=> Waits(x, t) \/ x = c
    BY <1>1, <1>8, Zenon DEF InPost
  <2>2. CASE kind[c].nonMaskable
    BY <1>3, <1>8, <1>9, <2>1, <2>2, PushNmMailbox, Zenon
  <2>3. CASE ~kind[c].nonMaskable
    BY <1>3, <1>8, <1>9, <2>1, <2>3, EnqueueMailbox, Zenon
  <2> QED
    BY <2>2, <2>3, Zenon
<1> QED
  BY <1>8, <1>9, <1>10, <1>11, Zenon DEF IInv

-----------------------------------------------------------------------------
LEMMA InitIInv == Init => IInv
<1> SUFFICES ASSUME Init PROVE IInv
  BY Zenon
<1>1. TypeOK
  <2>1. links \in [Core -> Seq(Core)] /\ left \in [Core -> Int] /\ posted \in [Core -> Nat]
    BY DEF Init
  <2>2. NextLink \in [Core -> [Core -> Core \cup {Nil}]] /\ ran \in [Core -> [Core -> Nat]]
    BY Zenon DEF Init
  <2> QED
    BY <2>1, <2>2, Zenon DEF Init, TypeOK, Pointers
<1>2. ASSUME NEW e \in Core PROVE Entry(e) /\ Sent(e) = {}
  <2>1. links[e] = <<>> /\ posted[e] = 0 /\ left[e] = 0 /\ pc[e] = "idle"
        /\ \A c \in Core : ran[e][c] = 0 /\ NextLink[e][c] = Nil
    BY Zenon DEF Init
  <2>2. Sent(e) = {} /\ Dest(e) = {} /\ posted[e] <= Len(links[e])
    BY <2>1 DEF Sent, Dest
  <2>3. Left(e) = {} /\ ~InPost(e)
    BY <2>1, <2>2, Zenon DEF Left, InPost
  <2>4. left[e] = Cardinality(Left(e))
    BY <2>1, <2>3, FS_EmptySet, Zenon
  <2> QED
    BY <2>1, <2>2, <2>3, <2>4, Zenon DEF Entry
<1>3. ASSUME NEW c \in Core PROVE Mailbox_(c)
  <2>1. /\ MailHead[c] = Nil /\ MailTail[c] = Nil /\ MailNmTop[c] = Nil /\ nmEntry[c] = Nil
        /\ job[c] = Nil /\ nmJob[c] = Nil
    BY Zenon DEF Init
  <2>2. \A e \in Core : ~Waits(e, c)
    BY <1>2, Zenon DEF Waits
  <2>3. Reach(Links(c), Nil) = {} /\ Linear(Links(c), Nil)
    BY NilChain, Zenon
  <2>4. Queue(c) = {} /\ Stack(c) = {} /\ Batch(c) = {}
    BY <2>1, <2>3, Zenon DEF Queue, Stack, Batch, Chain
  <2>5. /\ Linear(Links(c), MailHead[c]) /\ Linear(Links(c), MailNmTop[c]) /\ Linear(Links(c), nmEntry[c])
    BY <2>1, <2>3, Zenon
  <2> QED
    BY <2>1, <2>2, <2>4, <2>5, Zenon DEF Mailbox_
<1> QED
  BY <1>1, <1>2, <1>3, Zenon DEF IInv

LEMMA NextIInv == IInv /\ [Next]_vars => IInv'
<1> SUFFICES ASSUME IInv, [Next]_vars PROVE IInv'
  BY Zenon
<1>1. CASE UNCHANGED vars
  <2>1. UNCHANGED <<entries, queues, posted, job, nmEntry, nmJob, ran>> /\ pc' = pc
    BY <1>1, Zenon DEF vars, main, nm
  <2> QED
    BY <2>1, QuietStep, Zenon DEF IInv, TypeOK, InPost
<1>2. ASSUME NEW c \in Core, Run(c) PROVE IInv'
  BY <1>2, PostLinkStep, PostAnnounceStep, PostReturnStep, InterruptSteps, ExecuteHeadStep,
     ExecuteHeadDoneStep, Zenon DEF Run
<1>3. ASSUME NEW c \in Core, RunNm(c) PROVE IInv'
  BY <1>3, NmiEnterStep, NmTakeStep, NmExecuteStep, NmExecuteDoneStep, Zenon DEF RunNm
<1>4. ASSUME NEW c \in Core, IsrEnter(c) PROVE IInv'
  BY <1>4, InterruptSteps, Zenon
<1>5. ASSUME NEW c \in Core, NEW mail \in Mails[c], Post(c, mail) PROVE IInv'
  BY <1>5, PostStep, Zenon
<1> QED
  BY <1>1, <1>2, <1>3, <1>4, <1>5, Zenon DEF Next

\* What a core waits for has a destination left: that core.
LEMMA WaitedFor ==
    ASSUME IInv, NEW c \in Core, NEW e \in Core, Waits(e, c)
    PROVE  links[e] # <<>> /\ left[e] > 0
<1>1. TypeOK /\ Entry(e)
  BY Zenon DEF IInv
<1>2. c \in Left(e) /\ Left(e) \in SUBSET Core
  BY <1>1, SentDest, Zenon DEF Waits, Left
<1>3. left[e] = Cardinality(Left(e))
  BY <1>1, Zenon DEF Entry
<1>4. Cardinality(Left(e)) \in Nat /\ Cardinality(Left(e)) # 0
  BY <1>2, Counted, Zenon
<1>5. left[e] > 0
  BY <1>3, <1>4
<1>6. PICK i \in 1 .. Len(links[e]) : links[e][i] = c
  BY <1>2, Zenon DEF Left, Dest
<1>7. links[e] # <<>>
  BY <1>6
<1> QED
  BY <1>5, <1>7, Zenon

LEMMA IInvEntriesKept == IInv => EntriesKept
<1> SUFFICES ASSUME IInv PROVE EntriesKept
  BY Zenon
<1>1. ASSUME NEW c \in Core
      PROVE  Pending(c) = {e \in Core : Waits(e, c) /\ e # job[c] /\ e # nmJob[c]}
  <2>1. Mailbox_(c) /\ job[c] \in Core \cup {Nil} /\ nmJob[c] \in Core \cup {Nil}
    BY MailboxFacts, Zenon
  <2>2. Pending(c) = Queue(c) \cup (Stack(c) \cup Batch(c))
    BY Zenon DEF Pending, Queue, Stack, Batch
  <2>3. Queue(c) = {e \in Core : Waits(e, c) /\ ~kind[e].nonMaskable /\ e # job[c]}
    BY <2>1, Zenon DEF Mailbox_
  <2>4. Stack(c) \cup Batch(c) = {e \in Core : Waits(e, c) /\ kind[e].nonMaskable /\ e # nmJob[c]}
    BY <2>1, Zenon DEF Mailbox_
  <2>5. /\ \A e \in Core : e = job[c] => ~kind[e].nonMaskable
        /\ \A e \in Core : e = nmJob[c] => kind[e].nonMaskable
    BY <2>1, NilNoCore, Zenon DEF Mailbox_
  <2> QED
    BY <2>2, <2>3, <2>4, <2>5, Zenon
<1>2. NoDanglingEntry
  <2> SUFFICES ASSUME NEW c \in Core, NEW e \in Pending(c) \cup ({MailTail[c], job[c], nmJob[c]} \ {Nil})
               PROVE  links[e] # <<>> /\ left[e] > 0
    BY Zenon DEF NoDanglingEntry
  <2>1. /\ Mailbox_(c) /\ job[c] \in Core \cup {Nil} /\ nmJob[c] \in Core \cup {Nil}
        /\ MailTail[c] \in Core \cup {Nil}
    BY MailboxFacts, Zenon
  <2>2. MailTail[c] # Nil => MailTail[c] \in Core /\ Waits(MailTail[c], c)
    BY <2>1, Zenon DEF Mailbox_
  <2>3. e \in Core /\ Waits(e, c)
    BY <1>1, <2>1, <2>2, Zenon DEF Mailbox_
  <2> QED
    BY <2>3, WaitedFor, Zenon
<1>3. QueuedUntilTaken
  <2> SUFFICES ASSUME NEW e \in Core, NEW i \in 1 .. posted[e]
               PROVE  e \in Pending(links[e][i]) <=>
                      (ran[e][links[e][i]] = 0 /\ job[links[e][i]] # e /\ nmJob[links[e][i]] # e)
    BY Zenon DEF QueuedUntilTaken
  <2>1. TypeOK /\ Entry(e)
    BY Zenon DEF IInv
  <2>2. PICK c \in Core : c = links[e][i]
    <3>1. posted[e] \in Nat /\ Len(links[e]) \in Nat /\ posted[e] <= Len(links[e]) /\ links[e] \in Seq(Core)
      BY <2>1, SentDest, Zenon DEF Entry, TypeOK
    <3>2. i \in 1 .. Len(links[e])
      BY <3>1
    <3> QED
      BY <3>1, <3>2
  <2>3. c \in Sent(e)
    BY <2>2, Zenon DEF Sent
  <2>4. e \in Pending(c) <=> (ran[e][c] = 0 /\ job[c] # e /\ nmJob[c] # e)
    BY <1>1, <2>3, Zenon DEF Waits
  <2> QED
    BY <2>2, <2>4, Zenon
<1> QED
  BY <1>2, <1>3, Zenon DEF EntriesKept

\* No core holds on to an entry whose poster has left Post, and no mail is lost or run
\* twice, whatever mail any number of cores post, in whatever order they queue, link,
\* take and are interrupted (mailbox.arc.cpp, PostInternal, ExecuteHead, ExecuteNmMail).
THEOREM MailboxEntriesKept == Spec => []EntriesKept
<1>1. Init => IInv
  BY InitIInv, Zenon
<1>2. IInv /\ [Next]_vars => IInv'
  BY NextIInv, Zenon
<1>3. IInv => EntriesKept
  BY IInvEntriesKept, Zenon
<1> QED
  BY <1>1, <1>2, <1>3, PTL DEF Spec

LEMMA ReturnStep ==
    ASSUME IInv, [Next]_vars, NEW c \in Core, pc[c] = "wait", pc'[c] = "idle"
    PROVE  PostReturn(c)
<1>1. pc' # pc
  BY Zenon
<1>2. ASSUME NEW d \in Core, Run(d) \/ RunNm(d) \/ IsrEnter(d) \/ \E mail \in Mails[d] : Post(d, mail)
      PROVE  PostReturn(d) \/ pc' = pc \/ pc' = [pc EXCEPT ![d] = "wait"] \/ pc' = [pc EXCEPT ![d] = "post"]
             \/ pc' = [pc EXCEPT ![d] = "isr"] \/ (pc[d] = "isr" /\ pc' = [pc EXCEPT ![d] = "idle"])
  BY <1>2, Zenon DEF Run, RunNm, PostLink, PostAnnounce, IsrLeave, ExecuteHead, ExecuteHeadDone,
     NmiEnter, NmTake, NmExecute, NmExecuteDone, IsrEnter, Post, main
<1>3. pc \in [Core -> {"idle", "post", "wait", "isr"}]
  BY Zenon DEF IInv, TypeOK
<1>4. PICK d \in Core : Run(d) \/ RunNm(d) \/ IsrEnter(d) \/ \E mail \in Mails[d] : Post(d, mail)
  BY <1>1, Zenon DEF Next, vars, main
<1>5. PostReturn(d)
  BY <1>1, <1>2, <1>3, <1>4, Zenon
<1>6. pc' = [pc EXCEPT ![d] = "idle"]
  BY <1>5, Zenon DEF PostReturn
<1>7. d = c
  BY <1>3, <1>6, Zenon
<1> QED
  BY <1>5, <1>7, Zenon

\* When Post returns, every destination has run the function, once, however many cores
\* post to each other meanwhile: what a TLB shootdown relies on (mailbox.arc.cpp, Post).
THEOREM MailboxReturnMeansDone == Spec => ReturnMeansDone
<1>1. ASSUME IInv, [Next]_vars, NEW c \in Core, pc[c] = "wait", pc'[c] = "idle",
             NEW i \in 1 .. Len(links[c])
      PROVE  ran[c][links[c][i]] = 1
  <2>1. TypeOK /\ Entry(c) /\ left[c] = 0
    BY <1>1, ReturnStep, Zenon DEF IInv, PostReturn, Done
  <2>2. Left(c) = {}
    <3>1. Left(c) \in SUBSET Core /\ left[c] = Cardinality(Left(c))
      BY <2>1, SentDest, Zenon DEF Entry
    <3> QED
      BY <2>1, <3>1, Counted, Zenon
  <2>3. links[c] \in Seq(Core)
    BY <2>1, Zenon DEF TypeOK
  <2>4. links[c][i] \in Core
    BY <2>3
  <2>5. links[c][i] \in Dest(c)
    BY <2>4, Zenon DEF Dest
  <2>6. ran[c][links[c][i]] \in {0, 1} /\ ran[c][links[c][i]] # 0
    BY <2>1, <2>2, <2>4, <2>5, Zenon DEF Entry, Left
  <2> QED
    BY <2>6, Zenon
<1>2. IInv /\ [Next]_vars =>
         [\A c \in Core : pc[c] = "wait" /\ pc'[c] = "idle" =>
             \A i \in 1 .. Len(links[c]) : ran[c][links[c][i]] = 1]_vars
  BY <1>1, Zenon
<1> QED
  BY <1>2, InitIInv, NextIInv, PTL DEF Spec, ReturnMeansDone

=============================================================================
