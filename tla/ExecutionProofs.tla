-------------------------- MODULE ExecutionProofs --------------------------
(***************************************************************************)
(* The pool of identifiers loses none and gives none to two, for any       *)
(* number of identifiers and of actors.  IdsKept is inductive together     *)
(* with the types.  The two steps that change the list need what the list  *)
(* looks like without its first and with a new last identifier; for the    *)
(* others it matters that they only change an entry that no list and no    *)
(* other actor refers to.                                                  *)
(*                                                                         *)
(* Threads that are switched by the timer use the pool of identifiers as   *)
(* IdPool says, for any number of threads and timers: the composition      *)
(* implements PoolSpec, and so what is proved of the pool holds of it.     *)
(* This needs that the scheduler never switches to no thread and that only *)
(* an identifier that was given out gets enrolled; the invariants of the   *)
(* pool and of the queue have to be proved together.                       *)
(***************************************************************************)
EXTENDS Execution, TLAPS

\* What the proofs use of sequences.
LEMMA Sequence ==
    ASSUME NEW S, NEW s \in Seq(S)
    PROVE  /\ Len(s) \in Nat /\ DOMAIN s = 1 .. Len(s)
           /\ \A k \in 1 .. Len(s) : s[k] \in S
           /\ s = <<>> <=> Len(s) = 0
  OBVIOUS

LEMMA SequenceOfLength ==
    ASSUME NEW S, NEW n \in Nat, NEW f \in [1 .. n -> S]
    PROVE  f \in Seq(S) /\ Len(f) = n
  OBVIOUS

LEMMA SequenceTail ==
    ASSUME NEW S, NEW s \in Seq(S), s # <<>>
    PROVE  /\ Tail(s) \in Seq(S) /\ Len(Tail(s)) = Len(s) - 1
           /\ \A k \in 1 .. Len(s) - 1 : Tail(s)[k] = s[k + 1]
  OBVIOUS

LEMMA SequenceAppend ==
    ASSUME NEW S, NEW s \in Seq(S), NEW x \in S
    PROVE  /\ Append(s, x) \in Seq(S) /\ Len(Append(s, x)) = Len(s) + 1
           /\ \A k \in 1 .. Len(s) : Append(s, x)[k] = s[k]
           /\ Append(s, x)[Len(s) + 1] = x
  OBVIOUS

IInv == PoolTypeOK /\ IdsKept

\* Words that differ are told apart.
LEMMA Words ==
    /\ Ones \notin Ids /\ Bootstrap \in Ids
    /\ Unallocated # NoNext
    /\ \A i, j \in Ids : Link(i) # NoNext /\ (Link(i) = Link(j) => i = j)
    /\ {NoNext, Unallocated} \subseteq [busy : BOOLEAN, value : Ids \cup {Ones}]
    /\ \A i \in Ids : {Link(i), Pointer(i)} \subseteq [busy : BOOLEAN, value : Ids \cup {Ones}]
    /\ \A i \in Ids : Pointer(i) # Unallocated /\ Pointer(i).busy /\ Pointer(i).value = i
BY IdPoolAssumption DEF Ids, Ones, Bootstrap, NoNext, Unallocated, Link, Pointer

\* The list is what the constructor of IdPool left of it.
LEMMA PoolInitIInv == PoolInit => IInv
<1> SUFFICES ASSUME PoolInit PROVE IInv
  BY Zenon
<1> USE DEF PoolInit
<1>1. /\ free \in Seq(Ids) /\ Len(free) = Capacity - 2 /\ free # <<>>
      /\ DOMAIN free = 1 .. Capacity - 2
      /\ \A k \in 1 .. Capacity - 2 : free[k] = k + 1
  <2>1. Capacity - 2 \in Nat /\ Capacity - 2 >= 1
    BY IdPoolAssumption
  <2>2. free \in [1 .. Capacity - 2 -> Ids] /\ \A k \in 1 .. Capacity - 2 : free[k] = k + 1
    BY <2>1, IdPoolAssumption DEF Ids
  <2>3. free \in Seq(Ids)
    BY <2>1, <2>2, SequenceOfLength, Zenon
  <2>4. DOMAIN free = 1 .. Capacity - 2
    BY <2>2, Zenon
  <2>5. Len(free) = Capacity - 2
    BY <2>1, <2>3, <2>4, Sequence
  <2> QED
    BY <2>1, <2>2, <2>3, <2>4, <2>5, Sequence
<1>2. PoolTypeOK
  <2>1. first \in Ids /\ last \in Ids
    BY IdPoolAssumption DEF Ids
  <2>2. Entries \in [Ids -> [busy : BOOLEAN, value : Ids \cup {Ones}]]
    <3>1. ASSUME NEW i \in Ids PROVE Entries[i] \in [busy : BOOLEAN, value : Ids \cup {Ones}]
      <4>1. CASE i \in {Reserved, Bootstrap}
        BY <4>1, Words, Zenon
      <4>2. CASE i \notin {Reserved, Bootstrap} /\ i = Capacity - 1
        BY <4>2, Words, Zenon
      <4>3. CASE i \notin {Reserved, Bootstrap} /\ i # Capacity - 1
        <5>1. i + 1 \in Ids
          BY <4>3, IdPoolAssumption DEF Ids
        <5> QED
          BY <5>1, <4>3, Words, Zenon
      <4> QED
        BY <4>1, <4>2, <4>3, Zenon
    <3> QED
      BY <3>1, Zenon
  <2> QED
    BY <2>1, <2>2, <1>1, Words, Zenon DEF PoolTypeOK, Steps
<1>3. ListLinked
  <2>1. first = free[1] /\ last = free[Len(free)]
    BY <1>1, IdPoolAssumption
  <2>2. Entries[last] = NoNext
    BY IdPoolAssumption DEF Ids, Reserved, Bootstrap
  <2>3. ASSUME NEW k \in 1 .. Len(free) - 1 PROVE Entries[free[k]] = Link(free[k + 1])
    <3>1. free[k] = k + 1 /\ free[k + 1] = k + 2 /\ k + 1 \in Ids
      BY <1>1, IdPoolAssumption DEF Ids
    <3>2. k + 1 \notin {Reserved, Bootstrap} /\ k + 1 # Capacity - 1 /\ (k + 1) + 1 = k + 2
      BY <1>1, IdPoolAssumption DEF Reserved, Bootstrap
    <3> QED
      BY <3>1, <3>2, Zenon
  <2>4. \A k, l \in DOMAIN free : free[k] = free[l] => k = l
    BY <1>1, IdPoolAssumption
  <2> QED
    BY <1>1, <2>1, <2>2, <2>3, <2>4, Zenon DEF ListLinked
<1>4. HeldAlone
  BY Zenon DEF HeldAlone
<1>5. NoneLost
  <2> SUFFICES ASSUME NEW i \in Ids PROVE InList(i) \/ Resolve(i) \in {i, Bootstrap}
    BY Zenon DEF NoneLost
  <2>1. CASE i \in {Reserved, Bootstrap}
    BY <2>1, Words, Zenon DEF Resolve
  <2>2. CASE i \notin {Reserved, Bootstrap}
    <3>1. i - 1 \in 1 .. Capacity - 2 /\ free[i - 1] = i
      BY <2>2, <1>1, IdPoolAssumption DEF Ids, Reserved, Bootstrap
    <3> QED
      BY <3>1, <1>1, Zenon DEF InList
  <2> QED
    BY <2>1, <2>2, Zenon
<1> QED
  BY <1>2, <1>3, <1>4, <1>5, Zenon DEF IInv, IdsKept

\* What a list that is not empty looks like.
LEMMA ListEnds ==
    ASSUME IInv, free # <<>>
    PROVE  /\ Len(free) \in Nat /\ Len(free) >= 1 /\ DOMAIN free = 1 .. Len(free)
           /\ first = free[1] /\ last = free[Len(free)] /\ first # Ones /\ last # Ones
           /\ InList(first) /\ InList(last)
           /\ \A k \in 1 .. Len(free) : free[k] \in Ids
<1>1. Len(free) \in Nat /\ Len(free) >= 1 /\ DOMAIN free = 1 .. Len(free)
  BY Sequence DEF IInv, PoolTypeOK
<1>2. \A k \in 1 .. Len(free) : free[k] \in Ids
  BY Sequence, Zenon DEF IInv, PoolTypeOK
<1>3. first = free[1] /\ last = free[Len(free)]
  BY Zenon DEF IInv, IdsKept, ListLinked
<1> QED
  BY <1>1, <1>2, <1>3, Words DEF InList

\* Acquire takes the first identifier out of the list; nobody else has it.
LEMMA AcquireIInv ==
    ASSUME IInv, NEW a \in Actors, Acquire(a)
    PROVE  IInv'
<1> USE DEF IInv, IdsKept
<1>1. free # <<>>
  BY Zenon DEF ListLinked, Acquire
<1> DEFINE n == Len(free)
<1>2. /\ n \in Nat /\ n >= 1 /\ DOMAIN free = 1 .. n
      /\ first = free[1] /\ last = free[n] /\ first \in Ids /\ last \in Ids /\ last # Ones
      /\ InList(first) /\ InList(last)
      /\ \A k \in 1 .. n : free[k] \in Ids
  BY <1>1, ListEnds
<1>3. /\ free' \in Seq(Ids) /\ Len(free') = n - 1 /\ DOMAIN free' = 1 .. n - 1
      /\ \A k \in 1 .. n - 1 : free'[k] = free[k + 1]
      /\ free' = <<>> <=> n = 1
  <2>1. free' = Tail(free)
    BY Zenon DEF Acquire
  <2>2. free' \in Seq(Ids) /\ Len(free') = n - 1 /\ \A k \in 1 .. n - 1 : free'[k] = free[k + 1]
    BY <2>1, <1>1, SequenceTail, Zenon DEF PoolTypeOK
  <2>3. DOMAIN free' = 1 .. n - 1
    BY <2>2, Sequence, Zenon
  <2>4. free' = <<>> <=> n = 1
    BY <2>2, <1>2, Sequence
  <2> QED
    BY <2>2, <2>3, <2>4, Zenon
<1>4. /\ step[a] = "idle" /\ step' = [step EXCEPT ![a] = "acquired"]
      /\ id' = [id EXCEPT ![a] = first] /\ old' = old
      /\ Entries' = [Entries EXCEPT ![first] = Unallocated]
  BY Zenon DEF Acquire, GoTo
<1>5. IF n = 1 THEN first' = Ones /\ last' = Ones
      ELSE first' = free[2] /\ last' = last
  <2>1. CASE n = 1
    <3>1. Entries[first] = NoNext
      BY <2>1, <1>1, <1>2, Zenon DEF ListLinked
    <3> QED
      BY <3>1, <2>1 DEF Acquire, NoNext
  <2>2. CASE n # 1
    <3>1. Entries[first] = Link(free[2])
      BY <2>2, <1>2 DEF ListLinked
    <3>2. free[2] \in Ids
      BY <2>2, <1>2
    <3>3. Entries[first].value = free[2]
      BY <3>1 DEF Link
    <3>4. Entries[first] # NoNext
      BY <3>1, <3>2, Words
    <3> QED
      BY <3>3, <3>4, <2>2, Zenon DEF Acquire
  <2> QED
    BY <2>1, <2>2, Zenon
<1>6. PoolTypeOK'
  BY <1>2, <1>3, <1>4, <1>5, Words DEF PoolTypeOK, Steps
<1>7. \A i : InList(i)' <=> InList(i) /\ i # first
  <2>1. \A k \in 1 .. n : free[k] = free[1] => k = 1
    BY <1>2 DEF ListLinked
  <2>2. \A i : InList(i)' => InList(i) /\ i # first
    BY <2>1, <1>2, <1>3, SMTT(40) DEF InList
  <2>3. ASSUME NEW k \in 1 .. n, k # 1
        PROVE  k - 1 \in DOMAIN free' /\ free'[k - 1] = free[k]
    BY <2>3, <1>2, <1>3
  <2>4. \A i : InList(i) /\ i # first => InList(i)'
    BY <2>3, <1>2, Zenon DEF InList
  <2> QED
    BY <2>2, <2>4, Zenon
<1>8. \A i \in Ids : i # first => Entries'[i] = Entries[i]
  BY <1>4, Zenon DEF PoolTypeOK
<1>9. Entries'[first] = Unallocated
  BY <1>2, <1>4, Zenon DEF PoolTypeOK
<1>10. ListLinked'
  <2>1. IF free' = <<>> THEN first' = Ones /\ last' = Ones
        ELSE /\ first' = free'[1] /\ last' = free'[Len(free')]
             /\ Entries'[last'] = NoNext
    <3>1. CASE n = 1
      BY <3>1, <1>3, <1>5, Zenon
    <3>2. CASE n # 1
      <4>1. first' = free'[1] /\ last' = last /\ last = free'[n - 1]
        BY <3>2, <1>2, <1>3, <1>5
      <4>2. last # first
        BY <3>2, <1>2 DEF ListLinked
      <4>3. Entries'[last] = NoNext
        BY <4>2, <1>1, <1>2, <1>8, Zenon DEF ListLinked
      <4> QED
        BY <4>1, <4>3, <3>2, <1>3, Zenon
    <3> QED
      BY <3>1, <3>2, Zenon
  <2>2. ASSUME NEW k \in 1 .. Len(free') - 1 PROVE Entries'[free'[k]] = Link(free'[k + 1])
    <3>1. k + 1 \in 1 .. n - 1 /\ free'[k] = free[k + 1] /\ free'[k + 1] = free[k + 2]
      BY <1>2, <1>3
    <3>2. free[k + 1] # first /\ free[k + 1] \in Ids
      BY <3>1, <1>2 DEF ListLinked
    <3>3. Entries[free[k + 1]] = Link(free[k + 2])
      BY <3>1, <1>2 DEF ListLinked
    <3> QED
      BY <3>1, <3>2, <3>3, <1>8, Zenon
  <2>3. ASSUME NEW k \in DOMAIN free', NEW l \in DOMAIN free', free'[k] = free'[l] PROVE k = l
    <3>1. k + 1 \in DOMAIN free /\ l + 1 \in DOMAIN free /\ free[k + 1] = free[l + 1]
      BY <2>3, <1>2, <1>3
    <3>2. k + 1 = l + 1
      BY <3>1, Zenon DEF ListLinked
    <3> QED
      BY <3>2, <1>2, <1>3
  <2> QED
    BY <2>1, <2>2, <2>3, Zenon DEF ListLinked, Link, NoNext
<1>11. HeldAlone'
  <2> SUFFICES ASSUME NEW b \in Actors, step'[b] # "idle"
               PROVE  /\ id'[b] \in Ids /\ ~InList(id[b])' /\ Held(b)'
                      /\ \A d \in Actors : step'[d] # "idle" /\ id'[d] = id'[b] => d = b
    BY Zenon DEF HeldAlone
  <2>1. \A d \in Actors : d # a => step'[d] = step[d] /\ id'[d] = id[d] /\ old'[d] = old[d]
    BY <1>4, Zenon DEF PoolTypeOK
  <2>2. step'[a] = "acquired" /\ id'[a] = first
    BY <1>4, Zenon DEF PoolTypeOK
  <2>3. \A d \in Actors : d # a /\ step[d] # "idle" => id[d] \in Ids /\ id[d] # first /\ ~InList(id[d])
    BY <1>2, Zenon DEF HeldAlone
  <2>4. CASE b = a
    BY <2>1, <2>2, <2>3, <2>4, <1>2, <1>7, <1>9, Zenon DEF Held
  <2>5. CASE b # a
    <3>1. id'[b] = id[b] /\ step'[b] = step[b] /\ id[b] \in Ids /\ ~InList(id[b]) /\ id[b] # first
      BY <2>1, <2>3, <2>5, Zenon
    <3>2. Held(b)'
      <4>1. Entries'[id'[b]] = Entries[id[b]]
        BY <3>1, <1>8, Zenon
      <4>2. Held(b)
        BY <3>1, Zenon DEF HeldAlone
      <4> QED
        BY <4>1, <4>2, <3>1, <2>1, <2>5, Zenon DEF Held, Unallocated, NoNext, Pointer
    <3>3. ~InList(id[b])'
      BY <3>1, <1>7, Zenon
    <3>4. ASSUME NEW d \in Actors, step'[d] # "idle", id'[d] = id'[b] PROVE d = b
      BY <3>1, <3>4, <2>1, <2>2, Zenon DEF HeldAlone
    <3> QED
      BY <3>1, <3>2, <3>3, <3>4, Zenon
  <2> QED
    BY <2>4, <2>5, Zenon
<1>12. NoneLost'
  <2> SUFFICES ASSUME NEW i \in Ids
               PROVE  \/ InList(i)'
                      \/ \E b \in Actors : step'[b] # "idle" /\ id'[b] = i
                      \/ Resolve(i)' \in {i, Bootstrap}
    BY Zenon DEF NoneLost
  <2>1. CASE i = first
    BY <2>1, <1>4, Zenon DEF PoolTypeOK
  <2>2. CASE i # first
    <3>1. CASE InList(i)
      BY <3>1, <2>2, <1>7, Zenon
    <3>2. CASE \E b \in Actors : step[b] # "idle" /\ id[b] = i
      BY <3>2, <1>4, Zenon DEF PoolTypeOK
    <3>3. CASE Resolve(i) \in {i, Bootstrap}
      <4>1. Entries'[i] = Entries[i]
        BY <2>2, <1>8, Zenon
      <4>2. Resolve(i)' = Resolve(i)
        BY <4>1, Zenon DEF Resolve, Unallocated
      <4> QED
        BY <4>2, <3>3, Zenon
    <3> QED
      BY <3>1, <3>2, <3>3, Zenon DEF NoneLost
  <2> QED
    BY <2>1, <2>2, Zenon
<1> QED
  BY <1>6, <1>10, <1>11, <1>12, Zenon

\* A list none of whose entries changes stays linked.
LEMMA ListUntouched ==
    ASSUME IInv, UNCHANGED <<first, last, free>>,
           \A i \in Ids : InList(i) => Entries'[i] = Entries[i]
    PROVE  ListLinked' /\ \A i : InList(i)' <=> InList(i)
<1> USE DEF IInv, IdsKept
<1>1. \A i : InList(i)' <=> InList(i)
  BY Zenon DEF InList
<1>2. Len(free) \in Nat /\ DOMAIN free = 1 .. Len(free)
  BY Sequence, Zenon DEF PoolTypeOK
<1>3. \A k \in 1 .. Len(free) : free[k] \in Ids /\ InList(free[k])
  BY <1>2, Sequence, Zenon DEF PoolTypeOK, InList
<1>4. CASE free = <<>>
  BY <1>1, <1>2, <1>4, Sequence DEF ListLinked
<1>5. CASE free # <<>>
  <2>1. last \in Ids /\ InList(last)
    BY <1>3, <1>5, ListEnds
  <2>2. Entries'[last] = NoNext
    BY <2>1, <1>5, Zenon DEF ListLinked
  <2>3. ASSUME NEW k \in 1 .. Len(free) - 1 PROVE Entries'[free[k]] = Link(free[k + 1])
    <3>1. Entries[free[k]] = Link(free[k + 1])
      BY Zenon DEF ListLinked
    <3> QED
      BY <3>1, <1>2, <1>3
  <2> QED
    BY <2>2, <2>3, <1>1, <1>5, Zenon DEF ListLinked, Link, NoNext
<1> QED
  BY <1>4, <1>5, Zenon

\* An actor may change the entry of the identifier it holds.
LEMMA HolderStep ==
    ASSUME IInv, NEW a \in Actors, step[a] # "idle", UNCHANGED <<first, last, id, free>>,
           \A b \in Actors : b # a => step'[b] = step[b] /\ old'[b] = old[b],
           \A i \in Ids : i # id[a] => Entries'[i] = Entries[i],
           step'[a] # "idle", Held(a)', PoolTypeOK'
    PROVE  IInv'
<1> USE DEF IInv, IdsKept
<1>1. id[a] \in Ids /\ ~InList(id[a])
  BY Zenon DEF HeldAlone
<1>2. ListLinked' /\ \A i : InList(i)' <=> InList(i)
  BY <1>1, ListUntouched, Zenon
<1>3. HeldAlone'
  <2> SUFFICES ASSUME NEW b \in Actors, step'[b] # "idle"
               PROVE  /\ id'[b] \in Ids /\ ~InList(id[b])' /\ Held(b)'
                      /\ \A d \in Actors : step'[d] # "idle" /\ id'[d] = id'[b] => d = b
    BY Zenon DEF HeldAlone
  <2>1. step[b] # "idle" /\ id'[b] = id[b] /\ \A d \in Actors : step'[d] # "idle" => step[d] # "idle"
    BY Zenon
  <2>2. Held(b)'
    <3>1. CASE b = a
      BY <3>1, Zenon
    <3>2. CASE b # a
      <4>1. id[b] \in Ids /\ id[b] # id[a] /\ Held(b)
        BY <3>2, <2>1, Zenon DEF HeldAlone
      <4>2. Entries'[id'[b]] = Entries[id[b]]
        BY <4>1, Zenon
      <4> QED
        BY <4>1, <4>2, <3>2, Zenon DEF Held, Unallocated, NoNext, Pointer
    <3> QED
      BY <3>1, <3>2, Zenon
  <2> QED
    BY <2>1, <2>2, <1>2, Zenon DEF HeldAlone
<1>4. NoneLost'
  <2> SUFFICES ASSUME NEW i \in Ids
               PROVE  \/ InList(i)'
                      \/ \E b \in Actors : step'[b] # "idle" /\ id'[b] = i
                      \/ Resolve(i)' \in {i, Bootstrap}
    BY Zenon DEF NoneLost
  <2>1. CASE i = id[a]
    BY <2>1, Zenon
  <2>2. CASE i # id[a]
    <3>1. Resolve(i)' = Resolve(i)
      BY <2>2, Zenon DEF Resolve, Unallocated
    <3>2. \A b \in Actors : step[b] # "idle" => step'[b] # "idle"
      BY Zenon
    <3> QED
      BY <3>1, <3>2, <1>2, Zenon DEF NoneLost
  <2> QED
    BY <2>1, <2>2, Zenon
<1> QED
  BY <1>2, <1>3, <1>4, Zenon

\* The steps of SpawnThread and Release that change no list.
LEMMA HolderIInv ==
    ASSUME IInv, NEW a \in Actors,
           Construct(a) \/ SetPointer(a) \/ ReleaseLoad(a) \/ ReleaseUnlink(a)
    PROVE  IInv'
<1> USE DEF IInv, IdsKept
<1>1. step[a] # "idle" /\ step'[a] # "idle" /\ UNCHANGED <<first, last, id, free>>
  BY Zenon DEF PoolTypeOK, Construct, SetPointer, ReleaseLoad, ReleaseUnlink, GoTo
<1>2. id[a] \in Ids /\ Held(a)
  BY <1>1, Zenon DEF HeldAlone
<1>3. \A b \in Actors : b # a => step'[b] = step[b] /\ old'[b] = old[b]
  BY Zenon DEF PoolTypeOK, Construct, SetPointer, ReleaseLoad, ReleaseUnlink, GoTo
<1>4. \A i \in Ids : i # id[a] => Entries'[i] = Entries[i]
  BY Zenon DEF PoolTypeOK, Construct, SetPointer, ReleaseLoad, ReleaseUnlink
<1>5. PoolTypeOK'
  <2>1. CASE Construct(a)
    BY <2>1, Zenon DEF PoolTypeOK, Construct, GoTo, Steps
  <2>2. CASE SetPointer(a)
    BY <2>2, <1>2, Words, Zenon DEF PoolTypeOK, SetPointer, GoTo, Steps
  <2>3. CASE ReleaseLoad(a)
    BY <2>3, <1>2, Zenon DEF PoolTypeOK, ReleaseLoad, GoTo, Steps
  <2>4. CASE ReleaseUnlink(a)
    BY <2>4, <1>2, Words, Zenon DEF PoolTypeOK, ReleaseUnlink, GoTo, Steps
  <2> QED
    BY <2>1, <2>2, <2>3, <2>4, Zenon
<1>6. Held(a)'
  <2>1. CASE Construct(a)
    BY <2>1, <1>2, Zenon DEF PoolTypeOK, Construct, GoTo, Held, Unallocated
  <2>2. CASE SetPointer(a)
    BY <2>2, <1>2, Zenon DEF PoolTypeOK, SetPointer, GoTo, Held, Pointer
  <2>3. CASE ReleaseLoad(a)
    BY <2>3, <1>2, Zenon DEF PoolTypeOK, ReleaseLoad, GoTo, Held, Unallocated
  <2>4. CASE ReleaseUnlink(a)
    BY <2>4, <1>2, Zenon DEF PoolTypeOK, ReleaseUnlink, GoTo, Held, NoNext
  <2> QED
    BY <2>1, <2>2, <2>3, <2>4, Zenon
<1> QED
  BY <1>1, <1>3, <1>4, <1>5, <1>6, HolderStep, Zenon

\* An actor lets go of an identifier, which is then that of an object or in the list.
LEMMA LetGo ==
    ASSUME IInv, NEW a \in Actors, step[a] # "idle",
           step' = [step EXCEPT ![a] = "idle"], id' = [id EXCEPT ![a] = Ones],
           \A b \in Actors : b # a => old'[b] = old[b],
           \A i \in Ids : ~InList(i) => Entries'[i] = Entries[i],
           \A i : InList(i) => InList(i)',
           \A i : InList(i)' => InList(i) \/ i = id[a],
           \/ \A i : i = id[a] => InList(i)'
           \/ step[a] = "spawned"
    PROVE  HeldAlone' /\ NoneLost'
<1> USE DEF IInv, IdsKept
<1>1. \A b \in Actors : b # a => step'[b] = step[b] /\ id'[b] = id[b]
  BY Zenon DEF PoolTypeOK
<1>2. step'[a] = "idle" /\ id[a] \in Ids /\ ~InList(id[a]) /\ Held(a)
  BY Zenon DEF PoolTypeOK, HeldAlone
<1>3. HeldAlone'
  <2> SUFFICES ASSUME NEW b \in Actors, step'[b] # "idle"
               PROVE  /\ id'[b] \in Ids /\ ~InList(id[b])' /\ Held(b)'
                      /\ \A d \in Actors : step'[d] # "idle" /\ id'[d] = id'[b] => d = b
    BY Zenon DEF HeldAlone
  <2>1. b # a /\ step'[b] = step[b] /\ id'[b] = id[b] /\ old'[b] = old[b]
    BY <1>1, <1>2, Zenon
  <2>2. id[b] \in Ids /\ id[b] # id[a] /\ ~InList(id[b]) /\ Held(b)
    BY <2>1, Zenon DEF HeldAlone
  <2>3. Held(b)'
    <3>1. Entries'[id'[b]] = Entries[id[b]]
      BY <2>1, <2>2, Zenon
    <3> QED
      BY <3>1, <2>1, <2>2, Zenon DEF Held, Unallocated, NoNext, Pointer
  <2>4. ~InList(id[b])'
    BY <2>1, <2>2, Zenon
  <2>5. ASSUME NEW d \in Actors, step'[d] # "idle", id'[d] = id'[b] PROVE d = b
    BY <2>1, <2>5, <1>1, <1>2 DEF HeldAlone
  <2> QED
    BY <2>1, <2>2, <2>3, <2>4, <2>5, Zenon
<1>4. NoneLost'
  <2> SUFFICES ASSUME NEW i \in Ids, ~InList(i)'
               PROVE  \/ \E b \in Actors : step'[b] # "idle" /\ id'[b] = i
                      \/ Resolve(i)' \in {i, Bootstrap}
    BY Zenon DEF NoneLost
  <2>1. ~InList(i) /\ Entries'[i] = Entries[i]
    BY Zenon
  <2>2. Resolve(i)' = Resolve(i)
    BY <2>1, Zenon DEF Resolve, Unallocated
  <2>3. CASE i = id[a]
    <3>1. Entries[i] = Pointer(i)
      BY <2>3, <1>2, Zenon DEF Held
    <3> QED
      BY <3>1, <2>2, Words, SMTT(40) DEF Resolve
  <2>4. CASE i # id[a]
    BY <2>1, <2>2, <2>4, <1>1 DEF NoneLost
  <2> QED
    BY <2>3, <2>4, Zenon
<1> QED
  BY <1>3, <1>4, Zenon

LEMMA SpawnReturnIInv ==
    ASSUME IInv, NEW a \in Actors, SpawnReturn(a)
    PROVE  IInv'
<1>1. /\ step[a] = "spawned" /\ step' = [step EXCEPT ![a] = "idle"]
      /\ id' = [id EXCEPT ![a] = Ones] /\ UNCHANGED <<first, last, Entries, old, free>>
  BY Zenon DEF SpawnReturn, GoTo
<1>2. PoolTypeOK'
  BY <1>1, Zenon DEF IInv, PoolTypeOK, Steps
<1>3. ListLinked' /\ \A i : InList(i)' <=> InList(i)
  BY <1>1, ListUntouched, Zenon
<1>4. HeldAlone' /\ NoneLost'
  BY <1>1, <1>3, LetGo, Zenon
<1> QED
  BY <1>2, <1>3, <1>4, Zenon DEF IInv, IdsKept

\* Release appends an identifier that is not in the list, and whose entry ends one.
LEMMA ReleaseLinkIInv ==
    ASSUME IInv, NEW a \in Actors, ReleaseLink(a)
    PROVE  IInv'
<1> USE DEF IInv, IdsKept
<1> DEFINE n == Len(free)
           i0 == id[a]
<1>1. /\ step[a] = "unlinked" /\ step' = [step EXCEPT ![a] = "idle"]
      /\ id' = [id EXCEPT ![a] = Ones] /\ old' = [old EXCEPT ![a] = NoNext]
      /\ last' = i0 /\ free' = Append(free, i0)
  BY Zenon DEF ReleaseLink, GoTo
<1>2. i0 \in Ids /\ ~InList(i0) /\ Entries[i0] = NoNext
  BY <1>1, Zenon DEF HeldAlone, Held
<1>3. /\ n \in Nat /\ DOMAIN free = 1 .. n /\ (free = <<>> <=> n = 0)
      /\ \A k \in 1 .. n : free[k] \in Ids
  BY Sequence, Zenon DEF PoolTypeOK
<1>4. /\ free' \in Seq(Ids) /\ Len(free') = n + 1 /\ DOMAIN free' = 1 .. n + 1
      /\ \A k \in 1 .. n : free'[k] = free[k]
      /\ free'[n + 1] = i0 /\ free' # <<>>
  <2>1. /\ free' \in Seq(Ids) /\ Len(free') = n + 1
        /\ \A k \in 1 .. n : free'[k] = free[k]
        /\ free'[n + 1] = i0
    BY <1>1, <1>2, SequenceAppend DEF PoolTypeOK
  <2>2. DOMAIN free' = 1 .. n + 1
    BY <2>1, Sequence, Zenon
  <2>3. free' # <<>>
    BY <2>1, <1>3, Sequence
  <2> QED
    BY <2>1, <2>2, <2>3, Zenon
<1>5. \A i : InList(i)' <=> InList(i) \/ i = i0
  <2>1. \A i : InList(i)' => InList(i) \/ i = i0
    BY <1>3, <1>4 DEF InList
  <2>2. \A i : InList(i) => InList(i)'
    BY <1>3, <1>4 DEF InList
  <2>3. n + 1 \in DOMAIN free'
    BY <1>3, <1>4
  <2>4. \A i : i = i0 => InList(i)'
    BY <2>3, <1>4, Zenon DEF InList
  <2> QED
    BY <2>1, <2>2, <2>4, Zenon
<1>6. /\ last = Ones <=> n = 0
      /\ n # 0 => last \in Ids /\ last = free[n] /\ InList(last) /\ last # i0
  BY <1>2, <1>3, ListEnds, Words DEF ListLinked
<1>7. first' = (IF n = 0 THEN i0 ELSE first)
      /\ Entries' = IF n = 0 THEN Entries ELSE [Entries EXCEPT ![last] = Link(i0)]
  BY <1>6, Zenon DEF ReleaseLink
<1>8. PoolTypeOK'
  BY <1>1, <1>2, <1>4, <1>6, <1>7, Words, Zenon DEF PoolTypeOK, Steps
<1>9. /\ Entries'[i0] = NoNext
      /\ n # 0 => Entries'[last] = Link(i0)
      /\ \A i \in Ids : i # last => Entries'[i] = Entries[i]
  BY <1>2, <1>6, <1>7, Zenon DEF PoolTypeOK
<1>10. ListLinked'
  <2>1. first' = free'[1]
    BY <1>3, <1>4, <1>7 DEF ListLinked
  <2>2. ASSUME NEW k \in 1 .. Len(free') - 1 PROVE Entries'[free'[k]] = Link(free'[k + 1])
    <3>0. k \in 1 .. n /\ n # 0 /\ free'[k] = free[k]
      BY <1>3, <1>4
    <3>1. CASE k = n
      BY <3>0, <3>1, <1>4, <1>6, <1>9, Zenon
    <3>2. CASE k # n
      <4>0. n \in Nat
        BY <1>3, Zenon
      <4>1. k \in 1 .. n - 1 /\ k + 1 \in 1 .. n /\ n \in 1 .. n
        <5> HIDE DEF n
        <5> QED
          BY <3>0, <3>2, <4>0
      <4>2. free[k] # last /\ free[k] \in Ids
        <5>1. k \in DOMAIN free /\ n \in DOMAIN free
          BY <3>0, <4>1, <1>3, Zenon
        <5> QED
          BY <5>1, <3>0, <3>2, <1>3, <1>6, Zenon DEF ListLinked
      <4>3. Entries[free[k]] = Link(free[k + 1])
        BY <4>1, Zenon DEF ListLinked
      <4> QED
        BY <3>0, <4>1, <4>2, <4>3, <1>4, <1>9, Zenon
    <3> QED
      BY <3>1, <3>2, Zenon
  <2>3. ASSUME NEW k \in DOMAIN free', NEW l \in DOMAIN free', free'[k] = free'[l] PROVE k = l
    <3>1. \A m \in 1 .. n : free[m] # i0
      BY <1>2, <1>3, Zenon DEF InList
    <3>2. CASE k = n + 1
      <4>1. free'[l] = i0
        BY <3>2, <2>3, <1>4, Zenon
      <4>2. l \notin 1 .. n
        BY <4>1, <3>1, <1>4, Zenon
      <4> QED
        BY <4>2, <3>2, <1>3, <1>4
    <3>3. CASE l = n + 1
      <4>1. free'[k] = i0
        BY <3>3, <2>3, <1>4, Zenon
      <4>2. k \notin 1 .. n
        BY <4>1, <3>1, <1>4, Zenon
      <4> QED
        BY <4>2, <3>3, <1>3, <1>4
    <3>4. CASE k # n + 1 /\ l # n + 1
      BY <3>4, <2>3, <1>3, <1>4 DEF ListLinked
    <3> QED
      BY <3>2, <3>3, <3>4, Zenon
  <2>4. last' = free'[Len(free')] /\ Entries'[last'] = NoNext
    BY <1>1, <1>4, <1>9, Zenon
  <2> QED
    BY <2>1, <2>2, <2>3, <2>4, <1>4, Zenon DEF ListLinked, Link, NoNext
<1>11. HeldAlone' /\ NoneLost'
  <2>1. \A i \in Ids : ~InList(i) => Entries'[i] = Entries[i]
    BY <1>6, <1>7, <1>9, Zenon
  <2>2. \A b \in Actors : b # a => old'[b] = old[b]
    BY <1>1, Zenon DEF PoolTypeOK
  <2> QED
    BY <2>1, <2>2, <1>1, <1>5, LetGo, Zenon
<1> QED
  BY <1>8, <1>10, <1>11, Zenon

\* No step of any actor, whatever the others do, loses an identifier.
LEMMA PoolStep == IInv /\ [PoolNext]_poolVars => IInv'
<1> SUFFICES ASSUME IInv, [PoolNext]_poolVars PROVE IInv'
  BY Zenon
<1>1. ASSUME NEW a \in Actors, Spawning(a) \/ SpawnReturn(a) PROVE IInv'
  BY <1>1, AcquireIInv, HolderIInv, ReleaseLinkIInv, SpawnReturnIInv, Zenon DEF Spawning
<1>2. CASE UNCHANGED poolVars
  BY <1>2, ZenonT(40) DEF poolVars, IInv, PoolTypeOK, IdsKept, ListLinked, HeldAlone, NoneLost, InList,
              Held, Resolve, Link, Pointer, NoNext, Unallocated
<1> QED
  BY <1>1, <1>2, Zenon DEF PoolNext

\* For any number of identifiers and any set of actors, every identifier is free and in
\* the list once, or held by one actor, or that of an object (id.pool.hpp).
THEOREM PoolKeepsIds == PoolSpec => []IdsKept
<1>1. IInv => IdsKept
  BY Zenon DEF IInv
<1> QED
  BY <1>1, PoolInitIInv, PoolStep, PTL DEF PoolSpec

-----------------------------------------------------------------------------
Queues == [First : Threads \cup {Null}, Last : Threads \cup {Null}, bit : BOOLEAN,
           Next : [Threads -> Threads \cup {Null}],
           Previous : [Threads -> Threads \cup {Null}]]

\* The queue has a first thread if it has a last one, and also while a thread is
\* being linked, which is not interrupted.
QueueInv ==
    /\ CurrentThread \in Threads
    /\ queue \in Queues
    /\ enrolling \in [Threads -> Threads \cup {Null}]
    /\ queue.Last # Null => queue.First # Null
    /\ \A t \in Threads : enrolling[t] # Null =>
          t = CurrentThread /\ calling = None /\ queue.First # Null

\* The first identifier is never given out.
ReservedKept == Entries[Reserved] = Pointer(Bootstrap)

EInv == QueueInv /\ IInv /\ ReservedKept

\* A thread that is put into a queue and one that is taken out leave a queue; the
\* queue they leave has something to take, or nothing at all.
LEMMA PushPop ==
    ASSUME NEW q \in Queues, NEW t \in Threads, q.Last # Null => q.First # Null
    PROVE  /\ LinkLast(q, t) \in Queues /\ LinkLast(q, t).First # Null
           /\ LinkLast(q, t).Last = q.Last
           /\ Push(q, t) \in Queues /\ Push(q, t).First \in Threads
           /\ Pop(Push(q, t)) \in Queues
           /\ Pop(Push(q, t)).Last # Null => Pop(Push(q, t)).First # Null
<1>0. t # Null
  BY NullAssumption, Zenon
<1>1. LinkLast(q, t) \in Queues /\ LinkLast(q, t).First # Null /\ LinkLast(q, t).Last = q.Last
  BY <1>0, Zenon DEF LinkLast, Queues
<1> DEFINE p == Push(q, t)
<1>2. p \in Queues /\ p.First \in Threads
  BY <1>1, Zenon DEF Push, Queues
<1> HIDE DEF p
<1>3. Pop(p) \in Queues
  BY <1>2, Zenon DEF Pop, Queues
<1>4. Pop(p).Last # Null => Pop(p).First # Null
  BY <1>2, Zenon DEF Pop, Queues
<1> QED
  BY <1>1, <1>2, <1>3, <1>4, Zenon DEF p

LEMMA InitEInv == Init => EInv
<1> SUFFICES ASSUME Init PROVE EInv
  BY Zenon
<1>1. QueueInv
  BY SchedulerAssumption, Zenon DEF Init, SchedulerInit, QueueInv, Queues
<1>2. ReservedKept
  BY IdPoolAssumption DEF Init, PoolInit, ReservedKept, Ids, Reserved, Bootstrap
<1> QED
  BY <1>1, <1>2, PoolInitIInv, Zenon DEF Init, EInv

\* Entries in the list and entries that an actor holds are not that of an object.
LEMMA PoolKeepsReserved ==
    ASSUME IInv, ReservedKept, NEW a \in Actors, Spawning(a) \/ SpawnReturn(a)
    PROVE  ReservedKept'
<1> USE DEF IInv, IdsKept
<1>1. Pointer(Bootstrap).busy /\ Pointer(Bootstrap) # Unallocated /\ Reserved \in Ids
  BY Words, IdPoolAssumption DEF Ids, Reserved
<1>2. \A i \in Ids : InList(i) => ~Entries[i].busy
  <2> SUFFICES ASSUME NEW k \in DOMAIN free PROVE ~Entries[free[k]].busy
    BY Zenon DEF InList
  <2>1. Len(free) \in Nat /\ k \in 1 .. Len(free)
    BY Sequence, Zenon DEF PoolTypeOK
  <2>2. free # <<>>
    BY <2>1, Sequence
  <2>3. CASE k = Len(free)
    BY <2>2, <2>3 DEF ListLinked, NoNext
  <2>4. CASE k # Len(free)
    <3>1. \A n \in Nat : k \in 1 .. n /\ k # n => k \in 1 .. n - 1
      OBVIOUS
    <3>2. k \in 1 .. Len(free) - 1
      BY <2>1, <2>4, <3>1, Zenon
    <3>3. Entries[free[k]] = Link(free[k + 1])
      BY <3>2, Zenon DEF ListLinked
    <3> QED
      BY <3>3, SMTT(40) DEF Link
  <2> QED
    BY <2>3, <2>4, Zenon
<1>3. Reserved # first /\ Reserved # last
  <2>1. CASE free = <<>>
    BY <2>1, <1>1, Words DEF ListLinked
  <2>2. CASE free # <<>>
    BY <2>2, <1>1, <1>2, ListEnds, Zenon DEF ReservedKept
  <2> QED
    BY <2>1, <2>2, Zenon
<1>4. step[a] \in {"constructed", "loaded", "unlinked"} => Reserved # id[a]
  BY <1>1, SMTT(30) DEF HeldAlone, Held, ReservedKept, NoNext
<1>5. Entries'[Reserved] = Entries[Reserved]
  BY <1>1, <1>3, <1>4, Zenon DEF PoolTypeOK, Spawning, Acquire, Construct, SetPointer, ReleaseLoad,
                          ReleaseUnlink, ReleaseLink, SpawnReturn, GoTo
<1> QED
  BY <1>5, Zenon DEF ReservedKept, Pointer

\* What is enrolled is the identifier of a thread.
LEMMA SpawnedIsThread ==
    ASSUME EInv, NEW a \in Actors, step[a] = "spawned"
    PROVE  id[a] \in Threads
<1>1. id[a] \in Ids /\ Entries[id[a]] = Pointer(id[a])
  BY Zenon DEF EInv, IInv, IdsKept, HeldAlone, Held
<1>2. id[a] # Reserved
  BY <1>1 DEF EInv, ReservedKept, Pointer, Reserved, Bootstrap
<1> QED
  BY <1>1, <1>2, ExecutionAssumption, Zenon

\* While EInv holds every step of the composition is one of the pool, or none.
LEMMA NextIsPoolNext ==
    ASSUME EInv, [Next]_vars
    PROVE  [PoolNext]_poolVars
<1>1. CurrentThread \in Actors
  BY ExecutionAssumption, Zenon DEF EInv, QueueInv
<1>2. ASSUME NEW a \in Actors, Spawn(a) PROVE PoolNext
  BY <1>2, Zenon DEF Spawn, PoolNext
<1>3. ASSUME EnrollReturn PROVE PoolNext
  BY <1>1, <1>3, Zenon DEF EnrollReturn, PoolNext
<1>4. ASSUME EnrollSpawned \/ (Core /\ UNCHANGED poolVars) \/ UNCHANGED vars
      PROVE  UNCHANGED poolVars
  BY <1>4, Zenon DEF EnrollSpawned, vars
<1> QED
  BY <1>2, <1>3, <1>4, Zenon DEF Next

\* No step of the scheduler, of the timers or of a thread leaves the core without a
\* thread.
LEMMA QueueStep ==
    ASSUME ~TightTiming, EInv, [Next]_vars
    PROVE  QueueInv'
<1> USE DEF EInv
<1> DEFINE same == <<queue, CurrentThread, enrolling>>
<1>1. CASE UNCHANGED <<same, calling>>
  BY <1>1, Zenon DEF QueueInv, Queues
<1>2. CASE SchedulerTick
  <2>1. calling = "SchedulerTick" /\ calling # None
    BY <1>2, Zenon DEF SchedulerTick, None
  <2>2. \A t \in Threads : enrolling[t] = Null
    BY <2>1, Zenon DEF QueueInv
  <2>3. CASE Postpone
    BY <1>2, <2>2, <2>3, Zenon DEF SchedulerTick, QueueInv, Queues, runVars
  <2>4. CASE ~Postpone
    <3>1. /\ queue' = Pop(Push(queue, CurrentThread))
          /\ CurrentThread' = Push(queue, CurrentThread).First
          /\ enrolling' = enrolling
      BY <1>2, <2>4, Zenon DEF SchedulerTick
    <3> QED
      BY <3>1, <2>2, PushPop, Zenon DEF QueueInv, Queues
  <2> QED
    BY <2>3, <2>4, Zenon
<1>3. CASE Interrupt
  <2>1. enrolling[CurrentThread] = Null /\ UNCHANGED same
    BY <1>3, Zenon DEF Interrupt, schedulerVars, runVars
  <2> QED
    BY <2>1, Zenon DEF QueueInv, Queues
<1>4. CASE FunctionDone
  <2>1. calling # None /\ UNCHANGED same
    BY <1>4, Zenon DEF FunctionDone, TimerIrqReturn, schedulerVars, runVars
  <2> QED
    BY <2>1, Zenon DEF QueueInv, Queues
<1>5. CASE EnrollSpawned
  <2> DEFINE t == id[CurrentThread]
  <2>1. t \in Threads
    <3>1. step[CurrentThread] = "spawned"
      BY <1>5, Zenon DEF EnrollSpawned
    <3>2. CurrentThread \in Actors
      BY ExecutionAssumption, Zenon DEF QueueInv
    <3> QED
      BY <3>1, <3>2, SpawnedIsThread, Zenon
  <2>2. /\ queue' = LinkLast(queue, t) /\ enrolling' = [enrolling EXCEPT ![CurrentThread] = t]
        /\ UNCHANGED <<CurrentThread, calling>> /\ calling = None
    <3>1. EnrollLink(t)
      BY <1>5, Zenon DEF EnrollSpawned
    <3>2. UNCHANGED timerVars /\ Runs(CurrentThread) /\ UNCHANGED CurrentThread
          /\ queue' = LinkLast(queue, t) /\ enrolling' = [enrolling EXCEPT ![CurrentThread] = t]
      BY <3>1, Zenon DEF EnrollLink
    <3>3. calling' = calling /\ calling = None
      BY <3>2, Zenon DEF timerVars, Runs
    <3> QED
      BY <3>2, <3>3, Zenon
  <2>3. /\ queue' \in Queues /\ queue'.First # Null /\ queue'.Last = queue.Last
    BY <2>1, <2>2, PushPop, Zenon DEF QueueInv
  <2> HIDE DEF t
  <2> QED
    BY <2>1, <2>2, <2>3, Zenon DEF QueueInv, Queues
<1>6. CASE EnrollReturn
  <2> DEFINE t == enrolling[CurrentThread]
  <2>1. /\ t # Null /\ queue' = [queue EXCEPT !.Last = t, !.bit = TRUE]
        /\ enrolling' = [enrolling EXCEPT ![CurrentThread] = Null]
        /\ UNCHANGED <<CurrentThread, calling>>
    BY <1>6, Zenon DEF EnrollReturn, EnrollFinish, timerVars
  <2>2. t \in Threads /\ queue.First # Null
    BY <2>1, Zenon DEF QueueInv
  <2> HIDE DEF t
  <2> QED
    BY <2>1, <2>2, Zenon DEF QueueInv, Queues
<1>7. CASE \/ EnqueueFinish \/ Tick \/ Engage \/ SetPostpone \/ ClearPostpone
           \/ \E f \in Functions \ {"SchedulerTick"}, d \in Delays : EnqueueTimer(f, d)
           \/ \E t \in Threads : NoMathCoprocessorHandler(t) \/ UseFpu(t)
  BY <1>1, <1>7, Zenon DEF EnqueueFinish, EnqueueWrite, Tick, Clock, Engage, SetPostpone, ClearPostpone,
     EnqueueTimer, NoMathCoprocessorHandler, UseFpu, schedulerVars, runVars, timerVars
<1>8. CASE \E a \in Actors : Spawn(a)
  BY <1>1, <1>8, Zenon DEF Spawn, schedulerVars, runVars, timerVars
<1>9. CASE UNCHANGED vars
  BY <1>1, <1>9, Zenon DEF vars, schedulerVars, runVars, timerVars
<1> QED
  BY <1>2, <1>3, <1>4, <1>5, <1>6, <1>7, <1>8, <1>9, Zenon DEF Next, Core

\* The invariant of both is inductive.
LEMMA ExecutionStep ==
    ASSUME ~TightTiming
    PROVE  EInv /\ [Next]_vars => EInv'
<1> SUFFICES ASSUME EInv, [Next]_vars PROVE EInv'
  BY Zenon
<1>1. QueueInv'
  BY QueueStep, Zenon
<1>2. [PoolNext]_poolVars
  BY NextIsPoolNext, Zenon
<1>3. IInv'
  BY <1>2, PoolStep, Zenon DEF EInv
<1>4. ReservedKept'
  <2>1. CASE PoolNext
    BY <2>1, PoolKeepsReserved, Zenon DEF EInv, PoolNext
  <2>2. CASE UNCHANGED poolVars
    BY <2>2, Zenon DEF poolVars, EInv, ReservedKept, Pointer
  <2> QED
    BY <1>2, <2>1, <2>2, Zenon
<1> QED
  BY <1>1, <1>3, <1>4, Zenon DEF EInv

\* Threads that pre-empt each other at any step of SpawnThread implement the pool.
THEOREM ExecutionImplementsPool ==
    ASSUME ~TightTiming
    PROVE  Spec => PoolSpec
<1>1. Init => PoolInit
  BY Zenon DEF Init
<1> QED
  BY <1>1, InitEInv, ExecutionStep, NextIsPoolNext, PTL DEF Spec, PoolSpec

\* SchedulerTick always finds a thread to switch to (Pop of scheduler.cpp asserts it).
THEOREM AlwaysAThread ==
    ASSUME ~TightTiming
    PROVE  Spec => [](CurrentThread \in Threads)
<1>1. EInv => CurrentThread \in Threads
  BY Zenon DEF EInv, QueueInv
<1> QED
  BY <1>1, InitEInv, ExecutionStep, PTL DEF Spec

\* No thread loses an identifier or shares one, wherever it is pre-empted.
THEOREM ExecutionKeepsIds ==
    ASSUME ~TightTiming
    PROVE  Spec => []IdsKept
BY ExecutionImplementsPool, PoolKeepsIds, PTL
=============================================================================
