----------------------- MODULE ObjectAllocatorProofs -----------------------
(***************************************************************************)
(* No pool is used after it was released, for any number of cores, pools   *)
(* and objects.  A walk changes the chain only where it holds the lock;    *)
(* no two links lead to one pool, so that whoever waits for a pool keeps   *)
(* everybody else from unplugging it.  While a pool is being unplugged,    *)
(* the link to it counts as leading to its successor already.              *)
(***************************************************************************)
EXTENDS ObjectAllocator, FiniteSetTheorems, TLAPS

Labels == {"idle", "giveUp", "allocLink", "allocFirst", "allocWalk", "allocHop", "grow", "took",
           "freeLink", "freeFirst", "freeWalk", "freeHop", "put", "unlink", "gone",
           "expandLink", "expand"}

TypeOK ==
    /\ ReleaseOptions \in Options
    /\ FirstPool \in Pool \cup {Nil}
    /\ live \in SUBSET Pool
    /\ Next_ \in [Pool -> Pool \cup {Nil}]
    /\ cap \in [Pool -> Nat] /\ free \in [Pool -> Nat] /\ held \in [Pool -> Nat]
    /\ lock \in [Pool \cup {Link} -> Cores \cup {Nil}]
    /\ pc \in [Cores -> Labels]
    /\ cur \in [Cores -> Pool \cup {Nil}] /\ prev \in [Cores -> Pool \cup {Nil}]
    /\ nxt \in [Cores -> Pool \cup {Nil}] /\ obj \in [Cores -> Pool \cup {Nil}]

Walks(c) == pc[c] \in {"allocWalk", "allocHop", "grow", "freeWalk", "freeHop"}

\* The lock before the current pool of core c.
Pred(c) == IF prev[c] = Nil THEN Link ELSE prev[c]

\* The locks of core c at each stage of a walk.
Has(c, x) ==
    \/ pc[c] \in {"allocFirst", "freeFirst", "expand"} /\ x = Link
    \/ Walks(c) /\ x = cur[c]
    \/ pc[c] = "freeWalk" /\ canReleaseAny /\ x = Pred(c)
    \/ pc[c] = "unlink" /\ x = Pred(c)

Locked == \A c \in Cores, x \in Pool \cup {Link} : lock[x] = c <=> Has(c, x)

\* The link that lock x guards, and where it leads once the pool is unplugged that
\* the holder of x has released.
After(x) == IF x = Link THEN FirstPool ELSE Next_[x]
Leads(x) == IF lock[x] # Nil /\ pc[lock[x]] = "unlink" THEN nxt[lock[x]] ELSE After(x)
Sources == live \cup {Link}

Chain ==
    /\ \A x \in Sources : Leads(x) \in live \cup {Nil}
    /\ \A x, y \in Sources : Leads(x) = Leads(y) /\ Leads(x) # Nil => x = y

\* The registers of core c agree with the chain.
Walk(c) ==
    /\ Walks(c) => cur[c] \in live
    /\ pc[c] \in {"allocHop", "freeHop", "grow"} => nxt[c] = Next_[cur[c]]
    /\ pc[c] = "allocHop" => nxt[c] # Nil
    /\ pc[c] \notin {"allocHop", "freeHop", "unlink"} => nxt[c] = Nil
    /\ pc[c] = "freeWalk" /\ canReleaseAny =>
          Pred(c) \in Sources /\ Pred(c) # cur[c] /\ After(Pred(c)) = cur[c]
    /\ pc[c] = "unlink" => Pred(c) \in Sources /\ canReleaseAny
    /\ ~Walks(c) /\ pc[c] # "unlink" => cur[c] = Nil /\ prev[c] = Nil
    /\ obj[c] # Nil => pc[c] \in {"freeLink", "freeFirst", "freeWalk", "freeHop", "unlink"}

\* The objects of a pool that are not free are with callers, or on their way back.
Owners(p) == {c \in Cores : obj[c] = p /\ pc[c] # "unlink"}
Used(p) == /\ cap[p] = free[p] + held[p] + Cardinality(Owners(p))
           /\ p \notin live => cap[p] = 0

IInv ==
    /\ TypeOK /\ Locked /\ Chain
    /\ \A c \in Cores : Walk(c)
    /\ \A p \in Pool : Used(p)

-----------------------------------------------------------------------------
LEMMA OwnersCounted ==
    ASSUME NEW S \in SUBSET Cores
    PROVE  /\ Cardinality(S) \in Nat
           /\ S = {} <=> Cardinality(S) = 0
           /\ \A c \in Cores \ S : Cardinality(S \cup {c}) = Cardinality(S) + 1
           /\ \A c \in S : Cardinality(S \ {c}) = Cardinality(S) - 1
<1>1. IsFiniteSet(S)
  BY FS_Subset, ObjectAllocatorAssumption, Zenon
<1>2. Cardinality(S) \in Nat
  BY <1>1, FS_CardinalityType, Zenon
<1>3. S = {} <=> Cardinality(S) = 0
  BY <1>1, FS_EmptySet, Zenon
<1>4. \A c \in Cores \ S : Cardinality(S \cup {c}) = Cardinality(S) + 1
  BY <1>1, FS_AddElement, Zenon
<1>5. \A c \in S : Cardinality(S \ {c}) = Cardinality(S) - 1
  BY <1>1, FS_RemoveElement, Zenon
<1> QED
  BY <1>2, <1>3, <1>4, <1>5, Zenon

\* Pools that callers have objects of are acquired.
LEMMA UsedLive ==
    ASSUME IInv
    PROVE  /\ \A p \in Pool : held[p] > 0 => p \in live
           /\ \A c \in Cores : obj[c] # Nil /\ pc[c] # "unlink" => obj[c] \in live
<1>1. ASSUME NEW p \in Pool
      PROVE  /\ Used(p) /\ cap[p] \in Nat /\ free[p] \in Nat /\ held[p] \in Nat
             /\ Owners(p) \in SUBSET Cores
  BY Zenon DEF IInv, TypeOK, Owners
<1>2. ASSUME NEW p \in Pool, held[p] > 0 PROVE p \in live
  <2>1. Cardinality(Owners(p)) \in Nat
    BY <1>1, OwnersCounted, Zenon
  <2> QED
    BY <1>1, <1>2, <2>1 DEF Used
<1>3. ASSUME NEW c \in Cores, obj[c] # Nil, pc[c] # "unlink" PROVE obj[c] \in live
  <2>1. PICK p \in Pool : p = obj[c]
    BY <1>3, Zenon DEF IInv, TypeOK
  <2>2. c \in Owners(p)
    BY <1>3, <2>1, Zenon DEF Owners
  <2>3. Cardinality(Owners(p)) \in Nat \ {0}
    BY <1>1, <2>2, OwnersCounted, Zenon
  <2> QED
    BY <1>1, <2>1, <2>3 DEF Used
<1> QED
  BY <1>2, <1>3, Zenon

-----------------------------------------------------------------------------
\* Core c goes to l, with these registers; the others stay.
To(c, l, a, b, n, o) ==
    /\ pc' \in [Cores -> Labels]
    /\ cur' \in [Cores -> Pool \cup {Nil}] /\ prev' \in [Cores -> Pool \cup {Nil}]
    /\ nxt' \in [Cores -> Pool \cup {Nil}] /\ obj' \in [Cores -> Pool \cup {Nil}]
    /\ pc'[c] = l /\ cur'[c] = a /\ prev'[c] = b /\ nxt'[c] = n /\ obj'[c] = o
    /\ \A d \in Cores \ {c} : /\ pc'[d] = pc[d] /\ cur'[d] = cur[d] /\ prev'[d] = prev[d]
                              /\ nxt'[d] = nxt[d] /\ obj'[d] = obj[d]
    /\ ReleaseOptions' = ReleaseOptions

\* Core c takes locks that are free, and releases its own.
Relocks(c) ==
    /\ lock' \in [Pool \cup {Link} -> Cores \cup {Nil}]
    /\ \A x \in Pool \cup {Link} :
          \/ Has(c, x)' /\ lock'[x] = c /\ lock[x] \in {c, Nil}
          \/ ~Has(c, x)' /\ lock[x] = c /\ lock'[x] = Nil
          \/ ~Has(c, x)' /\ lock[x] # c /\ lock'[x] = lock[x]

\* Core c changes only what it has locked.
Confined(c) ==
    \A x \in Sources : lock[x] # c => x \in Sources' /\ After(x)' = After(x)

LEMMA HasKept ==
    ASSUME NEW c \in Cores, NEW l, NEW a, NEW b, NEW n, NEW o, To(c, l, a, b, n, o),
           NEW d \in Cores \ {c}
    PROVE  /\ Walks(d)' <=> Walks(d)
           /\ Pred(d)' = Pred(d)
           /\ \A x : Has(d, x)' <=> Has(d, x)
           /\ canReleaseAny' <=> canReleaseAny
<1>1. /\ pc'[d] = pc[d] /\ cur'[d] = cur[d] /\ prev'[d] = prev[d]
      /\ ReleaseOptions' = ReleaseOptions
  BY Zenon DEF To
<1> QED
  BY <1>1, Zenon DEF Walks, Pred, Has, canReleaseAny

LEMMA LockedKept ==
    ASSUME IInv, NEW c \in Cores, NEW l, NEW a, NEW b, NEW n, NEW o, To(c, l, a, b, n, o), Relocks(c)
    PROVE  Locked'
<1> SUFFICES ASSUME NEW d \in Cores, NEW x \in Pool \cup {Link} PROVE lock'[x] = d <=> Has(d, x)'
  BY Zenon DEF Locked
<1>1. lock[x] = d <=> Has(d, x)
  BY Zenon DEF IInv, Locked
<1>2. /\ \/ Has(c, x)' /\ lock'[x] = c /\ lock[x] \in {c, Nil}
         \/ ~Has(c, x)' /\ lock[x] = c /\ lock'[x] = Nil
         \/ ~Has(c, x)' /\ lock[x] # c /\ lock'[x] = lock[x]
      /\ c # Nil /\ d # Nil
  BY ObjectAllocatorAssumption, Zenon DEF Relocks
<1>3. CASE d = c
  BY <1>2, <1>3, Zenon
<1>4. CASE d # c
  <2>1. Has(d, x)' <=> Has(d, x)
    BY <1>4, HasKept, Zenon
  <2> QED
    BY <1>1, <1>2, <1>4, <2>1, Zenon
<1> QED
  BY <1>3, <1>4, Zenon

\* The registers of the others still agree with the chain.
LEMMA BystandersKept ==
    ASSUME IInv, NEW c \in Cores, NEW l, NEW a, NEW b, NEW n, NEW o, To(c, l, a, b, n, o), Confined(c)
    PROVE  \A d \in Cores \ {c} : Walk(d)'
<1> SUFFICES ASSUME NEW d \in Cores \ {c} PROVE Walk(d)'
  BY Zenon
<1>1. /\ pc'[d] = pc[d] /\ cur'[d] = cur[d] /\ prev'[d] = prev[d] /\ nxt'[d] = nxt[d] /\ obj'[d] = obj[d]
      /\ Walks(d)' <=> Walks(d)
      /\ Pred(d)' = Pred(d)
      /\ canReleaseAny' <=> canReleaseAny
  BY HasKept, Zenon DEF To
<1>2. Walk(d) /\ live \in SUBSET Pool
  BY Zenon DEF IInv, TypeOK
<1>3. \A x \in Sources : Has(d, x) => x \in Sources' /\ After(x)' = After(x)
  <2> SUFFICES ASSUME NEW x \in Sources, Has(d, x) PROVE x \in Sources' /\ After(x)' = After(x)
    BY Zenon
  <2>1. lock[x] = d
    BY <1>2, Zenon DEF IInv, Locked, Sources
  <2> QED
    BY <2>1, Zenon DEF Confined
<1>4. Walks(d) => cur[d] \in live' /\ Next_'[cur[d]] = Next_[cur[d]]
  <2> SUFFICES ASSUME Walks(d) PROVE cur[d] \in live' /\ Next_'[cur[d]] = Next_[cur[d]]
    BY Zenon
  <2>1. cur[d] \in Sources /\ Has(d, cur[d]) /\ cur[d] # Link
    BY <1>2, ObjectAllocatorAssumption, Zenon DEF Walk, Sources, Has
  <2> QED
    BY <1>3, <2>1, Zenon DEF Sources, After
<1>5. pc[d] = "freeWalk" /\ canReleaseAny => Pred(d) \in Sources' /\ After(Pred(d))' = cur[d] /\ Pred(d) # cur[d]
  <2> SUFFICES ASSUME pc[d] = "freeWalk" /\ canReleaseAny
               PROVE Pred(d) \in Sources' /\ After(Pred(d))' = cur[d] /\ Pred(d) # cur[d]
    BY Zenon
  <2>1. Pred(d) \in Sources /\ Has(d, Pred(d)) /\ After(Pred(d)) = cur[d] /\ Pred(d) # cur[d]
    BY <1>2, Zenon DEF Walk, Has
  <2>2. PICK x \in Sources : x = Pred(d)
    BY <2>1, Zenon
  <2>3. x \in Sources' /\ After(x)' = After(x)
    BY <1>3, <2>1, <2>2, Zenon
  <2>4. x = Pred(d)'
    BY <1>1, <2>2, Zenon
  <2>5. After(Pred(d))' = After(x)'
    BY <2>4, Zenon DEF After
  <2> QED
    BY <2>1, <2>2, <2>3, <2>5, Zenon
<1>6. pc[d] = "unlink" => Pred(d) \in Sources'
  <2> SUFFICES ASSUME pc[d] = "unlink" PROVE Pred(d) \in Sources'
    BY Zenon
  <2>1. Pred(d) \in Sources /\ Has(d, Pred(d))
    BY <1>2, Zenon DEF Walk, Has
  <2> QED
    BY <1>3, <2>1, Zenon
<1>7. /\ Walks(d) => cur'[d] \in live'
      /\ pc'[d] \in {"allocHop", "freeHop", "grow"} => nxt'[d] = Next_'[cur'[d]]
  BY <1>1, <1>2, <1>4, Zenon DEF Walk, Walks
<1> QED
  BY <1>1, <1>2, <1>5, <1>6, <1>7, Zenon DEF Walk
-----------------------------------------------------------------------------
\* A link leads where it led unless core c changes it, or is unplugging a pool.
LEMMA LeadsKept ==
    ASSUME IInv, NEW c \in Cores, NEW l, NEW a, NEW b, NEW n, NEW o, To(c, l, a, b, n, o),
           NEW x \in Pool \cup {Link}, After(x)' = After(x),
           \/ lock[x] # c /\ lock'[x] = lock[x]
           \/ /\ lock[x] \in {c, Nil} /\ lock'[x] \in {c, Nil}
              /\ pc[c] # "unlink" /\ l # "unlink"
    PROVE  Leads(x)' = Leads(x)
<1>1. CASE lock[x] # c /\ lock'[x] = lock[x]
  <2>1. lock[x] # Nil => pc'[lock[x]] = pc[lock[x]] /\ nxt'[lock[x]] = nxt[lock[x]]
    BY <1>1, Zenon DEF IInv, TypeOK, To
  <2> QED
    BY <1>1, <2>1, Zenon DEF Leads
<1>2. CASE lock[x] \in {c, Nil} /\ lock'[x] \in {c, Nil} /\ pc[c] # "unlink" /\ l # "unlink"
  <2>1. pc'[c] = l
    BY Zenon DEF To
  <2> QED
    BY <1>2, <2>1, Zenon DEF Leads
<1> QED
  BY <1>1, <1>2, Zenon

\* A step that leaves the links alone.
LEMMA LinksKept ==
    ASSUME IInv, NEW c \in Cores, NEW l, NEW a, NEW b, NEW n, NEW o, To(c, l, a, b, n, o), Relocks(c),
           pc[c] # "unlink", l # "unlink", live' = live, FirstPool' = FirstPool, Next_' = Next_,
           Walk(c)'
    PROVE  Locked' /\ Chain' /\ \A d \in Cores : Walk(d)'
<1>1. Locked'
  BY LockedKept, Zenon
<1>2. Sources' = Sources /\ Sources \subseteq Pool \cup {Link} /\ \A x : After(x)' = After(x)
  BY Zenon DEF Sources, After, IInv, TypeOK
<1>3. \A d \in Cores \ {c} : Walk(d)'
  <2>1. Confined(c)
    BY <1>2, Zenon DEF Confined
  <2> QED
    BY <2>1, BystandersKept, Zenon
<1>4. ASSUME NEW x \in Sources PROVE Leads(x)' = Leads(x)
  <2>1. /\ x \in Pool \cup {Link} /\ After(x)' = After(x)
        /\ \/ lock[x] # c /\ lock'[x] = lock[x]
           \/ lock[x] \in {c, Nil} /\ lock'[x] \in {c, Nil}
    BY <1>2, <1>4, Zenon DEF Relocks
  <2> QED
    BY <2>1, LeadsKept, Zenon
<1>5. Chain'
  BY <1>2, <1>4 DEF IInv, Chain
<1> QED
  BY <1>1, <1>3, <1>5, Zenon

LEMMA OwnersMoved ==
    ASSUME NEW c \in Cores, NEW l, NEW a, NEW b, NEW n, NEW o, To(c, l, a, b, n, o), NEW p
    PROVE  Owners(p)' = IF o = p /\ l # "unlink" THEN Owners(p) \cup {c} ELSE Owners(p) \ {c}
<1>1. ASSUME NEW d \in Cores, d # c PROVE d \in Owners(p)' <=> d \in Owners(p)
  <2>1. pc'[d] = pc[d] /\ obj'[d] = obj[d]
    BY <1>1, Zenon DEF To
  <2> QED
    BY <2>1, Zenon DEF Owners
<1>2. c \in Owners(p)' <=> o = p /\ l # "unlink"
  BY Zenon DEF Owners, To
<1>3. Owners(p)' \subseteq Cores /\ Owners(p) \subseteq Cores
  BY Zenon DEF Owners
<1> QED
  BY <1>1, <1>2, <1>3, Zenon

\* A step of a walk that neither takes nor returns an object.
LEMMA WalkStep ==
    ASSUME IInv, NEW c \in Cores, NEW l, NEW a, NEW b, NEW n, NEW o, To(c, l, a, b, n, o), Relocks(c),
           pc[c] # "unlink", l # "unlink", o = obj[c], FirstPool' = FirstPool, pools' = pools,
           held' = held, Walk(c)'
    PROVE  IInv'
<1>1. live' = live /\ Next_' = Next_ /\ cap' = cap /\ free' = free
  BY Zenon DEF pools
<1>2. Locked' /\ Chain' /\ \A d \in Cores : Walk(d)'
  BY <1>1, LinksKept, Zenon
<1>3. TypeOK'
  BY <1>1, Zenon DEF IInv, TypeOK, To, Relocks
<1>4. ASSUME NEW p \in Pool PROVE Used(p)'
  <2>1. Owners(p)' = Owners(p)
    BY OwnersMoved DEF Owners
  <2> QED
    BY <1>1, <2>1, Zenon DEF IInv, Used
<1> QED
  BY <1>2, <1>3, <1>4, Zenon DEF IInv

\* A step outside of the locks.
Outside == {"idle", "giveUp", "allocLink", "took", "put", "gone", "expandLink"}

LEMMA OutsideStep ==
    ASSUME IInv, NEW c \in Cores, NEW l \in Outside, pc[c] \in Outside, Goto(c, l),
           UNCHANGED <<ReleaseOptions, FirstPool, pools, held, lock, walk>>
    PROVE  IInv'
<1>1. TypeOK /\ Walk(c)
  BY Zenon DEF IInv
<1>2. To(c, l, cur[c], prev[c], nxt[c], obj[c])
  BY <1>1, Zenon DEF To, TypeOK, Goto, Outside, Labels, walk
<1>3. \A x : ~Has(c, x) /\ ~Has(c, x)'
  BY <1>2, Zenon DEF Has, Walks, To, Outside
<1>4. Relocks(c)
  BY <1>1, <1>3, Zenon DEF Relocks, IInv, Locked, TypeOK
<1>5. Walk(c)'
  BY <1>1, <1>2, Zenon DEF Walk, Walks, To, Outside
<1> QED
  BY <1>2, <1>4, <1>5, WalkStep, Zenon DEF Outside
-----------------------------------------------------------------------------
\* Who has a lock finds an acquired pool behind it, or none.
LEMMA Successor ==
    ASSUME IInv, NEW c \in Cores, NEW x \in Sources, Has(c, x), pc[c] # "unlink"
    PROVE  After(x) \in live \cup {Nil}
<1>1. lock[x] = c
  BY Zenon DEF IInv, Locked, TypeOK, Sources
<1> QED
  BY <1>1, ObjectAllocatorAssumption, Zenon DEF IInv, Chain, Leads

LEMMA TakeLinkageLockStep ==
    ASSUME IInv, NEW c \in Cores, TakeLinkageLock(c) PROVE IInv'
<1>1. TypeOK /\ Walk(c) /\ (\A x \in Pool \cup {Link} : lock[x] = c <=> Has(c, x))
  BY Zenon DEF IInv, Locked
<1>2. ReleaseOptions' = ReleaseOptions /\ FirstPool' = FirstPool /\ pools' = pools /\ held' = held
  BY Zenon DEF TakeLinkageLock
<1>3. To(c, IF pc[c] = "allocLink" THEN "allocFirst"
            ELSE IF pc[c] = "freeLink" THEN "freeFirst" ELSE "expand",
         cur[c], prev[c], nxt[c], obj[c])
  BY <1>1, Zenon DEF TakeLinkageLock, To, TypeOK, Goto, walk, Labels
<1>4. Relocks(c)
  BY <1>1, <1>2, <1>3, ObjectAllocatorAssumption
  DEF TakeLinkageLock, Relocks, To, Has, Walks, Pred, canReleaseAny, Before, Release, TypeOK
<1>5. Walk(c)'
  BY <1>1, <1>2, <1>3, ObjectAllocatorAssumption, Zenon DEF TakeLinkageLock, To, Walk, Walks, Pred, canReleaseAny, Sources, After, pools, TypeOK
<1>6. pc[c] # "unlink" /\ pc'[c] # "unlink"
  BY <1>3, Zenon DEF TakeLinkageLock, To
<1> QED
  BY <1>1, <1>2, <1>3, <1>4, <1>5, <1>6, WalkStep, Zenon DEF To

LEMMA FirstPoolFailedStep ==
    ASSUME IInv, NEW c \in Cores, FirstPoolFailed(c) PROVE IInv'
<1>1. TypeOK /\ Walk(c) /\ (\A x \in Pool \cup {Link} : lock[x] = c <=> Has(c, x))
  BY Zenon DEF IInv, Locked
<1>2. ReleaseOptions' = ReleaseOptions /\ FirstPool' = FirstPool /\ pools' = pools /\ held' = held
  BY Zenon DEF FirstPoolFailed
<1>3. To(c, "idle", cur[c], prev[c], nxt[c], obj[c])
  BY <1>1, Zenon DEF FirstPoolFailed, To, TypeOK, Goto, walk, Labels
<1>4. Relocks(c)
  BY <1>1, <1>2, <1>3, ObjectAllocatorAssumption, Zenon
  DEF FirstPoolFailed, Relocks, To, Has, Walks, Pred, canReleaseAny, Before, Release, TypeOK
<1>5. Walk(c)'
  BY <1>1, <1>2, <1>3, ObjectAllocatorAssumption, Zenon
  DEF FirstPoolFailed, To, Walk, Walks, Pred, canReleaseAny, Sources, After, pools, TypeOK
<1>6. pc[c] # "unlink" /\ pc'[c] # "unlink"
  BY <1>3, Zenon DEF FirstPoolFailed, To
<1> QED
  BY <1>1, <1>2, <1>3, <1>4, <1>5, <1>6, WalkStep, Zenon DEF To

LEMMA LockFirstPoolStep ==
    ASSUME IInv, NEW c \in Cores, LockFirstPool(c) PROVE IInv'
<1>1. TypeOK /\ Walk(c) /\ (\A x \in Pool \cup {Link} : lock[x] = c <=> Has(c, x))
  BY Zenon DEF IInv, Locked
<1>2. ReleaseOptions' = ReleaseOptions /\ FirstPool' = FirstPool /\ pools' = pools /\ held' = held
  BY Zenon DEF LockFirstPool
<1>3. To(c, "allocWalk", FirstPool, prev[c], nxt[c], obj[c])
  BY <1>1, Zenon DEF LockFirstPool, To, TypeOK, Goto, Labels
<1>4. Relocks(c)
  BY <1>1, <1>2, <1>3, ObjectAllocatorAssumption
  DEF LockFirstPool, Relocks, To, Has, Walks, Pred, canReleaseAny, Before, Release, TypeOK
<1>5. Walk(c)'
  <2>1. FirstPool \in live
    BY <1>1, ObjectAllocatorAssumption, Successor, Zenon DEF LockFirstPool, Has, Walks, Walk, Sources, After, TypeOK
  <2> QED
    BY <1>1, <1>2, <1>3, <2>1, ObjectAllocatorAssumption, Zenon
    DEF LockFirstPool, To, Walk, Walks, Pred, canReleaseAny, Sources, After, pools, TypeOK
<1>6. pc[c] # "unlink" /\ pc'[c] # "unlink"
  BY <1>3, Zenon DEF LockFirstPool, To
<1> QED
  BY <1>1, <1>2, <1>3, <1>4, <1>5, <1>6, WalkStep, Zenon DEF To

LEMMA ReadNextStep ==
    ASSUME IInv, NEW c \in Cores, ReadNext(c) PROVE IInv'
<1>1. TypeOK /\ Walk(c) /\ (\A x \in Pool \cup {Link} : lock[x] = c <=> Has(c, x))
  BY Zenon DEF IInv, Locked
<1>2. ReleaseOptions' = ReleaseOptions /\ FirstPool' = FirstPool /\ pools' = pools /\ held' = held
  BY Zenon DEF ReadNext
<1>3. To(c, IF Next_[cur[c]] = Nil THEN "grow" ELSE "allocHop",
         cur[c], prev[c], Next_[cur[c]], obj[c])
  BY <1>1, Zenon DEF ReadNext, To, TypeOK, Goto, Walk, Walks, Labels
<1>4. Relocks(c)
  BY <1>1, <1>2, <1>3, ObjectAllocatorAssumption, Zenon
  DEF ReadNext, Relocks, To, Has, Walks, Pred, canReleaseAny, Before, Release, TypeOK
<1>5. Walk(c)'
  BY <1>1, <1>2, <1>3, ObjectAllocatorAssumption, Zenon DEF ReadNext, To, Walk, Walks, Pred, canReleaseAny, Sources, After, pools, TypeOK
<1>6. pc[c] # "unlink" /\ pc'[c] # "unlink"
  BY <1>3, Zenon DEF ReadNext, To
<1> QED
  BY <1>1, <1>2, <1>3, <1>4, <1>5, <1>6, WalkStep, Zenon DEF To

LEMMA LockNextStep ==
    ASSUME IInv, NEW c \in Cores, LockNext(c) PROVE IInv'
<1>1. TypeOK /\ Walk(c) /\ (\A x \in Pool \cup {Link} : lock[x] = c <=> Has(c, x))
  BY Zenon DEF IInv, Locked
<1>2. ReleaseOptions' = ReleaseOptions /\ FirstPool' = FirstPool /\ pools' = pools /\ held' = held
  BY Zenon DEF LockNext
<1>3. To(c, "allocWalk", nxt[c], prev[c], Nil, obj[c])
  BY <1>1, Zenon DEF LockNext, To, TypeOK, Goto, Labels
<1>4. Relocks(c)
  BY <1>1, <1>2, <1>3, ObjectAllocatorAssumption, Zenon DEF LockNext, Relocks, To, Has, Walks, Pred, canReleaseAny, Before, Release, TypeOK
<1>5. Walk(c)'
  <2>1. nxt[c] \in live
    BY <1>1, ObjectAllocatorAssumption, Successor DEF LockNext, Has, Walks, Walk, Sources, After, TypeOK
  <2> QED
    BY <1>1, <1>2, <1>3, <2>1, ObjectAllocatorAssumption, Zenon
    DEF LockNext, To, Walk, Walks, Pred, canReleaseAny, Sources, After, pools, TypeOK
<1>6. pc[c] # "unlink" /\ pc'[c] # "unlink"
  BY <1>3, Zenon DEF LockNext, To
<1> QED
  BY <1>1, <1>2, <1>3, <1>4, <1>5, <1>6, WalkStep, Zenon DEF To

LEMMA GrowFailedStep ==
    ASSUME IInv, NEW c \in Cores, GrowFailed(c) PROVE IInv'
<1>1. TypeOK /\ Walk(c) /\ (\A x \in Pool \cup {Link} : lock[x] = c <=> Has(c, x))
  BY Zenon DEF IInv, Locked
<1>2. ReleaseOptions' = ReleaseOptions /\ FirstPool' = FirstPool /\ pools' = pools /\ held' = held
  BY Zenon DEF GrowFailed
<1>3. To(c, "giveUp", Nil, Nil, Nil, Nil)
  BY <1>1, Zenon DEF GrowFailed, To, TypeOK, Goto, EndWalk, Labels
<1>4. Relocks(c)
  BY <1>1, <1>2, <1>3, ObjectAllocatorAssumption, Zenon
  DEF GrowFailed, Relocks, To, Has, Walks, Pred, canReleaseAny, Before, Release, TypeOK
<1>5. Walk(c)'
  BY <1>1, <1>2, <1>3, ObjectAllocatorAssumption, Zenon
  DEF GrowFailed, To, Walk, Walks, Pred, canReleaseAny, Sources, After, pools, TypeOK
<1>6. pc[c] # "unlink" /\ pc'[c] # "unlink"
  BY <1>3, Zenon DEF GrowFailed, To
<1> QED
  BY <1>1, <1>2, <1>3, <1>4, <1>5, <1>6, WalkStep, Zenon DEF To, Walk, GrowFailed

LEMMA FreeLockFirstStep ==
    ASSUME IInv, NEW c \in Cores, FreeLockFirst(c) PROVE IInv'
<1>1. TypeOK /\ Walk(c) /\ (\A x \in Pool \cup {Link} : lock[x] = c <=> Has(c, x))
  BY Zenon DEF IInv, Locked
<1>2. ReleaseOptions' = ReleaseOptions /\ FirstPool' = FirstPool /\ pools' = pools /\ held' = held
  BY Zenon DEF FreeLockFirst
<1>3. To(c, "freeWalk", FirstPool, prev[c], nxt[c], obj[c])
  BY <1>1, Zenon DEF FreeLockFirst, To, TypeOK, Goto, Labels
<1>4. Relocks(c)
  <2>1. \A x : Has(c, x) <=> x = Link
    BY Zenon DEF FreeLockFirst, Has, Walks
  <2>2. \A x : Has(c, x)' <=> x = FirstPool \/ (canReleaseAny /\ x = Link)
    BY <1>1, <1>2, <1>3, ObjectAllocatorAssumption, Zenon DEF FreeLockFirst, To, Has, Walks, Pred, canReleaseAny, Walk, TypeOK
  <2>3. /\ lock' \in [Pool \cup {Link} -> Cores \cup {Nil}]
        /\ \A x \in Pool \cup {Link} : lock'[x] = IF x = FirstPool THEN c
                                                     ELSE IF ~canReleaseAny /\ x = Link THEN Nil ELSE lock[x]
    BY <1>1, Zenon DEF FreeLockFirst, TypeOK, Release, Before, Pred
  <2> QED
    BY <1>1, <2>1, <2>2, <2>3, ObjectAllocatorAssumption, Zenon DEF Relocks, FreeLockFirst
<1>5. Walk(c)'
  <2>1. FirstPool \in live
    BY <1>1, ObjectAllocatorAssumption, Successor, Zenon DEF FreeLockFirst, Has, Walks, Walk, Sources, After, TypeOK
  <2> QED
    BY <1>1, <1>2, <1>3, <2>1, ObjectAllocatorAssumption, Zenon DEF FreeLockFirst, To, Walk, Walks, Pred, canReleaseAny, Sources, After, pools, TypeOK
<1>6. pc[c] # "unlink"
  BY Zenon DEF FreeLockFirst
<1> QED
  BY <1>2, <1>3, <1>4, <1>5, <1>6, WalkStep, Zenon

LEMMA FreeReadNextStep ==
    ASSUME IInv, NEW c \in Cores, FreeReadNext(c) PROVE IInv'
<1>1. TypeOK /\ Walk(c) /\ (\A x \in Pool \cup {Link} : lock[x] = c <=> Has(c, x))
  BY Zenon DEF IInv, Locked
<1>2. ReleaseOptions' = ReleaseOptions /\ FirstPool' = FirstPool /\ pools' = pools /\ held' = held
  BY Zenon DEF FreeReadNext
<1>3. To(c, "freeHop", cur[c], prev[c], Next_[cur[c]], obj[c])
  BY <1>1, Zenon DEF FreeReadNext, To, TypeOK, Goto, Walk, Walks, Labels
<1>4. Relocks(c)
  <2>1. \A x : Has(c, x) <=> x = cur[c] \/ (canReleaseAny /\ x = Pred(c))
    BY Zenon DEF FreeReadNext, Has, Walks
  <2>2. \A x : Has(c, x)' <=> x = cur[c]
    BY <1>1, <1>2, <1>3, ObjectAllocatorAssumption, Zenon DEF FreeReadNext, To, Has, Walks, Pred, canReleaseAny, Walk, TypeOK
  <2>3. /\ lock' \in [Pool \cup {Link} -> Cores \cup {Nil}]
        /\ \A x \in Pool \cup {Link} : lock'[x] = IF canReleaseAny /\ x = Pred(c) THEN Nil ELSE lock[x]
    BY <1>1, Zenon DEF FreeReadNext, TypeOK, Release, Before, Pred
  <2>4. canReleaseAny => Pred(c) # cur[c]
    BY <1>1, Zenon DEF Walk, FreeReadNext
  <2> QED
    BY <1>1, <2>1, <2>2, <2>3, ObjectAllocatorAssumption, <2>4, Zenon DEF Relocks, FreeReadNext
<1>5. Walk(c)'
  BY <1>1, <1>2, <1>3, ObjectAllocatorAssumption, Zenon DEF FreeReadNext, To, Walk, Walks, Pred, canReleaseAny, Sources, After, pools, TypeOK
<1>6. pc[c] # "unlink" /\ pc'[c] # "unlink"
  BY <1>3, Zenon DEF FreeReadNext, To
<1> QED
  BY <1>1, <1>2, <1>3, <1>4, <1>5, <1>6, WalkStep, Zenon DEF To

LEMMA FreeLockNextStep ==
    ASSUME IInv, NEW c \in Cores, FreeLockNext(c) PROVE IInv'
<1>1. TypeOK /\ Walk(c) /\ (\A x \in Pool \cup {Link} : lock[x] = c <=> Has(c, x))
  BY Zenon DEF IInv, Locked
<1>2. ReleaseOptions' = ReleaseOptions /\ FirstPool' = FirstPool /\ pools' = pools /\ held' = held
  BY Zenon DEF FreeLockNext
<1>3. To(c, "freeWalk", nxt[c], cur[c], Nil, obj[c])
  BY <1>1, Zenon DEF FreeLockNext, To, TypeOK, Goto, Labels
<1>4. Relocks(c)
  <2>1. \A x : Has(c, x) <=> x = cur[c]
    BY Zenon DEF FreeLockNext, Has, Walks
  <2>2. \A x : Has(c, x)' <=> x = nxt[c] \/ (canReleaseAny /\ x = cur[c])
    BY <1>1, <1>2, <1>3, ObjectAllocatorAssumption, Zenon DEF FreeLockNext, To, Has, Walks, Pred, canReleaseAny, Walk, TypeOK
  <2>3. /\ lock' \in [Pool \cup {Link} -> Cores \cup {Nil}]
        /\ \A x \in Pool \cup {Link} : lock'[x] = IF x = nxt[c] THEN c
                                                     ELSE IF ~canReleaseAny /\ x = cur[c] THEN Nil ELSE lock[x]
    BY <1>1, Zenon DEF FreeLockNext, TypeOK, Release, Before, Pred
  <2> QED
    BY <1>1, <2>1, <2>2, <2>3, ObjectAllocatorAssumption, Zenon DEF Relocks, FreeLockNext
<1>5. Walk(c)'
  <2>1. nxt[c] \in live
    BY <1>1, ObjectAllocatorAssumption, Successor, SMTT(40) DEF FreeLockNext, Has, Walks, Walk, Sources, After, TypeOK
  <2>2. cur[c] # nxt[c] /\ cur[c] # Nil /\ cur[c] \in Sources
    BY <1>1, ObjectAllocatorAssumption, Zenon DEF FreeLockNext, Has, Walks, Walk, TypeOK, Sources
  <2> QED
    BY <1>1, <1>2, <1>3, <2>1, ObjectAllocatorAssumption, <2>2, SMTT(40) DEF FreeLockNext, To, Walk, Walks, Pred, canReleaseAny, Sources, After, pools, TypeOK
<1>6. pc[c] # "unlink" /\ pc'[c] # "unlink"
  BY <1>3, Zenon DEF FreeLockNext, To
<1> QED
  BY <1>1, <1>2, <1>3, <1>4, <1>5, <1>6, WalkStep, Zenon DEF To

LEMMA ExpandFailedStep ==
    ASSUME IInv, NEW c \in Cores, ExpandFailed(c) PROVE IInv'
<1>1. TypeOK /\ Walk(c) /\ (\A x \in Pool \cup {Link} : lock[x] = c <=> Has(c, x))
  BY Zenon DEF IInv, Locked
<1>2. ReleaseOptions' = ReleaseOptions /\ FirstPool' = FirstPool /\ pools' = pools /\ held' = held
  BY Zenon DEF ExpandFailed
<1>3. To(c, "idle", cur[c], prev[c], nxt[c], obj[c])
  BY <1>1, Zenon DEF ExpandFailed, To, TypeOK, Goto, walk, Labels
<1>4. Relocks(c)
  BY <1>1, <1>2, <1>3, ObjectAllocatorAssumption, Zenon
  DEF ExpandFailed, Relocks, To, Has, Walks, Pred, canReleaseAny, Before, Release, TypeOK
<1>5. Walk(c)'
  BY <1>1, <1>2, <1>3, ObjectAllocatorAssumption, Zenon DEF ExpandFailed, To, Walk, Walks, Pred, canReleaseAny, Sources, After, pools, TypeOK
<1>6. pc[c] # "unlink" /\ pc'[c] # "unlink"
  BY <1>3, Zenon DEF ExpandFailed, To
<1> QED
  BY <1>1, <1>2, <1>3, <1>4, <1>5, <1>6, WalkStep, Zenon DEF To

-----------------------------------------------------------------------------
\* Objects are taken and returned under the lock of their pool.
LEMMA TakeObjectStep ==
    ASSUME IInv, NEW c \in Cores, TakeObject(c) PROVE IInv'
<1>1. TypeOK /\ Walk(c) /\ (\A x \in Pool \cup {Link} : lock[x] = c <=> Has(c, x))
  BY Zenon DEF IInv, Locked
<1>2. To(c, "took", Nil, Nil, Nil, Nil)
  BY <1>1 DEF TakeObject, To, TypeOK, Goto, EndWalk, Labels
<1>3. Relocks(c)
  BY <1>1, <1>2, ObjectAllocatorAssumption, Zenon DEF TakeObject, Relocks, To, Has, Walks, Release, TypeOK
<1>4. Walk(c)'
  BY <1>2, Zenon DEF To, Walk, Walks
<1>5. Locked' /\ Chain' /\ \A d \in Cores : Walk(d)'
  BY <1>2, <1>3, <1>4, LinksKept, Zenon DEF TakeObject
<1>6. PICK more \in {0, 1} :
        /\ free' = [free EXCEPT ![cur[c]] = @ - 1 + more]
        /\ cap' = [cap EXCEPT ![cur[c]] = @ + more]
  BY Zenon DEF TakeObject
<1>7. cur[c] \in live /\ obj[c] = Nil
  BY <1>1, Zenon DEF TakeObject, Walk, Walks
<1>8. free[cur[c]] \in Nat \ {0} /\ held[cur[c]] \in Nat /\ cap[cur[c]] \in Nat /\ cur[c] \in Pool
  BY <1>1, <1>7 DEF TakeObject, TypeOK
<1>9. /\ free' \in [Pool -> Nat] /\ cap' \in [Pool -> Nat] /\ held' \in [Pool -> Nat]
      /\ \A p \in Pool : /\ free'[p] = IF p = cur[c] THEN free[p] - 1 + more ELSE free[p]
                         /\ cap'[p] = IF p = cur[c] THEN cap[p] + more ELSE cap[p]
                         /\ held'[p] = IF p = cur[c] THEN held[p] + 1 ELSE held[p]
  <2>1. free[cur[c]] - 1 + more \in Nat /\ cap[cur[c]] + more \in Nat /\ held[cur[c]] + 1 \in Nat
    BY <1>8
  <2> QED
    BY <1>1, <1>6, <1>8, <2>1, Zenon DEF TakeObject, TypeOK
<1>10. TypeOK'
  BY <1>1, <1>2, <1>3, <1>9, ZenonT(40) DEF TakeObject, TypeOK, To, Relocks
<1>11. ASSUME NEW p \in Pool PROVE Used(p)'
  <2>1. Owners(p)' = Owners(p)
    BY <1>2, <1>7, OwnersMoved, ObjectAllocatorAssumption, SMTT(40) DEF Owners
  <2>2. /\ Used(p) /\ Cardinality(Owners(p)) \in Nat
        /\ cap[p] \in Nat /\ free[p] \in Nat /\ held[p] \in Nat
    BY <1>1, OwnersCounted, Zenon DEF IInv, TypeOK, Owners
  <2> QED
    BY <1>7, <1>8, <1>9, <2>1, <2>2, SMTT(40) DEF Used, TakeObject
<1> QED
  BY <1>5, <1>10, <1>11, Zenon DEF IInv

LEMMA DeallocateObjectStep ==
    ASSUME IInv, NEW c \in Cores, DeallocateObject(c) PROVE IInv'
<1>1. TypeOK /\ Walk(c) /\ (\A x \in Pool \cup {Link} : lock[x] = c <=> Has(c, x))
  BY Zenon DEF IInv, Locked
<1>2. PICK q \in Pool : held[q] > 0 /\ held' = [held EXCEPT ![q] = @ - 1] /\ obj' = [obj EXCEPT ![c] = q]
  BY Zenon DEF DeallocateObject
<1>3. To(c, "freeLink", cur[c], prev[c], nxt[c], q)
  BY <1>1, <1>2, Zenon DEF DeallocateObject, To, TypeOK, Goto, Labels
<1>4. Relocks(c)
  BY <1>1, <1>3, Zenon DEF DeallocateObject, Relocks, To, Has, Walks, TypeOK
<1>5. Walk(c)'
  BY <1>1, <1>3, Zenon DEF DeallocateObject, To, Walk, Walks
<1>6. Locked' /\ Chain' /\ \A d \in Cores : Walk(d)'
  BY <1>3, <1>4, <1>5, LinksKept, Zenon DEF DeallocateObject, pools
<1>7. TypeOK'
  BY <1>1, <1>2, <1>3, <1>4, SMTT(40) DEF DeallocateObject, TypeOK, To, Relocks, pools
<1>8. obj[c] = Nil
  BY <1>1, Zenon DEF DeallocateObject, Walk
<1>9. ASSUME NEW p \in Pool PROVE Used(p)'
  <2>1. /\ Used(p) /\ cap[p] \in Nat /\ free[p] \in Nat /\ held[p] \in Nat
        /\ Owners(p) \in SUBSET Cores /\ c \notin Owners(p)
    BY <1>1, <1>8, ObjectAllocatorAssumption, Zenon DEF IInv, TypeOK, Owners
  <2>2. cap' = cap /\ free' = free /\ live' = live
    BY Zenon DEF DeallocateObject, pools
  <2>3. Cardinality(Owners(p)) \in Nat /\ Cardinality(Owners(p) \cup {c}) = Cardinality(Owners(p)) + 1
    BY <2>1, OwnersCounted, Zenon
  <2>4. Owners(p)' = IF p = q THEN Owners(p) \cup {c} ELSE Owners(p)
    BY <1>3, <2>1, OwnersMoved, SMTT(40)
  <2>5. held'[p] = IF p = q THEN held[p] - 1 ELSE held[p]
    BY <1>1, <1>2, Zenon DEF TypeOK
  <2> QED
    BY <2>1, <2>2, <2>3, <2>4, <2>5, SMTT(40) DEF Used
<1> QED
  BY <1>6, <1>7, <1>9, Zenon DEF IInv

LEMMA PutObjectStep ==
    ASSUME IInv, NEW c \in Cores, PutObject(c) PROVE IInv'
<1>1. TypeOK /\ Walk(c) /\ (\A x \in Pool \cup {Link} : lock[x] = c <=> Has(c, x))
  BY Zenon DEF IInv, Locked
<1>2. To(c, "put", Nil, Nil, Nil, Nil)
  BY <1>1, Zenon DEF PutObject, To, TypeOK, Goto, EndWalk, Labels
<1>3. Relocks(c)
  <2>1. \A x : Has(c, x) <=> x = cur[c] \/ (canReleaseAny /\ x = Pred(c))
    BY Zenon DEF PutObject, Has, Walks
  <2>2. \A x : ~Has(c, x)'
    BY <1>2, Zenon DEF To, Has, Walks
  <2>3. /\ lock' \in [Pool \cup {Link} -> Cores \cup {Nil}]
        /\ \A x \in Pool \cup {Link} :
              lock'[x] = IF x = cur[c] \/ (canReleaseAny /\ x = Pred(c)) THEN Nil ELSE lock[x]
    BY <1>1, Zenon DEF PutObject, TypeOK, Release, Before, Pred
  <2> QED
    BY <1>1, <2>1, <2>2, <2>3, Zenon DEF Relocks
<1>4. Walk(c)'
  BY <1>2, Zenon DEF To, Walk, Walks
<1>5. Locked' /\ Chain' /\ \A d \in Cores : Walk(d)'
  BY <1>2, <1>3, <1>4, LinksKept, Zenon DEF PutObject
<1>6. cur[c] \in live /\ cur[c] \in Pool /\ obj[c] = cur[c] /\ pc[c] = "freeWalk"
  BY <1>1, Zenon DEF PutObject, Walk, Walks, TypeOK
<1>7. TypeOK'
  <2>1. free[cur[c]] + 1 \in Nat
    BY <1>1, <1>6 DEF TypeOK
  <2> QED
    BY <1>1, <1>2, <1>3, <1>6, <2>1, Zenon DEF PutObject, TypeOK, To, Relocks
<1>8. ASSUME NEW p \in Pool PROVE Used(p)'
  <2>1. /\ Used(p) /\ cap[p] \in Nat /\ free[p] \in Nat /\ held[p] \in Nat
        /\ Owners(p) \in SUBSET Cores /\ (c \in Owners(p) <=> p = cur[c])
    BY <1>1, <1>6, Zenon DEF IInv, TypeOK, Owners
  <2>2. cap' = cap /\ held' = held /\ live' = live
        /\ free'[p] = IF p = cur[c] THEN free[p] + 1 ELSE free[p]
    BY <1>1, <1>6, Zenon DEF PutObject, TypeOK
  <2>3. /\ Cardinality(Owners(p)) \in Nat
        /\ p = cur[c] => Cardinality(Owners(p) \ {c}) = Cardinality(Owners(p)) - 1
    BY <2>1, OwnersCounted, Zenon
  <2>4. Owners(p)' = IF p = cur[c] THEN Owners(p) \ {c} ELSE Owners(p)
    BY <1>2, <2>1, OwnersMoved, ObjectAllocatorAssumption, SMTT(40)
  <2> QED
    BY <2>1, <2>2, <2>3, <2>4, SMTT(40) DEF Used
<1> QED
  BY <1>5, <1>7, <1>8, Zenon DEF IInv
-----------------------------------------------------------------------------
\* Nobody has the lock or an object of a pool that is not acquired.
LEMMA Unacquired ==
    ASSUME IInv, NEW p \in Pool \ live
    PROVE  lock[p] = Nil /\ cap[p] = 0 /\ free[p] = 0 /\ held[p] = 0 /\ Cardinality(Owners(p)) = 0
<1>1. ASSUME NEW d \in Cores PROVE lock[p] # d
  <2>1. Walk(d) /\ (lock[p] = d <=> Has(d, p))
    BY Zenon DEF IInv, Locked
  <2> QED
    BY <2>1, ObjectAllocatorAssumption, Zenon DEF Has, Walk, Sources
<1>2. lock[p] = Nil
  BY <1>1, Zenon DEF IInv, TypeOK
<1>3. Used(p) /\ cap[p] \in Nat /\ free[p] \in Nat /\ held[p] \in Nat /\ Cardinality(Owners(p)) \in Nat
  BY OwnersCounted, Zenon DEF IInv, TypeOK, Owners
<1> QED
  BY <1>2, <1>3, SMTT(40) DEF Used

\* A new pool p is plugged in behind y, whose lock core c has.
LEMMA Plugged ==
    ASSUME IInv, NEW c \in Cores, NEW l, NEW a, NEW b, NEW n, NEW o, To(c, l, a, b, n, o), Relocks(c),
           pc[c] # "unlink", l # "unlink", Walk(c)',
           NEW y \in Sources, lock[y] = c, NEW p \in Pool \ live, live' = live \cup {p},
           After(y)' = p, After(p)' = After(y), lock'[p] = Nil,
           \A x \in Sources \ {y} : After(x)' = After(x)
    PROVE  Locked' /\ Chain' /\ \A d \in Cores : Walk(d)'
<1>1. Locked'
  BY LockedKept, Zenon
<1>2. /\ Sources' = Sources \cup {p} /\ Sources \subseteq Pool \cup {Link}
      /\ p \notin Sources /\ p # Nil /\ Nil \notin Sources
  BY ObjectAllocatorAssumption, Zenon DEF Sources, IInv, TypeOK
<1>3. \A d \in Cores \ {c} : Walk(d)'
  <2>1. Confined(c)
    BY <1>2, Zenon DEF Confined
  <2> QED
    BY <2>1, BystandersKept, Zenon
<1>4. pc'[c] = l /\ c # Nil
  BY ObjectAllocatorAssumption, Zenon DEF To
<1>5. Leads(p)' = After(y) /\ Leads(y) = After(y)
  BY <1>4, Zenon DEF Leads
<1>6. Leads(y)' = p
  <2>1. lock'[y] \in {c, Nil}
    BY <1>2, Zenon DEF Relocks
  <2> QED
    BY <1>4, <2>1, Zenon DEF Leads
<1>7. ASSUME NEW x \in Sources \ {y} PROVE Leads(x)' = Leads(x)
  <2>1. /\ x \in Pool \cup {Link} /\ After(x)' = After(x)
        /\ \/ lock[x] # c /\ lock'[x] = lock[x]
           \/ lock[x] \in {c, Nil} /\ lock'[x] \in {c, Nil}
    BY <1>2, <1>7, Zenon DEF Relocks
  <2> QED
    BY <2>1, LeadsKept, Zenon
<1>8. /\ \A x \in Sources : Leads(x) \in live \cup {Nil} /\ Leads(x) # p
      /\ \A x, z \in Sources : Leads(x) = Leads(z) /\ Leads(x) # Nil => x = z
  BY <1>2, Zenon DEF IInv, Chain
<1>9. \A x \in Sources' : Leads(x)' \in live' \cup {Nil}
  BY <1>2, <1>5, <1>6, <1>7, <1>8
<1>10. ASSUME NEW x \in Sources', NEW z \in Sources', Leads(x)' = Leads(z)', Leads(x)' # Nil PROVE x = z
  BY <1>2, <1>5, <1>6, <1>7, <1>8, <1>10, SMTT(40)
<1>11. Chain'
  BY <1>9, <1>10, Zenon DEF Chain
<1> QED
  BY <1>1, <1>3, <1>11, Zenon

LEMMA FirstPoolAcquiredStep ==
    ASSUME IInv, NEW c \in Cores, FirstPoolAcquired(c) PROVE IInv'
<1>1. TypeOK /\ Walk(c) /\ (\A x \in Pool \cup {Link} : lock[x] = c <=> Has(c, x))
  BY Zenon DEF IInv, Locked
<1>2. PICK p \in Pool : /\ AcquirePool(p, 1) /\ Next_' = [Next_ EXCEPT ![p] = Nil]
                        /\ lock' = [lock EXCEPT ![p] = Nil] /\ FirstPool' = p
  BY Zenon DEF FirstPoolAcquired
<1>3. p \in Pool \ live /\ lock[p] = Nil /\ live' = live \cup {p}
  BY <1>2, Unacquired, Zenon DEF AcquirePool
<1>4. lock' = lock
  BY <1>1, <1>2, <1>3, Zenon DEF TypeOK
<1>5. To(c, "allocFirst", cur[c], prev[c], nxt[c], obj[c])
  BY <1>1, Zenon DEF FirstPoolAcquired, To, TypeOK, walk
<1>6. Relocks(c)
  BY <1>1, <1>4, <1>5, Zenon DEF FirstPoolAcquired, Relocks, To, Has, Walks, TypeOK
<1>7. Walk(c)'
  BY <1>1, <1>5, Zenon DEF FirstPoolAcquired, To, Walk, Walks
<1>8. lock[Link] = c /\ Link \in Sources
  BY <1>1, Zenon DEF FirstPoolAcquired, Has, Sources
<1>9. After(Link)' = p /\ After(p)' = After(Link) /\ \A x \in Sources \ {Link} : After(x)' = After(x)
  BY <1>1, <1>2, <1>3, ObjectAllocatorAssumption DEF FirstPoolAcquired, After, Sources, TypeOK
<1>10. Locked' /\ Chain' /\ \A d \in Cores : Walk(d)'
  BY <1>3, <1>4, <1>5, <1>6, <1>7, <1>8, <1>9, Plugged, Zenon DEF FirstPoolAcquired
<1>11. TypeOK'
  BY <1>1, <1>2, <1>3, <1>4, SMTT(40) DEF FirstPoolAcquired, TypeOK, AcquirePool, walk
<1>12. ASSUME NEW q \in Pool PROVE Used(q)'
  <2>1. Owners(q)' = Owners(q) /\ held' = held
    BY Zenon DEF Owners, FirstPoolAcquired, walk
  <2>2. CASE q = p
    BY <1>1, <1>2, <1>3, <2>1, <2>2, Unacquired DEF Used, AcquirePool, TypeOK
  <2>3. CASE q # p
    BY <1>1, <1>2, <1>3, <2>1, <2>3, Zenon DEF IInv, Used, AcquirePool, TypeOK
  <2> QED
    BY <2>2, <2>3, Zenon
<1> QED
  BY <1>10, <1>11, <1>12, Zenon DEF IInv

LEMMA GrowStep ==
    ASSUME IInv, NEW c \in Cores, Grow(c) PROVE IInv'
<1>1. TypeOK /\ Walk(c) /\ (\A x \in Pool \cup {Link} : lock[x] = c <=> Has(c, x))
  BY Zenon DEF IInv, Locked
<1>2. PICK p \in Pool : /\ AcquirePool(p, 0)
                        /\ Next_' = [Next_ EXCEPT ![p] = Next_[cur[c]], ![cur[c]] = p]
                        /\ lock' = Release({cur[c], p}) /\ held' = [held EXCEPT ![p] = @ + 1]
  BY Zenon DEF Grow
<1>3. /\ p \in Pool \ live /\ live' = live \cup {p}
      /\ lock[p] = Nil /\ cap[p] = 0 /\ free[p] = 0 /\ held[p] = 0 /\ Cardinality(Owners(p)) = 0
  BY <1>2, Unacquired, Zenon DEF AcquirePool
<1>4. cur[c] \in live /\ cur[c] \in Pool /\ cur[c] # p /\ obj[c] = Nil
  BY <1>1, <1>3, Zenon DEF Grow, Walk, Walks, TypeOK
<1>5. To(c, "idle", Nil, Nil, Nil, Nil)
  BY <1>1, SMTT(40) DEF Grow, To, TypeOK, Goto, EndWalk, Labels
<1>6. Relocks(c) /\ lock'[p] = Nil
  <2>1. \A x : (Has(c, x) <=> x = cur[c]) /\ ~Has(c, x)'
    BY <1>5, Zenon DEF Grow, Has, Walks, To
  <2>2. /\ lock' \in [Pool \cup {Link} -> Cores \cup {Nil}]
        /\ \A x \in Pool \cup {Link} : lock'[x] = IF x = cur[c] THEN Nil ELSE lock[x]
    BY <1>1, <1>2, <1>3, Zenon DEF TypeOK, Release
  <2> QED
    BY <1>1, <1>3, <1>4, <2>1, <2>2, Zenon DEF Relocks
<1>7. Walk(c)'
  BY <1>5, Zenon DEF To, Walk, Walks
<1>8. lock[cur[c]] = c /\ cur[c] \in Sources
  BY <1>1, <1>4, Zenon DEF Grow, Has, Walks, Sources
<1>9. /\ Next_' \in [Pool -> Pool \cup {Nil}] /\ FirstPool' = FirstPool
      /\ Next_'[cur[c]] = p /\ Next_'[p] = Next_[cur[c]]
      /\ \A x \in Pool \ {cur[c], p} : Next_'[x] = Next_[x]
  BY <1>1, <1>2, <1>4 DEF TypeOK, Grow
<1>10. After(p)' = After(cur[c]) /\ \A x \in Sources \ {cur[c]} : After(x)' = After(x)
  <2>1. After(p)' = After(cur[c])
    BY <1>4, <1>9, ObjectAllocatorAssumption, Zenon DEF After
  <2>2. \A x \in Sources \ {cur[c]} : After(x)' = After(x)
    BY <1>1, <1>3, <1>9, Zenon DEF After, Sources, TypeOK
  <2> QED
    BY <2>1, <2>2, Zenon
<1>11. Locked' /\ Chain' /\ \A d \in Cores : Walk(d)'
  <2>1. PICK y \in Sources : y = cur[c]
    BY <1>8, Zenon
  <2>2. After(y)' = p
    BY <1>4, <1>9, <2>1, ObjectAllocatorAssumption, Zenon DEF After
  <2>3. /\ lock[y] = c /\ After(p)' = After(y) /\ pc[c] # "unlink"
        /\ \A x \in Sources \ {y} : After(x)' = After(x)
    BY <1>8, <1>10, <2>1, Zenon DEF Grow
  <2> QED
    BY <1>3, <1>5, <1>6, <1>7, <2>2, <2>3, Plugged, Zenon
<1>12. /\ cap' \in [Pool -> Nat] /\ free' \in [Pool -> Nat] /\ held' \in [Pool -> Nat]
       /\ cap'[p] = 1 /\ free'[p] = 0 /\ held'[p] = 1
       /\ \A q \in Pool \ {p} : cap'[q] = cap[q] /\ free'[q] = free[q] /\ held'[q] = held[q]
  BY <1>1, <1>2, <1>3, SMTT(40) DEF AcquirePool, TypeOK
<1>13. TypeOK'
  BY <1>1, <1>3, <1>5, <1>6, <1>9, <1>12, Zenon DEF TypeOK, To, Relocks
<1>14. ASSUME NEW q \in Pool PROVE Used(q)'
  <2>1. Owners(q)' = Owners(q)
    BY <1>4, <1>5, OwnersMoved, ObjectAllocatorAssumption, SMTT(40) DEF Owners
  <2>2. CASE q = p
    BY <1>3, <1>12, <2>1, <2>2 DEF Used
  <2>3. CASE q # p
    BY <1>3, <1>12, <2>1, <2>3, Zenon DEF IInv, Used
  <2> QED
    BY <2>2, <2>3, Zenon
<1> QED
  BY <1>11, <1>13, <1>14, Zenon DEF IInv

LEMMA ExpandStep ==
    ASSUME IInv, NEW c \in Cores, Expand(c) PROVE IInv'
<1>1. TypeOK /\ Walk(c) /\ (\A x \in Pool \cup {Link} : lock[x] = c <=> Has(c, x))
  BY Zenon DEF IInv, Locked
<1>2. PICK p \in Pool : /\ AcquirePool(p, 1) /\ Next_' = [Next_ EXCEPT ![p] = FirstPool]
                        /\ lock' = Release({Link, p}) /\ FirstPool' = p
  BY Zenon DEF Expand
<1>3. /\ p \in Pool \ live /\ live' = live \cup {p}
      /\ lock[p] = Nil /\ cap[p] = 0 /\ free[p] = 0 /\ held[p] = 0 /\ Cardinality(Owners(p)) = 0
  BY <1>2, Unacquired, Zenon DEF AcquirePool
<1>4. To(c, "idle", cur[c], prev[c], nxt[c], obj[c])
  BY <1>1, Zenon DEF Expand, To, TypeOK, Goto, walk, Labels
<1>5. Relocks(c) /\ lock'[p] = Nil
  <2>1. \A x : (Has(c, x) <=> x = Link) /\ ~Has(c, x)'
    BY <1>4, Zenon DEF Expand, Has, Walks, To
  <2>2. /\ lock' \in [Pool \cup {Link} -> Cores \cup {Nil}]
        /\ \A x \in Pool \cup {Link} : lock'[x] = IF x = Link THEN Nil ELSE lock[x]
    BY <1>1, <1>2, <1>3, Zenon DEF TypeOK, Release
  <2> QED
    BY <1>1, <1>3, <2>1, <2>2, ObjectAllocatorAssumption, Zenon DEF Relocks
<1>6. Walk(c)'
  BY <1>1, <1>4, Zenon DEF Expand, To, Walk, Walks
<1>7. lock[Link] = c /\ Link \in Sources
  BY <1>1, Zenon DEF Expand, Has, Sources
<1>8. After(Link)' = p /\ After(p)' = After(Link) /\ \A x \in Sources \ {Link} : After(x)' = After(x)
  BY <1>1, <1>2, <1>3, ObjectAllocatorAssumption, Zenon DEF After, Sources, TypeOK
<1>9. Locked' /\ Chain' /\ \A d \in Cores : Walk(d)'
  BY <1>3, <1>4, <1>5, <1>6, <1>7, <1>8, Plugged, Zenon DEF Expand
<1>10. /\ cap' \in [Pool -> Nat] /\ free' \in [Pool -> Nat] /\ held' = held
       /\ Next_' \in [Pool -> Pool \cup {Nil}]
       /\ cap'[p] = 1 /\ free'[p] = 1
       /\ \A q \in Pool \ {p} : cap'[q] = cap[q] /\ free'[q] = free[q]
  BY <1>1, <1>2, <1>3, Zenon DEF Expand, AcquirePool, TypeOK
<1>11. TypeOK'
  BY <1>1, <1>2, <1>3, <1>4, <1>5, <1>10, Zenon DEF TypeOK, To, Relocks
<1>12. ASSUME NEW q \in Pool PROVE Used(q)'
  <2>1. Owners(q)' = Owners(q)
    BY <1>1, <1>4, OwnersMoved, SMTT(40) DEF Owners, Expand, Walk
  <2>2. CASE q = p
    BY <1>3, <1>10, <2>1, <2>2, SMTT(40) DEF Used
  <2>3. CASE q # p
    BY <1>3, <1>10, <2>1, <2>3, Zenon DEF IInv, Used
  <2> QED
    BY <2>2, <2>3, Zenon
<1> QED
  BY <1>9, <1>11, <1>12, Zenon DEF IInv

\* The pool goes, and the link to it leads to its successor.
LEMMA ReleasePoolStep ==
    ASSUME IInv, NEW c \in Cores, ReleasePool(c) PROVE IInv'
<1>1. TypeOK /\ Walk(c) /\ (\A x \in Pool \cup {Link} : lock[x] = c <=> Has(c, x))
  BY Zenon DEF IInv, Locked
<1>2. PICK p \in Pool, y \in Sources : p = cur[c] /\ y = Pred(c)
  <2>1. canReleaseAny /\ pc[c] = "freeWalk"
    BY Zenon DEF ReleasePool, Removable, canReleaseAny
  <2> QED
    BY <1>1, <2>1, Zenon DEF Walk, Walks, TypeOK
<1>3. /\ pc[c] = "freeWalk" /\ obj[c] = p /\ cap[p] - free[p] = 1 /\ canReleaseAny
      /\ live' = live \ {p} /\ nxt' = [nxt EXCEPT ![c] = Next_[p]] /\ Next_' = [Next_ EXCEPT ![p] = Nil]
      /\ cap' = [cap EXCEPT ![p] = 0] /\ free' = [free EXCEPT ![p] = 0]
      /\ lock' = Release({p}) /\ pc' = [pc EXCEPT ![c] = "unlink"]
      /\ ReleaseOptions' = ReleaseOptions /\ FirstPool' = FirstPool /\ held' = held
      /\ cur' = cur /\ prev' = prev /\ obj' = obj
  BY <1>2, Zenon DEF ReleasePool, Removable, canReleaseAny, Goto
<1>4. p \in live /\ y # p /\ After(y) = p /\ Pred(c)' = y
  BY <1>1, <1>2, <1>3, Zenon DEF Walk, Walks, Pred
<1>5. To(c, "unlink", p, prev[c], Next_[p], p)
  BY <1>1, <1>2, <1>3, Zenon DEF To, TypeOK, Labels
<1>6. (\A x : Has(c, x) <=> x \in {p, y}) /\ (\A x : Has(c, x)' <=> x = y)
  BY <1>2, <1>3, <1>4, <1>5, Zenon DEF Has, Walks, To
<1>7. /\ lock' \in [Pool \cup {Link} -> Cores \cup {Nil}]
      /\ \A x \in Pool \cup {Link} : lock'[x] = IF x = p THEN Nil ELSE lock[x]
  BY <1>1, <1>3, Zenon DEF TypeOK, Release
<1>8. Relocks(c)
  BY <1>1, <1>4, <1>6, <1>7, Zenon DEF Relocks
<1>9. Locked'
  BY <1>5, <1>8, LockedKept, Zenon
<1>10. /\ Sources \subseteq Pool \cup {Link} /\ Sources' = Sources \ {p} /\ p \in Sources
       /\ lock[y] = c /\ lock[p] = c /\ c # Nil /\ p # Nil /\ pc'[c] = "unlink"
  BY <1>1, <1>3, <1>4, <1>5, <1>6, ObjectAllocatorAssumption, SMTT(40) DEF Sources, TypeOK, To
<1>11. ASSUME NEW x \in Sources, x # p PROVE After(x)' = After(x)
  BY <1>1, <1>3, <1>10, <1>11, Zenon DEF After, Sources, TypeOK
<1>12. Walk(c)'
  <2>1. Pred(c)' \in Sources' /\ canReleaseAny'
    BY <1>3, <1>4, <1>10, Zenon DEF canReleaseAny
  <2> QED
    BY <2>1, <1>10, Zenon DEF Walk, Walks
<1>13. \A d \in Cores : Walk(d)'
  <2>1. Confined(c)
    BY <1>10, <1>11, Zenon DEF Confined
  <2> QED
    BY <1>5, <1>12, <2>1, BystandersKept, Zenon
<1>14. Leads(y) = p /\ Leads(p) = Next_[p] /\ Leads(y)' = Next_[p]
  <2>1. Leads(y) = p
    BY <1>3, <1>4, <1>10, Zenon DEF Leads
  <2>2. Leads(p) = Next_[p]
    BY <1>3, <1>10, ObjectAllocatorAssumption, Zenon DEF Leads, After
  <2>3. lock'[y] = c /\ nxt'[c] = Next_[p]
    BY <1>4, <1>5, <1>7, <1>10, Zenon DEF To
  <2> QED
    BY <1>10, <2>1, <2>2, <2>3, Zenon DEF Leads
<1>15. ASSUME NEW x \in Sources \ {p, y} PROVE Leads(x)' = Leads(x)
  <2>1. x \in Pool \cup {Link} /\ After(x)' = After(x) /\ lock[x] # c /\ lock'[x] = lock[x]
    BY <1>1, <1>6, <1>7, <1>10, <1>11, <1>15, Zenon
  <2> QED
    BY <1>5, <2>1, LeadsKept, Zenon
<1>16. /\ \A x \in Sources : Leads(x) \in live \cup {Nil}
       /\ \A x, z \in Sources : Leads(x) = Leads(z) /\ Leads(x) # Nil => x = z
  BY Zenon DEF IInv, Chain
<1>17. \A x \in Sources \ {y} : Leads(x) # p
  BY <1>10, <1>14, <1>16, Zenon
<1>18. \A x \in Sources' : Leads(x)' \in live' \cup {Nil}
  BY <1>3, <1>4, <1>10, <1>14, <1>15, <1>16, <1>17, SMTT(40)
<1>19. ASSUME NEW x \in Sources', NEW z \in Sources', Leads(x)' = Leads(z)', Leads(x)' # Nil PROVE x = z
  BY <1>10, <1>14, <1>15, <1>16, <1>19
<1>20. Chain'
  BY <1>18, <1>19, Zenon DEF Chain
<1>21. /\ cap' \in [Pool -> Nat] /\ free' \in [Pool -> Nat] /\ Next_' \in [Pool -> Pool \cup {Nil}]
       /\ cap'[p] = 0 /\ free'[p] = 0
       /\ \A q \in Pool \ {p} : cap'[q] = cap[q] /\ free'[q] = free[q]
  BY <1>1, <1>3, <1>4, Zenon DEF TypeOK
<1>22. TypeOK'
  BY <1>1, <1>3, <1>5, <1>7, <1>21, Zenon DEF TypeOK, To
<1>23. ASSUME NEW q \in Pool PROVE Used(q)'
  <2>1. Owners(q)' = Owners(q) \ {c} /\ Owners(q) \in SUBSET Cores /\ (c \in Owners(q) <=> q = p)
    BY <1>3, <1>5, OwnersMoved, SMTT(40) DEF Owners
  <2>2. CASE q = p
    <3>1. /\ Cardinality(Owners(p)) \in Nat
          /\ Cardinality(Owners(p)') = Cardinality(Owners(p)) - 1
          /\ Cardinality(Owners(p)') \in Nat
      <4>1. Owners(p)' \in SUBSET Cores
        BY <2>1, <2>2, Zenon
      <4> QED
        BY <2>1, <2>2, <4>1, OwnersCounted
    <3>2. Used(p) /\ cap[p] \in Nat /\ free[p] \in Nat /\ held[p] \in Nat
      BY <1>1, Zenon DEF IInv, TypeOK
    <3>3. held[p] = 0 /\ Cardinality(Owners(p)') = 0
      BY <1>3, <3>1, <3>2, SMTT(40) DEF Used
    <3> QED
      BY <1>3, <1>21, <2>2, <3>3, SMTT(40) DEF Used
  <2>3. CASE q # p
    <3>1. Owners(q)' = Owners(q)
      BY <2>1, <2>3, Zenon
    <3> QED
      BY <1>3, <1>21, <2>3, <3>1, ZenonT(40) DEF IInv, Used
  <2> QED
    BY <2>2, <2>3, Zenon
<1> QED
  BY <1>9, <1>13, <1>20, <1>22, <1>23, Zenon DEF IInv

LEMMA UnlinkStep ==
    ASSUME IInv, NEW c \in Cores, Unlink(c) PROVE IInv'
<1>1. TypeOK /\ Walk(c) /\ (\A x \in Pool \cup {Link} : lock[x] = c <=> Has(c, x))
  BY Zenon DEF IInv, Locked
<1>2. PICK y \in Sources : y = Pred(c)
  BY <1>1, Zenon DEF Walk, Unlink
<1>3. canReleaseAny /\ Before(c) = {y} /\ pc[c] = "unlink"
  BY <1>1, <1>2, Zenon DEF Walk, Unlink, Before, Pred
<1>4. To(c, "gone", Nil, Nil, Nil, Nil)
  BY <1>1, Zenon DEF Unlink, To, TypeOK, Goto, EndWalk, Labels
<1>5. (\A x : Has(c, x) <=> x = y) /\ (\A x : ~Has(c, x)')
  BY <1>2, <1>3, <1>4, Zenon DEF Has, Walks, To
<1>6. /\ lock' \in [Pool \cup {Link} -> Cores \cup {Nil}]
      /\ \A x \in Pool \cup {Link} : lock'[x] = IF x = y THEN Nil ELSE lock[x]
  BY <1>1, <1>3, Zenon DEF Unlink, TypeOK, Release
<1>7. Relocks(c)
  BY <1>1, <1>5, <1>6, Zenon DEF Relocks
<1>8. Locked'
  BY <1>4, <1>7, LockedKept, Zenon
<1>9. /\ Sources \subseteq Pool \cup {Link} /\ Sources' = Sources /\ live' = live
      /\ lock[y] = c /\ c # Nil
  BY <1>1, <1>5, ObjectAllocatorAssumption, SMTT(40) DEF Sources, TypeOK, Unlink
<1>10. /\ FirstPool' \in Pool \cup {Nil} /\ Next_' \in [Pool -> Pool \cup {Nil}]
       /\ After(y)' = nxt[c] /\ \A x \in Sources \ {y} : After(x)' = After(x)
  <2>1. nxt[c] \in Pool \cup {Nil} /\ prev[c] \in Pool \cup {Nil}
    BY <1>1, Zenon DEF TypeOK
  <2>2. CASE prev[c] = Nil
    BY <1>1, <1>2, <2>1, <2>2, Zenon DEF Unlink, Pred, After, TypeOK
  <2>3. CASE prev[c] # Nil
    <3>1. y = prev[c] /\ y \in Pool /\ y # Link /\ Next_' = [Next_ EXCEPT ![y] = nxt[c]] /\ FirstPool' = FirstPool
      BY <1>2, <2>1, <2>3, ObjectAllocatorAssumption, Zenon DEF Unlink, Pred
    <3> QED
      BY <1>1, <1>9, <2>1, <3>1, Zenon DEF After, TypeOK
  <2> QED
    BY <2>2, <2>3, Zenon
<1>11. Walk(c)'
  BY <1>4, Zenon DEF To, Walk, Walks
<1>12. \A d \in Cores : Walk(d)'
  <2>1. Confined(c)
    BY <1>9, <1>10, Zenon DEF Confined
  <2> QED
    BY <1>4, <1>11, <2>1, BystandersKept, Zenon
<1>13. Leads(y)' = Leads(y)
  BY <1>3, <1>6, <1>9, <1>10, Zenon DEF Leads
<1>14. ASSUME NEW x \in Sources \ {y} PROVE Leads(x)' = Leads(x)
  <2>1. x \in Pool \cup {Link} /\ After(x)' = After(x) /\ lock[x] # c /\ lock'[x] = lock[x]
    BY <1>1, <1>5, <1>6, <1>9, <1>10, <1>14, Zenon
  <2> QED
    BY <1>4, <2>1, LeadsKept, Zenon
<1>15. Chain'
  BY <1>9, <1>13, <1>14 DEF IInv, Chain
<1>16. TypeOK'
  BY <1>1, <1>4, <1>6, <1>9, <1>10, Zenon DEF Unlink, TypeOK, To
<1>17. ASSUME NEW q \in Pool PROVE Used(q)'
  <2>1. Owners(q)' = Owners(q)
    BY <1>3, <1>4, OwnersMoved, ObjectAllocatorAssumption, SMTT(40) DEF Owners
  <2> QED
    BY <1>9, <2>1, Zenon DEF IInv, Used, Unlink
<1> QED
  BY <1>8, <1>12, <1>15, <1>16, <1>17, Zenon DEF IInv

-----------------------------------------------------------------------------
LEMMA Initially == Init => IInv
<1> SUFFICES ASSUME Init PROVE IInv
  BY Zenon
<1>1. TypeOK
  BY ObjectAllocatorAssumption, Zenon DEF Init, TypeOK, Labels
<1>2. ASSUME NEW c \in Cores PROVE Walk(c) /\ \A x : ~Has(c, x)
  BY <1>2, Zenon DEF Init, Walk, Has, Walks
<1>3. Locked
  BY <1>2, ObjectAllocatorAssumption, Zenon DEF Init, Locked
<1>4. Chain
  BY Zenon DEF Init, Chain, Sources, Leads, After
<1>5. ASSUME NEW p \in Pool PROVE Used(p)
  <2>1. Owners(p) = {} /\ cap[p] = 0 /\ free[p] = 0 /\ held[p] = 0
    BY ObjectAllocatorAssumption, Zenon DEF Init, Owners
  <2>2. Cardinality(Owners(p)) = 0
    BY <2>1, OwnersCounted, Zenon
  <2> QED
    BY <2>1, <2>2 DEF Used
<1> QED
  BY <1>1, <1>2, <1>3, <1>4, <1>5, Zenon DEF IInv

LEMMA Stepwise == IInv /\ [Next]_vars => IInv'
<1> SUFFICES ASSUME IInv, [Next]_vars PROVE IInv'
  BY Zenon
<1>1. ASSUME NEW c \in Cores, Call(c) PROVE IInv'
  <2>1. CASE AllocateObject(c)
    BY <2>1, OutsideStep, Zenon DEF AllocateObject, Outside
  <2>2. CASE DeallocateObject(c)
    BY <2>2, DeallocateObjectStep, Zenon
  <2>3. CASE ForceExpand(c)
    BY <2>3, OutsideStep, Zenon DEF ForceExpand, Outside
  <2> QED
    BY <1>1, <2>1, <2>2, <2>3, Zenon DEF Call
<1>2. ASSUME NEW c \in Cores, Locking(c) PROVE IInv'
  BY <1>2, TakeLinkageLockStep, LockFirstPoolStep, LockNextStep, FreeLockFirstStep, FreeLockNextStep, Zenon
  DEF Locking
<1>3. ASSUME NEW c \in Cores, Working(c) PROVE IInv'
  <2>1. CASE GiveUp(c)
    BY <2>1, OutsideStep, Zenon DEF GiveUp, Outside
  <2>2. CASE Took(c)
    BY <2>2, OutsideStep, Zenon DEF Took, Outside
  <2>3. CASE Put(c)
    BY <2>3, OutsideStep, Zenon DEF Put, Outside
  <2>4. CASE Gone(c)
    BY <2>4, OutsideStep, Zenon DEF Gone, Outside
  <2> QED
    BY <1>3, <2>1, <2>2, <2>3, <2>4, FirstPoolAcquiredStep, FirstPoolFailedStep, ReadNextStep,
       TakeObjectStep, GrowStep, GrowFailedStep, FreeReadNextStep, PutObjectStep,
       ReleasePoolStep, UnlinkStep, ExpandStep, ExpandFailedStep, Zenon DEF Working
<1>4. ASSUME UNCHANGED vars PROVE IInv'
  <2>1. /\ ReleaseOptions' = ReleaseOptions /\ FirstPool' = FirstPool /\ live' = live /\ Next_' = Next_
        /\ cap' = cap /\ free' = free /\ held' = held /\ lock' = lock
        /\ pc' = pc /\ cur' = cur /\ prev' = prev /\ nxt' = nxt /\ obj' = obj
    BY <1>4, Zenon DEF vars, pools, walk
  <2>2. TypeOK'
    BY <2>1, Zenon DEF IInv, TypeOK
  <2>3. Locked'
    <3>1. ASSUME NEW c, NEW x PROVE Has(c, x)' <=> Has(c, x)
      BY <2>1, Zenon DEF Has, Walks, Pred, canReleaseAny
    <3> QED
      BY <2>1, <3>1, Zenon DEF IInv, Locked
  <2>4. Chain'
    <3>1. Sources' = Sources
      BY <2>1, Zenon DEF Sources
    <3>2. ASSUME NEW x PROVE Leads(x)' = Leads(x)
      BY <2>1, SMT DEF Leads, After
    <3> QED
      BY <2>1, <3>1, <3>2, Zenon DEF IInv, Chain
  <2>5. \A c \in Cores : Walk(c)'
    BY <2>1, Zenon DEF IInv, Walk, Walks, Pred, canReleaseAny, Sources, After
  <2>6. \A p \in Pool : Used(p)'
    BY <2>1, Zenon DEF IInv, Used, Owners
  <2> QED
    BY <2>2, <2>3, <2>4, <2>5, <2>6, Zenon DEF IInv
<1> QED
  BY <1>1, <1>2, <1>3, <1>4, Zenon DEF Next

LEMMA Unreleased == IInv => NoReleasedPoolUsed
<1> SUFFICES ASSUME IInv PROVE NoReleasedPoolUsed
  BY Zenon
<1>1. ASSUME NEW c \in Cores, pc[c] # "unlink", cur[c] # Nil PROVE cur[c] \in live
  BY <1>1, Zenon DEF IInv, Walk
<1>2. ASSUME NEW c \in Cores, pc[c] # "unlink", nxt[c] # Nil PROVE nxt[c] \in live
  <2>1. Walk(c) /\ pc[c] \in {"allocHop", "freeHop"}
    BY <1>2, Zenon DEF IInv, Walk
  <2>2. cur[c] \in live /\ cur[c] \in Pool /\ nxt[c] = Next_[cur[c]] /\ Has(c, cur[c])
    BY <2>1, Zenon DEF IInv, TypeOK, Walk, Walks, Has
  <2>3. After(cur[c]) = nxt[c] /\ cur[c] \in Sources
    BY <2>2, ObjectAllocatorAssumption, Zenon DEF After, Sources
  <2> QED
    BY <1>2, <2>2, <2>3, Successor, Zenon
<1>3. ASSUME NEW c \in Cores, pc[c] # "unlink" PROVE {cur[c], nxt[c], obj[c]} \ {Nil} \subseteq live
  BY <1>1, <1>2, <1>3, UsedLive, SMTT(40)
<1> QED
  BY <1>3, UsedLive, Zenon DEF NoReleasedPoolUsed

\* Objects that callers have, and pools that a walk of AllocateObject or
\* DeallocateObject has locked or is about to lock, lie in pools that were not
\* released, whatever the cores do between the locks.
THEOREM ReleasedPoolsAreUnused == Spec => []NoReleasedPoolUsed
<1>1. Init => IInv
  BY Initially, Zenon
<1>2. IInv /\ [Next]_vars => IInv'
  BY Stepwise, Zenon
<1>3. IInv => NoReleasedPoolUsed
  BY Unreleased, Zenon
<1> QED
  BY <1>1, <1>2, <1>3, PTL DEF Spec
=============================================================================
