-------------------------- MODULE ObjectAllocator --------------------------
(***************************************************************************)
(* ObjectAllocatorSmp: objects of one size from a chain of pools.  Callers *)
(* walk the chain hand over hand: LinkageLock guards FirstPool, the lock   *)
(* of a pool guards the pool and its Next.  A walk that may remove a pool  *)
(* also keeps the lock before it.  Pools come from the kernel heap, and an *)
(* address that was released may come back at once.                        *)
(*                                                                         *)
(* Objects of a pool are alike: a pool has a capacity and a count of free  *)
(* objects.  Nobody uses a busy bit or calls Dispose.  The locks are       *)
(* ticket locks; the totals are atomic variables outside of all locks.     *)
(***************************************************************************)
EXTENDS Integers, FiniteSets

LOCAL INSTANCE Folds

CONSTANTS Cores, Pool,
          Nil,         \* nullptr
          Options,     \* the values ReleaseOptions may have
          Quota,
          MaxCapacity  \* bound of the model: pools are not enlarged beyond

Link == "LinkageLock"

ASSUME ObjectAllocatorAssumption ==
    /\ IsFiniteSet(Cores)
    /\ Nil \notin Cores \cup Pool \cup {Link} /\ Link \notin Pool
    /\ Options \subseteq {"ReleaseAll", "KeepOne", "NoRelease"}
    /\ Quota \in Nat /\ MaxCapacity \in Nat \ {0}

VARIABLES ReleaseOptions,
          FirstPool,
          live,        \* the pools that are acquired from the heap
          Next_,       \* Next of each pool
          cap, free,   \* Capacity and FreeCount of each pool
          held,        \* held[p]: objects of p that callers have
          lock,        \* holder of each lock
          PoolCount, Capacity, FreeCount, BusyCount,
          pc,
          cur, prev,   \* current and previous of a walk
          nxt,         \* the pool after current that a walk has read
          obj          \* the pool of the object that is to be deallocated

pools == <<live, Next_, cap, free>>
totals == <<PoolCount, Capacity, FreeCount, BusyCount>>
walk == <<cur, prev, nxt, obj>>
vars == <<ReleaseOptions, FirstPool, pools, held, lock, totals, pc, walk>>

Init ==
    /\ ReleaseOptions \in Options
    /\ FirstPool = Nil
    /\ live = {}
    /\ Next_ = [p \in Pool |-> Nil]
    /\ cap = [p \in Pool |-> 0] /\ free = [p \in Pool |-> 0]
    /\ held = [p \in Pool |-> 0]
    /\ lock = [l \in Pool \cup {Link} |-> Nil]
    /\ PoolCount = 0 /\ Capacity = 0 /\ FreeCount = 0 /\ BusyCount = 0
    /\ pc = [c \in Cores |-> "idle"]
    /\ cur = [c \in Cores |-> Nil] /\ prev = [c \in Cores |-> Nil]
    /\ nxt = [c \in Cores |-> Nil] /\ obj = [c \in Cores |-> Nil]

Goto(c, label) == pc' = [pc EXCEPT ![c] = label]

EndWalk(c) ==
    /\ cur' = [cur EXCEPT ![c] = Nil] /\ prev' = [prev EXCEPT ![c] = Nil]
    /\ nxt' = [nxt EXCEPT ![c] = Nil] /\ obj' = [obj EXCEPT ![c] = Nil]

(* lock with the locks of set ls released. *)
Release(ls) == [l \in Pool \cup {Link} |-> IF l \in ls THEN Nil ELSE lock[l]]

(* AcquirePoolInKernelHeap, with the totals: the pool has one object, and  *)
(* n of it free when the caller takes its own at once.                     *)
AcquirePool(p, n) ==
    /\ p \in Pool \ live
    /\ live' = live \cup {p}
    /\ cap' = [cap EXCEPT ![p] = 1]
    /\ free' = [free EXCEPT ![p] = n]
    /\ PoolCount' = PoolCount + 1
    /\ Capacity' = Capacity + 1
    /\ FreeCount' = FreeCount + n

----------------------------------------------------------------------------
(* AllocateObject: the quota comes first, outside of all locks. *)
AllocateObject(c) ==
    /\ pc[c] = "idle"
    /\ BusyCount' = BusyCount + 1
    /\ Goto(c, IF BusyCount >= Quota THEN "giveUp" ELSE "allocLink")
    /\ UNCHANGED <<ReleaseOptions, FirstPool, pools, held, lock, PoolCount,
                   Capacity, FreeCount, walk>>

(* No object after all: BusyCount is decremented again. *)
GiveUp(c) ==
    /\ pc[c] = "giveUp"
    /\ BusyCount' = BusyCount - 1
    /\ Goto(c, "idle")
    /\ UNCHANGED <<ReleaseOptions, FirstPool, pools, held, lock, PoolCount,
                   Capacity, FreeCount, walk>>

TakeLinkageLock(c) ==
    /\ pc[c] \in {"allocLink", "freeLink", "expandLink"} /\ lock[Link] = Nil
    /\ lock' = [lock EXCEPT ![Link] = c]
    /\ Goto(c, IF pc[c] = "allocLink" THEN "allocFirst"
               ELSE IF pc[c] = "freeLink" THEN "freeFirst" ELSE "expand")
    /\ UNCHANGED <<ReleaseOptions, FirstPool, pools, held, totals, walk>>

(* With LinkageLock held: make a first pool if there is none.  When that   *)
(* fails, BusyCount stays as it is.                                        *)
FirstPoolAcquired(c) ==
    /\ pc[c] = "allocFirst" /\ FirstPool = Nil
    /\ \E p \in Pool :
        /\ AcquirePool(p, 1)
        /\ Next_' = [Next_ EXCEPT ![p] = Nil]
        /\ lock' = [lock EXCEPT ![p] = Nil]
        /\ FirstPool' = p
    /\ UNCHANGED <<ReleaseOptions, held, BusyCount, pc, walk>>

FirstPoolFailed(c) ==
    /\ pc[c] = "allocFirst" /\ FirstPool = Nil
    /\ lock' = Release({Link})
    /\ Goto(c, "idle")
    /\ UNCHANGED <<ReleaseOptions, FirstPool, pools, held, totals, walk>>

LockFirstPool(c) ==
    /\ pc[c] = "allocFirst" /\ FirstPool # Nil /\ lock[FirstPool] = Nil
    /\ lock' = [Release({Link}) EXCEPT ![FirstPool] = c]
    /\ cur' = [cur EXCEPT ![c] = FirstPool]
    /\ Goto(c, "allocWalk")
    /\ UNCHANGED <<ReleaseOptions, FirstPool, pools, held, totals, prev, nxt, obj>>

\* Mutant of ReadNext: the current pool is released before the next is locked.
ReadNextReleased(c) ==
    /\ pc[c] = "allocWalk" /\ free[cur[c]] = 0
    /\ nxt' = [nxt EXCEPT ![c] = Next_[cur[c]]]
    /\ IF Next_[cur[c]] = Nil
       THEN Goto(c, "grow") /\ UNCHANGED lock
       ELSE Goto(c, "allocHop") /\ lock' = Release({cur[c]})
    /\ UNCHANGED <<ReleaseOptions, FirstPool, pools, held, totals, cur, prev, obj>>

(* A full pool: on to the next, or to a new one. *)
ReadNext(c) ==
    /\ pc[c] = "allocWalk" /\ free[cur[c]] = 0
    /\ nxt' = [nxt EXCEPT ![c] = Next_[cur[c]]]
    /\ Goto(c, IF Next_[cur[c]] = Nil THEN "grow" ELSE "allocHop")
    /\ UNCHANGED <<ReleaseOptions, FirstPool, pools, held, lock, totals, cur, prev, obj>>

LockNext(c) ==
    /\ pc[c] = "allocHop" /\ lock[nxt[c]] = Nil
    /\ lock' = [Release({cur[c]}) EXCEPT ![nxt[c]] = c]
    /\ cur' = [cur EXCEPT ![c] = nxt[c]]
    /\ nxt' = [nxt EXCEPT ![c] = Nil]
    /\ Goto(c, "allocWalk")
    /\ UNCHANGED <<ReleaseOptions, FirstPool, pools, held, totals, prev, obj>>

(* An object is taken; the pool may be enlarged when it was the last one.  *)
(* The total is decremented after the pool was unlocked.                   *)
TakeObject(c) ==
    LET p == cur[c] IN
    /\ pc[c] = "allocWalk" /\ free[p] > 0
    /\ \E more \in {0, 1} :
        /\ more = 1 => free[p] = 1 /\ cap[p] < MaxCapacity
        /\ free' = [free EXCEPT ![p] = @ - 1 + more]
        /\ cap' = [cap EXCEPT ![p] = @ + more]
        /\ Capacity' = Capacity + more
        /\ FreeCount' = FreeCount + more
    /\ held' = [held EXCEPT ![p] = @ + 1]
    /\ lock' = Release({p})
    /\ EndWalk(c)
    /\ Goto(c, "took")
    /\ UNCHANGED <<ReleaseOptions, FirstPool, live, Next_, PoolCount, BusyCount>>

Took(c) ==
    /\ pc[c] = "took"
    /\ FreeCount' = FreeCount - 1
    /\ Goto(c, "idle")
    /\ UNCHANGED <<ReleaseOptions, FirstPool, pools, held, lock, PoolCount,
                   Capacity, BusyCount, walk>>

(* Every pool is full: a new one goes behind the last, which is locked. *)
Grow(c) ==
    /\ pc[c] = "grow"
    /\ \E p \in Pool :
        /\ AcquirePool(p, 0)
        /\ Next_' = [Next_ EXCEPT ![p] = Next_[cur[c]], ![cur[c]] = p]
        /\ lock' = Release({cur[c], p})
        /\ held' = [held EXCEPT ![p] = @ + 1]
    /\ EndWalk(c)
    /\ Goto(c, "idle")
    /\ UNCHANGED <<ReleaseOptions, FirstPool, BusyCount>>

GrowFailed(c) ==
    /\ pc[c] = "grow"
    /\ lock' = Release({cur[c]})
    /\ EndWalk(c)
    /\ Goto(c, "giveUp")
    /\ UNCHANGED <<ReleaseOptions, FirstPool, pools, held, totals>>

----------------------------------------------------------------------------
canReleaseAny == ReleaseOptions # "NoRelease"

(* What a walk holds besides the current pool, so that it can be removed. *)
Before(c) == IF ~canReleaseAny THEN {}
             ELSE IF prev[c] = Nil THEN {Link} ELSE {prev[c]}

(* DeallocateObject, of an object that some caller has. *)
DeallocateObject(c) ==
    /\ pc[c] = "idle"
    /\ \E p \in Pool :
        /\ held[p] > 0
        /\ held' = [held EXCEPT ![p] = @ - 1]
        /\ obj' = [obj EXCEPT ![c] = p]
    /\ Goto(c, "freeLink")
    /\ UNCHANGED <<ReleaseOptions, FirstPool, pools, lock, totals, cur, prev, nxt>>

FreeLockFirst(c) ==
    /\ pc[c] = "freeFirst" /\ FirstPool # Nil /\ lock[FirstPool] = Nil
    /\ lock' = [Release(IF canReleaseAny THEN {} ELSE {Link}) EXCEPT ![FirstPool] = c]
    /\ cur' = [cur EXCEPT ![c] = FirstPool]
    /\ Goto(c, "freeWalk")
    /\ UNCHANGED <<ReleaseOptions, FirstPool, pools, held, totals, prev, nxt, obj>>

(* Not in this pool: what is before it is let go, and the next is read. *)
FreeReadNext(c) ==
    /\ pc[c] = "freeWalk" /\ obj[c] # cur[c]
    /\ nxt' = [nxt EXCEPT ![c] = Next_[cur[c]]]
    /\ lock' = Release(Before(c))
    /\ Goto(c, "freeHop")
    /\ UNCHANGED <<ReleaseOptions, FirstPool, pools, held, totals, cur, prev, obj>>

FreeLockNext(c) ==
    /\ pc[c] = "freeHop" /\ nxt[c] # Nil /\ lock[nxt[c]] = Nil
    /\ lock' = [Release(IF canReleaseAny THEN {} ELSE {cur[c]}) EXCEPT ![nxt[c]] = c]
    /\ prev' = [prev EXCEPT ![c] = cur[c]]
    /\ cur' = [cur EXCEPT ![c] = nxt[c]]
    /\ nxt' = [nxt EXCEPT ![c] = Nil]
    /\ Goto(c, "freeWalk")
    /\ UNCHANGED <<ReleaseOptions, FirstPool, pools, held, totals, obj>>

Removable(p) ==
    /\ cap[p] - free[p] = 1
    /\ ReleaseOptions = "ReleaseAll" \/ (PoolCount > 1 /\ ReleaseOptions = "KeepOne")

(* The object goes back to its pool. *)
PutObject(c) ==
    LET p == cur[c] IN
    /\ pc[c] = "freeWalk" /\ obj[c] = p /\ ~Removable(p)
    /\ BusyCount' = BusyCount - 1
    /\ free' = [free EXCEPT ![p] = @ + 1]
    /\ lock' = Release(Before(c) \cup {p})
    /\ EndWalk(c)
    /\ Goto(c, "put")
    /\ UNCHANGED <<ReleaseOptions, FirstPool, live, Next_, cap, held, PoolCount,
                   Capacity, FreeCount>>

Put(c) ==
    /\ pc[c] = "put"
    /\ FreeCount' = FreeCount + 1
    /\ Goto(c, "idle")
    /\ UNCHANGED <<ReleaseOptions, FirstPool, pools, held, lock, PoolCount,
                   Capacity, BusyCount, walk>>

(* It was the last object in use, and the pool goes back to the heap; its  *)
(* successor was read before.  (The totals of capacity and free objects    *)
(* follow with PoolCount in the code; nothing reads them.)                 *)
ReleasePool(c) ==
    LET p == cur[c] IN
    /\ pc[c] = "freeWalk" /\ obj[c] = p /\ Removable(p)
    /\ BusyCount' = BusyCount - 1
    /\ live' = live \ {p}
    /\ nxt' = [nxt EXCEPT ![c] = Next_[p]]
    /\ Next_' = [Next_ EXCEPT ![p] = Nil]
    /\ cap' = [cap EXCEPT ![p] = 0] /\ free' = [free EXCEPT ![p] = 0]
    /\ Capacity' = Capacity - cap[p] /\ FreeCount' = FreeCount - free[p]
    /\ lock' = Release({p})
    /\ Goto(c, "unlink")
    /\ UNCHANGED <<ReleaseOptions, FirstPool, held, PoolCount, cur, prev, obj>>

\* Mutant of Unlink: a first pool is not unplugged.
UnlinkInner(c) ==
    /\ pc[c] = "unlink"
    /\ IF prev[c] = Nil THEN UNCHANGED Next_
       ELSE Next_' = [Next_ EXCEPT ![prev[c]] = nxt[c]]
    /\ lock' = Release(Before(c))
    /\ EndWalk(c)
    /\ Goto(c, "gone")
    /\ UNCHANGED <<ReleaseOptions, FirstPool, live, cap, free, held, totals>>

(* The pool is unplugged, and what is before it unlocked. *)
Unlink(c) ==
    /\ pc[c] = "unlink"
    /\ IF prev[c] = Nil THEN FirstPool' = nxt[c] /\ UNCHANGED Next_
       ELSE Next_' = [Next_ EXCEPT ![prev[c]] = nxt[c]] /\ UNCHANGED FirstPool
    /\ lock' = Release(Before(c))
    /\ EndWalk(c)
    /\ Goto(c, "gone")
    /\ UNCHANGED <<ReleaseOptions, live, cap, free, held, totals>>

\* Mutant of Gone: the count of pools is forgotten.
GoneUncounted(c) ==
    /\ pc[c] = "gone"
    /\ Goto(c, "idle")
    /\ UNCHANGED <<ReleaseOptions, FirstPool, pools, held, lock, totals, walk>>

(* PoolCount follows, with no lock held. *)
Gone(c) ==
    /\ pc[c] = "gone"
    /\ PoolCount' = PoolCount - 1
    /\ Goto(c, "idle")
    /\ UNCHANGED <<ReleaseOptions, FirstPool, pools, held, lock, Capacity, FreeCount,
                   BusyCount, walk>>

----------------------------------------------------------------------------
(* ForceExpand: a new pool becomes the first, under LinkageLock only. *)
ForceExpand(c) ==
    /\ pc[c] = "idle" /\ BusyCount < Quota
    /\ Goto(c, "expandLink")
    /\ UNCHANGED <<ReleaseOptions, FirstPool, pools, held, lock, totals, walk>>

Expand(c) ==
    /\ pc[c] = "expand"
    /\ \E p \in Pool :
        /\ AcquirePool(p, 1)
        /\ Next_' = [Next_ EXCEPT ![p] = FirstPool]
        /\ lock' = Release({Link, p})
        /\ FirstPool' = p
    /\ Goto(c, "idle")
    /\ UNCHANGED <<ReleaseOptions, held, BusyCount, walk>>


ExpandFailed(c) ==
    /\ pc[c] = "expand"
    /\ lock' = Release({Link})
    /\ Goto(c, "idle")
    /\ UNCHANGED <<ReleaseOptions, FirstPool, pools, held, totals, walk>>

Call(c) == AllocateObject(c) \/ DeallocateObject(c) \/ ForceExpand(c)

Locking(c) ==
    \/ TakeLinkageLock(c) \/ LockFirstPool(c) \/ LockNext(c)
    \/ FreeLockFirst(c) \/ FreeLockNext(c)

Working(c) ==
    \/ GiveUp(c) \/ FirstPoolAcquired(c) \/ FirstPoolFailed(c) \/ ReadNext(c)
    \/ TakeObject(c) \/ Took(c) \/ Grow(c) \/ GrowFailed(c)
    \/ FreeReadNext(c) \/ PutObject(c) \/ Put(c)
    \/ ReleasePool(c) \/ Unlink(c) \/ Gone(c)
    \/ Expand(c) \/ ExpandFailed(c)

Next == \E c \in Cores : Call(c) \/ Locking(c) \/ Working(c)

Spec == Init /\ [][Next]_vars

(* A core goes on, as interrupts are off; a ticket lock is granted in turn *)
(* and so cannot be missed for ever.                                       *)
Fairness == \A c \in Cores : WF_vars(Working(c)) /\ SF_vars(Locking(c))

FairSpec == Spec /\ Fairness

----------------------------------------------------------------------------
(* Objects that callers have, and pools that a walk has locked or is about *)
(* to lock, lie in pools that were not released: who waits for a pool      *)
(* holds the lock before it, and who releases one has to have that lock.   *)
NoReleasedPoolUsed ==
    /\ \A p \in Pool : held[p] > 0 => p \in live
    /\ \A c \in Cores : pc[c] # "unlink" =>
        {cur[c], nxt[c], obj[c]} \ {Nil} \subseteq live

Unlinking == {c \in Cores : pc[c] = "unlink"}

(* The pools in the chain from FirstPool, and in what is left of it behind *)
(* a pool that is being unplugged.                                         *)
Reached ==
    LET Step[n \in 0 .. Cardinality(Pool)] ==
            IF n = 0 THEN ({FirstPool} \cup {nxt[c] : c \in Unlinking}) \ {Nil}
            ELSE Step[n - 1] \cup ({Next_[p] : p \in Step[n - 1]} \ {Nil})
    IN  Step[Cardinality(Pool)]

(* No pool is lost from the chain, and it leads to a released one only     *)
(* until the core that released it has unplugged it; not even when the     *)
(* heap gives out the address again in between.                            *)
ChainWhole ==
    /\ live \subseteq Reached
    /\ Reached \subseteq live \cup {cur[c] : c \in Unlinking}

Idle == \A c \in Cores : pc[c] = "idle"

Total(f) == MapThenFoldSet(+, 0, LAMBDA p : f[p], LAMBDA S : CHOOSE p \in S : TRUE, live)

(* When no call is going on the totals are those of the pools, and no more *)
(* objects are out than BusyCount tells: updates of the totals outside of  *)
(* the locks are never lost or made twice.                                 *)
TotalsAtRest ==
    Idle => /\ PoolCount = Cardinality(live)
            /\ Capacity = Total(cap)
            /\ FreeCount = Total(free)
            /\ Capacity - FreeCount <= BusyCount

(* The pools are all in the chain and, at rest, in the totals.             *)
PoolsKept == ChainWhole /\ TotalsAtRest


=============================================================================
