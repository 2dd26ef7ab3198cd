------------------------------- MODULE IdPool -------------------------------
(***************************************************************************)
(* The pool of thread (and process) identifiers, IdPool of                 *)
(* sysheaders/common/beel/utils/id.pool.hpp, as SpawnThread and            *)
(* SpawnProcess of beelzebub/src/execution.cpp use it.  An entry is one    *)
(* word: a busy bit and a value.  The free identifiers form a list: the    *)
(* value of a free entry is the next one.  A busy entry holds a pointer to *)
(* the object, or all ones before there is one.                            *)
(*                                                                         *)
(* The list is changed under Lock, which also disables interrupts, in one  *)
(* step; entries that are not in the list are changed by compare-and-swap  *)
(* without the lock.  The object with identifier i is called i.            *)
(***************************************************************************)
EXTENDS Naturals, Sequences

CONSTANTS Capacity,  \* MAX_THREADS
          Actors     \* who spawns: threads, on any core

ASSUME IdPoolAssumption == Capacity \in Nat /\ Capacity >= 3

Ids == 0 .. Capacity - 1

\* The value of all ones, which no identifier or pointer has.
Ones == Capacity
NoNext == [busy |-> FALSE, value |-> Ones]
Unallocated == [busy |-> TRUE, value |-> Ones]
Link(i) == [busy |-> FALSE, value |-> i]
Pointer(i) == [busy |-> TRUE, value |-> i]

\* InitializeExecutionData discards the first identifier and gives the second
\* one to the bootstrap thread.
Reserved == 0
Bootstrap == 1

VARIABLES first,    \* Head, an identifier or Ones
          last,     \* Tail, likewise
          Entries,
          step,     \* where each actor is in SpawnThread
          id,       \* its identifier
          old,      \* what Release loaded
          free      \* the identifiers in the list, in order; not in the program

poolVars == <<first, last, Entries, step, id, old, free>>

\* After InitializeExecutionData.
PoolInit ==
    /\ first = 2
    /\ last = Capacity - 1
    /\ Entries = [i \in Ids |-> IF i \in {Reserved, Bootstrap} THEN Pointer(Bootstrap)
                                ELSE IF i = Capacity - 1 THEN NoNext ELSE Link(i + 1)]
    /\ step = [a \in Actors |-> "idle"]
    /\ id = [a \in Actors |-> Ones]
    /\ old = [a \in Actors |-> NoNext]
    /\ free = [k \in 1 .. Capacity - 2 |-> k + 1]

Resolve(i) == IF Entries[i].busy /\ Entries[i] # Unallocated
              THEN Entries[i].value ELSE Ones

GoTo(a, from, to) ==
    /\ step[a] = from
    /\ step' = [step EXCEPT ![a] = to]

-----------------------------------------------------------------------------

\* Variant: the tail is kept when the last free identifier is taken.
AcquireKeepsTail(a) ==
    /\ first # Ones
    /\ GoTo(a, "idle", "acquired")
    /\ id' = [id EXCEPT ![a] = first]
    /\ first' = Entries[first].value
    /\ UNCHANGED last
    /\ Entries' = [Entries EXCEPT ![first] = Unallocated]
    /\ free' = Tail(free)
    /\ UNCHANGED old

\* Acquire.  With no free identifier SpawnThread returns and nothing changes.
Acquire(a) ==
    /\ first # Ones
    /\ GoTo(a, "idle", "acquired")
    /\ id' = [id EXCEPT ![a] = first]
    /\ first' = Entries[first].value
    /\ last' = IF Entries[first] = NoNext THEN Ones ELSE last
    /\ Entries' = [Entries EXCEPT ![first] = Unallocated]
    /\ free' = Tail(free)
    /\ UNCHANGED old

\* malloc and, if it succeeds, the constructor.
Construct(a) ==
    /\ \/ GoTo(a, "acquired", "constructed")
       \/ GoTo(a, "acquired", "failed")
    /\ UNCHANGED <<first, last, Entries, id, old, free>>

\* SetPointer.  SpawnThread asserts that it succeeds.
SetPointer(a) ==
    /\ GoTo(a, "constructed", "spawned")
    /\ Entries[id[a]] = Unallocated
    /\ Entries' = [Entries EXCEPT ![id[a]] = Pointer(id[a])]
    /\ UNCHANGED <<first, last, id, old, free>>

\* Release loads the entry, which is busy,
ReleaseLoad(a) ==
    /\ GoTo(a, "failed", "loaded")
    /\ Entries[id[a]].busy
    /\ old' = [old EXCEPT ![a] = Entries[id[a]]]
    /\ UNCHANGED <<first, last, Entries, id, free>>

\* ends the list at it, if it has not changed,
ReleaseUnlink(a) ==
    /\ GoTo(a, "loaded", "unlinked")
    /\ Entries[id[a]] = old[a]
    /\ Entries' = [Entries EXCEPT ![id[a]] = NoNext]
    /\ UNCHANGED <<first, last, id, old, free>>

\* and appends it to the list, under the lock.  The actor lets go of it.
ReleaseLink(a) ==
    /\ GoTo(a, "unlinked", "idle")
    /\ first' = IF last = Ones THEN id[a] ELSE first
    /\ last' = id[a]
    /\ Entries' = IF last = Ones THEN Entries
                  ELSE [Entries EXCEPT ![last] = Link(id[a])]
    /\ id' = [id EXCEPT ![a] = Ones]
    /\ old' = [old EXCEPT ![a] = NoNext]
    /\ free' = Append(free, id[a])

\* The caller has done with the new thread what it wanted.
SpawnReturn(a) ==
    /\ GoTo(a, "spawned", "idle")
    /\ id' = [id EXCEPT ![a] = Ones]
    /\ UNCHANGED <<first, last, Entries, old, free>>

Spawning(a) ==
    \/ Acquire(a) \/ Construct(a) \/ SetPointer(a)
    \/ ReleaseLoad(a) \/ ReleaseUnlink(a) \/ ReleaseLink(a)

PoolNext == \E a \in Actors : Spawning(a) \/ SpawnReturn(a)

PoolSpec == PoolInit /\ [][PoolNext]_poolVars

-----------------------------------------------------------------------------

Steps == {"idle", "acquired", "constructed", "failed", "loaded", "unlinked", "spawned"}

PoolTypeOK ==
    /\ first \in Ids \cup {Ones} /\ last \in Ids \cup {Ones}
    /\ Entries \in [Ids -> [busy : BOOLEAN, value : Ids \cup {Ones}]]
    /\ step \in [Actors -> Steps]
    /\ id \in [Actors -> Ids \cup {Ones}]
    /\ old \in [Actors -> [busy : BOOLEAN, value : Ids \cup {Ones}]]
    /\ free \in Seq(Ids)

\* What the entry of an identifier is while an actor holds it.
Held(a) ==
    /\ step[a] \in {"acquired", "constructed", "failed", "loaded"}
          => Entries[id[a]] = Unallocated
    /\ step[a] = "loaded" => old[a] = Unallocated
    /\ step[a] = "unlinked" => Entries[id[a]] = NoNext
    /\ step[a] = "spawned" => Entries[id[a]] = Pointer(id[a])

InList(i) == \E k \in DOMAIN free : free[k] = i

\* The identifiers in the list are all different and linked in order, Head and Tail
\* are its ends.
ListLinked ==
    /\ IF free = <<>> THEN first = Ones /\ last = Ones
       ELSE /\ first = free[1] /\ last = free[Len(free)]
            /\ Entries[last] = NoNext
    /\ \A k \in 1 .. Len(free) - 1 : Entries[free[k]] = Link(free[k + 1])
    /\ \A k, l \in DOMAIN free : free[k] = free[l] => k = l

\* An identifier that an actor holds is its own.
HeldAlone ==
    \A a \in Actors : step[a] # "idle" =>
        /\ id[a] \in Ids /\ ~InList(id[a]) /\ Held(a)
        /\ \A b \in Actors : step[b] # "idle" /\ id[b] = id[a] => b = a

NoneLost ==
    \A i \in Ids : \/ InList(i)
                   \/ \E a \in Actors : step[a] # "idle" /\ id[a] = i
                   \/ Resolve(i) \in {i, Bootstrap}

\* The free list is whole: every identifier is in it exactly once, or held by
\* exactly one actor, or names an object; Head and Tail are its ends even while an
\* identifier that was taken out of use is not yet appended (id.pool.hpp, Acquire
\* and Release), and the assertions of SpawnThread on Resolve, SetPointer and
\* Release hold.
IdsKept == ListLinked /\ HeldAlone /\ NoneLost

=============================================================================
