------------------------------- MODULE Valloc -------------------------------
(***************************************************************************)
(* The dynamic memory allocator, libs/valloc/src/valloc.cpp: arenas of     *)
(* chunks.  An arena belongs to one core, which alone allocates in it; a   *)
(* chunk that another core frees is queued on the arena's FreeList, for    *)
(* the owner to collect.  A full arena is retired to a global list, and    *)
(* the next core that frees one of its chunks adopts it.  An arena that is *)
(* empty goes back to the system.                                          *)
(*                                                                         *)
(* What only the owner of an arena reads or writes between two accesses to *)
(* shared words is one step, and so is a loop around a compare-and-swap    *)
(* that pushes: of the other cores' steps it can only see that the top     *)
(* changed.  All chunks count as one unit of space, and whether a piece of *)
(* free space is large enough for what is asked is left open.  Cores are   *)
(* not pre-empted in here.                                                 *)
(***************************************************************************)
EXTENDS Integers, Sequences, FiniteSets

LOCAL INSTANCE SequencesExt
LOCAL INSTANCE FiniteSetsExt

CONSTANTS Cores,      \* whose ThreadData TD is
          Arenas,     \* addresses arenas may have
          Slots,      \* bound: chunks that fill a new arena
          Extendable, \* arenas that may have unused memory behind them
          Extended    \* bound: chunks that fill an arena that was extended

Null == "null"

ASSUME VallocAssumption ==
    /\ Null \notin Cores \cup Arenas
    /\ Extendable \subseteq Arenas
    /\ Slots \in Nat /\ Extended \in Nat
    /\ 1 < Slots /\ Slots < Extended

VARIABLES Size,        \* Size[a]: 0 when there is no arena at address a
          Owner,       \* Owner[a]: a core, or Null
          links,       \* Next and Prev of arenas, FirstArena of cores, and GList
          chunks,      \* chunks[a][k]: the flag of a chunk; "none" if there is none
          FreeList,    \* FreeList[a]: the queued chunks, as a stack
          pc,          \* of each core
          arena, chunk,\* its local variables
          garbage,     \* what CollectGarbage took from FreeList
          closing      \* nothing more is going to be asked for

heap == <<Size, Owner, chunks, FreeList>>
locals == <<pc, arena, chunk, garbage>>
vars == <<heap, links, locals, closing>>

Chunk == 1 .. Extended

Init ==
    /\ Size = [a \in Arenas |-> 0]
    /\ Owner = [a \in Arenas |-> Null]
    /\ links = [Next |-> [a \in Arenas |-> Null], Prev |-> [a \in Arenas |-> Null],
                FirstArena |-> [c \in Cores |-> Null], GList |-> Null]
    /\ chunks = [a \in Arenas |-> [k \in Chunk |-> "none"]]
    /\ FreeList = [a \in Arenas |-> <<>>]
    /\ pc = [c \in Cores |-> "idle"]
    /\ arena = [c \in Cores |-> Null]
    /\ chunk = [c \in Cores |-> 0]
    /\ garbage = [c \in Cores |-> <<>>]
    /\ closing = FALSE

-----------------------------------------------------------------------------
(* The lists of arenas; l is `links'.                                      *)

UnlinkArena(l, a) ==
    LET p == l.Prev[a]
        n == l.Next[a]
    IN  [l EXCEPT !.Next = IF p = Null THEN @ ELSE [@ EXCEPT ![p] = n],
                  !.Prev = IF n = Null THEN @ ELSE [@ EXCEPT ![n] = p]]

AddToMine(l, c, a) ==
    LET f == l.FirstArena[c]
    IN  [l EXCEPT !.Next[a] = f, !.FirstArena[c] = a,
                  !.Prev = IF f = Null THEN @ ELSE [@ EXCEPT ![f] = a]]


RemoveFromMine(l, c, a) ==
    LET n == l.Next[a]
    IN  IF l.FirstArena[c] = a
        THEN [l EXCEPT !.FirstArena[c] = n,
                       !.Prev = IF n = Null THEN @ ELSE [@ EXCEPT ![n] = Null]]
        ELSE UnlinkArena(l, a)

\* The part of RetireArena under GLock.
AddToGlobal(l, a) ==
    [l EXCEPT !.Next[a] = l.GList, !.GList = a,
              !.Prev = IF l.GList = Null THEN @ ELSE [@ EXCEPT ![l.GList] = a]]

\* PromoteArena.
RemoveFromGlobal(l, a) ==
    LET n == l.Next[a]
    IN  IF l.GList = a
        THEN [l EXCEPT !.GList = n,
                       !.Prev = IF n = Null THEN @ ELSE [@ EXCEPT ![n] = Null]]
        ELSE UnlinkArena(l, a)

-----------------------------------------------------------------------------
(* The chunks of an arena; cs is chunks[a].                                *)

Used(cs) == Cardinality({k \in Chunk : cs[k] # "none"})

Unused(cs) == CHOOSE k \in Chunk : cs[k] = "none" /\ \A j \in 1 .. k - 1 : cs[j] # "none"

\* AllocateMemory, when it found room: a new busy chunk.  It is "held" for as long as
\* AllocateMemory has not returned it.
Place(cs, flag) == [cs EXCEPT ![Unused(cs)] = flag]

\* FreeThisChunk, for all chunks of a list.
FreeThese(cs, list) == [k \in Chunk |-> IF Contains(list, k) THEN "none" ELSE cs[k]]

\* Arena::IsEmpty.
IsEmpty(cs) == Used(cs) = 0

\* Where CollectGarbage may stop: after a chunk that makes, with the free chunks around
\* it, enough space, or at the end.
Stops(list) ==
    {r \in [n : 1 .. Len(list), reached : BOOLEAN] : r.reached \/ r.n = Len(list)}

Goto(c, from, to) ==
    /\ pc[c] = from
    /\ pc' = [pc EXCEPT ![c] = to]

Return(c) ==
    /\ arena' = [arena EXCEPT ![c] = Null]
    /\ chunk' = [chunk EXCEPT ![c] = 0]

\* FreeList.Swap(nullptr), when there is something in it.
TakeGarbage(c) ==
    LET a == arena[c]
    IN  /\ FreeList[a] # <<>>
        /\ garbage' = [garbage EXCEPT ![c] = FreeList[a]]
        /\ FreeList' = [FreeList EXCEPT ![a] = <<>>]

\* Variant: what was queued meanwhile is overwritten.
PutBackOverwrites(c, n) ==
    LET a == arena[c]
    IN  /\ FreeList' = [FreeList EXCEPT ![a] = SubSeq(garbage[c], n + 1, Len(garbage[c]))]
        /\ garbage' = [garbage EXCEPT ![c] = <<>>]

\* The rest of the garbage goes back on top of what was queued meanwhile.
PutBack(c, n) ==
    LET a == arena[c]
    IN  /\ FreeList' = [FreeList EXCEPT ![a] = SubSeq(garbage[c], n + 1, Len(garbage[c])) \o @]
        /\ garbage' = [garbage EXCEPT ![c] = <<>>]

-----------------------------------------------------------------------------
(* AllocateMemory.                                                         *)

AllocateMemory(c) ==
    /\ ~closing
    /\ Goto(c, "idle", IF links.FirstArena[c] = Null THEN "new" ELSE "try")
    /\ arena' = [arena EXCEPT ![c] = links.FirstArena[c]]
    /\ UNCHANGED <<heap, links, chunk, garbage, closing>>

\* The chunk is placed.  The arena may be full now.
Placed(c, from, cs) ==
    LET a == arena[c]
    IN  IF Size[a] - Used(cs) = 1
        THEN /\ Goto(c, from, "full")
             /\ chunks' = [chunks EXCEPT ![a] = Place(cs, "held")]
             /\ chunk' = [chunk EXCEPT ![c] = Unused(cs)]
             /\ UNCHANGED arena
        ELSE /\ Goto(c, from, "idle") /\ Return(c)
             /\ chunks' = [chunks EXCEPT ![a] = Place(cs, "busy")]

TryChunks(c) ==
    /\ pc[c] = "try"
    /\ Size[arena[c]] - Used(chunks[arena[c]]) >= 1
    /\ Placed(c, "try", chunks[arena[c]])
    /\ UNCHANGED <<Size, Owner, FreeList, links, garbage, closing>>

\* no_space: too little is free, or what is free is in pieces that are too small.
NoSpaceTake(c) ==
    /\ Goto(c, "try", "noSpaceCollect")
    /\ TakeGarbage(c)
    /\ UNCHANGED <<Size, Owner, chunks, links, arena, chunk, closing>>

NoSpaceNoGarbage(c) ==
    /\ Goto(c, "try", "extend")
    /\ FreeList[arena[c]] = <<>>
    /\ UNCHANGED <<heap, links, arena, chunk, garbage, closing>>

NoSpaceCollect(c) ==
    LET a == arena[c]
    IN  /\ pc[c] = "noSpaceCollect"
        /\ \E r \in Stops(garbage[c]) :
              LET cs == FreeThese(chunks[a], SubSeq(garbage[c], 1, r.n))
              IN  /\ PutBack(c, r.n)
                  /\ IF r.reached THEN Placed(c, "noSpaceCollect", cs)
                     ELSE /\ chunks' = [chunks EXCEPT ![a] = cs]
                          /\ Goto(c, "noSpaceCollect", "extend")
                          /\ UNCHANGED <<arena, chunk>>
        /\ UNCHANGED <<Size, Owner, links, closing>>

\* ExtendArena, by more than was asked for: an arena of a core has some free space
\* left, so that this one is not full afterwards.
ExtendArena(c) ==
    LET a == arena[c]
    IN  /\ Goto(c, "extend", "idle") /\ Return(c)
        /\ a \in Extendable /\ Size[a] = Slots
        /\ Size' = [Size EXCEPT ![a] = Extended]
        /\ chunks' = [chunks EXCEPT ![a] = Place(@, "busy")]
        /\ UNCHANGED <<Owner, FreeList, links, garbage, closing>>

\* The memory behind the arena is taken.
NextArena(c) ==
    LET n == links.Next[arena[c]]
    IN  /\ pc[c] = "extend"
        /\ Goto(c, "extend", IF n = Null THEN "new" ELSE "try")
        /\ arena' = [arena EXCEPT ![c] = n]
        /\ UNCHANGED <<heap, links, chunk, garbage, closing>>

\* AllocateArena, and the first chunk of the new arena.
AllocateArena(c, a) ==
    /\ pc[c] = "new" /\ Size[a] = 0
    /\ Size' = [Size EXCEPT ![a] = Slots]
    /\ Owner' = [Owner EXCEPT ![a] = c]
    /\ links' = [AddToMine(links, c, a) EXCEPT !.Prev[a] = Null]
    /\ chunks' = [chunks EXCEPT ![a] = Place(@, "busy")]
    /\ FreeList' = [FreeList EXCEPT ![a] = <<>>]
    /\ Goto(c, "new", "idle") /\ Return(c)
    /\ UNCHANGED <<garbage, closing>>

OutOfMemory(c) ==
    /\ Goto(c, "new", "idle") /\ Return(c)
    /\ UNCHANGED <<heap, links, garbage, closing>>

FullTake(c) ==
    /\ Goto(c, "full", "fullCollect")
    /\ TakeGarbage(c)
    /\ UNCHANGED <<Size, Owner, chunks, links, arena, chunk, closing>>

FullCollect(c) ==
    LET a == arena[c]
    IN  /\ Goto(c, "fullCollect", "idle") /\ Return(c)
        /\ \E r \in Stops(garbage[c]) :
              /\ PutBack(c, r.n)
              /\ chunks' = [chunks EXCEPT ![a] =
                    [FreeThese(@, SubSeq(garbage[c], 1, r.n)) EXCEPT ![chunk[c]] = "busy"]]
        /\ UNCHANGED <<Size, Owner, links, closing>>

\* RetireArena, before and under GLock.
RetireArena(c) ==
    LET a == arena[c]
    IN  /\ Goto(c, "full", "retire")
        /\ FreeList[a] = <<>>
        /\ links' = [RemoveFromMine(links, c, a) EXCEPT !.Prev[a] = Null]
        /\ UNCHANGED <<heap, arena, chunk, garbage, closing>>

RetireFinish(c) ==
    LET a == arena[c]
    IN  /\ Goto(c, "retire", "idle") /\ Return(c)
        /\ Owner' = [Owner EXCEPT ![a] = Null]
        /\ links' = AddToGlobal(links, a)
        /\ chunks' = [chunks EXCEPT ![a][chunk[c]] = "busy"]
        /\ UNCHANGED <<Size, FreeList, garbage, closing>>

-----------------------------------------------------------------------------
(* DeallocateMemory.                                                       *)

\* DeallocateArena, by core c; l is `links'.
Deallocated(c, a, l) ==
    /\ Size' = [Size EXCEPT ![a] = 0]
    /\ Owner' = [Owner EXCEPT ![a] = Null]
    /\ links' = [RemoveFromMine(l, c, a) EXCEPT !.Next[a] = Null, !.Prev[a] = Null]

\* free_my_own: core c frees chunk k of its arena a.
FreeMyOwn(c, a, k, l) ==
    LET cs == FreeThese(chunks[a], <<k>>)
    IN  /\ chunks' = [chunks EXCEPT ![a] = cs]
        /\ IF IsEmpty(cs) THEN Deallocated(c, a, l)
           ELSE Size' = Size /\ Owner' = [Owner EXCEPT ![a] = c] /\ links' = l

DeallocateMine(c, a, k) ==
    /\ pc[c] = "idle" /\ Owner[a] = c
    /\ FreeMyOwn(c, a, k, links)
    /\ UNCHANGED <<FreeList, locals, closing>>

\* The arena belongs to another core, or to none, when its owner is read.  A chunk
\* is freed once: "freed" tells chunks whose free has begun from other busy ones.
DeallocateTheirs(c, a, k) ==
    /\ Owner[a] # c
    /\ Goto(c, "idle", IF Owner[a] = Null THEN "lock" ELSE "push")
    /\ chunks' = [chunks EXCEPT ![a][k] = "freed"]
    /\ arena' = [arena EXCEPT ![c] = a]
    /\ chunk' = [chunk EXCEPT ![c] = k]
    /\ UNCHANGED <<Size, Owner, FreeList, links, garbage, closing>>

DeallocateMemory(c, a, k) ==
    /\ chunks[a][k] = "busy"
    /\ DeallocateMine(c, a, k) \/ DeallocateTheirs(c, a, k)

QueueChunk(c) ==
    LET a == arena[c]
    IN  /\ Goto(c, "push", "idle") /\ Return(c)
        /\ chunks' = [chunks EXCEPT ![a][chunk[c]] = "queued"]
        /\ FreeList' = [FreeList EXCEPT ![a] = <<chunk[c]>> \o @]
        /\ UNCHANGED <<Size, Owner, links, garbage, closing>>

\* Under GLock: the arena is promoted, unless another core was faster.  Then it is
\* this core's own, and the chunk is freed in it.
PromoteArena(c) ==
    LET a == arena[c]
        l == AddToMine(RemoveFromGlobal(links, a), c, a)
    IN  /\ Goto(c, "lock", "idle") /\ Return(c)
        /\ Owner[a] = Null
        /\ FreeMyOwn(c, a, chunk[c], [l EXCEPT !.Prev[a] = Null])
        /\ UNCHANGED <<FreeList, garbage, closing>>

PromotedAlready(c) ==
    /\ Goto(c, "lock", "push")
    /\ Owner[arena[c]] # Null
    /\ UNCHANGED <<heap, links, arena, chunk, garbage, closing>>

-----------------------------------------------------------------------------
(* CollectMyGarbage.                                                       *)

CollectMyGarbage(c) ==
    /\ links.FirstArena[c] # Null
    /\ Goto(c, "idle", "mine")
    /\ arena' = [arena EXCEPT ![c] = links.FirstArena[c]]
    /\ UNCHANGED <<heap, links, chunk, garbage, closing>>

MineTake(c) ==
    /\ Goto(c, "mine", "mineCollect")
    /\ TakeGarbage(c)
    /\ UNCHANGED <<Size, Owner, chunks, links, arena, chunk, closing>>

\* Variant: arenas that became empty are kept.
MineCollectKeepsEmpty(c) ==
    LET a == arena[c]
        n == links.Next[a]
    IN  /\ pc[c] = "mineCollect" \/ (pc[c] = "mine" /\ FreeList[a] = <<>>)
        /\ chunks' = [chunks EXCEPT ![a] = FreeThese(@, garbage[c])]
        /\ garbage' = [garbage EXCEPT ![c] = <<>>]
        /\ arena' = [arena EXCEPT ![c] = n]
        /\ pc' = [pc EXCEPT ![c] = IF n = Null THEN "idle" ELSE "mine"]
        /\ UNCHANGED <<Size, Owner, links, FreeList, chunk, closing>>

\* An arena without garbage may be empty as well.
MineCollect(c) ==
    LET a == arena[c]
        cs == FreeThese(chunks[a], garbage[c])
        n == links.Next[a]
    IN  /\ pc[c] = "mineCollect" \/ (pc[c] = "mine" /\ FreeList[a] = <<>>)
        /\ chunks' = [chunks EXCEPT ![a] = cs]
        /\ garbage' = [garbage EXCEPT ![c] = <<>>]
        /\ IF IsEmpty(cs) THEN Deallocated(c, a, links) ELSE UNCHANGED <<Size, Owner, links>>
        /\ arena' = [arena EXCEPT ![c] = n]
        /\ pc' = [pc EXCEPT ![c] = IF n = Null THEN "idle" ELSE "mine"]
        /\ UNCHANGED <<FreeList, chunk, closing>>

-----------------------------------------------------------------------------

\* The callers have had enough.
Close ==
    /\ ~closing
    /\ closing' = TRUE
    /\ UNCHANGED <<heap, links, locals>>

\* What a core does once it was called.
Step(c) ==
    \/ TryChunks(c) \/ NoSpaceTake(c) \/ NoSpaceCollect(c)
    \/ NoSpaceNoGarbage(c) \/ ExtendArena(c) \/ NextArena(c)
    \/ (\E a \in Arenas : AllocateArena(c, a)) \/ OutOfMemory(c)
    \/ FullTake(c) \/ FullCollect(c) \/ RetireArena(c) \/ RetireFinish(c)
    \/ QueueChunk(c) \/ PromoteArena(c) \/ PromotedAlready(c)
    \/ MineTake(c) \/ MineCollect(c)

FreeChunk(a, k) == \E c \in Cores : DeallocateMemory(c, a, k)

NextStep ==
    \/ \E c \in Cores : \/ AllocateMemory(c) \/ CollectMyGarbage(c) \/ Step(c)
    \/ \E a \in Arenas, k \in Chunk : FreeChunk(a, k)
    \/ Close

Spec == Init /\ [][NextStep]_vars

\* A core that was called goes on, every chunk is freed in the end, and garbage is
\* collected again and again, as the tests do.
FairSpec ==
    /\ Spec
    /\ WF_vars(Close)
    /\ \A c \in Cores : WF_vars(Step(c)) /\ SF_vars(CollectMyGarbage(c))
    /\ SF_vars(\E a \in Arenas, k \in Chunk : FreeChunk(a, k))

-----------------------------------------------------------------------------

\* The arenas of the list that starts at a.
Nth(first) ==
    LET nth[k \in 1 .. Cardinality(Arenas)] ==
            IF k = 1 THEN first
            ELSE IF nth[k - 1] = Null THEN Null ELSE links.Next[nth[k - 1]]
    IN  nth

InList(first) == {Nth(first)[k] : k \in 1 .. Cardinality(Arenas)} \ {Null}

\* Core c has taken arena a out of one list and not yet put it into the other.
InTransit(c, a) == pc[c] = "retire" /\ arena[c] = a


\* A queued chunk is in the FreeList of its arena, or in what the owner took from it,
\* once, and nothing else is; and an arena that nobody owns has a chunk whose free
\* will find it another owner, so that what is queued there is not lost: the check
\* for garbage and RetireArena race with the cores that queue.
GarbageKept ==
    \A a \in Arenas :
        LET taken == {c \in Cores : arena[c] = a /\ garbage[c] # <<>>}
            all == FreeList[a] \o FoldSet(LAMBDA c, s : s \o garbage[c], <<>>, taken)
            queued == {k \in Chunk : chunks[a][k] = "queued"}
        IN  /\ Cardinality(taken) <= 1
            /\ Len(all) = Cardinality(queued)
            /\ \A k \in queued : Contains(all, k)
            /\ Size[a] > 0 /\ Owner[a] = Null
                  => \E k \in Chunk :
                        \/ chunks[a][k] = "busy"
                        \/ \E c \in Cores : pc[c] = "lock" /\ arena[c] = a /\ chunk[c] = k

\* Once nothing more is asked for, and everything is freed and collected, all memory
\* goes back to the system, whichever cores freed what and owned which arena.
MemoryReturned == closing ~> \A a \in Arenas : Size[a] = 0

=============================================================================
