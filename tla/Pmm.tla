-------------------------------- MODULE Pmm --------------------------------
(***************************************************************************)
(* The physical memory manager: a chain of FrameAllocationSpaces, each an  *)
(* array of 2 MiB "large" frames that are free, used whole, or split into  *)
(* 4 KiB "small" frames.  A space keeps two lists of large frames, both    *)
(* linked through the descriptors' NextIndex: the stack of free ones,      *)
(* under LargeLocker, and the doubly linked list of split ones that still  *)
(* have a free small frame, under SplitLocker.                             *)
(*                                                                         *)
(* A critical section is one step (both lockers are uninterruptible ticket *)
(* locks, see TicketLockUninterruptible), together with what the core did  *)
(* just before it to a large frame that it alone had taken off the lists.  *)
(* Frame <<l, s>> is small frame s of large frame l, <<l, 0>> is l itself: *)
(* the first small frame of a split frame holds the descriptors and is     *)
(* never handed out.  The links of a frame that leaves a list, and the     *)
(* extras of one that is no longer split, are set to nothing: the code     *)
(* leaves old values there, and writes new ones before it reads any.       *)
(***************************************************************************)
EXTENDS Integers, Sequences, FiniteSets, Functions

CONSTANTS Cores,
          Whole,      \* Whole[sp]: the 2 MiB frames of space sp, in Map order
          Stray,      \* Stray[sp]: the partial frame after them, if there is one
          StrayCount, \* small frames in a partial frame
          SubDescriptorsCount,
          Requests,   \* the <<size, magn, refCnt>> callers ask for
          Low,        \* spaces that end below 4 GiB
          IndexSpan,  \* large frames in 4 GiB: lIndex << 21 is a 32-bit shift
          MaxRef,     \* bound on the reference counts
          MaxOdd,     \* bound on the frames in use with a count other than 1
          MaxHeld     \* bound on the frames handed out and being asked for

NullIndex == 0
NoCall == [op |-> "none"]

\* Space 1 is FirstSpace.
LastSpace == Len(Whole)
Spaces == 1 .. LastSpace
Map(sp) == Whole[sp] \o Stray[sp]
Large == UNION {Range(Map(sp)) : sp \in Spaces}
Strays == UNION {Range(Stray[sp]) : sp \in Spaces}
Small == 1 .. SubDescriptorsCount
Frame == Large \X (0 .. SubDescriptorsCount)
SpaceOf == [l \in Large |-> CHOOSE sp \in Spaces : l \in Range(Map(sp))]

ASSUME PmmAssumption ==
    /\ NullIndex \notin Large
    /\ SubDescriptorsCount > 1 /\ StrayCount \in 1 .. SubDescriptorsCount - 1
    /\ Requests \subseteq {"4KiB", "2MiB"} \X {"Any", "32bit"} \X {0, 1}
    /\ Low \subseteq Spaces /\ IndexSpan > 0 /\ MaxRef > 0

VARIABLES desc,       \* Status and ReferenceCount of every frame
          NextIndex, PrevIndex,      \* links of the large frames
          NextFree, FreeCount,       \* SplitFrameExtra: the stack of free small frames
          LargeFree, SplitFree,      \* heads of the lists of each space
          pc, req,    \* where a core is in a call, and the call
          handed,     \* ghost: how often each frame is handed out at present
          claims      \* ghost: references its holders have to each frame

lists == <<NextIndex, PrevIndex, NextFree, FreeCount, LargeFree, SplitFree>>
vars == <<desc, lists, pc, req, handed, claims>>

FreeDesc == [Status |-> "Free", ReferenceCount |-> 0]
UsedUncounted(refCnt) == [Status |-> "Used", ReferenceCount |-> 0]
Used(refCnt) == [Status |-> "Used", ReferenceCount |-> refCnt]
Status(l) == desc[<<l, 0>>].Status

\* The descriptors of the small frames of a frame split into cnt of them.
SubStatus(s, cnt) == IF s <= cnt THEN "Free" ELSE "Reserved"

\* The constructor chains the whole frames in Map order and splits the stray one.
Successor(l) ==
    LET w == Whole[SpaceOf[l]] IN
    IF \E i \in 1 .. Len(w) - 1 : w[i] = l
    THEN w[(CHOOSE i \in 1 .. Len(w) - 1 : w[i] = l) + 1]
    ELSE NullIndex

Init ==
    /\ desc = [f \in Frame |->
                 IF f[1] \notin Strays THEN FreeDesc
                 ELSE [FreeDesc EXCEPT !.Status =
                         IF f[2] = 0 THEN "Split" ELSE SubStatus(f[2], StrayCount)]]
    /\ NextIndex = [l \in Large |-> Successor(l)]
    /\ PrevIndex = [l \in Large |-> NullIndex]
    /\ NextFree = [l \in Large |-> IF l \in Strays THEN [i \in 1 .. StrayCount |-> i]
                                                   ELSE <<>>]
    /\ FreeCount = [l \in Large |-> IF l \in Strays THEN StrayCount ELSE 0]
    /\ LargeFree = [sp \in Spaces |-> IF Whole[sp] = <<>> THEN NullIndex ELSE Whole[sp][1]]
    /\ SplitFree = [sp \in Spaces |-> IF Stray[sp] = <<>> THEN NullIndex ELSE Stray[sp][1]]
    /\ pc = [c \in Cores |-> "idle"]
    /\ req = [c \in Cores |-> NoCall]
    /\ handed = [f \in Frame |-> 0]
    /\ claims = [f \in Frame |-> 0]

----------------------------------------------------------------------------
(* Allocation.                                                             *)

\* The address AllocationStart + (lIndex << 21) + (sIndex << 12), as the
\* frame it is the address of.
Address(l, s) ==
    LET map == Map(SpaceOf[l])
        lIndex == (CHOOSE i \in DOMAIN map : map[i] = l) - 1
    IN  <<map[(lIndex % IndexSpan) + 1], s>>

\* The space FrameAllocator::AllocateFrame tries after sp, 0 at the end.
Previous(sp, magn) ==
    LET before == {k \in 1 .. sp - 1 : magn = "32bit" => k \in Low} IN
    IF before = {} THEN 0 ELSE CHOOSE k \in before : \A j \in before : j <= k

Finish(c) == pc' = [pc EXCEPT ![c] = "idle"] /\ req' = [req EXCEPT ![c] = NoCall]

Goto(c, label, r) == pc' = [pc EXCEPT ![c] = label] /\ req' = [req EXCEPT ![c] = r]

\* FrameAllocationSpace::AllocateFrame is entered for space sp; without one
\* the call returns nullpaddr.
EnterSpace(c, r, sp) ==
    IF sp = 0 THEN Finish(c)
    ELSE Goto(c, IF r.size = "4KiB" THEN "takeSmall" ELSE "grabLarge",
              [r EXCEPT !.space = sp])

\* Calls that would leave more than MaxOdd frames with a count other than 1
\* are not made.
Odd == {f \in Frame : handed[f] > 0 /\ desc[f].ReferenceCount # 1}
OddCalls == {c \in Cores : \/ req[c].op = "alloc" /\ req[c].refCnt # 1
                           \/ req[c].op = "mingle" /\ req[c].diff > 0}
RoomForOdd == Cardinality(Odd) + Cardinality(OddCalls) < MaxOdd

RoomForHeld == Cardinality({f \in Frame : handed[f] > 0})
               + Cardinality({c \in Cores : req[c].op = "alloc"}) < MaxHeld

HandOut(f, refCnt) ==
    /\ handed' = [handed EXCEPT ![f] = @ + 1]
    /\ claims' = [claims EXCEPT ![f] = refCnt]

AllocateFrame(c, size, magn, refCnt) ==
    /\ pc[c] = "idle"
    /\ RoomForHeld /\ (refCnt = 1 \/ RoomForOdd)
    /\ EnterSpace(c, [op |-> "alloc", size |-> size, magn |-> magn, refCnt |-> refCnt,
                      space |-> 0, large |-> NullIndex], Previous(LastSpace + 1, magn))
    /\ UNCHANGED <<desc, lists, handed, claims>>

\* A frame leaves the head of the split list.
PopSplit(sp, l) ==
    /\ NextIndex' = [NextIndex EXCEPT ![l] = NullIndex]
    /\ SplitFree' = [SplitFree EXCEPT ![sp] = NextIndex[l]]
    /\ PrevIndex' = IF NextIndex[l] = NullIndex THEN PrevIndex
                    ELSE [PrevIndex EXCEPT ![NextIndex[l]] = NullIndex]

\* The first split frame gives its top small frame; with its last one gone it
\* is full and leaves the list.
TakeSmall(c) ==
    LET r == req[c]
        l == SplitFree[r.space]
        s == Head(NextFree[l])
        last == Len(NextFree[l]) = 1
    IN  /\ pc[c] = "takeSmall" /\ l # NullIndex
        /\ desc' = [desc EXCEPT ![<<l, s>>] = Used(r.refCnt),
                                ![<<l, 0>>].Status = IF last THEN "Full" ELSE @]
        /\ NextFree' = [NextFree EXCEPT ![l] = Tail(@)]
        /\ FreeCount' = [FreeCount EXCEPT ![l] = @ - 1]
        /\ IF last THEN PopSplit(r.space, l) ELSE UNCHANGED <<NextIndex, PrevIndex, SplitFree>>
        /\ HandOut(Address(l, s), r.refCnt)
        /\ Finish(c)
        /\ UNCHANGED LargeFree

NoSplitFrame(c) ==
    /\ pc[c] = "takeSmall" /\ SplitFree[req[c].space] = NullIndex
    /\ Goto(c, "grabLarge", req[c])
    /\ UNCHANGED <<desc, lists, handed, claims>>

\* A large frame leaves the free stack, for the caller or to be split.
GrabLarge(c) ==
    LET r == req[c]
        l == LargeFree[r.space]
    IN  /\ pc[c] = "grabLarge" /\ l # NullIndex
        /\ LargeFree' = [LargeFree EXCEPT ![r.space] = NextIndex[l]]
        /\ NextIndex' = [NextIndex EXCEPT ![l] = NullIndex]
        /\ IF r.size = "2MiB"
           THEN /\ desc' = [desc EXCEPT ![<<l, 0>>] = Used(r.refCnt)]
                /\ HandOut(Address(l, 0), r.refCnt)
                /\ Finish(c)
           ELSE /\ Goto(c, "splitFrame", [r EXCEPT !.large = l])
                /\ UNCHANGED <<desc, handed, claims>>
        /\ UNCHANGED <<PrevIndex, NextFree, FreeCount, SplitFree>>

NoLargeFrame(c) ==
    /\ pc[c] = "grabLarge" /\ LargeFree[req[c].space] = NullIndex
    /\ EnterSpace(c, req[c], Previous(req[c].space, req[c].magn))
    /\ UNCHANGED <<desc, lists, handed, claims>>

\* l becomes the head of the split list of its space; its own PrevIndex is Null.
PushSplitUnlinked(sp, l) ==
    /\ NextIndex' = [NextIndex EXCEPT ![l] = SplitFree[sp]]
    /\ SplitFree' = [SplitFree EXCEPT ![sp] = l]
    /\ UNCHANGED PrevIndex
PushSplit(sp, l) ==
    LET next == SplitFree[sp] IN
    /\ NextIndex' = [NextIndex EXCEPT ![l] = next]
    /\ SplitFree' = [SplitFree EXCEPT ![sp] = l]
    /\ PrevIndex' = [k \in Large |-> CASE k = l -> NullIndex
                                       [] k = next -> l
                                       [] OTHER -> PrevIndex[k]]

\* Outside both locks the frame is split and its first small frame taken; then
\* it is put on the split list.
SplitLargeFrameKeepsFirst(c) ==
    LET r == req[c]
        l == r.large
    IN  /\ pc[c] = "splitFrame"
        /\ desc' = [f \in Frame |->
                      CASE f[1] # l -> desc[f]
                        [] f = <<l, 0>> -> [desc[f] EXCEPT !.Status = "Split"]
                        [] f = <<l, 1>> -> Used(r.refCnt)
                        [] OTHER -> FreeDesc]
        /\ NextFree' = [NextFree EXCEPT ![l] = [i \in 1 .. SubDescriptorsCount |-> i]]
        /\ FreeCount' = [FreeCount EXCEPT ![l] = SubDescriptorsCount - 1]
        /\ PushSplit(r.space, l)
        /\ HandOut(Address(l, 1), r.refCnt)
        /\ Finish(c)
        /\ UNCHANGED LargeFree
SplitLargeFrame(c) ==
    LET r == req[c]
        l == r.large
    IN  /\ pc[c] = "splitFrame"
        /\ desc' = [f \in Frame |->
                      CASE f[1] # l -> desc[f]
                        [] f = <<l, 0>> -> [desc[f] EXCEPT !.Status = "Split"]
                        [] f = <<l, 1>> -> Used(r.refCnt)
                        [] OTHER -> FreeDesc]
        /\ NextFree' = [NextFree EXCEPT ![l] = [i \in 1 .. SubDescriptorsCount - 1 |-> i + 1]]
        /\ FreeCount' = [FreeCount EXCEPT ![l] = SubDescriptorsCount - 1]
        /\ PushSplit(r.space, l)
        /\ HandOut(Address(l, 1), r.refCnt)
        /\ Finish(c)
        /\ UNCHANGED LargeFree

----------------------------------------------------------------------------
(* Mingle: FreeFrame (diff = 0) and AdjustReferenceCount (diff # 0), called *)
(* with a frame that is handed out.  The caller gives up its reference for  *)
(* the time of the call.                                                    *)

Calls(f) == {c \in Cores : req[c].op = "mingle" /\ req[c].frame = f}

\* AdjustReferenceCount(-1) by a holder of a reference, AdjustReferenceCount(1)
\* and FreeFrame(false) by a holder or by the one owner of an unreferenced
\* frame, FreeFrame(true) by the one owner.
MayCall(f, diff, ignore) ==
    /\ handed[f] > 0
    /\ claims[f] > 0 \/ Calls(f) = {}
    /\ diff < 0 => claims[f] > 0
    /\ diff > 0 => /\ desc[f].ReferenceCount + Cardinality(Calls(f)) < MaxRef
                   /\ f \in Odd \/ RoomForOdd
    /\ ignore => diff = 0 /\ claims[f] <= 1 /\ Calls(f) = {}

\* The status is first read without a lock, to tell which lock to take.
Mingle(c, f, diff, ignore) ==
    LET took == IF claims[f] > 0 THEN 1 ELSE 0
        r == [op |-> "mingle", frame |-> f, diff |-> diff, ignore |-> ignore, took |-> took]
    IN  /\ pc[c] = "idle"
        /\ MayCall(f, diff, ignore)
        /\ claims' = [claims EXCEPT ![f] = @ - took]
        /\ Goto(c, CASE Status(f[1]) = "Free" -> "PageFree"
                     [] Status(f[1]) = "Used" -> "mingleLarge"
                     [] Status(f[1]) \in {"Split", "Full"} -> "mingleSmall", r)
        /\ UNCHANGED <<desc, lists, handed>>

\* The lambda `test`: is the frame to be freed?
TestIgnoresCount(r) == r.diff = 0 \/ desc[r.frame].ReferenceCount + r.diff = 0
Test(r) ==
    IF r.diff = 0 THEN r.ignore \/ desc[r.frame].ReferenceCount <= 1
    ELSE desc[r.frame].ReferenceCount + r.diff = 0

\* The call returns without freeing the frame, its count adjusted.
Retain(c) ==
    LET r == req[c] IN
    /\ desc' = [desc EXCEPT ![r.frame].ReferenceCount = @ + r.diff]
    /\ claims' = [claims EXCEPT ![r.frame] = @ + r.took + r.diff]
    /\ Finish(c)
    /\ UNCHANGED <<lists, handed>>

GiveBack(f) ==
    /\ handed' = [handed EXCEPT ![f] = @ - 1]
    /\ claims' = [claims EXCEPT ![f] = 0]

PushLarge(l) ==
    /\ NextIndex' = [NextIndex EXCEPT ![l] = LargeFree[SpaceOf[l]]]
    /\ LargeFree' = [LargeFree EXCEPT ![SpaceOf[l]] = l]

\* do_large_frame: the status is looked at again under LargeLocker.
MingleLarge(c) ==
    LET r == req[c]
        l == r.frame[1]
    IN  /\ pc[c] = "mingleLarge"
        /\ CASE Status(l) = "Free" -> Goto(c, "PageFree", r)
                                      /\ UNCHANGED <<desc, lists, handed, claims>>
             [] Status(l) \in {"Split", "Full"} -> Goto(c, "mingleSmall", r)
                                      /\ UNCHANGED <<desc, lists, handed, claims>>
             [] Status(l) = "Used" /\ ~Test(r) -> Retain(c)
             [] Status(l) = "Used" /\ Test(r) ->
                    /\ desc' = [desc EXCEPT ![<<l, 0>>] = FreeDesc]
                    /\ PushLarge(l)
                    /\ GiveBack(r.frame)
                    /\ Finish(c)
                    /\ UNCHANGED <<PrevIndex, NextFree, FreeCount, SplitFree>>

\* l, wherever it stands in the split list, is unlinked.
Unlink(l) ==
    LET next == NextIndex[l]
        prev == PrevIndex[l]
    IN  /\ NextIndex' = [k \in Large |-> CASE k = l -> NullIndex
                                           [] k = prev -> next
                                           [] OTHER -> NextIndex[k]]
        /\ PrevIndex' = [k \in Large |-> CASE k = l -> NullIndex
                                           [] k = next -> prev
                                           [] OTHER -> PrevIndex[k]]
        /\ SplitFree' = [SplitFree EXCEPT ![SpaceOf[l]] = IF @ = l THEN next ELSE @]

\* With one more small frame free, is all of l free?
AllFreeLate(l) == FreeCount[l] = SubDescriptorsCount
AllFree(l) == FreeCount[l] + 1 = SubDescriptorsCount

\* A small frame goes back on the stack of its large frame l, which returns to
\* the split list if it was full and leaves it for good if it is all free.
FreeSmall(c) ==
    LET r == req[c]
        l == r.frame[1]
    IN  /\ desc' = [desc EXCEPT ![r.frame] = FreeDesc,
                                ![<<l, 0>>].Status = IF @ = "Full" THEN "Split" ELSE @]
        /\ NextFree' = [NextFree EXCEPT ![l] = <<r.frame[2]>> \o @]
        /\ FreeCount' = [FreeCount EXCEPT ![l] = @ + 1]
        /\ GiveBack(r.frame)
        /\ CASE Status(l) = "Full" ->
                    PushSplit(SpaceOf[l], l) /\ Finish(c)
             [] Status(l) # "Full" /\ AllFree(l) ->
                    Unlink(l) /\ Goto(c, "reclaim", [op |-> "reclaim", large |-> l])
             [] OTHER -> Finish(c) /\ UNCHANGED <<NextIndex, PrevIndex, SplitFree>>
        /\ UNCHANGED LargeFree

\* do_small_frame, under SplitLocker.
MingleSmall(c) ==
    LET r == req[c]
        l == r.frame[1]
        Return(label) == Goto(c, label, r) /\ UNCHANGED <<desc, lists, handed, claims>>
    IN  /\ pc[c] = "mingleSmall"
        /\ CASE Status(l) = "Free" -> Return("PageFree")
             [] Status(l) = "Used" -> Return("mingleLarge")
             [] Status(l) \in {"Split", "Full"} ->
                  CASE r.frame[2] = 0 -> Return("PageReserved")
                    [] desc[r.frame].Status = "Free" -> Return("PageFree")
                    [] desc[r.frame].Status = "Reserved" -> Return("PageReserved")
                    [] OTHER -> IF Test(r) THEN FreeSmall(c) ELSE Retain(c)

\* reclaim_large_frame: outside the locks the descriptor is freed; then the frame
\* is put on the free stack.
ReclaimLargeFrame(c) ==
    LET l == req[c].large IN
    /\ pc[c] = "reclaim"
    /\ desc' = [desc EXCEPT ![<<l, 0>>] = FreeDesc]
    /\ NextFree' = [NextFree EXCEPT ![l] = <<>>]
    /\ FreeCount' = [FreeCount EXCEPT ![l] = 0]
    /\ PushLarge(l)
    /\ Finish(c)
    /\ UNCHANGED <<PrevIndex, SplitFree, handed, claims>>

Call(c) ==
    \/ \E r \in Requests : AllocateFrame(c, r[1], r[2], r[3])
    \/ \E f \in Frame, diff \in {-1, 0, 1}, ignore \in BOOLEAN : Mingle(c, f, diff, ignore)

Step(c) ==
    \/ TakeSmall(c) \/ NoSplitFrame(c) \/ GrabLarge(c) \/ NoLargeFrame(c)
    \/ SplitLargeFrame(c) \/ MingleLarge(c) \/ MingleSmall(c) \/ ReclaimLargeFrame(c)

Next == \E c \in Cores : Call(c) \/ Step(c)

Spec == Init /\ [][Next]_vars

----------------------------------------------------------------------------
(* Properties.                                                             *)

Overlap(f, g) == f[1] = g[1] /\ (f[2] = g[2] \/ f[2] = 0 \/ g[2] = 0)

\* No two allocations share memory: a frame is handed out once at a time, and
\* never together with a small frame inside it, whatever the order in which
\* cores pop, split, free and reclaim frames under the two lockers of a space.
FramesExclusive ==
    /\ \A f \in Frame : handed[f] <= 1
    /\ LET out == {f \in Frame : handed[f] > 0}
       IN  \A f, g \in out : Overlap(f, g) => f = g

\* The frames on the list that starts at head, in the order of NextIndex.
Walk(head) ==
    LET Follow(l) == IF l = NullIndex THEN NullIndex ELSE NextIndex[l]
        at[i \in 0 .. Cardinality(Large)] == IF i = 0 THEN head ELSE Follow(at[i - 1])
    IN  at
Listed(walk) == Range(walk) \ {NullIndex}
Ends(walk) == walk[Cardinality(Large)] = NullIndex

\* Frames a core has taken off one list and not yet put on the other.
Moving == {req[c].large : c \in {d \in Cores : pc[d] \in {"splitFrame", "reclaim"}}}

\* The two lists of a space are sound although they share NextIndex and
\* frames cross between them outside the locks: neither is circular, they hold
\* exactly the free and the split frames (but the ones being moved), PrevIndex
\* mirrors NextIndex along the split list, and the stack of a split frame holds
\* its FreeCount free small frames, never none of them and, in a whole frame,
\* never all.
FreeListsConsistent ==
    \A sp \in Spaces :
      LET frames == Range(Map(sp)) \ Moving
          largeWalk == Walk(LargeFree[sp])
          splitWalk == Walk(SplitFree[sp])
          split == Listed(splitWalk)
      IN  /\ Ends(largeWalk) /\ Ends(splitWalk)
          /\ Listed(largeWalk) = {l \in frames : Status(l) = "Free"}
          /\ split = {l \in frames : Status(l) = "Split"}
          /\ \A l \in split :
               /\ PrevIndex[l] = NullIndex <=> SplitFree[sp] = l
               /\ NextIndex[l] # NullIndex => PrevIndex[NextIndex[l]] = l
               /\ FreeCount[l] = Len(NextFree[l]) /\ FreeCount[l] > 0
               /\ l \notin Strays => FreeCount[l] < SubDescriptorsCount
               /\ Range(NextFree[l]) = {s \in Small : desc[<<l, s>>].Status = "Free"}
               /\ Cardinality(Range(NextFree[l])) = Len(NextFree[l])

\* A handed-out frame is in use with a count of exactly the references its
\* holders have, those lent to a call in progress included: concurrent
\* adjustments under the lockers lose none, so the frame is freed by the last
\* reference and no earlier one.
ReferencesExact ==
    \A f \in Frame : handed[f] > 0 =>
      /\ desc[f].Status = "Used"
      /\ desc[f].ReferenceCount =
           claims[f] + Cardinality({c \in Calls(f) : req[c].took = 1})

\* The allocator accounts for every frame: the free ones by its lists, the others
\* by their references.
FramesAccounted == FreeListsConsistent /\ ReferencesExact

\* A holder's FreeFrame or AdjustReferenceCount always finds its frame: the
\* status read without a lock, or before the other lock was taken, never leads
\* a call to PageFree or PageReserved.
RequestsServed == \A c \in Cores : pc[c] \notin {"PageFree", "PageReserved"}

\* When every frame has been given back and no call is in progress, all
\* memory can be allocated again as it could at boot: every whole frame is
\* free, every stray frame has all of its small frames.
NothingLost ==
    (\A f \in Frame : handed[f] = 0) /\ (\A c \in Cores : pc[c] = "idle") =>
        /\ \A sp \in Spaces : Listed(Walk(LargeFree[sp])) = Range(Whole[sp])
        /\ \A l \in Strays : FreeCount[l] = StrayCount /\ Status(l) = "Split"

=============================================================================
