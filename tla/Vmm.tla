-------------------------------- MODULE Vmm --------------------------------
(***************************************************************************)
(* Paging of the kernel heap: the cores allocate, fault in and free pages, *)
(* while their processors fill their TLBs from the page tables whenever    *)
(* they like.  The pages lie under one entry of each table.                *)
(*                                                                         *)
(* The address space is reduced to what each page is allocated as (Vas     *)
(* refines such a map); KVas.Lock and KernelHeapLock are explicit, as they *)
(* are held across frame allocations and shootdowns.  The frame allocator  *)
(* gives out any free frame, or none when none is left.  A core takes the  *)
(* mail of a shootdown when its interrupts are on or while it waits for    *)
(* its own mail.                                                           *)
(***************************************************************************)
EXTENDS Integers, FiniteSets

CONSTANTS Cores, Frame,
          Pages,   \* number of pages of the heap
          ListMax, \* UnmapListMax, entries of an UnmapList
          None     \* no frame, no core

Page == 1 .. Pages
Unused == -1       \* instead of a reference count: the frame is free

ASSUME VmmAssumption ==
    /\ Pages \in Nat \ {0} /\ ListMax \in Nat \ {0}
    /\ IsFiniteSet(Frame)
    /\ None \notin Cores \cup Frame

VARIABLES use,      \* use[p]: "Free", "OnDemand" or "Commit"
          pml,      \* pml[k]: the table that the level-k entry points to
          pte,      \* pte[p]: the frame that page p is mapped to
          count,    \* reference count of each frame
          tlb,      \* tlb[c][p]: the frame that core c has cached for p
          writer,   \* holder of KVas.Lock as writer
          heapLock, \* holder of KernelHeapLock
          pc,
          req,      \* req[c]: pages to do and done, and page and frame of a fault
          unmapped, \* UnmapList: the pages and frames a core has unmapped
          await     \* cores that have not executed the shootdown of a core yet

tables == <<pml, pte>>
locks == <<writer, heapLock>>
shootdown == <<unmapped, await>>
vars == <<use, tables, count, tlb, locks, pc, req, shootdown>>

NoCall == [todo |-> {}, done |-> {}, page |-> None, frame |-> None]

Init ==
    /\ use = [p \in Page |-> "Free"]
    /\ pml = [k \in 2 .. 3 |-> None]
    /\ pte = [p \in Page |-> None]
    /\ count = [f \in Frame |-> Unused]
    /\ tlb = [c \in Cores |-> [p \in Page |-> None]]
    /\ writer = None /\ heapLock = None
    /\ pc = [c \in Cores |-> "idle"]
    /\ req = [c \in Cores |-> NoCall]
    /\ unmapped = [c \in Cores |-> {}]
    /\ await = [c \in Cores |-> {}]

Goto(c, label) == pc' = [pc EXCEPT ![c] = label]
Finish(c) == Goto(c, "idle") /\ req' = [req EXCEPT ![c] = NoCall]

FreeFrames(cnt) == {f \in Frame : cnt[f] = Unused}

\* Mutant of Readers: the handler lets go of KVas.Lock before it maps.
ReadersOfLookup == {c \in Cores : pc[c] = "faultFrame"}

Readers == {c \in Cores : pc[c] \in {"faultFrame", "faultMap", "faultCount", "faultFree"}}
Claimed(c) == req[c].todo \cup req[c].done

(* No call is at work on page p. *)
Settled(p) == \A c \in Cores : p \notin Claimed(c)

----------------------------------------------------------------------------
(* MapPageInternal for a small page.  The PML4 entries of the kernel are   *)
(* all there since Vmm::Bootstrap.  The tables that are missing below come *)
(* from the frame allocator, from the top down, and stay when the next one *)
(* cannot be had.  An outcome is what one choice of frames leads to.       *)
Missing == IF pml[3] = None THEN 2 ELSE IF pml[2] = None THEN 1 ELSE 0

MapOutcomes(cnt, p, f) ==
    LET free == FreeFrames(cnt)
        Choices(n) == {s \in [1 .. n -> free] : \A i, j \in 1 .. n : i # j => s[i] # s[j]}
        have == IF Choices(Missing) # {} THEN Missing ELSE IF free # {} THEN 1 ELSE 0
        Fresh == Choices(have)
        NewTables(s) == [k \in 2 .. 3 |-> IF Missing + 2 - k \in 1 .. have
                                          THEN s[Missing + 2 - k] ELSE pml[k]]
        NewCount(s) == [g \in Frame |-> IF \E i \in 1 .. have : s[i] = g THEN 1 ELSE cnt[g]]
        Outcome(s, ptes, res) ==
            [pml |-> NewTables(s), pte |-> ptes, res |-> res, count |-> NewCount(s)]
    IN  IF have < Missing THEN {Outcome(s, pte, "OutOfMemory") : s \in Fresh}
        ELSE IF pte[p] # None THEN {Outcome(s, pte, "PageMapped") : s \in Fresh}
        ELSE {Outcome(s, [pte EXCEPT ![p] = f], "Okay") : s \in Fresh}

AdjustReferenceCount(cnt, f, diff) ==
    [cnt EXCEPT ![f] = IF cnt[f] + diff = 0 THEN Unused ELSE cnt[f] + diff]

----------------------------------------------------------------------------
(* Vmm::AllocatePages: KVas.Allocate comes first, under its own lock. *)
AllocatePages(c, kind) ==
    /\ pc[c] = "idle"
    /\ writer = None /\ Readers = {}
    /\ \E first, last \in Page :
        /\ first <= last
        /\ \A p \in first .. last : use[p] = "Free"
        /\ use' = [p \in Page |-> IF p \in first .. last THEN kind ELSE use[p]]
        /\ IF kind = "Commit"
           THEN Goto(c, "commitLock") /\
                req' = [req EXCEPT ![c].todo = first .. last]
           ELSE UNCHANGED <<pc, req>>
    /\ UNCHANGED <<tables, count, tlb, locks, shootdown>>

CommitLock(c) ==
    /\ pc[c] = "commitLock" /\ heapLock = None
    /\ heapLock' = c
    /\ Goto(c, "commitPage")
    /\ UNCHANGED <<use, tables, count, tlb, writer, req, shootdown>>

(* One round of the loop: a frame for the next page, and its mapping. *)
CommitPage(c) ==
    /\ pc[c] = "commitPage"
    /\ \E p \in req[c].todo, f \in FreeFrames(count) :
       \E o \in MapOutcomes([count EXCEPT ![f] = 0], p, f) :
        /\ \A q \in req[c].todo : p <= q
        /\ pml' = o.pml /\ pte' = o.pte
        /\ IF o.res = "Okay"
           THEN /\ count' = AdjustReferenceCount(o.count, f, 1)
                /\ req' = [req EXCEPT ![c].todo = @ \ {p}, ![c].done = @ \cup {p}]
                /\ UNCHANGED pc
           ELSE count' = o.count /\ Goto(c, "backtrack") /\ UNCHANGED req
    /\ UNCHANGED <<use, tlb, locks, shootdown>>

CommitNoFrame(c) ==
    /\ pc[c] = "commitPage" /\ req[c].todo # {}
    /\ FreeFrames(count) = {}
    /\ Goto(c, "backtrack")
    /\ UNCHANGED <<use, tables, count, tlb, locks, req, shootdown>>

CommitDone(c) ==
    /\ pc[c] = "commitPage" /\ req[c].todo = {}
    /\ heapLock' = None
    /\ Finish(c)
    /\ UNCHANGED <<use, tables, count, tlb, writer, shootdown>>

(* A round of UnmapIteratively goes on until the list is full or the range *)
(* is covered; TranslateInternal nulls the entries of the mapped pages.    *)
Round(pages) ==
    {p \in pages : Cardinality({q \in pages : q < p /\ pte[q] # None}) < ListMax}

\* Mutant of Unmap: a page that follows an unmapped one is not listed.
UnmapUnlisted(c, pages) ==
    LET mapped == {p \in pages : pte[p] # None} IN
    /\ pte' = [p \in Page |-> IF p \in mapped THEN None ELSE pte[p]]
    /\ unmapped' = [unmapped EXCEPT ![c] = {<<p, pte[p]>> : p \in {q \in mapped : q - 1 \notin pages \ mapped}}]
    /\ Goto(c, "shoot")
    /\ UNCHANGED pml

Unmap(c, pages) ==
    LET mapped == {p \in pages : pte[p] # None} IN
    /\ pte' = [p \in Page |-> IF p \in mapped THEN None ELSE pte[p]]
    /\ unmapped' = [unmapped EXCEPT ![c] = {<<p, pte[p]>> : p \in mapped}]
    /\ Goto(c, "shoot")
    /\ UNCHANGED pml

(* UnmapRange of what the loop has mapped, with the lock still held; the   *)
(* region stays allocated.  What is left to unmap is the new call.         *)
Backtrack(c) ==
    /\ pc[c] = "backtrack"
    /\ Unmap(c, Round(req[c].done))
    /\ req' = [req EXCEPT ![c] = [NoCall EXCEPT !.todo = req[c].done \ Round(req[c].done)]]
    /\ UNCHANGED <<use, count, tlb, locks, await>>

----------------------------------------------------------------------------
(* Vmm::HandlePageFault, after an access to a page that is to be allocated *)
(* on demand and was not mapped: as a reader of KVas.Lock from the lookup  *)
(* to the mapping.  The page may be gone by the time it is looked up.      *)
HandlePageFault(c, p) ==
    /\ pc[c] = "idle"
    /\ tlb[c][p] = None /\ pte[p] = None /\ use[p] = "OnDemand"
    /\ Goto(c, "faultLock")
    /\ req' = [req EXCEPT ![c].page = p]
    /\ UNCHANGED <<use, tables, count, tlb, locks, shootdown>>

FaultLookup(c) ==
    /\ pc[c] = "faultLock" /\ writer = None
    /\ IF use[req[c].page] = "OnDemand" THEN Goto(c, "faultFrame") /\ UNCHANGED req
       ELSE Finish(c)
    /\ UNCHANGED <<use, tables, count, tlb, locks, shootdown>>

FaultFrame(c) ==
    /\ pc[c] = "faultFrame"
    /\ \E f \in FreeFrames(count) :
        /\ count' = [count EXCEPT ![f] = 0]
        /\ req' = [req EXCEPT ![c].frame = f]
    /\ Goto(c, "faultMap")
    /\ UNCHANGED <<use, tables, tlb, locks, shootdown>>

FaultNoFrame(c) ==
    /\ pc[c] = "faultFrame" /\ FreeFrames(count) = {}
    /\ Finish(c)
    /\ UNCHANGED <<use, tables, count, tlb, locks, shootdown>>

(* MapPage: the entry is written under KernelHeapLock; its reference is    *)
(* counted after that, or the frame is freed when it was not mapped.       *)
FaultMap(c) ==
    /\ pc[c] = "faultMap" /\ heapLock = None
    /\ \E o \in MapOutcomes(count, req[c].page, req[c].frame) :
        /\ pml' = o.pml /\ pte' = o.pte /\ count' = o.count
        /\ Goto(c, IF o.res = "Okay" THEN "faultCount" ELSE "faultFree")
    /\ UNCHANGED <<use, tlb, locks, req, shootdown>>

FaultCount(c) ==
    /\ pc[c] = "faultCount"
    /\ count' = AdjustReferenceCount(count, req[c].frame, 1)
    /\ Finish(c)
    /\ UNCHANGED <<use, tables, tlb, locks, shootdown>>

FaultFree(c) ==
    /\ pc[c] = "faultFree"
    /\ count' = [count EXCEPT ![req[c].frame] = Unused]
    /\ Finish(c)
    /\ UNCHANGED <<use, tables, tlb, locks, shootdown>>

----------------------------------------------------------------------------
(* Vmm::FreePages of a range that is allocated.  Every round of UnmapRange *)
(* takes KVas.Lock as writer and then KernelHeapLock.                      *)
FreePages(c) ==
    /\ pc[c] = "idle"
    /\ \E first, last \in Page :
        /\ first <= last
        /\ \E kind \in {"OnDemand", "Commit"} :
            \A p \in first .. last : use[p] = kind /\ Settled(p)
        /\ req' = [req EXCEPT ![c].todo = first .. last]
    /\ Goto(c, "freeLock")
    /\ UNCHANGED <<use, tables, count, tlb, locks, shootdown>>

FreeLock(c) ==
    /\ pc[c] = "freeLock"
    /\ writer = None /\ Readers = {}
    /\ writer' = c
    /\ Goto(c, "free")
    /\ UNCHANGED <<use, tables, count, tlb, heapLock, req, shootdown>>

\* Mutant of FreeUnmap: KVas.Lock is kept for the invalidation.
FreeUnmapLocked(c) ==
    LET pages == Round(req[c].todo) IN
    /\ pc[c] = "free" /\ heapLock = None
    /\ Unmap(c, pages)
    /\ use' = [p \in Page |-> IF p \in pages THEN "Free" ELSE use[p]]
    /\ req' = [req EXCEPT ![c].todo = @ \ pages]
    /\ UNCHANGED <<count, tlb, locks, await>>

(* UnmapIteratively up to PostUnmap: the entries are nulled, that part of  *)
(* the region is freed and both locks are released, before the TLBs are    *)
(* invalidated.                                                            *)
FreeUnmap(c) ==
    LET pages == Round(req[c].todo) IN
    /\ pc[c] = "free" /\ heapLock = None
    /\ Unmap(c, pages)
    /\ use' = [p \in Page |-> IF p \in pages THEN "Free" ELSE use[p]]
    /\ writer' = None
    /\ req' = [req EXCEPT ![c].todo = @ \ pages]
    /\ UNCHANGED <<count, tlb, heapLock, await>>

----------------------------------------------------------------------------
Invalidated(c, d) ==
    [tlb EXCEPT ![d] = [p \in Page |-> IF \E u \in unmapped[c] : u[1] = p
                                       THEN None ELSE tlb[d][p]]]

\* Mutant of InvalidateRange: the mail is not awaited.
InvalidateRangeUnawaited(c) ==
    /\ pc[c] = "shoot"
    /\ Goto(c, "drop")
    /\ tlb' = Invalidated(c, c)
    /\ UNCHANGED <<use, tables, count, locks, req, shootdown>>

(* Vmm::InvalidateRange: the mail goes to all others, and the caller runs  *)
(* the invalidation itself.  Nothing to do when nothing was mapped.        *)
InvalidateRange(c) ==
    /\ pc[c] = "shoot"
    /\ IF unmapped[c] = {} THEN Goto(c, "drop") /\ UNCHANGED <<tlb, await>>
       ELSE /\ Goto(c, "wait")
            /\ tlb' = Invalidated(c, c)
            /\ await' = [await EXCEPT ![c] = Cores \ {c}]
    /\ UNCHANGED <<use, tables, count, locks, req, unmapped>>

(* Interrupts are off in a page fault, while a lock is held or wanted, and *)
(* in all of a call that backtracks.                                       *)
Interruptible(c) == pc[c] \in {"idle", "shoot", "drop"} /\ heapLock # c

(* RangeInvalidator<false>, executed from the mailbox of core d. *)
RangeInvalidator(d, c) ==
    /\ d \in await[c]
    /\ Interruptible(d) \/ pc[d] = "wait"
    /\ tlb' = Invalidated(c, d)
    /\ await' = [await EXCEPT ![c] = @ \ {d}]
    /\ UNCHANGED <<use, tables, count, locks, pc, req, unmapped>>

InvalidateReturn(c) ==
    /\ pc[c] = "wait" /\ await[c] = {}
    /\ Goto(c, "drop")
    /\ UNCHANGED <<use, tables, count, tlb, locks, req, shootdown>>

\* Mutant of DropReference: the index is not moved.
DropReferenceAgain(c) ==
    /\ pc[c] = "drop"
    /\ \E u \in unmapped[c] : count' = AdjustReferenceCount(count, u[2], -1)
    /\ UNCHANGED <<use, tables, tlb, locks, pc, req, shootdown>>

(* The references of the mappings are dropped, one frame at a time; a call *)
(* that backtracked releases KernelHeapLock on its way out.                *)
DropReference(c) ==
    /\ pc[c] = "drop"
    /\ \E u \in unmapped[c] :
        /\ count' = AdjustReferenceCount(count, u[2], -1)
        /\ unmapped' = [unmapped EXCEPT ![c] = @ \ {u}]
    /\ UNCHANGED <<use, tables, tlb, locks, pc, req, await>>

(* The next round, with the locks that this call takes. *)
NextRound(c) ==
    /\ pc[c] = "drop" /\ unmapped[c] = {} /\ req[c].todo # {}
    /\ IF heapLock = c
       THEN /\ Unmap(c, Round(req[c].todo))
            /\ req' = [req EXCEPT ![c].todo = @ \ Round(@)]
       ELSE Goto(c, "freeLock") /\ UNCHANGED <<tables, req, unmapped>>
    /\ UNCHANGED <<use, count, tlb, locks, await>>

UnmapReturn(c) ==
    /\ pc[c] = "drop" /\ unmapped[c] = {} /\ req[c].todo = {}
    /\ heapLock' = IF heapLock = c THEN None ELSE heapLock
    /\ Finish(c)
    /\ UNCHANGED <<use, tables, count, tlb, writer, shootdown>>

----------------------------------------------------------------------------
(* The processor of core c caches a translation, on an access or before. *)
FillTlb(c, p) ==
    /\ pte[p] # None
    /\ tlb' = [tlb EXCEPT ![c][p] = pte[p]]
    /\ UNCHANGED <<use, tables, count, locks, pc, req, shootdown>>

CoreNext(c) ==
    \/ \E kind \in {"OnDemand", "Commit"} : AllocatePages(c, kind)
    \/ CommitLock(c) \/ CommitPage(c) \/ CommitNoFrame(c) \/ CommitDone(c)
    \/ Backtrack(c)
    \/ \E p \in Page : HandlePageFault(c, p)
    \/ FaultLookup(c) \/ FaultFrame(c) \/ FaultNoFrame(c) \/ FaultMap(c)
    \/ FaultCount(c) \/ FaultFree(c)
    \/ FreePages(c) \/ FreeLock(c) \/ FreeUnmap(c)
    \/ InvalidateRange(c) \/ InvalidateReturn(c)
    \/ \E d \in Cores : RangeInvalidator(c, d)
    \/ DropReference(c) \/ NextRound(c) \/ UnmapReturn(c)

Next == \E c \in Cores : CoreNext(c) \/ \E p \in Page : FillTlb(c, p)

Spec == Init /\ [][Next]_vars

----------------------------------------------------------------------------
(* A frame that the allocator may give out again is in no TLB and in no    *)
(* page table: UnmapIteratively drops a reference only once every core has *)
(* executed the invalidation of its page.                                  *)
FreeFramesUncached ==
    \A f \in FreeFrames(count) :
        /\ \A p \in Page : pte[p] # f /\ \A c \in Cores : tlb[c][p] # f
        /\ \A k \in 2 .. 3 : pml[k] # f

(* The reference count of a frame is the number of pages mapped to it and  *)
(* of mappings whose reference is still to be dropped, less the one that a *)
(* page fault has still to count; cores that race for the fault on a page  *)
(* leave one mapping, and a page table has the reference it came with.     *)
MappingsCounted ==
    \A f \in Frame \ FreeFrames(count) :
        count[f] = Cardinality({p \in Page : pte[p] = f})
                   + Cardinality({u \in Cores \X Page : <<u[2], f>> \in unmapped[u[1]]})
                   + Cardinality({k \in 2 .. 3 : pml[k] = f})
                   - Cardinality({c \in Cores : pc[c] = "faultCount" /\ req[c].frame = f})

(* Only an allocated page is mapped: FreePages unmaps and frees as one     *)
(* writer of KVas.Lock, and HandlePageFault maps as a reader.              *)
MappedPagesAllocated == \A p \in Page : pte[p] # None => use[p] # "Free"

(* The page tables agree with the frames' counts and with the regions.     *)
MappingsKept == MappingsCounted /\ MappedPagesAllocated

(* The cores that a core cannot go on without. *)
WaitsFor(c, d) ==
    \/ pc[c] \in {"commitLock", "faultMap", "free"} /\ heapLock = d
    \/ pc[c] \in {"freeLock", "faultLock"} /\ writer = d
    \/ pc[c] = "freeLock" /\ d \in Readers
    \/ pc[c] = "wait" /\ d \in await[c] /\ ~Interruptible(d) /\ pc[d] # "wait"

(* No two cores wait for each other, one for a lock with its interrupts    *)
(* off and the other for the first to execute its invalidation: UnmapRange *)
(* has released its locks by then.  The one exception is AllocatePages     *)
(* when it backtracks, which invalidates with KernelHeapLock held.         *)
NoCircularWait ==
    \A c, d \in Cores : WaitsFor(c, d) /\ WaitsFor(d, c) => heapLock \in {c, d}

(* A core goes to another frame than the one a page is mapped to only as   *)
(* long as it has still to execute the invalidation of that mapping: the   *)
(* range may have been allocated again, but the old frame is not yet free. *)
StaleTranslationsPending ==
    \A c \in Cores, p \in Page : tlb[c][p] \notin {None, pte[p]} =>
        \E d \in Cores : /\ <<p, tlb[c][p]>> \in unmapped[d]
                         /\ pc[d] = "shoot" \/ c \in await[d]
=============================================================================
