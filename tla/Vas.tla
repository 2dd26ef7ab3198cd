-------------------------------- MODULE Vas --------------------------------
(***************************************************************************)
(* A virtual address space: its regions tile the range it manages, each    *)
(* region is the payload of a node of an AVL tree and an element of a      *)
(* doubly linked list in the order of addresses.  Allocate and Free run    *)
(* under Lock as a writer and HandlePageFault under it as a reader, so     *)
(* each is one step.  Addresses count pages: PageSize is 1.                *)
(*                                                                         *)
(* Descriptors come from the object allocator of the address space: the    *)
(* one freed last is given out first.  A descriptor that was given back    *)
(* keeps its contents until it is used again; they are kept here as long   *)
(* as LastSearched still points to them, and blanked otherwise.            *)
(***************************************************************************)
EXTENDS AvlTree, Sequences, FiniteSets

CONSTANTS Start, End, \* the range given to Initialize
          Node,       \* descriptors the object allocator can give out
          Nil,        \* nullptr
          Requests,   \* attributes that callers of Allocate ask for
          MaxSize     \* bound: pages of a request, without its guards

Page == Start .. End - 1
nullvaddr == 0

ASSUME VasAssumption ==
    /\ Start \in Nat /\ End \in Nat /\ nullvaddr + 1 < Start /\ Start < End
    /\ Nil \notin Node
    /\ IsFiniteSet(Node) /\ Node # {}
    /\ Requests \subseteq [flags : STRING, content : STRING, strategy : STRING,
                           perm : BOOLEAN, low : BOOLEAN, high : BOOLEAN]

VARIABLES region,       \* region[n]: the MemoryRegion in descriptor n
          Tree, First, LastSearched,
          pool,         \* free descriptors, the next to be given out first
          map           \* ghost: what the pages hold, as the tree tells it

vars == <<region, Tree, First, LastSearched, pool, map>>

FreeRequest == [flags |-> "None", content |-> "Free", strategy |-> "Reserve",
                perm |-> FALSE, low |-> FALSE, high |-> FALSE]

MemoryRegion(start, end, req, prev, next) ==
    [start |-> start, end |-> end, flags |-> req.flags, content |-> req.content,
     strategy |-> req.strategy, perm |-> req.perm, low |-> req.low,
     high |-> req.high, prev |-> prev, next |-> next]

Blank == MemoryRegion(0, 0, FreeRequest, Nil, Nil)

(* The whole address space as a value: an operation maps one to the next. *)
State == [region |-> region, tree |-> Tree, first |-> First,
          last |-> LastSearched, pool |-> pool, res |-> "Okay"]

(* The comparisons of regions.cpp, against an address and a range. *)
CompareAddress(s, a) ==
    [n \in Node |-> IF s.region[n].end <= a THEN -1
                    ELSE IF s.region[n].start > a THEN 1 ELSE 0]

CompareRange(s, start, end) ==
    [n \in Node |-> IF s.region[n].end <= start THEN -1
                    ELSE IF s.region[n].start >= end THEN 1 ELSE 0]

FindRegion(s, a) == Find(CompareAddress(s, a), s.tree, Nil)

PageMap(s) ==
    [p \in Page |->
        LET n == FindRegion(s, p)
            reg == s.region[n]
        IN  IF n = Nil THEN [flags |-> "lost"]
            ELSE [flags |-> reg.flags, content |-> reg.content,
                  strategy |-> reg.strategy, perm |-> reg.perm,
                  guard |-> CASE reg.low /\ p = reg.start -> "low"
                              [] reg.high /\ p = reg.end - 1 -> "high"
                              [] OTHER -> "none"]]

Init ==
    \E order \in [1 .. Cardinality(Node) -> Node] :
        /\ \A i, j \in DOMAIN order : i # j => order[i] # order[j]
        /\ region = [n \in Node |-> IF n = order[1]
                                    THEN MemoryRegion(Start, End, FreeRequest, Nil, Nil)
                                    ELSE Blank]
        /\ Tree = Leaf(order[1])
        /\ First = order[1]
        /\ LastSearched = Nil
        /\ pool = Tail(order)
        /\ map = PageMap(State)

----------------------------------------------------------------------------
(* Tree.Insert of a region into a new descriptor, which is Head(s.pool). *)
InsertRegion(s, reg) ==
    LET cmp == CompareRange(s, reg.start, reg.end) IN
    IF Find(cmp, s.tree, Nil) # Nil THEN [s EXCEPT !.res = "CardinalityViolation"]
    ELSE IF s.pool = <<>> THEN [s EXCEPT !.res = "OutOfMemory"]
    ELSE [s EXCEPT !.region[Head(s.pool)] = reg,
                   !.tree = Insert(cmp, s.tree, Head(s.pool)),
                   !.pool = Tail(s.pool)]

(* Tree.Remove of the region that holds an address. *)
RemoveRegion(s, a) ==
    LET n == FindRegion(s, a) IN
    IF n = Nil THEN [s EXCEPT !.res = "NotFound"]
    ELSE [s EXCEPT !.tree = Remove(CompareAddress(s, a), s.tree),
                   !.pool = <<n>> \o s.pool]

SetNext(s, n, next) == IF n = Nil THEN [s EXCEPT !.first = next]
                       ELSE [s EXCEPT !.region[n].next = next]
SetPrev(s, n, prev) == IF n = Nil THEN s ELSE [s EXCEPT !.region[n].prev = prev]

MemoryContentsMergeable(a, b) ==
    a = b /\ a \in {"Generic", "CpuDatas", "VmmBootstrap", "Free"}

SameAttributes(reg, req) ==
    /\ reg.flags = req.flags
    /\ MemoryContentsMergeable(reg.content, req.content)
    /\ reg.strategy = req.strategy
    /\ reg.perm = req.perm

----------------------------------------------------------------------------
(* An operation: op.addr and op.size are Address and Size, op.req is what  *)
(* the range shall become (FreeRequest in a Free).                         *)
Accepted(s, op, n) == (s.region[n].content = "Free") = op.alloc

MeetsLeft(s, op, n) ==
    LET reg == s.region[n] IN
    \/ reg.start = op.addr
    \/ ~op.alloc /\ reg.low /\ reg.start = op.addr - 1

MeetsRight(s, op, n) ==
    LET reg == s.region[n]
        endAddr == op.addr + op.size
    IN  IF op.alloc THEN reg.end = endAddr
        ELSE reg.end <= endAddr \/ (reg.high /\ reg.end = endAddr + 1)

LeftMergeable(s, op, n) ==
    LET prev == s.region[n].prev IN
    /\ MeetsLeft(s, op, n)
    /\ prev # Nil
    /\ IF op.alloc
       THEN ~s.region[prev].high /\ ~op.req.low /\ SameAttributes(s.region[prev], op.req)
       ELSE s.region[prev].content = "Free"


RightMergeable(s, op, n) ==
    LET next == s.region[n].next IN
    /\ MeetsRight(s, op, n)
    /\ next # Nil
    /\ IF op.alloc
       THEN ~s.region[next].low /\ ~op.req.high /\ SameAttributes(s.region[next], op.req)
       ELSE s.region[next].content = "Free"

(* The operation covers the whole region: it is merged into one neighbour, *)
(* both, or none, in which case it only changes what it is.                *)
Whole(s, op, n) ==
    LET reg == s.region[n]
        Absorb(t, end, next) ==
            LET u == RemoveRegion(t, op.addr) IN
            IF u.res # "Okay" THEN u
            ELSE SetPrev([u EXCEPT !.region[reg.prev].end = end,
                                   !.region[reg.prev].next = next], next, reg.prev)
    IN  CASE LeftMergeable(s, op, n) /\ RightMergeable(s, op, n) ->
                LET end == s.region[reg.next].end
                    next == s.region[reg.next].next
                    t == RemoveRegion(s, end - 1)
                IN  IF t.res # "Okay" THEN t ELSE Absorb(t, end, next)
          [] LeftMergeable(s, op, n) /\ ~RightMergeable(s, op, n) ->
                Absorb(s, reg.end, reg.next)
          [] ~LeftMergeable(s, op, n) /\ RightMergeable(s, op, n) ->
                LET t == RemoveRegion(s, op.addr) IN
                IF t.res # "Okay" THEN t
                ELSE SetNext([t EXCEPT !.region[reg.next].start = reg.start,
                                       !.region[reg.next].prev = reg.prev],
                             reg.prev, reg.next)
          [] OTHER ->
                [s EXCEPT !.region[n] =
                    MemoryRegion(reg.start, reg.end, op.req, reg.prev, reg.next)]

(* The operation covers the beginning of the region, which shrinks. *)
Beginning(s, op, n) ==
    LET reg == s.region[n]
        endAddr == op.addr + op.size
        t == [s EXCEPT !.region[n].start = endAddr, !.region[n].low = FALSE]
        u == InsertRegion(t, MemoryRegion(reg.start, endAddr, op.req, reg.prev, n))
    IN  IF LeftMergeable(s, op, n) THEN [t EXCEPT !.region[reg.prev].end = endAddr]
        ELSE IF u.res # "Okay" THEN u
        ELSE SetPrev(SetNext(u, reg.prev, Head(t.pool)), n, Head(t.pool))

(* A mutated form of Ending: the region behind is not told of the new one. *)
EndingUnlinked(s, op, n) ==
    LET reg == s.region[n]
        t == [s EXCEPT !.region[n].end = op.addr, !.region[n].high = FALSE]
        u == InsertRegion(t, MemoryRegion(op.addr, reg.end, op.req, n, reg.next))
    IN  IF RightMergeable(s, op, n) THEN [t EXCEPT !.region[reg.next].start = op.addr]
        ELSE IF u.res # "Okay" THEN u
        ELSE SetNext(u, n, Head(t.pool))

(* The operation covers the end of the region, which shrinks. *)
Ending(s, op, n) ==
    LET reg == s.region[n]
        t == [s EXCEPT !.region[n].end = op.addr, !.region[n].high = FALSE]
        u == InsertRegion(t, MemoryRegion(op.addr, reg.end, op.req, n, reg.next))
    IN  IF RightMergeable(s, op, n) THEN [t EXCEPT !.region[reg.next].start = op.addr]
        ELSE IF u.res # "Okay" THEN u
        ELSE SetPrev(SetNext(u, n, Head(t.pool)), reg.next, Head(t.pool))

(* The operation touches neither end: the region keeps its beginning, and  *)
(* two new ones hold the middle and the rest.                              *)
Middle(s, op, n) ==
    LET reg == s.region[n]
        endAddr == op.addr + op.size
        t == [s EXCEPT !.region[n].end = op.addr, !.region[n].high = FALSE]
        u == InsertRegion(t, MemoryRegion(op.addr, endAddr, op.req, Nil, Nil))
        mid == Head(t.pool)
        rest == [reg EXCEPT !.start = endAddr, !.low = FALSE, !.prev = mid]
        v == InsertRegion(u, rest)
        end == Head(u.pool)
    IN  IF u.res # "Okay" THEN u
        ELSE IF v.res # "Okay" THEN v
        ELSE SetPrev([v EXCEPT !.region[mid].next = end, !.region[mid].prev = n,
                               !.region[n].next = mid], reg.next, end)

Manipulate(s, op, n) ==
    IF MeetsLeft(s, op, n)
    THEN IF MeetsRight(s, op, n) THEN Whole(s, op, n) ELSE Beginning(s, op, n)
    ELSE IF MeetsRight(s, op, n) THEN Ending(s, op, n) ELSE Middle(s, op, n)

(* The first free region, from n on, that holds size pages. *)
RECURSIVE FirstFit(_, _, _)
FirstFit(s, n, size) ==
    IF n = Nil THEN Nil
    ELSE IF s.region[n].content = "Free" /\ s.region[n].end - s.region[n].start >= size
    THEN n ELSE FirstFit(s, s.region[n].next, size)

RECURSIVE Execute(_, _)
Execute(s, op) ==
    LET fit == FirstFit(s, s.first, op.size)
        n == FindRegion(s, op.addr)
        endAddr == op.addr + op.size
        t == IF s.last = n THEN [s EXCEPT !.last = Nil] ELSE s
        u == IF ~Accepted(t, op, n)
             THEN IF op.tolerant THEN t ELSE [t EXCEPT !.res = "PageFree"]
             ELSE IF t.region[n].perm THEN [t EXCEPT !.res = "Failed"]
             ELSE Manipulate(t, op, n)
    IN  IF op.alloc /\ op.addr = nullvaddr
        THEN IF fit = Nil THEN [s EXCEPT !.res = "OutOfMemory"]
             ELSE Execute(s, [op EXCEPT !.addr = s.region[fit].end - op.size])
        ELSE IF n = Nil THEN [s EXCEPT !.res = "ArgumentOutOfRange"]
        ELSE IF endAddr > s.region[n].end /\ ~op.sparse
        THEN [t EXCEPT !.res = "ArgumentOutOfRange"]
        ELSE IF u.res = "Okay" /\ endAddr > s.region[n].end
        THEN Execute(u, [op EXCEPT !.addr = s.region[n].end,
                                   !.size = endAddr - s.region[n].end])
        ELSE u

(* The step of an operation; one that fails and leaves everything as it was *)
(* is a stuttering step, which needs no successor.                          *)
Becomes(s) ==
    /\ [s EXCEPT !.res = "Okay"] # State
    /\ region' = [n \in Node |->
                    IF n \notin {s.pool[i] : i \in DOMAIN s.pool} THEN s.region[n]
                    ELSE IF n = s.last
                    THEN [s.region[n] EXCEPT !.prev = Nil, !.next = Nil] ELSE Blank]
    /\ Tree' = s.tree
    /\ First' = s.first
    /\ LastSearched' = s.last
    /\ pool' = s.pool
    /\ map' = PageMap(s)

----------------------------------------------------------------------------
(* Vas::Allocate, at vaddr or, when it is null, anywhere. *)
Allocate ==
    \E vaddr \in Page \cup {nullvaddr}, size \in 1 .. MaxSize, req \in Requests :
        LET lowOffset == IF req.low THEN 1 ELSE 0
            highOffset == IF req.high THEN 1 ELSE 0
            op == [addr |-> IF vaddr = nullvaddr THEN nullvaddr ELSE vaddr - lowOffset,
                   size |-> size + lowOffset + highOffset, req |-> req,
                   alloc |-> TRUE, sparse |-> FALSE, tolerant |-> FALSE]
        IN  Becomes(Execute(State, op))

(* Vas::Free *)
Free ==
    \E vaddr \in Page, sparse, tolerant \in BOOLEAN :
    \E size \in 1 .. End - vaddr :
        Becomes(Execute(State, [addr |-> vaddr, size |-> size, req |-> FreeRequest,
                                alloc |-> FALSE, sparse |-> sparse,
                                tolerant |-> tolerant]))

(* A mutated form of FaultRegion: LastSearched is not asked for the page. *)
FaultRegionUnasked(p) ==
    IF LastSearched # Nil THEN LastSearched ELSE FindRegion(State, p)

(* The decision of HandlePageFault on an access to page p that the flags   *)
(* of the region allow.                                                    *)
FaultRegion(p) ==
    IF LastSearched # Nil /\ region[LastSearched].start <= p
                          /\ p < region[LastSearched].end
    THEN LastSearched ELSE FindRegion(State, p)

FaultResult(p) ==
    LET n == FaultRegion(p) IN
    IF n = Nil THEN "ArgumentOutOfRange"
    ELSE IF n # LastSearched /\ region[n].content = "Free" THEN "ArgumentOutOfRange"
    ELSE IF n # LastSearched /\ region[n].strategy # "AllocateOnDemand"
    THEN "PageUndemandable"
    ELSE IF \/ region[n].low /\ p < region[n].start + 1
            \/ region[n].high /\ p >= region[n].end - 1
    THEN "PageGuard"
    ELSE "Okay"

HandlePageFault(p) ==
    /\ FaultResult(p) = "Okay"
    /\ LastSearched' = FaultRegion(p)
    /\ region' = [n \in Node |-> IF n = LastSearched /\ n # LastSearched'
                                    /\ n \notin NodesOf(Tree)
                                 THEN Blank ELSE region[n]]
    /\ UNCHANGED <<Tree, First, pool, map>>

Next == Allocate \/ Free \/ \E p \in Page : HandlePageFault(p)

Spec == Init /\ [][Next]_vars
----------------------------------------------------------------------------
Abstract == INSTANCE AddressMap


(* From First on, the Next links visit regions that tile the range of the  *)
(* address space in order and Prev leads back; Free leaves no two free     *)
(* regions side by side, so a request that fits the free pages in a row    *)
(* fits a region, which is what the anonymous search relies on.            *)
RegionsTile ==
    LET live == NodesOf(Tree) IN
    /\ First \in live /\ region[First].start = Start /\ region[First].prev = Nil
    /\ \A n \in live :
        /\ region[n].start < region[n].end
        /\ region[n].next = Nil => region[n].end = End
        /\ region[n].next # Nil =>
            LET next == region[n].next IN
            /\ next \in live /\ region[next].prev = n
            /\ region[next].start = region[n].end
            /\ ~(region[n].content = "Free" /\ region[next].content = "Free")

(* Execute shrinks and extends regions in place, which changes keys of the *)
(* tree under its feet: the tree stays balanced with correct heights, and  *)
(* Find still leads from every address to the region that holds it.        *)
TreeFindsRegions ==
    /\ IsBalanced(Tree)
    /\ \A n \in NodesOf(Tree) :
        \A a \in region[n].start .. region[n].end - 1 : FindRegion(State, a) = n

(* The list and the tree hold the same regions, and both are whole.        *)
RegionsKept == RegionsTile /\ TreeFindsRegions

(* A fault on an allocated page that is to be allocated on demand and is   *)
(* no guard is served, whatever region LastSearched remembers.             *)
FaultsServed ==
    \A p \in Page :
        /\ map[p].strategy = "AllocateOnDemand"
        /\ map[p].guard = "none"
        => FaultResult(p) = "Okay"

(* Remembering a region in LastSearched does not affect correctness: a     *)
(* fault is only served on a page that is allocated on demand and is not a *)
(* guard page.                                                             *)
FaultsOnlyOnDemand ==
    \A p \in Page : FaultResult(p) = "Okay" =>
        /\ map[p].strategy = "AllocateOnDemand"
        /\ map[p].guard = "none"
=============================================================================
