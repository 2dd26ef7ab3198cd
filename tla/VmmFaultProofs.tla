--------------------------- MODULE VmmFaultProofs ---------------------------
(***************************************************************************)
(* The kernel heap keeps frames, page tables, TLBs and regions in step for *)
(* any number of cores, pages and frames and any length of UnmapList.      *)
(*                                                                         *)
(* A frame has one purpose at a time: a page is mapped to it, or its       *)
(* mapping was nulled and the reference is still to be dropped, or it is a *)
(* page table, or a page fault holds it.  Its count follows from that.     *)
(***************************************************************************)
EXTENDS Vmm, TLAPS

Labels == {"idle", "commitLock", "commitPage", "backtrack", "faultLock", "faultFrame",
           "faultMap", "faultCount", "faultFree", "freeLock", "free", "shoot", "wait", "drop"}

Requests == [todo : SUBSET Page, done : SUBSET Page,
             page : Page \cup {None}, frame : Frame \cup {None}]

TypeOK ==
    /\ use \in [Page -> {"Free", "OnDemand", "Commit"}]
    /\ pml \in [2 .. 3 -> Frame \cup {None}]
    /\ pte \in [Page -> Frame \cup {None}]
    /\ count \in [Frame -> {Unused, 0, 1}]
    /\ tlb \in [Cores -> [Page -> Frame \cup {None}]]
    /\ writer \in Cores \cup {None} /\ heapLock \in Cores \cup {None}
    /\ pc \in [Cores -> Labels]
    /\ req \in [Cores -> Requests]
    /\ unmapped \in [Cores -> SUBSET (Page \X Frame)]
    /\ await \in [Cores -> SUBSET Cores]

\* Locks, registers and lists belong to stages of a call.
Stages ==
    \A c \in Cores :
        /\ writer = c <=> pc[c] = "free"
        /\ c \in Readers => writer = None
        /\ heapLock = c => pc[c] \in {"commitPage", "backtrack", "shoot", "wait", "drop"}
        /\ pc[c] \in {"commitPage", "backtrack"} => heapLock = c
        /\ unmapped[c] # {} => pc[c] \in {"shoot", "wait", "drop"}
        /\ await[c] # {} => pc[c] = "wait"
        /\ pc[c] \in {"faultLock", "faultFrame", "faultMap", "faultCount", "faultFree"} =>
              req[c].page \in Page
        /\ pc[c] \in {"faultMap", "faultCount", "faultFree"} => req[c].frame \in Frame
        /\ pc[c] \notin {"commitPage", "backtrack"} => req[c].done = {}
        /\ pc[c] = "idle" \/ c \in Readers \/ pc[c] = "faultLock" => req[c].todo = {}

\* What calls are at work on is allocated, and by one call only: the pages of a
\* call that commits or backtracks, and those of a fault that was looked up.
Ranges ==
    /\ \A p \in Page : pte[p] # None => use[p] # "Free"
    /\ \A c, d \in Cores, p \in Page : p \in Claimed(c) /\ p \in Claimed(d) => c = d
    /\ \A c \in Cores, p \in Page : p \in Claimed(c) => use[p] # "Free"
    /\ \A c \in Cores : pc[c] = "commitLock" \/ heapLock = c =>
          \A p \in Page : p \in Claimed(c) => use[p] = "Commit"
    /\ \A c \in Readers : use[req[c].page] = "OnDemand"

\* Core c holds frame f in a page fault and has not mapped it, or not counted it.
Holding(c, f) == pc[c] \in {"faultMap", "faultFree"} /\ req[c].frame = f
Counting(c, f) == pc[c] = "faultCount" /\ req[c].frame = f

\* Frame f has no two purposes, nor one of them twice.
Sole(f) ==
    /\ \A p, q \in Page : pte[p] = f /\ pte[q] = f => p = q
    /\ \A c, d \in Cores, p, q \in Page :
          <<p, f>> \in unmapped[c] /\ <<q, f>> \in unmapped[d] => c = d /\ p = q
    /\ pml[2] = f => pml[3] # f
    /\ \A c, d \in Cores : Counting(c, f) /\ Counting(d, f) => c = d
    /\ \A c, d \in Cores : Holding(c, f) /\ Holding(d, f) => c = d
    /\ \A p, q \in Page, c \in Cores : pte[p] = f => <<q, f>> \notin unmapped[c]
    /\ \A p \in Page, k \in 2 .. 3 : pte[p] = f => pml[k] # f
    /\ \A p \in Page, c \in Cores : pte[p] = f => ~Holding(c, f)
    /\ \A p \in Page, c \in Cores, k \in 2 .. 3 : <<p, f>> \in unmapped[c] => pml[k] # f

OnePurpose == \A f \in Frame : Sole(f)

\* The count of frame f is one when it is in use, but zero while a fault has not
\* counted the mapping it made.
InCount(f) ==
    /\ \A p \in Page : pte[p] = f => \/ count[f] = 1
                                     \/ count[f] = 0 /\ \E c \in Cores : Counting(c, f)
    /\ \A c \in Cores, p \in Page : <<p, f>> \in unmapped[c] => count[f] = 1
    /\ \A k \in 2 .. 3 : pml[k] = f => count[f] = 1
    /\ \A c \in Cores : Holding(c, f) => count[f] = 0
    /\ \A c \in Cores : Counting(c, f) => count[f] = 0 /\ pte[req[c].page] = f
    /\ count[f] = 1 => \/ \E p \in Page : pte[p] = f
                       \/ \E c \in Cores, p \in Page : <<p, f>> \in unmapped[c]
                       \/ \E k \in 2 .. 3 : pml[k] = f

Counted == /\ pml[3] = None => pml[2] = None
           /\ \A f \in Frame : InCount(f)

IInv == TypeOK /\ Stages /\ Ranges /\ OnePurpose /\ Counted /\ StaleTranslationsPending

-----------------------------------------------------------------------------
\* A step gives frame g no new purpose, or takes none of its purposes away.
NoMore(g) ==
    /\ \A p \in Page : pte'[p] = g => pte[p] = g
    /\ \A k \in 2 .. 3 : pml'[k] = g => pml[k] = g
    /\ \A c \in Cores : (Holding(c, g)' => Holding(c, g)) /\ (Counting(c, g)' => Counting(c, g))
    /\ \A c \in Cores, p \in Page : <<p, g>> \in unmapped'[c] => <<p, g>> \in unmapped[c]

NoLess(g) ==
    /\ \A p \in Page : pte[p] = g => pte'[p] = g
    /\ \A k \in 2 .. 3 : pml[k] = g => pml'[k] = g
    /\ \A c \in Cores : Counting(c, g) =>
          Counting(c, g)' /\ req'[c].page = req[c].page /\ req[c].page \in Page
    /\ \A c \in Cores, p \in Page : <<p, g>> \in unmapped[c] => <<p, g>> \in unmapped'[c]

LEMMA StaysSole == ASSUME NEW g, Sole(g), NoMore(g) PROVE Sole(g)'
<1>1. /\ \A p, q \in Page : pte'[p] = g /\ pte'[q] = g => p = q
      /\ pml'[2] = g => pml'[3] # g
  <2>1. /\ \A p, q \in Page : pte[p] = g /\ pte[q] = g => p = q
        /\ pml[2] = g => pml[3] # g
    BY Zenon DEF Sole
  <2>2. \A k \in 2 .. 3 : pml'[k] = g => pml[k] = g
    BY Zenon DEF NoMore
  <2>3. 2 \in 2 .. 3 /\ 3 \in 2 .. 3
    OBVIOUS
  <2> QED
    BY <2>1, <2>2, <2>3, Zenon DEF NoMore
<1>2. \A c, d \in Cores, p, q \in Page :
          <<p, g>> \in unmapped'[c] /\ <<q, g>> \in unmapped'[d] => c = d /\ p = q
  <2>1. \A c, d \in Cores, p, q \in Page :
          <<p, g>> \in unmapped[c] /\ <<q, g>> \in unmapped[d] => c = d /\ p = q
    BY Zenon DEF Sole
  <2>2. \A c \in Cores, p \in Page : <<p, g>> \in unmapped'[c] => <<p, g>> \in unmapped[c]
    BY Zenon DEF NoMore
  <2> HIDE DEF NoMore, Sole
  <2> QED
    BY <2>1, <2>2
<1>3. /\ \A c, d \in Cores : Counting(c, g)' /\ Counting(d, g)' => c = d
      /\ \A c, d \in Cores : Holding(c, g)' /\ Holding(d, g)' => c = d
  BY Zenon DEF NoMore, Sole
<1>4. /\ \A p, q \in Page, c \in Cores : pte'[p] = g => <<q, g>> \notin unmapped'[c]
      /\ \A p \in Page, c \in Cores : pte'[p] = g => ~Holding(c, g)'
  BY Zenon DEF NoMore, Sole
<1>5. /\ \A p \in Page, k \in 2 .. 3 : pte'[p] = g => pml'[k] # g
      /\ \A p \in Page, c \in Cores, k \in 2 .. 3 : <<p, g>> \in unmapped'[c] => pml'[k] # g
  BY Zenon DEF NoMore, Sole
<1> QED
  BY <1>1, <1>2, <1>3, <1>4, <1>5, Zenon DEF Sole

LEMMA StaysCounted ==
    ASSUME NEW g, InCount(g), NoMore(g), NoLess(g), count'[g] = count[g] PROVE InCount(g)'
<1>1. \A p \in Page : pte'[p] = g => \/ count'[g] = 1
                                     \/ count'[g] = 0 /\ \E c \in Cores : Counting(c, g)'
  BY Zenon DEF NoMore, NoLess, InCount
<1>2. /\ \A c \in Cores, p \in Page : <<p, g>> \in unmapped'[c] => count'[g] = 1
      /\ \A k \in 2 .. 3 : pml'[k] = g => count'[g] = 1
      /\ \A c \in Cores : Holding(c, g)' => count'[g] = 0
  BY Zenon DEF NoMore, InCount
<1>3. \A c \in Cores : Counting(c, g)' => count'[g] = 0 /\ pte'[req'[c].page] = g
  BY Zenon DEF NoMore, NoLess, InCount
<1>4. count'[g] = 1 => \/ \E p \in Page : pte'[p] = g
                       \/ \E c \in Cores, p \in Page : <<p, g>> \in unmapped'[c]
                       \/ \E k \in 2 .. 3 : pml'[k] = g
  BY Zenon DEF NoLess, InCount
<1> QED
  BY <1>1, <1>2, <1>3, <1>4, Zenon DEF InCount

-----------------------------------------------------------------------------
\* What MapPageInternal leaves: frames that were free become the missing tables,
\* each for one, with a count of one, and the page is mapped when all went well.
Left(cnt, p, f, o) ==
    /\ o.pml \in [2 .. 3 -> Frame \cup {None}] /\ o.count \in [Frame -> {Unused, 0, 1}]
    /\ o.pml[3] = None => o.pml[2] = None
    /\ \A k \in 2 .. 3 : o.pml[k] # pml[k] => /\ pml[k] = None /\ o.pml[k] \in Frame
                                              /\ cnt[o.pml[k]] = Unused
    /\ o.pml[2] # pml[2] /\ o.pml[3] # pml[3] => o.pml[2] # o.pml[3]
    /\ \A g \in Frame : \/ o.count[g] = 1 /\ cnt[g] = Unused
                           /\ \E k \in 2 .. 3 : o.pml[k] = g /\ pml[k] # g
                        \/ o.count[g] = cnt[g] /\ \A k \in 2 .. 3 : o.pml[k] = g => pml[k] = g
    /\ \/ o.res = "Okay" /\ pte[p] = None /\ o.pte = [pte EXCEPT ![p] = f]
       \/ o.res # "Okay" /\ o.pte = pte

LEMMA MapOutcome ==
    ASSUME pml \in [2 .. 3 -> Frame \cup {None}], pml[3] = None => pml[2] = None,
           NEW cnt \in [Frame -> {Unused, 0, 1}], NEW p, NEW f,
           NEW o \in MapOutcomes(cnt, p, f)
    PROVE  Left(cnt, p, f, o)
<1> DEFINE free == FreeFrames(cnt)
           Choices(n) == {s \in [1 .. n -> free] : \A i, j \in 1 .. n : i # j => s[i] # s[j]}
           have == IF Choices(Missing) # {} THEN Missing ELSE IF free # {} THEN 1 ELSE 0
           Fresh == Choices(have)
           NewTables(s) == [k \in 2 .. 3 |-> IF Missing + 2 - k \in 1 .. have
                                             THEN s[Missing + 2 - k] ELSE pml[k]]
           NewCount(s) == [g \in Frame |-> IF \E i \in 1 .. have : s[i] = g THEN 1 ELSE cnt[g]]
           Outcome(s, ptes, res) ==
               [pml |-> NewTables(s), pte |-> ptes, res |-> res, count |-> NewCount(s)]
<1>1. /\ Missing \in 0 .. 2 /\ have \in 0 .. Missing
      /\ Missing = 2 => pml[3] = None /\ pml[2] = None
      /\ Missing = 1 => pml[3] # None /\ pml[2] = None
      /\ Missing = 0 => pml[3] # None
  <2>1. Missing \in 0 .. 2
    BY DEF Missing
  <2>2. have \in 0 .. Missing
    <3>1. CASE Missing = 0
      <4>1. 1 .. 0 = {}
        OBVIOUS
      <4>2. [i \in 1 .. 0 |-> None] \in [1 .. 0 -> free]
        BY <4>1, Zenon
      <4>3. [i \in 1 .. 0 |-> None] \in Choices(0)
        BY <4>1, <4>2, Zenon
      <4>4. have = 0
        BY <3>1, <4>3, Zenon
      <4> QED
        BY <3>1, <4>4
    <3>2. CASE Missing # 0
      BY <2>1, <3>2
    <3> QED
      BY <3>1, <3>2, Zenon
  <2> QED
    BY <2>1, <2>2 DEF Missing
<1>2. o \in IF have < Missing THEN {Outcome(s, pte, "OutOfMemory") : s \in Fresh}
            ELSE IF pte[p] # None THEN {Outcome(s, pte, "PageMapped") : s \in Fresh}
            ELSE {Outcome(s, [pte EXCEPT ![p] = f], "Okay") : s \in Fresh}
  BY Zenon DEF MapOutcomes
<1>3. \A s \in Fresh : \A i \in 1 .. have : s[i] \in Frame /\ cnt[s[i]] = Unused
  BY Zenon DEF FreeFrames
<1>4. \A s \in Fresh : \A i, j \in 1 .. have : i # j => s[i] # s[j]
  BY Zenon
<1> HIDE DEF have, Fresh, NewTables, NewCount
<1>5. PICK s \in Fresh :
         /\ o.pml = NewTables(s) /\ o.count = NewCount(s)
         /\ \/ o.res = "Okay" /\ pte[p] = None /\ o.pte = [pte EXCEPT ![p] = f]
            \/ o.res # "Okay" /\ o.pte = pte
  <2>1. PICK s \in Fresh :
           \/ o = Outcome(s, pte, "OutOfMemory")
           \/ o = Outcome(s, pte, "PageMapped")
           \/ pte[p] = None /\ o = Outcome(s, [pte EXCEPT ![p] = f], "Okay")
    BY <1>2, Zenon
  <2>2. /\ \A ptes, res : /\ Outcome(s, ptes, res).pml = NewTables(s)
                          /\ Outcome(s, ptes, res).count = NewCount(s)
                          /\ Outcome(s, ptes, res).pte = ptes
                          /\ Outcome(s, ptes, res).res = res
    BY Zenon
  <2> HIDE DEF Outcome
  <2>3. "OutOfMemory" # "Okay" /\ "PageMapped" # "Okay"
    BY Zenon
  <2>4. /\ o.pml = NewTables(s) /\ o.count = NewCount(s)
        /\ \/ o.res = "Okay" /\ pte[p] = None /\ o.pte = [pte EXCEPT ![p] = f]
           \/ o.res # "Okay" /\ o.pte = pte
    BY <2>1, <2>2, <2>3
  <2> QED
    BY <2>4, Zenon
<1>6. /\ \A k \in 2 .. 3 : \/ Missing + 2 - k \in 1 .. have /\ o.pml[k] = s[Missing + 2 - k]
                           \/ Missing + 2 - k \notin 1 .. have /\ o.pml[k] = pml[k]
      /\ DOMAIN o.pml = 2 .. 3 /\ o.pml = [k \in 2 .. 3 |-> o.pml[k]]
  BY <1>5, Zenon DEF NewTables
<1>7. /\ \A g \in Frame : \/ o.count[g] = 1 /\ \E i \in 1 .. have : s[i] = g
                          \/ o.count[g] = cnt[g] /\ \A i \in 1 .. have : s[i] # g
      /\ o.count = [g \in Frame |-> o.count[g]]
  BY <1>5, Zenon DEF NewCount
<1>8. \A k \in 2 .. 3 : o.pml[k] # pml[k] => /\ pml[k] = None /\ o.pml[k] \in Frame
                                             /\ cnt[o.pml[k]] = Unused
  BY <1>1, <1>3, <1>6
<1>9. /\ o.pml[2] # pml[2] /\ o.pml[3] # pml[3] => o.pml[2] # o.pml[3]
      /\ o.pml[3] = None => o.pml[2] = None
  BY <1>1, <1>3, <1>4, <1>6, VmmAssumption
<1>10. ASSUME NEW g \in Frame
       PROVE  \/ o.count[g] = 1 /\ cnt[g] = Unused
                 /\ \E k \in 2 .. 3 : o.pml[k] = g /\ pml[k] # g
              \/ o.count[g] = cnt[g] /\ \A k \in 2 .. 3 : o.pml[k] = g => pml[k] = g
  <2>1. CASE \E i \in 1 .. have : s[i] = g
    <3>1. PICK i \in 1 .. have : s[i] = g
      BY <2>1, Zenon
    <3>2. /\ Missing + 2 - i \in 2 .. 3 /\ Missing + 2 - (Missing + 2 - i) = i
          /\ pml[Missing + 2 - i] = None
      BY <1>1
    <3>3. o.pml[Missing + 2 - i] = g
      BY <1>6, <3>1, <3>2, Zenon
    <3>4. cnt[g] = Unused /\ o.count[g] = 1
      BY <1>3, <1>7, <2>1, <3>1
    <3> QED
      BY <3>2, <3>3, <3>4, VmmAssumption, Zenon
  <2>2. CASE ~ \E i \in 1 .. have : s[i] = g
    BY <1>6, <1>7, <2>2
  <2> QED
    BY <2>1, <2>2, Zenon
<1>11. /\ o.pml \in [2 .. 3 -> Frame \cup {None}]
       /\ o.count \in [Frame -> {Unused, 0, 1}]
  <2>1. \A k \in 2 .. 3 : o.pml[k] \in Frame \cup {None}
    BY <1>8, Zenon
  <2>2. \A g \in Frame : o.count[g] \in {Unused, 0, 1}
    BY <1>7, Zenon
  <2> QED
    BY <1>6, <1>7, <2>1, <2>2, Zenon
<1> QED
  BY <1>5, <1>8, <1>9, <1>10, <1>11, Zenon DEF Left

-----------------------------------------------------------------------------
\* The locks, registers, lists and pages of calls, for the steps that leave page
\* tables, counts, TLBs and lists alone.
Quiet(c) ==
    \/ \E kind \in {"OnDemand", "Commit"} : AllocatePages(c, kind)
    \/ CommitLock(c) \/ CommitNoFrame(c) \/ CommitDone(c)
    \/ \E p \in Page : HandlePageFault(c, p)
    \/ FaultLookup(c) \/ FaultNoFrame(c)
    \/ FreePages(c) \/ FreeLock(c) \/ InvalidateReturn(c) \/ UnmapReturn(c)
    \/ NextRound(c) /\ heapLock # c

\* No other call moves, and this one is not in the middle of a fault or a shootdown.
Aside(c) ==
    /\ UNCHANGED <<tables, count, tlb, shootdown>>
    /\ pc' \in [Cores -> Labels] /\ req' \in [Cores -> Requests]
    /\ \A d \in Cores \ {c} : pc'[d] = pc[d] /\ req'[d] = req[d]
    /\ pc[c] \notin {"faultMap", "faultCount", "faultFree", "shoot"}
    /\ pc'[c] \notin {"faultMap", "faultCount", "faultFree", "shoot"}

LEMMA RequestFields ==
    /\ NoCall \in Requests /\ NoCall.todo = {} /\ NoCall.done = {}
    /\ \A r \in Requests, S \in SUBSET Page :
          /\ [r EXCEPT !.todo = S] \in Requests
          /\ [r EXCEPT !.todo = S].todo = S /\ [r EXCEPT !.todo = S].done = r.done
          /\ [r EXCEPT !.todo = S].page = r.page /\ [r EXCEPT !.todo = S].frame = r.frame
    /\ \A r \in Requests, p \in Page :
          /\ [r EXCEPT !.page = p] \in Requests
          /\ [r EXCEPT !.page = p].todo = r.todo /\ [r EXCEPT !.page = p].done = r.done
          /\ [r EXCEPT !.page = p].page = p /\ [r EXCEPT !.page = p].frame = r.frame
    /\ \A r \in Requests, f \in Frame :
          /\ [r EXCEPT !.frame = f] \in Requests
          /\ [r EXCEPT !.frame = f].todo = r.todo /\ [r EXCEPT !.frame = f].done = r.done
          /\ [r EXCEPT !.frame = f].page = r.page /\ [r EXCEPT !.frame = f].frame = f
  BY Zenon DEF Requests, NoCall

LEMMA QuietAside ==
    ASSUME IInv, NEW c \in Cores, Quiet(c)
    PROVE  Aside(c)
<1>0. pc \in [Cores -> Labels] /\ req \in [Cores -> Requests]
  BY Zenon DEF IInv, TypeOK
<1>r. \A i, j \in Page : i .. j \in SUBSET Page
  BY VmmAssumption DEF Page
<1> USE DEF Labels, tables, shootdown, locks, Goto, Finish, Aside
<1>1. ASSUME NEW kind \in {"OnDemand", "Commit"}, AllocatePages(c, kind) PROVE Aside(c)
  <2>1. PICK i, j \in Page : IF kind = "Commit"
                             THEN /\ pc' = [pc EXCEPT ![c] = "commitLock"]
                                  /\ req' = [req EXCEPT ![c].todo = i .. j]
                             ELSE UNCHANGED <<pc, req>>
    BY <1>1, Zenon DEF AllocatePages
  <2>2. PICK S \in SUBSET Page : S = i .. j
    BY <1>r, Zenon
  <2>3. /\ pc' \in [Cores -> Labels] /\ req' \in [Cores -> Requests]
        /\ \A d \in Cores \ {c} : pc'[d] = pc[d] /\ req'[d] = req[d]
        /\ pc[c] = "idle" => pc'[c] \in {"idle", "commitLock"}
    <3>1. CASE kind = "Commit"
      <4>1. pc' = [pc EXCEPT ![c] = "commitLock"] /\ req' = [req EXCEPT ![c].todo = S]
        BY <2>1, <2>2, <3>1, Zenon
      <4> QED
        BY <1>0, <4>1, RequestFields, Zenon
    <3>2. CASE kind # "Commit"
      BY <1>0, <2>1, <3>2, Zenon
    <3> QED
      BY <3>1, <3>2, Zenon
  <2> QED
    BY <1>1, <2>3, Zenon DEF AllocatePages
<1>2. CASE CommitLock(c) \/ CommitNoFrame(c) \/ CommitDone(c)
  BY <1>0, <1>2, RequestFields DEF CommitLock, CommitNoFrame, CommitDone
<1>3. ASSUME NEW p \in Page, HandlePageFault(c, p) PROVE Aside(c)
  BY <1>0, <1>3, RequestFields, Zenon DEF HandlePageFault
<1>4. CASE FaultLookup(c) \/ FaultNoFrame(c)
  BY <1>0, <1>4, RequestFields DEF FaultLookup, FaultNoFrame
<1>5. CASE FreePages(c)
  <2>1. PICK i, j \in Page : req' = [req EXCEPT ![c].todo = i .. j]
    BY <1>5, Zenon DEF FreePages
  <2>2. PICK S \in SUBSET Page : S = i .. j
    BY <1>r, Zenon
  <2>3. /\ req' \in [Cores -> Requests]
        /\ \A d \in Cores \ {c} : req'[d] = req[d]
    BY <1>0, <2>1, <2>2, RequestFields, Zenon
  <2> QED
    BY <1>0, <1>5, <2>3, Zenon DEF FreePages
<1>6. CASE FreeLock(c) \/ InvalidateReturn(c) \/ UnmapReturn(c)
  BY <1>0, <1>6, RequestFields DEF FreeLock, InvalidateReturn, UnmapReturn
<1>7. CASE NextRound(c) /\ heapLock # c
  BY <1>0, <1>7, RequestFields DEF NextRound
<1> QED
  BY <1>1, <1>2, <1>3, <1>4, <1>5, <1>6, <1>7, Zenon DEF Quiet

\* The frames are as they were.
LEMMA AsideFrames ==
    ASSUME IInv, NEW c \in Cores, Aside(c)
    PROVE  OnePurpose' /\ Counted' /\ StaleTranslationsPending'
<1>1. \A d \in Cores, f \in Frame : Holding(d, f)' = Holding(d, f) /\ Counting(d, f)' = Counting(d, f)
  BY Zenon DEF Aside, Holding, Counting
<1>2. \A d \in Cores : pc'[d] = "shoot" <=> pc[d] = "shoot"
  BY Zenon DEF Aside
<1>3. \A d \in Cores, f \in Frame : Counting(d, f) => req'[d] = req[d]
  BY Zenon DEF Aside, Counting
<1>4. UNCHANGED <<pml, pte, count, tlb, unmapped, await>>
  BY Zenon DEF Aside, tables, shootdown
<1>5. OnePurpose'
  BY <1>1, <1>4, ZenonT(40) DEF IInv, OnePurpose, Sole
<1>6. Counted'
  BY <1>1, <1>3, <1>4 DEF IInv, Counted, InCount
<1>7. StaleTranslationsPending'
  BY <1>2, <1>4, Zenon DEF IInv, StaleTranslationsPending
<1> QED
  BY <1>5, <1>6, <1>7, Zenon

LEMMA QuietTypeOK ==
    ASSUME IInv, NEW c \in Cores, Quiet(c)
    PROVE  TypeOK'
<1>0. TypeOK /\ Aside(c)
  BY QuietAside, Zenon DEF IInv
<1>1. /\ use' \in [Page -> {"Free", "OnDemand", "Commit"}]
      /\ writer' \in Cores \cup {None} /\ heapLock' \in Cores \cup {None}
  BY <1>0, Zenon DEF TypeOK, Quiet, AllocatePages, CommitLock, CommitNoFrame, CommitDone, HandlePageFault,
              FaultLookup, FaultNoFrame, FreePages, FreeLock, InvalidateReturn, UnmapReturn,
              NextRound, locks
<1> QED
  BY <1>0, <1>1, Zenon DEF TypeOK, Aside, tables, shootdown

\* Core c takes no page that its call did not have.
Confined(c) ==
    /\ use' = use
    /\ \A d \in Cores \ {c} : heapLock' = d => heapLock = d
    /\ \A p \in Page : p \in req'[c].todo \/ p \in req'[c].done => p \in Claimed(c)
    /\ \/ pc'[c] # "commitLock" /\ heapLock' # c
       \/ pc[c] = "commitLock" \/ heapLock = c
       \/ \A p \in Page : p \notin req'[c].todo /\ p \notin req'[c].done
    /\ c \in Readers' => use[req'[c].page] = "OnDemand"

LEMMA RangesKept ==
    ASSUME TypeOK, TypeOK', Ranges, NEW c \in Cores, Confined(c),
           \A d \in Cores \ {c} : pc'[d] = pc[d] /\ req'[d] = req[d],
           \A p \in Page : pte'[p] # None => use[p] # "Free"
    PROVE  Ranges'
<1>1. \A d \in Cores, p \in Page :
         /\ p \in Claimed(d) <=> p \in req[d].todo \/ p \in req[d].done
         /\ p \in Claimed(d)' <=> p \in req'[d].todo \/ p \in req'[d].done
  BY Zenon DEF Claimed
<1>2. \A d \in Cores, p \in Page : p \in Claimed(d)' => p \in Claimed(d)
  BY <1>1, Zenon DEF Confined
<1>3. \A p \in Page : pte'[p] # None => use'[p] # "Free"
  BY Zenon DEF Confined
<1>4. \A d, e \in Cores, p \in Page : p \in Claimed(d)' /\ p \in Claimed(e)' => d = e
  BY <1>2, Zenon DEF Ranges, Confined
<1>5. \A d \in Cores, p \in Page : p \in Claimed(d)' => use'[p] # "Free"
  BY <1>2, Zenon DEF Ranges, Confined
<1>6. \A d \in Cores : pc'[d] = "commitLock" \/ heapLock' = d =>
         \A p \in Page : p \in Claimed(d)' => use'[p] = "Commit"
  BY <1>1, <1>2 DEF Ranges, Confined
<1>7. \A d \in Readers' : use'[req'[d].page] = "OnDemand"
  BY Zenon DEF Ranges, Readers, Confined
<1> QED
  BY <1>3, <1>4, <1>5, <1>6, <1>7, Zenon DEF Ranges

LEMMA QuietStages ==
    ASSUME IInv, NEW c \in Cores, Quiet(c)
    PROVE  Stages' /\ Ranges'
<1>0. TypeOK /\ TypeOK' /\ Stages /\ Ranges /\ Aside(c)
  BY QuietAside, QuietTypeOK, Zenon DEF IInv
<1>r. \A p \in Page : p \in Claimed(c) <=> p \in req[c].todo \/ p \in req[c].done
  BY Zenon DEF Claimed
<1>p. \A p \in Page : pte'[p] # None => use[p] # "Free"
  BY <1>0, Zenon DEF Aside, tables, Ranges
<1> USE DEF Aside, tables, shootdown, locks, Goto, Finish, Readers
<1>1. ASSUME NEW p \in Page, HandlePageFault(c, p) PROVE Stages' /\ Ranges'
  <2>1. Stages'
    BY <1>0, <1>1, RequestFields DEF TypeOK, Stages, HandlePageFault
  <2>2. Ranges'
    <3>1. /\ use' = use /\ heapLock' = heapLock /\ pc[c] = "idle" /\ pc'[c] = "faultLock"
          /\ req'[c].todo = req[c].todo /\ req'[c].done = req[c].done
      BY <1>0, <1>1, RequestFields DEF TypeOK, HandlePageFault
    <3> QED
      BY <1>0, <1>p, <1>r, <3>1, RangesKept, Zenon DEF Stages, Confined
  <2> QED
    BY <2>1, <2>2, Zenon
<1>2. CASE CommitLock(c)
  <2>1. Stages'
    BY <1>0, <1>2, RequestFields, VmmAssumption DEF TypeOK, Stages, CommitLock
  <2>2. Ranges'
    <3>1. Confined(c)
      BY <1>0, <1>2, <1>r, RequestFields, VmmAssumption DEF TypeOK, Stages, Confined, CommitLock
    <3> QED
      BY <1>0, <1>p, <3>1, RangesKept, Zenon
  <2> QED
    BY <2>1, <2>2, Zenon
<1>3. CASE CommitNoFrame(c)
  <2>1. Stages'
    BY <1>0, <1>3, RequestFields, VmmAssumption DEF TypeOK, Stages, CommitNoFrame
  <2>2. Ranges'
    <3>1. Confined(c)
      BY <1>0, <1>3, <1>r, RequestFields, VmmAssumption DEF TypeOK, Stages, Confined, CommitNoFrame
    <3> QED
      BY <1>0, <1>p, <3>1, RangesKept, Zenon
  <2> QED
    BY <2>1, <2>2, Zenon
<1>4. CASE CommitDone(c)
  <2>1. Stages'
    BY <1>0, <1>4, RequestFields, VmmAssumption DEF TypeOK, Stages, CommitDone
  <2>2. Ranges'
    <3>1. Confined(c)
      BY <1>0, <1>4, <1>r, RequestFields, VmmAssumption DEF TypeOK, Stages, Confined, CommitDone
    <3> QED
      BY <1>0, <1>p, <3>1, RangesKept, Zenon
  <2> QED
    BY <2>1, <2>2, Zenon
<1>5. CASE FaultLookup(c)
  <2>1. Stages'
    BY <1>0, <1>5, RequestFields, VmmAssumption DEF TypeOK, Stages, FaultLookup
  <2>2. Ranges'
    <3>1. Confined(c)
      BY <1>0, <1>5, <1>r, RequestFields, VmmAssumption DEF TypeOK, Stages, Confined, FaultLookup
    <3> QED
      BY <1>0, <1>p, <3>1, RangesKept, Zenon
  <2> QED
    BY <2>1, <2>2, Zenon
<1>6. CASE FaultNoFrame(c)
  <2>1. Stages'
    BY <1>0, <1>6, RequestFields, VmmAssumption DEF TypeOK, Stages, FaultNoFrame
  <2>2. Ranges'
    <3>1. Confined(c)
      BY <1>0, <1>6, <1>r, RequestFields, VmmAssumption DEF TypeOK, Stages, Confined, FaultNoFrame
    <3> QED
      BY <1>0, <1>p, <3>1, RangesKept, Zenon
  <2> QED
    BY <2>1, <2>2, Zenon
<1>7. CASE FreeLock(c)
  <2>1. Stages'
    BY <1>0, <1>7, RequestFields, VmmAssumption DEF TypeOK, Stages, FreeLock
  <2>2. Ranges'
    <3>1. Confined(c)
      BY <1>0, <1>7, <1>r, RequestFields, VmmAssumption DEF TypeOK, Stages, Confined, FreeLock
    <3> QED
      BY <1>0, <1>p, <3>1, RangesKept, Zenon
  <2> QED
    BY <2>1, <2>2, Zenon
<1>8. CASE InvalidateReturn(c)
  <2>1. Stages'
    BY <1>0, <1>8, RequestFields, VmmAssumption DEF TypeOK, Stages, InvalidateReturn
  <2>2. Ranges'
    <3>1. Confined(c)
      BY <1>0, <1>8, <1>r, RequestFields, VmmAssumption DEF TypeOK, Stages, Confined, InvalidateReturn
    <3> QED
      BY <1>0, <1>p, <3>1, RangesKept, Zenon
  <2> QED
    BY <2>1, <2>2, Zenon
<1>9. CASE UnmapReturn(c)
  <2>1. Stages'
    BY <1>0, <1>9, RequestFields, VmmAssumption DEF TypeOK, Stages, UnmapReturn
  <2>2. Ranges'
    <3>1. Confined(c)
      BY <1>0, <1>9, <1>r, RequestFields, VmmAssumption DEF TypeOK, Stages, Confined, UnmapReturn
    <3> QED
      BY <1>0, <1>p, <3>1, RangesKept, Zenon
  <2> QED
    BY <2>1, <2>2, Zenon
<1>10. CASE NextRound(c) /\ heapLock # c
  <2>1. Stages'
    <3>1. /\ pc[c] = "drop" /\ unmapped[c] = {} /\ pc' = [pc EXCEPT ![c] = "freeLock"]
          /\ UNCHANGED <<req, unmapped, await, writer, heapLock>>
      BY <1>10, Zenon DEF NextRound
    <3> QED
      BY <1>0, <1>10, <3>1 DEF TypeOK, Stages
  <2>2. Ranges'
    <3>1. Confined(c)
      BY <1>0, <1>10, <1>r, RequestFields, VmmAssumption DEF TypeOK, Stages, Confined, NextRound
    <3> QED
      BY <1>0, <1>p, <3>1, RangesKept, Zenon
  <2> QED
    BY <2>1, <2>2, Zenon
<1>11. CASE FreePages(c)
  <2>1. PICK i, j \in Page : /\ req' = [req EXCEPT ![c].todo = i .. j]
                             /\ \A p \in i .. j : use[p] # "Free" /\ Settled(p)
    BY <1>11, Zenon DEF FreePages
  <2>2. PICK S \in SUBSET Page : S = i .. j
    BY VmmAssumption DEF Page
  <2>3. /\ pc[c] = "idle" /\ pc' = [pc EXCEPT ![c] = "freeLock"]
        /\ UNCHANGED <<use, writer, heapLock, unmapped, await>>
    BY <1>11, Zenon DEF FreePages
  <2>4. req'[c].todo = S /\ req'[c].done = req[c].done
    BY <1>0, <2>1, <2>2, RequestFields DEF TypeOK
  <2>5. Stages'
    BY <1>0, <2>3, <2>4 DEF TypeOK, Stages
  <2>6. \A d \in Cores, p \in S : use[p] # "Free" /\ p \notin Claimed(d)
    BY <2>1, <2>2, Zenon DEF Settled
  <2>7. Ranges'
    <3>1. \A p \in Page : p \in Claimed(c)' <=> p \in S
      BY <1>0, <2>3, <2>4, Zenon DEF Claimed, Stages
    <3>2. \A d \in Cores \ {c}, p \in Page : p \in Claimed(d)' <=> p \in Claimed(d)
      BY <1>0, Zenon DEF Claimed
    <3>3. \A d, e \in Cores, p \in Page : p \in Claimed(d)' /\ p \in Claimed(e)' => d = e
      BY <1>0, <2>6, <3>1, <3>2, Zenon DEF Ranges
    <3>4. \A d \in Cores, p \in Page : p \in Claimed(d)' => use'[p] # "Free"
      BY <1>0, <2>3, <2>6, <3>1, <3>2, Zenon DEF Ranges
    <3>5. \A d \in Cores : pc'[d] = "commitLock" \/ heapLock' = d =>
             \A p \in Page : p \in Claimed(d)' => use'[p] = "Commit"
      <4>1. pc'[c] # "commitLock" /\ heapLock' # c
        BY <1>0, <2>3, Zenon DEF TypeOK, Stages
      <4> QED
        BY <1>0, <2>3, <3>2, <4>1 DEF Ranges
    <3>6. \A d \in Readers' : use'[req'[d].page] = "OnDemand"
      BY <1>0, <2>3 DEF TypeOK, Ranges
    <3> QED
      BY <1>0, <1>p, <2>3, <3>3, <3>4, <3>5, <3>6, Zenon DEF Ranges
  <2> QED
    BY <2>5, <2>7, Zenon
<1>12. ASSUME NEW kind \in {"OnDemand", "Commit"}, AllocatePages(c, kind) PROVE Stages' /\ Ranges'
  <2>1. PICK i, j \in Page :
           /\ \A p \in i .. j : use[p] = "Free"
           /\ use' = [p \in Page |-> IF p \in i .. j THEN kind ELSE use[p]]
           /\ IF kind = "Commit" THEN /\ pc' = [pc EXCEPT ![c] = "commitLock"]
                                      /\ req' = [req EXCEPT ![c].todo = i .. j]
              ELSE UNCHANGED <<pc, req>>
    BY <1>12, Zenon DEF AllocatePages
  <2>2. PICK S \in SUBSET Page : S = i .. j
    BY VmmAssumption DEF Page
  <2>3. pc[c] = "idle" /\ Readers = {} /\ UNCHANGED <<pte, writer, heapLock, unmapped, await>>
    BY <1>12, Zenon DEF AllocatePages
  <2>4. \/ kind = "Commit" /\ pc'[c] = "commitLock" /\ req'[c].todo = S /\ req'[c].done = req[c].done
        \/ kind = "OnDemand" /\ pc' = pc /\ req' = req
    <3>1. CASE kind = "Commit"
      <4>1. pc' = [pc EXCEPT ![c] = "commitLock"] /\ req' = [req EXCEPT ![c].todo = S]
        BY <2>1, <2>2, <3>1, Zenon
      <4> QED
        BY <1>0, <3>1, <4>1, RequestFields DEF TypeOK
    <3> QED
      BY <2>1, <3>1, Zenon
  <2>5. Stages'
    BY <1>0, <2>3, <2>4, SMTT(40) DEF TypeOK, Stages
  <2>6. \A p \in Page : IF p \in S THEN use[p] = "Free" /\ use'[p] = kind ELSE use'[p] = use[p]
    BY <2>1, <2>2, Zenon
  <2>7. Ranges'
    <3>1. \A p \in Page : p \notin Claimed(c) /\ (p \in Claimed(c)' => kind = "Commit" /\ p \in S)
      BY <1>0, <2>3, <2>4, Zenon DEF Claimed, Stages
    <3>2. \A d \in Cores \ {c}, p \in Page : p \in Claimed(d)' <=> p \in Claimed(d)
      BY <1>0, Zenon DEF Claimed
    <3>3. \A d, e \in Cores, p \in Page : p \in Claimed(d)' /\ p \in Claimed(e)' => d = e
      BY <1>0, <2>6, <3>1, <3>2 DEF Ranges
    <3>4. \A d \in Cores, p \in Page : p \in Claimed(d)' => use'[p] # "Free"
      BY <1>0, <2>6, <3>1, <3>2 DEF Ranges
    <3>5. \A d \in Cores : pc'[d] = "commitLock" \/ heapLock' = d =>
             \A p \in Page : p \in Claimed(d)' => use'[p] = "Commit"
      BY <1>0, <2>3, <2>6, <3>1, <3>2, SMTT(40) DEF TypeOK, Ranges, Stages
    <3>6. \A d \in Readers' : use'[req'[d].page] = "OnDemand"
      BY <1>0, <2>3, <2>4, Zenon DEF TypeOK
    <3>7. \A p \in Page : pte'[p] # None => use'[p] # "Free"
      BY <1>p, <2>6, Zenon
    <3> QED
      BY <3>3, <3>4, <3>5, <3>6, <3>7, Zenon DEF Ranges
  <2> QED
    BY <2>5, <2>7, Zenon
<1> QED
  BY <1>1, <1>2, <1>3, <1>4, <1>5, <1>6, <1>7, <1>8, <1>9, <1>10, <1>11, <1>12, Zenon DEF Quiet

-----------------------------------------------------------------------------
\* MapPageInternal, for a core c that has frame f to itself.
LEMMA FreeFrameUnused ==
    ASSUME IInv, NEW f \in Frame, count[f] = Unused
    PROVE  /\ \A q \in Page : pte[q] # f
           /\ \A d \in Cores, q \in Page : <<q, f>> \notin unmapped[d]
           /\ \A k \in 2 .. 3 : pml[k] # f
           /\ \A d \in Cores : ~Holding(d, f) /\ ~Counting(d, f)
  BY DEF IInv, Counted, InCount, Unused

\* What is known of a step that maps f to p or fails to.
MapStep(c, p, f) ==
    /\ \A q \in Page : pte[q] # f
    /\ \A d \in Cores, q \in Page : <<q, f>> \notin unmapped[d]
    /\ \A k \in 2 .. 3 : pml[k] # f
    /\ \A d \in Cores \ {c} : ~Holding(d, f) /\ ~Counting(d, f)
    /\ \A g \in Frame : ~Counting(c, g) /\ (Holding(c, g) => g = f)
    /\ UNCHANGED <<tlb, unmapped, await>>
    /\ \A d \in Cores \ {c} : pc'[d] = pc[d] /\ req'[d] = req[d]
    /\ pc[c] # "shoot" /\ pc'[c] # "shoot"
    /\ pml'[3] = None => pml'[2] = None
    /\ pml'[2] # pml[2] /\ pml'[3] # pml[3] => pml'[2] # pml'[3]
    /\ \A k \in 2 .. 3 : pml'[k] # pml[k] => /\ pml[k] = None /\ pml'[k] \in Frame
                                             /\ pml'[k] # f /\ count[pml'[k]] = Unused
    /\ \A g \in Frame \ {f} :
          \/ count'[g] = 1 /\ count[g] = Unused /\ \E k \in 2 .. 3 : pml'[k] = g
          \/ count'[g] = count[g] /\ \A k \in 2 .. 3 : pml'[k] = g => pml[k] = g
    /\ \A g \in Frame : Holding(c, g)' \/ Counting(c, g)' => g = f
    /\ \A k \in 2 .. 3 : pml'[k] # f
    /\ \/ /\ pte[p] = None /\ pte' = [pte EXCEPT ![p] = f] /\ ~Holding(c, f)'
          /\ IF Counting(c, f)' THEN count'[f] = 0 /\ req'[c].page = p ELSE count'[f] = 1
       \/ pte' = pte /\ count'[f] = 0 /\ ~Counting(c, f)'

LEMMA MapStepFrames ==
    ASSUME IInv, NEW c \in Cores, NEW p \in Page, NEW f \in Frame, MapStep(c, p, f)
    PROVE  OnePurpose' /\ Counted' /\ StaleTranslationsPending'
<1>1. TypeOK /\ OnePurpose /\ Counted
  BY Zenon DEF IInv
<1>2. \A d \in Cores \ {c}, g \in Frame : Holding(d, g)' = Holding(d, g) /\ Counting(d, g)' = Counting(d, g)
  BY Zenon DEF MapStep, Holding, Counting
<1>3. pml \in [2 .. 3 -> Frame \cup {None}] /\ pte \in [Page -> Frame \cup {None}]
  BY <1>1, Zenon DEF TypeOK
<1>4. ASSUME NEW g \in Frame, g = f PROVE Sole(g)' /\ InCount(g)'
  <2>1. \A q \in Page : pte'[q] = f => q = p
    BY <1>3 DEF MapStep
  <2>2. \A d \in Cores : d # c => ~Holding(d, f)' /\ ~Counting(d, f)'
    BY <1>2, Zenon DEF MapStep
  <2>3. \/ /\ pte'[p] = f /\ ~Holding(c, f)'
           /\ IF Counting(c, f)' THEN count'[f] = 0 /\ req'[c].page = p ELSE count'[f] = 1
        \/ pte'[p] # f /\ count'[f] = 0 /\ ~Counting(c, f)'
    BY <1>3 DEF MapStep
  <2>4. /\ \A d \in Cores, q \in Page : <<q, f>> \notin unmapped'[d]
        /\ \A k \in 2 .. 3 : pml'[k] # f
    BY Zenon DEF MapStep
  <2>5. Sole(f)'
    BY <2>1, <2>2, <2>3, <2>4 DEF Sole
  <2>6. InCount(f)'
    BY <2>1, <2>2, <2>3, <2>4 DEF InCount
  <2> QED
    BY <1>4, <2>5, <2>6, Zenon
<1>5. ASSUME NEW g \in Frame, g # f
      PROVE  /\ \A q \in Page : pte'[q] = g <=> pte[q] = g
             /\ unmapped' = unmapped
             /\ \A d \in Cores : Holding(d, g)' = Holding(d, g) /\ Counting(d, g)' = Counting(d, g)
             /\ \A d \in Cores : Counting(d, g) => req'[d] = req[d]
  <2>1. \A q \in Page : pte'[q] = g <=> pte[q] = g
    BY <1>3, <1>5, VmmAssumption DEF MapStep
  <2>2. ~Holding(c, g) /\ ~Counting(c, g) /\ ~Holding(c, g)' /\ ~Counting(c, g)'
    BY <1>5, Zenon DEF MapStep
  <2>3. Holding(c, g)' = Holding(c, g) /\ Counting(c, g)' = Counting(c, g)
    BY <2>2, Zenon DEF Holding, Counting
  <2> QED
    BY <1>2, <2>1, <2>2, <2>3, Zenon DEF MapStep
<1>6. ASSUME NEW g \in Frame, g # f, count[g] = Unused PROVE Sole(g)' /\ InCount(g)'
  <2>1. /\ \A q \in Page : pte'[q] # g
        /\ \A d \in Cores, q \in Page : <<q, g>> \notin unmapped'[d]
        /\ \A k \in 2 .. 3 : pml[k] # g
        /\ \A d \in Cores : ~Holding(d, g)' /\ ~Counting(d, g)'
    BY <1>5, <1>6, FreeFrameUnused, Zenon
  <2>2. Sole(g)'
    BY <2>1 DEF Sole, MapStep
  <2>3. InCount(g)'
    BY <1>6, <2>1 DEF InCount, MapStep, Unused
  <2> QED
    BY <2>2, <2>3, Zenon
<1>7. ASSUME NEW g \in Frame, g # f, count[g] # Unused PROVE Sole(g)' /\ InCount(g)'
  <2>1. count'[g] = count[g] /\ \A k \in 2 .. 3 : pml'[k] = g <=> pml[k] = g
    BY <1>7, VmmAssumption, SMTT(40) DEF MapStep
  <2>3. \A d \in Cores : Counting(d, g) => req[d].page \in Page
    BY Zenon DEF IInv, Stages, Counting
  <2>4. NoMore(g) /\ NoLess(g)
    BY <1>5, <1>7, <2>1, <2>3, Zenon DEF NoMore, NoLess
  <2> QED
    BY <1>1, <1>7, <2>1, <2>4, StaysSole, StaysCounted, Zenon DEF OnePurpose, Counted
<1>8. OnePurpose' /\ Counted'
  BY <1>4, <1>6, <1>7, Zenon DEF OnePurpose, Counted, MapStep
<1>9. StaleTranslationsPending'
  <2>1. \A q \in Page : pte[q] \notin {None, pte'[q]} => FALSE
    BY <1>3, Zenon DEF MapStep
  <2>2. \A d \in Cores : pc'[d] = "shoot" <=> pc[d] = "shoot"
    BY Zenon DEF MapStep
  <2>3. UNCHANGED <<tlb, unmapped, await>>
    BY Zenon DEF MapStep
  <2> QED
    BY <2>1, <2>2, <2>3, Zenon DEF IInv, StaleTranslationsPending
<1> QED
  BY <1>8, <1>9, Zenon

\* AllocatePages maps the next of its pages.
LEMMA CommitPageKeeps ==
    ASSUME IInv, NEW c \in Cores, CommitPage(c)
    PROVE  IInv'
<1>1. TypeOK /\ Stages /\ Ranges /\ Counted
  BY Zenon DEF IInv
<1>2. PICK p \in req[c].todo, f \in FreeFrames(count) :
      \E o \in MapOutcomes([count EXCEPT ![f] = 0], p, f) :
         /\ pml' = o.pml /\ pte' = o.pte
         /\ IF o.res = "Okay"
            THEN /\ count' = AdjustReferenceCount(o.count, f, 1)
                 /\ req' = [req EXCEPT ![c].todo = @ \ {p}, ![c].done = @ \cup {p}]
                 /\ UNCHANGED pc
            ELSE count' = o.count /\ Goto(c, "backtrack") /\ UNCHANGED req
  BY Zenon DEF CommitPage
<1>3. p \in Page /\ f \in Frame /\ count[f] = Unused /\ p \in Claimed(c)
  BY <1>1, <1>2, Zenon DEF TypeOK, Requests, FreeFrames, Claimed
<1> DEFINE cnt == [count EXCEPT ![f] = 0]
<1>4. PICK o \in MapOutcomes(cnt, p, f) :
         /\ pml' = o.pml /\ pte' = o.pte
         /\ IF o.res = "Okay"
            THEN /\ count' = AdjustReferenceCount(o.count, f, 1)
                 /\ req' = [req EXCEPT ![c].todo = @ \ {p}, ![c].done = @ \cup {p}]
                 /\ UNCHANGED pc
            ELSE count' = o.count /\ Goto(c, "backtrack") /\ UNCHANGED req
  BY <1>2, Zenon
<1>5. /\ cnt \in [Frame -> {Unused, 0, 1}] /\ cnt[f] = 0
      /\ \A g \in Frame \ {f} : cnt[g] = count[g]
  BY <1>1, <1>3, Zenon DEF TypeOK
<1>6. cnt[f] # Unused /\ pml \in [2 .. 3 -> Frame \cup {None}] /\ pte \in [Page -> Frame \cup {None}]
      /\ (pml[3] = None => pml[2] = None)
  BY <1>1, <1>5 DEF Unused, TypeOK, Counted
<1> HIDE DEF cnt
<1>7. Left(cnt, p, f, o)
  BY <1>4, <1>5, <1>6, MapOutcome, Zenon
<1>8. o.count[f] = 0
  BY <1>3, <1>5, <1>6, <1>7, Zenon DEF Left
<1>9. /\ UNCHANGED <<use, tlb, writer, heapLock, unmapped, await>>
      /\ pc[c] = "commitPage"
  BY Zenon DEF CommitPage, locks, shootdown
<1>10. /\ pc' \in [Cores -> Labels] /\ pc'[c] \in {"commitPage", "backtrack"}
       /\ req' \in [Cores -> Requests]
       /\ \A d \in Cores \ {c} : pc'[d] = pc[d] /\ req'[d] = req[d]
       /\ \A q \in Page : q \in req'[c].todo \/ q \in req'[c].done => q \in Claimed(c)
  <2>1. CASE o.res = "Okay"
    <3>1. req' = [req EXCEPT ![c].todo = @ \ {p}, ![c].done = @ \cup {p}] /\ pc' = pc
      BY <1>4, <2>1, Zenon
    <3>2. req \in [Cores -> Requests] /\ pc \in [Cores -> Labels]
      BY <1>1, Zenon DEF TypeOK
    <3>3. /\ req' \in [Cores -> Requests]
          /\ \A d \in Cores \ {c} : req'[d] = req[d]
          /\ req'[c].todo = req[c].todo \ {p} /\ req'[c].done = req[c].done \cup {p}
      BY <1>3, <3>1, <3>2, ZenonT(40) DEF Requests
    <3> QED
      BY <1>3, <1>9, <3>1, <3>2, <3>3, Zenon DEF Claimed
  <2>2. CASE o.res # "Okay"
    BY <1>1, <1>4, <1>9, <2>2, Zenon DEF Goto, TypeOK, Claimed, Labels
  <2> QED
    BY <2>1, <2>2, Zenon
<1>11. /\ count' \in [Frame -> {Unused, 0, 1}] /\ \A g \in Frame \ {f} : count'[g] = o.count[g]
       /\ count'[f] = (IF o.res = "Okay" THEN 1 ELSE 0)
  <2>1. o.count \in [Frame -> {Unused, 0, 1}]
    BY <1>7, Zenon DEF Left
  <2>2. count' = IF o.res = "Okay" THEN [o.count EXCEPT ![f] = 1] ELSE o.count
    BY <1>4, <1>8 DEF AdjustReferenceCount
  <2> QED
    BY <1>3, <1>8, <2>1, <2>2, Zenon
<1>12. TypeOK'
  <2>1. pml' \in [2 .. 3 -> Frame \cup {None}] /\ pte' \in [Page -> Frame \cup {None}]
    BY <1>3, <1>4, <1>6, <1>7, ZenonT(40) DEF Left
  <2> QED
    BY <1>1, <1>9, <1>10, <1>11, <2>1, Zenon DEF TypeOK
<1>13. Stages'
  BY <1>1, <1>9, <1>10, SMTT(40) DEF TypeOK, Stages, Readers
<1>14. Ranges'
  <2>1. use[p] # "Free" /\ \A q \in Page : pte'[q] # None => pte[q] # None \/ q = p
    <3>1. pte' = pte \/ pte' = [pte EXCEPT ![p] = f]
      BY <1>4, <1>7, Zenon DEF Left
    <3>2. use[p] # "Free"
      BY <1>1, <1>3, Zenon DEF Ranges
    <3> QED
      BY <1>6, <3>1, <3>2, Zenon
  <2>2. heapLock = c /\ c \notin Readers'
    BY <1>1, <1>9, <1>10, Zenon DEF Stages, Readers
  <2>3. \A q \in Page : pte'[q] # None => use[q] # "Free"
    BY <1>1, <2>1, Zenon DEF Ranges
  <2>4. \A d \in Cores \ {c} : pc'[d] = pc[d] /\ req'[d] = req[d] /\ (heapLock' = d => heapLock = d)
    BY <1>9, <1>10, Zenon
  <2> QED
    BY <1>1, <1>9, <1>10, <1>12, <2>2, <2>3, <2>4, RangesKept, Zenon DEF Confined
<1>15. MapStep(c, p, f)
  <2>1. \A g \in Frame : ~Holding(c, g) /\ ~Counting(c, g) /\ ~Holding(c, g)' /\ ~Counting(c, g)'
    BY <1>9, <1>10, Zenon DEF Holding, Counting
  <2>2. /\ \A q \in Page : pte[q] # f
        /\ \A d \in Cores, q \in Page : <<q, f>> \notin unmapped[d]
        /\ \A k \in 2 .. 3 : pml[k] # f
        /\ \A d \in Cores : ~Holding(d, f) /\ ~Counting(d, f)
    BY <1>3, FreeFrameUnused, Zenon
  <2>3. /\ pml'[3] = None => pml'[2] = None
        /\ pml'[2] # pml[2] /\ pml'[3] # pml[3] => pml'[2] # pml'[3]
        /\ \A k \in 2 .. 3 : pml'[k] # pml[k] => /\ pml[k] = None /\ pml'[k] \in Frame
                                                 /\ pml'[k] # f /\ count[pml'[k]] = Unused
    BY <1>4, <1>5, <1>6, <1>7 DEF Left
  <2>4. \A g \in Frame \ {f} :
          \/ count'[g] = 1 /\ count[g] = Unused /\ \E k \in 2 .. 3 : pml'[k] = g
          \/ count'[g] = count[g] /\ \A k \in 2 .. 3 : pml'[k] = g => pml[k] = g
    BY <1>4, <1>5, <1>7, <1>11 DEF Left
  <2>5. \A k \in 2 .. 3 : pml'[k] # f
    BY <2>2, <2>3, Zenon
  <2>6. \/ pte[p] = None /\ pte' = [pte EXCEPT ![p] = f] /\ count'[f] = 1
        \/ pte' = pte /\ count'[f] = 0
    BY <1>4, <1>7, <1>11, Zenon DEF Left
  <2> QED
    BY <1>3, <1>9, <1>10, <2>1, <2>2, <2>3, <2>4, <2>5, <2>6, Zenon DEF MapStep
<1> QED
  BY <1>3, <1>12, <1>13, <1>14, <1>15, MapStepFrames, Zenon DEF IInv

\* A page fault maps its page, or finds it mapped, or has no frames for the tables.
LEMMA FaultMapKeeps ==
    ASSUME IInv, NEW c \in Cores, FaultMap(c)
    PROVE  IInv'
<1>1. TypeOK /\ Stages /\ Ranges /\ OnePurpose /\ Counted
  BY Zenon DEF IInv
<1>0. PICK p, f : p = req[c].page /\ f = req[c].frame
  BY Zenon
<1>2. PICK o \in MapOutcomes(count, p, f) :
         /\ pml' = o.pml /\ pte' = o.pte /\ count' = o.count
         /\ pc' = [pc EXCEPT ![c] = IF o.res = "Okay" THEN "faultCount" ELSE "faultFree"]
  BY <1>0, Zenon DEF FaultMap, Goto
<1>3. /\ UNCHANGED <<use, tlb, writer, heapLock, req, unmapped, await>>
      /\ pc[c] = "faultMap"
  BY Zenon DEF FaultMap, locks, shootdown
<1>4. p \in Page /\ f \in Frame /\ c \in Readers /\ Holding(c, f)
  BY <1>0, <1>1, <1>3, Zenon DEF Stages, Readers, Holding
<1>5. count[f] = 0 /\ use[p] = "OnDemand"
  BY <1>0, <1>1, <1>4, Zenon DEF Counted, InCount, Ranges
<1>6. /\ count \in [Frame -> {Unused, 0, 1}] /\ count[f] # Unused
      /\ pml \in [2 .. 3 -> Frame \cup {None}] /\ pte \in [Page -> Frame \cup {None}]
      /\ (pml[3] = None => pml[2] = None)
  BY <1>1, <1>5 DEF Unused, TypeOK, Counted
<1>7. Left(count, p, f, o)
  BY <1>2, <1>6, MapOutcome, Zenon
<1>8. /\ pc' \in [Cores -> Labels] /\ pc'[c] = (IF o.res = "Okay" THEN "faultCount" ELSE "faultFree")
      /\ \A d \in Cores \ {c} : pc'[d] = pc[d]
  BY <1>1, <1>2, Zenon DEF TypeOK, Labels
<1>9. TypeOK'
  <2>1. pml' \in [2 .. 3 -> Frame \cup {None}] /\ pte' \in [Page -> Frame \cup {None}]
        /\ count' \in [Frame -> {Unused, 0, 1}]
    BY <1>2, <1>4, <1>6, <1>7, ZenonT(40) DEF Left
  <2> QED
    BY <1>1, <1>3, <1>8, <2>1, Zenon DEF TypeOK
<1>10. Stages'
  BY <1>1, <1>3, <1>8, ZenonT(40) DEF TypeOK, Stages, Readers
<1>11. Ranges'
  <2>1. pte' = pte \/ pte' = [pte EXCEPT ![p] = f]
    BY <1>2, <1>7, Zenon DEF Left
  <2>2. \A q \in Page : pte'[q] # None => use[q] # "Free"
    BY <1>1, <1>5, <1>6, <2>1, Zenon DEF Ranges
  <2>3. \A q \in Page : q \in req'[c].todo \/ q \in req'[c].done => q \in Claimed(c)
    BY <1>3, Zenon DEF Claimed
  <2>4. pc'[c] # "commitLock" /\ heapLock' # c
    BY <1>1, <1>3, <1>8, Zenon DEF Stages
  <2>5. use[req'[c].page] = "OnDemand"
    BY <1>0, <1>3, <1>5, Zenon
  <2>6. \A d \in Cores \ {c} : pc'[d] = pc[d] /\ req'[d] = req[d] /\ (heapLock' = d => heapLock = d)
    BY <1>3, <1>8, Zenon
  <2> QED
    BY <1>1, <1>3, <1>9, <2>2, <2>3, <2>4, <2>5, <2>6, RangesKept, Zenon DEF Confined
<1>12. MapStep(c, p, f)
  <2>1. /\ \A g \in Frame : ~Counting(c, g) /\ (Holding(c, g) => g = f)
        /\ \A g \in Frame : Holding(c, g)' \/ Counting(c, g)' => g = f
        /\ IF o.res = "Okay" THEN ~Holding(c, f)' /\ Counting(c, f)' ELSE ~Counting(c, f)'
    BY <1>0, <1>3, <1>8, Zenon DEF Holding, Counting
  <2>2. /\ \A q \in Page : pte[q] # f
        /\ \A d \in Cores \ {c} : ~Holding(d, f)
    BY <1>1, <1>4, Zenon DEF OnePurpose, Sole
  <2>3. /\ \A d \in Cores, q \in Page : <<q, f>> \notin unmapped[d]
        /\ \A k \in 2 .. 3 : pml[k] # f
    BY <1>1, <1>4, <1>5 DEF Counted, InCount
  <2>4. \A d \in Cores : ~Counting(d, f)
    BY <1>1, <1>4, <2>2, SMTT(40) DEF Counted, InCount, Stages, Counting
  <2>5. /\ pml'[3] = None => pml'[2] = None
        /\ pml'[2] # pml[2] /\ pml'[3] # pml[3] => pml'[2] # pml'[3]
        /\ \A k \in 2 .. 3 : pml'[k] # pml[k] => /\ pml[k] = None /\ pml'[k] \in Frame
                                                 /\ pml'[k] # f /\ count[pml'[k]] = Unused
    BY <1>2, <1>6, <1>7 DEF Left
  <2>6. \A g \in Frame \ {f} :
          \/ count'[g] = 1 /\ count[g] = Unused /\ \E k \in 2 .. 3 : pml'[k] = g
          \/ count'[g] = count[g] /\ \A k \in 2 .. 3 : pml'[k] = g => pml[k] = g
    BY <1>2, <1>7, Zenon DEF Left
  <2>7. \A k \in 2 .. 3 : pml'[k] # f
    BY <2>3, <2>5, Zenon
  <2>8. /\ \/ o.res = "Okay" /\ pte[p] = None /\ pte' = [pte EXCEPT ![p] = f]
           \/ o.res # "Okay" /\ pte' = pte
        /\ count'[f] = 0
    BY <1>2, <1>4, <1>5, <1>6, <1>7, Zenon DEF Left
  <2>9. req'[c].page = p
    BY <1>0, <1>3, Zenon
  <2> QED
    BY <1>3, <1>4, <1>8, <2>1, <2>2, <2>3, <2>4, <2>5, <2>6, <2>7, <2>8, <2>9, Zenon DEF MapStep
<1> QED
  BY <1>4, <1>9, <1>10, <1>11, <1>12, MapStepFrames, Zenon DEF IInv

-----------------------------------------------------------------------------
\* A page fault takes its frame, counts it or frees it: no other frame is touched.
LEMMA FaultFrames ==
    ASSUME IInv, NEW c \in Cores, NEW f \in Frame, Sole(f)', InCount(f)',
           UNCHANGED <<pml, pte, tlb, unmapped, await>>,
           \A d \in Cores \ {c} : pc'[d] = pc[d] /\ req'[d] = req[d],
           pc[c] # "shoot", pc'[c] # "shoot",
           \A g \in Frame \ {f} : /\ count'[g] = count[g]
                                  /\ ~Holding(c, g) /\ ~Counting(c, g)
                                  /\ ~Holding(c, g)' /\ ~Counting(c, g)'
    PROVE  OnePurpose' /\ Counted' /\ StaleTranslationsPending'
<1>1. \A d \in Cores, g \in Frame \ {f} : /\ Holding(d, g)' <=> Holding(d, g)
                                          /\ Counting(d, g)' <=> Counting(d, g)
                                          /\ Counting(d, g) => req'[d] = req[d]
  BY Zenon DEF Holding, Counting
<1>2. \A g : \A d \in Cores : Counting(d, g) => req[d].page \in Page
  BY Zenon DEF IInv, Stages, Counting
<1>3. ASSUME NEW g \in Frame \ {f} PROVE Sole(g)' /\ InCount(g)'
  <2>1. NoMore(g) /\ NoLess(g)
    BY <1>1, <1>2, Zenon DEF NoMore, NoLess
  <2>2. Sole(g) /\ InCount(g) /\ count'[g] = count[g]
    BY <1>3, Zenon DEF IInv, OnePurpose, Counted
  <2> QED
    BY <2>1, <2>2, StaysSole, StaysCounted, Zenon
<1>4. OnePurpose' /\ Counted'
  BY <1>3, Zenon DEF IInv, OnePurpose, Counted
<1>5. \A d \in Cores : pc'[d] = "shoot" <=> pc[d] = "shoot"
  BY Zenon
<1>6. StaleTranslationsPending'
  BY <1>5, Zenon DEF IInv, StaleTranslationsPending
<1> QED
  BY <1>4, <1>6, Zenon

LEMMA FaultFrameKeeps ==
    ASSUME IInv, NEW c \in Cores, FaultFrame(c)
    PROVE  IInv'
<1>1. TypeOK /\ Stages /\ Ranges
  BY Zenon DEF IInv
<1>2. PICK f \in Frame : /\ count[f] = Unused /\ count' = [count EXCEPT ![f] = 0]
                         /\ req' = [req EXCEPT ![c].frame = f]
  BY Zenon DEF FaultFrame, FreeFrames
<1>3. /\ UNCHANGED <<use, pml, pte, tlb, writer, heapLock, unmapped, await>>
      /\ pc[c] = "faultFrame" /\ pc' = [pc EXCEPT ![c] = "faultMap"]
  BY Zenon DEF FaultFrame, tables, locks, shootdown, Goto
<1>4. /\ req' \in [Cores -> Requests] /\ \A d \in Cores \ {c} : req'[d] = req[d]
      /\ req'[c].todo = req[c].todo /\ req'[c].done = req[c].done
      /\ req'[c].page = req[c].page /\ req'[c].frame = f
  BY <1>1, <1>2, RequestFields DEF TypeOK
<1>5. /\ pc' \in [Cores -> Labels] /\ pc'[c] = "faultMap"
      /\ \A d \in Cores \ {c} : pc'[d] = pc[d]
  BY <1>1, <1>3, Zenon DEF TypeOK, Labels
<1>6. /\ count' \in [Frame -> {Unused, 0, 1}] /\ count'[f] = 0
      /\ \A g \in Frame \ {f} : count'[g] = count[g]
  BY <1>1, <1>2, Zenon DEF TypeOK
<1>7. TypeOK'
  BY <1>1, <1>3, <1>4, <1>5, <1>6, Zenon DEF TypeOK
<1>8. Stages'
  BY <1>1, <1>3, <1>4, <1>5, SMTT(40) DEF TypeOK, Stages, Readers
<1>9. Ranges'
  <2>1. \A q \in Page : q \in req'[c].todo \/ q \in req'[c].done => q \in Claimed(c)
    BY <1>4, Zenon DEF Claimed
  <2>2. pc'[c] # "commitLock" /\ heapLock' # c
    BY <1>1, <1>3, <1>5, Zenon DEF Stages
  <2>3. use[req'[c].page] = "OnDemand"
    BY <1>1, <1>3, <1>4, Zenon DEF Ranges, Readers
  <2>4. \A q \in Page : pte'[q] # None => use[q] # "Free"
    BY <1>1, <1>3, Zenon DEF Ranges
  <2> QED
    BY <1>1, <1>3, <1>4, <1>5, <1>7, <2>1, <2>2, <2>3, <2>4, RangesKept, Zenon DEF Confined
<1>10. /\ \A g \in Frame : /\ ~Holding(c, g) /\ ~Counting(c, g) /\ ~Counting(c, g)'
                           /\ Holding(c, g)' <=> g = f
  BY <1>3, <1>4, <1>5, Zenon DEF Holding, Counting
<1>11. /\ \A q \in Page : pte'[q] # f
       /\ \A d \in Cores, q \in Page : <<q, f>> \notin unmapped'[d]
       /\ \A k \in 2 .. 3 : pml'[k] # f
       /\ \A d \in Cores : ~Counting(d, f)' /\ (Holding(d, f)' => d = c)
  <2>1. \A d \in Cores \ {c} : (Holding(d, f)' <=> Holding(d, f)) /\ (Counting(d, f)' <=> Counting(d, f))
    BY <1>4, <1>5, Zenon DEF Holding, Counting
  <2> QED
    BY <1>2, <1>3, <1>10, <2>1, FreeFrameUnused, Zenon
<1>12. Sole(f)' /\ InCount(f)'
  <2>1. 2 \in 2 .. 3 /\ 3 \in 2 .. 3 /\ count'[f] # 1
    BY <1>6
  <2>2. Sole(f)'
    BY <1>11, <2>1, Zenon DEF Sole
  <2>3. InCount(f)'
    BY <1>6, <1>11, <2>1, Zenon DEF InCount
  <2> QED
    BY <2>2, <2>3, Zenon
<1> QED
  BY <1>3, <1>4, <1>5, <1>6, <1>7, <1>8, <1>9, <1>10, <1>12, FaultFrames, Zenon DEF IInv

LEMMA FaultEndKeeps ==
    ASSUME IInv, NEW c \in Cores, FaultCount(c) \/ FaultFree(c)
    PROVE  IInv'
<1>1. TypeOK /\ Stages /\ Ranges /\ OnePurpose /\ Counted
  BY Zenon DEF IInv
<1>0. PICK f : f = req[c].frame
  BY Zenon
<1>2. /\ UNCHANGED <<use, pml, pte, tlb, writer, heapLock, unmapped, await>>
      /\ pc' = [pc EXCEPT ![c] = "idle"] /\ req' = [req EXCEPT ![c] = NoCall]
      /\ pc[c] \in {"faultCount", "faultFree"}
  BY Zenon DEF FaultCount, FaultFree, tables, locks, shootdown, Goto, Finish
<1>3. /\ f \in Frame
      /\ pc[c] = "faultCount" => Counting(c, f) /\ count[f] = 0 /\ req[c].page \in Page /\ pte[req[c].page] = f
      /\ pc[c] = "faultFree" => Holding(c, f) /\ count[f] = 0
  BY <1>0, <1>1, <1>2, SMTT(40) DEF Stages, Counting, Holding, Counted, InCount
<1>4. /\ req' \in [Cores -> Requests] /\ \A d \in Cores \ {c} : req'[d] = req[d]
      /\ req'[c] = NoCall
  BY <1>1, <1>2, RequestFields DEF TypeOK
<1>5. /\ pc' \in [Cores -> Labels] /\ pc'[c] = "idle"
      /\ \A d \in Cores \ {c} : pc'[d] = pc[d]
  BY <1>1, <1>2, Zenon DEF TypeOK, Labels
<1>6. /\ count' \in [Frame -> {Unused, 0, 1}]
      /\ count'[f] = (IF pc[c] = "faultCount" THEN 1 ELSE Unused)
      /\ \A g \in Frame \ {f} : count'[g] = count[g]
  <2>1. count' = [count EXCEPT ![f] = IF pc[c] = "faultCount" THEN 1 ELSE Unused]
    BY <1>0, <1>3, SMTT(40) DEF FaultCount, FaultFree, AdjustReferenceCount
  <2> QED
    BY <1>1, <1>3, <2>1, Zenon DEF TypeOK
<1>7. \A g \in Frame : /\ ~Counting(c, g)' /\ ~Holding(c, g)'
                       /\ g # f => ~Counting(c, g) /\ ~Holding(c, g)
  BY <1>0, <1>5, Zenon DEF Holding, Counting
<1>8. TypeOK'
  BY <1>1, <1>2, <1>4, <1>5, <1>6, Zenon DEF TypeOK
<1>9. Stages'
  BY <1>1, <1>2, <1>4, <1>5, RequestFields DEF TypeOK, Stages, Readers
<1>10. Ranges'
  <2>1. pc'[c] # "commitLock" /\ heapLock' # c /\ c \notin Readers'
    BY <1>1, <1>2, <1>5, Zenon DEF Stages, Readers
  <2>2. \A q \in Page : pte'[q] # None => use[q] # "Free"
    BY <1>1, <1>2, Zenon DEF Ranges
  <2> QED
    BY <1>1, <1>2, <1>4, <1>5, <1>8, <2>1, <2>2, RangesKept, RequestFields, Zenon DEF Confined
<1>11. Sole(f)' /\ InCount(f)'
  <2>1. \A d \in Cores \ {c} : (Holding(d, f)' <=> Holding(d, f)) /\ (Counting(d, f)' <=> Counting(d, f))
    BY <1>4, <1>5, Zenon DEF Holding, Counting
  <2>2. Sole(f) /\ InCount(f)
    BY <1>1, <1>3, Zenon DEF OnePurpose, Counted
  <2>3. CASE pc[c] = "faultCount"
    <3>1. \A d \in Cores : ~Holding(d, f)' /\ ~Counting(d, f)'
      BY <1>3, <1>7, <2>1, <2>2, <2>3, Zenon DEF Sole
    <3>2. \A d \in Cores, q \in Page : <<q, f>> \notin unmapped'[d]
      BY <1>2, <1>3, <2>2, <2>3, Zenon DEF Sole
    <3> QED
      BY <1>2, <1>3, <1>6, <2>2, <2>3, <3>1, <3>2, Zenon DEF Sole, InCount
  <2>4. CASE pc[c] = "faultFree"
    <3>1. /\ \A d \in Cores : ~Holding(d, f)'
          /\ \A q \in Page : pte'[q] # f
      BY <1>2, <1>3, <1>7, <2>1, <2>2, <2>4, Zenon DEF Sole
    <3>2. /\ \A d \in Cores, q \in Page : <<q, f>> \notin unmapped'[d]
          /\ \A k \in 2 .. 3 : pml'[k] # f
      BY <1>2, <1>3, <2>2, <2>4, SMTT(40) DEF InCount
    <3>3. \A d \in Cores : ~Counting(d, f)'
      BY <1>1, <1>2, <1>3, <1>7, <2>1, <2>2, <3>1, Zenon DEF InCount, Stages, Counting
    <3> QED
      BY <1>6, <2>4, <3>1, <3>2, <3>3, SMTT(40) DEF Sole, InCount, Unused
  <2> QED
    BY <1>2, <2>3, <2>4, Zenon
<1> QED
  BY <1>2, <1>3, <1>4, <1>5, <1>6, <1>7, <1>8, <1>9, <1>10, <1>11, FaultFrames, Zenon DEF IInv
=============================================================================
