----------------------------- MODULE VmmProofs -----------------------------
(***************************************************************************)
(* The invariant of VmmFaultProofs through unmapping, shootdowns and the   *)
(* dropping of references, and what follows from it.                       *)
(***************************************************************************)
EXTENDS VmmFaultProofs

-----------------------------------------------------------------------------
\* UnmapIteratively moves frames from the page tables to the list of its core.
UnmapStep(c, pages) ==
    /\ pages \in SUBSET Page /\ unmapped[c] = {} /\ pc[c] \notin {"faultMap", "faultCount", "faultFree"}
    /\ \A p \in pages : pte[p] # None => count[pte[p]] = 1
    /\ Unmap(c, pages) /\ UNCHANGED <<count, tlb, await>>
    /\ \A d \in Cores \ {c} : req'[d] = req[d]

LEMMA UnmapFrames ==
    ASSUME IInv, NEW c \in Cores, NEW pages, UnmapStep(c, pages)
    PROVE  /\ pte' \in [Page -> Frame \cup {None}] /\ unmapped' \in [Cores -> SUBSET (Page \X Frame)]
           /\ pc' \in [Cores -> Labels] /\ pc'[c] = "shoot"
           /\ \A d \in Cores \ {c} : pc'[d] = pc[d] /\ unmapped'[d] = unmapped[d]
           /\ \A q \in Page : pte'[q] = IF q \in pages THEN None ELSE pte[q]
           /\ OnePurpose' /\ Counted' /\ StaleTranslationsPending'
<1>1. /\ TypeOK /\ Stages /\ OnePurpose /\ Counted /\ StaleTranslationsPending
      /\ pages \in SUBSET Page /\ unmapped[c] = {}
  BY Zenon DEF IInv, UnmapStep
<1>2. \A q \in Page : pte'[q] = IF q \in pages THEN None ELSE pte[q]
  BY <1>1, Zenon DEF UnmapStep, Unmap
<1>3. /\ unmapped' = [unmapped EXCEPT ![c] = {<<p, pte[p]>> : p \in {q \in pages : pte[q] # None}}]
      /\ pte' = [p \in Page |-> pte'[p]]
  BY Zenon DEF UnmapStep, Unmap
<1>4. {<<p, pte[p]>> : p \in {q \in pages : pte[q] # None}} \in SUBSET (Page \X Frame)
  BY <1>1 DEF TypeOK
<1>5. /\ unmapped' \in [Cores -> SUBSET (Page \X Frame)]
      /\ \A d \in Cores \ {c} : unmapped'[d] = unmapped[d]
      /\ unmapped'[c] = {<<p, pte[p]>> : p \in {q \in pages : pte[q] # None}}
  BY <1>1, <1>3, <1>4, Zenon DEF TypeOK
<1>6. \A q \in Page, g \in Frame : <<q, g>> \in unmapped'[c] <=> q \in pages /\ pte[q] = g
  BY <1>5, VmmAssumption, Zenon
<1>7. /\ pc' \in [Cores -> Labels] /\ pc'[c] = "shoot"
      /\ \A d \in Cores \ {c} : pc'[d] = pc[d]
  BY <1>1, Zenon DEF TypeOK, UnmapStep, Unmap, Goto, Labels
<1>8. pte' \in [Page -> Frame \cup {None}]
  BY <1>1, <1>2, <1>3, Zenon DEF TypeOK
<1>9. \A d \in Cores, g \in Frame : /\ Holding(d, g)' <=> Holding(d, g)
                                    /\ Counting(d, g)' <=> Counting(d, g)
                                    /\ Counting(d, g) => req'[d] = req[d] /\ req[d].page \in Page
  BY <1>1, <1>7, Zenon DEF UnmapStep, Holding, Counting, Stages
<1>10. UNCHANGED <<pml, count, tlb, await>>
  BY Zenon DEF UnmapStep, Unmap
<1>11. ASSUME NEW g \in Frame PROVE Sole(g)' /\ InCount(g)'
  <2>1. Sole(g) /\ InCount(g)
    BY <1>1, Zenon DEF OnePurpose, Counted
  <2>2. \A q \in Page : pte'[q] = g <=> pte[q] = g /\ q \notin pages
    BY <1>2, VmmAssumption, Zenon
  <2>3. \A d \in Cores, q \in Page : <<q, g>> \in unmapped'[d] =>
           \/ d = c /\ q \in pages /\ pte[q] = g
           \/ d # c /\ <<q, g>> \in unmapped[d]
    BY <1>5, <1>6, Zenon
  <2>4. \A q \in pages : pte[q] = g => count[g] = 1
    BY VmmAssumption, Zenon DEF UnmapStep
  <2>5. Sole(g)'
    <3>1. \A d, e \in Cores, p, q \in Page :
             <<p, g>> \in unmapped'[d] /\ <<q, g>> \in unmapped'[e] => d = e /\ p = q
      BY <2>1, <2>3, SMTT(40) DEF Sole
    <3>2. \A p, q \in Page, d \in Cores : pte'[p] = g => <<q, g>> \notin unmapped'[d]
      BY <2>1, <2>2, <2>3, Zenon DEF Sole
    <3>3. \A p \in Page, d \in Cores, k \in 2 .. 3 : <<p, g>> \in unmapped'[d] => pml'[k] # g
      BY <1>10, <2>1, <2>3, Zenon DEF Sole
    <3>4. /\ \A d, e \in Cores : Counting(d, g)' /\ Counting(e, g)' => d = e
          /\ \A d, e \in Cores : Holding(d, g)' /\ Holding(e, g)' => d = e
          /\ \A p \in Page, d \in Cores : pte'[p] = g => ~Holding(d, g)'
      BY <1>9, <2>1, <2>2, Zenon DEF Sole
    <3>5. /\ \A p, q \in Page : pte'[p] = g /\ pte'[q] = g => p = q
          /\ pml'[2] = g => pml'[3] # g
          /\ \A p \in Page, k \in 2 .. 3 : pte'[p] = g => pml'[k] # g
      BY <1>10, <2>1, <2>2, Zenon DEF Sole
    <3> QED
      BY <3>1, <3>2, <3>3, <3>4, <3>5, Zenon DEF Sole
  <2>6. InCount(g)'
    <3>1. \A q \in Page : pte'[q] = g => \/ count'[g] = 1
                                         \/ count'[g] = 0 /\ \E d \in Cores : Counting(d, g)'
      BY <1>9, <1>10, <2>1, <2>2, Zenon DEF InCount
    <3>2. \A d \in Cores, q \in Page : <<q, g>> \in unmapped'[d] => count'[g] = 1
      BY <1>10, <2>1, <2>3, <2>4, Zenon DEF InCount
    <3>3. \A k \in 2 .. 3 : pml'[k] = g => count'[g] = 1
      BY <1>10, <2>1, Zenon DEF InCount
    <3>4. \A d \in Cores : /\ Holding(d, g)' => count'[g] = 0
                           /\ Counting(d, g)' => count'[g] = 0 /\ pte'[req'[d].page] = g
      BY <1>9, <1>10, <2>1, <2>2, <2>4, SMTT(40) DEF InCount
    <3>5. count'[g] = 1 => \/ \E q \in Page : pte'[q] = g
                           \/ \E d \in Cores, q \in Page : <<q, g>> \in unmapped'[d]
                           \/ \E k \in 2 .. 3 : pml'[k] = g
      <4>1. CASE \E q \in Page : pte[q] = g
        BY <1>6, <2>2, <4>1, Zenon
      <4>2. CASE \E d \in Cores, q \in Page : <<q, g>> \in unmapped[d]
        BY <1>1, <1>5, <4>2, Zenon
      <4> QED
        BY <1>10, <2>1, <4>1, <4>2, Zenon DEF InCount
    <3> QED
      BY <3>1, <3>2, <3>3, <3>4, <3>5, Zenon DEF InCount
  <2> QED
    BY <2>5, <2>6, Zenon
<1>12. OnePurpose' /\ Counted'
  BY <1>1, <1>10, <1>11, Zenon DEF OnePurpose, Counted
<1>13. StaleTranslationsPending'
  <2> SUFFICES ASSUME NEW d \in Cores, NEW q \in Page, tlb'[d][q] \notin {None, pte'[q]}
               PROVE  \E e \in Cores : /\ <<q, tlb'[d][q]>> \in unmapped'[e]
                                       /\ pc'[e] = "shoot" \/ d \in await'[e]
    BY Zenon DEF StaleTranslationsPending
  <2>1. CASE tlb[d][q] = pte[q]
    BY <1>2, <1>5, <1>7, <1>10, <2>1, Zenon
  <2>2. CASE tlb[d][q] # pte[q]
    <3>1. PICK e \in Cores : /\ <<q, tlb[d][q]>> \in unmapped[e]
                             /\ pc[e] = "shoot" \/ d \in await[e]
      BY <1>1, <1>10, <2>2, Zenon DEF StaleTranslationsPending
    <3>2. e # c
      BY <1>1, <3>1, Zenon
    <3> QED
      BY <1>5, <1>7, <1>10, <3>1, <3>2, Zenon
  <2> QED
    BY <2>1, <2>2, Zenon
<1> QED
  BY <1>2, <1>5, <1>7, <1>8, <1>12, <1>13, Zenon

\* No fault has still to count a page that is unmapped: as readers of KVas.Lock
\* faults are over when it is written, and what is committed does not fault.
LEMMA UnmappedCounted ==
    ASSUME IInv, NEW p \in Page, pte[p] # None,
           (\E c \in Cores : pc[c] = "free") \/ use[p] = "Commit"
    PROVE  count[pte[p]] = 1
<1>1. PICK f \in Frame : pte[p] = f
  BY Zenon DEF IInv, TypeOK
<1>2. Sole(f) /\ InCount(f)
  BY <1>1, Zenon DEF IInv, OnePurpose, Counted
<1>3. ASSUME NEW d \in Cores, Counting(d, f) PROVE FALSE
  <2>1. d \in Readers /\ req[d].page \in Page /\ pte[req[d].page] = f
    BY <1>2, <1>3, Zenon DEF IInv, Stages, Counting, Readers, InCount
  <2>2. req[d].page = p
    BY <1>1, <1>2, <2>1, Zenon DEF Sole
  <2>3. use[p] = "OnDemand" /\ writer = None
    BY <2>1, <2>2, Zenon DEF IInv, Ranges, Stages
  <2>4. \A c \in Cores : pc[c] # "free"
    BY <2>3, VmmAssumption, Zenon DEF IInv, Stages
  <2> QED
    BY <2>3, <2>4, Zenon
<1> QED
  BY <1>1, <1>2, <1>3, Zenon DEF InCount

\* AllocatePages takes back, with KernelHeapLock held, what it has committed.
LEMMA BacktrackKeeps ==
    ASSUME IInv, NEW c \in Cores, Backtrack(c) \/ (NextRound(c) /\ heapLock = c)
    PROVE  IInv'
<1>1. TypeOK /\ Stages /\ Ranges
  BY Zenon DEF IInv
<1>2. PICK S \in SUBSET Page :
         /\ \A q \in S : q \in Claimed(c)
         /\ Unmap(c, Round(S)) /\ UNCHANGED <<use, count, tlb, writer, heapLock, await>>
         /\ pc[c] \in {"backtrack", "drop"} /\ unmapped[c] = {}
         /\ \/ req' = [req EXCEPT ![c] = [NoCall EXCEPT !.todo = S \ Round(S)]]
            \/ req' = [req EXCEPT ![c].todo = S \ Round(S)] /\ req[c].done = {}
  <2>1. req[c].todo \in SUBSET Page /\ req[c].done \in SUBSET Page
    BY <1>1, Zenon DEF TypeOK, Requests
  <2>2. CASE Backtrack(c)
    <3>1. unmapped[c] = {}
      BY <1>1, <2>2, Zenon DEF Backtrack, Stages
    <3> QED
      BY <2>1, <2>2, <3>1, Zenon DEF Backtrack, locks, Claimed
  <2>3. CASE NextRound(c) /\ heapLock = c
    <3>1. req[c].done = {}
      BY <1>1, <2>3, Zenon DEF NextRound, Stages
    <3>2. req' = [req EXCEPT ![c].todo = req[c].todo \ Round(req[c].todo)]
      BY <1>1, <2>3, Zenon DEF NextRound, TypeOK
    <3> QED
      BY <2>1, <2>3, <3>1, <3>2, Zenon DEF NextRound, locks, Claimed
  <2> QED
    BY <2>2, <2>3, Zenon
<1>3. PICK pages \in SUBSET S : pages = Round(S)
  BY Zenon DEF Round
<1>4. heapLock = c
  BY <1>1, Zenon DEF Backtrack, Stages
<1>5. /\ req' \in [Cores -> Requests] /\ \A d \in Cores \ {c} : req'[d] = req[d]
      /\ req'[c].todo = S \ pages /\ req'[c].done = {}
  <2>1. PICK T \in SUBSET Page : T = S \ pages
    BY Zenon
  <2>2. req \in [Cores -> Requests]
    BY <1>1, Zenon DEF TypeOK
  <2>3. CASE req' = [req EXCEPT ![c] = [NoCall EXCEPT !.todo = T]]
    BY <2>1, <2>2, <2>3, RequestFields
  <2>4. CASE req' = [req EXCEPT ![c].todo = T] /\ req[c].done = {}
    BY <2>1, <2>2, <2>4, RequestFields
  <2> QED
    BY <1>2, <1>3, <2>1, <2>3, <2>4, Zenon
<1>6. UnmapStep(c, pages)
  <2>1. \A p \in pages : pte[p] # None => count[pte[p]] = 1
    BY <1>1, <1>2, <1>3, <1>4, UnmappedCounted, Zenon DEF Ranges
  <2> QED
    BY <1>2, <1>3, <1>5, <2>1, Zenon DEF UnmapStep
<1>7. /\ pte' \in [Page -> Frame \cup {None}] /\ unmapped' \in [Cores -> SUBSET (Page \X Frame)]
      /\ pc' \in [Cores -> Labels] /\ pc'[c] = "shoot"
      /\ \A d \in Cores \ {c} : pc'[d] = pc[d] /\ unmapped'[d] = unmapped[d]
      /\ \A q \in Page : pte'[q] = IF q \in pages THEN None ELSE pte[q]
      /\ OnePurpose' /\ Counted' /\ StaleTranslationsPending'
  BY <1>6, UnmapFrames, Zenon
<1>8. TypeOK'
  BY <1>1, <1>2, <1>5, <1>7, Zenon DEF TypeOK, Unmap
<1>9. Stages'
  BY <1>1, <1>2, <1>4, <1>5, <1>7 DEF TypeOK, Stages, Readers
<1>10. Ranges'
  <2>1. \A q \in Page : q \in req'[c].todo \/ q \in req'[c].done => q \in Claimed(c)
    BY <1>2, <1>5, Zenon
  <2>2. \A q \in Page : pte'[q] # None => use[q] # "Free"
    BY <1>1, <1>7, Zenon DEF Ranges
  <2>3. c \notin Readers'
    BY <1>7, Zenon DEF Readers
  <2>4. \A d \in Cores \ {c} : pc'[d] = pc[d] /\ req'[d] = req[d] /\ (heapLock' = d => heapLock = d)
    BY <1>2, <1>5, <1>7, Zenon
  <2> QED
    BY <1>1, <1>2, <1>4, <1>8, <2>1, <2>2, <2>3, <2>4, RangesKept, Zenon DEF Confined
<1> QED
  BY <1>7, <1>8, <1>9, <1>10, Zenon DEF IInv

\* FreePages unmaps and frees a part of its range and releases KVas.Lock.
LEMMA FreeUnmapKeeps ==
    ASSUME IInv, NEW c \in Cores, FreeUnmap(c)
    PROVE  IInv'
<1>1. TypeOK /\ Stages /\ Ranges
  BY Zenon DEF IInv
<1>2. PICK S \in SUBSET Page : S = req[c].todo
  BY <1>1, Zenon DEF TypeOK, Requests
<1>3. PICK pages \in SUBSET S : pages = Round(S)
  BY Zenon DEF Round
<1>4. /\ pc[c] = "free" /\ heapLock = None /\ writer' = None
      /\ Unmap(c, pages) /\ UNCHANGED <<count, tlb, heapLock, await>>
      /\ use' = [p \in Page |-> IF p \in pages THEN "Free" ELSE use[p]]
      /\ req' = [req EXCEPT ![c].todo = S \ pages]
  <2>1. req' = [req EXCEPT ![c].todo = req[c].todo \ Round(req[c].todo)]
    BY <1>1, Zenon DEF FreeUnmap, TypeOK
  <2> QED
    BY <1>2, <1>3, <2>1, Zenon DEF FreeUnmap
<1>5. /\ req' \in [Cores -> Requests] /\ \A d \in Cores \ {c} : req'[d] = req[d]
      /\ req'[c].todo = S \ pages /\ req'[c].done = {} /\ req[c].done = {}
  <2>1. PICK T \in SUBSET Page : T = S \ pages
    BY Zenon
  <2>2. req[c].done = {}
    BY <1>1, <1>4, Zenon DEF Stages
  <2>3. req \in [Cores -> Requests] /\ req' = [req EXCEPT ![c].todo = T]
    BY <1>1, <1>4, <2>1, Zenon DEF TypeOK
  <2> QED
    BY <2>1, <2>2, <2>3, RequestFields
<1>6. unmapped[c] = {} /\ Readers = {} /\ \A d \in Cores : pc[d] = "free" => d = c
  BY <1>1, <1>4, VmmAssumption, Zenon DEF Stages, Readers
<1>7. UnmapStep(c, pages)
  <2>1. \A p \in pages : pte[p] # None => count[pte[p]] = 1
    BY <1>3, <1>4, UnmappedCounted, Zenon
  <2> QED
    BY <1>3, <1>4, <1>5, <1>6, <2>1, Zenon DEF UnmapStep
<1>8. /\ pte' \in [Page -> Frame \cup {None}] /\ unmapped' \in [Cores -> SUBSET (Page \X Frame)]
      /\ pc' \in [Cores -> Labels] /\ pc'[c] = "shoot"
      /\ \A d \in Cores \ {c} : pc'[d] = pc[d] /\ unmapped'[d] = unmapped[d]
      /\ \A q \in Page : pte'[q] = IF q \in pages THEN None ELSE pte[q]
      /\ OnePurpose' /\ Counted' /\ StaleTranslationsPending'
  BY <1>7, UnmapFrames, Zenon
<1>9. /\ \A q \in Page : use'[q] = IF q \in pages THEN "Free" ELSE use[q]
      /\ use' \in [Page -> {"Free", "OnDemand", "Commit"}]
  BY <1>1, <1>4, Zenon DEF TypeOK
<1>10. TypeOK'
  BY <1>1, <1>4, <1>5, <1>8, <1>9, Zenon DEF TypeOK, Unmap
<1>11. Stages'
  BY <1>1, <1>4, <1>5, <1>6, <1>8, VmmAssumption DEF TypeOK, Stages, Readers
<1>12. Ranges'
  <2>1. /\ \A q \in Page : q \in Claimed(c) <=> q \in S
        /\ \A q \in Page : q \in Claimed(c)' <=> q \in S /\ q \notin pages
        /\ \A d \in Cores \ {c}, q \in Page : q \in Claimed(d)' <=> q \in Claimed(d)
    BY <1>2, <1>5, Zenon DEF Claimed
  <2>2. \A d \in Cores, q \in Page : q \in Claimed(d)' => q \in Claimed(d) /\ q \notin pages
    BY <1>1, <1>3, <2>1, Zenon DEF Ranges
  <2>3. \A q \in Page : pte'[q] # None => use'[q] # "Free"
    BY <1>1, <1>8, <1>9, Zenon DEF Ranges
  <2>4. \A d, e \in Cores, q \in Page : q \in Claimed(d)' /\ q \in Claimed(e)' => d = e
    BY <1>1, <2>2, Zenon DEF Ranges
  <2>5. \A d \in Cores, q \in Page : q \in Claimed(d)' => use'[q] # "Free"
    BY <1>1, <1>9, <2>2, Zenon DEF Ranges
  <2>6. \A d \in Cores : pc'[d] = "commitLock" \/ heapLock' = d =>
           \A q \in Page : q \in Claimed(d)' => use'[q] = "Commit"
    BY <1>1, <1>4, <1>8, <1>9, <2>2, VmmAssumption, Zenon DEF Ranges
  <2>7. Readers' = {}
    BY <1>6, <1>8, Zenon DEF Readers
  <2> QED
    BY <2>3, <2>4, <2>5, <2>6, <2>7, Zenon DEF Ranges
<1> QED
  BY <1>8, <1>10, <1>11, <1>12, Zenon DEF IInv

-----------------------------------------------------------------------------
\* A shootdown: the TLBs of the caller and of the others, and the references.
LEMMA InvalidateRangeKeeps ==
    ASSUME IInv, NEW c \in Cores, InvalidateRange(c)
    PROVE  IInv'
<1>1. TypeOK /\ Stages /\ Ranges /\ OnePurpose /\ Counted /\ StaleTranslationsPending
  BY Zenon DEF IInv
<1>2. /\ UNCHANGED <<use, pml, pte, count, writer, heapLock, req, unmapped>>
      /\ pc[c] = "shoot"
  BY Zenon DEF InvalidateRange, tables, locks
<1>3. \/ /\ unmapped[c] = {} /\ pc' = [pc EXCEPT ![c] = "drop"] /\ UNCHANGED <<tlb, await>>
      \/ /\ pc' = [pc EXCEPT ![c] = "wait"]
         /\ tlb' = [tlb EXCEPT ![c] = [p \in Page |-> IF \E u \in unmapped[c] : u[1] = p
                                                      THEN None ELSE tlb[c][p]]]
         /\ await' = [await EXCEPT ![c] = Cores \ {c}]
  BY Zenon DEF InvalidateRange, Goto, Invalidated
<1>4. /\ pc' \in [Cores -> Labels] /\ pc'[c] \in {"drop", "wait"}
      /\ \A d \in Cores \ {c} : pc'[d] = pc[d]
  BY <1>1, <1>3, Zenon DEF TypeOK, Labels
<1>5. /\ tlb' \in [Cores -> [Page -> Frame \cup {None}]] /\ await' \in [Cores -> SUBSET Cores]
      /\ \A d \in Cores \ {c} : tlb'[d] = tlb[d] /\ await'[d] = await[d]
      /\ await'[c] # {} => pc'[c] = "wait"
  <2>1. CASE UNCHANGED <<tlb, await>>
    BY <1>1, <1>2, <2>1, Zenon DEF TypeOK, Stages
  <2>2. CASE /\ pc' = [pc EXCEPT ![c] = "wait"]
             /\ tlb' = [tlb EXCEPT ![c] = [p \in Page |-> IF \E u \in unmapped[c] : u[1] = p
                                                          THEN None ELSE tlb[c][p]]]
             /\ await' = [await EXCEPT ![c] = Cores \ {c}]
    BY <1>1, <2>2, Zenon DEF TypeOK
  <2> QED
    BY <1>3, <2>1, <2>2, Zenon
<1>6. TypeOK'
  BY <1>1, <1>2, <1>4, <1>5, Zenon DEF TypeOK
<1>7. Stages'
  <2>1. \A d \in Cores : d \in Readers' <=> d \in Readers
    BY <1>2, <1>4, Zenon DEF Readers
  <2>2. \A d \in Cores \ {c} : /\ pc'[d] = pc[d] /\ req'[d] = req[d] /\ await'[d] = await[d]
                             /\ unmapped'[d] = unmapped[d]
    BY <1>2, <1>4, <1>5, Zenon
  <2>3. c \notin Readers
    BY <1>2, Zenon DEF Readers
  <2> QED
    BY <1>1, <1>2, <1>4, <1>5, <2>1, <2>2, <2>3 DEF Stages
<1>8. Ranges'
  <2>1. \A q \in Page : q \in req'[c].todo \/ q \in req'[c].done => q \in Claimed(c)
    BY <1>2, Zenon DEF Claimed
  <2>2. pc'[c] # "commitLock" /\ c \notin Readers'
    BY <1>4, Zenon DEF Readers
  <2>3. \A q \in Page : pte'[q] # None => use[q] # "Free"
    BY <1>1, <1>2, Zenon DEF Ranges
  <2> QED
    BY <1>1, <1>2, <1>4, <1>6, <2>1, <2>2, <2>3, RangesKept, Zenon DEF Confined
<1>9. \A d \in Cores, f \in Frame : (Holding(d, f)' <=> Holding(d, f)) /\ (Counting(d, f)' <=> Counting(d, f))
  BY <1>2, <1>4, Zenon DEF Holding, Counting
<1>10. \A g \in Frame : NoMore(g) /\ NoLess(g)
  <2>1. \A g : \A d \in Cores : Counting(d, g) => req[d].page \in Page
    BY <1>1, Zenon DEF Stages, Counting
  <2> QED
    BY <1>2, <1>9, <2>1, Zenon DEF NoMore, NoLess
<1>11. OnePurpose' /\ Counted'
  BY <1>1, <1>2, <1>10, StaysSole, StaysCounted, Zenon DEF OnePurpose, Counted
<1>12. StaleTranslationsPending'
  <2> SUFFICES ASSUME NEW d \in Cores, NEW q \in Page, tlb'[d][q] \notin {None, pte'[q]}
               PROVE  \E e \in Cores : /\ <<q, tlb'[d][q]>> \in unmapped'[e]
                                       /\ pc'[e] = "shoot" \/ d \in await'[e]
    BY Zenon DEF StaleTranslationsPending
  <2>1. tlb'[d][q] = tlb[d][q] /\ (d = c => ~ \E u \in unmapped[c] : u[1] = q)
    BY <1>1, <1>3, <1>5, SMTT(40) DEF TypeOK
  <2>2. PICK e \in Cores : /\ <<q, tlb[d][q]>> \in unmapped[e]
                           /\ pc[e] = "shoot" \/ d \in await[e]
    BY <1>1, <1>2, <2>1, Zenon DEF StaleTranslationsPending
  <2>3. CASE e # c
    BY <1>2, <1>4, <1>5, <2>1, <2>2, <2>3, Zenon
  <2>4. CASE e = c
    <3>1. d # c /\ await' = [await EXCEPT ![c] = Cores \ {c}]
      BY <1>3, <2>1, <2>2, <2>4, Zenon
    <3>2. d \in await'[c]
      BY <1>1, <3>1, Zenon DEF TypeOK
    <3> QED
      BY <1>2, <2>1, <2>2, <2>4, <3>2, Zenon
  <2> QED
    BY <2>3, <2>4, Zenon
<1> QED
  BY <1>6, <1>7, <1>8, <1>11, <1>12, Zenon DEF IInv

\* The processor fills its TLB, or executes the invalidation it was mailed.
LEMMA TlbKeeps ==
    ASSUME IInv, NEW d \in Cores,
           (\E p \in Page : FillTlb(d, p)) \/ (\E c \in Cores : RangeInvalidator(d, c))
    PROVE  IInv'
<1>1. TypeOK /\ Stages /\ Ranges /\ OnePurpose /\ Counted /\ StaleTranslationsPending
  BY Zenon DEF IInv
<1>2. UNCHANGED <<use, pml, pte, count, writer, heapLock, pc, req, unmapped>>
  BY Zenon DEF FillTlb, RangeInvalidator, tables, locks, shootdown
<1>3. Ranges' /\ OnePurpose' /\ Counted'
  <2>1. \A c \in Cores : (c \in Readers' <=> c \in Readers) /\ Claimed(c)' = Claimed(c)
    BY <1>2, Zenon DEF Readers, Claimed
  <2>2. \A c \in Cores, f \in Frame : /\ Holding(c, f)' <=> Holding(c, f)
                                      /\ Counting(c, f)' <=> Counting(c, f)
    BY <1>2, Zenon DEF Holding, Counting
  <2>3. Ranges'
    BY <1>1, <1>2, <2>1, SMTT(40) DEF Ranges, Readers
  <2>4. \A g : \A c \in Cores : Counting(c, g) => req[c].page \in Page
    BY <1>1, Zenon DEF Stages, Counting
  <2>5. \A g \in Frame : NoMore(g) /\ NoLess(g)
    BY <1>2, <2>2, <2>4, Zenon DEF NoMore, NoLess
  <2>6. OnePurpose' /\ Counted'
    BY <1>1, <1>2, <2>5, StaysSole, StaysCounted, Zenon DEF OnePurpose, Counted
  <2> QED
    BY <2>3, <2>6, Zenon
<1>4. ASSUME NEW p \in Page, FillTlb(d, p) PROVE IInv'
  <2>1. await' = await /\ pte[p] # None /\ tlb' = [tlb EXCEPT ![d] = [tlb[d] EXCEPT ![p] = pte[p]]]
    BY <1>1, <1>4, Zenon DEF FillTlb, shootdown, TypeOK
  <2>2. TypeOK'
    BY <1>1, <1>2, <2>1, Zenon DEF TypeOK
  <2>3. Stages'
    BY <1>1, <1>2, <2>1, Zenon DEF Stages, Readers
  <2>4. StaleTranslationsPending'
    <3>1. \A e \in Cores, q \in Page : tlb'[e][q] \in {tlb[e][q], pte[q]}
      BY <1>1, <2>1, Zenon DEF TypeOK
    <3> QED
      BY <1>1, <1>2, <2>1, <3>1 DEF StaleTranslationsPending
  <2> QED
    BY <1>3, <2>2, <2>3, <2>4, Zenon DEF IInv
<1>5. ASSUME NEW c \in Cores, RangeInvalidator(d, c) PROVE IInv'
  <2>1. /\ d \in await[c] /\ await' = [await EXCEPT ![c] = await[c] \ {d}]
        /\ tlb' = [tlb EXCEPT ![d] = [p \in Page |-> IF \E u \in unmapped[c] : u[1] = p
                                                     THEN None ELSE tlb[d][p]]]
    BY <1>1, <1>5, Zenon DEF RangeInvalidator, Invalidated, TypeOK
  <2>2. /\ tlb' \in [Cores -> [Page -> Frame \cup {None}]] /\ await' \in [Cores -> SUBSET Cores]
        /\ \A e \in Cores : await'[e] \subseteq await[e]
        /\ \A e, w \in Cores : e \in await[w] => e \in await'[w] \/ (e = d /\ w = c)
    <3>1. tlb' \in [Cores -> [Page -> Frame \cup {None}]]
      BY <1>1, <2>1, Zenon DEF TypeOK
    <3>2. await \in [Cores -> SUBSET Cores]
      BY <1>1, Zenon DEF TypeOK
    <3>3. await' \in [Cores -> SUBSET Cores]
      BY <2>1, <3>2, Zenon
    <3>4. /\ \A e \in Cores : await'[e] \subseteq await[e]
          /\ \A e, w \in Cores : e \in await[w] => e \in await'[w] \/ (e = d /\ w = c)
      <4>1. await'[c] = await[c] \ {d} /\ \A w \in Cores \ {c} : await'[w] = await[w]
        BY <2>1, <3>2, Zenon
      <4>2. ASSUME NEW w \in Cores PROVE /\ await'[w] \subseteq await[w]
                                         /\ \A e \in await[w] : e \in await'[w] \/ (e = d /\ w = c)
        <5>1. CASE w = c
          BY <4>1, <5>1, Zenon
        <5>2. CASE w # c
          BY <4>1, <5>2, Zenon
        <5> QED
          BY <5>1, <5>2, Zenon
      <4> QED
        BY <4>2, Zenon
    <3> QED
      BY <3>1, <3>3, <3>4, Zenon
  <2>3. TypeOK'
    BY <1>1, <1>2, <2>2, Zenon DEF TypeOK
  <2>4. Stages'
    BY <1>1, <1>2, <2>2, ZenonT(40) DEF Stages, Readers
  <2>5. StaleTranslationsPending'
    <3> SUFFICES ASSUME NEW e \in Cores, NEW q \in Page, tlb'[e][q] \notin {None, pte'[q]}
                 PROVE  \E w \in Cores : /\ <<q, tlb'[e][q]>> \in unmapped'[w]
                                         /\ pc'[w] = "shoot" \/ e \in await'[w]
      BY Zenon DEF StaleTranslationsPending
    <3>1. tlb'[e][q] = tlb[e][q] /\ (e = d => ~ \E u \in unmapped[c] : u[1] = q)
      BY <1>1, <2>1, Zenon DEF TypeOK
    <3>2. PICK w \in Cores : /\ <<q, tlb[e][q]>> \in unmapped[w]
                             /\ pc[w] = "shoot" \/ e \in await[w]
      BY <1>1, <1>2, <3>1, Zenon DEF StaleTranslationsPending
    <3>3. ~(e = d /\ w = c)
      BY <3>1, <3>2
    <3> QED
      BY <1>2, <2>2, <3>1, <3>2, <3>3, Zenon
  <2> QED
    BY <1>3, <2>3, <2>4, <2>5, Zenon DEF IInv
<1> QED
  BY <1>4, <1>5, Zenon

\* The reference of a mapping is dropped, which frees the frame.
LEMMA DropReferenceKeeps ==
    ASSUME IInv, NEW c \in Cores, DropReference(c)
    PROVE  IInv'
<1>1. TypeOK /\ Stages /\ Ranges /\ OnePurpose /\ Counted /\ StaleTranslationsPending
  BY Zenon DEF IInv
<1>2. /\ UNCHANGED <<use, pml, pte, tlb, writer, heapLock, pc, req, await>>
      /\ pc[c] = "drop"
  BY Zenon DEF DropReference, tables, locks
<1>3. PICK u \in unmapped[c] : /\ count' = AdjustReferenceCount(count, u[2], -1)
                               /\ unmapped' = [unmapped EXCEPT ![c] = unmapped[c] \ {u}]
  BY <1>1, Zenon DEF DropReference, TypeOK
<1>4. PICK p \in Page, f \in Frame : u = <<p, f>>
  BY <1>1, <1>3 DEF TypeOK
<1>5. Sole(f) /\ InCount(f) /\ count[f] = 1
  BY <1>1, <1>3, <1>4, Zenon DEF OnePurpose, Counted, InCount
<1>6. /\ count' \in [Frame -> {Unused, 0, 1}] /\ count'[f] = Unused
      /\ \A g \in Frame \ {f} : count'[g] = count[g]
  <2>1. count' = [count EXCEPT ![f] = Unused]
    <3>1. u[2] = f /\ count[f] + (-1) = 0
      <4>1. u[2] = f
        BY <1>4, Zenon
      <4>2. count[f] = 1
        BY <1>5, Zenon
      <4> QED
        BY <4>1, <4>2
    <3> QED
      BY <1>3, <3>1, Zenon DEF AdjustReferenceCount
  <2> QED
    BY <1>1, <2>1, Zenon DEF TypeOK
<1>7. /\ unmapped' \in [Cores -> SUBSET (Page \X Frame)]
      /\ \A d \in Cores \ {c} : unmapped'[d] = unmapped[d]
      /\ unmapped'[c] = unmapped[c] \ {<<p, f>>}
  BY <1>1, <1>3, <1>4, Zenon DEF TypeOK
<1>8. /\ \A d \in Cores, q \in Page : <<q, f>> \notin unmapped'[d]
      /\ \A d \in Cores, q \in Page, g \in Frame \ {f} : <<q, g>> \in unmapped'[d] <=> <<q, g>> \in unmapped[d]
  <2>1. \A d \in Cores, q \in Page : <<q, f>> \in unmapped[d] => d = c /\ q = p
    BY <1>3, <1>4, <1>5, Zenon DEF Sole
  <2>2. ASSUME NEW d \in Cores, NEW q \in Page, NEW g \in Frame
        PROVE  <<q, g>> \in unmapped'[d] <=> <<q, g>> \in unmapped[d] /\ (d = c => <<q, g>> # <<p, f>>)
    <3>1. CASE d = c
      BY <1>7, <3>1, Zenon
    <3>2. CASE d # c
      BY <1>7, <3>2, Zenon
    <3> QED
      BY <3>1, <3>2, Zenon
  <2> QED
    BY <2>1, <2>2, Zenon
<1>9. TypeOK'
  BY <1>1, <1>2, <1>6, <1>7, Zenon DEF TypeOK
<1>10. Stages'
  BY <1>1, <1>2, <1>7, Zenon DEF Stages, Readers
<1>11. Ranges'
  <2>1. \A q \in Page : q \in req'[c].todo \/ q \in req'[c].done => q \in Claimed(c)
    BY <1>2, Zenon DEF Claimed
  <2>2. pc'[c] # "commitLock" /\ c \notin Readers'
    BY <1>2, Zenon DEF Readers
  <2>3. \A q \in Page : pte'[q] # None => use[q] # "Free"
    BY <1>1, <1>2, Zenon DEF Ranges
  <2> QED
    BY <1>1, <1>2, <1>9, <2>1, <2>2, <2>3, RangesKept, Zenon DEF Confined
<1>12. \A d \in Cores, g \in Frame : /\ Holding(d, g)' <=> Holding(d, g)
                                     /\ Counting(d, g)' <=> Counting(d, g)
  BY <1>2, Zenon DEF Holding, Counting
<1>13. Sole(f)' /\ InCount(f)'
  <2>4. count[f] # 0
    BY <1>5
  <2>0. <<p, f>> \in unmapped[c]
    BY <1>3, <1>4, Zenon
  <2>1. \A q \in Page : pte'[q] # f
    BY <1>2, <1>5, <2>0, Zenon DEF Sole
  <2>2. \A k \in 2 .. 3 : pml'[k] # f
    BY <1>2, <1>5, <2>0, Zenon DEF Sole
  <2>3. \A d \in Cores : ~Holding(d, f)' /\ ~Counting(d, f)'
    BY <1>5, <1>12, <2>4, Zenon DEF InCount
  <2> QED
    <3>1. 2 \in 2 .. 3 /\ 3 \in 2 .. 3 /\ count'[f] # 1
      BY <1>6 DEF Unused
    <3>2. Sole(f)'
      BY <1>8, <2>1, <2>2, <2>3, <3>1, Zenon DEF Sole
    <3>3. InCount(f)'
      BY <1>8, <2>1, <2>2, <2>3, <3>1, Zenon DEF InCount
    <3> QED
      BY <3>2, <3>3, Zenon
<1>14. ASSUME NEW g \in Frame \ {f} PROVE Sole(g)' /\ InCount(g)'
  <2>1. \A d \in Cores : Counting(d, g) => req[d].page \in Page
    BY <1>1, Zenon DEF Stages, Counting
  <2>2. g \in Frame /\ \A d \in Cores, q \in Page : <<q, g>> \in unmapped'[d] <=> <<q, g>> \in unmapped[d]
    BY <1>8, Zenon
  <2>3. NoMore(g) /\ NoLess(g)
    BY <1>2, <1>12, <2>1, <2>2, Zenon DEF NoMore, NoLess
  <2> QED
    BY <1>1, <1>6, <2>2, <2>3, StaysSole, StaysCounted, Zenon DEF OnePurpose, Counted
<1>15. OnePurpose' /\ Counted'
  BY <1>1, <1>2, <1>13, <1>14, Zenon DEF OnePurpose, Counted
<1>16. StaleTranslationsPending'
  <2> SUFFICES ASSUME NEW e \in Cores, NEW q \in Page, tlb'[e][q] \notin {None, pte'[q]}
               PROVE  \E w \in Cores : /\ <<q, tlb'[e][q]>> \in unmapped'[w]
                                       /\ pc'[w] = "shoot" \/ e \in await'[w]
    BY Zenon DEF StaleTranslationsPending
  <2>1. PICK w \in Cores : /\ <<q, tlb[e][q]>> \in unmapped[w]
                           /\ pc[w] = "shoot" \/ e \in await[w]
    BY <1>1, <1>2, Zenon DEF StaleTranslationsPending
  <2>2. w # c
    BY <1>1, <1>2, <2>1, Zenon DEF Stages
  <2> QED
    BY <1>2, <1>7, <2>1, <2>2, Zenon
<1> QED
  BY <1>9, <1>10, <1>11, <1>15, <1>16, Zenon DEF IInv

-----------------------------------------------------------------------------
LEMMA Initially == Init => IInv
<1> SUFFICES ASSUME Init PROVE IInv
  BY Zenon
<1>1. TypeOK
  BY RequestFields, Zenon DEF Init, TypeOK, Labels
<1>2. Stages
  BY RequestFields, VmmAssumption, Zenon DEF Init, Stages, Readers
<1>3. Ranges
  BY RequestFields, VmmAssumption, Zenon DEF Init, Ranges, Readers, Claimed
<1>4. OnePurpose
  <2> SUFFICES ASSUME NEW f \in Frame PROVE Sole(f)
    BY Zenon DEF OnePurpose
  <2>1. /\ \A p \in Page : pte[p] # f
        /\ \A k \in 2 .. 3 : pml[k] # f
        /\ \A c \in Cores, p \in Page : <<p, f>> \notin unmapped[c]
        /\ \A c \in Cores : ~Holding(c, f) /\ ~Counting(c, f)
    BY VmmAssumption, Zenon DEF Init, Holding, Counting
  <2>2. 2 \in 2 .. 3
    OBVIOUS
  <2> QED
    BY <2>1, <2>2, Zenon DEF Sole
<1>5. Counted
  BY VmmAssumption, SMTT(40) DEF Init, Counted, InCount, Holding, Counting, Unused
<1>6. StaleTranslationsPending
  BY Zenon DEF Init, StaleTranslationsPending
<1> QED
  BY <1>1, <1>2, <1>3, <1>4, <1>5, <1>6, Zenon DEF IInv

LEMMA Stepwise == IInv /\ [Next]_vars => IInv'
<1> SUFFICES ASSUME IInv, [Next]_vars PROVE IInv'
  BY Zenon
<1>1. CASE UNCHANGED vars
  <2>1. UNCHANGED <<use, pml, pte, count, tlb, writer, heapLock, pc, req, unmapped, await>>
    BY <1>1, Zenon DEF vars, tables, locks, shootdown
  <2>2. /\ TypeOK' = TypeOK /\ Readers' = Readers
        /\ \A c : Claimed(c)' = Claimed(c)
        /\ \A c, f : Holding(c, f)' = Holding(c, f) /\ Counting(c, f)' = Counting(c, f)
    BY <2>1, Zenon DEF TypeOK, Readers, Claimed, Holding, Counting
  <2>3. Stages' /\ Ranges'
    BY <2>1, <2>2, Zenon DEF IInv, Stages, Ranges
  <2>4. OnePurpose'
    BY <2>1, <2>2, Zenon DEF IInv, OnePurpose, Sole
  <2>5. Counted'
    BY <2>1, <2>2, Zenon DEF IInv, Counted, InCount
  <2>6. StaleTranslationsPending'
    BY <2>1, Zenon DEF IInv, StaleTranslationsPending
  <2> QED
    BY <2>2, <2>3, <2>4, <2>5, <2>6, Zenon DEF IInv
<1>2. ASSUME NEW c \in Cores, CoreNext(c) \/ \E p \in Page : FillTlb(c, p) PROVE IInv'
  <2>1. CASE Quiet(c)
    <3>1. Aside(c) /\ TypeOK' /\ Stages' /\ Ranges'
      BY <2>1, QuietAside, QuietTypeOK, QuietStages, Zenon
    <3> QED
      BY <3>1, AsideFrames, Zenon DEF IInv
  <2>2. CASE CommitPage(c)
    BY <2>2, CommitPageKeeps, Zenon
  <2>3. CASE FaultFrame(c)
    BY <2>3, FaultFrameKeeps, Zenon
  <2>4. CASE FaultMap(c)
    BY <2>4, FaultMapKeeps, Zenon
  <2>5. CASE FaultCount(c) \/ FaultFree(c)
    BY <2>5, FaultEndKeeps, Zenon
  <2>6. CASE Backtrack(c) \/ (NextRound(c) /\ heapLock = c)
    BY <2>6, BacktrackKeeps, Zenon
  <2>7. CASE FreeUnmap(c)
    BY <2>7, FreeUnmapKeeps, Zenon
  <2>8. CASE InvalidateRange(c)
    BY <2>8, InvalidateRangeKeeps, Zenon
  <2>9. CASE (\E p \in Page : FillTlb(c, p)) \/ (\E d \in Cores : RangeInvalidator(c, d))
    BY <2>9, TlbKeeps, Zenon
  <2>10. CASE DropReference(c)
    BY <2>10, DropReferenceKeeps, Zenon
  <2>11. CASE NextRound(c)
    BY <2>1, <2>6, <2>11, Zenon DEF Quiet
  <2>12. CASE \/ \E kind \in {"OnDemand", "Commit"} : AllocatePages(c, kind)
              \/ CommitLock(c) \/ CommitNoFrame(c) \/ CommitDone(c)
              \/ \E p \in Page : HandlePageFault(c, p)
              \/ FaultLookup(c) \/ FaultNoFrame(c)
              \/ FreePages(c) \/ FreeLock(c) \/ InvalidateReturn(c) \/ UnmapReturn(c)
    BY <2>1, <2>12, Zenon DEF Quiet
  <2>13. CASE CoreNext(c)
    <3>1. CASE \E d \in Cores : RangeInvalidator(c, d)
      BY <2>9, <3>1, Zenon
    <3>2. CASE FaultFrame(c) \/ FaultMap(c) \/ FaultCount(c) \/ FaultFree(c)
      BY <2>3, <2>4, <2>5, <3>2, Zenon
    <3>3. CASE CommitPage(c) \/ Backtrack(c) \/ FreeUnmap(c) \/ InvalidateRange(c)
               \/ DropReference(c) \/ NextRound(c)
      BY <2>2, <2>6, <2>7, <2>8, <2>10, <2>11, <3>3, Zenon
    <3> QED
      BY <2>12, <2>13, <3>1, <3>2, <3>3, Zenon DEF CoreNext
  <2> QED
    BY <1>2, <2>9, <2>13, Zenon
<1> QED
  BY <1>1, <1>2, Zenon DEF Next

-----------------------------------------------------------------------------
\* What the invariant says of free frames, of counts and of waiting.
LEMMA Uncached == IInv => FreeFramesUncached
<1> SUFFICES ASSUME IInv, NEW f \in Frame, count[f] = Unused
             PROVE  /\ \A p \in Page : pte[p] # f /\ \A c \in Cores : tlb[c][p] # f
                    /\ \A k \in 2 .. 3 : pml[k] # f
  BY Zenon DEF FreeFramesUncached, FreeFrames
<1>1. /\ \A q \in Page : pte[q] # f
      /\ \A d \in Cores, q \in Page : <<q, f>> \notin unmapped[d]
      /\ \A k \in 2 .. 3 : pml[k] # f
  BY FreeFrameUnused, Zenon
<1>2. ASSUME NEW p \in Page, NEW c \in Cores PROVE tlb[c][p] # f
  BY <1>1, VmmAssumption, Zenon DEF IInv, StaleTranslationsPending
<1> QED
  BY <1>1, <1>2, Zenon

\* The cardinality of a set that is empty, or has one element only, from its definition.
LEMMA CardinalityOfFew ==
    ASSUME NEW x PROVE Cardinality({}) = 0 /\ Cardinality({x}) = 1
<1> DEFINE Body(S, f) == [T \in SUBSET S |-> IF T = {} THEN 0 ELSE 1 + f[T \ {CHOOSE y : y \in T}]]
           CS(S) == CHOOSE f : f = Body(S, f)
<1>1. ASSUME NEW S, NEW g, g = Body(S, g)
      PROVE  CS(S) = Body(S, CS(S)) /\ Cardinality(S) = CS(S)[S]
  BY <1>1, Zenon DEF Cardinality
<1> HIDE DEF CS, Body
<1>2. Cardinality({}) = 0
  <2> DEFINE g == [T \in SUBSET {} |-> 0]
  <2>1. g = Body({}, g)
    BY Zenon DEF Body
  <2>2. CS({}) = Body({}, CS({})) /\ Cardinality({}) = CS({})[{}]
    <3> HIDE DEF g
    <3> QED
      BY <2>1, <1>1, Zenon
  <2>3. Body({}, CS({}))[{}] = 0
    BY Zenon DEF Body
  <2> QED
    BY <2>2, <2>3, Zenon
<1>3. Cardinality({x}) = 1
  <2> DEFINE g == [T \in SUBSET {x} |-> IF T = {} THEN 0 ELSE 1]
  <2>1. \A T \in SUBSET {x} : T # {} => T = {x} /\ (CHOOSE y : y \in T) = x /\ T \ {CHOOSE y : y \in T} = {}
    BY Zenon
  <2>2. g = Body({x}, g)
    BY <2>1 DEF Body
  <2>3. CS({x}) = Body({x}, CS({x})) /\ Cardinality({x}) = CS({x})[{x}]
    <3> HIDE DEF g
    <3> QED
      BY <2>2, <1>1, Zenon
  <2>4. \A f : Body({x}, f)[{}] = 0 /\ Body({x}, f)[{x}] = 1 + f[{}]
    BY <2>1, Zenon DEF Body
  <2>5. CS({x})[{}] = 0 /\ CS({x})[{x}] = 1 + CS({x})[{}]
    BY <2>3, <2>4, Zenon
  <2> QED
    BY <2>3, <2>5
<1> QED
  BY <1>2, <1>3, Zenon

\* A set that is empty, or has one element only.
LEMMA Few ==
    ASSUME NEW S, NEW x, \A y \in S : y = x
    PROVE  Cardinality(S) = IF x \in S THEN 1 ELSE 0
<1>1. CASE x \in S
  <2>1. S = {x}
    BY <1>1, Zenon
  <2> QED
    BY <1>1, <2>1, CardinalityOfFew, Zenon
<1>2. CASE x \notin S
  <2>1. S = {}
    BY <1>2, Zenon
  <2> QED
    BY <1>2, <2>1, CardinalityOfFew, Zenon
<1> QED
  BY <1>1, <1>2, Zenon

LEMMA Kept == IInv => MappingsKept
<1> SUFFICES ASSUME IInv PROVE MappingsKept
  BY Zenon
<1>1. ASSUME NEW f \in Frame \ FreeFrames(count)
      PROVE  count[f] = Cardinality({p \in Page : pte[p] = f})
                        + Cardinality({u \in Cores \X Page : <<u[2], f>> \in unmapped[u[1]]})
                        + Cardinality({k \in 2 .. 3 : pml[k] = f})
                        - Cardinality({c \in Cores : pc[c] = "faultCount" /\ req[c].frame = f})
  <2>1. Sole(f) /\ InCount(f) /\ count[f] \in {0, 1}
    BY Zenon DEF IInv, OnePurpose, Counted, TypeOK, FreeFrames
  <2> DEFINE M == {p \in Page : pte[p] = f}
             U == {u \in Cores \X Page : <<u[2], f>> \in unmapped[u[1]]}
             T == {k \in 2 .. 3 : pml[k] = f}
             C == {c \in Cores : pc[c] = "faultCount" /\ req[c].frame = f}
  <2>2. Cardinality(M) = IF M = {} THEN 0 ELSE 1
    <3>1. CASE M = {}
      BY <3>1, CardinalityOfFew, Zenon
    <3>2. CASE M # {}
      <4>1. PICK x \in M : \A y \in M : y = x
        BY <2>1, <3>2, Zenon DEF Sole
      <4> QED
        BY <3>2, <4>1, Few, Zenon
    <3> QED
      BY <3>1, <3>2, Zenon
  <2>3. Cardinality(U) = IF U = {} THEN 0 ELSE 1
    <3>1. CASE U = {}
      BY <3>1, CardinalityOfFew, Zenon
    <3>2. CASE U # {}
      <4>1. PICK x \in U : TRUE
        BY <3>2, Zenon
      <4>2. ASSUME NEW y \in U PROVE y = x
        <5>1. PICK c \in Cores, p \in Page : x = <<c, p>> /\ <<p, f>> \in unmapped[c]
          BY <4>1
        <5>2. PICK d \in Cores, q \in Page : y = <<d, q>> /\ <<q, f>> \in unmapped[d]
          BY <4>2
        <5> QED
          BY <2>1, <5>1, <5>2, Zenon DEF Sole
      <4> QED
        BY <3>2, <4>1, <4>2, Few, Zenon
    <3> QED
      BY <3>1, <3>2, Zenon
  <2>4. Cardinality(T) = IF T = {} THEN 0 ELSE 1
    <3>1. CASE T = {}
      BY <3>1, CardinalityOfFew, Zenon
    <3>2. CASE T # {}
      <4>1. pml[2] = f => pml[3] # f
        BY <2>1, Zenon DEF Sole
      <4>2. PICK x \in T : TRUE
        BY <3>2, Zenon
      <4>3. \A y \in T : y = x
        BY <4>1, <4>2
      <4> QED
        BY <3>2, <4>2, <4>3, Few, Zenon
    <3> QED
      BY <3>1, <3>2, Zenon
  <2>5. Cardinality(C) = IF C = {} THEN 0 ELSE 1
    <3>1. CASE C = {}
      BY <3>1, CardinalityOfFew, Zenon
    <3>2. CASE C # {}
      <4>1. PICK x \in C : TRUE
        BY <3>2, Zenon
      <4>2. ASSUME NEW y \in C PROVE y = x
        BY <2>1, <4>1, <4>2, Zenon DEF Sole, Counting
      <4> QED
        BY <3>2, <4>1, <4>2, Few, Zenon
    <3> QED
      BY <3>1, <3>2, Zenon
  <2>6. /\ M # {} <=> \E p \in Page : pte[p] = f
        /\ U # {} <=> \E c \in Cores, p \in Page : <<p, f>> \in unmapped[c]
        /\ T # {} <=> \E k \in 2 .. 3 : pml[k] = f
        /\ C # {} <=> \E c \in Cores : Counting(c, f)
    <3>1. ASSUME NEW c \in Cores, NEW p \in Page, <<p, f>> \in unmapped[c] PROVE <<c, p>> \in U
      BY <3>1, Zenon
    <3>2. ASSUME U # {} PROVE \E c \in Cores, p \in Page : <<p, f>> \in unmapped[c]
      BY <3>2, Zenon
    <3>3. U # {} <=> \E c \in Cores, p \in Page : <<p, f>> \in unmapped[c]
      BY <3>1, <3>2, Zenon
    <3>4. (M # {} <=> \E p \in Page : pte[p] = f) /\ (T # {} <=> \E k \in 2 .. 3 : pml[k] = f)
      BY Zenon
    <3>5. C # {} <=> \E c \in Cores : Counting(c, f)
      BY Zenon DEF Counting
    <3> QED
      BY <3>3, <3>4, <3>5, Zenon
  <2>7. C # {} => M # {}
    <3> SUFFICES ASSUME NEW c \in Cores, Counting(c, f) PROVE \E p \in Page : pte[p] = f
      BY <2>6, Zenon
    <3>1. pte[req[c].page] = f
      BY <2>1, Zenon DEF InCount
    <3>2. req[c].page \in Page
      BY Zenon DEF IInv, Stages, Counting
    <3> QED
      BY <3>1, <3>2, Zenon
  <2> HIDE DEF M, U, T, C
  <2>8. /\ M # {} => U = {} /\ T = {} /\ (count[f] = 1 <=> C = {})
        /\ U # {} => T = {} /\ count[f] = 1
        /\ T # {} => count[f] = 1
        /\ count[f] = 1 => M # {} \/ U # {} \/ T # {}
    <3>1. M # {} => U = {} /\ T = {}
      BY <2>1, <2>6, Zenon DEF Sole
    <3>2. M # {} => (count[f] = 1 <=> C = {})
      <4>1. M # {} => count[f] = 1 \/ C # {}
        BY <2>1, <2>6, Zenon DEF InCount
      <4>2. C # {} => count[f] = 0
        BY <2>1, <2>6, Zenon DEF InCount
      <4> QED
        BY <4>1, <4>2
    <3>3. U # {} => T = {} /\ count[f] = 1
      <4>1. U # {} => T = {}
        BY <2>1, <2>6, Zenon DEF Sole
      <4>2. U # {} => count[f] = 1
        BY <2>1, <2>6, Zenon DEF InCount
      <4> QED
        BY <4>1, <4>2, Zenon
    <3>4. (T # {} => count[f] = 1) /\ (count[f] = 1 => M # {} \/ U # {} \/ T # {})
      BY <2>1, <2>6, Zenon DEF InCount
    <3> QED
      BY <3>1, <3>2, <3>3, <3>4, Zenon
  <2>9. count[f] = Cardinality(M) + Cardinality(U) + Cardinality(T) - Cardinality(C)
    BY <2>1, <2>2, <2>3, <2>4, <2>5, <2>7, <2>8
  <2> QED
    BY <2>9, Zenon DEF M, U, T, C
<1>2. MappingsCounted
  BY <1>1, Zenon DEF MappingsCounted
<1>3. MappedPagesAllocated
  BY Zenon DEF IInv, Ranges, MappedPagesAllocated
<1> QED
  BY <1>2, <1>3, Zenon DEF MappingsKept

LEMMA NoCircle == IInv => NoCircularWait
<1> SUFFICES ASSUME IInv, NEW c \in Cores, NEW d \in Cores, WaitsFor(c, d), WaitsFor(d, c), heapLock \notin {c, d}
             PROVE  FALSE
  BY Zenon DEF NoCircularWait
<1>1. Stages
  BY Zenon DEF IInv
<1> QED
  BY <1>1, VmmAssumption, Zenon DEF Stages, WaitsFor, Readers, Interruptible

\* For any number of cores, pages and frames, and any length of UnmapList: no frame
\* that the allocator may give out is mapped, a page table or in a TLB.
THEOREM FreeFramesAreUncached == Spec => []FreeFramesUncached
  BY Initially, Stepwise, Uncached, PTL DEF Spec

\* The counts of frames agree with the page tables and lists, and only allocated
\* pages are mapped, whichever faults, commits and frees run at once.
THEOREM MappingsAreKept == Spec => []MappingsKept
  BY Initially, Stepwise, Kept, PTL DEF Spec

\* A TLB holds an old translation only while its core has an invalidation to do.
THEOREM StaleTranslationsArePending == Spec => []StaleTranslationsPending
<1>1. IInv => StaleTranslationsPending
  BY Zenon DEF IInv
<1> QED
  BY Initially, Stepwise, <1>1, PTL DEF Spec

\* No two cores wait for each other, unless one backtracks with KernelHeapLock.
THEOREM NoCoresWaitInCircle == Spec => []NoCircularWait
  BY Initially, Stepwise, NoCircle, PTL DEF Spec
=============================================================================
