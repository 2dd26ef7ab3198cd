------------------------------ MODULE Mailbox ------------------------------
(***************************************************************************)
(* The mailbox: a core posts a function that other cores have to execute   *)
(* (TLB shootdowns, debug registers, ...).  An entry lives on the stack of *)
(* the poster, with one link for each destination; it is queued at each of *)
(* them, either at the tail of a queue under the destination's MailLock or *)
(* on top of a lock-free stack for non-maskable mail, and the poster stays *)
(* in Post until DestinationsLeft is zero.  Post runs with interrupts off. *)
(*                                                                         *)
(* A critical section under MailLock is one step.  The entry of core c is  *)
(* called c, as a core is in one Post at a time.  The function of a mail   *)
(* that is not awaited works on copied data, after the entry was let go;   *)
(* it is counted as run when it is taken.  The link of a destination that  *)
(* has taken the entry is cleared: nothing reads it any more.              *)
(***************************************************************************)
EXTENDS Integers, Sequences, FiniteSets

CONSTANTS N,     \* number of cores
          Mails  \* Mails[c]: the kinds of mail core c posts

Core == 0 .. N - 1
Nil == -1        \* nullptr
Broadcast == N   \* not the index of a core

\* A broadcast has a link for every other core, in the order of the indices.
Destinations(c, to) ==
    IF to = Broadcast THEN [i \in 1 .. N - 1 |-> IF i - 1 < c THEN i - 1 ELSE i]
    ELSE <<to>>

ASSUME MailboxAssumption ==
    /\ N \in Nat \ {0, 1}
    /\ \A c \in Core : Mails[c] \subseteq
                       [to : Core \cup {Broadcast}, await : BOOLEAN,
                        nonMaskable : BOOLEAN, poll : BOOLEAN]

\* PostInternal searches as many links of the tail as the new entry has; what the
\* kernel queues is broadcast.
ASSUME EqualCounts ==
    \A c, d \in Core : \A m \in Mails[c], n \in Mails[d] :
       ~m.nonMaskable /\ ~n.nonMaskable => Len(Destinations(c, m.to)) = Len(Destinations(d, n.to))

VARIABLES links,    \* links[e]: the cores of the links of entry e, <<>> when it is gone
          NextLink, \* NextLink[e][c]: field Next of the link of e for core c
          left,     \* DestinationsLeft
          kind,     \* the mail in entry e
          MailHead, MailTail, MailNmTop,
          ipi, nmi, \* interrupts pending at each core
          pc,       \* "idle", "post", "wait", "isr" of each core
          posted,   \* links of its own entry a core has queued so far
          job,      \* the awaited entry whose function ExecuteHead runs, or Nil
          inNmi,    \* is the core in ExecuteNmMail?
          nmEntry,  \* `entry' of ExecuteNmMail: what it has still to go through
          nmJob,    \* the awaited entry whose function ExecuteNmMail runs, or Nil
          ran       \* ghost: how often each core took and ran the mail in entry e

queues == <<MailHead, MailTail, MailNmTop>>
entries == <<links, NextLink, left, kind>>
main == <<pc, posted, job>>
nm == <<inNmi, nmEntry, nmJob>>
vars == <<entries, queues, main, nm, ipi, nmi, ran>>

NoMail == [to |-> Nil, await |-> FALSE, nonMaskable |-> FALSE, poll |-> FALSE]

Init ==
    /\ links = [e \in Core |-> <<>>]
    /\ NextLink = [e \in Core |-> [c \in Core |-> Nil]]
    /\ left = [e \in Core |-> 0]
    /\ kind = [e \in Core |-> NoMail]
    /\ MailHead = [c \in Core |-> Nil]
    /\ MailTail = [c \in Core |-> Nil]
    /\ MailNmTop = [c \in Core |-> Nil]
    /\ ipi = [c \in Core |-> FALSE] /\ nmi = [c \in Core |-> FALSE]
    /\ pc = [c \in Core |-> "idle"]
    /\ posted = [c \in Core |-> 0]
    /\ job = [c \in Core |-> Nil]
    /\ inNmi = [c \in Core |-> FALSE]
    /\ nmEntry = [c \in Core |-> Nil]
    /\ nmJob = [c \in Core |-> Nil]
    /\ ran = [e \in Core |-> [c \in Core |-> 0]]

----------------------------------------------------------------------------
(* Posting.                                                                *)

\* Post is called with interrupts on, when pending ones have been taken.
Post(c, mail) ==
    /\ pc[c] = "idle" /\ ~inNmi[c] /\ ~ipi[c] /\ mail.to # c
    /\ links' = [links EXCEPT ![c] = Destinations(c, mail.to)]
    /\ NextLink' = [NextLink EXCEPT ![c] = [d \in Core |-> Nil]]
    /\ left' = [left EXCEPT ![c] = Len(links'[c])]
    /\ kind' = [kind EXCEPT ![c] = mail]
    /\ ran' = [ran EXCEPT ![c] = [d \in Core |-> 0]]
    /\ pc' = [pc EXCEPT ![c] = "post"]
    /\ UNCHANGED <<queues, posted, job, nm, ipi, nmi>>

\* The link the loop over `count' links of the tail finds for the target, if any.
LinkTailUnsearched(tail, count, target, e) == NextLink
LinkTail(tail, count, target, e) ==
    IF \E j \in 1 .. count : j <= Len(links[tail]) /\ links[tail][j] = target
    THEN [NextLink EXCEPT ![tail][target] = e]
    ELSE NextLink

\* The entry goes to the tail of the target's queue, under its MailLock.
Enqueue(c, target) ==
    /\ MailTail' = [MailTail EXCEPT ![target] = c]
    /\ IF MailTail[target] # Nil
       THEN /\ NextLink' = LinkTail(MailTail[target], Len(links[c]), target, c)
            /\ UNCHANGED MailHead
       ELSE /\ MailHead' = [MailHead EXCEPT ![target] = c]
            /\ UNCHANGED NextLink
    /\ UNCHANGED MailNmTop

\* The compare-exchange succeeds with the top that was stored in the link.
PushNm(c, target) ==
    /\ NextLink' = [NextLink EXCEPT ![c][target] = MailNmTop[target]]
    /\ MailNmTop' = [MailNmTop EXCEPT ![target] = c]
    /\ UNCHANGED <<MailHead, MailTail>>

Interrupt(c, targets) ==
    IF kind[c].nonMaskable
    THEN nmi' = [d \in Core |-> nmi[d] \/ d \in targets] /\ UNCHANGED ipi
    ELSE ipi' = [d \in Core |-> ipi[d] \/ d \in targets] /\ UNCHANGED nmi

\* One round of the loop over the destinations; directed mail is announced here.
PostLink(c) ==
    LET target == links[c][posted[c] + 1] IN
    /\ pc[c] = "post" /\ ~inNmi[c] /\ posted[c] < Len(links[c])
    /\ IF kind[c].nonMaskable THEN PushNm(c, target) ELSE Enqueue(c, target)
    /\ IF kind[c].to = Broadcast THEN UNCHANGED <<ipi, nmi>> ELSE Interrupt(c, {target})
    /\ posted' = [posted EXCEPT ![c] = @ + 1]
    /\ UNCHANGED <<links, left, kind, pc, job, nm, ran>>

\* After the loop a broadcast is announced, and the waster runs.
PostAnnounce(c) ==
    /\ pc[c] = "post" /\ ~inNmi[c] /\ posted[c] = Len(links[c])
    /\ IF kind[c].to = Broadcast THEN Interrupt(c, Core \ {c}) ELSE UNCHANGED <<ipi, nmi>>
    /\ pc' = [pc EXCEPT ![c] = "wait"]
    /\ UNCHANGED <<entries, queues, posted, job, nm, ran>>

\* Nobody is left: Post returns, and its entry is gone with its stack frame.
DoneButOne(c) == left[c] <= 1
Done(c) == left[c] = 0
PostReturn(c) ==
    /\ pc[c] = "wait" /\ ~inNmi[c] /\ job[c] = Nil /\ Done(c)
    /\ pc' = [pc EXCEPT ![c] = "idle"]
    /\ posted' = [posted EXCEPT ![c] = 0]
    /\ links' = [links EXCEPT ![c] = <<>>]
    /\ NextLink' = [NextLink EXCEPT ![c] = [d \in Core |-> Nil]]
    /\ kind' = [kind EXCEPT ![c] = NoMail]
    /\ ran' = [ran EXCEPT ![c] = [d \in Core |-> 0]]
    /\ UNCHANGED <<left, queues, job, nm, ipi, nmi>>

----------------------------------------------------------------------------
(* Executing: in the handler of the mailbox interrupt, and while waiting.  *)

IsrEnter(c) ==
    /\ pc[c] = "idle" /\ ~inNmi[c] /\ ipi[c]
    /\ pc' = [pc EXCEPT ![c] = "isr"]
    /\ ipi' = [ipi EXCEPT ![c] = FALSE]
    /\ UNCHANGED <<entries, queues, posted, job, nm, nmi, ran>>

IsrLeave(c) ==
    /\ pc[c] = "isr" /\ ~inNmi[c] /\ job[c] = Nil /\ MailHead[c] = Nil
    /\ pc' = [pc EXCEPT ![c] = "idle"]
    /\ UNCHANGED <<entries, queues, posted, job, nm, ipi, nmi, ran>>

PollingInIsr(c) == pc[c] = "isr"
Polling(c) == pc[c] = "isr" \/ (pc[c] = "wait" /\ kind[c].poll /\ left[c] > 0)

\* The head leaves the queue; with its last entry the tail goes too.
DequeueKeepsTail(c, head) ==
    /\ MailHead' = [MailHead EXCEPT ![c] = NextLink[head][c]]
    /\ UNCHANGED <<MailTail, MailNmTop>>
Dequeue(c, head) ==
    /\ MailHead' = [MailHead EXCEPT ![c] = NextLink[head][c]]
    /\ MailTail' = [MailTail EXCEPT ![c] = IF NextLink[head][c] = Nil THEN Nil ELSE @]
    /\ UNCHANGED MailNmTop

\* The core takes an entry: an awaited one it lets go of only when the function
\* has returned.
Take(c, e) ==
    IF kind[e].await THEN UNCHANGED <<left, ran>>
    ELSE /\ left' = [left EXCEPT ![e] = @ - 1]
         /\ ran' = [ran EXCEPT ![e][c] = @ + 1]
LetGo(c, e) ==
    /\ left' = [left EXCEPT ![e] = @ - 1]
    /\ ran' = [ran EXCEPT ![e][c] = @ + 1]

\* ExecuteHead, up to the call of the function.
ExecuteHead(c) ==
    LET head == MailHead[c] IN
    /\ Polling(c) /\ ~inNmi[c] /\ job[c] = Nil /\ head # Nil
    /\ Dequeue(c, head)
    /\ Take(c, head)
    /\ job' = [job EXCEPT ![c] = IF kind[head].await THEN head ELSE Nil]
    /\ NextLink' = [NextLink EXCEPT ![head][c] = Nil]
    /\ UNCHANGED <<links, kind, pc, posted, nm, ipi, nmi>>

\* The function of an awaited mail returned: dstCtr is decremented.
ExecuteHeadDone(c) ==
    /\ job[c] # Nil /\ ~inNmi[c]
    /\ LetGo(c, job[c])
    /\ job' = [job EXCEPT ![c] = Nil]
    /\ UNCHANGED <<links, NextLink, kind, queues, pc, posted, nm, ipi, nmi>>

----------------------------------------------------------------------------
(* ExecuteNmMail, in the handler of non-maskable interrupts.               *)

NmiEnter(c) ==
    /\ nmi[c] /\ ~inNmi[c]
    /\ nmi' = [nmi EXCEPT ![c] = FALSE]
    /\ inNmi' = [inNmi EXCEPT ![c] = TRUE]
    /\ UNCHANGED <<entries, queues, main, nmEntry, nmJob, ipi, ran>>

\* The whole stack is taken at once; without one the handler returns.
NmTake(c) ==
    /\ inNmi[c] /\ nmEntry[c] = Nil /\ nmJob[c] = Nil
    /\ IF MailNmTop[c] = Nil
       THEN inNmi' = [inNmi EXCEPT ![c] = FALSE] /\ UNCHANGED <<nmEntry, MailNmTop>>
       ELSE /\ nmEntry' = [nmEntry EXCEPT ![c] = MailNmTop[c]]
            /\ MailNmTop' = [MailNmTop EXCEPT ![c] = Nil]
            /\ UNCHANGED inNmi
    /\ UNCHANGED <<entries, MailHead, MailTail, main, nmJob, ipi, nmi, ran>>

\* An awaited entry: the next one is read before the function is called.
NmExecute(c) ==
    LET e == nmEntry[c] IN
    /\ inNmi[c] /\ nmJob[c] = Nil /\ e # Nil /\ kind[e].await
    /\ nmEntry' = [nmEntry EXCEPT ![c] = NextLink[e][c]]
    /\ nmJob' = [nmJob EXCEPT ![c] = e]
    /\ NextLink' = [NextLink EXCEPT ![e][c] = Nil]
    /\ UNCHANGED <<links, left, kind, queues, main, inNmi, ipi, nmi, ran>>

NmExecuteDone(c) ==
    /\ nmJob[c] # Nil
    /\ LetGo(c, nmJob[c])
    /\ nmJob' = [nmJob EXCEPT ![c] = Nil]
    /\ UNCHANGED <<links, NextLink, kind, queues, main, inNmi, nmEntry, ipi, nmi>>

----------------------------------------------------------------------------
Run(c) ==
    \/ PostLink(c) \/ PostAnnounce(c) \/ PostReturn(c)
    \/ IsrLeave(c) \/ ExecuteHead(c) \/ ExecuteHeadDone(c)

RunNm(c) == NmiEnter(c) \/ NmTake(c) \/ NmExecute(c) \/ NmExecuteDone(c)

Next == \E c \in Core : \/ Run(c) \/ RunNm(c) \/ IsrEnter(c)
                        \/ \E mail \in Mails[c] : Post(c, mail)

Spec == Init /\ [][Next]_vars

\* Cores keep executing, and take interrupts when they have them enabled.
FairSpec == Spec /\ \A c \in Core : WF_vars(Run(c) \/ IsrEnter(c)) /\ WF_vars(RunNm(c))

----------------------------------------------------------------------------
(* Properties.                                                             *)

\* The entries reached from e: the least set that has it and is closed under `next'.
Reach(next, e) ==
    {x \in Core : \A S \in SUBSET Core :
        e \in S \cup {Nil} /\ (\A y \in S : next[y] \in S \cup {Nil}) => x \in S}

\* What core c reaches from entry e along its own links.
Links(c) == [e \in Core |-> NextLink[e][c]]
Chain(c, e) == Reach(Links(c), e)

Pending(c) == Chain(c, MailHead[c]) \cup Chain(c, MailNmTop[c]) \cup Chain(c, nmEntry[c])

\* No core holds on to an entry whose poster has left Post, and with it the
\* stack frame of the entry: not in a queue, not as a tail to link to, not as a
\* counter to decrement.
NoDanglingEntry ==
    \A c \in Core :
      \A e \in Pending(c) \cup ({MailTail[c], job[c], nmJob[c]} \ {Nil}) :
         links[e] # <<>> /\ left[e] > 0

\* A queued mail stays reachable for each destination until that one takes it,
\* whatever is queued, taken and interrupted around it, and is never pending
\* where it was taken: no mail is lost in the links, none is run twice.
QueuedUntilTaken ==
    \A e \in Core : \A i \in 1 .. posted[e] :
      LET c == links[e][i] IN
      e \in Pending(c) <=> (ran[e][c] = 0 /\ job[c] # e /\ nmJob[c] # e)

\* The queues of entries that live on the stacks of other cores are sound.
EntriesKept == NoDanglingEntry /\ QueuedUntilTaken

\* When Post returns, every destination has run the function, once: what a TLB
\* shootdown relies on when it lets the pages go.
ReturnMeansDone ==
    [][\A c \in Core : pc[c] = "wait" /\ pc'[c] = "idle" =>
          \A i \in 1 .. Len(links[c]) : ran[c][links[c][i]] = 1]_vars

\* Every Post returns, also when cores post to each other with interrupts off,
\* since a waiting core executes the mail in its own queue; but not in a storm
\* of non-maskable mail, which ExecuteNmMail never gets to the end of.
PostTerminates ==
    <>[](\A c \in Core : ~kind[c].nonMaskable)
       => \A c \in Core : pc[c] = "post" ~> pc[c] = "idle"

=============================================================================
