----------------------------- MODULE MCMailbox -----------------------------
(* The mails of the kernel: TLB shootdowns, debug register updates, and    *)
(* the plain broadcasts of the mailbox test.                               *)
EXTENDS Mailbox

Shootdown == [to |-> Broadcast, await |-> TRUE, nonMaskable |-> FALSE, poll |-> TRUE]
Breakpoint == [to |-> Broadcast, await |-> TRUE, nonMaskable |-> TRUE, poll |-> TRUE]
Plain == [to |-> Broadcast, await |-> FALSE, nonMaskable |-> FALSE, poll |-> TRUE]

MCMails == [c \in Core |-> CASE c = 0 -> {Shootdown, Plain}
                             [] c = 1 -> {Shootdown, Breakpoint}
                             [] c = 2 -> {}]
=============================================================================
