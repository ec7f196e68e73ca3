------------------------------- MODULE Mailbox -------------------------------
(***************************************************************************)
(* What the message queue of a thread promises to the threads that use it: *)
(* a posted message waits in the mailbox until it is delivered, once, or   *)
(* is dropped.  Nothing is said of the order.                              *)
(***************************************************************************)
EXTENDS Naturals

CONSTANT Ids     \* the messages that are ever posted

VARIABLES
    waiting,     \* the messages in the mailbox
    gone,        \* the messages that were delivered or dropped
    last         \* the last message delivered, 0 before the first

mailVars == <<waiting, gone, last>>

MailInit == waiting = {} /\ gone = {} /\ last = 0

(* A new message arrives; messages, itself included, may be dropped.       *)
Accept(m, lost) ==
    /\ m \notin waiting \cup gone
    /\ waiting' = (waiting \cup {m}) \ lost
    /\ gone' = gone \cup lost
    /\ UNCHANGED last

(* A message that waits is delivered, and waits no longer.                 *)
Deliver(m) ==
    /\ waiting' = waiting \ {m}
    /\ gone' = gone \cup {m}
    /\ last' = m

MailNext ==
    \/ \E m \in Ids : \E lost \in SUBSET (waiting \cup {m}) : Accept(m, lost)
    \/ \E m \in waiting : Deliver(m)

MailSpec == MailInit /\ [][MailNext]_mailVars
=============================================================================
