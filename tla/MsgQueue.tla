------------------------------ MODULE MsgQueue -------------------------------
(***************************************************************************)
(* The message queue of one thread (ipc.c): a circular array of            *)
(* MSG_QUEUE_MAX entries.  Posting writes the entry at the tail, whatever  *)
(* it holds; reading takes the entry at the head and moves the head on     *)
(* even when that entry is empty.  Module Intake models what a message     *)
(* does to the scheduling of its receiver; here the receiver is only       *)
(* running or blocked.                                                     *)
(*                                                                         *)
(* A message is abstracted to its class.  Two messages of a class in       *)
(* Repeating coalesce: mouse moves, the same key down again, the same      *)
(* control-arrow again.                                                    *)
(***************************************************************************)
EXTENDS Integers, FiniteSets

CONSTANTS
    MSG_QUEUE_MAX,  \* number of entries, 64 in thread.h
    Classes,        \* message classes
    Repeating,      \* the classes that coalesce
    Services,       \* which of "post", "post2", "get", "get2" the programs use
    BlockOnEmpty,   \* msgctl.block_on_empty of the receiver
    MaxIds          \* bound: messages posted in a behaviour

ASSUME QueueAssumption ==
    /\ MSG_QUEUE_MAX \in Nat /\ MSG_QUEUE_MAX >= 2
    /\ Repeating \subseteq Classes /\ "empty" \notin Classes
    /\ BlockOnEmpty \in BOOLEAN
    /\ MaxIds \in Nat

VARIABLES
    MsgQueue,     \* the entries
    MsgQueueHead,
    MsgQueueTail,
    miss_count,   \* msgctl.miss_count, cut just above the limit it is compared with
    block,        \* msgctl.block_in_progress
    blocked,      \* the scheduler has blocked the thread
    posted,       \* history: number of messages posted, the id of the last one
    delivered,    \* history: the last entry a get returned
    waits         \* history: gets by service 111 since an entry was written

queue == <<MsgQueue, MsgQueueHead, MsgQueueTail>>
msgVars == <<queue, miss_count, block, blocked, posted, delivered, waits>>

Entry == 0 .. (MSG_QUEUE_MAX - 1)
MISS_LIMIT == MSG_QUEUE_MAX + 4

(* An entry: msg <= 0 is the class "empty"; id is history.                 *)
Empty == [class |-> "empty", id |-> 0]
Message == [class : Classes \cup {"empty"}, id : 0 .. MaxIds]

(* Mutant: one entry too far.                                              *)
ForwardTooFar(i) == IF i >= MSG_QUEUE_MAX THEN 0 ELSE i + 1

(* The next entry of the circle, and the one before.                       *)
Forward(i) == IF i + 1 >= MSG_QUEUE_MAX THEN 0 ELSE i + 1
Backward(i) == (i - 1 + MSG_QUEUE_MAX) % MSG_QUEUE_MAX

IsEmpty(i) == MsgQueue[i].class = "empty"

MsgInit ==
    /\ MsgQueue = [i \in Entry |-> Empty]
    /\ MsgQueueHead = 0 /\ MsgQueueTail = 0
    /\ miss_count = 0
    /\ block = FALSE /\ blocked = FALSE
    /\ posted = 0 /\ delivered = Empty
    /\ waits = [i \in Entry |-> 0]

-----------------------------------------------------------------------------
(* Posting makes the receiver READY; a deferred block stays deferred.      *)
Wakeup == blocked' = FALSE /\ UNCHANGED block

(* Write a new message at the tail, over what is there.                    *)
Append(m) ==
    /\ MsgQueue' = [MsgQueue EXCEPT ![MsgQueueTail] = m]
    /\ waits' = [waits EXCEPT ![MsgQueueTail] = 0]
    /\ MsgQueueTail' = Forward(MsgQueueTail)
    /\ posted' = posted + 1

(* ipc_post_message_to_tid2: no coalescing, and code 0 is accepted: it     *)
(* writes an entry that reads as empty.                                    *)
ipc_post_message_to_tid2 ==
    /\ "post2" \in Services /\ posted < MaxIds
    /\ \E c \in Classes \cup {"empty"} :
         Append([class |-> c, id |-> posted + 1])
    /\ Wakeup
    /\ UNCHANGED <<MsgQueueHead, miss_count, delivered>>

(* The newest entry, the one before the tail, holds the same class.        *)
Coalesces(c) == c \in Repeating /\ MsgQueue[Backward(MsgQueueTail)].class = c

(* ipc_post_message_to_tid: the newest entry is updated in place, or a new *)
(* message is written.                                                     *)
ipc_post_message_to_tid ==
    /\ "post" \in Services /\ posted < MaxIds
    /\ \E c \in Classes :
         IF Coalesces(c)
         THEN /\ MsgQueue' = [MsgQueue EXCEPT ![Backward(MsgQueueTail)].id = posted + 1]
              /\ posted' = posted + 1
              /\ UNCHANGED <<MsgQueueTail, waits>>
         ELSE Append([class |-> c, id |-> posted + 1])
    /\ Wakeup
    /\ UNCHANGED <<MsgQueueHead, miss_count, delivered>>

-----------------------------------------------------------------------------
(* Mutant: the entry is read and not cleared.                              *)
ReadOnly(i) == delivered' = MsgQueue[i] /\ UNCHANGED MsgQueue

(* Take the message of entry i out.                                        *)
Consume(i) ==
    /\ delivered' = MsgQueue[i]
    /\ MsgQueue' = [MsgQueue EXCEPT ![i] = Empty]

(* Every get makes the messages that stay wait longer (the count is cut at *)
(* MSG_QUEUE_MAX).                                                         *)
Wait(i) ==
    waits' = [j \in Entry |-> IF j = i \/ IsEmpty(j) THEN 0
                              ELSE IF waits[j] < MSG_QUEUE_MAX THEN waits[j] + 1
                              ELSE waits[j]]

(* Service 120 moves the head, so the count begins anew.                   *)
WaitAnew == waits' = [j \in Entry |-> 0]

(* Service 111 with a message at the head.                                 *)
ipc_get_message ==
    /\ "get" \in Services /\ ~blocked /\ ~IsEmpty(MsgQueueHead)
    /\ Consume(MsgQueueHead) /\ Wait(MsgQueueHead)
    /\ MsgQueueHead' = Forward(MsgQueueHead)
    /\ UNCHANGED <<MsgQueueTail, miss_count, block, blocked, posted>>

(* Mutant: the head waits for the entry to be filled.                      *)
head_waits ==
    /\ "get" \in Services /\ ~blocked /\ IsEmpty(MsgQueueHead)
    /\ Wait(MsgQueueHead)
    /\ UNCHANGED <<queue, miss_count, block, blocked, posted, delivered>>

(* Service 111 with an empty entry at the head: one more miss, and when    *)
(* there have been enough of them a request to be blocked.                 *)
ipc_get_message_misses ==
    /\ "get" \in Services /\ ~blocked /\ IsEmpty(MsgQueueHead)
    /\ IF BlockOnEmpty /\ miss_count + 1 > MISS_LIMIT
       THEN block' = TRUE /\ miss_count' = 0
       ELSE /\ UNCHANGED block
            /\ miss_count' = IF miss_count < MISS_LIMIT THEN miss_count + 1 ELSE miss_count
    /\ MsgQueueHead' = Forward(MsgQueueHead)
    /\ Wait(MsgQueueHead)
    /\ UNCHANGED <<MsgQueue, MsgQueueTail, blocked, posted, delivered>>

(* Service 120: the entry at a given index; restart sets both ends to 0.   *)
sys_get_message2 ==
    /\ "get2" \in Services /\ ~blocked
    /\ \E index \in Entry, restart \in BOOLEAN :
         /\ IF IsEmpty(index)
            THEN /\ block' = (block \/ BlockOnEmpty)
                 /\ UNCHANGED <<MsgQueue, delivered>>
            ELSE Consume(index) /\ UNCHANGED block
         /\ MsgQueueHead' = IF restart THEN 0 ELSE Forward(index)
         /\ MsgQueueTail' = IF restart THEN 0 ELSE MsgQueueTail
    /\ WaitAnew
    /\ UNCHANGED <<miss_count, blocked, posted>>

(* Service 120 with an index out of range: whether it moves the ends       *)
(* depends on a pointer that was not initialized.                          *)
sys_get_message2_bad_index ==
    /\ "get2" \in Services /\ ~blocked
    /\ \E restart \in BOOLEAN :
         /\ MsgQueueHead' = IF restart THEN 0 ELSE Forward(MsgQueueHead)
         /\ MsgQueueTail' = IF restart THEN 0 ELSE MsgQueueTail
    /\ WaitAnew
    /\ UNCHANGED <<MsgQueue, miss_count, block, blocked, posted, delivered>>

(* The scheduler acts on the request at the end of a round.                *)
BlockThread ==
    /\ block
    /\ block' = FALSE /\ blocked' = TRUE
    /\ UNCHANGED <<queue, miss_count, posted, delivered, waits>>

MsgNext == ipc_post_message_to_tid2 \/ ipc_post_message_to_tid \/ ipc_get_message
           \/ ipc_get_message_misses \/ sys_get_message2 \/ sys_get_message2_bad_index
           \/ BlockThread

MsgSpec == MsgInit /\ [][MsgNext]_msgVars

-----------------------------------------------------------------------------
MsgTypeOK ==
    /\ MsgQueue \in [Entry -> Message]
    /\ MsgQueueHead \in Entry /\ MsgQueueTail \in Entry
    /\ miss_count \in 0 .. MISS_LIMIT
    /\ block \in BOOLEAN /\ blocked \in BOOLEAN
    /\ posted \in 0 .. MaxIds /\ delivered \in Message
    /\ waits \in [Entry -> 0 .. MSG_QUEUE_MAX]

(***************************************************************************)
(* Reading skips over empty entries and the tail may be anywhere, but a    *)
(* message that is not overwritten is delivered by the MSG_QUEUE_MAX-th of *)
(* the calls of service 111 that follow each other after it was posted.    *)
(***************************************************************************)
BoundedWait == \A i \in Entry : ~IsEmpty(i) => waits[i] < MSG_QUEUE_MAX

(* The queue implements the mailbox: a message is delivered at most once,  *)
(* and only if it was posted and not overwritten or merged.                *)
WaitingIds == {MsgQueue[i].id : i \in {j \in Entry : ~IsEmpty(j)}}

Mail == INSTANCE Mailbox WITH
            Ids <- 1 .. MaxIds, waiting <- WaitingIds,
            gone <- (1 .. posted) \ WaitingIds, last <- delivered.id

ImplementsMailbox == Mail!MailSpec

=============================================================================
