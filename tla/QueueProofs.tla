---------------------------- MODULE QueueProofs ------------------------------
(***************************************************************************)
(* Proofs about the message queue, for every number of entries and of      *)
(* messages: its ends stay inside the array, a polling reader reaches a    *)
(* message within one turn of the queue, and the queue is a mailbox.       *)
(***************************************************************************)
EXTENDS MsgQueue, TLAPS

-----------------------------------------------------------------------------
(* Types.                                                                  *)

LEMMA ForwardType == ASSUME NEW i \in Entry PROVE Forward(i) \in Entry
BY QueueAssumption DEF Entry, Forward

LEMMA BackwardType == ASSUME NEW i \in Entry PROVE Backward(i) \in Entry
BY QueueAssumption DEF Entry, Backward

LEMMA ZeroType == 0 \in Entry /\ 0 \in 0 .. MSG_QUEUE_MAX
BY QueueAssumption DEF Entry

LEMMA EmptyType == Empty \in Message
BY QueueAssumption DEF Empty, Message

LEMMA MsgTypeInit == MsgInit => MsgTypeOK
<1> SUFFICES ASSUME MsgInit PROVE MsgTypeOK
  OBVIOUS
<1>1. miss_count \in 0 .. MISS_LIMIT /\ posted \in 0 .. MaxIds
  BY QueueAssumption DEF MsgInit, MISS_LIMIT
<1>2. MsgQueue \in [Entry -> Message] /\ waits \in [Entry -> 0 .. MSG_QUEUE_MAX]
  BY ZeroType, EmptyType DEF MsgInit
<1>3. MsgQueueHead \in Entry /\ MsgQueueTail \in Entry /\ delivered \in Message
  BY ZeroType, EmptyType DEF MsgInit
<1> QED BY <1>1, <1>2, <1>3 DEF MsgInit, MsgTypeOK

(* A new message is written.                                               *)
LEMMA AppendType ==
    ASSUME MsgTypeOK, posted < MaxIds, NEW c \in Classes \cup {"empty"},
           Append([class |-> c, id |-> posted + 1])
    PROVE  /\ MsgQueue' \in [Entry -> Message] /\ MsgQueueTail' \in Entry
           /\ waits' \in [Entry -> 0 .. MSG_QUEUE_MAX] /\ posted' \in 0 .. MaxIds
<1>1. posted + 1 \in 0 .. MaxIds
  BY QueueAssumption DEF MsgTypeOK
<1>2. [class |-> c, id |-> posted + 1] \in Message
  BY <1>1 DEF Message
<1> QED BY <1>1, <1>2, ForwardType, ZeroType DEF Append, MsgTypeOK

LEMMA WaitType ==
    ASSUME waits \in [Entry -> 0 .. MSG_QUEUE_MAX], NEW i, Wait(i) \/ WaitAnew
    PROVE  waits' \in [Entry -> 0 .. MSG_QUEUE_MAX]
BY QueueAssumption DEF Wait, WaitAnew

LEMMA MsgTypeStep == ASSUME MsgTypeOK, [MsgNext]_msgVars PROVE MsgTypeOK'
<1>1. CASE ipc_post_message_to_tid2
  <2>1. PICK c \in Classes \cup {"empty"} : Append([class |-> c, id |-> posted + 1])
    BY <1>1 DEF ipc_post_message_to_tid2
  <2>2. posted < MaxIds /\ blocked' = FALSE /\ UNCHANGED <<MsgQueueHead, miss_count, delivered, block>>
    BY <1>1 DEF ipc_post_message_to_tid2, Wakeup
  <2> QED BY <2>1, <2>2, AppendType DEF MsgTypeOK
<1>2. CASE ipc_post_message_to_tid
  <2>1. PICK c \in Classes :
          IF Coalesces(c)
          THEN /\ MsgQueue' = [MsgQueue EXCEPT ![Backward(MsgQueueTail)].id = posted + 1]
               /\ posted' = posted + 1
               /\ UNCHANGED <<MsgQueueTail, waits>>
          ELSE Append([class |-> c, id |-> posted + 1])
    BY <1>2 DEF ipc_post_message_to_tid
  <2>2. posted < MaxIds /\ blocked' = FALSE /\ UNCHANGED <<MsgQueueHead, miss_count, delivered, block>>
    BY <1>2 DEF ipc_post_message_to_tid, Wakeup
  <2>3. CASE Coalesces(c)
    <3>1. posted + 1 \in 0 .. MaxIds
      BY <2>2, QueueAssumption DEF MsgTypeOK
    <3>2. Backward(MsgQueueTail) \in Entry
      BY BackwardType DEF MsgTypeOK
    <3>3. MsgQueue' \in [Entry -> Message]
      BY <2>1, <2>3, <3>1, <3>2 DEF MsgTypeOK, Message
    <3> QED BY <2>1, <2>2, <2>3, <3>1, <3>3 DEF MsgTypeOK
  <2>4. CASE ~Coalesces(c)
    BY <2>1, <2>2, <2>4, AppendType DEF MsgTypeOK
  <2> QED BY <2>3, <2>4
<1>3. CASE ipc_get_message
  <2>1. MsgQueueHead' \in Entry /\ MsgQueue' \in [Entry -> Message] /\ delivered' \in Message
    BY <1>3, ForwardType, EmptyType DEF ipc_get_message, Consume, MsgTypeOK
  <2>2. waits' \in [Entry -> 0 .. MSG_QUEUE_MAX]
    BY <1>3, WaitType DEF ipc_get_message, MsgTypeOK
  <2> QED BY <1>3, <2>1, <2>2 DEF ipc_get_message, MsgTypeOK
<1>4. CASE ipc_get_message_misses
  <2>1. MsgQueueHead' \in Entry
    BY <1>4, ForwardType DEF ipc_get_message_misses, MsgTypeOK
  <2>2. waits' \in [Entry -> 0 .. MSG_QUEUE_MAX]
    BY <1>4, WaitType DEF ipc_get_message_misses, MsgTypeOK
  <2>3. miss_count' \in 0 .. MISS_LIMIT
    BY <1>4, QueueAssumption DEF ipc_get_message_misses, MsgTypeOK, MISS_LIMIT
  <2>4. block' \in BOOLEAN /\ UNCHANGED <<MsgQueue, MsgQueueTail, blocked, posted, delivered>>
    BY <1>4 DEF ipc_get_message_misses, MsgTypeOK
  <2> QED BY <2>1, <2>2, <2>3, <2>4 DEF MsgTypeOK
<1>5. CASE sys_get_message2
  <2>1. PICK index \in Entry, restart \in BOOLEAN :
          /\ IF IsEmpty(index)
             THEN /\ block' = (block \/ BlockOnEmpty)
                  /\ UNCHANGED <<MsgQueue, delivered>>
             ELSE Consume(index) /\ UNCHANGED block
          /\ MsgQueueHead' = IF restart THEN 0 ELSE Forward(index)
          /\ MsgQueueTail' = IF restart THEN 0 ELSE MsgQueueTail
    BY <1>5 DEF sys_get_message2
  <2>2. MsgQueueHead' \in Entry /\ MsgQueueTail' \in Entry
    BY <2>1, ForwardType, ZeroType DEF MsgTypeOK
  <2>3. MsgQueue' \in [Entry -> Message] /\ delivered' \in Message
    BY <2>1, EmptyType DEF Consume, MsgTypeOK
  <2>4. block' \in BOOLEAN
    BY <2>1 DEF MsgTypeOK
  <2>5. waits' \in [Entry -> 0 .. MSG_QUEUE_MAX] /\ UNCHANGED <<miss_count, blocked, posted>>
    BY <1>5, WaitType DEF sys_get_message2, MsgTypeOK
  <2> QED BY <2>2, <2>3, <2>4, <2>5 DEF MsgTypeOK
<1>6. CASE sys_get_message2_bad_index
  <2>1. MsgQueueHead' \in Entry /\ MsgQueueTail' \in Entry
    BY <1>6, ForwardType, ZeroType DEF sys_get_message2_bad_index, MsgTypeOK
  <2>2. waits' \in [Entry -> 0 .. MSG_QUEUE_MAX]
    BY <1>6, WaitType DEF sys_get_message2_bad_index, MsgTypeOK
  <2> QED BY <1>6, <2>1, <2>2 DEF sys_get_message2_bad_index, MsgTypeOK
<1>7. CASE BlockThread
  BY <1>7 DEF BlockThread, queue, MsgTypeOK
<1>8. CASE UNCHANGED msgVars
  BY <1>8 DEF msgVars, queue, MsgTypeOK
<1> QED BY <1>1, <1>2, <1>3, <1>4, <1>5, <1>6, <1>7, <1>8 DEF MsgNext

(* The ends of the queue, which are moved in six places, stay inside the   *)
(* array of struct thread_d, whatever the services and their arguments.    *)
THEOREM MsgTypeCorrect == MsgSpec => []MsgTypeOK
BY MsgTypeInit, MsgTypeStep, PTL DEF MsgSpec

-----------------------------------------------------------------------------
(* The wait of a message.                                                  *)

(* The number of calls of service 111 before entry i is at the head.       *)
Dist(i) == IF i >= MsgQueueHead THEN i - MsgQueueHead ELSE i - MsgQueueHead + MSG_QUEUE_MAX

(* The inductive invariant: what a message has waited and what it still    *)
(* has to wait is less than one turn.                                      *)
WaitInv == \A i \in Entry : ~IsEmpty(i) => waits[i] + Dist(i) < MSG_QUEUE_MAX

LEMMA DistType ==
    ASSUME MsgTypeOK, NEW i \in Entry
    PROVE  Dist(i) \in 0 .. (MSG_QUEUE_MAX - 1)
BY QueueAssumption DEF MsgTypeOK, Entry, Dist

(* When the head moves on, every other entry is one call nearer.           *)
LEMMA DistDrops ==
    ASSUME MsgTypeOK, NEW i \in Entry, i # MsgQueueHead, MsgQueueHead' = Forward(MsgQueueHead)
    PROVE  Dist(i)' = Dist(i) - 1
BY QueueAssumption DEF MsgTypeOK, Entry, Dist, Forward

(* A call of service 111 at the head h.                                    *)
LEMMA WaitGet ==
    ASSUME MsgTypeOK, WaitInv, Wait(MsgQueueHead), MsgQueueHead' = Forward(MsgQueueHead),
           MsgQueue'[MsgQueueHead].class = "empty",
           \A i \in Entry : i # MsgQueueHead => MsgQueue'[i] = MsgQueue[i]
    PROVE  WaitInv'
<1> SUFFICES ASSUME NEW i \in Entry, ~IsEmpty(i)' PROVE waits'[i] + Dist(i)' < MSG_QUEUE_MAX
  BY DEF WaitInv
<1>1. CASE i = MsgQueueHead
  <2>1. MsgQueue'[i].class # "empty"
    BY DEF IsEmpty
  <2> QED BY <1>1, <2>1
<1>2. CASE i # MsgQueueHead
  <2>1. ~IsEmpty(i) /\ waits[i] + Dist(i) < MSG_QUEUE_MAX
    BY <1>2 DEF WaitInv, IsEmpty
  <2>2. waits'[i] = IF waits[i] < MSG_QUEUE_MAX THEN waits[i] + 1 ELSE waits[i]
    BY <1>2, <2>1 DEF Wait
  <2>3. Dist(i)' = Dist(i) - 1
    BY <1>2, DistDrops
  <2>4. waits[i] \in 0 .. MSG_QUEUE_MAX /\ Dist(i) \in 0 .. (MSG_QUEUE_MAX - 1)
    BY DistType DEF MsgTypeOK
  <2> QED BY <2>1, <2>2, <2>3, <2>4, QueueAssumption
<1> QED BY <1>1, <1>2

(* A message is written, and the head stays where it is.                   *)
LEMMA WaitAppend ==
    ASSUME MsgTypeOK, WaitInv, NEW m, Append(m), UNCHANGED MsgQueueHead
    PROVE  WaitInv'
<1> SUFFICES ASSUME NEW i \in Entry, ~IsEmpty(i)' PROVE waits'[i] + Dist(i)' < MSG_QUEUE_MAX
  BY DEF WaitInv
<1>1. Dist(i)' = Dist(i) /\ Dist(i) \in 0 .. (MSG_QUEUE_MAX - 1)
  BY DistType DEF Dist
<1>2. CASE i = MsgQueueTail
  BY <1>1, <1>2, QueueAssumption DEF Append, MsgTypeOK
<1>3. CASE i # MsgQueueTail
  BY <1>1, <1>3 DEF Append, MsgTypeOK, WaitInv, IsEmpty
<1> QED BY <1>2, <1>3

(* The count begins anew.                                                  *)
LEMMA WaitReset == ASSUME MsgTypeOK', WaitAnew PROVE WaitInv'
<1>0. MsgQueueHead' \in Entry
  BY DEF MsgTypeOK
<1>1. \A h, i \in Entry : (IF i >= h THEN i - h ELSE i - h + MSG_QUEUE_MAX) \in 0 .. (MSG_QUEUE_MAX - 1)
  BY QueueAssumption DEF Entry
<1>2. \A i \in Entry : Dist(i)' \in 0 .. (MSG_QUEUE_MAX - 1)
  BY <1>0, <1>1 DEF Dist
<1> QED BY <1>2, QueueAssumption DEF WaitAnew, WaitInv

LEMMA WaitStep == ASSUME MsgTypeOK, WaitInv, [MsgNext]_msgVars PROVE WaitInv'
<1>1. CASE ipc_post_message_to_tid2
  BY <1>1, WaitAppend DEF ipc_post_message_to_tid2
<1>2. CASE ipc_post_message_to_tid
  <2>1. PICK c \in Classes :
          IF Coalesces(c)
          THEN /\ MsgQueue' = [MsgQueue EXCEPT ![Backward(MsgQueueTail)].id = posted + 1]
               /\ posted' = posted + 1
               /\ UNCHANGED <<MsgQueueTail, waits>>
          ELSE Append([class |-> c, id |-> posted + 1])
    BY <1>2 DEF ipc_post_message_to_tid
  <2>2. UNCHANGED MsgQueueHead
    BY <1>2 DEF ipc_post_message_to_tid
  <2>3. CASE Coalesces(c)
    <3>1. \A i \in Entry : IsEmpty(i)' <=> IsEmpty(i)
      BY <2>1, <2>3 DEF MsgTypeOK, IsEmpty, Message
    <3> QED BY <2>1, <2>2, <2>3, <3>1 DEF WaitInv, Dist
  <2>4. CASE ~Coalesces(c)
    BY <2>1, <2>2, <2>4, WaitAppend
  <2> QED BY <2>3, <2>4
<1>3. CASE ipc_get_message
  <2>1. /\ MsgQueue'[MsgQueueHead].class = "empty"
        /\ \A i \in Entry : i # MsgQueueHead => MsgQueue'[i] = MsgQueue[i]
    BY <1>3 DEF ipc_get_message, Consume, MsgTypeOK, Empty
  <2> QED BY <1>3, <2>1, WaitGet DEF ipc_get_message
<1>4. CASE ipc_get_message_misses
  BY <1>4, WaitGet DEF ipc_get_message_misses, IsEmpty
<1>5. CASE sys_get_message2 \/ sys_get_message2_bad_index
  BY <1>5, MsgTypeStep, WaitReset DEF MsgNext, sys_get_message2, sys_get_message2_bad_index
<1>6. CASE BlockThread \/ UNCHANGED msgVars
  BY <1>6 DEF BlockThread, msgVars, queue, WaitInv, Dist, IsEmpty
<1> QED BY <1>1, <1>2, <1>3, <1>4, <1>5, <1>6 DEF MsgNext

(* For every size of the queue, a message that is not overwritten is read  *)
(* before service 111 has been called MSG_QUEUE_MAX times after it was     *)
(* posted, wherever head and tail have drifted.                            *)
THEOREM BoundedWaitCorrect == MsgSpec => []BoundedWait
<1>1. MsgInit => WaitInv
  BY DEF MsgInit, WaitInv, IsEmpty, Empty
<1>2. MsgTypeOK /\ WaitInv => BoundedWait
  <2> SUFFICES ASSUME MsgTypeOK, WaitInv, NEW i \in Entry, ~IsEmpty(i)
               PROVE  waits[i] < MSG_QUEUE_MAX
    BY DEF BoundedWait
  <2>1. waits[i] + Dist(i) < MSG_QUEUE_MAX
    BY DEF WaitInv
  <2>2. waits[i] \in 0 .. MSG_QUEUE_MAX /\ Dist(i) \in 0 .. (MSG_QUEUE_MAX - 1)
    BY DistType DEF MsgTypeOK
  <2> QED BY <2>1, <2>2, QueueAssumption
<1> QED BY MsgTypeCorrect, <1>1, <1>2, WaitStep, PTL DEF MsgSpec

-----------------------------------------------------------------------------
(* The refinement.                                                         *)

(* The messages in the queue have been posted and differ.                  *)
MailInv ==
    /\ MsgTypeOK
    /\ \A i \in Entry : ~IsEmpty(i) => MsgQueue[i].id \in 1 .. posted
    /\ \A i, j \in Entry : ~IsEmpty(i) /\ ~IsEmpty(j) /\ MsgQueue[i].id = MsgQueue[j].id => i = j

LEMMA WaitingPosted == MailInv => WaitingIds \subseteq 1 .. posted
BY DEF MailInv, WaitingIds

(***************************************************************************)
(* Entry e is written with the new number n; what it held, if anything, is *)
(* dropped, and so is the message itself when it reads as empty.           *)
(***************************************************************************)
LEMMA MailWrite ==
    ASSUME MailInv, MsgTypeOK', NEW e \in Entry, NEW m \in Message,
           posted < MaxIds, posted' = posted + 1, UNCHANGED delivered,
           MsgQueue' = [MsgQueue EXCEPT ![e] = m], m.id = posted + 1
    PROVE  MailInv' /\ Mail!MailNext
<1> DEFINE n == posted + 1
           dropped == (IF IsEmpty(e) THEN {} ELSE {MsgQueue[e].id})
                      \cup (IF m.class = "empty" THEN {n} ELSE {})
<1>1. n \in 1 .. MaxIds /\ n \notin 1 .. posted /\ 1 .. n = (1 .. posted) \cup {n}
  BY QueueAssumption DEF MailInv, MsgTypeOK
<1>2. \A i \in Entry : MsgQueue'[i] = IF i = e THEN m ELSE MsgQueue[i]
  BY DEF MailInv, MsgTypeOK
<1>3. \A i \in Entry : ~IsEmpty(i) => MsgQueue[i].id \in 1 .. posted /\ MsgQueue[i].id # n
  BY <1>1 DEF MailInv
<1>4. \A i \in Entry : IsEmpty(i)' <=> IF i = e THEN m.class = "empty" ELSE IsEmpty(i)
  BY <1>2 DEF IsEmpty
<1> HIDE DEF n
<1>5. m.id = n /\ posted' = n
  BY DEF n
<1>6. MailInv'
  <2>1. \A i \in Entry : ~IsEmpty(i)' => MsgQueue'[i].id \in 1 .. n
    BY <1>1, <1>2, <1>3, <1>4, <1>5
  <2>2. \A i, j \in Entry : ~IsEmpty(i)' /\ ~IsEmpty(j)' /\ MsgQueue'[i].id = MsgQueue'[j].id => i = j
    BY <1>2, <1>3, <1>4, <1>5 DEF MailInv
  <2> QED BY <1>5, <2>1, <2>2 DEF MailInv
<1>7. WaitingIds \subseteq 1 .. posted
  BY WaitingPosted
<1>8. WaitingIds' = (WaitingIds \cup {n}) \ dropped
  <2>1. \A x : x \in WaitingIds <=> \E i \in Entry : ~IsEmpty(i) /\ x = MsgQueue[i].id
    BY DEF WaitingIds
  <2>2. \A x : x \in WaitingIds' <=> \E i \in Entry : ~IsEmpty(i)' /\ x = MsgQueue'[i].id
    BY DEF WaitingIds
  <2>3. \A x \in WaitingIds' : x \in (WaitingIds \cup {n}) \ dropped
    BY <1>2, <1>3, <1>4, <1>5, <2>1, <2>2 DEF MailInv
  <2>4. \A x \in (WaitingIds \cup {n}) \ dropped : x \in WaitingIds'
    BY <1>2, <1>4, <1>5, <2>1, <2>2
  <2> QED BY <2>3, <2>4
<1>9. dropped \subseteq WaitingIds \cup {n}
  BY DEF WaitingIds
<1> HIDE DEF dropped
<1>10. Mail!Accept(n, dropped)
  <2>1. n \notin WaitingIds \cup ((1 .. posted) \ WaitingIds)
    BY <1>1, <1>7
  <2>2. ((1 .. posted) \ WaitingIds)' = ((1 .. posted) \ WaitingIds) \cup dropped
    BY <1>1, <1>5, <1>7, <1>8, <1>9
  <2> QED BY <1>8, <2>1, <2>2 DEF Mail!Accept
<1>11. Mail!MailNext
  BY <1>1, <1>9, <1>10 DEF Mail!MailNext
<1> QED BY <1>6, <1>11

(* The message of entry e is taken out.                                    *)
LEMMA MailConsume ==
    ASSUME MailInv, MsgTypeOK', NEW e \in Entry, ~IsEmpty(e), Consume(e), UNCHANGED posted
    PROVE  MailInv' /\ Mail!MailNext
<1>1. \A i \in Entry : MsgQueue'[i] = IF i = e THEN Empty ELSE MsgQueue[i]
  BY DEF Consume, MailInv, MsgTypeOK
<1>2. \A i \in Entry : IsEmpty(i)' <=> i = e \/ IsEmpty(i)
  BY <1>1 DEF IsEmpty, Empty
<1>3. MailInv'
  BY <1>1, <1>2 DEF MailInv
<1>4. WaitingIds' = WaitingIds \ {MsgQueue[e].id}
  <2>1. \A x : x \in WaitingIds <=> \E i \in Entry : ~IsEmpty(i) /\ x = MsgQueue[i].id
    BY DEF WaitingIds
  <2>2. \A x : x \in WaitingIds' <=> \E i \in Entry : ~IsEmpty(i)' /\ x = MsgQueue'[i].id
    BY DEF WaitingIds
  <2> QED BY <1>1, <1>2, <2>1, <2>2 DEF MailInv
<1>5. MsgQueue[e].id \in WaitingIds /\ MsgQueue[e].id \in 1 .. posted
  BY DEF WaitingIds, MailInv
<1>6. ((1 .. posted) \ WaitingIds)' = ((1 .. posted) \ WaitingIds) \cup {MsgQueue[e].id}
  BY <1>4, <1>5
<1>7. Mail!Deliver(MsgQueue[e].id)
  BY <1>4, <1>6 DEF Mail!Deliver, Consume
<1> QED BY <1>3, <1>5, <1>7 DEF Mail!MailNext

LEMMA MailSame ==
    ASSUME MailInv, MsgTypeOK', UNCHANGED <<MsgQueue, posted, delivered>>
    PROVE  MailInv' /\ UNCHANGED Mail!mailVars
BY DEF MailInv, Mail!mailVars, WaitingIds, IsEmpty

LEMMA MailAppend ==
    ASSUME MailInv, MsgTypeOK', NEW c \in Classes \cup {"empty"}, posted < MaxIds,
           Append([class |-> c, id |-> posted + 1]), UNCHANGED delivered
    PROVE  MailInv' /\ Mail!MailNext
<1> DEFINE m == [class |-> c, id |-> posted + 1]
<1>1. m \in Message /\ m.id = posted + 1
  BY QueueAssumption DEF MailInv, MsgTypeOK, Message
<1>2. /\ MsgQueue' = [MsgQueue EXCEPT ![MsgQueueTail] = m] /\ posted' = posted + 1
      /\ MsgQueueTail \in Entry
  BY DEF Append, MailInv, MsgTypeOK
<1> HIDE DEF m
<1> QED BY <1>1, <1>2, MailWrite

LEMMA MailStep ==
    ASSUME MailInv, [MsgNext]_msgVars
    PROVE  MailInv' /\ [Mail!MailNext]_(Mail!mailVars)
<1>0. MsgTypeOK'
  BY MsgTypeStep DEF MailInv
<1>1. CASE ipc_post_message_to_tid2
  BY <1>0, <1>1, MailAppend DEF ipc_post_message_to_tid2
<1>2. CASE ipc_post_message_to_tid
  <2>1. PICK c \in Classes :
          IF Coalesces(c)
          THEN /\ MsgQueue' = [MsgQueue EXCEPT ![Backward(MsgQueueTail)].id = posted + 1]
               /\ posted' = posted + 1
               /\ UNCHANGED <<MsgQueueTail, waits>>
          ELSE Append([class |-> c, id |-> posted + 1])
    BY <1>2 DEF ipc_post_message_to_tid
  <2>2. posted < MaxIds /\ UNCHANGED delivered
    BY <1>2 DEF ipc_post_message_to_tid
  <2>3. CASE Coalesces(c)
    <3> DEFINE e == Backward(MsgQueueTail)
               m == [MsgQueue[e] EXCEPT !.id = posted + 1]
    <3>1. e \in Entry
      BY BackwardType DEF MailInv, MsgTypeOK
    <3>2. m \in Message /\ m.id = posted + 1
      BY <2>2, <3>1, QueueAssumption DEF MailInv, MsgTypeOK, Message
    <3>3. MsgQueue' = [MsgQueue EXCEPT ![e] = m] /\ posted' = posted + 1
      BY <2>1, <2>3
    <3> HIDE DEF e, m
    <3> QED BY <1>0, <2>2, <3>1, <3>2, <3>3, MailWrite
  <2>4. CASE ~Coalesces(c)
    BY <1>0, <2>1, <2>2, <2>4, MailAppend
  <2> QED BY <2>3, <2>4
<1>3. CASE ipc_get_message
  BY <1>0, <1>3, MailConsume DEF ipc_get_message, MailInv, MsgTypeOK
<1>4. CASE sys_get_message2
  BY <1>0, <1>4, MailConsume, MailSame DEF sys_get_message2
<1>5. CASE ipc_get_message_misses \/ sys_get_message2_bad_index \/ BlockThread
           \/ UNCHANGED msgVars
  BY <1>0, <1>5, MailSame DEF ipc_get_message_misses, sys_get_message2_bad_index, BlockThread,
                             msgVars, queue
<1> QED BY <1>1, <1>2, <1>3, <1>4, <1>5 DEF MsgNext

(***************************************************************************)
(* The queue implements the mailbox for every number of entries and of     *)
(* messages: none is delivered twice or made up, through overwriting,      *)
(* coalescing, restarts and indexes out of range.                          *)
(***************************************************************************)
THEOREM MailboxCorrect == MsgSpec => ImplementsMailbox
<1>1. MsgInit => MailInv
  BY MsgTypeInit DEF MsgInit, MailInv, IsEmpty, Empty
<1>2. MsgInit => Mail!MailInit
  BY DEF MsgInit, Mail!MailInit, WaitingIds, IsEmpty, Empty
<1> QED BY <1>1, <1>2, MailStep, PTL DEF MsgSpec, ImplementsMailbox, Mail!MailSpec
=============================================================================
