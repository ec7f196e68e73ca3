--------------------------- MODULE DisplayProofs -----------------------------
(***************************************************************************)
(* Proofs about the display server and its clients, for every number of    *)
(* programs, every backlog and every mix of calls.                         *)
(***************************************************************************)
EXTENDS DisplayServer, SocketProofs

-----------------------------------------------------------------------------
(* The stages of a client that no connect() has hit.                       *)

InDispatch(c) == Dispatching /\ fd31 = c

EmptyFile(c) == file[c].flags = {"SWR"} /\ ~file[c].full
Holds(c, m) == file[c].flags = {"SRD"} /\ file[c].full /\ file[c].data = m

(* The request of the current call, and its answer.                        *)
Wanted(c) == [mode |-> IF call[c] = "async" THEN "async" ELSE "sync",
              client |-> c, seq |-> seq[c]]
Answer(c) == [mode |-> "reply", client |-> c, seq |-> seq[c]]

(* Not in a call.                                                          *)
Resting(c) ==
    /\ cpc[c] \in {"start", "connect", "idle"} /\ EmptyFile(c)
    /\ file[c].action = "NULL" /\ served[c] = 0 /\ ~InDispatch(c)

(* The request is in the file, but does not count yet.                     *)
Written(c) ==
    /\ cpc[c] = "written" /\ Holds(c, Wanted(c))
    /\ file[c].action = "NULL" /\ served[c] = 0 /\ ~InDispatch(c)

(* The request may be read.                                                *)
Waiting(c) ==
    /\ cpc[c] = "wait" /\ Holds(c, Wanted(c))
    /\ file[c].action = "REQUEST" /\ served[c] = 0 /\ (InDispatch(c) => spc = "read")

(* The server has read it and is going to answer in the same file.         *)
Sending(c) ==
    /\ cpc[c] = "wait" /\ call[c] # "async" /\ EmptyFile(c)
    /\ file[c].action = "REQUEST" /\ served[c] = 1
    /\ fd31 = c /\ spc = "send" /\ buf = Wanted(c)

(* The answer is in the file, but does not count yet.                      *)
Answering(c) ==
    /\ cpc[c] = "wait" /\ call[c] # "async" /\ Holds(c, Answer(c))
    /\ file[c].action = "REQUEST" /\ served[c] = 1
    /\ fd31 = c /\ spc = "answer"

(* The answer may be read.                                                 *)
Replied(c) ==
    /\ cpc[c] \in {"wait", "read"} /\ call[c] # "async" /\ Holds(c, Answer(c))
    /\ file[c].action = "REPLY" /\ served[c] = 1 /\ ~InDispatch(c)

(* The server has read a request without answer.                           *)
Dismissing(c) ==
    /\ cpc[c] = "wait" /\ call[c] = "async" /\ EmptyFile(c)
    /\ file[c].action = "REQUEST" /\ served[c] = 1
    /\ fd31 = c /\ spc = "quiet" /\ buf = Wanted(c)

(* The call is over: a request without answer was dismissed, or the answer *)
(* was read.                                                               *)
Over(c) ==
    /\ \/ cpc[c] = "wait" /\ call[c] = "async" /\ file[c].action = "NULL"
       \/ cpc[c] = "clear" /\ file[c].action \in {"NULL", "REPLY"} /\ Satisfied(c)
    /\ EmptyFile(c) /\ served[c] = 1 /\ ~InDispatch(c)

Stage(c) == \/ Resting(c) \/ Written(c) \/ Waiting(c) \/ Sending(c) \/ Answering(c)
            \/ Replied(c) \/ Dismissing(c) \/ Over(c)

(***************************************************************************)
(* The inductive invariant.  A file never holds a request of another       *)
(* client, so that serving it counts for nobody else; a client that is not *)
(* disturbed is in one of the stages; and the server has a file in         *)
(* descriptor 31 whenever it uses it.                                      *)
(***************************************************************************)
DsTypes ==
    /\ cpc \in [Clients -> {"start", "connect", "idle", "written", "wait", "read", "clear"}]
    /\ call \in [Clients -> Calls \cup {None}]
    /\ seq \in [Clients -> {0, 1}]
    /\ got \in [Clients -> Packets \cup {None}]
    /\ served \in [Clients -> 0 .. 2]
    /\ disturbed \subseteq Clients
    /\ spc \in {"register", "socket", "listen", "accept", "check"} \/ Dispatching
    /\ spc = "send" => buf \in Packet

Connected ==
    /\ \A c \in Clients : cpc[c] = "start" \/ Open(c)
    /\ Dispatching \/ spc = "check" => fd31 \in Clients

OwnRequests ==
    \A c \in Clients : file[c].full =>
        file[c].data \in Packet /\ (file[c].data.mode # "reply" => file[c].data.client = c)

Stages == \A c \in Clients \ disturbed : Stage(c)

DsInv == SocketTypeOK /\ DsTypes /\ Connected /\ OwnRequests /\ Stages

-----------------------------------------------------------------------------
(* What the calls of the kernel do.                                        *)

LEMMA PacketNotNone == Packet \subseteq Packets /\ None \notin Packet /\ None \notin Clients
BY SocketAssumption, DisplayAssumption

(* Other files stay as they are.                                           *)
LEMMA ReadEffect ==
    ASSUME SocketTypeOK, NEW c \in Clients, ReadPacket(c)
    PROVE  /\ file'[c].flags = (file[c].flags \ {"SRD"}) \cup {"SWR"} /\ ~file'[c].full
           /\ file'[c].action = file[c].action /\ file[c].full
           /\ \A d \in Clients \ {c} : file'[d] = file[d]
           /\ UNCHANGED <<state, fd31>>
<1> PICK f \in [flags : SUBSET {"SRD", "SWR"}, full : BOOLEAN,
                data : Packets \cup {None}, action : Action] : f = file[c]
  BY DEF SocketTypeOK, File
<1> QED BY DEF ReadPacket, TakePacket, FileOnly, SocketTypeOK

LEMMA ActionEffect ==
    ASSUME SocketTypeOK, NEW c \in Clients, NEW a \in Action, SetAction(c, a)
    PROVE  /\ file'[c].flags = file[c].flags /\ file'[c].full = file[c].full
           /\ file'[c].data = file[c].data /\ file'[c].action = a
           /\ \A d \in Clients \ {c} : file'[d] = file[d]
           /\ UNCHANGED <<state, fd31>>
<1> PICK f \in [flags : SUBSET {"SRD", "SWR"}, full : BOOLEAN,
                data : Packets \cup {None}, action : Action] : f = file[c]
  BY DEF SocketTypeOK, File
<1> QED BY DEF SetAction, FileOnly, SocketTypeOK

LEMMA WriteEffect ==
    ASSUME SocketTypeOK, NEW c \in Clients, NEW m \in Packet, sys_write(c, m)
    PROVE  /\ ~file[c].full => /\ file'[c].flags = {"SRD"} /\ file'[c].full
                               /\ file'[c].data = m
           /\ file[c].full => file'[c].full /\ file'[c].data = file[c].data
           /\ file'[c].action = file[c].action
           /\ \A d \in Clients \ {c} : file'[d] = file[d]
           /\ UNCHANGED <<state, fd31>>
<1> PICK f \in [flags : SUBSET {"SRD", "SWR"}, full : BOOLEAN,
                data : Packets \cup {None}, action : Action] : f = file[c]
  BY DEF SocketTypeOK, File
<1>1. m # None
  BY PacketNotNone
<1> QED BY <1>1 DEF sys_write, FileOnly, SocketTypeOK

(* accept() finds a client.                                                *)
LEMMA AcceptEffect ==
    ASSUME SocketTypeOK, sys_accept
    PROVE  /\ fd31' \in Clients /\ file' = file
           /\ \A c \in Clients : state'[c] = state[c] \/ state'[c] = "CONNECTED"
<1>1. PICK i \in Slot : /\ First(i) /\ fd31' = pending[i]
                       /\ state' = [state EXCEPT ![pending[i]] = "CONNECTED",
                                                 ![Server] = "CONNECTED"]
  BY DEF sys_accept
<1>2. pending[i] \in Clients
  BY <1>1 DEF First, Scanned, SocketTypeOK
<1> QED BY <1>1, <1>2 DEF sys_accept, SocketTypeOK, Process

-----------------------------------------------------------------------------
(* The programs and the server use the sockets as SocketNext allows.       *)

LEMMA RequestPacket ==
    ASSUME DsTypes, NEW c \in Clients, NEW k PROVE Request(c, k) \in Packet
BY DEF DsTypes, Request, Packet

LEMMA ReplyPacket == ASSUME NEW m \in Packet PROVE Reply(m) \in Packet
BY DEF Reply, Packet

LEMMA ClientIsSocketStep ==
    ASSUME DsInv, NEW c \in Clients, ClientStep(c)
    PROVE  [SocketNext]_socketVars
<1>1. SocketTypeOK /\ c \in Users /\ (cpc[c] # "start" => Open(c)) /\ DsTypes
  BY DisplayAssumption DEF DsInv, Connected
<1>2. ASSUME FileCall(c), Open(c) PROVE SocketNext
  BY <1>2 DEF SocketNext, ClientCall
<1>3. CASE OpenSocket(c) \/ Connect(c)
  BY <1>3 DEF OpenSocket, Connect, SocketNext, ClientCall
<1>4. CASE WriteRequest(c)
  <2>1. PICK k : UNCHANGED socketVars \/ sys_write(c, Request(c, k))
    BY <1>4 DEF WriteRequest
  <2>2. Request(c, k) \in Packets /\ cpc[c] = "idle"
    BY <1>1, <1>4, RequestPacket, PacketNotNone DEF WriteRequest
  <2> QED BY <1>1, <1>2, <2>1, <2>2 DEF FileCall
<1>5. CASE SetRequest(c) \/ ClearAction(c)
  BY <1>1, <1>2, <1>5 DEF SetRequest, ClearAction, FileCall, Action
<1>6. CASE Poll(c) \/ ReadAnswer(c)
  BY <1>1, <1>2, <1>6 DEF Poll, ReadAnswer, FileCall
<1> QED BY <1>3, <1>4, <1>5, <1>6 DEF ClientStep, Proceed

LEMMA ServerIsSocketStep ==
    ASSUME DsInv, ServerStep
    PROVE  [SocketNext]_socketVars
<1>1. /\ DsTypes /\ None \notin Clients /\ Clients \subseteq Users
      /\ (Dispatching => fd31 \in Clients)
  BY DisplayAssumption, PacketNotNone DEF DsInv, Connected
<1>2. ASSUME fd31 \in Clients, FileCall(fd31) PROVE SocketNext
  BY <1>1, <1>2 DEF SocketNext, ServerCall
<1>3. CASE RegisterServer \/ ServerSocket \/ Accept \/ CheckAction
  BY <1>3 DEF RegisterServer, ServerSocket, Accept, CheckAction, SocketNext, ServerCall
<1>4. CASE ServerListen
  BY <1>4, DisplayAssumption DEF ServerListen, SocketNext, ServerCall
<1>5. CASE ReadRequest
  BY <1>1, <1>2, <1>5 DEF ReadRequest, FileCall, Dispatching
<1>6. CASE SendResponse
  <2>1. Reply(buf) \in Packets
    BY <1>1, <1>6, ReplyPacket, PacketNotNone DEF SendResponse, DsTypes
  <2> QED BY <1>1, <1>2, <1>6, <2>1 DEF SendResponse, FileCall, Dispatching
<1>7. CASE SetReply \/ SetNull
  BY <1>1, <1>2, <1>7 DEF SetReply, SetNull, FileCall, Dispatching, Action
<1> QED BY <1>3, <1>4, <1>5, <1>6, <1>7 DEF ServerStep

LEMMA DsIsSocketStep == DsInv /\ [DsNext]_dsVars => [SocketNext]_socketVars
<1>1. UNCHANGED dsVars => UNCHANGED socketVars
  BY DEF dsVars
<1> QED BY <1>1, ClientIsSocketStep, ServerIsSocketStep DEF DsNext

-----------------------------------------------------------------------------
(* The invariant, client by client.                                        *)

(* All that the stage of client c depends on.                              *)
clientState(c) == <<file[c], cpc[c], call[c], seq[c], got[c], served[c]>>

(* A step that leaves c alone, and descriptor 31 and the server's progress *)
(* too, keeps its stage.                                                   *)
LEMMA Untouched ==
    ASSUME NEW c \in Clients, Stage(c), UNCHANGED clientState(c), UNCHANGED <<fd31, spc, buf>>
    PROVE  Stage(c)'
BY DEF clientState, Stage, Resting, Written, Waiting, Sending, Answering, Replied, Dismissing,
       Over, Satisfied, Served, EmptyFile, Holds, Wanted, Answer, InDispatch, Dispatching

(* So does a step that leaves c alone and is not a dispatch of c before    *)
(* nor afterwards.                                                         *)
LEMMA Bystander ==
    ASSUME NEW c \in Clients, Stage(c), UNCHANGED clientState(c),
           ~InDispatch(c), ~InDispatch(c)'
    PROVE  Stage(c)'
<1>1. ~Sending(c) /\ ~Answering(c) /\ ~Dismissing(c)
  BY DEF InDispatch, Dispatching, Sending, Answering, Dismissing
<1>2. Resting(c) \/ Written(c) \/ Waiting(c) \/ Replied(c) \/ Over(c)
  BY <1>1 DEF Stage
<1>3. Resting(c)' \/ Written(c)' \/ Waiting(c)' \/ Replied(c)' \/ Over(c)'
  BY <1>2 DEF clientState, Resting, Written, Waiting, Replied,
       Over, Satisfied, Served, EmptyFile, Holds, Wanted, Answer
<1> QED BY <1>3 DEF Stage

(* A dispatch of a client in its stage.                                    *)
LEMMA DispatchStage ==
    ASSUME NEW c \in Clients, Stage(c), InDispatch(c)
    PROVE  \/ spc = "read" /\ Waiting(c)
           \/ spc = "send" /\ Sending(c)
           \/ spc = "answer" /\ Answering(c)
           \/ spc = "quiet" /\ Dismissing(c)
BY DEF Stage, Resting, Written, Waiting, Sending, Answering, Replied, Dismissing, Over

(* A step of one client does not touch the others.                         *)
LEMMA ClientFrame ==
    ASSUME DsInv, NEW c \in Clients, ClientStep(c), NEW d \in Clients \ {c}
    PROVE  UNCHANGED clientState(d)
<1>1. SocketTypeOK /\ DsTypes
  BY DEF DsInv
<1> USE DEF clientState, DsTypes, Goto, Action
<1>2. CASE OpenSocket(c)
  BY <1>1, <1>2 DEF OpenSocket, sys_socket
<1>3. CASE Connect(c)
  BY <1>1, <1>3 DEF Connect, sys_connect
<1>4. CASE WriteRequest(c)
  <2>1. PICK k \in Calls : /\ call' = [call EXCEPT ![c] = k]
                           /\ UNCHANGED socketVars \/ sys_write(c, Request(c, k))
    BY <1>4 DEF WriteRequest
  <2>2. file'[d] = file[d]
    BY <1>1, <2>1, RequestPacket, WriteEffect DEF socketVars
  <2> QED BY <1>1, <1>4, <2>1, <2>2 DEF WriteRequest
<1>5. CASE SetRequest(c)
  BY <1>1, <1>5, ActionEffect DEF SetRequest
<1>6. CASE Poll(c)
  BY <1>1, <1>6 DEF Poll, socketVars
<1>7. CASE ReadAnswer(c)
  <2>1. file'[d] = file[d]
    BY <1>1, <1>7, ReadEffect DEF ReadAnswer, socketVars
  <2> QED BY <1>1, <1>7, <2>1 DEF ReadAnswer
<1>8. CASE ClearAction(c)
  BY <1>1, <1>8, ActionEffect DEF ClearAction
<1> QED BY <1>2, <1>3, <1>4, <1>5, <1>6, <1>7, <1>8 DEF ClientStep, Proceed

(* Only connect() changes descriptor 31, and no client step the server.    *)
LEMMA ClientServerFrame ==
    ASSUME DsInv, NEW c \in Clients, ClientStep(c)
    PROVE  /\ UNCHANGED serverVars
           /\ ~Connect(c) => UNCHANGED <<fd31, disturbed>>
           /\ \A p \in Clients : p # c => state'[p] = state[p]
<1>1. SocketTypeOK /\ DsTypes
  BY DEF DsInv
<1>2. UNCHANGED serverVars
  BY DEF ClientStep, Proceed, OpenSocket, Connect, WriteRequest, SetRequest, Poll, ReadAnswer,
         ClearAction, ClientOnly
<1>3. /\ ~Connect(c) => UNCHANGED <<fd31, disturbed>>
      /\ \A p \in Clients : p # c => state'[p] = state[p]
  <2>1. CASE OpenSocket(c)
    BY <1>1, <2>1 DEF OpenSocket, sys_socket, SocketTypeOK, Process
  <2>2. CASE Connect(c)
    BY <1>1, <2>2, SocketAssumption DEF Connect, sys_connect, SocketTypeOK, Process
  <2>3. CASE WriteRequest(c) \/ SetRequest(c) \/ Poll(c) \/ ReadAnswer(c) \/ ClearAction(c)
    BY <2>3 DEF WriteRequest, SetRequest, Poll, ReadAnswer, ClearAction, SetAction, sys_write,
                ReadPacket, FileOnly, socketVars
  <2> QED BY <2>1, <2>2, <2>3 DEF ClientStep, Proceed
<1> QED BY <1>2, <1>3

(* The stages of a call, from the side of the client.                      *)
LEMMA OpenStage ==
    ASSUME DsInv, NEW c \in Clients, Stage(c), OpenSocket(c)
    PROVE  Stage(c)'
<1>1. Resting(c)
  BY DEF OpenSocket, Stage, Written, Waiting, Sending, Answering, Replied, Dismissing, Over
<1>2. cpc'[c] = "connect" /\ UNCHANGED <<file, fd31, spc, served>>
  BY DEF OpenSocket, sys_socket, Goto, ClientOnly, serverVars, DsInv, DsTypes
<1>3. Resting(c)'
  BY <1>1, <1>2 DEF Resting, EmptyFile, InDispatch, Dispatching
<1> QED BY <1>3 DEF Stage

LEMMA ConnectStage ==
    ASSUME DsInv, NEW c \in Clients, Stage(c), Connect(c), c \notin disturbed'
    PROVE  Stage(c)'
<1>1. Resting(c)
  BY DEF Connect, Stage, Written, Waiting, Sending, Answering, Replied, Dismissing, Over
<1>2. cpc'[c] = "idle" /\ UNCHANGED <<file, spc, served>> /\ ~Dispatching
  BY DEF Connect, sys_connect, Goto, ClientOnly, serverVars, DsInv, DsTypes
<1>3. Resting(c)'
  BY <1>1, <1>2 DEF Resting, EmptyFile, InDispatch, Dispatching
<1> QED BY <1>3 DEF Stage

LEMMA WriteStage ==
    ASSUME DsInv, NEW c \in Clients, Stage(c), WriteRequest(c)
    PROVE  Stage(c)'
<1>1. Resting(c) /\ DsTypes /\ SocketTypeOK
  BY DEF WriteRequest, Stage, Written, Waiting, Sending, Answering, Replied, Dismissing, Over,
         DsInv
<1>2. CanWrite(c)
  BY <1>1 DEF Resting, EmptyFile, CanWrite
<1>3. PICK k \in Calls : /\ call' = [call EXCEPT ![c] = k] /\ Goto(c, "written")
                        /\ sys_write(c, Request(c, k))
  BY <1>2 DEF WriteRequest
<1>4. /\ call'[c] = k /\ seq'[c] = 1 - seq[c] /\ cpc'[c] = "written"
      /\ UNCHANGED <<fd31, spc, served>>
  BY <1>1, <1>3 DEF WriteRequest, Goto, DsTypes, ClientOnly, serverVars, sys_write, FileOnly
<1>5. Request(c, k) = Wanted(c)'
  BY <1>4 DEF Request, Wanted
<1>6. Holds(c, Wanted(c))' /\ file'[c].action = "NULL"
  BY <1>1, <1>3, <1>5, RequestPacket, WriteEffect DEF Resting, EmptyFile, Holds
<1>7. Written(c)'
  BY <1>1, <1>4, <1>6 DEF Written, Resting, InDispatch, Dispatching
<1> QED BY <1>7 DEF Stage

LEMMA RequestStage ==
    ASSUME DsInv, NEW c \in Clients, Stage(c), SetRequest(c)
    PROVE  Stage(c)'
<1>1. Written(c) /\ DsTypes /\ SocketTypeOK
  BY DEF SetRequest, Stage, Resting, Waiting, Sending, Answering, Replied, Dismissing, Over,
         DsInv
<1>2. cpc'[c] = "wait" /\ UNCHANGED <<call, seq, spc, served>>
  BY <1>1 DEF SetRequest, Goto, DsTypes, ClientOnly, serverVars
<1>3. /\ file'[c].flags = file[c].flags /\ file'[c].full = file[c].full
      /\ file'[c].data = file[c].data /\ file'[c].action = "REQUEST" /\ UNCHANGED fd31
  BY <1>1, ActionEffect DEF SetRequest, Action
<1>4. Waiting(c)'
  BY <1>1, <1>2, <1>3 DEF Written, Waiting, Holds, Wanted, InDispatch, Dispatching
<1> QED BY <1>4 DEF Stage

LEMMA PollStage ==
    ASSUME DsInv, NEW c \in Clients, Stage(c), Poll(c)
    PROVE  Stage(c)'
<1>1. DsTypes /\ cpc[c] = "wait" /\ (Answered(c) \/ Dismissed(c))
  BY DEF Poll, DsInv
<1>2. /\ UNCHANGED <<file, fd31, call, seq, got, served, spc, buf>>
      /\ cpc'[c] = IF Answered(c) THEN "read" ELSE "clear"
  BY <1>1 DEF Poll, Goto, DsTypes, socketVars, ClientOnly, serverVars
<1>3. CASE Answered(c)
  <2>1. Replied(c)
    BY <1>1, <1>3 DEF Answered, Stage, Resting, Written, Waiting, Sending, Answering,
         Dismissing, Over
  <2>2. Replied(c)'
    BY <1>2, <1>3, <2>1 DEF Replied, Holds, Answer, InDispatch, Dispatching
  <2> QED BY <2>2 DEF Stage
<1>4. CASE ~Answered(c)
  <2>1. Over(c) /\ call[c] = "async"
    BY <1>1, <1>4 DEF Dismissed, Answered, Stage, Resting, Written, Waiting, Sending,
         Answering, Replied, Dismissing, Over
  <2>2. cpc'[c] = "clear" /\ file'[c].action = "NULL"
    BY <1>1, <1>2, <1>4, <2>1 DEF Over
  <2>3. Over(c)'
    BY <1>2, <2>1, <2>2 DEF Over, EmptyFile, Satisfied, Served, InDispatch, Dispatching
  <2> QED BY <2>3 DEF Stage
<1> QED BY <1>3, <1>4

LEMMA AnswerStage ==
    ASSUME DsInv, NEW c \in Clients, Stage(c), ReadAnswer(c)
    PROVE  Stage(c)'
<1>1. Replied(c) /\ DsTypes /\ SocketTypeOK
  BY DEF ReadAnswer, Stage, Resting, Written, Waiting, Sending, Answering, Dismissing, Over,
         DsInv
<1>2. CanRead(c)
  BY <1>1 DEF Replied, Holds, CanRead
<1>3. ReadPacket(c) /\ got'[c] = file[c].data /\ cpc'[c] = "clear"
      /\ UNCHANGED <<call, seq, spc, served>>
  BY <1>1, <1>2 DEF ReadAnswer, Goto, DsTypes, ClientOnly, serverVars
<1>4. EmptyFile(c)' /\ file'[c].action = "REPLY" /\ UNCHANGED fd31
  BY <1>1, <1>3, ReadEffect DEF EmptyFile, Replied, Holds
<1>5. Satisfied(c)'
  BY <1>1, <1>3 DEF Satisfied, Served, Replied, Holds, Answer
<1>6. Over(c)'
  BY <1>1, <1>3, <1>4, <1>5 DEF Over, Replied, InDispatch, Dispatching
<1> QED BY <1>6 DEF Stage

LEMMA ClearStage ==
    ASSUME DsInv, NEW c \in Clients, Stage(c), ClearAction(c)
    PROVE  Stage(c)'
<1>1. Over(c) /\ DsTypes /\ SocketTypeOK
  BY DEF ClearAction, Stage, Resting, Written, Waiting, Sending, Answering, Replied, Dismissing,
         DsInv
<1>2. cpc'[c] = "idle" /\ served'[c] = 0 /\ UNCHANGED spc
  BY <1>1 DEF ClearAction, Goto, DsTypes, ClientOnly, serverVars
<1>3. /\ file'[c].flags = file[c].flags /\ file'[c].full = file[c].full
      /\ file'[c].action = "NULL" /\ UNCHANGED fd31
  BY <1>1, ActionEffect DEF ClearAction, Action
<1>4. Resting(c)'
  BY <1>1, <1>2, <1>3 DEF Over, Resting, EmptyFile, InDispatch, Dispatching
<1> QED BY <1>4 DEF Stage

(* Every step of a client keeps the stages of all clients.                 *)
LEMMA ClientStages ==
    ASSUME DsInv, NEW c \in Clients, ClientStep(c)
    PROVE  Stages'
<1> SUFFICES ASSUME NEW d \in Clients, d \notin disturbed' PROVE Stage(d)'
  BY DEF Stages
<1>1. disturbed \subseteq disturbed'
  BY DEF ClientStep, Proceed, OpenSocket, Connect, WriteRequest, SetRequest, Poll, ReadAnswer,
         ClearAction
<1>2. Stage(d)
  BY <1>1 DEF DsInv, Stages
<1>3. CASE d = c
  BY <1>2, <1>3, OpenStage, ConnectStage, WriteStage, RequestStage, PollStage, AnswerStage,
     ClearStage DEF ClientStep, Proceed
<1>4. CASE d # c /\ ~Connect(c)
  BY <1>2, <1>4, ClientFrame, ClientServerFrame, Untouched DEF serverVars
<1>5. CASE d # c /\ Connect(c)
  <2>1. fd31' = c /\ (Dispatching => d # fd31)
    BY <1>5 DEF Connect, sys_connect
  <2> QED BY <1>2, <1>5, <2>1, ClientFrame, Bystander DEF InDispatch
<1> QED BY <1>3, <1>4, <1>5

(* What a packet that the server reads counts for: its sender, if it is a  *)
(* request of the current call.                                            *)
LEMMA ServeEffect ==
    ASSUME DsInv, NEW c \in Clients, file[c].full, Serve(file[c].data)
    PROVE  /\ served' \in [Clients -> 0 .. 2]
           /\ \A d \in Clients \ {c} : served'[d] = served[d]
           /\ file[c].data.mode # "reply" /\ file[c].data.seq = seq[c] /\ served[c] = 0
                => served'[c] = 1
<1> DEFINE m == file[c].data
<1>1. m \in Packet /\ (m.mode # "reply" => m.client = c)
  BY DEF DsInv, OwnRequests
<1>2. served \in [Clients -> 0 .. 2] /\ seq \in [Clients -> {0, 1}]
  BY DEF DsInv, DsTypes
<1>3. m.client \in Clients
  BY <1>1 DEF Packet
<1> HIDE DEF m
<1>4. served' = IF m.mode # "reply" /\ m.seq = seq[m.client] /\ served[m.client] < 2
                THEN [served EXCEPT ![m.client] = @ + 1] ELSE served
  BY DEF Serve, m
<1>5. CASE m.mode # "reply"
  <2>1. m.client = c
    BY <1>1, <1>5
  <2> QED BY <1>2, <1>4, <1>5, <2>1 DEF m
<1>6. CASE m.mode = "reply"
  BY <1>2, <1>4, <1>6 DEF m
<1> QED BY <1>5, <1>6

(* A step of the server in a dispatch touches one client at most.          *)
LEMMA ServerFrame ==
    ASSUME DsInv, ServerStep, NEW d \in Clients, ~InDispatch(d)
    PROVE  UNCHANGED clientState(d)
<1>1. SocketTypeOK /\ DsTypes /\ (Dispatching => fd31 \in Clients)
  BY DEF DsInv, Connected
<1>2. UNCHANGED <<cpc, call, seq, got>>
  BY DEF ServerStep, RegisterServer, ServerSocket, ServerListen, Accept, CheckAction,
         ReadRequest, SendResponse, SetReply, SetNull, ServerOnly, clientVars
<1> USE DEF clientState
<1>3. CASE RegisterServer \/ ServerSocket \/ ServerListen \/ CheckAction
  BY <1>2, <1>3 DEF RegisterServer, ServerSocket, ServerListen, CheckAction,
       socket_set_gramado_port, sys_socket, sys_listen, socketVars
<1>4. CASE Accept
  BY <1>2, <1>4 DEF Accept, sys_accept, AcceptFails
<1>5. CASE ReadRequest
  <2>1. fd31 \in Clients /\ d # fd31
    BY <1>1, <1>5 DEF ReadRequest, InDispatch, Dispatching
  <2>2. CASE CanRead(fd31)
    <3>1. ReadPacket(fd31) /\ Serve(file[fd31].data)
      BY <1>5, <2>2 DEF ReadRequest
    <3>2. file'[d] = file[d] /\ file[fd31].full
      BY <1>1, <2>1, <3>1, ReadEffect
    <3>3. served'[d] = served[d]
      BY <2>1, <3>1, <3>2, ServeEffect
    <3> QED BY <1>2, <3>2, <3>3
  <2>3. CASE ~CanRead(fd31)
    BY <1>2, <1>5, <2>3 DEF ReadRequest, socketVars
  <2> QED BY <2>2, <2>3
<1>6. CASE SendResponse
  <2>1. fd31 \in Clients /\ d # fd31 /\ Reply(buf) \in Packet /\ UNCHANGED served
    BY <1>1, <1>6, ReplyPacket DEF SendResponse, InDispatch, Dispatching, DsTypes
  <2>2. file'[d] = file[d]
    BY <1>1, <1>6, <2>1, WriteEffect DEF SendResponse, socketVars
  <2> QED BY <1>2, <2>1, <2>2
<1>7. CASE SetReply \/ SetNull
  <2>1. fd31 \in Clients /\ d # fd31 /\ UNCHANGED served
    BY <1>1, <1>7 DEF SetReply, SetNull, InDispatch, Dispatching
  <2>2. file'[d] = file[d]
    BY <1>1, <1>7, <2>1, ActionEffect DEF SetReply, SetNull, Action
  <2> QED BY <1>2, <2>1, <2>2
<1> QED BY <1>3, <1>4, <1>5, <1>6, <1>7 DEF ServerStep

(* The stages of a call, from the side of the server.                      *)
LEMMA ReadStage ==
    ASSUME DsInv, NEW c \in Clients, Stage(c), fd31 = c, ReadRequest
    PROVE  Stage(c)'
<1>1. Waiting(c) /\ SocketTypeOK /\ spc = "read"
  BY DispatchStage DEF ReadRequest, InDispatch, Dispatching, DsInv
<1>2. CanRead(c) /\ file[c].full /\ file[c].data = Wanted(c)
  BY <1>1 DEF Waiting, Holds, CanRead
<1>3. /\ ReadPacket(c) /\ buf' = Wanted(c) /\ Serve(file[c].data)
      /\ noReply' = NewNoReply(Wanted(c)) /\ spc' = IF noReply' THEN "quiet" ELSE "send"
      /\ UNCHANGED <<cpc, call, seq, got>>
  BY <1>2 DEF ReadRequest, ServerOnly, clientVars
<1>4. served'[c] = 1
  <2>1. file[c].data.mode # "reply" /\ file[c].data.seq = seq[c] /\ served[c] = 0
    BY <1>1, <1>2 DEF Wanted, Waiting
  <2> QED BY <1>2, <1>3, <2>1, ServeEffect
<1>5. EmptyFile(c)' /\ file'[c].action = "REQUEST" /\ fd31' = c
  BY <1>1, <1>3, ReadEffect DEF EmptyFile, Waiting, Holds
<1>6. Wanted(c)' = Wanted(c) /\ (Wanted(c).mode = "async") = (call[c] = "async")
  BY <1>3 DEF Wanted
<1>7. CASE call[c] = "async"
  <2>1. Dismissing(c)'
    BY <1>1, <1>3, <1>4, <1>5, <1>6, <1>7 DEF Dismissing, Waiting, NewNoReply
  <2> QED BY <2>1 DEF Stage
<1>8. CASE call[c] # "async"
  <2>1. Sending(c)'
    BY <1>1, <1>3, <1>4, <1>5, <1>6, <1>8 DEF Sending, Waiting, NewNoReply
  <2> QED BY <2>1 DEF Stage
<1> QED BY <1>7, <1>8

LEMMA SendStage ==
    ASSUME DsInv, NEW c \in Clients, Stage(c), fd31 = c, SendResponse
    PROVE  Stage(c)'
<1>1. Sending(c) /\ SocketTypeOK /\ DsTypes /\ spc = "send"
  BY DispatchStage DEF SendResponse, InDispatch, Dispatching, DsInv
<1>2. CanWrite(c) /\ ~file[c].full /\ buf = Wanted(c)
  BY <1>1 DEF Sending, EmptyFile, CanWrite
<1>3. /\ sys_write(c, Reply(buf)) /\ spc' = "answer"
      /\ UNCHANGED <<cpc, call, seq, got, served>>
  BY <1>2 DEF SendResponse, ServerOnly, clientVars
<1>4. Reply(buf) \in Packet /\ Reply(buf) = Answer(c)'
  BY <1>1, <1>2, <1>3, ReplyPacket DEF DsTypes, Reply, Wanted, Answer
<1>5. Holds(c, Answer(c))' /\ file'[c].action = "REQUEST" /\ fd31' = c
  BY <1>1, <1>2, <1>3, <1>4, WriteEffect DEF Holds, Sending
<1>6. Answering(c)'
  BY <1>1, <1>3, <1>5 DEF Answering, Sending
<1> QED BY <1>6 DEF Stage

LEMMA ReplyStage ==
    ASSUME DsInv, NEW c \in Clients, Stage(c), fd31 = c, SetReply
    PROVE  Stage(c)'
<1>1. Answering(c) /\ SocketTypeOK
  BY DispatchStage DEF SetReply, InDispatch, Dispatching, DsInv
<1>2. spc' = "accept" /\ UNCHANGED <<cpc, call, seq, got, served>>
  BY DEF SetReply, ServerOnly, clientVars
<1>3. Holds(c, Answer(c))' /\ file'[c].action = "REPLY"
  BY <1>1, <1>2, ActionEffect DEF SetReply, Action, Answering, Holds, Answer
<1>4. Replied(c)'
  BY <1>1, <1>2, <1>3 DEF Replied, Answering, InDispatch, Dispatching
<1> QED BY <1>4 DEF Stage

LEMMA NullStage ==
    ASSUME DsInv, NEW c \in Clients, Stage(c), fd31 = c, SetNull
    PROVE  Stage(c)'
<1>1. Dismissing(c) /\ SocketTypeOK
  BY DispatchStage DEF SetNull, InDispatch, Dispatching, DsInv
<1>2. spc' = "accept" /\ UNCHANGED <<cpc, call, seq, got, served>>
  BY DEF SetNull, ServerOnly, clientVars
<1>3. EmptyFile(c)' /\ file'[c].action = "NULL"
  BY <1>1, ActionEffect DEF SetNull, Action, Dismissing, EmptyFile
<1>4. Over(c)'
  BY <1>1, <1>2, <1>3 DEF Over, Dismissing, InDispatch, Dispatching
<1> QED BY <1>4 DEF Stage

(* A dispatch begins with a client that waits.                             *)
LEMMA CheckStage ==
    ASSUME DsInv, NEW c \in Clients, Stage(c), CheckAction
    PROVE  Stage(c)'
<1>1. ~InDispatch(c) /\ UNCHANGED clientState(c) /\ UNCHANGED fd31
  BY DEF CheckAction, InDispatch, Dispatching, clientState, ServerOnly, clientVars, socketVars
<1>2. CASE ~InDispatch(c)'
  BY <1>1, <1>2, Bystander
<1>3. CASE InDispatch(c)'
  <2>1. fd31 = c /\ file[c].action = "REQUEST" /\ spc' = "read" /\ spc = "check"
    BY <1>1, <1>3 DEF CheckAction, InDispatch, Dispatching
  <2>2. Waiting(c)
    BY <2>1 DEF Stage, Resting, Written, Sending, Answering, Replied, Dismissing, Over
  <2>3. Waiting(c)'
    BY <1>1, <2>1, <2>2 DEF Waiting, clientState, Holds, Wanted
  <2> QED BY <2>3 DEF Stage
<1> QED BY <1>2, <1>3

(* Every step of the server keeps the stages of all clients.               *)
LEMMA ServerStages ==
    ASSUME DsInv, ServerStep
    PROVE  Stages'
<1> SUFFICES ASSUME NEW d \in Clients, d \notin disturbed' PROVE Stage(d)'
  BY DEF Stages
<1>1. disturbed' = disturbed
  BY DEF ServerStep, RegisterServer, ServerSocket, ServerListen, Accept, CheckAction,
         ReadRequest, SendResponse, SetReply, SetNull, ServerOnly
<1>2. Stage(d)
  BY <1>1 DEF DsInv, Stages
<1>3. CASE CheckAction
  BY <1>2, <1>3, CheckStage
<1>4. CASE InDispatch(d)
  <2>1. ReadRequest \/ SendResponse \/ SetReply \/ SetNull
    BY <1>4 DEF InDispatch, Dispatching, ServerStep, RegisterServer, ServerSocket,
         ServerListen, Accept, CheckAction
  <2> QED BY <1>2, <1>4, <2>1, ReadStage, SendStage, ReplyStage, NullStage DEF InDispatch
<1>5. CASE ~InDispatch(d) /\ ~CheckAction
  <2>1. ~InDispatch(d)'
    <3>1. CASE ~Dispatching
      BY <1>5, <3>1 DEF InDispatch, Dispatching, ServerStep, RegisterServer, ServerSocket,
           ServerListen, Accept, ReadRequest, SendResponse, SetReply, SetNull
    <3>2. CASE Dispatching
      <4>1. UNCHANGED fd31
        BY <1>5, <3>2 DEF Dispatching, ServerStep, RegisterServer, ServerSocket,
           ServerListen, Accept, ReadRequest, SendResponse, SetReply, SetNull, ReadPacket,
           sys_write, SetAction, FileOnly, socketVars
      <4> QED BY <1>5, <3>2, <4>1 DEF InDispatch
    <3> QED BY <3>1, <3>2
  <2> QED BY <1>2, <1>5, <2>1, ServerFrame, Bystander
<1> QED BY <1>3, <1>4, <1>5

-----------------------------------------------------------------------------
(* The other parts of the invariant.                                       *)

LEMMA FirstDsInv == DsInit => DsInv
<1> SUFFICES ASSUME DsInit PROVE DsInv
  OBVIOUS
<1>1. SocketTypeOK
  BY SocketTypeInit DEF DsInit
<1>2. DsTypes /\ Connected
  BY DEF DsInit, DsTypes, Connected, Dispatching
<1>3. \A c \in Clients : file[c] = NewFile
  BY DEF DsInit, SocketInit
<1>4. OwnRequests
  BY <1>3 DEF OwnRequests, NewFile
<1>5. ASSUME NEW c \in Clients PROVE Resting(c)
  <2>1. file[c].flags = {"SWR"} /\ ~file[c].full /\ file[c].action = "NULL"
    BY <1>3 DEF NewFile
  <2>2. cpc[c] = "start" /\ served[c] = 0 /\ ~Dispatching
    BY DEF DsInit, Dispatching
  <2> QED BY <2>1, <2>2 DEF Resting, EmptyFile, InDispatch
<1>6. Stages
  BY <1>5 DEF Stages, Stage
<1> QED BY <1>1, <1>2, <1>4, <1>6 DEF DsInv

LEMMA ClientTypes ==
    ASSUME DsInv, NEW c \in Clients, ClientStep(c)
    PROVE  DsTypes' /\ Connected'
<1>1. SocketTypeOK /\ DsTypes /\ Connected
  BY DEF DsInv
<1>2. UNCHANGED <<spc, buf>> /\ (~Connect(c) => UNCHANGED <<fd31, disturbed>>)
      /\ \A p \in Clients : p # c => state'[p] = state[p]
  BY ClientServerFrame DEF serverVars
<1> USE DEF Goto, DsTypes, Dispatching
<1>3. CASE OpenSocket(c)
  <2>1. state'[c] = "UNCONNECTED"
    BY <1>1, <1>3 DEF OpenSocket, sys_socket, SocketTypeOK, Process
  <2> QED BY <1>1, <1>2, <1>3, <2>1 DEF OpenSocket, Connect, Connected, Open
<1>4. CASE Connect(c)
  <2>1. state'[c] = "CONNECTING" /\ fd31' = c
    BY <1>1, <1>4, SocketAssumption DEF Connect, sys_connect, SocketTypeOK, Process
  <2>2. disturbed' \subseteq Clients
    BY <1>1, <1>4 DEF Connect, Connected
  <2> QED BY <1>1, <1>2, <1>4, <2>1, <2>2 DEF Connect, Connected, Open
<1>5. ASSUME UNCHANGED state, cpc[c] # "start", ~Connect(c),
             cpc' = [cpc EXCEPT ![c] = cpc'[c]]
      PROVE  Connected'
  BY <1>1, <1>2, <1>5 DEF Connected, Open
<1>6. CASE WriteRequest(c)
  <2>1. PICK k \in Calls : call' = [call EXCEPT ![c] = k]
    BY <1>6 DEF WriteRequest
  <2>2. UNCHANGED state
    BY <1>6 DEF WriteRequest, sys_write, FileOnly, socketVars
  <2>3. ~Connect(c)
    BY <1>6 DEF WriteRequest, Connect
  <2> QED BY <1>1, <1>2, <1>5, <1>6, <2>1, <2>2, <2>3 DEF WriteRequest
<1>7. CASE SetRequest(c)
  <2>1. UNCHANGED state /\ ~Connect(c)
    BY <1>7 DEF SetRequest, SetAction, FileOnly, Connect
  <2> QED BY <1>1, <1>2, <1>5, <1>7, <2>1 DEF SetRequest
<1>8. CASE Poll(c)
  <2>1. UNCHANGED state /\ ~Connect(c)
    BY <1>8 DEF Poll, Connect, socketVars
  <2> QED BY <1>1, <1>2, <1>5, <1>8, <2>1 DEF Poll
<1>9. CASE ReadAnswer(c)
  <2>1. UNCHANGED state /\ ~Connect(c)
    BY <1>9 DEF ReadAnswer, ReadPacket, FileOnly, Connect, socketVars
  <2>2. file[c].data \in Packets \cup {None}
    BY <1>1 DEF SocketTypeOK, File
  <2> QED BY <1>1, <1>2, <1>5, <1>9, <2>1, <2>2 DEF ReadAnswer
<1>10. CASE ClearAction(c)
  <2>1. UNCHANGED state /\ ~Connect(c)
    BY <1>10 DEF ClearAction, SetAction, FileOnly, Connect
  <2> QED BY <1>1, <1>2, <1>5, <1>10, <2>1 DEF ClearAction
<1> QED BY <1>3, <1>4, <1>6, <1>7, <1>8, <1>9, <1>10 DEF ClientStep, Proceed

LEMMA ServerTypes ==
    ASSUME DsInv, ServerStep
    PROVE  DsTypes' /\ Connected'
<1>1. SocketTypeOK /\ DsTypes /\ Connected
  BY DEF DsInv
<1>2. UNCHANGED <<cpc, call, seq, got, disturbed>>
  BY DEF ServerStep, RegisterServer, ServerSocket, ServerListen, Accept, CheckAction,
         ReadRequest, SendResponse, SetReply, SetNull, ServerOnly, clientVars
<1>3. \A c \in Clients : state'[c] = state[c] \/ state'[c] = "CONNECTED"
  <2>1. CASE ServerSocket \/ ServerListen
    BY <1>1, <2>1, SocketAssumption DEF ServerSocket, ServerListen, sys_socket, sys_listen,
         SocketTypeOK, Process
  <2>2. CASE Accept
    BY <1>1, <2>2, AcceptEffect DEF Accept, AcceptFails
  <2> QED BY <2>1, <2>2 DEF ServerStep, RegisterServer, socket_set_gramado_port, CheckAction,
         ReadRequest, SendResponse, SetReply, SetNull, ReadPacket, sys_write, SetAction,
         FileOnly, socketVars
<1>4. \A c \in Clients : cpc'[c] = "start" \/ Open(c)'
  BY <1>1, <1>2, <1>3 DEF Connected, Open
<1> USE DEF DsTypes, Dispatching
<1>5. CASE RegisterServer \/ ServerSocket \/ ServerListen
  BY <1>1, <1>2, <1>4, <1>5 DEF RegisterServer, ServerSocket, ServerListen, Connected
<1>6. CASE Accept
  BY <1>1, <1>2, <1>4, <1>6, AcceptEffect DEF Accept, Connected
<1>7. CASE CheckAction
  BY <1>1, <1>2, <1>4, <1>7 DEF CheckAction, Connected, socketVars
<1>8. CASE ReadRequest
  <2>1. fd31 \in Clients /\ UNCHANGED fd31
    BY <1>1, <1>8 DEF ReadRequest, Connected, ReadPacket, FileOnly, socketVars
  <2>2. CASE CanRead(fd31)
    <3>1. ReadPacket(fd31) /\ Serve(file[fd31].data) /\ buf' = file[fd31].data
          /\ spc' \in {"quiet", "send"}
      BY <1>8, <2>2 DEF ReadRequest
    <3>2. file[fd31].full
      BY <3>1 DEF ReadPacket
    <3>3. buf' \in Packet /\ served' \in [Clients -> 0 .. 2]
      BY <2>1, <3>1, <3>2, ServeEffect DEF DsInv, OwnRequests
    <3> QED BY <1>1, <1>2, <1>4, <2>1, <3>1, <3>3 DEF Connected
  <2>3. CASE ~CanRead(fd31)
    BY <1>1, <1>2, <1>4, <1>8, <2>1, <2>3 DEF ReadRequest, Connected
  <2> QED BY <2>2, <2>3
<1>9. CASE SendResponse
  <2>1. fd31 \in Clients /\ UNCHANGED <<fd31, buf, served>> /\ spc' \in {"answer", "send"}
    BY <1>1, <1>9 DEF SendResponse, Connected, sys_write, FileOnly, socketVars
  <2> QED BY <1>1, <1>2, <1>4, <1>9, <2>1 DEF Connected, SendResponse
<1>10. CASE SetReply \/ SetNull
  BY <1>1, <1>2, <1>4, <1>10 DEF SetReply, SetNull, Connected
<1> QED BY <1>5, <1>6, <1>7, <1>8, <1>9, <1>10 DEF ServerStep

(* A file that a call empties or leaves as it is holds no wrong request.   *)
LEMMA RequestsStep == DsInv /\ DsNext => OwnRequests'
<1> SUFFICES ASSUME DsInv, DsNext PROVE OwnRequests'
  OBVIOUS
<1>1. SocketTypeOK /\ DsTypes /\ OwnRequests /\ (Dispatching => fd31 \in Clients)
  BY DEF DsInv, Connected
<1>2. ASSUME NEW c \in Clients, ReadPacket(c) PROVE OwnRequests'
  BY <1>1, <1>2, ReadEffect DEF OwnRequests
<1>3. ASSUME NEW c \in Clients, NEW a \in Action, SetAction(c, a) PROVE OwnRequests'
  BY <1>1, <1>3, ActionEffect DEF OwnRequests
<1>4. ASSUME NEW c \in Clients, NEW m \in Packet, sys_write(c, m),
             m.mode # "reply" => m.client = c
      PROVE  OwnRequests'
  BY <1>1, <1>4, WriteEffect DEF OwnRequests
<1>5. ASSUME file' = file PROVE OwnRequests'
  BY <1>1, <1>5 DEF OwnRequests
<1>6. ASSUME NEW c \in Clients, ClientStep(c) PROVE OwnRequests'
  <2>1. CASE WriteRequest(c)
    <3>1. PICK k : UNCHANGED socketVars \/ sys_write(c, Request(c, k))
      BY <2>1 DEF WriteRequest
    <3>2. Request(c, k) \in Packet /\ Request(c, k).client = c
      BY <1>1, RequestPacket DEF Request
    <3> QED BY <1>4, <1>5, <3>1, <3>2 DEF socketVars
  <2>2. CASE SetRequest(c) \/ ClearAction(c)
    BY <1>3, <2>2 DEF SetRequest, ClearAction, Action
  <2>3. CASE ReadAnswer(c)
    BY <1>2, <1>5, <2>3 DEF ReadAnswer, socketVars
  <2>4. CASE OpenSocket(c) \/ Connect(c) \/ Poll(c)
    BY <1>5, <2>4 DEF OpenSocket, Connect, Poll, sys_socket, sys_connect, socketVars
  <2> QED BY <1>6, <2>1, <2>2, <2>3, <2>4 DEF ClientStep, Proceed
<1>7. CASE ServerStep
  <2>1. CASE ReadRequest
    BY <1>1, <1>2, <1>5, <2>1 DEF ReadRequest, Dispatching, socketVars
  <2>2. CASE SendResponse
    <3>1. Reply(buf) \in Packet /\ Reply(buf).mode = "reply" /\ fd31 \in Clients
      BY <1>1, <2>2, ReplyPacket DEF SendResponse, DsTypes, Dispatching, Reply
    <3> QED BY <1>4, <1>5, <2>2, <3>1 DEF SendResponse, socketVars
  <2>3. CASE SetReply \/ SetNull
    BY <1>1, <1>3, <2>3 DEF SetReply, SetNull, Dispatching, Action
  <2>4. CASE RegisterServer \/ ServerSocket \/ ServerListen \/ Accept \/ CheckAction
    BY <1>5, <2>4 DEF RegisterServer, ServerSocket, ServerListen, Accept, CheckAction,
         socket_set_gramado_port, sys_socket, sys_listen, sys_accept, AcceptFails, socketVars
  <2> QED BY <1>7, <2>1, <2>2, <2>3, <2>4 DEF ServerStep
<1> QED BY <1>6, <1>7 DEF DsNext

LEMMA DsInvStep == DsInv /\ [DsNext]_dsVars => DsInv'
<1> SUFFICES ASSUME DsInv, [DsNext]_dsVars PROVE DsInv'
  OBVIOUS
<1>1. SocketTypeOK'
  BY DsIsSocketStep, SocketTypeNext DEF DsInv
<1>2. CASE DsNext
  <2>1. DsTypes' /\ Connected' /\ Stages'
    BY <1>2, ClientTypes, ServerTypes, ClientStages, ServerStages DEF DsNext
  <2> QED BY <1>1, <1>2, <2>1, RequestsStep DEF DsInv
<1>3. CASE UNCHANGED dsVars
  <2>1. DsTypes' /\ Connected' /\ OwnRequests'
    BY <1>3 DEF dsVars, socketVars, clientVars, serverVars, DsInv, DsTypes, Connected,
         OwnRequests, Dispatching, Open
  <2>2. Stages'
    BY <1>3, Untouched DEF dsVars, socketVars, clientVars, serverVars, DsInv, Stages, clientState
  <2> QED BY <1>1, <2>1, <2>2 DEF DsInv
<1> QED BY <1>2, <1>3

LEMMA DsInvCorrect == DsSpec => []DsInv
  BY FirstDsInv, DsInvStep, PTL DEF DsSpec

(***************************************************************************)
(* For any number of programs and any mix of calls, the server never takes *)
(* an answer of its own for a request, although both are in the file of    *)
(* the client, unless a connect() hit the dispatch.                        *)
(***************************************************************************)
THEOREM NeverServesReplyCorrect == DsSpec => []NeverServesReply
<1>1. ASSUME DsInv PROVE NeverServesReply
  <2> SUFFICES ASSUME spc \in {"send", "quiet"}, fd31 \notin disturbed
               PROVE  buf.mode # "reply"
    BY DEF NeverServesReply
  <2>1. fd31 \in Clients /\ InDispatch(fd31)
    BY <1>1 DEF DsInv, Connected, InDispatch, Dispatching
  <2>2. Stage(fd31)
    BY <1>1, <2>1 DEF DsInv, Stages
  <2>3. buf = Wanted(fd31)
    BY <2>1, <2>2, DispatchStage DEF Sending, Dismissing
  <2> QED BY <2>3 DEF Wanted
<1> QED BY <1>1, DsInvCorrect, PTL

-----------------------------------------------------------------------------
(* The abstract calls.  The phase of a call depends on what the program    *)
(* and the history keep of it, and not on the socket.                      *)

LEMMA PhaseSame ==
    ASSUME NEW c \in Clients, UNCHANGED <<cpc[c], call[c], seq[c], got[c], served[c]>>,
           c \in disturbed' <=> c \in disturbed
    PROVE  Phase(c)' = Phase(c)
BY DEF Phase, Served, Satisfied

LEMMA PhaseBroken == ASSUME NEW c \in disturbed PROVE Phase(c) = "broken"
BY DEF Phase

(* The phase of an undisturbed client, read off its place and its history. *)
PhaseOf(c) ==
    /\ served[c] \in {0, 1}
    /\ cpc[c] \in {"start", "connect", "idle"} => Phase(c) = "idle" /\ served[c] = 0
    /\ cpc[c] \notin {"start", "connect", "idle"} =>
          Phase(c) = IF served[c] = 0 THEN "asked" ELSE "served"
    /\ cpc[c] = "clear" => served[c] = 1

PhaseInv == \A c \in Clients \ disturbed : PhaseOf(c)

LEMMA PhaseInvHolds == DsInv => PhaseInv
<1> SUFFICES ASSUME DsInv, NEW c \in Clients \ disturbed PROVE PhaseOf(c)
  BY DEF PhaseInv
<1>1. Stage(c)
  BY DEF DsInv, Stages
<1>2. CASE Resting(c)
  BY <1>2 DEF Resting, Phase, PhaseOf
<1>3. CASE Written(c) \/ Waiting(c)
  <2>1. cpc[c] \in {"written", "wait"} /\ served[c] = 0 /\ ~Served(c)
    BY <1>3 DEF Written, Waiting, Served
  <2> QED BY <2>1 DEF Phase, PhaseOf
<1>4. CASE Sending(c) \/ Answering(c) \/ Replied(c) \/ Dismissing(c)
  BY <1>4 DEF Sending, Answering, Replied, Dismissing, Phase, Served, PhaseOf
<1>5. CASE Over(c)
  BY <1>5 DEF Over, Phase, Served, PhaseOf
<1> QED BY <1>1, <1>2, <1>3, <1>4, <1>5 DEF Stage

calls == [c \in Callers |-> Phase(c)]

(* A step that moves the call of one program.                              *)
LEMMA OneCallMoves ==
    ASSUME NEW c \in Clients, \A d \in Clients \ {c} : Phase(d)' = Phase(d),
           \/ Phase(c)' = Phase(c)
           \/ Phase(c) = "idle" /\ Phase(c)' = "asked"
           \/ Phase(c) = "asked" /\ Phase(c)' = "served"
           \/ Phase(c) = "served" /\ Phase(c)' = "idle"
    PROVE  [Display!Next]_calls
<1> DEFINE P == [d \in Callers |-> Phase(d)]
           Q == [d \in Callers |-> Phase(d)']
<1>1. CASE c \notin Callers \/ Phase(c)' = Phase(c)
  <2>1. \A d \in Callers : Phase(d)' = Phase(d)
    BY <1>1, DisplayAssumption
  <2> QED BY <2>1 DEF calls
<1>2. CASE c \in Callers /\ Phase(c)' # Phase(c)
  <2>1. P[c] = Phase(c) /\ Q = [P EXCEPT ![c] = Phase(c)']
    BY <1>2, DisplayAssumption
  <2> QED BY <1>2, <2>1 DEF Display!Next, Display!Ask, Display!Serve, Display!Return, Display!Move
<1> QED BY <1>1, <1>2

(* A connect moves no call, but it may break some.                         *)
LEMMA ConnectBreaks ==
    ASSUME DsInv, NEW c \in Clients, Connect(c)
    PROVE  Display!Break
<1>1. DsTypes /\ disturbed \subseteq disturbed' /\ UNCHANGED <<call, seq, got, served>>
  BY DEF DsInv, Connect
<1>2. ASSUME NEW d \in Clients, d \notin disturbed' PROVE Phase(d)' = Phase(d)
  <2>1. CASE d = c
    BY <1>1, <1>2, <2>1 DEF Connect, Goto, DsTypes, Phase
  <2>2. CASE d # c
    BY <1>1, <1>2, <2>2, PhaseSame DEF Connect, Goto, DsTypes
  <2> QED BY <2>1, <2>2
<1>3. \A d \in Callers : Phase(d)' \in {Phase(d), "broken"}
  BY <1>2, DisplayAssumption DEF Phase
<1> QED BY <1>3 DEF Display!Break

LEMMA ClientCallStep ==
    ASSUME DsInv, PhaseInv, PhaseInv', NEW c \in Clients, ClientStep(c)
    PROVE  [Display!Next]_calls
<1>1. CASE Connect(c)
  BY <1>1, ConnectBreaks DEF Display!Next
<1>2. CASE ~Connect(c)
  <2>1. UNCHANGED disturbed /\ DsTypes
    BY <1>2, ClientServerFrame DEF DsInv
  <2>2. \A d \in Clients \ {c} : Phase(d)' = Phase(d)
    BY <2>1, ClientFrame, PhaseSame DEF clientState
  <2>3. CASE c \in disturbed
    BY <2>1, <2>2, <2>3, PhaseBroken, OneCallMoves DEF Phase
  <2>4. CASE c \notin disturbed
    <3>1. PhaseOf(c) /\ PhaseOf(c)'
      BY <2>1, <2>4 DEF PhaseInv
    <3>2. \/ Phase(c)' = Phase(c)
          \/ Phase(c) = "idle" /\ Phase(c)' = "asked"
          \/ Phase(c) = "served" /\ Phase(c)' = "idle"
      BY <1>2, <2>1, <3>1 DEF PhaseOf, ClientStep, Proceed, OpenSocket, WriteRequest,
           SetRequest, Poll, ReadAnswer, ClearAction, Goto, DsTypes
    <3> QED BY <2>2, <3>2, OneCallMoves
  <2> QED BY <2>3, <2>4
<1> QED BY <1>1, <1>2

LEMMA ServerCallStep ==
    ASSUME DsInv, PhaseInv, PhaseInv', ServerStep
    PROVE  [Display!Next]_calls
<1>1. UNCHANGED <<cpc, call, seq, got, disturbed>>
  BY DEF ServerStep, RegisterServer, ServerSocket, ServerListen, Accept, CheckAction,
         ReadRequest, SendResponse, SetReply, SetNull, ServerOnly, clientVars
<1>2. CASE ~ReadRequest
  <2>1. UNCHANGED served
    BY <1>2 DEF ServerStep, RegisterServer, ServerSocket, ServerListen, Accept, CheckAction,
         SendResponse, SetReply, SetNull
  <2>2. \A d \in Callers : Phase(d)' = Phase(d)
    BY <1>1, <2>1, PhaseSame, DisplayAssumption
  <2> QED BY <2>2 DEF calls
<1>3. CASE ReadRequest
  <2>1. InDispatch(fd31) /\ fd31 \in Clients
    BY <1>3 DEF ReadRequest, InDispatch, Dispatching, DsInv, Connected
  <2>2. \A d \in Clients \ {fd31} : Phase(d)' = Phase(d)
    BY <1>1, ServerFrame, PhaseSame DEF InDispatch, clientState
  <2>3. CASE fd31 \in disturbed
    BY <1>1, <2>1, <2>2, <2>3, PhaseBroken, OneCallMoves DEF Phase
  <2>4. CASE fd31 \notin disturbed
    <3>1. Stage(fd31) /\ fd31 \in Clients \ disturbed
      BY <2>1, <2>4 DEF DsInv, Stages
    <3>2. Waiting(fd31)
      BY <1>3, <2>1, <3>1, DispatchStage DEF ReadRequest
    <3>3. Phase(fd31) = "asked" /\ cpc[fd31] = "wait"
      BY <3>1, <3>2 DEF Waiting, PhaseInv, PhaseOf
    <3>4. PICK c \in Clients : c = fd31
      BY <2>1
    <3>5. PhaseOf(c)' /\ cpc'[c] = "wait"
      BY <1>1, <3>1, <3>3, <3>4 DEF PhaseInv
    <3>6. Phase(c)' \in {"asked", "served"}
      BY <3>5 DEF PhaseOf
    <3> QED BY <2>1, <2>2, <3>3, <3>4, <3>6, OneCallMoves
  <2> QED BY <2>3, <2>4
<1> QED BY <1>2, <1>3

(***************************************************************************)
(* The display server and its library implement the abstract calls, for    *)
(* any number of programs: a call is served once and returns only when it  *)
(* was served and, if it waits for an answer, with its own answer, as long *)
(* as no connect() hits a dispatch of its program.                         *)
(***************************************************************************)
THEOREM RpcCorrect == DsSpec => ImplementsRpc
<1>1. DsInit => Display!Init
  <2> SUFFICES ASSUME DsInit, NEW c \in Callers PROVE Phase(c) = "idle"
    BY DEF Display!Init
  <2> QED BY DisplayAssumption DEF DsInit, Phase
<1>2. DsInv /\ PhaseInv /\ PhaseInv' /\ [DsNext]_dsVars
      => [Display!Next]_calls
  <2> SUFFICES ASSUME DsInv, PhaseInv, PhaseInv', [DsNext]_dsVars
               PROVE  [Display!Next]_calls
    OBVIOUS
  <2>1. CASE UNCHANGED dsVars
    <3>1. \A d \in Callers : Phase(d)' = Phase(d)
      BY <2>1, PhaseSame, DisplayAssumption DEF dsVars, clientVars
    <3> QED BY <3>1 DEF calls
  <2>2. CASE DsNext
    BY <2>2, ClientCallStep, ServerCallStep DEF DsNext
  <2> QED BY <2>1, <2>2
<1> QED BY <1>1, <1>2, DsInvCorrect, PhaseInvHolds, PTL DEF calls, DsSpec, ImplementsRpc, Display!Spec

(***************************************************************************)
(* The server and the library use the sockets only through calls that the  *)
(* socket model has: what holds of the sockets for every program (FileSound,*)
(* NeverWakes, PanicIsForced, ForgetsOnlyWhenFull) holds of the display.   *)
(***************************************************************************)
THEOREM DsUsesSockets == DsSpec => SocketSpec
<1>1. DsInit => SocketInit
  BY DEF DsInit
<1> QED BY <1>1, DsInvCorrect, DsIsSocketStep, PTL DEF DsSpec, SocketSpec
=============================================================================
