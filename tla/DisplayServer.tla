---------------------------- MODULE DisplayServer ----------------------------
(***************************************************************************)
(* The display server (ds.c) and the programs that call it through the     *)
(* client library (gws.c), over the sockets of the kernel.                 *)
(*                                                                         *)
(* A program writes a request into its own socket file, sets the action of *)
(* the file to REQUEST and polls the action.  The server accepts its       *)
(* clients in turn; accept() puts the file in descriptor 31, and all that  *)
(* the server does for that client afterwards names the descriptor, not    *)
(* the client.                                                             *)
(***************************************************************************)
EXTENDS Socket

CONSTANTS
    SERVER_BACKLOG,  \* argument of listen(), 8 in ds.c
    SEND_TRIES,      \* write attempts of dsSendResponse, 8 in ds.c
    Calls,           \* which of "strict", "lenient", "async" the programs make
    Callers          \* bound: the clients that make calls, others only connect

(* A packet: a request that is answered, one that is not, or an answer.    *)
Packet == [mode : {"sync", "async", "reply"}, client : Clients, seq : {0, 1}]

ASSUME DisplayAssumption ==
    /\ Packet \subseteq Packets /\ Clients \subseteq Users /\ Callers \subseteq Clients
    /\ SEND_TRIES \in Nat \ {0} /\ SERVER_BACKLOG \in 0 .. PENDING_MAX
    /\ Calls \subseteq {"strict", "lenient", "async"}

VARIABLES
    cpc,        \* where each program is in the library
    call,       \* the kind of its current call
    seq,        \* the number of that call, modulo 2
    spc,        \* where the server is in its main loop
    buf,        \* __buffer of the server
    noReply,    \* NoReply of the server
    tries,      \* writes that dsSendResponse has tried
    got,        \* history: the packet that the call has read
    served,     \* history: how often the call was served, cut at 2
    disturbed   \* history: the clients of a dispatch that a connect() hit

clientVars == <<cpc, call, seq, got>>
serverVars == <<spc, buf, noReply, tries>>
dsVars == <<socketVars, clientVars, serverVars, served, disturbed>>

DsInit ==
    /\ SocketInit
    /\ cpc = [c \in Clients |-> "start"]
    /\ call = [c \in Clients |-> None]
    /\ seq = [c \in Clients |-> 0]
    /\ got = [c \in Clients |-> None]
    /\ spc = "register" /\ buf = None /\ noReply = FALSE /\ tries = 0
    /\ served = [c \in Clients |-> 0]
    /\ disturbed = {}

-----------------------------------------------------------------------------
(* The client library.                                                     *)

Goto(c, label) == cpc' = [cpc EXCEPT ![c] = label]
ClientOnly == UNCHANGED serverVars

(* gws_open_display: socket(), then connect() until it succeeds.           *)
OpenSocket(c) ==
    /\ cpc[c] = "start" /\ sys_socket(c) /\ Goto(c, "connect")
    /\ ClientOnly /\ UNCHANGED <<call, seq, got, served, disturbed>>

Dispatching == spc \in {"read", "send", "answer", "quiet"}

Connect(c) ==
    /\ cpc[c] = "connect" /\ sys_connect(c) /\ Goto(c, "idle")
    /\ disturbed' = IF Dispatching THEN disturbed \cup {fd31, c} ELSE disturbed
    /\ ClientOnly /\ UNCHANGED <<call, seq, got, served>>

Request(c, k) == [mode |-> IF k = "async" THEN "async" ELSE "sync",
                  client |-> c, seq |-> 1 - seq[c]]

(* A call begins with the write of the request; if that fails, so does the *)
(* call.                                                                   *)
WriteRequest(c) ==
    /\ cpc[c] = "idle" /\ c \in Callers
    /\ \E k \in Calls :
         /\ call' = [call EXCEPT ![c] = k]
         /\ IF CanWrite(c)
            THEN sys_write(c, Request(c, k)) /\ Goto(c, "written")
            ELSE UNCHANGED socketVars /\ Goto(c, "clear")
    /\ seq' = [seq EXCEPT ![c] = 1 - @]
    /\ ClientOnly /\ UNCHANGED <<got, served, disturbed>>

(* Mutant: the action is not set.                                          *)
SkipRequest(c) ==
    /\ cpc[c] = "written" /\ Goto(c, "wait")
    /\ ClientOnly /\ UNCHANGED <<socketVars, call, seq, got, served, disturbed>>

SetRequest(c) ==
    /\ cpc[c] = "written" /\ SetAction(c, "REQUEST") /\ Goto(c, "wait")
    /\ ClientOnly /\ UNCHANGED <<call, seq, got, served, disturbed>>

(* The actions that end the polling, and whether an answer is then read.   *)
(* Nobody ever sets ERROR.                                                 *)
Answered(c) == file[c].action = "REPLY" /\ call[c] # "async"
Dismissed(c) == \/ file[c].action = "NULL" /\ call[c] # "strict"
                \/ file[c].action = "ERROR"

Poll(c) ==
    /\ cpc[c] = "wait" /\ (Answered(c) \/ Dismissed(c))
    /\ Goto(c, IF Answered(c) THEN "read" ELSE "clear")
    /\ ClientOnly /\ UNCHANGED <<socketVars, call, seq, got, served, disturbed>>

ReadAnswer(c) ==
    /\ cpc[c] = "read" /\ Goto(c, "clear")
    /\ IF CanRead(c)
       THEN ReadPacket(c) /\ got' = [got EXCEPT ![c] = file[c].data]
       ELSE UNCHANGED <<socketVars, got>>
    /\ ClientOnly /\ UNCHANGED <<call, seq, served, disturbed>>

(* Every call ends by setting the action to NULL, a failed one too.        *)
ClearAction(c) ==
    /\ cpc[c] = "clear" /\ SetAction(c, "NULL") /\ Goto(c, "idle")
    /\ call' = [call EXCEPT ![c] = None]
    /\ got' = [got EXCEPT ![c] = None]
    /\ served' = [served EXCEPT ![c] = 0]
    /\ ClientOnly /\ UNCHANGED <<seq, disturbed>>

-----------------------------------------------------------------------------
(* The server.                                                             *)

ServerOnly == UNCHANGED <<clientVars, disturbed>>

(* Registration comes before socket(), bind() and listen().                *)
RegisterServer ==
    /\ spc = "register" /\ socket_set_gramado_port /\ spc' = "socket"
    /\ ServerOnly /\ UNCHANGED <<buf, noReply, tries, served>>

ServerSocket ==
    /\ spc = "socket" /\ sys_socket(Server) /\ spc' = "listen"
    /\ ServerOnly /\ UNCHANGED <<buf, noReply, tries, served>>

ServerListen ==
    /\ spc = "listen" /\ sys_listen(SERVER_BACKLOG) /\ spc' = "accept"
    /\ ServerOnly /\ UNCHANGED <<buf, noReply, tries, served>>

(* One turn of the main loop begins with accept().                         *)
Accept ==
    /\ spc = "accept"
    /\ \/ sys_accept /\ spc' = "check"
       \/ AcceptFails /\ UNCHANGED spc
    /\ ServerOnly /\ UNCHANGED <<buf, noReply, tries, served>>

(* Mutant: the action is not looked at.                                    *)
NoCheck ==
    /\ spc = "check" /\ spc' = "read"
    /\ ServerOnly /\ UNCHANGED <<socketVars, buf, noReply, tries, served>>

(* dispacher: a client without a request is left alone.                    *)
CheckAction ==
    /\ spc = "check"
    /\ IF file[fd31].action = "REQUEST"
       THEN spc' = "read" /\ UNCHANGED buf
       ELSE spc' = "accept" /\ buf' = None
    /\ ServerOnly /\ UNCHANGED <<socketVars, noReply, tries, served>>

(* dsProcedure: each service that the library asks for says whether it is  *)
(* answered.  (Those it never asks for, GWS_Disconnect, GWS_RefreshScreen, *)
(* 2030, GWS_Quit, GWS_DrainInput and unknown codes, leave NoReply as the  *)
(* request before them did: no request of the model is one of these.)  The *)
(* code of an answer is that of a service which is answered.               *)
NewNoReply(m) == m.mode = "async"

(* A request of the client's current call is served.                       *)
Serve(m) ==
    served' = IF m.mode # "reply" /\ m.seq = seq[m.client] /\ served[m.client] < 2
              THEN [served EXCEPT ![m.client] = @ + 1] ELSE served

(* dispacher, from the read on.  The library writes whole packets with a   *)
(* service code: the exits for a short packet and for code 0, which take   *)
(* the packet and leave the action at REQUEST, are not taken.              *)
ReadRequest ==
    /\ spc = "read"
    /\ IF CanRead(fd31)
       THEN /\ ReadPacket(fd31)
            /\ buf' = file[fd31].data
            /\ noReply' = NewNoReply(file[fd31].data)
            /\ spc' = IF noReply' THEN "quiet" ELSE "send"
            /\ Serve(file[fd31].data)
       ELSE UNCHANGED <<socketVars, noReply, served>> /\ spc' = "accept" /\ buf' = None
    /\ ServerOnly /\ UNCHANGED tries

Reply(m) == [mode |-> "reply", client |-> m.client, seq |-> m.seq]

(* dsSendResponse tries to write, and sets the action to REPLY whether it  *)
(* could write or not.                                                     *)
SendResponse ==
    /\ spc = "send"
    /\ IF CanWrite(fd31)
       THEN sys_write(fd31, Reply(buf)) /\ spc' = "answer" /\ UNCHANGED tries
       ELSE /\ tries' = tries + 1
            /\ spc' = IF tries' = SEND_TRIES THEN "answer" ELSE "send"
            /\ UNCHANGED socketVars
    /\ ServerOnly /\ UNCHANGED <<buf, noReply, served>>

SetReply ==
    /\ spc = "answer" /\ SetAction(fd31, "REPLY") /\ spc' = "accept"
    /\ buf' = None /\ tries' = 0
    /\ ServerOnly /\ UNCHANGED <<noReply, served>>

SetNull ==
    /\ spc = "quiet" /\ SetAction(fd31, "NULL") /\ spc' = "accept"
    /\ ServerOnly /\ UNCHANGED <<buf, noReply, tries, served>>

-----------------------------------------------------------------------------
(* A program that has begun a call goes through it; when it opens the      *)
(* display and which calls it makes is up to it.                           *)
Proceed(c) == SetRequest(c) \/ Poll(c) \/ ReadAnswer(c) \/ ClearAction(c)
ClientStep(c) == OpenSocket(c) \/ Connect(c) \/ WriteRequest(c) \/ Proceed(c)
ServerStep == \/ RegisterServer \/ ServerSocket \/ ServerListen \/ Accept
              \/ CheckAction \/ ReadRequest \/ SendResponse \/ SetReply \/ SetNull

DsNext == ServerStep \/ \E c \in Clients : ClientStep(c)

DsFairness == WF_dsVars(ServerStep) /\ \A c \in Clients : WF_dsVars(Proceed(c))
DsSpec == DsInit /\ [][DsNext]_dsVars /\ DsFairness

-----------------------------------------------------------------------------
(* What the calls of a program amount to: a call that ends without having  *)
(* been served, or with the answer of another call, has no phase.          *)
Served(c) == served[c] = 1
Satisfied(c) == Served(c) /\ (call[c] = "async"
                              \/ got[c] = [mode |-> "reply", client |-> c, seq |-> seq[c]])
Phase(c) ==
    IF c \in disturbed THEN "broken"
    ELSE CASE cpc[c] \in {"start", "connect", "idle"} -> "idle"
           [] cpc[c] \in {"written", "wait", "read"} /\ served[c] = 0 -> "asked"
           [] cpc[c] \in {"written", "wait", "read"} /\ Served(c) -> "served"
           [] cpc[c] = "clear" /\ Satisfied(c) -> "served"
           [] OTHER -> "wrong"

Display == INSTANCE Rpc WITH phase <- [c \in Callers |-> Phase(c)]

(***************************************************************************)
(* Calls of different programs share descriptor 31 and one buffer, and a   *)
(* request is polled for in a list that connect() changes; still each call *)
(* is served once and gets its own answer, except for the two clients of a *)
(* dispatch that a connect() hits.                                         *)
(***************************************************************************)
ImplementsRpc == Display!Spec

(* The code of an answer is the code of GWS_CreateWindow: the server never *)
(* takes its own answer for a request, unless a connect() hit a dispatch   *)
(* of that client.                                                         *)
NeverServesReply ==
    spc \in {"send", "quiet"} => buf.mode # "reply" \/ fd31 \in disturbed

(* The head of the backlog goes round, so that a call ends, for every      *)
(* client that the list has not lost, however busy the others are.         *)
CallEnds ==
    \A c \in Clients :
      cpc[c] = "wait" ~> (cpc[c] = "idle" \/ c \in disturbed \/ ~Listed(c))

-----------------------------------------------------------------------------
(* Sentences of the source that do not hold.                               *)

(* "Who makes the connection will be accept(), taking the client from the  *)
(* list of pending connections" (socket.c): connect() puts its caller in   *)
(* descriptor 31 as well, so that an answer goes to a client that has not  *)
(* asked.                                                                  *)
AnswersRequester == spc \in {"send", "answer", "quiet"} => buf.client = fd31
=============================================================================
