------------------------------- MODULE Socket --------------------------------
(***************************************************************************)
(* The sockets of the kernel (socket.c, sockint.c, and the socket branches *)
(* of fslib.c and fs.c): one server that listens, its clients, and the     *)
(* calls any program may make, in any order.                               *)
(*                                                                         *)
(* A connection has no buffers of its own.  The server reads and writes    *)
(* the file of the client, which is a single packet with two flags: __SRD, *)
(* it may be read, and __SWR, it may be written.  connect() and accept()   *)
(* both put the client's file in descriptor 31 of the server.              *)
(*                                                                         *)
(* Calls run with interrupts off, so each is one step.  A process makes    *)
(* one socket; the server never closes its own and only uses 31 to read,   *)
(* to write and to synchronise.                                            *)
(***************************************************************************)
EXTENDS Integers

CONSTANTS
    Clients,          \* the processes that connect
    Server,           \* the process that registers and listens
    None,             \* no process, no packet
    PENDING_MAX,      \* size of pending_client_endpoints, 32 in socket.h
    DEFAULT_BACKLOG,  \* backlog_max of a new socket, 4 in sockint.c
    Packets,          \* what a write may put into a file
    Users             \* bound: the clients whose files are read and written

ASSUME SocketAssumption ==
    /\ Server \notin Clients /\ None \notin Clients \cup {Server} \cup Packets
    /\ PENDING_MAX \in Nat /\ DEFAULT_BACKLOG \in Nat
    /\ 1 <= DEFAULT_BACKLOG /\ DEFAULT_BACKLOG < PENDING_MAX

VARIABLES
    state,        \* struct socket_d: state, and "CLOSED" when used is FALSE
    file,         \* the file of a client's socket
    port,         \* gramado_ports[GRAMADO_PORT_WS]
    fd31,         \* Objects[31] of the server
    backlog_max, backlog_head, pending_client_count,
    pending,      \* pending_client_endpoints of the server's socket
    panic,        \* __read_imp has panicked
    woken,        \* history: a write reached do_thread_ready(tid_waiting)
    forced,       \* history: files that request 217 declared readable
    spoiled       \* history: files that somebody wrote a too long packet to

backlog == <<backlog_max, backlog_head, pending_client_count, pending>>
history == <<woken, forced, spoiled>>
socketVars == <<state, file, port, fd31, backlog, panic, history>>

Process == Clients \cup {Server}
SocketState == {"NONE", "UNCONNECTED", "CONNECTING", "CONNECTED", "LISTENING",
                "SHUTDOWN", "CLOSED"}
Action == {"NULL", "REQUEST", "REPLY", "ERROR"}
File == [flags : SUBSET {"SRD", "SWR"}, full : BOOLEAN,
         data : Packets \cup {None}, action : Action]
Slot == 0 .. (PENDING_MAX - 1)

(* A new socket may be written and is empty.                               *)
NewFile == [flags |-> {"SWR"}, full |-> FALSE, data |-> None, action |-> "NULL"]

SocketInit ==
    /\ state = [p \in Process |-> "NONE"]
    /\ file = [c \in Clients |-> NewFile]
    /\ port = None /\ fd31 = None
    /\ backlog_max = DEFAULT_BACKLOG
    /\ backlog_head = 0 /\ pending_client_count = 0
    /\ pending = [i \in Slot |-> None]
    /\ panic = FALSE /\ woken = FALSE /\ forced = {} /\ spoiled = {}

(* The descriptor of a socket that was made and not closed.                *)
Open(p) == state[p] \notin {"NONE", "CLOSED"}

-----------------------------------------------------------------------------
(* Making, naming and ending a socket.                                     *)

sys_socket(p) ==
    /\ ~panic /\ state[p] = "NONE"
    /\ state' = [state EXCEPT ![p] = "UNCONNECTED"]
    /\ UNCHANGED <<file, port, fd31, backlog, panic, history>>

(* The server registers its pid as the display server.                     *)
socket_set_gramado_port ==
    /\ ~panic /\ port = None
    /\ port' = Server
    /\ UNCHANGED <<state, file, fd31, backlog, panic, history>>

sys_socket_shutdown(p) ==
    /\ ~panic /\ Open(p)
    /\ state' = [state EXCEPT ![p] = "SHUTDOWN"]
    /\ UNCHANGED <<file, port, fd31, backlog, panic, history>>

(* The socket becomes invalid; its file stays in descriptor 31 and the     *)
(* socket in the list of pending clients.                                  *)
sys_close(c) ==
    /\ ~panic /\ Open(c)
    /\ state' = [state EXCEPT ![c] = "CLOSED"]
    /\ UNCHANGED <<file, port, fd31, backlog, panic, history>>

-----------------------------------------------------------------------------
(* Connections.                                                            *)

(* Mutant: the argument is not cut at the size of the list.                *)
ClipLow(b) == IF b <= 0 THEN 1 ELSE b

(* The length that listen() is asked for, cut to what the list can hold.   *)
Clip(b) == IF b <= 0 THEN 1 ELSE IF b >= PENDING_MAX THEN PENDING_MAX - 1 ELSE b

(* listen() of the server: forgets who has already connected, and leaves   *)
(* the head where it is.                                                   *)
sys_listen(b) ==
    /\ ~panic /\ Open(Server)
    /\ backlog_max' = Clip(b)
    /\ pending' = [i \in Slot |-> None]
    /\ pending_client_count' = 0
    /\ state' = [state EXCEPT ![Server] = "LISTENING"]
    /\ UNCHANGED <<file, port, fd31, backlog_head, panic, history>>

(* listen() of another process touches only its own socket.                *)
ListenElsewhere(c) ==
    /\ ~panic /\ Open(c)
    /\ state' = [state EXCEPT ![c] = "LISTENING"]
    /\ UNCHANGED <<file, port, fd31, backlog, panic, history>>

(* Mutant: the count stops at the limit.                                   *)
CountSaturates == IF pending_client_count + 1 >= backlog_max
                  THEN pending_client_count ELSE pending_client_count + 1

(* The circular place of the next pending client.                          *)
BacklogTail == IF pending_client_count + 1 >= backlog_max
               THEN 0 ELSE pending_client_count + 1

CanConnect(c) == state[c] = "UNCONNECTED" /\ port = Server /\ state[Server] # "NONE"

(* connect() enters the list, over whoever is in that place, and takes     *)
(* descriptor 31 of the server.  The server must exist; it need not listen.*)
sys_connect(c) ==
    /\ ~panic /\ CanConnect(c)
    /\ fd31' = c
    /\ state' = [state EXCEPT ![c] = "CONNECTING", ![Server] = "CONNECTING"]
    /\ pending_client_count' = BacklogTail
    /\ pending' = [pending EXCEPT ![BacklogTail] = c]
    /\ UNCHANGED <<file, port, backlog_max, backlog_head, panic, history>>

(* Mutant: the head moves one entry too far.                               *)
HeadSkips == IF backlog_head + 2 >= backlog_max THEN 0 ELSE backlog_head + 2

Head == IF backlog_head + 1 >= backlog_max THEN 0 ELSE backlog_head + 1

(* The first client at or after the new head; the scan does not wrap.      *)
Scanned == {i \in Head .. backlog_max : pending[i] # None}
First(i) == i \in Scanned /\ \A j \in Scanned : i <= j
Accepting == state[Server] \in {"LISTENING", "CONNECTING", "CONNECTED"}

(* accept() with a valid client; it stays in the list for later calls.     *)
sys_accept ==
    /\ ~panic /\ Accepting
    /\ \E i \in Slot :
         /\ First(i) /\ state[pending[i]] # "CLOSED"
         /\ fd31' = pending[i]
         /\ state' = [state EXCEPT ![pending[i]] = "CONNECTED", ![Server] = "CONNECTED"]
    /\ backlog_head' = Head
    /\ UNCHANGED <<file, port, backlog_max, pending_client_count, pending,
                   panic, history>>

(* accept() that finds nobody, or somebody who has closed the socket.      *)
AcceptFails ==
    /\ ~panic /\ Accepting
    /\ \A i \in Slot : First(i) => state[pending[i]] = "CLOSED"
    /\ backlog_head' = Head
    /\ UNCHANGED <<state, file, port, fd31, backlog_max, pending_client_count,
                   pending, panic, history>>

-----------------------------------------------------------------------------
(* The file of a client c, used by c or by the server through 31.          *)

FileOnly == UNCHANGED <<state, port, fd31, backlog>>

CanRead(c) == "SRD" \in file[c].flags
CanWrite(c) == "SWR" \in file[c].flags

(* Mutant: a read leaves the file readable.                                *)
StaysReadable(c) ==
    file' = [file EXCEPT ![c].full = FALSE, ![c].data = None, ![c].flags = @ \cup {"SWR"}]

(* Taking the packet out makes room for the next one.  The bytes stay in   *)
(* the buffer, but nothing reads them there.                               *)
TakePacket(c) ==
    file' = [file EXCEPT ![c].full = FALSE, ![c].data = None,
                         ![c].flags = (@ \ {"SRD"}) \cup {"SWR"}]

(* read() that returns the packet.                                         *)
ReadPacket(c) ==
    /\ ~panic /\ CanRead(c) /\ file[c].full
    /\ TakePacket(c)
    /\ FileOnly /\ UNCHANGED <<panic, history>>

(* read() of an empty file that says it is readable: block_on_read_empty   *)
(* is TRUE for every socket, and the kernel panics.                        *)
ReadEmpty(c) ==
    /\ ~panic /\ CanRead(c) /\ ~file[c].full
    /\ file' = [file EXCEPT ![c].flags = {"SWR"}]
    /\ panic' = TRUE
    /\ FileOnly /\ UNCHANGED history

(* Mutant: the length is looked at before the flags are cleared.           *)
WriteOrRefuse(c, m) ==
    /\ ~panic /\ CanWrite(c)
    /\ file' = [file EXCEPT ![c].flags = {"SRD"}, ![c].full = (m # None), ![c].data = m]
    /\ woken' = (woken \/ file[c].full)
    /\ spoiled' = IF m = None THEN spoiled \cup {c} ELSE spoiled
    /\ FileOnly /\ UNCHANGED <<panic, forced>>

(***************************************************************************)
(* write() to a file that may be written.  If the file is full the thread  *)
(* in tid_waiting is made READY, whatever it is doing.  Otherwise the      *)
(* flags are cleared first: a packet of BUFSIZ bytes or more (None) is     *)
(* then refused and the file can be neither read nor written.              *)
(***************************************************************************)
sys_write(c, m) ==
    /\ ~panic /\ CanWrite(c)
    /\ IF file[c].full \/ m = None
       THEN file' = [file EXCEPT ![c].flags = IF file[c].full THEN {"SRD"} ELSE {}]
       ELSE file' = [file EXCEPT ![c].flags = {"SRD"}, ![c].full = TRUE, ![c].data = m]
    /\ woken' = (woken \/ file[c].full)
    /\ spoiled' = IF m = None THEN spoiled \cup {c} ELSE spoiled
    /\ FileOnly /\ UNCHANGED <<panic, forced>>

(* Services 10000 and 10006.                                               *)
SetAction(c, a) ==
    /\ ~panic
    /\ file' = [file EXCEPT ![c].action = a]
    /\ FileOnly /\ UNCHANGED <<panic, history>>

(* Mutant: the buffer is still marked as full.                             *)
ResetWriteKeepsFull(c) ==
    /\ ~panic
    /\ file' = [file EXCEPT ![c].action = "NULL", ![c].flags = {"SWR"}]
    /\ FileOnly /\ UNCHANGED <<panic, history>>

(* Request 216: empty and writable, as a new file.                         *)
ResetWrite(c) ==
    /\ ~panic
    /\ file' = [file EXCEPT ![c] = NewFile]
    /\ FileOnly /\ UNCHANGED <<panic, history>>

(* Request 217: readable, whether there is a packet or not.                *)
ResetRead(c) ==
    /\ ~panic
    /\ file' = [file EXCEPT ![c].action = "NULL", ![c].flags = {"SRD"}]
    /\ forced' = forced \cup {c}
    /\ FileOnly /\ UNCHANGED <<panic, woken, spoiled>>

(* sys_sleep_if_socket_is_empty: nobody sleeps, the flag that fits is      *)
(* added to the ones that are there.                                       *)
SleepIfEmpty(c) ==
    /\ ~panic
    /\ file' = [file EXCEPT ![c].flags = @ \cup {IF file[c].full THEN "SRD" ELSE "SWR"}]
    /\ FileOnly /\ UNCHANGED <<panic, history>>

-----------------------------------------------------------------------------
(* Programs.                                                               *)

(* What may be done with the file of client c.                             *)
FileCall(c) == c \in Users /\
    \/ ReadPacket(c) \/ ReadEmpty(c)
    \/ \E m \in Packets \cup {None} : sys_write(c, m)
    \/ \E a \in Action : SetAction(c, a)
    \/ ResetWrite(c) \/ ResetRead(c) \/ SleepIfEmpty(c)

ClientCall(c) ==
    \/ sys_socket(c)
    \/ sys_connect(c) \/ sys_socket_shutdown(c) \/ sys_close(c) \/ ListenElsewhere(c)
    \/ Open(c) /\ FileCall(c)

ServerCall ==
    \/ sys_socket(Server) \/ socket_set_gramado_port \/ sys_socket_shutdown(Server)
    \/ \E b \in 0 .. PENDING_MAX : sys_listen(b)
    \/ sys_accept \/ AcceptFails
    \/ fd31 # None /\ FileCall(fd31)

SocketNext == ServerCall \/ \E c \in Clients : ClientCall(c)

SocketSpec == SocketInit /\ [][SocketNext]_socketVars

-----------------------------------------------------------------------------
(* The indexes stay inside pending_client_endpoints, and what is in        *)
(* descriptor 31 and in the list are clients.                              *)
SocketTypeOK ==
    /\ state \in [Process -> SocketState]
    /\ file \in [Clients -> File]
    /\ port \in {None, Server} /\ fd31 \in Clients \cup {None}
    /\ backlog_max \in 1 .. (PENDING_MAX - 1)
    /\ backlog_head \in Slot /\ pending_client_count \in Slot
    /\ pending \in [Slot -> Clients \cup {None}]
    /\ panic \in BOOLEAN /\ woken \in BOOLEAN
    /\ forced \subseteq Clients /\ spoiled \subseteq Clients

(***************************************************************************)
(* The two flags and socket_buffer_full are written by six calls of two    *)
(* processes, and agree: a full file can only be read; a file that says it *)
(* is readable is full unless somebody used request 217; a file that can   *)
(* be neither read nor written was sent a packet that was too long.        *)
(***************************************************************************)
FileSound ==
    \A c \in Clients :
      /\ file[c].full => file[c].flags = {"SRD"}
      /\ CanRead(c) => file[c].full \/ c \in forced
      /\ file[c].flags = {} => c \in spoiled

(* No write ever makes the thread in tid_waiting READY (fslib.c): the      *)
(* branch would wake sleepers and zombies.                                 *)
NeverWakes == ~woken

(* The kernel panics in a read only if somebody used request 217.          *)
PanicIsForced == panic => forced # {}

(***************************************************************************)
(* A client in the list of pending clients is forgotten only by listen(),  *)
(* or by a connect() that finds every place of the backlog taken.          *)
(***************************************************************************)
Listed(c) == \E i \in Slot : pending[i] = c
BacklogFull == \A i \in 0 .. (backlog_max - 1) : pending[i] # None
ForgetsOnlyWhenFull ==
    [][\A c \in Clients :
         Listed(c) /\ ~Listed(c)' => BacklogFull \/ \A i \in Slot : pending'[i] = None]_socketVars
=============================================================================
