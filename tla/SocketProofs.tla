---------------------------- MODULE SocketProofs -----------------------------
(***************************************************************************)
(* Proofs about the sockets of the kernel, for any number of clients, any  *)
(* backlog and any packets.  The calls are those of arbitrary programs.    *)
(***************************************************************************)
EXTENDS Socket, TLAPS

-----------------------------------------------------------------------------
(* Types.                                                                  *)

(* Clipping keeps the length of the backlog inside the list.               *)
LEMMA ClipRange == ASSUME NEW b \in Int PROVE Clip(b) \in 1 .. (PENDING_MAX - 1)
  BY SocketAssumption DEF Clip

(* The circular places are places of the list.                             *)
LEMMA BacklogRange ==
  ASSUME SocketTypeOK
  PROVE  BacklogTail \in Slot /\ Head \in Slot
  BY SocketAssumption DEF SocketTypeOK, BacklogTail, Head, Slot

(* What the calls on a file leave in it is a file again.                   *)
LEMMA FileTyped ==
  ASSUME SocketTypeOK, NEW c \in Clients, FileCall(c)
  PROVE  file' \in [Clients -> File] /\ panic' \in BOOLEAN /\ woken' \in BOOLEAN
         /\ forced' \subseteq Clients /\ spoiled' \subseteq Clients
<1> USE DEF SocketTypeOK, File, FileOnly, history
<1> PICK f \in [flags : SUBSET {"SRD", "SWR"}, full : BOOLEAN,
                data : Packets \cup {None}, action : Action] : f = file[c]
  OBVIOUS
<1>1. CASE ReadPacket(c)
  BY <1>1 DEF ReadPacket, TakePacket
<1>2. CASE ReadEmpty(c)
  BY <1>2 DEF ReadEmpty
<1>3. ASSUME NEW m \in Packets \cup {None}, sys_write(c, m)
      PROVE  file' \in [Clients -> File] /\ panic' \in BOOLEAN /\ woken' \in BOOLEAN
             /\ forced' \subseteq Clients /\ spoiled' \subseteq Clients
  <2>1. file' \in [Clients -> File]
    <3>1. CASE file[c].full \/ m = None
      BY <1>3, <3>1 DEF sys_write
    <3>2. CASE ~(file[c].full \/ m = None)
      BY <1>3, <3>2 DEF sys_write
    <3> QED
      BY <3>1, <3>2
  <2>2. woken' \in BOOLEAN
    BY <1>3, Zenon DEF sys_write
  <2>3. panic' \in BOOLEAN /\ forced' \subseteq Clients /\ spoiled' \subseteq Clients
    BY <1>3 DEF sys_write
  <2> QED
    BY <2>1, <2>2, <2>3
<1>4. ASSUME NEW a \in Action, SetAction(c, a)
      PROVE  file' \in [Clients -> File] /\ panic' \in BOOLEAN /\ woken' \in BOOLEAN
             /\ forced' \subseteq Clients /\ spoiled' \subseteq Clients
  BY <1>4 DEF SetAction
<1>5. CASE ResetWrite(c)
  BY <1>5 DEF ResetWrite, NewFile, Action
<1>6. CASE ResetRead(c)
  BY <1>6 DEF ResetRead, Action
<1>7. CASE SleepIfEmpty(c)
  BY <1>7 DEF SleepIfEmpty
<1> QED
  BY <1>1, <1>2, <1>3, <1>4, <1>5, <1>6, <1>7 DEF FileCall

(* A call on a file changes nothing else.                                  *)
LEMMA FileCallFrame ==
  ASSUME NEW c, FileCall(c)
  PROVE  UNCHANGED <<state, port, fd31, backlog>> /\ ~panic
  BY DEF FileCall, FileOnly, ReadPacket, ReadEmpty, sys_write, SetAction,
         ResetWrite, ResetRead, SleepIfEmpty

(* Every call is a call on a file or one of those on the connections.      *)
LEMMA NextCases ==
  ASSUME SocketTypeOK, SocketNext
  PROVE  \/ \E c \in Clients : FileCall(c)
         \/ \E p \in Process : sys_socket(p) \/ sys_socket_shutdown(p)
         \/ \E c \in Clients : sys_close(c) \/ ListenElsewhere(c)
         \/ socket_set_gramado_port
         \/ \E b \in 0 .. PENDING_MAX : sys_listen(b)
         \/ \E c \in Clients : sys_connect(c)
         \/ sys_accept \/ AcceptFails
<1>1. CASE ServerCall
  BY <1>1 DEF ServerCall, SocketTypeOK, Process
<1>2. ASSUME NEW c \in Clients, ClientCall(c)
      PROVE  \/ FileCall(c) \/ sys_socket(c) \/ sys_socket_shutdown(c)
             \/ sys_close(c) \/ ListenElsewhere(c) \/ sys_connect(c)
  BY <1>2 DEF ClientCall
<1> QED
  BY <1>1, <1>2 DEF SocketNext, Process

(* The initial state has its types.                                        *)
LEMMA SocketTypeInit == SocketInit => SocketTypeOK
<1> SUFFICES ASSUME SocketInit PROVE SocketTypeOK
  OBVIOUS
<1>1. file \in [Clients -> File]
  BY DEF SocketInit, NewFile, File, Action
<1>2. state \in [Process -> SocketState]
  BY DEF SocketInit, SocketState
<1>3. /\ backlog_max \in 1 .. (PENDING_MAX - 1)
      /\ backlog_head \in Slot /\ pending_client_count \in Slot
      /\ pending \in [Slot -> Clients \cup {None}]
  BY SocketAssumption DEF SocketInit, Slot
<1> QED
  BY <1>1, <1>2, <1>3 DEF SocketInit, SocketTypeOK

(* Every call keeps the types.                                             *)
LEMMA SocketTypeNext == SocketTypeOK /\ [SocketNext]_socketVars => SocketTypeOK'
<1> SUFFICES ASSUME SocketTypeOK, [SocketNext]_socketVars PROVE SocketTypeOK'
  OBVIOUS
<1>0. CASE UNCHANGED socketVars
  BY <1>0 DEF SocketTypeOK, socketVars, backlog, history
<1>1. ASSUME NEW c \in Clients, FileCall(c) PROVE SocketTypeOK'
  BY <1>1, FileTyped, FileCallFrame DEF SocketTypeOK, backlog
<1>2. ASSUME NEW p \in Process, sys_socket(p) \/ sys_socket_shutdown(p) PROVE SocketTypeOK'
  BY <1>2 DEF sys_socket, sys_socket_shutdown, SocketTypeOK, backlog, history, SocketState
<1>3. ASSUME NEW c \in Clients, sys_close(c) \/ ListenElsewhere(c) PROVE SocketTypeOK'
  BY <1>3 DEF sys_close, ListenElsewhere, SocketTypeOK, backlog, history, SocketState, Process
<1>4. ASSUME socket_set_gramado_port PROVE SocketTypeOK'
  BY <1>4 DEF socket_set_gramado_port, SocketTypeOK, backlog, history
<1>5. ASSUME NEW b \in 0 .. PENDING_MAX, sys_listen(b) PROVE SocketTypeOK'
  <2>1. Clip(b) \in 1 .. (PENDING_MAX - 1) /\ 0 \in Slot
    BY ClipRange, SocketAssumption DEF Slot
  <2> QED
    BY <1>5, <2>1 DEF sys_listen, SocketTypeOK, history, SocketState, Process
<1>6. ASSUME NEW c \in Clients, sys_connect(c) PROVE SocketTypeOK'
  BY <1>6, BacklogRange DEF sys_connect, SocketTypeOK, history, SocketState, Process
<1>7. ASSUME sys_accept \/ AcceptFails PROVE SocketTypeOK'
  <2>1. ASSUME NEW i \in Slot, First(i) PROVE pending[i] \in Clients
    BY <2>1 DEF First, Scanned, SocketTypeOK
  <2> QED
    BY <1>7, <2>1, BacklogRange
       DEF sys_accept, AcceptFails, SocketTypeOK, history, SocketState, Process
<1> QED
  BY <1>0, <1>1, <1>2, <1>3, <1>4, <1>5, <1>6, <1>7, NextCases

(***************************************************************************)
(* For any number of clients, any size of pending_client_endpoints and any *)
(* argument of listen(), the indexes of the backlog stay inside the list,  *)
(* and descriptor 31 and the list name clients.                            *)
(***************************************************************************)
THEOREM SocketTypeCorrect == SocketSpec => []SocketTypeOK
  BY SocketTypeInit, SocketTypeNext, PTL DEF SocketSpec

-----------------------------------------------------------------------------
(* The two flags of a file.                                                *)

(* FileSound, of one client.                                               *)
SoundFile(f, isForced, isSpoiled) ==
    /\ f.full => f.flags = {"SRD"}
    /\ "SRD" \in f.flags => f.full \/ isForced
    /\ f.flags = {} => isSpoiled

(* A call on the file of one client is sound if it leaves that file sound  *)
(* and the others alone.                                                   *)
LEMMA SoundElsewhere ==
  ASSUME SocketTypeOK, FileSound, NEW c \in Clients,
         \A d \in Clients \ {c} : file'[d] = file[d],
         forced \subseteq forced', spoiled \subseteq spoiled',
         SoundFile(file'[c], c \in forced', c \in spoiled')
  PROVE  FileSound'
<1> SUFFICES ASSUME NEW d \in Clients
             PROVE  /\ file'[d].full => file'[d].flags = {"SRD"}
                    /\ "SRD" \in file'[d].flags => file'[d].full \/ d \in forced'
                    /\ file'[d].flags = {} => d \in spoiled'
  BY DEF FileSound, CanRead
<1>1. CASE d = c
  BY <1>1 DEF SoundFile
<1>2. CASE d # c
  BY <1>2 DEF FileSound, CanRead
<1> QED
  BY <1>1, <1>2

(***************************************************************************)
(* Each of the calls keeps the flags and socket_buffer_full in agreement;  *)
(* no write finds a full file writable, and a read panics only on a file   *)
(* that request 217 declared readable.                                     *)
(***************************************************************************)
LEMMA FileCallSound ==
  ASSUME SocketTypeOK, FileSound, NEW c \in Clients, FileCall(c)
  PROVE  /\ FileSound' /\ (woken' => woken)
         /\ forced \subseteq forced' /\ (panic' => panic \/ forced # {})
<1> DEFINE Goal == /\ FileSound' /\ (woken' => woken)
                   /\ forced \subseteq forced' /\ (panic' => panic \/ forced # {})
<1> SUFFICES Goal
  OBVIOUS
<1>0. /\ file \in [Clients -> File] /\ file[c].flags \subseteq {"SRD", "SWR"}
      /\ file[c].full \in BOOLEAN
      /\ SoundFile(file[c], c \in forced, c \in spoiled)
  BY DEF SocketTypeOK, File, FileSound, SoundFile, CanRead
<1>1. CASE ReadPacket(c)
  <2>1. /\ \A d \in Clients \ {c} : file'[d] = file[d]
        /\ file'[c].full = FALSE
        /\ file'[c].flags = (file[c].flags \ {"SRD"}) \cup {"SWR"}
    BY <1>0, <1>1 DEF ReadPacket, TakePacket, File
  <2>2. SoundFile(file'[c], c \in forced', c \in spoiled')
    BY <2>1 DEF SoundFile
  <2> QED
    BY <1>1, <2>1, <2>2, SoundElsewhere DEF ReadPacket, history
<1>2. CASE ReadEmpty(c)
  <2>1. /\ \A d \in Clients \ {c} : file'[d] = file[d]
        /\ file'[c].full = file[c].full /\ file'[c].flags = {"SWR"}
    BY <1>0, <1>2 DEF ReadEmpty, File
  <2>2. ~file[c].full /\ c \in forced
    BY <1>0, <1>2 DEF ReadEmpty, SoundFile, CanRead
  <2>3. SoundFile(file'[c], c \in forced', c \in spoiled')
    BY <2>1, <2>2 DEF SoundFile
  <2> QED
    BY <1>2, <2>1, <2>2, <2>3, SoundElsewhere DEF ReadEmpty, history
<1>3. ASSUME NEW m \in Packets \cup {None}, sys_write(c, m) PROVE Goal
  <2>1. ~file[c].full
    BY <1>0, <1>3 DEF sys_write, CanWrite, SoundFile
  <2>2. /\ forced' = forced /\ spoiled \subseteq spoiled'
        /\ panic' = panic /\ (m = None => c \in spoiled')
    BY <1>3 DEF sys_write
  <2>3. woken' => woken
    BY <1>3, <2>1, Zenon DEF sys_write
  <2>4. CASE m = None
    <3>1. /\ \A d \in Clients \ {c} : file'[d] = file[d]
          /\ file'[c].full = file[c].full /\ file'[c].flags = {}
      <4>1. file' = [file EXCEPT ![c].flags = {}]
        BY <1>3, <2>1, <2>4, Zenon DEF sys_write
      <4> QED
        BY <1>0, <4>1 DEF File
    <3>2. SoundFile(file'[c], c \in forced', c \in spoiled')
      BY <2>1, <2>2, <2>4, <3>1 DEF SoundFile
    <3> QED
      BY <2>2, <2>3, <3>1, <3>2, SoundElsewhere
  <2>5. CASE m # None
    <3>1. /\ \A d \in Clients \ {c} : file'[d] = file[d]
          /\ file'[c].full = TRUE /\ file'[c].flags = {"SRD"}
      <4>1. file' = [file EXCEPT ![c].flags = {"SRD"}, ![c].full = TRUE, ![c].data = m]
        BY <1>3, <2>1, <2>5, Zenon DEF sys_write
      <4> QED
        BY <1>0, <4>1 DEF File
    <3>2. SoundFile(file'[c], c \in forced', c \in spoiled')
      BY <3>1 DEF SoundFile
    <3> QED
      BY <2>2, <2>3, <3>1, <3>2, SoundElsewhere
  <2> QED
    BY <2>4, <2>5
<1>4. ASSUME NEW a \in Action, SetAction(c, a) PROVE Goal
  <2>1. /\ \A d \in Clients \ {c} : file'[d] = file[d]
        /\ file'[c].full = file[c].full /\ file'[c].flags = file[c].flags
    BY <1>0, <1>4 DEF SetAction, File
  <2>2. forced' = forced /\ spoiled' = spoiled /\ panic' = panic /\ woken' = woken
    BY <1>4 DEF SetAction, history
  <2>3. SoundFile(file'[c], c \in forced', c \in spoiled')
    BY <1>0, <2>1, <2>2 DEF SoundFile
  <2> QED
    BY <2>1, <2>2, <2>3, SoundElsewhere
<1>5. CASE ResetWrite(c)
  <2>1. /\ \A d \in Clients \ {c} : file'[d] = file[d]
        /\ file'[c].full = FALSE /\ file'[c].flags = {"SWR"}
    BY <1>0, <1>5 DEF ResetWrite, NewFile, File
  <2>2. SoundFile(file'[c], c \in forced', c \in spoiled')
    BY <2>1 DEF SoundFile
  <2> QED
    BY <1>5, <2>1, <2>2, SoundElsewhere DEF ResetWrite, history
<1>6. CASE ResetRead(c)
  <2>1. /\ \A d \in Clients \ {c} : file'[d] = file[d]
        /\ file'[c].full = file[c].full /\ file'[c].flags = {"SRD"}
    BY <1>0, <1>6 DEF ResetRead, File
  <2>2. forced' = forced \cup {c} /\ spoiled' = spoiled /\ panic' = panic /\ woken' = woken
    BY <1>6 DEF ResetRead
  <2>3. SoundFile(file'[c], c \in forced', c \in spoiled')
    BY <2>1, <2>2 DEF SoundFile
  <2> QED
    BY <2>1, <2>2, <2>3, SoundElsewhere
<1>7. CASE SleepIfEmpty(c)
  <2>1. /\ \A d \in Clients \ {c} : file'[d] = file[d]
        /\ file'[c].full = file[c].full
        /\ file'[c].flags = file[c].flags \cup {IF file[c].full THEN "SRD" ELSE "SWR"}
    BY <1>0, <1>7 DEF SleepIfEmpty, File
  <2>2. forced' = forced /\ spoiled' = spoiled /\ panic' = panic /\ woken' = woken
    BY <1>7 DEF SleepIfEmpty, history
  <2>3. CASE file[c].full
    BY <1>0, <2>1, <2>2, <2>3, SoundElsewhere DEF SoundFile
  <2>4. CASE ~file[c].full
    BY <1>0, <2>1, <2>2, <2>4, SoundElsewhere DEF SoundFile
  <2> QED
    BY <2>3, <2>4
<1> QED
  BY <1>1, <1>2, <1>3, <1>4, <1>5, <1>6, <1>7 DEF FileCall

(* The calls on connections leave files and histories alone.               *)
LEMMA ConnectionFrame ==
  ASSUME SocketTypeOK, SocketNext, \A c \in Clients : ~FileCall(c)
  PROVE  UNCHANGED <<file, panic, history>>
<1>1. ASSUME NEW p \in Process, sys_socket(p) \/ sys_socket_shutdown(p)
      PROVE  UNCHANGED <<file, panic, history>>
  BY <1>1 DEF sys_socket, sys_socket_shutdown
<1>2. ASSUME NEW c \in Clients, sys_close(c) \/ ListenElsewhere(c) \/ sys_connect(c)
      PROVE  UNCHANGED <<file, panic, history>>
  BY <1>2 DEF sys_close, ListenElsewhere, sys_connect
<1>3. ASSUME NEW b, sys_listen(b) PROVE UNCHANGED <<file, panic, history>>
  BY <1>3 DEF sys_listen
<1>4. socket_set_gramado_port \/ sys_accept \/ AcceptFails => UNCHANGED <<file, panic, history>>
  BY DEF socket_set_gramado_port, sys_accept, AcceptFails
<1> QED
  BY <1>1, <1>2, <1>3, <1>4, NextCases

(* The inductive invariant of the three properties.                        *)
FileInv == FileSound /\ NeverWakes /\ PanicIsForced

(* It holds at first.                                                      *)
LEMMA FileInvInit == SocketInit => FileInv
<1> SUFFICES ASSUME SocketInit PROVE FileInv
  OBVIOUS
<1>1. \A c \in Clients : file[c].full = FALSE /\ file[c].flags = {"SWR"}
  BY DEF SocketInit, NewFile
<1> QED
  BY <1>1 DEF SocketInit, FileInv, FileSound, NeverWakes, PanicIsForced, CanRead

(* Every call keeps it.                                                    *)
LEMMA FileInvNext ==
  SocketTypeOK /\ FileInv /\ [SocketNext]_socketVars => FileInv'
<1> SUFFICES ASSUME SocketTypeOK, FileInv, [SocketNext]_socketVars PROVE FileInv'
  OBVIOUS
<1>1. ASSUME NEW c \in Clients, FileCall(c) PROVE FileInv'
  <2>1. FileSound /\ ~woken /\ (panic => forced # {})
    BY DEF FileInv, NeverWakes, PanicIsForced
  <2>2. /\ FileSound' /\ (woken' => woken)
        /\ forced \subseteq forced' /\ (panic' => panic \/ forced # {})
    BY <1>1, <2>1, FileCallSound
  <2> QED
    BY <2>1, <2>2 DEF FileInv, NeverWakes, PanicIsForced
<1>2. ASSUME UNCHANGED <<file, panic, history>> PROVE FileInv'
  BY <1>2 DEF FileInv, FileSound, NeverWakes, PanicIsForced, CanRead, history
<1> QED
  BY <1>1, <1>2, ConnectionFrame DEF socketVars

(* The three properties, from the invariant.                               *)
LEMMA FileInvCorrect == SocketSpec => []FileInv
  BY FileInvInit, FileInvNext, SocketTypeCorrect, PTL DEF SocketSpec

(***************************************************************************)
(* For any number of clients and any programs, socket_buffer_full and the  *)
(* flags __SRD and __SWR agree in every file.                              *)
(***************************************************************************)
THEOREM FileSoundCorrect == SocketSpec => []FileSound
<1>1. FileInv => FileSound
  BY DEF FileInv
<1> QED
  BY <1>1, FileInvCorrect, PTL

(***************************************************************************)
(* The branch of __write_imp that makes the thread in tid_waiting READY,   *)
(* whatever its state is, is never reached.                                *)
(***************************************************************************)
THEOREM NeverWakesCorrect == SocketSpec => []NeverWakes
<1>1. FileInv => NeverWakes
  BY DEF FileInv
<1> QED
  BY <1>1, FileInvCorrect, PTL

(***************************************************************************)
(* The panic of __read_imp on an empty socket needs request 217.           *)
(***************************************************************************)
THEOREM PanicIsForcedCorrect == SocketSpec => []PanicIsForced
<1>1. FileInv => PanicIsForced
  BY DEF FileInv
<1> QED
  BY <1>1, FileInvCorrect, PTL

-----------------------------------------------------------------------------
(* The list of pending clients.                                            *)

(***************************************************************************)
(* Since the last listen() the places were filled in the order 1, 2, ...,  *)
(* and place 0 last: unless the backlog is full, the taken places are      *)
(* exactly 1 .. pending_client_count.                                      *)
(***************************************************************************)
FillOrder ==
    /\ pending_client_count < backlog_max
    /\ \/ BacklogFull
       \/ \A i \in Slot : pending[i] # None => 1 <= i /\ i <= pending_client_count
    /\ \A i \in 1 .. pending_client_count : pending[i] # None

(* It holds of the empty list.                                             *)
LEMMA FillOrderInit == SocketInit => FillOrder
  BY SocketAssumption DEF SocketInit, FillOrder, Slot

(* connect() fills the next place, and finds it taken only in a full list. *)
LEMMA ConnectFills ==
  ASSUME SocketTypeOK, FillOrder, NEW c \in Clients, sys_connect(c)
  PROVE  FillOrder' /\ (pending[BacklogTail] # None => BacklogFull)
<1>0. /\ backlog_max \in 1 .. (PENDING_MAX - 1) /\ PENDING_MAX \in Nat
      /\ pending_client_count \in 0 .. (PENDING_MAX - 1)
      /\ pending \in [Slot -> Clients \cup {None}] /\ c # None
      /\ Slot = 0 .. (PENDING_MAX - 1) /\ pending_client_count < backlog_max
  BY SocketAssumption DEF SocketTypeOK, Slot, FillOrder
<1>1. /\ pending' = [pending EXCEPT ![BacklogTail] = c]
      /\ pending_client_count' = BacklogTail /\ backlog_max' = backlog_max
  BY DEF sys_connect
<1>2. CASE pending_client_count + 1 >= backlog_max
  <2>1. BacklogTail = 0
    BY <1>2 DEF BacklogTail
  <2>2. \A i \in 1 .. (backlog_max - 1) : pending[i] # None
    BY <1>0, <1>2 DEF FillOrder
  <2>3. \A i \in 0 .. (backlog_max - 1) : pending'[i] # None
    BY <1>0, <1>1, <2>1, <2>2
  <2>4. FillOrder'
    BY <1>0, <1>1, <2>1, <2>3 DEF FillOrder, BacklogFull
  <2>5. pending[0] # None => BacklogFull
    BY <1>0, <2>2 DEF BacklogFull
  <2> QED
    BY <2>1, <2>4, <2>5
<1>3. CASE pending_client_count + 1 < backlog_max
  <2>1. BacklogTail = pending_client_count + 1
    BY <1>0, <1>3 DEF BacklogTail
  <2>2. pending[BacklogTail] # None => BacklogFull
    BY <1>0, <1>3, <2>1 DEF FillOrder
  <2>3. \A i \in 1 .. pending_client_count' : pending'[i] # None
    BY <1>0, <1>1, <1>3, <2>1 DEF FillOrder
  <2>4. CASE BacklogFull
    <3>1. \A i \in 0 .. (backlog_max - 1) : pending'[i] # None
      BY <1>0, <1>1, <1>3, <2>1, <2>4 DEF BacklogFull
    <3> QED
      BY <1>0, <1>1, <1>3, <2>1, <2>2, <2>3, <3>1 DEF FillOrder, BacklogFull
  <2>5. CASE ~BacklogFull
    <3>1. ASSUME NEW i \in Slot, pending'[i] # None
          PROVE  1 <= i /\ i <= pending_client_count'
      BY <1>0, <1>1, <1>3, <2>1, <2>5, <3>1 DEF FillOrder
    <3>2. pending_client_count' < backlog_max'
      BY <1>1, <1>3, <2>1
    <3>3. FillOrder'
      BY <2>3, <3>1, <3>2 DEF FillOrder
    <3> QED
      BY <2>2, <3>3
  <2> QED
    BY <2>4, <2>5
<1> QED
  BY <1>0, <1>2, <1>3

(* The other calls either leave the list alone or empty it.                *)
LEMMA ListFrame ==
  ASSUME SocketTypeOK, [SocketNext]_socketVars, \A c \in Clients : ~sys_connect(c)
  PROVE  \/ UNCHANGED <<pending, pending_client_count, backlog_max>>
         \/ /\ pending' = [i \in Slot |-> None] /\ pending_client_count' = 0
            /\ backlog_max' \in 1 .. (PENDING_MAX - 1)
<1> DEFINE Same == UNCHANGED <<pending, pending_client_count, backlog_max>>
<1>0. CASE UNCHANGED socketVars
  BY <1>0 DEF socketVars, backlog
<1>1. ASSUME NEW c \in Clients, FileCall(c) PROVE Same
  BY <1>1, FileCallFrame DEF backlog
<1>2. ASSUME NEW p \in Process, sys_socket(p) \/ sys_socket_shutdown(p) PROVE Same
  BY <1>2 DEF sys_socket, sys_socket_shutdown, backlog
<1>3. ASSUME NEW c \in Clients, sys_close(c) \/ ListenElsewhere(c) PROVE Same
  BY <1>3 DEF sys_close, ListenElsewhere, backlog
<1>4. socket_set_gramado_port \/ sys_accept \/ AcceptFails => Same
  BY DEF socket_set_gramado_port, sys_accept, AcceptFails, backlog
<1>5. ASSUME NEW b \in 0 .. PENDING_MAX, sys_listen(b)
      PROVE  /\ pending' = [i \in Slot |-> None] /\ pending_client_count' = 0
             /\ backlog_max' \in 1 .. (PENDING_MAX - 1)
  BY <1>5, ClipRange DEF sys_listen
<1> QED
  BY <1>0, <1>1, <1>2, <1>3, <1>4, <1>5, NextCases

(* Every call keeps the order of filling.                                  *)
LEMMA FillOrderNext ==
  SocketTypeOK /\ FillOrder /\ [SocketNext]_socketVars => FillOrder'
<1> SUFFICES ASSUME SocketTypeOK, FillOrder, [SocketNext]_socketVars PROVE FillOrder'
  OBVIOUS
<1>1. ASSUME NEW c \in Clients, sys_connect(c) PROVE FillOrder'
  BY <1>1, ConnectFills
<1>2. CASE UNCHANGED <<pending, pending_client_count, backlog_max>>
  BY <1>2 DEF FillOrder, BacklogFull
<1>3. CASE /\ pending' = [i \in Slot |-> None] /\ pending_client_count' = 0
           /\ backlog_max' \in 1 .. (PENDING_MAX - 1)
  BY <1>3, SocketAssumption DEF FillOrder, Slot
<1> QED
  BY <1>1, <1>2, <1>3, ListFrame

(* A step from such a state forgets a client only as the property says.    *)
LEMMA ForgetStep ==
  ASSUME SocketTypeOK, FillOrder, [SocketNext]_socketVars,
         NEW c \in Clients, Listed(c), ~Listed(c)'
  PROVE  BacklogFull \/ \A i \in Slot : pending'[i] = None
<1>1. ASSUME NEW d \in Clients, sys_connect(d) PROVE BacklogFull
  <2>1. PICK i \in Slot : pending[i] = c
    BY DEF Listed
  <2>2. pending'[i] # c
    BY <2>1 DEF Listed
  <2>3. pending' = [pending EXCEPT ![BacklogTail] = d]
    BY <1>1 DEF sys_connect
  <2>4. i = BacklogTail /\ c # None
    BY <2>1, <2>2, <2>3, SocketAssumption DEF SocketTypeOK
  <2> QED
    BY <1>1, <2>1, <2>4, ConnectFills
<1>2. CASE UNCHANGED <<pending, pending_client_count, backlog_max>>
  BY <1>2 DEF Listed
<1>3. CASE pending' = [i \in Slot |-> None]
  BY <1>3
<1> QED
  BY <1>1, <1>2, <1>3, ListFrame

(***************************************************************************)
(* For any backlog, a pending client is forgotten only by listen() or by a *)
(* connect() that finds every place taken: the circular count never skips  *)
(* a free place.                                                           *)
(***************************************************************************)
THEOREM ForgetsCorrect == SocketSpec => ForgetsOnlyWhenFull
<1> DEFINE Step == \A c \in Clients :
             Listed(c) /\ ~Listed(c)' => BacklogFull \/ \A i \in Slot : pending'[i] = None
<1>1. SocketTypeOK /\ FillOrder /\ [SocketNext]_socketVars => [Step]_socketVars
  BY ForgetStep
<1>2. SocketSpec => []FillOrder
  BY FillOrderInit, FillOrderNext, SocketTypeCorrect, PTL DEF SocketSpec
<1> QED
  BY <1>1, <1>2, SocketTypeCorrect, PTL DEF SocketSpec, ForgetsOnlyWhenFull
=============================================================================
