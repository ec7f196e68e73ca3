------------------------------- MODULE Intake --------------------------------
(***************************************************************************)
(* ke/intake as a whole: the timer tick of Disp, and the system calls and  *)
(* interrupt handlers that change the thread table between two ticks.      *)
(* System calls run with interrupts off, so each one is a single step of   *)
(* the current thread at pc = "user".  Calls names the services that the   *)
(* programs of an instance use.                                            *)
(***************************************************************************)
EXTENDS Disp

(* The current thread enters service c.                                    *)
Syscall(c) == c \in Calls /\ current \in Callers /\ pc = "user" /\ CurrentValid

(* Parts of the state that a system call leaves alone.                     *)
dispState == <<current, runningCount, currentq>>
timing == <<sleepFor, wake>>

-----------------------------------------------------------------------------
(* Deferred requests: a service sets a flag that a later tick or a later   *)
(* round acts on.                                                          *)

(* The services that only change flags of thread t.                        *)
SetFlags(f) ==
    /\ flags' = f
    /\ UNCHANGED <<slot, state, waitReason, quantum, credits, timing, saved, flower,
                   next, dispState, evResponder, foreground, ds, locks, posts, pc>>

(* Service 265.                                                            *)
sys_yield == Syscall("yield") /\ SetFlags(Raise(current, {"yield"}))

(* Service 266, ignored for 0 milliseconds.                                *)
sys_sleep ==
    /\ Syscall("sleep")
    /\ \E ms \in SleepMs \ {0} :
         /\ flags' = Raise(current, {"sleep"})
         /\ sleepFor' = [sleepFor EXCEPT ![current] = ms]
    /\ UNCHANGED <<slot, state, waitReason, quantum, credits, wake, saved, flower, next,
                   dispState, evResponder, foreground, ds, locks, posts, pc>>

(* SCI0_EXIT marks the flower thread of the caller's process.              *)
sci0_exit == Syscall("exit") /\ SetFlags(Raise(flower[current], {"exit"}))

(* Service 912, options 1000 and 1001.                                     *)
sys_msgctl ==
    /\ Syscall("block")
    /\ \/ SetFlags(Raise(current, {"block_on_empty"}))
       \/ SetFlags(Drop(current, {"block_on_empty"}))

(* A get on an empty queue that asks to be blocked: services 111 (after    *)
(* enough misses) and 120.  The queue itself is module MsgQueue.           *)
get_message_empty ==
    /\ Syscall("block") /\ "block_on_empty" \in flags[current]
    /\ SetFlags(Raise(current, {"block"}))

(* Service 911, options 8000 and 8001: no effect unless the caller is the  *)
(* display server.                                                         *)
sys_notify_event ==
    /\ Syscall("ds") /\ ds = current
    /\ \E t \in Tid : Valid(t) /\ (\/ SetFlags(Raise(t, {"ds_event"}))
                                   \/ SetFlags(Drop(t, {"ds_event"})))

(* Service 44001 with a callback handler installed by 44000.               *)
enter_alertable == Syscall("callback") /\ SetFlags(Raise(current, {"alertable"}))

-----------------------------------------------------------------------------
(* Waiting for a child: do_waitpid blocks the flower thread on the spot,   *)
(* and leaves wait_reason as it was.                                       *)
do_waitpid ==
    /\ Syscall("waitpid")
    /\ state' = [state EXCEPT ![flower[current]] = "BLOCKED"]
    /\ UNCHANGED <<slot, waitReason, flags, quantum, credits, timing, saved, flower,
                   next, dispState, evResponder, foreground, ds, locks, posts, pc>>

-----------------------------------------------------------------------------
(* Messages.                                                               *)

(* What a message does to its receiver.  The test for an interruptible     *)
(* wait is followed by state = READY in any case.                          *)
Posted(t, q) ==
    /\ state' = [state EXCEPT ![t] = "READY"]
    /\ flags' = Raise(t, {"pending"})
    /\ quantum' = [quantum EXCEPT ![t] = q]
    /\ evResponder' = t
    /\ UNCHANGED <<slot, waitReason, timing, saved, flower, next, dispState, foreground,
                   ds, locks, pc>>

(* An event may be posted: a thread calls a service or a device interrupts.*)
PostBudget == pc = "user" /\ posts < MaxPosts /\ posts' = posts + 1

(* ipc_post_message_to_tid2, service 112; the receiver must exist.         *)
ipc_post_message_to_tid2 ==
    /\ Syscall("post") /\ PostBudget
    /\ \E t \in Tid :
         IF Valid(t)
         THEN Posted(t, QUANTUM_MAX) /\ UNCHANGED credits
         ELSE /\ "stray_post" \in Calls
              /\ pc' = "panic:ipc"
              /\ UNCHANGED <<perThread, dispState, evResponder, foreground, ds, locks>>

(* Keyboard input for the foreground thread, dropped when there is none.   *)
ibroker_post_message_to_fg_thread ==
    /\ "input" \in Calls /\ PostBudget
    /\ foreground # None /\ Valid(foreground)
    /\ Posted(foreground, QUANTUM_MAX) /\ UNCHANGED credits

(* The close message of the kernel for the init thread.                    *)
keCloseInitProcess ==
    /\ "init_event" \in Calls /\ PostBudget
    /\ Posted(INIT_TID, QUANTUM_MAX) /\ UNCHANGED credits

(* Mouse and timer events for the display server; a mouse move doubles the *)
(* quantum.                                                                *)
ipc_post_message_to_ds ==
    /\ "ds" \in Calls /\ PostBudget
    /\ ds # None
    /\ IF Valid(ds)
       THEN /\ \E mousemove \in BOOLEAN :
                 Posted(ds, IF mousemove THEN 2 * QUANTUM_MAX ELSE QUANTUM_MAX)
            /\ credits' = [credits EXCEPT ![ds] = 2]
       ELSE /\ pc' = "panic:ipc"
            /\ UNCHANGED <<perThread, dispState, evResponder, foreground, ds, locks>>

(* A socket call gives a credit to its caller.                             *)
do_credits ==
    /\ Syscall("socket")
    /\ credits' = [credits EXCEPT ![current] = IF @ < 2 THEN @ + 1 ELSE 2]
    /\ UNCHANGED <<slot, state, waitReason, flags, quantum, timing, saved, flower, next,
                   dispState, evResponder, foreground, ds, locks, posts, pc>>

-----------------------------------------------------------------------------
(* Roles: the display server and the foreground thread.                    *)

dispsrv_setup_ds_info ==
    /\ Syscall("ds") /\ ds = None
    /\ ds' = flower[current]
    /\ UNCHANGED <<perThread, dispState, evResponder, foreground, locks, posts, pc>>

(* Service 10011.  It means to give credits too, but passes the tid where  *)
(* do_credits wants the structure, which then fails its validation.        *)
set_foreground ==
    /\ Syscall("focus")
    /\ \E t \in Tid :
         /\ Valid(t) /\ state[t] \in {"RUNNING", "READY", "STANDBY"}
         /\ quantum' = [quantum EXCEPT ![t] = QUANTUM_MAX + FOCUS_BONUS]
         /\ foreground' = t
    /\ UNCHANGED <<slot, state, waitReason, flags, credits, timing, saved, flower, next,
                   dispState, evResponder, ds, locks, posts, pc>>

(* Service 10012.                                                          *)
lose_foreground ==
    /\ Syscall("focus")
    /\ foreground # None /\ Valid(foreground)
    /\ state[foreground] \in {"RUNNING", "READY"}
    /\ foreground' = None
    /\ UNCHANGED <<perThread, dispState, evResponder, ds, locks, posts, pc>>

-----------------------------------------------------------------------------
(* The life of a thread.                                                   *)

FreeSlots == {t \in Tid : t >= USER_THRESHOLD_TID /\ slot[t] = "null"}

(* The first slot that create_thread finds empty.                          *)
FreeTid == Min(FreeSlots)

(***************************************************************************)
(* create_thread fills slot t.  A slot is never given back, so             *)
(* threads_counter is the number of slots in use, which stays below        *)
(* THREAD_COUNT_MAX because 1 < USER_THRESHOLD_TID: the panic on the       *)
(* counter cannot happen before the one on the slots.                      *)
(***************************************************************************)
Fill(t, st, q, isSaved, fl) ==
    /\ slot' = [slot EXCEPT ![t] = "used"]
    /\ quantum' = q
    /\ waitReason' = [waitReason EXCEPT ![t] = "NULL"]
    /\ flags' = [flags EXCEPT ![t] = {}]
    /\ credits' = [credits EXCEPT ![t] = 0]
    /\ sleepFor' = [sleepFor EXCEPT ![t] = 0]
    /\ wake' = [wake EXCEPT ![t] = 0]
    /\ saved' = [saved EXCEPT ![t] = isSaved]
    /\ flower' = [flower EXCEPT ![t] = fl]
    /\ next' = [next EXCEPT ![t] = None]
    /\ state' = st

(* No more slots.                                                          *)
NoSlot(c) ==
    /\ Syscall(c) /\ FreeSlots = {}
    /\ pc' = "panic:create_thread"
    /\ UNCHANGED <<perThread, dispState, evResponder, foreground, ds, locks, posts>>

create_thread_fails ==
    \/ NoSlot("create")
    \/ NoSlot("clone") /\ current = flower[current]

(* Service 72: a new thread of the caller's process, of the normal or the  *)
(* system type.                                                            *)
sys_create_thread ==
    /\ Syscall("create") /\ FreeSlots # {}
    /\ LET t == FreeTid IN
       \E q \in {QUANTUM_NORMAL_BALANCED, QUANTUM_SYSTEM_BALANCED} :
         Fill(t, [state EXCEPT ![t] = "INITIALIZED"], [quantum EXCEPT ![t] = q],
              FALSE, flower[current])
    /\ UNCHANGED <<dispState, evResponder, foreground, ds, locks, posts, pc>>

(* Service 94: STANDBY, whatever the state was.                            *)
core_start_thread ==
    /\ Syscall("create")
    /\ \E t \in Tid :
         /\ Valid(t) /\ ("restart" \in Calls \/ state[t] = "INITIALIZED")
         /\ state' = [state EXCEPT ![t] = "STANDBY"]
    /\ UNCHANGED <<slot, waitReason, flags, quantum, credits, timing, saved, flower,
                   next, dispState, evResponder, foreground, ds, locks, posts, pc>>

(* Mutant: the child inherits the saved flag of its parent.                *)
copy_process_keeps_saved ==
    /\ Syscall("clone") /\ FreeSlots # {} /\ current = flower[current]
    /\ LET t == FreeTid IN
       Fill(t, [state EXCEPT ![current] = "RUNNING", ![t] = "STANDBY"],
            [quantum EXCEPT ![current] = 1, ![t] = 1], saved[current], t)
    /\ UNCHANGED <<dispState, evResponder, foreground, ds, locks, posts, pc>>

(***************************************************************************)
(* copy_process: only the flower thread of a process may clone it.  It is  *)
(* RUNNING from then on.  The child starts STANDBY with the quantum of the *)
(* threshold level of the parent's type, like the parent itself.           *)
(***************************************************************************)
copy_process ==
    /\ Syscall("clone") /\ FreeSlots # {} /\ current = flower[current]
    /\ LET t == FreeTid IN
       \E q \in {QUANTUM_NORMAL_THRESHOLD, QUANTUM_SYSTEM_THRESHOLD} :
         Fill(t, [state EXCEPT ![current] = "RUNNING", ![t] = "STANDBY"],
              [quantum EXCEPT ![current] = q, ![t] = q], FALSE, t)
    /\ UNCHANGED <<dispState, evResponder, foreground, ds, locks, posts, pc>>

(* The image cannot be loaded or is not an ELF file: the child process and *)
(* its thread, BLOCKED, stay behind.                                       *)
copy_process_fails ==
    /\ Syscall("clone") /\ "bad_image" \in Calls
    /\ FreeSlots # {} /\ current = flower[current]
    /\ LET t == FreeTid
           q == IF quantum[current] > QUANTUM_MAX THEN QUANTUM_MAX ELSE quantum[current]
       IN  Fill(t, [state EXCEPT ![current] = "RUNNING", ![t] = "BLOCKED"],
                [quantum EXCEPT ![t] = q], saved[current], t)
    /\ UNCHANGED <<dispState, evResponder, foreground, ds, locks, posts, pc>>

(* Another thread of the process calls it.                                 *)
copy_process_mismatch ==
    /\ Syscall("clone") /\ current # flower[current]
    /\ state' = [state EXCEPT ![flower[current]] = "RUNNING"]
    /\ pc' = "panic:copy_process"
    /\ UNCHANGED <<slot, waitReason, flags, quantum, credits, timing, saved, flower,
                   next, dispState, evResponder, foreground, ds, locks, posts>>

-----------------------------------------------------------------------------
(* Services 640 to 643, for the init thread only.                          *)
set_locks ==
    /\ pc = "user" /\ current = INIT_TID
    /\ \/ "lock_ts" \in Calls /\ taskLocked' \in BOOLEAN /\ UNCHANGED schedLocked
       \/ "lock_sched" \in Calls /\ schedLocked' \in BOOLEAN /\ UNCHANGED taskLocked
       \/ schedLocked /\ schedLocked' = FALSE /\ UNCHANGED taskLocked
    /\ UNCHANGED <<perThread, dispState, evResponder, foreground, ds, posts, pc>>

(* die() never returns.                                                    *)
Halted == pc \in PanicPc /\ UNCHANGED vars

Post == ipc_post_message_to_tid2 \/ ibroker_post_message_to_fg_thread
        \/ keCloseInitProcess \/ ipc_post_message_to_ds

Service == sys_yield \/ sys_sleep \/ sci0_exit \/ sys_msgctl \/ get_message_empty
           \/ sys_notify_event \/ enter_alertable \/ callback_is_restored
           \/ do_waitpid \/ do_credits \/ dispsrv_setup_ds_info \/ set_foreground
           \/ lose_foreground \/ create_thread_fails \/ sys_create_thread
           \/ core_start_thread \/ copy_process \/ copy_process_fails
           \/ copy_process_mismatch \/ set_locks

Next == Tick \/ Switch \/ Post \/ Service \/ Halted

(* The timer interrupts for ever, and interrupts are off during a switch.  *)
Spec == Init /\ [][Next]_vars /\ WF_vars(Tick) /\ WF_vars(Switch)

-----------------------------------------------------------------------------
TypeOK ==
    /\ slot \in [Tid -> {"null", "used", "cleared"}]
    /\ state \in [Tid -> ThreadState]
    /\ waitReason \in [Tid -> {"NULL", "LOOP"}]
    /\ flags \in [Tid -> SUBSET Flag]
    /\ quantum \in [Tid -> 1 .. QUANTUM_CEILING]
    /\ credits \in [Tid -> 0 .. 2]
    /\ sleepFor \in [Tid -> SleepMs \cup {0}]
    /\ wake \in [Tid -> Nat]
    /\ saved \in [Tid -> BOOLEAN]
    /\ flower \in [Tid -> Tid]
    /\ next \in [Tid -> Tid \cup {None}]
    /\ current \in Tid \cup {None}
    /\ runningCount \in Nat
    /\ currentq \in Tid
    /\ evResponder \in Tid \cup {None}
    /\ foreground \in Tid \cup {None}
    /\ ds \in Tid \cup {None}
    /\ taskLocked \in BOOLEAN /\ schedLocked \in BOOLEAN
    /\ posts \in 0 .. MaxPosts
    /\ pc \in Label \cup PanicPc

(***************************************************************************)
(* The switch dies (the panics of ts.c, spawn.c and dispatch.c) only when  *)
(* init has locked the scheduler, when a tick interrupts a callback, or    *)
(* when a thread that has already run was started again; dispatcher()      *)
(* always finds current_thread READY, although ts.c replaces a target that *)
(* is not READY without telling the dispatcher.                            *)
(***************************************************************************)
PanicCause ==
    /\ pc = "panic:ts" => schedLocked \/ (CurrentValid /\ "callback" \in flags[current])
    /\ pc = "panic:spawn" => "restart" \in Calls
    /\ pc # "panic:dispatcher"

(***************************************************************************)
(* One processor: a thread in the RUNNING state is the current thread, and *)
(* no thread is RUNNING while the switch chooses one.                      *)
(***************************************************************************)
OneRunning ==
    pc \notin PanicPc =>
      \A t \in Tid : state[t] = "RUNNING" => t = current /\ pc = "user"

(***************************************************************************)
(* The walk along the links from currentq ends: it stays within a set of   *)
(* threads that exist and have started, and goes to ever larger tids,      *)
(* although links of threads outside the round are stale and a spawned     *)
(* thread links back to the init thread.  A thread of the round that is    *)
(* started again would be spawned and link back too.                       *)
(***************************************************************************)
InRound(S) ==
    /\ currentq \in S
    /\ \A t \in S :
         /\ Valid(t) /\ state[t] \notin {"INITIALIZED", "STANDBY"}
         /\ next[t] # None => next[t] \in S /\ next[t] > t

RoundEnds ==
    "restart" \notin Calls /\ pc \notin PanicPc => \E S \in SUBSET Tid : InRound(S)

(***************************************************************************)
(* A thread that sleeps or is blocked gets the processor back only when    *)
(* its time has come, by a message, or by an event of the display server   *)
(* if it has waited for messages since the last event that woke it (it     *)
(* need not wait for them any more: see Wakes).  The exceptions are the    *)
(* init thread, which every new round makes READY, and a thread that has   *)
(* put itself to sleep in waitpid and clones its process before the tick   *)
(* that takes it off the processor.                                        *)
(***************************************************************************)
Asleep(t) == state[t] = "BLOCKED" \/ (state[t] = "WAITING" /\ wake[t] > 0)

WakeCause(t) ==
    \/ posts' > posts /\ evResponder' = t
    \/ "pending" \in flags[t]
    \/ "ds_event" \in flags[t] /\ waitReason[t] = "LOOP"
    \/ t = current /\ slot' # slot

NoSpuriousWake ==
    [][pc' \notin PanicPc =>
         \A t \in Tid \ {INIT_TID} :
           Asleep(t) /\ state'[t] \in {"READY", "RUNNING"} => WakeCause(t)]_vars

(* Keyboard input never goes to a thread that has exited.                  *)
FocusAlive == foreground # None => Valid(foreground) /\ state[foreground] # "ZOMBIE"

(***************************************************************************)
(* The context that a callback interrupts is kept in one set of global     *)
(* variables: only the current thread may be in a callback.                *)
(***************************************************************************)
CallbackOnCurrent ==
    pc \notin PanicPc => \A t \in Tid : "callback" \in flags[t] => t = current
=============================================================================
