-------------------------------- MODULE Disp ---------------------------------
(***************************************************************************)
(* The dispatcher side of ke/intake: the timer interrupt, the task switch  *)
(* of disp/ts.c with its ZeroGravity / go_ahead / dispatch_current loop,   *)
(* the first run of a STANDBY thread (disp/spawn.c), the dispatcher        *)
(* (disp/dispatch.c) and the ring 3 callback (disp/callback.c).            *)
(*                                                                         *)
(* Interrupts are off during a tick, so pc = "user" guards every other     *)
(* action; the loop of __task_switch is one action per label.              *)
(***************************************************************************)
EXTENDS Sched

locks == <<taskLocked, schedLocked>>

(* Mutant: the time left to wait runs below zero.                          *)
ElapseBelowZero == wake' = [t \in Tid |-> wake[t] - 1]

(* jiffies++ : one tick less to wait for every sleeper.                    *)
Elapse == wake' = [t \in Tid |-> IF wake[t] > 0 THEN wake[t] - 1 ELSE 0]

(* The end of tsTaskSwitch: an alertable thread enters its callback.       *)
DeliverCallback(f, t) ==
    IF "alertable" \in f[t]
    THEN [f EXCEPT ![t] = (@ \ {"alertable"}) \cup {"callback"}]
    ELSE f

(* The thread and process validation at the top of __task_switch.          *)
CurrentValid == current # None /\ Valid(current)

(* There is no valid current thread, or a callback runs on the context     *)
(* that has to be saved.                                                   *)
TickFails ==
    /\ pc = "user"
    /\ IF CurrentValid THEN ~taskLocked /\ "callback" \in flags[current] ELSE TRUE
    /\ pc' = "panic:ts"
    /\ UNCHANGED <<perThread, current, runningCount, currentq, evResponder,
                   foreground, ds, locks, posts>>

(* The task switch is locked: only the tick counters move.                 *)
TickLocked ==
    /\ pc = "user" /\ CurrentValid /\ taskLocked
    /\ Elapse
    /\ runningCount' = IF runningCount < QUANTUM_CEILING
                       THEN runningCount + 1 ELSE runningCount
    /\ flags' = DeliverCallback(flags, current)
    /\ UNCHANGED <<slot, state, waitReason, quantum, credits, sleepFor, saved,
                   flower, next, current, currentq, evResponder, foreground, ds,
                   locks, posts, pc>>

(* Mutant: the context of a callback is saved like any other.              *)
CanSaveInCallback == pc = "user" /\ CurrentValid /\ ~taskLocked

CanSave == pc = "user" /\ CurrentValid /\ ~taskLocked /\ "callback" \notin flags[current]

(* A deferred request is only looked at in the RUNNING state.              *)
Honoured(f) == state[current] = "RUNNING" /\ f \in flags[current]

(***************************************************************************)
(* Still in quantum: the same thread continues, after a yield or a sleep   *)
(* request has used up its quantum.  sleep_until makes it WAITING.         *)
(***************************************************************************)
TickKeep ==
    /\ CanSave /\ runningCount + 1 < quantum[current]
    /\ saved' = [saved EXCEPT ![current] = TRUE]
    /\ runningCount' = IF Honoured("yield") \/ Honoured("sleep")
                       THEN quantum[current] ELSE runningCount + 1
    /\ IF Honoured("sleep")
       THEN /\ state' = [state EXCEPT ![current] = "WAITING"]
            /\ wake' = [t \in Tid |->
                 IF t = current
                 THEN IF sleepFor[t] = 0 THEN 1 ELSE sleepFor[t]
                 ELSE IF wake[t] > 0 THEN wake[t] - 1 ELSE 0]
       ELSE Elapse /\ UNCHANGED state
    /\ LET served == IF state[current] = "RUNNING" THEN {"yield", "sleep"} ELSE {}
       IN  flags' = DeliverCallback(Drop(current, served), current)
    /\ UNCHANGED <<slot, waitReason, quantum, credits, sleepFor, flower, next,
                   current, currentq, evResponder, foreground, ds, locks, posts, pc>>

(* Mutant: the preempted thread stays RUNNING.                             *)
NotPreempted == state

(* MOVEMENT 3: the RUNNING thread becomes READY.                           *)
Preempted ==
    IF state[current] = "RUNNING" THEN [state EXCEPT ![current] = "READY"] ELSE state

(* End of quantum.                                                         *)
TickPreempt ==
    /\ CanSave /\ runningCount + 1 >= quantum[current]
    /\ Elapse
    /\ saved' = [saved EXCEPT ![current] = TRUE]
    /\ runningCount' = runningCount + 1
    /\ state' = Preempted
    /\ pc' = "standby"
    /\ UNCHANGED <<slot, waitReason, flags, quantum, credits, sleepFor, flower, next,
                   current, currentq, evResponder, foreground, ds, locks, posts>>

Standby == {t \in Tid : Valid(t) /\ state[t] = "STANDBY"}

(* schedi_check_for_standby: nothing to spawn, go on to select a thread.   *)
NoStandby ==
    /\ pc = "standby" /\ Standby = {}
    /\ pc' = "ZeroGravity"
    /\ UNCHANGED <<perThread, current, runningCount, currentq, evResponder,
                   foreground, ds, locks, posts>>

(* The first STANDBY thread in tid order.                                  *)
FirstStandby == Min(Standby)

(* __spawn_thread_by_tid_imp enters ring 3 in the new thread and does not  *)
(* return; currentq stays where it was.                                    *)
SpawnStandby ==
    /\ pc = "standby" /\ Standby # {}
    /\ LET t == FirstStandby IN
       /\ current' = t
       /\ IF t = INIT_TID \/ saved[t]
          THEN /\ pc' = "panic:spawn"
               /\ UNCHANGED <<perThread, runningCount, locks>>
          ELSE /\ flags' = Drop(t, {"yield", "sleep", "exit"})
               /\ runningCount' = 0
               /\ next' = [next EXCEPT ![t] = INIT_TID]
               /\ state' = [state EXCEPT ![t] = "RUNNING"]
               /\ taskLocked' = FALSE /\ schedLocked' = FALSE
               /\ pc' = "user"
               /\ UNCHANGED <<slot, waitReason, quantum, credits, sleepFor, wake,
                              saved, flower>>
    /\ UNCHANGED <<currentq, evResponder, foreground, ds, posts>>

(* Mutant: an old event counts as pending.                                 *)
ResponderKnown == evResponder # None /\ Valid(evResponder)

(* has_pending_event(ev_responder_thread)                                  *)
ResponderPending ==
    evResponder # None /\ Valid(evResponder) /\ "pending" \in flags[evResponder]

(* ZeroGravity, first choice: the event responder breaks the round and is  *)
(* the only thread of a new one.                                           *)
RunResponder ==
    /\ pc = "ZeroGravity" /\ ResponderPending
    /\ runningCount' = 0
    /\ quantum' = [quantum EXCEPT ![evResponder] = QUANTUM_MAX]
    /\ state' = [state EXCEPT ![evResponder] = "READY"]
    /\ flags' = Drop(evResponder, {"pending"})
    /\ currentq' = evResponder
    /\ next' = [next EXCEPT ![evResponder] = None]
    /\ pc' = "go_ahead"
    /\ UNCHANGED <<slot, waitReason, credits, sleepFor, wake, saved, flower, current,
                   evResponder, foreground, ds, locks, posts>>

(* ZeroGravity, second choice: the round is not over.                      *)
NextInRound ==
    /\ pc = "ZeroGravity" /\ ~ResponderPending /\ next[currentq] # None
    /\ currentq' = next[currentq]
    /\ pc' = "go_ahead"
    /\ UNCHANGED <<perThread, current, runningCount, evResponder, foreground, ds,
                   locks, posts>>

(* ZeroGravity, last choice: a new round.                                  *)
EndOfRound ==
    /\ pc = "ZeroGravity" /\ ~ResponderPending /\ next[currentq] = None
    /\ psScheduler
    /\ pc' = "dispatch_current"
    /\ UNCHANGED <<runningCount, evResponder, locks, posts>>

(* go_ahead: the selected thread is still valid and READY.                 *)
Select ==
    /\ pc = "go_ahead" /\ Valid(currentq) /\ state[currentq] = "READY"
    /\ current' = currentq
    /\ pc' = "dispatch_current"
    /\ UNCHANGED <<perThread, runningCount, currentq, evResponder, foreground, ds,
                   locks, posts>>

(* go_ahead: it is not; build a new round and jump back to ZeroGravity.    *)
Reselect ==
    /\ pc = "go_ahead" /\ ~(Valid(currentq) /\ state[currentq] = "READY")
    /\ psScheduler
    /\ pc' = "ZeroGravity"
    /\ UNCHANGED <<runningCount, evResponder, locks, posts>>

(***************************************************************************)
(* dispatch_current.  A target that is not READY is replaced by the init   *)
(* thread, but dispatcher() works on current_thread, which is not updated, *)
(* so the replacement only helps when current_thread is the init thread.   *)
(***************************************************************************)
Rescued ==
    IF state[current] # "READY" THEN [state EXCEPT ![INIT_TID] = "READY"] ELSE state

DispatchFails ==
    /\ pc = "dispatch_current"
    /\ IF CurrentValid THEN Rescued[current] # "READY" ELSE TRUE
    /\ pc' = IF CurrentValid THEN "panic:dispatcher" ELSE "panic:ts"
    /\ UNCHANGED <<perThread, current, runningCount, currentq, evResponder,
                   foreground, ds, locks, posts>>

DispatchCurrent ==
    /\ pc = "dispatch_current" /\ CurrentValid /\ Rescued[current] = "READY"
    /\ state' = [Rescued EXCEPT ![current] = "RUNNING"]
    /\ next' = IF state[current] # "READY" THEN [next EXCEPT ![INIT_TID] = None] ELSE next
    /\ runningCount' = 0
    /\ quantum' = [quantum EXCEPT ![current] =
                      IF @ > QUANTUM_MAX THEN QUANTUM_MAX
                      ELSE IF @ < QUANTUM_MIN THEN QUANTUM_MIN ELSE @]
    /\ saved' = [saved EXCEPT ![current] = FALSE]
    /\ flags' = DeliverCallback(flags, current)
    /\ pc' = "user"
    /\ UNCHANGED <<slot, waitReason, credits, sleepFor, wake, flower, current,
                   currentq, evResponder, foreground, ds, locks, posts>>

(* int 198: the callback of the current thread restores the context.       *)
callback_is_restored ==
    /\ "callback" \in Calls /\ current \in Callers
    /\ pc = "user" /\ CurrentValid
    /\ IF "callback" \in flags[current]
       THEN flags' = Drop(current, {"callback"}) /\ UNCHANGED pc
       ELSE pc' = "panic:callback" /\ UNCHANGED flags
    /\ UNCHANGED <<slot, state, waitReason, quantum, credits, sleepFor, wake, saved,
                   flower, next, current, runningCount, currentq, evResponder,
                   foreground, ds, locks, posts>>

Tick == TickFails \/ TickLocked \/ TickKeep \/ TickPreempt

(* The rest of a tick, from the end of a quantum to the next ring 3 entry. *)
Switch == NoStandby \/ SpawnStandby \/ RunResponder \/ NextInRound \/ EndOfRound
          \/ Select \/ Reselect \/ DispatchCurrent \/ DispatchFails
=============================================================================
