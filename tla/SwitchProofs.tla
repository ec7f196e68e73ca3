---------------------------- MODULE SwitchProofs -----------------------------
(***************************************************************************)
(* The safety of the switch, for every number of threads and every use of  *)
(* the services.                                                           *)
(***************************************************************************)
EXTENDS IntakeProofs

(* Slot t was empty and holds a new thread that was never saved, or the    *)
(* BLOCKED thread of a failed clone.                                       *)
Filled(t) ==
    /\ slot[t] = "null" /\ slot'[t] = "used"
    /\ state'[t] = "BLOCKED" \/ (state'[t] \in {"INITIALIZED", "STANDBY"} /\ ~saved'[t])

(* Thread t kept its slot, its link and its saved flag, and its state      *)
(* changed, if at all, by one of the moves of the services.                *)
Moved(t) ==
    /\ slot'[t] = slot[t] /\ saved'[t] = saved[t] /\ next'[t] = next[t]
    /\ \/ state'[t] = state[t]
       \/ state'[t] = "BLOCKED"
       \/ state'[t] = "RUNNING" /\ t = current /\ slot' # slot
       \/ state'[t] = "READY" /\ posts' > posts /\ evResponder' = t
       \/ state'[t] = "STANDBY" /\ Valid(t)
          /\ (state[t] = "INITIALIZED" \/ "restart" \in Calls)

(* All that a system call or an interrupt handler does to the thread table *)
(* between two ticks.                                                      *)
Outside ==
    /\ pc = "user" /\ pc' = "user"
    /\ current' = current /\ currentq' = currentq
    /\ \A t \in Tid : Filled(t) \/ Moved(t)

(* Filling a slot for a new thread is an Outside step.                     *)
LEMMA FillOutside ==
    ASSUME TypeOK, pc = "user", current \in Tid, FreeSlots # {},
           NEW q, NEW isSaved, NEW fl, NEW st \in [Tid -> ThreadState],
           Fill(FreeTid, st, q, isSaved, fl),
           UNCHANGED <<dispState, evResponder, foreground, ds, locks, posts, pc>>,
           st[FreeTid] = "BLOCKED"
             \/ (st[FreeTid] \in {"INITIALIZED", "STANDBY"} /\ isSaved = FALSE),
           \A t \in Tid \ {FreeTid} :
             st[t] = state[t] \/ (st[t] = "RUNNING" /\ t = current)
    PROVE  Outside
<1>1. FreeTid \in Tid /\ slot[FreeTid] = "null"
  BY FreeTidIn DEF FreeSlots
<1>2. slot' = [slot EXCEPT ![FreeTid] = "used"] /\ state' = st
  BY DEF Fill
<1>3. saved' = [saved EXCEPT ![FreeTid] = isSaved] /\ next' = [next EXCEPT ![FreeTid] = None]
  BY DEF Fill
<1>4. Filled(FreeTid)
  BY <1>1, <1>2, <1>3 DEF Filled, TypeOK
<1>5. ASSUME NEW t \in Tid \ {FreeTid} PROVE Moved(t)
  <2>1. slot' # slot
    BY <1>1, <1>2 DEF TypeOK
  <2> QED BY <1>1, <1>2, <1>3, <2>1 DEF Moved, TypeOK
<1>6. QED
  BY <1>4, <1>5 DEF Outside, dispState

(* Posting a message is an Outside step.                                   *)
LEMMA PostOutside == TypeOK /\ Post /\ pc' \notin PanicPc => Outside
<1> SUFFICES ASSUME TypeOK, Post, pc' \notin PanicPc PROVE Outside
  OBVIOUS
<1>1. PostBudget /\ posts' > posts
  <2>1. PostBudget
    BY DEF Post, ipc_post_message_to_tid2, ibroker_post_message_to_fg_thread,
           keCloseInitProcess, ipc_post_message_to_ds
  <2>2. QED
    BY <2>1 DEF PostBudget, TypeOK
<1>2. PICK t \in Tid, q \in Nat : Posted(t, q)
  <2>1. QUANTUM_MAX \in Nat /\ 2 * QUANTUM_MAX \in Nat
    BY QuantumLevels
  <2>2. QED
    BY <2>1, TidNat DEF Post, ipc_post_message_to_tid2,
         ibroker_post_message_to_fg_thread, keCloseInitProcess,
         ipc_post_message_to_ds, TypeOK, PanicPc
<1>3. /\ state' = [state EXCEPT ![t] = "READY"] /\ evResponder' = t
      /\ UNCHANGED <<slot, saved, next, current, currentq, pc>>
  BY <1>2 DEF Posted, dispState
<1>4. ASSUME NEW u \in Tid PROVE Moved(u)
  BY <1>1, <1>3 DEF Moved, TypeOK
<1>5. QED
  BY <1>1, <1>3, <1>4 DEF Outside, PostBudget

(* Every system call that does not panic is an Outside step.               *)
LEMMA ServiceOutside == TypeOK /\ Service /\ pc' \notin PanicPc => Outside
<1> SUFFICES ASSUME TypeOK, Service, pc' \notin PanicPc PROVE Outside
  OBVIOUS
<1> USE TidNat DEF Syscall, CurrentValid, perThread, locks, dispState, timing
<1>1. ASSUME pc = "user", UNCHANGED <<slot, state, saved, next, current, currentq, pc>>
      PROVE  Outside
  BY <1>1 DEF Outside, Moved
<1>2. CASE sys_yield \/ sci0_exit \/ sys_msgctl \/ get_message_empty
             \/ sys_notify_event \/ enter_alertable
  BY <1>1, <1>2 DEF sys_yield, sci0_exit, sys_msgctl, get_message_empty,
       sys_notify_event, enter_alertable, SetFlags
<1>3. CASE sys_sleep \/ do_credits \/ dispsrv_setup_ds_info \/ set_foreground
             \/ lose_foreground \/ set_locks
  BY <1>1, <1>3 DEF sys_sleep, do_credits, dispsrv_setup_ds_info, set_foreground,
       lose_foreground, set_locks
<1>4. CASE callback_is_restored
  BY <1>1, <1>4 DEF callback_is_restored, PanicPc
<1>5. CASE do_waitpid
  <2>1. ASSUME NEW t \in Tid PROVE Moved(t)
    BY <1>5 DEF do_waitpid, Moved, TypeOK
  <2>2. QED
    BY <1>5, <2>1 DEF do_waitpid, Outside
<1>6. CASE core_start_thread
  <2>1. PICK t \in Tid : /\ Valid(t) /\ ("restart" \in Calls \/ state[t] = "INITIALIZED")
                         /\ state' = [state EXCEPT ![t] = "STANDBY"]
    BY <1>6 DEF core_start_thread
  <2>2. ASSUME NEW u \in Tid PROVE Moved(u)
    BY <1>6, <2>1 DEF core_start_thread, Moved, TypeOK
  <2>3. QED
    BY <1>6, <2>2 DEF core_start_thread, Outside
<1>7. CASE create_thread_fails \/ copy_process_mismatch
  BY <1>7 DEF create_thread_fails, NoSlot, copy_process_mismatch, PanicPc
<1>8. CASE sys_create_thread
  <2> DEFINE st == [state EXCEPT ![FreeTid] = "INITIALIZED"]
  <2>1. PICK q : Fill(FreeTid, st, q, FALSE, flower[current])
    BY <1>8 DEF sys_create_thread
  <2>2. FreeTid \in Tid /\ current \in Tid /\ FreeSlots # {} /\ pc = "user"
    BY <1>8, FreeTidIn DEF sys_create_thread, FreeSlots, TypeOK
  <2>3. st \in [Tid -> ThreadState]
    BY <2>2 DEF TypeOK, ThreadState
  <2>4. /\ st[FreeTid] = "INITIALIZED"
        /\ \A t \in Tid \ {FreeTid} : st[t] = state[t]
    BY <2>2 DEF TypeOK
  <2>5. UNCHANGED <<dispState, evResponder, foreground, ds, locks, posts, pc>>
    BY <1>8 DEF sys_create_thread
  <2> HIDE DEF st
  <2>6. QED
    BY <2>1, <2>2, <2>3, <2>4, <2>5, FillOutside
<1>9. CASE copy_process
  <2> DEFINE st == [state EXCEPT ![current] = "RUNNING", ![FreeTid] = "STANDBY"]
  <2>1. PICK q : Fill(FreeTid, st, q, FALSE, FreeTid)
    BY <1>9 DEF copy_process
  <2>2. FreeTid \in Tid /\ current \in Tid /\ FreeSlots # {} /\ pc = "user"
    BY <1>9, FreeTidIn DEF copy_process, FreeSlots, TypeOK
  <2>3. st \in [Tid -> ThreadState]
    BY <2>2 DEF TypeOK, ThreadState
  <2>4. /\ st[FreeTid] = "STANDBY"
        /\ \A t \in Tid \ {FreeTid} : st[t] = state[t] \/ (st[t] = "RUNNING" /\ t = current)
    BY <2>2 DEF TypeOK
  <2>5. UNCHANGED <<dispState, evResponder, foreground, ds, locks, posts, pc>>
    BY <1>9 DEF copy_process
  <2> HIDE DEF st
  <2>6. QED
    BY <2>1, <2>2, <2>3, <2>4, <2>5, FillOutside
<1>10. CASE copy_process_fails
  <2> DEFINE st == [state EXCEPT ![current] = "RUNNING", ![FreeTid] = "BLOCKED"]
  <2>1. PICK q, isSaved : Fill(FreeTid, st, q, isSaved, FreeTid)
    BY <1>10 DEF copy_process_fails
  <2>2. FreeTid \in Tid /\ current \in Tid /\ FreeSlots # {} /\ pc = "user"
    BY <1>10, FreeTidIn DEF copy_process_fails, FreeSlots, TypeOK
  <2>3. st \in [Tid -> ThreadState]
    BY <2>2 DEF TypeOK, ThreadState
  <2>4. /\ st[FreeTid] = "BLOCKED"
        /\ \A t \in Tid \ {FreeTid} : st[t] = state[t] \/ (st[t] = "RUNNING" /\ t = current)
    BY <2>2 DEF TypeOK
  <2>5. UNCHANGED <<dispState, evResponder, foreground, ds, locks, posts, pc>>
    BY <1>10 DEF copy_process_fails
  <2> HIDE DEF st
  <2>6. QED
    BY <2>1, <2>2, <2>3, <2>4, <2>5, FillOutside
<1>11. QED
  BY <1>2, <1>3, <1>4, <1>5, <1>6, <1>7, <1>8, <1>9, <1>10 DEF Service

-----------------------------------------------------------------------------
(* A pass of the scheduler leaves a thread in the RUNNING state only if it *)
(* was there, and the init thread READY and valid.                         *)
LEMMA RoundStates ==
    ASSUME TypeOK, psScheduler
    PROVE  /\ \A t \in Tid : state'[t] = "RUNNING" => state[t] = "RUNNING"
           /\ \A t \in Tid : state'[t] \in {"INITIALIZED", "STANDBY"} => state'[t] = state[t]
           /\ slot'[INIT_TID] = slot[INIT_TID] /\ saved' = saved
           /\ \A t \in Tid : slot'[t] = "used" => slot[t] = "used"
           /\ schedLocked => current' = None
           /\ ~schedLocked => current' = INIT_TID /\ state'[INIT_TID] = "READY"
<1> USE TidNat DEF psScheduler, perThread
<1>1. CASE schedLocked
  BY <1>1
<1>2. CASE ~schedLocked
  <2>1. /\ state' = [t \in Tid |-> NewState(t)]
        /\ slot' = [t \in Tid |-> IF Reaped(t) THEN "cleared" ELSE slot[t]]
        /\ saved' = saved /\ current' = INIT_TID
    BY <1>2 DEF scheduler_rr
  <2>2. \A t \in Tid : NewState(t) = state[t]
                         \/ NewState(t) \in {"READY", "BLOCKED", "ZOMBIE"}
    BY DEF NewState
  <2>3. NewState(INIT_TID) = "READY" /\ ~Reaped(INIT_TID)
    BY DEF NewState, Reaped, WakeDue, Regular, DsEventDue, BlockDue, ExitDue, Scanned
  <2>4. QED
    BY <1>2, <2>1, <2>2, <2>3
<1>3. QED
  BY <1>1, <1>2

(* A tick or a step of the switch preserves OneRunning.                    *)
LEMMA SwitchOneRunning == TypeOK /\ OneRunning /\ (Tick \/ Switch) => OneRunning'
<1> SUFFICES ASSUME TypeOK, OneRunning, Tick \/ Switch, pc' \notin PanicPc,
                    NEW t \in Tid, state'[t] = "RUNNING"
             PROVE  t = current' /\ pc' = "user"
  BY DEF OneRunning
<1> USE TidNat DEF locks, perThread, PanicPc
<1>1. CASE TickFails \/ DispatchFails
  BY <1>1 DEF TickFails, DispatchFails
<1>2. CASE TickLocked
  BY <1>2 DEF TickLocked, OneRunning
<1>3. CASE TickKeep
  BY <1>3 DEF TickKeep, CanSave, OneRunning, TypeOK
<1>4. CASE TickPreempt
  BY <1>4 DEF TickPreempt, CanSave, Preempted, OneRunning, TypeOK
<1>5. CASE NoStandby \/ NextInRound \/ Select
  BY <1>5 DEF NoStandby, NextInRound, Select, OneRunning
<1>6. CASE SpawnStandby
  BY <1>6 DEF SpawnStandby, OneRunning, TypeOK
<1>7. CASE RunResponder
  BY <1>7 DEF RunResponder, OneRunning, TypeOK
<1>8. CASE EndOfRound
  BY <1>8, RoundStates DEF EndOfRound, OneRunning
<1>9. CASE Reselect
  BY <1>9, RoundStates DEF Reselect, OneRunning
<1>10. CASE DispatchCurrent
  BY <1>10 DEF DispatchCurrent, Rescued, OneRunning, TypeOK
<1>11. QED
  BY <1>1, <1>2, <1>3, <1>4, <1>5, <1>6, <1>7, <1>8, <1>9, <1>10 DEF Tick, Switch

(* Every step preserves OneRunning.                                        *)
LEMMA OneRunningStep == TypeOK /\ OneRunning /\ [Next]_vars => OneRunning'
<1> SUFFICES ASSUME TypeOK, OneRunning, [Next]_vars PROVE OneRunning'
  OBVIOUS
<1>1. CASE UNCHANGED vars
  BY <1>1 DEF vars, perThread, globals, OneRunning
<1>2. ASSUME Outside PROVE OneRunning'
  BY <1>2 DEF Outside, Filled, Moved, OneRunning, PanicPc
<1>3. CASE Post \/ Service
  <2>1. CASE pc' \in PanicPc
    BY <2>1 DEF OneRunning
  <2>2. CASE pc' \notin PanicPc
    BY <1>2, <1>3, <2>2, PostOutside, ServiceOutside
  <2>3. QED
    BY <2>1, <2>2
<1>4. QED
  BY <1>1, <1>3, SwitchOneRunning DEF Next, Halted

(* One processor, one RUNNING thread: the current one.                     *)
THEOREM OneRunningCorrect == Spec => []OneRunning
<1>1. Init => OneRunning
  BY DEF Init, OneRunning
<1>2. QED
  BY <1>1, OneRunningStep, TypeCorrect, PTL DEF Spec

-----------------------------------------------------------------------------
(* A thread that was created or started and has not run yet.               *)
Unstarted(t) == Valid(t) /\ state[t] \in {"INITIALIZED", "STANDBY"}

(***************************************************************************)
(* Why the switch does not panic.  A thread is the current one as long as  *)
(* it may be interrupted; what the switch is about to dispatch is READY,   *)
(* or nothing because the scheduler is locked; and unless programs start   *)
(* threads twice, a thread that has not run yet was never saved.           *)
(***************************************************************************)
SwitchInv ==
    /\ Valid(INIT_TID)
    /\ pc \in {"user", "standby"} => CurrentValid
    /\ pc = "dispatch_current" =>
         (current = None /\ schedLocked) \/ (CurrentValid /\ state[current] = "READY")
    /\ "restart" \notin Calls =>
         /\ \A t \in Tid : Unstarted(t) => ~saved[t] /\ t # INIT_TID
         /\ pc = "user" => ~Unstarted(current)
    /\ PanicCause

(* SwitchInv holds when init enters ring 3.                                *)
LEMMA InitSwitchInv == Init => SwitchInv
  BY TidNat DEF Init, SwitchInv, Unstarted, Valid, CurrentValid, PanicCause, INIT_TID, None

(* What happens between two ticks preserves SwitchInv.                     *)
LEMMA OutsideSwitchInv == TypeOK /\ SwitchInv /\ Outside => SwitchInv'
<1> SUFFICES ASSUME TypeOK, SwitchInv, Outside PROVE SwitchInv'
  OBVIOUS
<1> USE TidNat DEF Valid
<1>1. current \in Tid /\ slot[current] = "used"
  BY DEF SwitchInv, Outside, CurrentValid, TypeOK
<1>2. ASSUME NEW t \in Tid, slot[t] = "used" PROVE slot'[t] = "used" /\ Moved(t)
  BY <1>2 DEF Outside, Filled, Moved
<1>3. slot'[INIT_TID] = "used" /\ slot'[current'] = "used" /\ current' # None
  BY <1>1, <1>2 DEF SwitchInv, Outside
<1>4. ASSUME "restart" \notin Calls
      PROVE  /\ \A t \in Tid : Unstarted(t)' => ~saved'[t] /\ t # INIT_TID
             /\ ~Unstarted(current)'
  <2>1. ASSUME NEW t \in Tid, Unstarted(t)' PROVE ~saved'[t] /\ t # INIT_TID
    <3>1. CASE Filled(t)
      BY <2>1, <3>1 DEF Filled, Unstarted, SwitchInv
    <3>2. CASE Moved(t)
      <4>1. Unstarted(t) /\ saved'[t] = saved[t]
        BY <1>4, <2>1, <3>2 DEF Moved, Unstarted
      <4>2. QED
        BY <1>4, <4>1 DEF SwitchInv
    <3>3. QED
      BY <3>1, <3>2 DEF Outside
  <2>2. ~Unstarted(current)'
    <3>1. Moved(current) /\ ~Unstarted(current) /\ current' = current
      BY <1>1, <1>2, <1>4 DEF SwitchInv, Outside
    <3>2. QED
      BY <1>4, <3>1 DEF Moved, Unstarted
  <2>3. QED
    BY <2>1, <2>2
<1>5. PanicCause'
  BY DEF Outside, PanicCause
<1>6. QED
  BY <1>3, <1>4, <1>5 DEF SwitchInv, Outside, CurrentValid

(* A tick preserves SwitchInv.                                             *)
LEMMA TickSwitchInv == TypeOK /\ SwitchInv /\ Tick => SwitchInv'
<1> SUFFICES ASSUME TypeOK, SwitchInv, Tick PROVE SwitchInv'
  OBVIOUS
<1> USE TidNat DEF Valid, locks, perThread, CurrentValid
<1>1. pc = "user" /\ current \in Tid /\ slot[current] = "used"
  BY DEF Tick, TickFails, TickLocked, TickKeep, TickPreempt, CanSave, SwitchInv, TypeOK
<1>2. CASE TickFails
  BY <1>1, <1>2 DEF TickFails, SwitchInv, PanicCause, Unstarted
<1>3. CASE TickLocked
  BY <1>1, <1>3 DEF TickLocked, SwitchInv, PanicCause, Unstarted
<1>4. ASSUME saved' = [saved EXCEPT ![current] = TRUE], UNCHANGED <<slot, current>>,
             \A t \in Tid : state'[t] = state[t]
                              \/ (t = current /\ state'[t] \in {"WAITING", "READY"}),
             "restart" \notin Calls
      PROVE  /\ \A t \in Tid : Unstarted(t)' => ~saved'[t] /\ t # INIT_TID
             /\ ~Unstarted(current)'
  <2>1. ~Unstarted(current)
    BY <1>1, <1>4 DEF SwitchInv
  <2>2. ASSUME NEW t \in Tid, Unstarted(t)' PROVE t # current /\ Unstarted(t)
    BY <1>4, <2>1, <2>2 DEF Unstarted
  <2>3. ASSUME NEW t \in Tid, t # current PROVE saved'[t] = saved[t]
    BY <1>4, <2>3 DEF TypeOK
  <2>4. ~Unstarted(current)'
    BY <1>1, <1>4, <2>1 DEF Unstarted
  <2>5. QED
    BY <1>4, <2>2, <2>3, <2>4 DEF SwitchInv
<1>5. CASE TickKeep
  <2>1. \A t \in Tid : state'[t] = state[t]
                         \/ (t = current /\ state'[t] \in {"WAITING", "READY"})
    BY <1>5 DEF TickKeep, TypeOK
  <2>2. saved' = [saved EXCEPT ![current] = TRUE] /\ UNCHANGED <<slot, current, pc>>
    BY <1>5 DEF TickKeep
  <2>3. QED
    BY <1>1, <1>4, <2>1, <2>2 DEF SwitchInv, PanicCause
<1>6. CASE TickPreempt
  <2>1. \A t \in Tid : state'[t] = state[t]
                         \/ (t = current /\ state'[t] \in {"WAITING", "READY"})
    BY <1>6 DEF TickPreempt, Preempted, TypeOK
  <2>2. /\ saved' = [saved EXCEPT ![current] = TRUE] /\ UNCHANGED <<slot, current>>
        /\ pc' = "standby"
    BY <1>6 DEF TickPreempt
  <2>3. QED
    BY <1>1, <1>4, <2>1, <2>2 DEF SwitchInv, PanicCause
<1>7. QED
  BY <1>2, <1>3, <1>5, <1>6 DEF Tick

(* A pass of the scheduler keeps what SwitchInv says of unstarted threads. *)
LEMMA RoundUnstarted ==
    ASSUME TypeOK, SwitchInv, psScheduler, "restart" \notin Calls
    PROVE  \A t \in Tid : Unstarted(t)' => ~saved'[t] /\ t # INIT_TID
<1>1. ASSUME NEW t \in Tid, Unstarted(t)' PROVE Unstarted(t) /\ saved'[t] = saved[t]
  BY <1>1, RoundStates DEF Unstarted, Valid
<1>2. QED
  BY <1>1 DEF SwitchInv

(* A step of the switch preserves SwitchInv.                               *)
LEMMA SwitchSwitchInv == TypeOK /\ SwitchInv /\ Switch => SwitchInv'
<1> SUFFICES ASSUME TypeOK, SwitchInv, Switch PROVE SwitchInv'
  OBVIOUS
<1> USE TidNat DEF locks, perThread
<1>1. CASE NoStandby \/ NextInRound \/ Select
  BY <1>1 DEF NoStandby, NextInRound, Select, SwitchInv, PanicCause, Unstarted, Valid,
       CurrentValid, TypeOK
<1>2. CASE SpawnStandby
  <2> DEFINE t == FirstStandby
  <2>1. t \in Tid /\ Valid(t) /\ state[t] = "STANDBY" /\ current' = t
    BY <1>2, FirstStandbyIn DEF SpawnStandby, Standby
  <2>2. "restart" \notin Calls => ~saved[t] /\ t # INIT_TID
    BY <2>1 DEF SwitchInv, Unstarted
  <2>3. UNCHANGED <<slot, saved>>
    BY <1>2 DEF SpawnStandby
  <2>4. CASE t = INIT_TID \/ saved[t]
    <3>1. pc' = "panic:spawn" /\ UNCHANGED state
      BY <1>2, <2>4 DEF SpawnStandby
    <3>2. QED
      BY <2>1, <2>2, <2>3, <2>4, <3>1
      DEF SwitchInv, PanicCause, Unstarted, Valid
  <2>5. CASE ~(t = INIT_TID \/ saved[t])
    <3>1. pc' = "user" /\ state' = [state EXCEPT ![t] = "RUNNING"]
      BY <1>2, <2>5 DEF SpawnStandby
    <3>2. \A u \in Tid : Unstarted(u)' => Unstarted(u)
      BY <2>1, <2>3, <3>1 DEF Unstarted, Valid, TypeOK
    <3>3. ~Unstarted(current)'
      BY <2>1, <3>1 DEF Unstarted, TypeOK
    <3>4. CurrentValid'
      BY <2>1, <2>3 DEF CurrentValid, Valid
    <3>5. PanicCause'
      BY <3>1 DEF PanicCause
    <3> HIDE DEF t
    <3>6. QED
      BY <2>3, <3>1, <3>2, <3>3, <3>4, <3>5 DEF SwitchInv, Valid
  <2>6. QED
    BY <2>4, <2>5
<1>3. CASE RunResponder
  <2>1. \A u \in Tid : Unstarted(u)' => Unstarted(u)
    BY <1>3 DEF RunResponder, Unstarted, Valid, TypeOK
  <2>2. UNCHANGED <<slot, saved>> /\ pc' = "go_ahead"
    BY <1>3 DEF RunResponder
  <2>3. QED
    BY <2>1, <2>2 DEF SwitchInv, PanicCause, Valid
<1>4. CASE EndOfRound
  <2>1. psScheduler /\ pc' = "dispatch_current" /\ schedLocked' = schedLocked
    BY <1>4 DEF EndOfRound
  <2>2. Valid(INIT_TID)'
    BY <2>1, RoundStates DEF SwitchInv, Valid
  <2>3. (current' = None /\ schedLocked') \/ (CurrentValid' /\ state'[current'] = "READY")
    BY <2>1, <2>2, RoundStates DEF CurrentValid, Valid, TypeOK
  <2>4. QED
    BY <2>1, <2>2, <2>3, RoundUnstarted DEF SwitchInv, PanicCause
<1>5. CASE Reselect
  <2>1. psScheduler /\ pc' = "ZeroGravity"
    BY <1>5 DEF Reselect
  <2>2. Valid(INIT_TID)'
    BY <2>1, RoundStates DEF SwitchInv, Valid
  <2>3. QED
    BY <2>1, <2>2, RoundUnstarted DEF SwitchInv, PanicCause
<1>6. CASE DispatchCurrent
  <2>1. current \in Tid /\ Valid(current) /\ state[current] = "READY"
    BY <1>6 DEF DispatchCurrent, SwitchInv, CurrentValid, TypeOK
  <2>2. /\ state' = [state EXCEPT ![current] = "RUNNING"]
        /\ saved' = [saved EXCEPT ![current] = FALSE]
        /\ UNCHANGED <<slot, current>> /\ pc' = "user"
    BY <1>6, <2>1 DEF DispatchCurrent, Rescued
  <2>3. \A u \in Tid : Unstarted(u)' => Unstarted(u) /\ u # current
    BY <2>1, <2>2 DEF Unstarted, Valid, TypeOK
  <2>4. \A u \in Tid : u # current => saved'[u] = saved[u]
    BY <2>1, <2>2 DEF TypeOK
  <2>5. CurrentValid' /\ ~Unstarted(current)'
    BY <2>1, <2>2, <2>3 DEF CurrentValid, Valid
  <2>6. QED
    BY <2>2, <2>3, <2>4, <2>5 DEF SwitchInv, PanicCause, Valid
<1>7. CASE DispatchFails
  <2>1. current = None /\ schedLocked
    BY <1>7 DEF DispatchFails, SwitchInv, Rescued
  <2>2. pc' = "panic:ts" /\ UNCHANGED <<slot, state, saved, schedLocked>>
    BY <1>7, <2>1 DEF DispatchFails, CurrentValid
  <2>3. QED
    BY <2>1, <2>2 DEF SwitchInv, PanicCause, Unstarted, Valid
<1>8. QED
  BY <1>1, <1>2, <1>3, <1>4, <1>5, <1>6, <1>7 DEF Switch

(* A system call that panics (create_thread, copy_process, ipc, callback)  *)
(* leaves the slots and the saved flags alone.                             *)
LEMMA PanicStates ==
    ASSUME TypeOK, Post \/ Service, pc' \in PanicPc
    PROVE  /\ pc' \in {"panic:ipc", "panic:callback", "panic:create_thread", "panic:copy_process"}
           /\ UNCHANGED <<slot, saved>>
           /\ \A t \in Tid : state'[t] = state[t] \/ state'[t] = "RUNNING"
<1> USE TidNat DEF locks, perThread, dispState, timing
<1>1. pc = "user"
  BY DEF Post, PostBudget, Service, Syscall, ipc_post_message_to_tid2,
       ibroker_post_message_to_fg_thread, keCloseInitProcess,
       ipc_post_message_to_ds, sys_yield, sys_sleep, sci0_exit, sys_msgctl,
       get_message_empty, sys_notify_event, enter_alertable, callback_is_restored,
       do_waitpid, do_credits, dispsrv_setup_ds_info, set_foreground, lose_foreground,
       create_thread_fails, NoSlot, sys_create_thread, core_start_thread, copy_process,
       copy_process_fails, copy_process_mismatch, set_locks
<1>2. CASE Post
  BY <1>1, <1>2 DEF Post, ipc_post_message_to_tid2,
     ibroker_post_message_to_fg_thread, keCloseInitProcess,
     ipc_post_message_to_ds, Posted, PanicPc
<1>3. CASE callback_is_restored \/ create_thread_fails
  BY <1>1, <1>3 DEF callback_is_restored, create_thread_fails, NoSlot, PanicPc
<1>4. CASE copy_process_mismatch
  BY <1>4 DEF copy_process_mismatch, TypeOK
<1>5. ASSUME UNCHANGED pc PROVE FALSE
  BY <1>1, <1>5 DEF PanicPc
<1>6. QED
  BY <1>2, <1>3, <1>4, <1>5 DEF Service, SetFlags, sys_yield, sys_sleep, sci0_exit,
     sys_msgctl, get_message_empty, sys_notify_event, enter_alertable,
     do_waitpid, do_credits, dispsrv_setup_ds_info, set_foreground, lose_foreground,
     sys_create_thread, core_start_thread, copy_process, copy_process_fails, set_locks

LEMMA PanicSwitchInv ==
    ASSUME TypeOK, SwitchInv, Post \/ Service, pc' \in PanicPc
    PROVE  SwitchInv'
<1>1. \A t \in Tid : Unstarted(t)' => Unstarted(t)
  BY PanicStates DEF Unstarted, Valid
<1> QED
  BY <1>1, PanicStates, TidNat DEF SwitchInv, PanicCause, Valid

(* Every step preserves SwitchInv.                                         *)
LEMMA SwitchInvStep == TypeOK /\ SwitchInv /\ [Next]_vars => SwitchInv'
<1> SUFFICES ASSUME TypeOK, SwitchInv, [Next]_vars PROVE SwitchInv'
  OBVIOUS
<1>1. CASE UNCHANGED vars
  BY <1>1 DEF vars, perThread, globals, SwitchInv, PanicCause, Unstarted, Valid, CurrentValid
<1>2. CASE Post \/ Service
  BY <1>2, PanicSwitchInv, PostOutside, ServiceOutside, OutsideSwitchInv
<1>3. QED
  BY <1>1, <1>2, TickSwitchInv, SwitchSwitchInv DEF Next, Halted

(* SwitchInv always holds.                                                 *)
LEMMA SwitchInvCorrect == Spec => []SwitchInv
  BY InitSwitchInv, SwitchInvStep, TypeCorrect, PTL DEF Spec

(***************************************************************************)
(* The switch panics only when the scheduler is locked, when a tick        *)
(* interrupts a callback, or when a thread was started twice; the          *)
(* dispatcher never refuses the thread that __task_switch hands to it.     *)
(***************************************************************************)
THEOREM PanicCauseCorrect == Spec => []PanicCause
<1>1. SwitchInv => PanicCause
  BY DEF SwitchInv
<1>2. QED
  BY <1>1, SwitchInvCorrect, PTL
=============================================================================
