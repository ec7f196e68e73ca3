---------------------------- MODULE RoundProofs ------------------------------
(***************************************************************************)
(* The rounds of the scheduler, the wake ups, the input focus and the      *)
(* callbacks, for every number of threads and every use of the services.   *)
(***************************************************************************)
EXTENDS Wakes, SwitchProofs

-----------------------------------------------------------------------------
(* The end of a round.                                                     *)

(* The link of a thread of a round leads to a larger thread of the round.  *)
LEMMA SuccessorIn ==
    ASSUME NEW S \in SUBSET Tid, NEW t \in Tid, Successor(S, t) # None
    PROVE  Successor(S, t) \in S /\ Successor(S, t) > t
<1> DEFINE U == {u \in S : u > t}
<1>1. U \in SUBSET Nat /\ U # {}
  BY TidNat DEF Successor
<1>2. Min(U) \in U
  BY <1>1, MinIn
<1> QED BY <1>1, <1>2 DEF Successor

(* The threads that a pass of the scheduler links are a round.             *)
LEMMA NewRound ==
    ASSUME TypeOK, SwitchInv, psScheduler, ~schedLocked
    PROVE  \E T \in SUBSET Tid : InRound(T)'
<1> USE TidNat
<1>1. scheduler_rr
  BY DEF psScheduler
<1>2. PICK S \in SUBSET Tid : S = Round
  BY DEF Round
<1>3. INIT_TID \in S /\ currentq' = INIT_TID
  BY <1>1, <1>2 DEF scheduler_rr, Round
<1>4. ASSUME NEW t \in S PROVE slot'[t] = "used" /\ state'[t] = "READY"
  <2>1. CASE t = INIT_TID
    BY <2>1, <1>1, RoundStates DEF SwitchInv, Valid
  <2>2. CASE t # INIT_TID
    <3>1. t \in Tid /\ Enrolled(t)
      BY <1>2, <2>2 DEF Round
    <3>2. slot[t] = "used" /\ ~Reaped(t)
      BY <2>2, <3>1 DEF Enrolled, Reaped, WakeDue, Regular, Scanned, Valid
    <3>3. NewState(t) = "READY"
      BY <2>2, <3>1 DEF Enrolled, WakeDue, Regular, NewState
    <3> QED BY <1>1, <3>1, <3>2, <3>3 DEF scheduler_rr
  <2> QED BY <2>1, <2>2
<1>5. ASSUME NEW t \in S, next'[t] # None PROVE next'[t] \in S /\ next'[t] > t
  <2>1. t \in Tid /\ next'[t] = Successor(S, t)
    BY <1>1, <1>2 DEF scheduler_rr
  <2> QED BY <1>5, <2>1, SuccessorIn
<1>6. InRound(S)'
  BY <1>3, <1>4, <1>5 DEF InRound, Valid
<1> QED BY <1>6

(* A pass of the scheduler ends with a round, the new one or, when the     *)
(* scheduler is locked, the old one.                                       *)
LEMMA PassRoundEnds ==
    ASSUME TypeOK, SwitchInv, psScheduler, NEW S \in SUBSET Tid, InRound(S)
    PROVE  \E T \in SUBSET Tid : InRound(T)'
<1>1. CASE schedLocked
  <2>1. InRound(S)'
    BY <1>1 DEF psScheduler, perThread, InRound, Valid
  <2> QED BY <2>1
<1>2. CASE ~schedLocked
  BY <1>2, NewRound
<1> QED BY <1>1, <1>2

(* A system that has panicked stays as it is.                              *)
LEMMA PanicStays == pc \in PanicPc /\ [Next]_vars => UNCHANGED vars
<1> SUFFICES ASSUME pc \in PanicPc, Next PROVE UNCHANGED vars
  OBVIOUS
<1>1. ~Tick /\ ~Switch
  BY DEF Tick, Switch, TickFails, TickLocked, TickKeep, TickPreempt, CanSave,
         NoStandby, SpawnStandby, RunResponder, NextInRound, EndOfRound, Select, Reselect,
         DispatchCurrent, DispatchFails, PanicPc
<1>2. ~Post /\ ~Service
  BY DEF Post, PostBudget, Service, Syscall, ipc_post_message_to_tid2,
       ibroker_post_message_to_fg_thread, keCloseInitProcess,
       ipc_post_message_to_ds, sys_yield, sys_sleep, sci0_exit, sys_msgctl,
       get_message_empty, sys_notify_event, enter_alertable, callback_is_restored,
       do_waitpid, do_credits, dispsrv_setup_ds_info, set_foreground, lose_foreground,
       create_thread_fails, NoSlot, sys_create_thread, core_start_thread, copy_process,
       copy_process_fails, copy_process_mismatch, set_locks, PanicPc
<1> QED BY <1>1, <1>2 DEF Next, Halted

(* Every other step keeps the round or, for an event, makes one of its own.*)
LEMMA RoundEndsStep == TypeOK /\ SwitchInv /\ RoundEnds /\ [Next]_vars => RoundEnds'
<1> SUFFICES ASSUME TypeOK, SwitchInv, RoundEnds, [Next]_vars,
                    "restart" \notin Calls, pc' \notin PanicPc
             PROVE  \E T \in SUBSET Tid : InRound(T)'
  BY DEF RoundEnds
<1>1. pc \notin PanicPc
  BY PanicStays DEF vars, globals
<1>2. PICK S \in SUBSET Tid : InRound(S)
  BY <1>1 DEF RoundEnds
<1> USE TidNat DEF locks, perThread, InRound, Valid
<1>3. ASSUME UNCHANGED <<slot, next>>, currentq' \in S,
             \A t \in S : state'[t] \in {"INITIALIZED", "STANDBY"} => state'[t] = state[t]
      PROVE  InRound(S)'
  BY <1>2, <1>3
<1>4. CASE UNCHANGED vars
  BY <1>2, <1>3, <1>4 DEF vars, globals
<1>5. CASE Outside
  <2>1. ASSUME NEW t \in S PROVE Moved(t)
    BY <1>2, <1>5 DEF Outside, Filled
  <2>2. InRound(S)'
    BY <1>2, <1>5, <2>1 DEF Outside, Moved
  <2> QED BY <2>2
<1>6. CASE TickLocked \/ NoStandby \/ NextInRound \/ Select
  BY <1>2, <1>3, <1>6 DEF TickLocked, NoStandby, NextInRound, Select
<1>7. CASE TickKeep \/ TickPreempt
  BY <1>2, <1>3, <1>7 DEF TickKeep, TickPreempt, Preempted, TypeOK
<1>8. CASE SpawnStandby
  <2> DEFINE t == FirstStandby
  <2>1. t \in Tid /\ state[t] = "STANDBY" /\ t \notin S
    BY <1>2, <1>8, FirstStandbyIn DEF SpawnStandby, Standby
  <2>2. ~(t = INIT_TID \/ saved[t])
    BY <1>8 DEF SpawnStandby, PanicPc
  <2>3. /\ next' = [next EXCEPT ![t] = INIT_TID] /\ state' = [state EXCEPT ![t] = "RUNNING"]
        /\ UNCHANGED <<slot, currentq>>
    BY <1>8, <2>2 DEF SpawnStandby
  <2> HIDE DEF t
  <2>4. InRound(S)'
    BY <1>2, <2>1, <2>3 DEF TypeOK
  <2> QED BY <2>4
<1>9. CASE RunResponder
  <2>1. PICK e \in Tid : e = evResponder
    BY <1>9 DEF RunResponder, ResponderPending, TypeOK
  <2>2. InRound({e})'
    BY <1>9, <2>1 DEF RunResponder, ResponderPending, TypeOK
  <2> QED BY <2>2
<1>10. CASE EndOfRound \/ Reselect
  BY <1>2, <1>10, PassRoundEnds DEF EndOfRound, Reselect
<1>11. CASE DispatchCurrent
  <2>1. /\ UNCHANGED <<slot, currentq>>
        /\ next' = next \/ next' = [next EXCEPT ![INIT_TID] = None]
        /\ \A t \in Tid : state'[t] = state[t] \/ state'[t] \in {"READY", "RUNNING"}
    BY <1>11 DEF DispatchCurrent, Rescued, CurrentValid, TypeOK
  <2>2. InRound(S)'
    BY <1>2, <2>1 DEF TypeOK
  <2> QED BY <2>2
<1>12. ~TickFails /\ ~DispatchFails
  BY DEF TickFails, DispatchFails, PanicPc
<1> QED BY <1>1, <1>4, <1>5, <1>6, <1>7, <1>8, <1>9, <1>10, <1>11, <1>12,
           PostOutside, ServiceOutside DEF Next, Tick, Switch, Halted

(***************************************************************************)
(* The walk of __task_switch along the links ends for any number of        *)
(* threads: no sequence of clones, exits, waits, messages and spawns       *)
(* closes the links of a round into a circle.                              *)
(***************************************************************************)
THEOREM RoundEndsCorrect == Spec => []RoundEnds
<1>1. Init => RoundEnds
  <2> SUFFICES ASSUME Init PROVE \E S \in SUBSET Tid : InRound(S)
    BY DEF RoundEnds
  <2>1. InRound({INIT_TID})
    BY TidNat DEF Init, InRound, Valid
  <2> QED BY <2>1, TidNat
<1> QED BY <1>1, RoundEndsStep, TypeCorrect, SwitchInvCorrect, PTL DEF Spec

-----------------------------------------------------------------------------
(* Wake ups.                                                               *)

(* A pass of the scheduler wakes a thread that is asleep only for an event *)
(* of the display server.                                                  *)
LEMMA PassWakeCause ==
    ASSUME TypeOK, psScheduler, NEW t \in Tid \ {INIT_TID}, Asleep(t),
           state'[t] \in {"READY", "RUNNING"}
    PROVE  WakeCause(t)
<1>1. CASE schedLocked
  BY <1>1 DEF psScheduler, perThread, Asleep
<1>2. CASE ~schedLocked
  <2>1. state'[t] = NewState(t)
    BY <1>2 DEF psScheduler, scheduler_rr
  <2>2. DsEventDue(t) /\ Unblockable(t)
    <3>1. ~WakeDue(t)
      BY DEF WakeDue, Asleep, TypeOK
    <3> QED BY <2>1, <3>1 DEF NewState, Asleep
  <2> QED BY <2>2 DEF DsEventDue, Unblockable, WakeCause
<1> QED BY <1>1, <1>2

LEMMA WakeStep ==
    ASSUME TypeOK, SwitchInv, [Next]_vars, pc' \notin PanicPc,
           NEW t \in Tid \ {INIT_TID}, Asleep(t), state'[t] \in {"READY", "RUNNING"}
    PROVE  WakeCause(t)
<1> USE TidNat DEF locks, perThread
<1>1. state[t] # state'[t] /\ state[t] \in {"BLOCKED", "WAITING"}
  BY DEF Asleep
<1>2. CASE Outside
  BY <1>1, <1>2 DEF Outside, Filled, Moved, WakeCause
<1>3. CASE Tick
  <2>1. state'[t] = state[t] \/ state[t] = "RUNNING"
    BY <1>3 DEF Tick, TickFails, TickLocked, TickKeep, TickPreempt, Preempted, Honoured, TypeOK
  <2> QED BY <1>1, <2>1
<1>4. CASE NoStandby \/ NextInRound \/ Select \/ DispatchFails
  BY <1>1, <1>4 DEF NoStandby, NextInRound, Select, DispatchFails
<1>5. CASE SpawnStandby
  <2>1. FirstStandby \in Tid /\ state[FirstStandby] = "STANDBY"
    BY <1>5, FirstStandbyIn DEF SpawnStandby, Standby
  <2> QED BY <1>1, <1>5, <2>1 DEF SpawnStandby, TypeOK
<1>6. CASE RunResponder
  BY <1>1, <1>6 DEF RunResponder, ResponderPending, WakeCause, TypeOK
<1>7. CASE EndOfRound \/ Reselect
  BY <1>7, PassWakeCause DEF EndOfRound, Reselect
<1>8. CASE DispatchCurrent
  <2>1. current \in Tid /\ state[current] = "READY"
    BY <1>8 DEF DispatchCurrent, SwitchInv, CurrentValid, TypeOK
  <2> QED BY <1>1, <1>8, <2>1 DEF DispatchCurrent, Rescued, TypeOK
<1>9. CASE UNCHANGED vars
  BY <1>1, <1>9 DEF vars
<1> QED BY <1>2, <1>3, <1>4, <1>5, <1>6, <1>7, <1>8, <1>9,
           PostOutside, ServiceOutside DEF Next, Switch, Halted

(***************************************************************************)
(* For any number of threads and any use of the services, the scheduler    *)
(* and the task switch, which write READY in six places, give a sleeping   *)
(* or blocked thread the processor only for a cause.                       *)
(***************************************************************************)
THEOREM NoSpuriousWakeCorrect == Spec => NoSpuriousWake
<1>1. ASSUME TypeOK, SwitchInv, [Next]_vars
      PROVE  pc' \notin PanicPc =>
               \A t \in Tid \ {INIT_TID} :
                 Asleep(t) /\ state'[t] \in {"READY", "RUNNING"} => WakeCause(t)
  BY <1>1, WakeStep
<1> QED BY <1>1, TypeCorrect, SwitchInvCorrect, PTL DEF Spec, NoSpuriousWake

-----------------------------------------------------------------------------
(* Waits for messages.                                                     *)

(* What a step may do to the deferred block and to the reason of a thread  *)
(* that stays BLOCKED or becomes so: only the scheduler serves the block,  *)
(* and then it stores the reason; it takes a reason away only together     *)
(* with the wait; and a new thread gets the flags and the reason of one    *)
(* that has never waited.                                                  *)
ReasonKept(t) ==
    /\ slot'[t] = "null" => slot[t] = "null" /\ ("block" \in flags'[t] => "block" \in flags[t])
    /\ state'[t] = "BLOCKED" =>
         \/ slot[t] = "null"
         \/ "block" \in flags[t] \ flags'[t] /\ waitReason'[t] = "LOOP"
         \/ ("block" \in flags[t] => "block" \in flags'[t]) /\ waitReason'[t] = waitReason[t]

LEMMA SameReason ==
    ASSUME NEW t \in Tid, UNCHANGED <<slot, waitReason>>,
           "block" \in flags[t] => "block" \in flags'[t],
           slot[t] = "null" /\ "block" \in flags'[t] => "block" \in flags[t]
    PROVE  ReasonKept(t)
BY DEF ReasonKept

LEMMA PassReason ==
    ASSUME TypeOK, psScheduler, NEW t \in Tid
    PROVE  ReasonKept(t)
<1>1. CASE schedLocked
  BY <1>1, SameReason DEF psScheduler, perThread
<1>2. CASE ~schedLocked
  <2>1. /\ state'[t] = NewState(t) /\ flags'[t] = NewFlags(t) /\ waitReason'[t] = NewReason(t)
        /\ slot'[t] = IF Reaped(t) THEN "cleared" ELSE slot[t]
    BY <1>2 DEF psScheduler, scheduler_rr
  <2>2. slot'[t] = "null" => slot[t] = "null" /\ ("block" \in flags'[t] => "block" \in flags[t])
    BY <2>1 DEF NewFlags
  <2>3. CASE BlockDue(t)
    <3>1. ~DsEventDue(t) /\ "block" \in flags[t]
      BY <2>3 DEF BlockDue, DsEventDue
    <3>2. NewFlags(t) = flags[t] \ {"block"} /\ NewReason(t) = "LOOP"
      BY <2>3, <3>1 DEF NewFlags, NewReason
    <3> QED BY <2>1, <2>2, <3>1, <3>2 DEF ReasonKept
  <2>4. CASE DsEventDue(t) /\ Unblockable(t)
    <3>1. ~BlockDue(t) /\ ~ExitDue(t)
      BY <2>4 DEF DsEventDue, BlockDue, ExitDue
    <3>2. NewState(t) = "READY"
      BY <2>4, <3>1 DEF NewState
    <3> QED BY <2>1, <2>2, <3>2 DEF ReasonKept
  <2>5. CASE ~BlockDue(t) /\ ~(DsEventDue(t) /\ Unblockable(t))
    <3>1. NewReason(t) = waitReason[t] /\ ("block" \in flags[t] => "block" \in NewFlags(t))
      BY <2>5 DEF NewReason, NewFlags
    <3> QED BY <2>1, <2>2, <3>1 DEF ReasonKept
  <2> QED BY <2>3, <2>4, <2>5
<1> QED BY <1>1, <1>2

LEMMA OutsideReason ==
    ASSUME TypeOK, Post \/ Service, NEW t \in Tid
    PROVE  ReasonKept(t)
<1> USE TidNat DEF locks, perThread, dispState, timing
<1>1. CASE Post
  <2>1. /\ UNCHANGED <<slot, waitReason>>
        /\ UNCHANGED flags \/ \E u \in Tid : flags' = [flags EXCEPT ![u] = @ \cup {"pending"}]
    BY <1>1 DEF Post, ipc_post_message_to_tid2, ibroker_post_message_to_fg_thread,
         keCloseInitProcess, ipc_post_message_to_ds, Posted, Raise, TypeOK
  <2> QED BY <2>1, SameReason DEF TypeOK
<1>2. CASE get_message_empty
  <2>1. current \in Tid /\ slot[current] = "used"
    BY <1>2 DEF get_message_empty, Syscall, CurrentValid, Valid, TypeOK
  <2>2. UNCHANGED <<slot, waitReason>> /\ flags' = [flags EXCEPT ![current] = @ \cup {"block"}]
    BY <1>2 DEF get_message_empty, SetFlags, Raise
  <2> QED BY <2>1, <2>2, SameReason DEF TypeOK
<1>3. CASE sys_yield \/ sys_sleep \/ sci0_exit \/ sys_msgctl \/ enter_alertable
  BY <1>3, SameReason DEF sys_yield, sys_sleep, sci0_exit, sys_msgctl, enter_alertable,
       SetFlags, Raise, Drop, TypeOK
<1>4. CASE sys_notify_event
  BY <1>4, SameReason DEF sys_notify_event, SetFlags, Raise, Drop, TypeOK
<1>5. CASE callback_is_restored
  BY <1>5, SameReason DEF callback_is_restored, Drop, TypeOK
<1>6. CASE sys_create_thread \/ copy_process \/ copy_process_fails
  <2>1. FreeTid \in Tid /\ slot[FreeTid] = "null"
    BY <1>6, FreeTidIn DEF sys_create_thread, copy_process, copy_process_fails, FreeSlots
  <2>2. /\ slot' = [slot EXCEPT ![FreeTid] = "used"]
        /\ waitReason' = [waitReason EXCEPT ![FreeTid] = "NULL"]
        /\ flags' = [flags EXCEPT ![FreeTid] = {}]
    BY <1>6 DEF sys_create_thread, copy_process, copy_process_fails, Fill
  <2> QED BY <2>1, <2>2 DEF ReasonKept, TypeOK
<1> QED BY <1>1, <1>2, <1>3, <1>4, <1>5, <1>6, SameReason DEF Service, do_waitpid,
       do_credits, dispsrv_setup_ds_info, set_foreground, lose_foreground,
       create_thread_fails, NoSlot, core_start_thread, copy_process_mismatch, set_locks

LEMMA ReasonStep == ASSUME TypeOK, [Next]_vars, NEW t \in Tid PROVE ReasonKept(t)
<1> USE DEF locks, perThread
<1>1. CASE TickFails \/ TickPreempt \/ NoStandby \/ NextInRound \/ Select \/ DispatchFails
  BY <1>1, SameReason DEF TickFails, TickPreempt, NoStandby, NextInRound, Select,
       DispatchFails
<1>2. ASSUME NEW f \in [Tid -> SUBSET Flag], NEW u \in Tid,
             flags' = DeliverCallback(f, u), UNCHANGED <<slot, waitReason>>,
             "block" \in f[t] <=> "block" \in flags[t]
      PROVE  ReasonKept(t)
  BY <1>2, SameReason DEF DeliverCallback
<1>3. CASE TickLocked \/ DispatchCurrent
  BY <1>2, <1>3 DEF TickLocked, DispatchCurrent, CurrentValid, TypeOK
<1>4. CASE TickKeep
  <2>1. PICK s \in SUBSET {"yield", "sleep"} :
          flags' = DeliverCallback(Drop(current, s), current)
    BY <1>4 DEF TickKeep
  <2>2. /\ current \in Tid /\ Drop(current, s) \in [Tid -> SUBSET Flag]
        /\ "block" \in Drop(current, s)[t] <=> "block" \in flags[t]
    BY <1>4 DEF TickKeep, CanSave, CurrentValid, Drop, TypeOK
  <2>3. UNCHANGED <<slot, waitReason>>
    BY <1>4 DEF TickKeep
  <2> QED BY <1>2, <2>1, <2>2, <2>3
<1>5. CASE SpawnStandby
  BY <1>5, SameReason DEF SpawnStandby, Drop, TypeOK
<1>6. CASE RunResponder
  BY <1>6, SameReason DEF RunResponder, Drop, TypeOK
<1>7. CASE EndOfRound \/ Reselect
  BY <1>7, PassReason DEF EndOfRound, Reselect
<1>8. CASE UNCHANGED vars
  BY <1>8, SameReason DEF vars
<1> QED BY <1>1, <1>3, <1>4, <1>5, <1>6, <1>7, <1>8, OutsideReason
           DEF Next, Tick, Switch, Halted

(* The inductive invariant: a thread that does not exist asks for no block *)
(* and waits for nothing.                                                  *)
ListenInv ==
    \A t \in Tid :
      /\ slot[t] = "null" => "block" \notin flags[t] /\ t \notin listening
      /\ t \in listening => waitReason[t] = "LOOP"

LEMMA ListenStep == TypeOK /\ ListenInv /\ [WakeNext]_wakeVars => ListenInv'
<1> SUFFICES ASSUME TypeOK, ListenInv, [WakeNext]_wakeVars, NEW t \in Tid
             PROVE  /\ slot'[t] = "null" => "block" \notin flags'[t] /\ t \notin listening'
                    /\ t \in listening' => waitReason'[t] = "LOOP"
  BY DEF ListenInv
<1>1. CASE UNCHANGED wakeVars
  BY <1>1 DEF wakeVars, vars, perThread, ListenInv
<1>2. CASE WakeNext
  <2>1. ReasonKept(t)
    BY <1>2, ReasonStep DEF WakeNext
  <2>2. t \in listening' =>
          state'[t] = "BLOCKED" /\ ("block" \in flags[t] \ flags'[t] \/ t \in listening)
    BY <1>2 DEF WakeNext, Listen, Blocks
  <2>3. /\ slot[t] = "null" => "block" \notin flags[t] /\ t \notin listening
        /\ t \in listening => waitReason[t] = "LOOP"
    BY DEF ListenInv
  <2> QED BY <2>1, <2>2, <2>3 DEF ReasonKept
<1> QED BY <1>1, <1>2

(***************************************************************************)
(* For any number of threads and any use of the services, a thread that    *)
(* waits for messages has wait_reason LOOP, so that an event of the        *)
(* display server finds it, although messages, sleeps, waits for children  *)
(* and clones come between and only two branches of sched.c write it.      *)
(***************************************************************************)
THEOREM ListenerRecordedCorrect == WakeSpec => []ListenerRecorded
<1>1. Init /\ listening = {} => ListenInv /\ listening \subseteq Tid
  BY DEF Init, ListenInv
<1>2. TypeOK /\ [WakeNext]_wakeVars => TypeOK'
  BY StepType DEF WakeNext, wakeVars
<1>3. ListenInv /\ listening \subseteq Tid => ListenerRecorded
  BY DEF ListenInv, ListenerRecorded
<1>4. listening \subseteq Tid /\ [WakeNext]_wakeVars => (listening \subseteq Tid)'
  BY DEF WakeNext, Listen, wakeVars
<1> QED BY <1>1, <1>2, <1>3, <1>4, ListenStep, InitType, PTL DEF WakeSpec

-----------------------------------------------------------------------------
(* The input focus.                                                        *)

(* A pass of the scheduler takes the focus from the thread that exits.     *)
LEMMA PassFocus ==
    ASSUME TypeOK, FocusAlive, psScheduler
    PROVE  FocusAlive'
<1> USE TidNat
<1>1. CASE schedLocked
  BY <1>1 DEF psScheduler, perThread, FocusAlive, Valid
<1>2. CASE ~schedLocked
  <2> SUFFICES ASSUME foreground' # None
               PROVE  slot'[foreground'] = "used" /\ state'[foreground'] # "ZOMBIE"
    BY DEF FocusAlive, Valid
  <2>1. scheduler_rr
    BY <1>2 DEF psScheduler
  <2> DEFINE f == foreground
  <2>2. foreground' = f /\ ~ExitDue(f) /\ f # None
    BY <2>1 DEF scheduler_rr, NewForeground
  <2>3. f \in Tid /\ slot[f] = "used" /\ state[f] # "ZOMBIE"
    BY <2>2 DEF FocusAlive, Valid, TypeOK
  <2>4. ~Reaped(f)
    BY <2>3 DEF Reaped
  <2>5. NewState(f) # "ZOMBIE"
    BY <2>2, <2>3 DEF NewState
  <2> QED BY <2>1, <2>2, <2>3, <2>4, <2>5 DEF scheduler_rr
<1> QED BY <1>1, <1>2

(* A service or a message leaves the focus alone, takes it away or gives   *)
(* it to a thread that lives, and none of them makes a zombie.             *)
LEMMA OutsideFocus ==
    ASSUME TypeOK, Post \/ Service
    PROVE  /\ foreground' = foreground \/ foreground' = None
              \/ (slot'[foreground'] = "used" /\ state'[foreground'] # "ZOMBIE")
           /\ \A t \in Tid : slot[t] = "used" =>
                slot'[t] = "used" /\ (state'[t] = "ZOMBIE" => state[t] = "ZOMBIE")
<1> USE TidNat DEF locks, perThread, dispState, timing
<1>1. foreground' = foreground \/ foreground' = None
        \/ (slot'[foreground'] = "used" /\ state'[foreground'] # "ZOMBIE")
  <2>1. CASE set_foreground
    BY <2>1 DEF set_foreground, Valid
  <2>2. CASE lose_foreground
    BY <2>2 DEF lose_foreground
  <2>3. CASE Post
    BY <2>3 DEF Post, Posted, ipc_post_message_to_tid2, ibroker_post_message_to_fg_thread,
         keCloseInitProcess, ipc_post_message_to_ds
  <2> QED BY <2>1, <2>2, <2>3 DEF Service, SetFlags, sys_yield, sys_sleep, sci0_exit,
       sys_msgctl, get_message_empty, sys_notify_event, enter_alertable,
       callback_is_restored, do_waitpid, do_credits, dispsrv_setup_ds_info,
       create_thread_fails, NoSlot, sys_create_thread, core_start_thread, copy_process,
       copy_process_fails, copy_process_mismatch, set_locks
<1>2. CASE pc' \notin PanicPc
  <2>1. Outside
    BY <1>2, PostOutside, ServiceOutside
  <2> QED BY <1>1, <2>1 DEF Outside, Filled, Moved
<1>3. CASE pc' \in PanicPc
  <2>1. UNCHANGED slot /\ \A t \in Tid : state'[t] = state[t] \/ state'[t] = "RUNNING"
    BY <1>3, PanicStates
  <2> QED BY <1>1, <2>1
<1> QED BY <1>2, <1>3

LEMMA FocusAliveStep == TypeOK /\ FocusAlive /\ [Next]_vars => FocusAlive'
<1> SUFFICES ASSUME TypeOK, FocusAlive, [Next]_vars PROVE FocusAlive'
  OBVIOUS
<1> USE TidNat DEF locks, perThread
<1>1. foreground # None => foreground \in Tid
  BY DEF TypeOK
<1>2. CASE Post \/ Service
  BY <1>1, <1>2, OutsideFocus DEF FocusAlive, Valid
<1>3. ASSUME UNCHANGED <<slot, foreground>>,
             \A t \in Tid : state'[t] = "ZOMBIE" => state[t] = "ZOMBIE"
      PROVE  FocusAlive'
  BY <1>1, <1>3 DEF FocusAlive, Valid
<1>4. CASE Tick
  BY <1>3, <1>4 DEF Tick, TickFails, TickLocked, TickKeep, TickPreempt, Preempted, TypeOK
<1>5. CASE NoStandby \/ NextInRound \/ Select \/ DispatchFails
  BY <1>3, <1>5 DEF NoStandby, NextInRound, Select, DispatchFails
<1>6. CASE SpawnStandby
  BY <1>3, <1>6 DEF SpawnStandby, TypeOK
<1>7. CASE RunResponder \/ DispatchCurrent
  BY <1>3, <1>7 DEF RunResponder, DispatchCurrent, Rescued, TypeOK
<1>8. CASE EndOfRound \/ Reselect
  BY <1>8, PassFocus DEF EndOfRound, Reselect
<1>9. CASE UNCHANGED vars
  BY <1>3, <1>9 DEF vars, globals
<1> QED BY <1>2, <1>4, <1>5, <1>6, <1>7, <1>8, <1>9 DEF Next, Switch, Halted

(***************************************************************************)
(* For any number of threads, the foreground thread exists and has not     *)
(* exited, although the scheduler kills and reaps threads that services    *)
(* 10011 and 10012 made foreground thread long before.                     *)
(***************************************************************************)
THEOREM FocusAliveCorrect == Spec => []FocusAlive
<1>1. Init => FocusAlive
  BY TidNat DEF Init, FocusAlive, Valid
<1> QED BY <1>1, FocusAliveStep, TypeCorrect, PTL DEF Spec

-----------------------------------------------------------------------------
(* Callbacks.                                                              *)

InCallback(t) == "callback" \in flags[t]

(* The inductive invariant: a callback keeps the switch from starting, so  *)
(* that inside the switch, where the current thread changes, there is none.*)
CallbackInv ==
    pc \notin PanicPc => \A t \in Tid : InCallback(t) => t = current /\ pc = "user"

(* A service or a message starts no callback.                              *)
LEMMA OutsideCallback ==
    ASSUME TypeOK, Post \/ Service, NEW t \in Tid, InCallback(t)'
    PROVE  InCallback(t)
<1> USE TidNat DEF locks, perThread, dispState, timing, InCallback
<1>1. CASE Post
  <2>1. UNCHANGED flags \/ \E u \in Tid : flags' = [flags EXCEPT ![u] = @ \cup {"pending"}]
    BY <1>1 DEF Post, ipc_post_message_to_tid2, ibroker_post_message_to_fg_thread,
         keCloseInitProcess, ipc_post_message_to_ds, Posted, Raise, TypeOK
  <2> QED BY <2>1 DEF TypeOK
<1>2. CASE sys_yield \/ sys_sleep \/ sci0_exit \/ sys_msgctl \/ get_message_empty
             \/ enter_alertable
  BY <1>2 DEF sys_yield, sys_sleep, sci0_exit, sys_msgctl, get_message_empty,
       enter_alertable, SetFlags, Raise, Drop, TypeOK
<1>3. CASE sys_notify_event
  BY <1>3 DEF sys_notify_event, SetFlags, Raise, Drop, TypeOK
<1>4. CASE callback_is_restored
  BY <1>4 DEF callback_is_restored, Drop, TypeOK
<1>5. CASE sys_create_thread \/ copy_process \/ copy_process_fails
  BY <1>5, FreeTidIn DEF sys_create_thread, copy_process, copy_process_fails, Fill, TypeOK
<1> QED BY <1>1, <1>2, <1>3, <1>4, <1>5 DEF Service, do_waitpid, do_credits,
       dispsrv_setup_ds_info, set_foreground, lose_foreground, create_thread_fails, NoSlot,
       core_start_thread, copy_process_mismatch, set_locks

(* The end of a tick starts a callback of the current thread only.         *)
LEMMA DeliverOnCurrent ==
    ASSUME NEW f \in [Tid -> SUBSET Flag], NEW t \in Tid, NEW u \in Tid, u # t
    PROVE  DeliverCallback(f, t)[u] = f[u]
BY DEF DeliverCallback

LEMMA CallbackStep == TypeOK /\ CallbackInv /\ [Next]_vars => CallbackInv'
<1> SUFFICES ASSUME TypeOK, CallbackInv, [Next]_vars, pc' \notin PanicPc,
                    NEW t \in Tid, InCallback(t)'
             PROVE  t = current' /\ pc' = "user"
  BY DEF CallbackInv
<1> USE TidNat DEF locks, perThread, InCallback
<1>1. pc \notin PanicPc
  BY PanicStays DEF vars, globals
<1>2. InCallback(t) => t = current /\ pc = "user"
  BY <1>1 DEF CallbackInv
<1>3. CASE Post \/ Service
  <2>1. InCallback(t)
    BY <1>3, OutsideCallback
  <2> QED BY <1>2, <1>3, <2>1, PostOutside, ServiceOutside DEF Outside
<1>4. CASE TickLocked
  BY <1>2, <1>4, DeliverOnCurrent DEF TickLocked, CurrentValid, TypeOK
<1>5. CASE TickKeep
  <2>1. PICK s \in SUBSET Flag : flags' = DeliverCallback(Drop(current, s), current)
    BY <1>5 DEF TickKeep, Flag
  <2>2. /\ current \in Tid /\ Drop(current, s) \in [Tid -> SUBSET Flag]
        /\ \A u \in Tid : u # current => Drop(current, s)[u] = flags[u]
    BY <1>5 DEF TickKeep, CanSave, CurrentValid, Drop, TypeOK
  <2>3. t # current => flags'[t] = flags[t]
    BY <2>1, <2>2, DeliverOnCurrent
  <2>4. UNCHANGED <<pc, current>> /\ pc = "user"
    BY <1>5 DEF TickKeep, CanSave
  <2> QED BY <1>2, <2>3, <2>4
<1>6. CASE TickPreempt
  BY <1>2, <1>6 DEF TickPreempt, CanSave
<1>7. CASE NoStandby \/ NextInRound \/ Select
  BY <1>2, <1>7 DEF NoStandby, NextInRound, Select
<1>8. CASE SpawnStandby
  BY <1>2, <1>8 DEF SpawnStandby, Drop, TypeOK, PanicPc
<1>9. CASE RunResponder
  BY <1>2, <1>9 DEF RunResponder, Drop, TypeOK
<1>10. CASE EndOfRound \/ Reselect
  <2>1. psScheduler /\ pc # "user"
    BY <1>10 DEF EndOfRound, Reselect
  <2>2. NewFlags(t) \subseteq flags[t]
    BY DEF NewFlags
  <2>3. flags'[t] = flags[t] \/ flags'[t] = NewFlags(t)
    BY <2>1 DEF psScheduler, scheduler_rr
  <2> QED BY <1>2, <2>1, <2>2, <2>3
<1>11. CASE DispatchCurrent
  <2>1. current \in Tid /\ pc = "dispatch_current"
    BY <1>11 DEF DispatchCurrent, CurrentValid, TypeOK
  <2>2. flags' = DeliverCallback(flags, current) /\ current' = current /\ pc' = "user"
    BY <1>11 DEF DispatchCurrent
  <2> QED BY <1>2, <2>1, <2>2, DeliverOnCurrent DEF TypeOK
<1>12. CASE UNCHANGED vars
  BY <1>2, <1>12 DEF vars, globals
<1>13. ~TickFails /\ ~DispatchFails
  BY DEF TickFails, DispatchFails, PanicPc
<1> QED BY <1>3, <1>4, <1>5, <1>6, <1>7, <1>8, <1>9, <1>10, <1>11, <1>12, <1>13
           DEF Next, Tick, Switch, Halted

(***************************************************************************)
(* For any number of threads, at most one thread is in a callback, the     *)
(* current one: the one set of global variables in callback.c is enough.   *)
(***************************************************************************)
THEOREM CallbackOnCurrentCorrect == Spec => []CallbackOnCurrent
<1>1. Init => CallbackInv
  BY DEF Init, CallbackInv, InCallback
<1>2. CallbackInv => CallbackOnCurrent
  BY DEF CallbackInv, CallbackOnCurrent, InCallback
<1> QED BY <1>1, <1>2, CallbackStep, TypeCorrect, PTL DEF Spec
=============================================================================
