---------------------------- MODULE IntakeProofs -----------------------------
(***************************************************************************)
(* Type correctness of Intake, for every size of the thread table, every   *)
(* quantum and every set of services.  The first lemmas are about the      *)
(* operators (smallest elements, links of a round, quantum levels); then   *)
(* there is one lemma per group of actions.                                *)
(***************************************************************************)
EXTENDS Intake, WellFoundedInduction, TLAPS

(* A set of natural numbers that is not empty has a smallest element: the  *)
(* first STANDBY thread and the first empty slot are found.                *)
LEMMA MinIn ==
    ASSUME NEW T \in SUBSET Nat, T # {}
    PROVE  Min(T) \in T /\ \A n \in T : Min(T) <= n
<1> DEFINE R == {p \in Nat \X Nat : p[1] < p[2]}
<1>1. IsWellFoundedOn(R, Nat)
  BY NatLessThanWellFounded DEF OpToRel
<1>2. \A x, y \in Nat : x < y => <<x, y>> \in R
  OBVIOUS
<1> HIDE DEF R
<1>3. \E x \in T : \A y \in T : ~ (<<y, x>> \in R)
  BY <1>1, WFMin
<1>4. PICK x \in T : \A y \in T : ~ (<<y, x>> \in R)
  BY <1>3
<1>5. ASSUME NEW y \in T PROVE x <= y
  <2>1. x \in Nat /\ y \in Nat
    OBVIOUS
  <2>2. ~ (y < x)
    BY <1>2, <1>4, <2>1, Zenon
  <2>3. QED
    BY <2>1, <2>2, SMT
<1>6. QED
  BY <1>5 DEF Min

(* Thread identifiers are natural numbers; -1 is not one of them.          *)
LEMMA TidNat == Tid \subseteq Nat /\ INIT_TID \in Tid /\ None \notin Tid
  BY TableAssumption DEF Tid, INIT_TID, None

(* The arguments of sys_sleep are natural numbers.                         *)
LEMMA SleepNat == \A x \in SleepMs \cup {0} : x \in Nat
<1>1. SleepMs \subseteq Nat
  BY TableAssumption
<1>2. QED
  BY <1>1

(* Every quantum that the code stores (levels, mouse move, focus bonus) is *)
(* at most QUANTUM_CEILING.                                                *)
LEMMA QuantumLevels ==
    /\ QUANTUM_CEILING \in Nat
    /\ QUANTUM_CEILING >= 2 * QUANTUM_MAX
    /\ QUANTUM_CEILING >= QUANTUM_MAX + FOCUS_BONUS
    /\ QUANTUM_MAX \in Nat /\ QUANTUM_MAX >= 3 /\ FOCUS_BONUS \in Nat
  BY TableAssumption DEF QUANTUM_CEILING

(* The link of a round leads to a larger member of the round, or nowhere.  *)
LEMMA SuccessorType ==
    ASSUME NEW S \in SUBSET Tid, NEW t \in Tid
    PROVE  /\ Successor(S, t) \in S \cup {None}
           /\ Successor(S, t) # None => Successor(S, t) > t
<1>1. CASE \E u \in S : u > t
  <2> DEFINE U == {u \in S : u > t}
  <2>1. U \in SUBSET Nat /\ U # {}
    BY <1>1, TidNat
  <2>2. Min(U) \in U
    BY <2>1, MinIn
  <2>3. QED
    BY <1>1, <2>2 DEF Successor
<1>2. CASE ~ \E u \in S : u > t
  BY <1>2 DEF Successor
<1>3. QED
  BY <1>1, <1>2

(* schedi_check_for_standby returns a STANDBY thread when there is one.    *)
LEMMA FirstStandbyIn == Standby # {} => FirstStandby \in Standby
<1>1. Standby \in SUBSET Nat
  BY TidNat DEF Standby
<1>2. QED
  BY <1>1, MinIn DEF FirstStandby

(* create_thread finds an empty slot when there is one.                    *)
LEMMA FreeTidIn == FreeSlots # {} => FreeTid \in FreeSlots
<1>1. FreeSlots \in SUBSET Nat
  BY TidNat DEF FreeSlots
<1>2. QED
  BY <1>1, MinIn DEF FreeTid

(* What a pass of __scheduler_rr stores in one thread has its type.        *)
LEMMA NewTypes ==
    ASSUME TypeOK, NEW t \in Tid
    PROVE  /\ NewState(t) \in ThreadState
           /\ NewReason(t) \in {"NULL", "LOOP"}
           /\ NewFlags(t) \in SUBSET Flag
           /\ InitQuantum \in 1 .. QUANTUM_CEILING
           /\ RoundQuantum(t) \in 1 .. QUANTUM_CEILING
<1>1. NewState(t) \in ThreadState
  BY DEF TypeOK, NewState, ThreadState
<1>2. NewReason(t) \in {"NULL", "LOOP"}
  BY DEF TypeOK, NewReason
<1>3. NewFlags(t) \in SUBSET Flag
  BY DEF TypeOK, NewFlags
<1>4. InitQuantum \in 1 .. QUANTUM_CEILING
  BY QuantumLevels DEF InitQuantum, QUANTUM_NORMAL_THRESHOLD, QUANTUM_NORMAL_BALANCED
<1>5. RoundQuantum(t) \in 1 .. QUANTUM_CEILING
  BY QuantumLevels DEF RoundQuantum, QUANTUM_NORMAL_BALANCED
<1>6. QED
  BY <1>1, <1>2, <1>3, <1>4, <1>5

(* A round holds threads of the table, the init thread among them.         *)
LEMMA RoundTids == Round \in SUBSET Tid /\ INIT_TID \in Round
  BY TidNat DEF Round

(* A pass of the scheduler keeps the types of all it changes.              *)
LEMMA RoundType ==
    ASSUME TypeOK, scheduler_rr
    PROVE  /\ slot' \in [Tid -> {"null", "used", "cleared"}]
           /\ state' \in [Tid -> ThreadState]
           /\ waitReason' \in [Tid -> {"NULL", "LOOP"}]
           /\ flags' \in [Tid -> SUBSET Flag]
           /\ quantum' \in [Tid -> 1 .. QUANTUM_CEILING]
           /\ credits' \in [Tid -> 0 .. 2]
           /\ next' \in [Tid -> Tid \cup {None}]
           /\ currentq' \in Tid
           /\ foreground' \in Tid \cup {None}
           /\ ds' \in Tid \cup {None}
<1>1. slot' \in [Tid -> {"null", "used", "cleared"}]
  BY DEF TypeOK, scheduler_rr
<1>2. /\ state' \in [Tid -> ThreadState]
      /\ waitReason' \in [Tid -> {"NULL", "LOOP"}]
      /\ flags' \in [Tid -> SUBSET Flag]
  BY NewTypes DEF scheduler_rr
<1>3. quantum' \in [Tid -> 1 .. QUANTUM_CEILING]
  BY NewTypes DEF TypeOK, scheduler_rr
<1>4. credits' \in [Tid -> 0 .. 2]
  BY DEF TypeOK, scheduler_rr
<1>5. next' \in [Tid -> Tid \cup {None}]
  <2>1. ASSUME NEW t \in Tid PROVE Successor(Round, t) \in Tid \cup {None}
    BY SuccessorType, RoundTids
  <2>2. QED
    BY <2>1 DEF TypeOK, scheduler_rr
<1>6. currentq' \in Tid /\ foreground' \in Tid \cup {None} /\ ds' \in Tid \cup {None}
  BY TidNat DEF TypeOK, scheduler_rr, NewForeground
<1>7. QED
  BY <1>1, <1>2, <1>3, <1>4, <1>5, <1>6

(* The state in which init enters ring 3 is well typed.                    *)
LEMMA InitType == Init => TypeOK
<1> SUFFICES ASSUME Init PROVE TypeOK
  OBVIOUS
<1>1. taskLocked \in BOOLEAN /\ schedLocked \in BOOLEAN
  BY TableAssumption DEF Init
<1>2. quantum \in [Tid -> 1 .. QUANTUM_CEILING]
  BY QuantumLevels DEF Init, QUANTUM_NORMAL_THRESHOLD
<1>3. slot \in [Tid -> {"null", "used", "cleared"}] /\ state \in [Tid -> ThreadState]
  BY DEF Init, ThreadState
<1>4. posts \in 0 .. MaxPosts
  BY TableAssumption DEF Init
<1>5. QED
  BY <1>1, <1>2, <1>3, <1>4, TidNat DEF Init, TypeOK, Label

(* Entering a callback only exchanges flags.                               *)
LEMMA CallbackType ==
    ASSUME NEW f \in [Tid -> SUBSET Flag], NEW t \in Tid
    PROVE  DeliverCallback(f, t) \in [Tid -> SUBSET Flag]
  BY DEF DeliverCallback, Flag

(* Setting and clearing flags gives sets of flags.                         *)
LEMMA FlagsType ==
    ASSUME TypeOK, NEW t \in Tid, NEW F \in SUBSET Flag
    PROVE  Raise(t, F) \in [Tid -> SUBSET Flag] /\ Drop(t, F) \in [Tid -> SUBSET Flag]
  BY DEF TypeOK, Raise, Drop

(* The timer tick up to the end of the quantum preserves the types.        *)
LEMMA TickType == TypeOK /\ Tick => TypeOK'
<1> SUFFICES ASSUME TypeOK, Tick PROVE TypeOK'
  OBVIOUS
<1> USE TidNat DEF CurrentValid, Valid, locks, perThread
<1>1. CASE TickFails
  BY <1>1 DEF TickFails, TypeOK, PanicPc
<1>2. CASE TickLocked
  <2>1. current \in Tid
    BY <1>2 DEF TickLocked, TypeOK
  <2>2. flags' \in [Tid -> SUBSET Flag]
    BY <1>2, <2>1, CallbackType DEF TickLocked, TypeOK
  <2>3. wake' \in [Tid -> Nat]
    BY <1>2 DEF TickLocked, Elapse, TypeOK
  <2>4. runningCount' \in Nat
    BY <1>2 DEF TickLocked, TypeOK
  <2>5. QED
    BY <1>2, <2>2, <2>3, <2>4 DEF TickLocked, TypeOK
<1>3. CASE TickKeep
  <2>1. current \in Tid
    BY <1>3 DEF TickKeep, CanSave, TypeOK
  <2>2. flags' \in [Tid -> SUBSET Flag]
    <3> DEFINE served == IF state[current] = "RUNNING" THEN {"yield", "sleep"} ELSE {}
    <3>1. served \in SUBSET Flag
      BY DEF Flag
    <3>2. Drop(current, served) \in [Tid -> SUBSET Flag]
      BY <2>1, <3>1, FlagsType
    <3>3. QED
      BY <1>3, <2>1, <3>2, CallbackType DEF TickKeep
  <2>3. wake' \in [Tid -> Nat] /\ state' \in [Tid -> ThreadState]
    <3>1. CASE Honoured("sleep")
      <4>1. sleepFor[current] \in Nat
        <5>1. sleepFor[current] \in SleepMs \cup {0}
          BY <2>1 DEF TypeOK
        <5>2. QED
          BY <5>1, SleepNat
      <4>2. \A t \in Tid : wake[t] \in Nat
        BY DEF TypeOK
      <4>3. wake' \in [Tid -> Nat]
        BY <1>3, <3>1, <4>1, <4>2 DEF TickKeep
      <4>4. state' \in [Tid -> ThreadState]
        BY <1>3, <2>1, <3>1 DEF TickKeep, TypeOK, ThreadState
      <4>5. QED
        BY <4>3, <4>4
    <3>2. CASE ~Honoured("sleep")
      BY <1>3, <3>2 DEF TickKeep, Elapse, TypeOK
    <3>3. QED
      BY <3>1, <3>2
  <2>4. runningCount' \in Nat
    BY <1>3, <2>1 DEF TickKeep, TypeOK
  <2>5. QED
    BY <1>3, <2>2, <2>3, <2>4 DEF TickKeep, TypeOK
<1>4. CASE TickPreempt
  <2>1. current \in Tid
    BY <1>4 DEF TickPreempt, CanSave, TypeOK
  <2>2. wake' \in [Tid -> Nat] /\ state' \in [Tid -> ThreadState]
    BY <1>4, <2>1 DEF TickPreempt, Elapse, Preempted, TypeOK, ThreadState
  <2>3. saved' \in [Tid -> BOOLEAN] /\ runningCount' \in Nat
    BY <1>4, <2>1 DEF TickPreempt, TypeOK
  <2>4. QED
    BY <1>4, <2>2, <2>3 DEF TickPreempt, TypeOK, Label
<1>5. QED
  BY <1>1, <1>2, <1>3, <1>4 DEF Tick

(* Each step of the switch preserves the types.                            *)
LEMMA SwitchType == TypeOK /\ Switch => TypeOK'
<1> SUFFICES ASSUME TypeOK, Switch PROVE TypeOK'
  OBVIOUS
<1> USE TidNat DEF locks, perThread, Label
<1>1. CASE NoStandby
  BY <1>1 DEF NoStandby, TypeOK
<1>2. CASE SpawnStandby
  <2>1. FirstStandby \in Tid
    BY <1>2, FirstStandbyIn DEF SpawnStandby, Standby
  <2>2. CASE FirstStandby = INIT_TID \/ saved[FirstStandby]
    BY <1>2, <2>1, <2>2 DEF SpawnStandby, TypeOK, PanicPc
  <2>3. CASE ~(FirstStandby = INIT_TID \/ saved[FirstStandby])
    <3>1. flags' \in [Tid -> SUBSET Flag]
      BY <1>2, <2>1, <2>3, FlagsType DEF SpawnStandby, Flag
    <3>2. state' \in [Tid -> ThreadState] /\ next' \in [Tid -> Tid \cup {None}]
      BY <1>2, <2>1, <2>3 DEF SpawnStandby, TypeOK, ThreadState
    <3>3. taskLocked' \in BOOLEAN /\ schedLocked' \in BOOLEAN /\ pc' = "user"
      BY <1>2, <2>3 DEF SpawnStandby
    <3>4. runningCount' \in Nat /\ current' \in Tid
      BY <1>2, <2>1, <2>3 DEF SpawnStandby
    <3>5. QED
      BY <1>2, <2>3, <3>1, <3>2, <3>3, <3>4 DEF SpawnStandby, TypeOK
  <2>4. QED
    BY <2>2, <2>3
<1>3. CASE RunResponder
  <2>1. evResponder \in Tid
    BY <1>3 DEF RunResponder, ResponderPending, TypeOK
  <2>2. flags' \in [Tid -> SUBSET Flag]
    BY <1>3, <2>1, FlagsType DEF RunResponder, Flag
  <2>3. quantum' \in [Tid -> 1 .. QUANTUM_CEILING]
    BY <1>3, <2>1, QuantumLevels DEF RunResponder, TypeOK
  <2>4. QED
    BY <1>3, <2>1, <2>2, <2>3 DEF RunResponder, TypeOK, ThreadState
<1>4. CASE NextInRound
  BY <1>4 DEF NextInRound, TypeOK
<1>5. CASE EndOfRound
  <2>1. CASE schedLocked
    BY <1>5, <2>1 DEF EndOfRound, psScheduler, TypeOK
  <2>2. CASE ~schedLocked
    <3>1. scheduler_rr
      BY <1>5, <2>2 DEF EndOfRound, psScheduler
    <3>2. QED
      BY <1>5, <2>2, <3>1, RoundType DEF EndOfRound, psScheduler, scheduler_rr, TypeOK
  <2>3. QED
    BY <2>1, <2>2
<1>6. CASE Select
  BY <1>6 DEF Select, TypeOK
<1>7. CASE Reselect
  <2>1. CASE schedLocked
    BY <1>7, <2>1 DEF Reselect, psScheduler, TypeOK
  <2>2. CASE ~schedLocked
    <3>1. scheduler_rr
      BY <1>7, <2>2 DEF Reselect, psScheduler
    <3>2. QED
      BY <1>7, <2>2, <3>1, RoundType DEF Reselect, psScheduler, scheduler_rr, TypeOK
  <2>3. QED
    BY <2>1, <2>2
<1>8. CASE DispatchCurrent
  <2>1. current \in Tid
    BY <1>8 DEF DispatchCurrent, CurrentValid, TypeOK
  <2>2. flags' \in [Tid -> SUBSET Flag]
    BY <1>8, <2>1, CallbackType DEF DispatchCurrent, TypeOK
  <2>3. quantum' \in [Tid -> 1 .. QUANTUM_CEILING]
    BY <1>8, <2>1, QuantumLevels DEF DispatchCurrent, TypeOK, QUANTUM_MIN
  <2>4. state' \in [Tid -> ThreadState]
    BY <1>8, <2>1 DEF DispatchCurrent, Rescued, TypeOK, ThreadState
  <2>5. QED
    BY <1>8, <2>1, <2>2, <2>3, <2>4 DEF DispatchCurrent, TypeOK
<1>9. CASE DispatchFails
  BY <1>9 DEF DispatchFails, TypeOK, PanicPc
<1>10. QED
  BY <1>1, <1>2, <1>3, <1>4, <1>5, <1>6, <1>7, <1>8, <1>9 DEF Switch

(* Posting a message preserves the types.                                  *)
LEMMA PostType == TypeOK /\ Post => TypeOK'
<1> SUFFICES ASSUME TypeOK, Post PROVE TypeOK'
  OBVIOUS
<1> USE TidNat DEF locks, perThread, dispState, timing
<1>1. ASSUME NEW t \in Tid, NEW q \in 1 .. QUANTUM_CEILING, Posted(t, q)
      PROVE  /\ state' \in [Tid -> ThreadState]
             /\ flags' \in [Tid -> SUBSET Flag]
             /\ quantum' \in [Tid -> 1 .. QUANTUM_CEILING]
             /\ evResponder' \in Tid \cup {None}
  <2>1. flags' \in [Tid -> SUBSET Flag]
    BY <1>1, FlagsType DEF Posted, Flag
  <2>2. QED
    BY <1>1, <2>1 DEF Posted, TypeOK, ThreadState
<1>2. QUANTUM_MAX \in 1 .. QUANTUM_CEILING /\ 2 * QUANTUM_MAX \in 1 .. QUANTUM_CEILING
  BY QuantumLevels
<1>3. ASSUME PostBudget PROVE posts' \in 0 .. MaxPosts
  BY <1>3, TableAssumption DEF PostBudget, TypeOK
<1>4. CASE ipc_post_message_to_tid2
  <2>1. PICK t \in Tid :
          IF Valid(t)
          THEN Posted(t, QUANTUM_MAX) /\ UNCHANGED credits
          ELSE /\ "stray_post" \in Calls
               /\ pc' = "panic:ipc"
               /\ UNCHANGED <<perThread, dispState, evResponder, foreground, ds, locks>>
    BY <1>4 DEF ipc_post_message_to_tid2
  <2>2. posts' \in 0 .. MaxPosts
    BY <1>3, <1>4 DEF ipc_post_message_to_tid2
  <2>3. CASE Valid(t)
    <3>1. Posted(t, QUANTUM_MAX) /\ UNCHANGED credits
      BY <2>1, <2>3
    <3>2. QED
      BY <1>1, <1>2, <2>2, <3>1 DEF Posted, TypeOK
  <2>4. CASE ~Valid(t)
    BY <2>1, <2>2, <2>4 DEF TypeOK, PanicPc
  <2>5. QED
    BY <2>3, <2>4
<1>5. CASE ibroker_post_message_to_fg_thread
  <2>1. posts' \in 0 .. MaxPosts
    BY <1>3, <1>5 DEF ibroker_post_message_to_fg_thread
  <2>2. CASE Valid(foreground)
    <3>1. foreground \in Tid /\ Posted(foreground, QUANTUM_MAX) /\ UNCHANGED credits
      BY <1>5, <2>2 DEF ibroker_post_message_to_fg_thread, TypeOK
    <3>2. QED
      BY <1>1, <1>2, <2>1, <3>1 DEF Posted, TypeOK
  <2>3. CASE ~Valid(foreground)
    BY <1>5, <2>1, <2>3 DEF ibroker_post_message_to_fg_thread, TypeOK, PanicPc
  <2>4. QED
    BY <2>2, <2>3
<1>6. CASE keCloseInitProcess
  <2>1. posts' \in 0 .. MaxPosts
    BY <1>3, <1>6 DEF keCloseInitProcess
  <2>2. Posted(INIT_TID, QUANTUM_MAX) /\ UNCHANGED credits
    BY <1>6 DEF keCloseInitProcess
  <2>3. QED
    BY <1>1, <1>2, <2>1, <2>2 DEF Posted, TypeOK
<1>7. CASE ipc_post_message_to_ds
  <2>1. posts' \in 0 .. MaxPosts
    BY <1>3, <1>7 DEF ipc_post_message_to_ds
  <2>2. CASE Valid(ds)
    <3>1. ds \in Tid
      BY <1>7 DEF ipc_post_message_to_ds, TypeOK
    <3>2. PICK mousemove \in BOOLEAN :
            Posted(ds, IF mousemove THEN 2 * QUANTUM_MAX ELSE QUANTUM_MAX)
      BY <1>7, <2>2 DEF ipc_post_message_to_ds
    <3>3. credits' \in [Tid -> 0 .. 2]
      BY <1>7, <2>2, <3>1 DEF ipc_post_message_to_ds, TypeOK
    <3>4. PICK q \in 1 .. QUANTUM_CEILING : Posted(ds, q)
      BY <1>2, <3>2
    <3>5. QED
      BY <1>1, <2>1, <3>1, <3>3, <3>4 DEF Posted, TypeOK
  <2>3. CASE ~Valid(ds)
    BY <1>7, <2>1, <2>3 DEF ipc_post_message_to_ds, TypeOK, PanicPc
  <2>4. QED
    BY <2>2, <2>3
<1>8. QED
  BY <1>4, <1>5, <1>6, <1>7 DEF Post

(* A service that only changes flags preserves the types.                  *)
LEMMA SetFlagsType ==
    ASSUME TypeOK, NEW f \in [Tid -> SUBSET Flag], SetFlags(f)
    PROVE  TypeOK'
  BY DEF SetFlags, TypeOK, locks, dispState, timing

(* The deferred requests and the message control services preserve the     *)
(* types.                                                                  *)
LEMMA FlagServiceType ==
    ASSUME TypeOK,
           sys_yield \/ sci0_exit \/ sys_msgctl \/ get_message_empty
             \/ sys_notify_event \/ enter_alertable
    PROVE  TypeOK'
<1> USE TidNat DEF Syscall, CurrentValid
<1>1. current \in Tid /\ flower[current] \in Tid
  BY DEF TypeOK, sys_yield, sci0_exit, sys_msgctl, get_message_empty,
         sys_notify_event, enter_alertable
<1>2. /\ {"yield"} \in SUBSET Flag /\ {"exit"} \in SUBSET Flag
      /\ {"block_on_empty"} \in SUBSET Flag /\ {"block"} \in SUBSET Flag
      /\ {"ds_event"} \in SUBSET Flag /\ {"alertable"} \in SUBSET Flag
  BY DEF Flag
<1>3. CASE sys_yield
  BY <1>1, <1>2, <1>3, FlagsType, SetFlagsType DEF sys_yield
<1>4. CASE sci0_exit
  BY <1>1, <1>2, <1>4, FlagsType, SetFlagsType DEF sci0_exit
<1>5. CASE sys_msgctl
  BY <1>1, <1>2, <1>5, FlagsType, SetFlagsType DEF sys_msgctl
<1>6. CASE get_message_empty
  BY <1>1, <1>2, <1>6, FlagsType, SetFlagsType DEF get_message_empty
<1>7. CASE sys_notify_event
  BY <1>2, <1>7, FlagsType, SetFlagsType DEF sys_notify_event
<1>8. CASE enter_alertable
  BY <1>1, <1>2, <1>8, FlagsType, SetFlagsType DEF enter_alertable
<1>9. QED
  BY <1>3, <1>4, <1>5, <1>6, <1>7, <1>8

(* Filling an empty slot with a new thread preserves the types.            *)
LEMMA FillType ==
    ASSUME TypeOK, NEW t \in Tid, NEW st \in [Tid -> ThreadState],
           NEW q \in [Tid -> 1 .. QUANTUM_CEILING], NEW isSaved \in BOOLEAN,
           NEW fl \in Tid, Fill(t, st, q, isSaved, fl),
           UNCHANGED <<dispState, evResponder, foreground, ds, locks, posts, pc>>
    PROVE  TypeOK'
<1>1. /\ slot' \in [Tid -> {"null", "used", "cleared"}]
      /\ state' \in [Tid -> ThreadState]
      /\ quantum' \in [Tid -> 1 .. QUANTUM_CEILING]
      /\ waitReason' \in [Tid -> {"NULL", "LOOP"}]
  BY DEF Fill, TypeOK
<1>2. /\ flags' \in [Tid -> SUBSET Flag]
      /\ credits' \in [Tid -> 0 .. 2]
      /\ sleepFor' \in [Tid -> SleepMs \cup {0}]
      /\ wake' \in [Tid -> Nat]
  BY DEF Fill, TypeOK
<1>3. saved' \in [Tid -> BOOLEAN]
  BY DEF Fill, TypeOK
<1>4. flower' \in [Tid -> Tid] /\ next' \in [Tid -> Tid \cup {None}]
  BY DEF Fill, TypeOK
<1>5. QED
  BY <1>1, <1>2, <1>3, <1>4 DEF TypeOK, dispState, locks

(* Creating and cloning preserve the types, whether they succeed or not.   *)
LEMMA NewThreadType ==
    ASSUME TypeOK, sys_create_thread \/ copy_process \/ copy_process_fails
    PROVE  TypeOK'
<1> USE TidNat DEF Syscall, CurrentValid
<1>1. current \in Tid /\ flower[current] \in Tid
  BY DEF TypeOK, sys_create_thread, copy_process, copy_process_fails
<1>2. FreeTid \in Tid
  BY FreeTidIn DEF FreeSlots, sys_create_thread, copy_process, copy_process_fails
<1>3. /\ [state EXCEPT ![FreeTid] = "INITIALIZED"] \in [Tid -> ThreadState]
      /\ [state EXCEPT ![current] = "RUNNING", ![FreeTid] = "STANDBY"] \in [Tid -> ThreadState]
      /\ [state EXCEPT ![current] = "RUNNING", ![FreeTid] = "BLOCKED"] \in [Tid -> ThreadState]
  BY <1>1, <1>2 DEF TypeOK, ThreadState
<1>4. /\ QUANTUM_NORMAL_BALANCED \in 1 .. QUANTUM_CEILING
      /\ QUANTUM_SYSTEM_BALANCED \in 1 .. QUANTUM_CEILING
      /\ QUANTUM_NORMAL_THRESHOLD \in 1 .. QUANTUM_CEILING
      /\ QUANTUM_SYSTEM_THRESHOLD \in 1 .. QUANTUM_CEILING
      /\ QUANTUM_MAX \in 1 .. QUANTUM_CEILING
  BY QuantumLevels DEF QUANTUM_NORMAL_BALANCED, QUANTUM_SYSTEM_BALANCED,
                       QUANTUM_NORMAL_THRESHOLD, QUANTUM_SYSTEM_THRESHOLD
<1>5. ASSUME NEW q \in 1 .. QUANTUM_CEILING
      PROVE  /\ [quantum EXCEPT ![FreeTid] = q] \in [Tid -> 1 .. QUANTUM_CEILING]
             /\ [quantum EXCEPT ![current] = q, ![FreeTid] = q]
                  \in [Tid -> 1 .. QUANTUM_CEILING]
  BY <1>1, <1>2 DEF TypeOK
<1>6. CASE sys_create_thread
  <2>1. PICK q \in {QUANTUM_NORMAL_BALANCED, QUANTUM_SYSTEM_BALANCED} :
          Fill(FreeTid, [state EXCEPT ![FreeTid] = "INITIALIZED"],
               [quantum EXCEPT ![FreeTid] = q], FALSE, flower[current])
    BY <1>6 DEF sys_create_thread
  <2>2. q \in 1 .. QUANTUM_CEILING
    BY <1>4
  <2>3. UNCHANGED <<dispState, evResponder, foreground, ds, locks, posts, pc>>
    BY <1>6 DEF sys_create_thread
  <2>4. [quantum EXCEPT ![FreeTid] = q] \in [Tid -> 1 .. QUANTUM_CEILING]
    BY <1>5, <2>2
  <2>5. QED
    BY <1>1, <1>2, <1>3, <2>1, <2>3, <2>4, FillType
<1>7. CASE copy_process
  <2>1. PICK q \in {QUANTUM_NORMAL_THRESHOLD, QUANTUM_SYSTEM_THRESHOLD} :
          Fill(FreeTid, [state EXCEPT ![current] = "RUNNING", ![FreeTid] = "STANDBY"],
               [quantum EXCEPT ![current] = q, ![FreeTid] = q], FALSE, FreeTid)
    BY <1>7 DEF copy_process
  <2>2. q \in 1 .. QUANTUM_CEILING
    BY <1>4
  <2>3. UNCHANGED <<dispState, evResponder, foreground, ds, locks, posts, pc>>
    BY <1>7 DEF copy_process
  <2>4. [quantum EXCEPT ![current] = q, ![FreeTid] = q] \in [Tid -> 1 .. QUANTUM_CEILING]
    BY <1>5, <2>2
  <2>5. QED
    BY <1>2, <1>3, <2>1, <2>3, <2>4, FillType
<1>8. CASE copy_process_fails
  <2>1. PICK q \in 1 .. QUANTUM_CEILING, isSaved \in BOOLEAN :
          Fill(FreeTid, [state EXCEPT ![current] = "RUNNING", ![FreeTid] = "BLOCKED"],
               [quantum EXCEPT ![FreeTid] = q], isSaved, FreeTid)
    <3> DEFINE q == IF quantum[current] > QUANTUM_MAX THEN QUANTUM_MAX
                    ELSE quantum[current]
    <3>1. Fill(FreeTid, [state EXCEPT ![current] = "RUNNING", ![FreeTid] = "BLOCKED"],
               [quantum EXCEPT ![FreeTid] = q], saved[current], FreeTid)
      BY <1>8 DEF copy_process_fails
    <3>2. q \in 1 .. QUANTUM_CEILING
      BY <1>1, <1>4 DEF TypeOK
    <3>3. saved[current] \in BOOLEAN
      BY <1>1 DEF TypeOK
    <3> HIDE DEF q
    <3>4. QED
      BY <3>1, <3>2, <3>3
  <2>2. UNCHANGED <<dispState, evResponder, foreground, ds, locks, posts, pc>>
    BY <1>8 DEF copy_process_fails
  <2>3. [quantum EXCEPT ![FreeTid] = q] \in [Tid -> 1 .. QUANTUM_CEILING]
    BY <1>5
  <2>4. CASE isSaved = TRUE
    <3>1. Fill(FreeTid, [state EXCEPT ![current] = "RUNNING", ![FreeTid] = "BLOCKED"],
               [quantum EXCEPT ![FreeTid] = q], TRUE, FreeTid)
      BY <2>1, <2>4
    <3>2. QED
      BY <1>2, <1>3, <2>2, <2>3, <3>1, FillType
  <2>5. CASE isSaved = FALSE
    <3>1. Fill(FreeTid, [state EXCEPT ![current] = "RUNNING", ![FreeTid] = "BLOCKED"],
               [quantum EXCEPT ![FreeTid] = q], FALSE, FreeTid)
      BY <2>1, <2>5
    <3>2. QED
      BY <1>2, <1>3, <2>2, <2>3, <3>1, FillType
  <2>6. QED
    BY <2>1, <2>4, <2>5
<1>9. QED
  BY <1>6, <1>7, <1>8

(* Every system call preserves the types.                                  *)
LEMMA ServiceType == TypeOK /\ Service => TypeOK'
<1> SUFFICES ASSUME TypeOK, Service PROVE TypeOK'
  OBVIOUS
<1> USE TidNat DEF Syscall, CurrentValid, perThread, locks, dispState, timing
<1>1. CASE sys_sleep
  <2>1. current \in Tid
    BY <1>1 DEF sys_sleep, TypeOK
  <2>2. flags' \in [Tid -> SUBSET Flag]
    BY <1>1, <2>1, FlagsType DEF sys_sleep, Flag
  <2>3. sleepFor' \in [Tid -> SleepMs \cup {0}]
    BY <1>1, <2>1 DEF sys_sleep, TypeOK
  <2>4. QED
    BY <1>1, <2>2, <2>3 DEF sys_sleep, TypeOK
<1>2. CASE callback_is_restored
  <2>1. current \in Tid
    BY <1>2 DEF callback_is_restored, TypeOK
  <2>2. CASE "callback" \in flags[current]
    <3>1. flags' \in [Tid -> SUBSET Flag]
      BY <1>2, <2>1, <2>2, FlagsType DEF callback_is_restored, Flag
    <3>2. QED
      BY <1>2, <2>2, <3>1 DEF callback_is_restored, TypeOK
  <2>3. CASE "callback" \notin flags[current]
    BY <1>2, <2>3 DEF callback_is_restored, TypeOK, PanicPc
  <2>4. QED
    BY <2>2, <2>3
<1>3. CASE do_waitpid
  <2>1. flower[current] \in Tid
    BY <1>3 DEF do_waitpid, TypeOK
  <2>2. QED
    BY <1>3, <2>1 DEF do_waitpid, TypeOK, ThreadState
<1>4. CASE do_credits
  BY <1>4 DEF do_credits, TypeOK
<1>5. CASE dispsrv_setup_ds_info
  BY <1>5 DEF dispsrv_setup_ds_info, TypeOK
<1>6. CASE set_foreground
  <2>1. PICK t \in Tid : /\ quantum' = [quantum EXCEPT ![t] = QUANTUM_MAX + FOCUS_BONUS]
                         /\ foreground' = t
    BY <1>6 DEF set_foreground
  <2>2. quantum' \in [Tid -> 1 .. QUANTUM_CEILING]
    BY <2>1, QuantumLevels DEF TypeOK
  <2>3. QED
    BY <1>6, <2>1, <2>2 DEF set_foreground, TypeOK
<1>7. CASE lose_foreground
  BY <1>7 DEF lose_foreground, TypeOK
<1>8. CASE create_thread_fails
  BY <1>8 DEF create_thread_fails, NoSlot, TypeOK, PanicPc
<1>9. CASE core_start_thread
  BY <1>9 DEF core_start_thread, TypeOK, ThreadState
<1>10. CASE copy_process_mismatch
  <2>1. flower[current] \in Tid
    BY <1>10 DEF copy_process_mismatch, TypeOK
  <2>2. QED
    BY <1>10, <2>1 DEF copy_process_mismatch, TypeOK, ThreadState, PanicPc
<1>11. CASE set_locks
  <2>1. taskLocked' \in BOOLEAN /\ schedLocked' \in BOOLEAN
    BY <1>11 DEF set_locks, TypeOK
  <2>2. QED
    BY <1>11, <2>1 DEF set_locks, TypeOK
<1>12. QED
  BY <1>1, <1>2, <1>3, <1>4, <1>5, <1>6, <1>7, <1>8, <1>9, <1>10, <1>11,
     FlagServiceType, NewThreadType DEF Service

(* Every step of the specification preserves the types.                    *)
LEMMA StepType == TypeOK /\ [Next]_vars => TypeOK'
<1> SUFFICES ASSUME TypeOK, [Next]_vars PROVE TypeOK'
  OBVIOUS
<1>1. CASE UNCHANGED vars
  BY <1>1 DEF vars, perThread, globals, TypeOK
<1>2. CASE Halted
  BY <1>1, <1>2 DEF Halted
<1>3. QED
  BY <1>1, <1>2, TickType, SwitchType, PostType, ServiceType DEF Next

(* TypeOK holds in every reachable state: quanta stay within the ceiling,  *)
(* waits never run below zero, links and roles name threads of the table.  *)
THEOREM TypeCorrect == Spec => []TypeOK
  BY InitType, StepType, PTL DEF Spec
=============================================================================
