-------------------------------- MODULE Sched --------------------------------
(***************************************************************************)
(* The round-robin scheduler of sched/sched.c, the configured policy: one  *)
(* pass over threadList that wakes, blocks, kills and reaps threads and    *)
(* links the READY ones into the next round, behind the init thread and in *)
(* tid order.                                                              *)
(***************************************************************************)
EXTENDS ThreadTable

(* The threads of the loop: every structure except the init thread's.      *)
Scanned(t) == t # INIT_TID /\ Valid(t)

(* The three early branches of the loop, in the order they are tried; each *)
(* of them ends in `continue`, so the thread is left out of this round.    *)
DsEventDue(t) == Scanned(t) /\ "ds_event" \in flags[t]
BlockDue(t) == Scanned(t) /\ "ds_event" \notin flags[t] /\ "block" \in flags[t]

(* Mutant: only a RUNNING thread is allowed to exit.                       *)
ExitDueIfRunning(t) == Scanned(t) /\ "exit" \in flags[t] /\ state[t] = "RUNNING"

ExitDue(t) == Scanned(t) /\ flags[t] \cap {"ds_event", "block", "exit"} = {"exit"}

Regular(t) == Scanned(t) /\ ~DsEventDue(t) /\ ~BlockDue(t) /\ ~ExitDue(t)

(* Mutant: the last tick of a sleep is not waited for.                     *)
WakeDueEarly(t) == Regular(t) /\ state[t] = "WAITING" /\ wake[t] <= 1

(* Mutant: the request, which has been served, must still be set.          *)
WakeDueIfRequested(t) ==
    Regular(t) /\ state[t] = "WAITING" /\ wake[t] = 0 /\ "sleep" \in flags[t]

WakeDue(t) == Regular(t) /\ state[t] = "WAITING" /\ wake[t] = 0
Reaped(t) == Regular(t) /\ state[t] = "ZOMBIE"

(* Mutant: a thread that still waits is put into the round.                *)
EnrolledAsleep(t) == Regular(t) /\ state[t] \in {"READY", "WAITING", "BLOCKED"}

Enrolled(t) == Regular(t) /\ (state[t] = "READY" \/ WakeDue(t))

Round == {INIT_TID} \cup {t \in Tid : Enrolled(t)}

(* Mutant: the round is closed into a circle.                              *)
CircularSuccessor(S, t) ==
    IF \E u \in S : u > t THEN Min({u \in S : u > t}) ELSE INIT_TID

(* The link that appending the members of a round in tid order gives to t. *)
Successor(S, t) ==
    IF \E u \in S : u > t THEN Min({u \in S : u > t}) ELSE None

(* Mutant: the load is already high with three READY threads.              *)
InitQuantumAtThree ==
    IF Cardinality(Round \ {INIT_TID}) >= 3
    THEN QUANTUM_NORMAL_THRESHOLD ELSE QUANTUM_NORMAL_BALANCED

(* sched_quick_and_dirty_load_balancer, run on the threads just enrolled.  *)
InitQuantum ==
    IF Cardinality(Round \ {INIT_TID}) > 3
    THEN QUANTUM_NORMAL_THRESHOLD ELSE QUANTUM_NORMAL_BALANCED

(* t->quantum and t->credits of a thread put into the round.               *)
RoundQuantum(t) ==
    IF credits[t] >= 2 THEN QUANTUM_NORMAL_BALANCED + 1 ELSE QUANTUM_NORMAL_BALANCED

NewState(t) ==
    CASE t = INIT_TID                     -> "READY"
      [] DsEventDue(t) /\ Unblockable(t)  -> "READY"
      [] BlockDue(t)                      -> "BLOCKED"
      [] ExitDue(t)                       -> "ZOMBIE"
      [] WakeDue(t)                       -> "READY"
      [] OTHER                            -> state[t]

NewReason(t) ==
    CASE DsEventDue(t) /\ Unblockable(t)  -> "NULL"
      [] BlockDue(t)                      -> "LOOP"
      [] OTHER                            -> waitReason[t]

NewFlags(t) ==
    CASE DsEventDue(t) -> flags[t] \ {"ds_event"}
      [] BlockDue(t)   -> flags[t] \ {"block"}
      [] OTHER         -> flags[t]

(* Mutant: the focus stays with the zombie.                                *)
KeepForeground == foreground

(* The foreground thread has become a zombie: nobody has the input focus.  *)
NewForeground ==
    IF foreground # None /\ ExitDue(foreground) THEN None ELSE foreground

(***************************************************************************)
(* __scheduler_rr: everything one pass changes.  The round starts at the   *)
(* init thread, whatever its state was.                                    *)
(***************************************************************************)
scheduler_rr ==
    /\ state' = [t \in Tid |-> NewState(t)]
    /\ waitReason' = [t \in Tid |-> NewReason(t)]
    /\ flags' = [t \in Tid |-> NewFlags(t)]
    /\ slot' = [t \in Tid |-> IF Reaped(t) THEN "cleared" ELSE slot[t]]
    /\ quantum' = [t \in Tid |-> IF t = INIT_TID THEN InitQuantum
                                 ELSE IF Enrolled(t) THEN RoundQuantum(t)
                                 ELSE quantum[t]]
    /\ credits' = [t \in Tid |-> IF Enrolled(t) /\ credits[t] >= 2 THEN 0 ELSE credits[t]]
    /\ next' = [t \in Tid |-> IF t \in Round THEN Successor(Round, t) ELSE next[t]]
    /\ currentq' = INIT_TID
    /\ foreground' = NewForeground
    /\ ds' = IF ds # None /\ Reaped(ds) THEN None ELSE ds
    /\ UNCHANGED <<sleepFor, wake, saved, flower>>

(***************************************************************************)
(* psScheduler and scheduler(): the tid of the thread to dispatch, -1 when *)
(* the scheduler is locked.                                                *)
(***************************************************************************)
psScheduler ==
    IF schedLocked
    THEN current' = None /\ UNCHANGED <<perThread, currentq, foreground, ds>>
    ELSE current' = INIT_TID /\ scheduler_rr
=============================================================================
