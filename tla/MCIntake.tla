------------------------------ MODULE MCIntake -------------------------------
(***************************************************************************)
(* What TLC checks of Intake beyond its invariants: the liveness of the    *)
(* timer tick and of the deferred requests, and the sentences of comments  *)
(* in the source that the code does not keep.                              *)
(***************************************************************************)
EXTENDS Intake

Panicked == pc \in PanicPc

(***************************************************************************)
(* Interrupts are off in __task_switch, so its jumps back to ZeroGravity   *)
(* must end: every tick returns to ring 3 or panics.                       *)
(***************************************************************************)
TickReturns == (pc \notin PanicPc \cup {"user"}) ~> (pc = "user" \/ Panicked)

(***************************************************************************)
(* No READY thread starves, although spawns and event responders break the *)
(* round (the messages of a behaviour are bounded by MaxPosts).            *)
(***************************************************************************)
ReadyRuns ==
    \A t \in Tid : (Valid(t) /\ state[t] = "READY") ~> (state[t] = "RUNNING" \/ Panicked)

(* A thread that sleeps runs again.                                        *)
SleeperWakes ==
    \A t \in Tid : (state[t] = "WAITING") ~> (state[t] = "RUNNING" \/ Panicked)

(* The load that lowers the quantum of the init thread to one tick.        *)
Loaded == Cardinality({t \in Tid \ {INIT_TID} : Valid(t) /\ state[t] = "READY"}) > 3

(***************************************************************************)
(* A deferred sleep request is honoured, at some tick, by sleep_until.     *)
(* The init thread is excepted when more than three other threads are      *)
(* READY again and again: the tick that ends a quantum does not look at    *)
(* the request, and a quantum of one tick, which the load balancer then    *)
(* gives it, has no other.                                                 *)
(***************************************************************************)
SleepTakesEffect ==
    \A t \in Tid :
      \/ ("sleep" \in flags[t]) ~> (state[t] = "WAITING" \/ Panicked)
      \/ t = INIT_TID /\ []<>Loaded

(***************************************************************************)
(* When the messages are over, a thread marked for exit stops running for  *)
(* ever, whatever still has to be done for it: a wait, a wake up, a spawn. *)
(***************************************************************************)
ExitStops ==
    \A t \in Tid \ {INIT_TID} :
      (posts = MaxPosts /\ "exit" \in flags[t])
        ~> ([](state[t] # "RUNNING") \/ Panicked)

-----------------------------------------------------------------------------
(* A sentence of the source that does not hold.                            *)

(* A message gives its receiver "the opportunity to run immediately"       *)
(* (ipc.c): a pending deferred block outlives the message.                 *)
ReceiverRuns ==
    \A t \in Tid : ("pending" \in flags[t]) ~> (state[t] = "RUNNING" \/ Panicked)

=============================================================================
