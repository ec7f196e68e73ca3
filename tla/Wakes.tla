-------------------------------- MODULE Wakes --------------------------------
(***************************************************************************)
(* What a thread waits for, beside what the kernel remembers of it.  The   *)
(* kernel stores wait_reason when the scheduler serves a deferred block,   *)
(* and clears it when an event of the display server ends the wait; the    *)
(* variable listening is a history of Intake that follows the wait itself. *)
(***************************************************************************)
EXTENDS Intake

VARIABLE listening  \* the threads whose present wait is for messages

(* The scheduler serves the deferred block of t: a wait for messages.      *)
Blocks(t) == "block" \in flags[t] \ flags'[t]

(* A wait for messages goes on as long as the thread stays BLOCKED.        *)
Listen ==
    listening' = {t \in Tid : state'[t] = "BLOCKED" /\ (Blocks(t) \/ t \in listening)}

WakeNext == Next /\ Listen

wakeVars == <<vars, listening>>

WakeSpec == Init /\ listening = {} /\ [][WakeNext]_wakeVars

(***************************************************************************)
(* The record is never too short: the kernel knows of every thread that    *)
(* waits for messages, so that an event of the display server wakes it.    *)
(***************************************************************************)
ListenerRecorded == \A t \in listening : waitReason[t] = "LOOP"

(* The scheduler takes an event of the display server for t, and ends the  *)
(* wait of t.                                                              *)
EventWakes(t) ==
    /\ "ds_event" \in flags[t] \ flags'[t]
    /\ state[t] \in {"WAITING", "BLOCKED"} /\ state'[t] = "READY"

(***************************************************************************)
(* But it may be too long.  A thread with wait_reason LOOP is "Waiting for *)
(* a system message (event loop)" (thread.h): an event of the display      *)
(* server wakes a thread that does, and none that sleeps or waits for a    *)
(* child.                                                                  *)
(***************************************************************************)
WakesListener ==
    [][\A t \in Tid : EventWakes(t) => t \in listening]_wakeVars
=============================================================================
