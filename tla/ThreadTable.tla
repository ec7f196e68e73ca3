----------------------------- MODULE ThreadTable -----------------------------
(***************************************************************************)
(* The thread table of the Gramado kernel (ke/intake): the fields of       *)
(* struct thread_d that the scheduler, the task switcher and the IPC code  *)
(* read, the global scheduling variables around it, and the state setters  *)
(* of sched/schedi.c.                                                      *)
(*                                                                         *)
(* The fields that only statistics read (step, *_ms, readyCount, alarm,    *)
(* scheduledCount, priority under round robin) are left out.  The counter  *)
(* runningCount belongs to every thread in the code, but every switch to a *)
(* thread resets it, so only the value of the current thread is kept.      *)
(***************************************************************************)
EXTENDS Integers, FiniteSets, FiniteSetsExt

CONSTANTS
    THREAD_COUNT_MAX,    \* size of threadList
    USER_THRESHOLD_TID,  \* first tid create_thread tries
    QUANTUM_MAX,         \* the largest quantum, 6 in quantum.h
    FOCUS_BONUS,         \* what service 10011 adds to QUANTUM_MAX, 88 in sci.c
    SleepMs,             \* arguments that threads pass to sys_sleep
    MaxPosts,            \* bound: messages posted in a behaviour
    Calls,               \* the kernel services the programs of this instance use
    Callers,             \* the threads whose programs use them, the others compute
    Booted               \* TRUE: start when init has unlocked the scheduler (643);
                         \* FALSE: start when init has enabled interrupts (int 199)

ASSUME TableAssumption ==
    /\ THREAD_COUNT_MAX \in Nat /\ USER_THRESHOLD_TID \in Nat
    /\ 1 < USER_THRESHOLD_TID /\ USER_THRESHOLD_TID < THREAD_COUNT_MAX
    /\ QUANTUM_MAX \in Nat /\ QUANTUM_MAX >= 3 /\ FOCUS_BONUS \in Nat
    /\ SleepMs \subseteq Nat
    /\ MaxPosts \in Nat
    /\ Callers \subseteq 0 .. (THREAD_COUNT_MAX - 1)
    /\ Booted \in BOOLEAN

INIT_TID == 0
Tid == 0 .. (THREAD_COUNT_MAX - 1)

(* tid -1 and the NULL thread pointer.                                     *)
None == -1

(* The quantum levels of quantum.h, with CONFIG_QUANTUM_MULTIPLIER = 1: the *)
(* two system levels are the ones just below QUANTUM_MAX.                  *)
QUANTUM_MIN == 1
QUANTUM_NORMAL_THRESHOLD == 1
QUANTUM_NORMAL_BALANCED == 2
QUANTUM_SYSTEM_THRESHOLD == QUANTUM_MAX - 2
QUANTUM_SYSTEM_BALANCED == QUANTUM_MAX - 1

(* The largest quantum any code stores: a mouse move doubles QUANTUM_MAX,  *)
(* the input focus adds FOCUS_BONUS.                                       *)
QUANTUM_CEILING == QUANTUM_MAX + (IF FOCUS_BONUS > QUANTUM_MAX THEN FOCUS_BONUS
                                  ELSE QUANTUM_MAX)

ThreadState ==
    {"INITIALIZED", "STANDBY", "READY", "RUNNING", "BLOCKED", "WAITING", "ZOMBIE"}

(***************************************************************************)
(* The flags of a thread: the deferred requests (Deferred.yield_in_-       *)
(* progress, sleep_in_progress, exit_in_progress), the message control     *)
(* flags (msgctl.block_on_empty, block_in_progress, has_event_from_ds),    *)
(* has_pending_event, is_alertable and callback_in_progress.               *)
(***************************************************************************)
Flag == {"yield", "sleep", "exit", "block_on_empty", "block", "ds_event",
         "pending", "alertable", "callback"}

(* A panic() or keDie() is a value of pc named for the routine that failed. *)
PanicPc == {"panic:ts", "panic:spawn", "panic:dispatcher", "panic:callback",
            "panic:ipc", "panic:create_thread", "panic:copy_process"}

(* "user" is any point outside the timer interrupt; the others are places  *)
(* inside __task_switch: the check for a STANDBY thread and the labels     *)
(* ZeroGravity, go_ahead and dispatch_current.                             *)
Label == {"user", "standby", "ZeroGravity", "go_ahead", "dispatch_current"}

VARIABLES
    slot,       \* threadList[t]: "null", "used", or "cleared" (used=FALSE, magic=0)
    state,      \* t->state
    waitReason, \* t->wait_reason: WAIT_REASON_LOOP is the only reason ever stored
    flags,      \* the set of flags of t that are TRUE
    quantum,    \* t->quantum
    credits,    \* t->credits, cut at 2, the only value the code compares it with
    sleepFor,   \* t->Deferred.desired_sleep_ms
    wake,       \* ticks left until jiffies >= t->wake_jiffy
    saved,      \* t->saved
    flower,     \* tid of the flower thread of t's process
    next        \* t->next, the link of the round

VARIABLES
    current,      \* current_thread
    runningCount, \* runningCount of the current thread
    currentq,     \* the position in the round
    evResponder,  \* ev_responder_thread
    foreground,   \* foreground_thread
    ds,           \* DisplayServerInfo.tid, None when it is not initialized
    taskLocked,   \* task_switch_status = LOCKED
    schedLocked,  \* SchedulerInfo.is_locked = LOCKED
    posts,        \* messages posted so far (history, for the bound)
    pc            \* "user" outside the timer interrupt, else a label of ts.c

perThread == <<slot, state, waitReason, flags, quantum, credits, sleepFor, wake,
               saved, flower, next>>
globals == <<current, runningCount, currentq, evResponder, foreground, ds,
             taskLocked, schedLocked, posts, pc>>
vars == <<perThread, globals>>

(* threadList[t] is a structure that passes the used/magic validation.     *)
Valid(t) == slot[t] = "used"

(* The reasons that a message or a display server event may interrupt.     *)
Unblockable(t) == state[t] \in {"WAITING", "BLOCKED"} /\ waitReason[t] = "LOOP"

Raise(t, f) == [flags EXCEPT ![t] = @ \cup f]
Drop(t, f) == [flags EXCEPT ![t] = @ \ f]

(***************************************************************************)
(* The init process in ring 3, the only thread, RUNNING, with interrupts   *)
(* enabled.  turn_task_switch_on has unlocked the task switch; init_-      *)
(* scheduler left the scheduler locked, and init unlocks it by service 643 *)
(* some instructions later.                                                *)
(***************************************************************************)
Init ==
    /\ slot = [t \in Tid |-> IF t = INIT_TID THEN "used" ELSE "null"]
    /\ state = [t \in Tid |-> IF t = INIT_TID THEN "RUNNING" ELSE "INITIALIZED"]
    /\ waitReason = [t \in Tid |-> "NULL"]
    /\ flags = [t \in Tid |-> {}]
    /\ quantum = [t \in Tid |-> QUANTUM_NORMAL_THRESHOLD]
    /\ credits = [t \in Tid |-> 0]
    /\ sleepFor = [t \in Tid |-> 0]
    /\ wake = [t \in Tid |-> 0]
    /\ saved = [t \in Tid |-> FALSE]
    /\ flower = [t \in Tid |-> t]
    /\ next = [t \in Tid |-> None]
    /\ current = INIT_TID
    /\ runningCount = 0
    /\ currentq = INIT_TID
    /\ evResponder = None
    /\ foreground = INIT_TID
    /\ ds = None
    /\ taskLocked = FALSE
    /\ schedLocked = ~Booted
    /\ posts = 0
    /\ pc = "user"
=============================================================================
