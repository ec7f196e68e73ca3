----------------------------- MODULE PacketRing ------------------------------
(***************************************************************************)
(* The buffers of the system port 11888 (nb_rx_11888 in net.c): payloads   *)
(* that arrive for the port, or that a program injects, wait in a circle   *)
(* of slots until a program takes them.  A push writes the slot at the     *)
(* tail, full or not; a pop moves the head on even when its slot is empty. *)
(***************************************************************************)
EXTENDS Integers

CONSTANTS
    RX_SLOTS,     \* number of slots, 32 in net.c
    MaxPackets    \* bound: payloads pushed in a behaviour

ASSUME RingAssumption == RX_SLOTS \in Nat /\ RX_SLOTS >= 2 /\ MaxPackets \in Nat

VARIABLES
    payload,        \* what the slots hold: the number of a payload, 0 at first
    is_full,        \* the slots marked as full
    receive_head, receive_tail,
    pushed,         \* history: number of payloads pushed
    popped          \* history: the last payload popped

ringVars == <<payload, is_full, receive_head, receive_tail, pushed, popped>>

Slots == 0 .. (RX_SLOTS - 1)

(* Mutant: the index is tested against the number of slots.                *)
NextSlotTooFar(i) == IF i + 1 > RX_SLOTS THEN 0 ELSE i + 1

NextSlot(i) == IF i + 1 >= RX_SLOTS THEN 0 ELSE i + 1

(* The part of netInitialize that makes the buffers.                       *)
RingInit ==
    /\ payload = [i \in Slots |-> 0] /\ is_full = {}
    /\ receive_head = 0 /\ receive_tail = 0
    /\ pushed = 0 /\ popped = 0

network_push_packet ==
    /\ pushed < MaxPackets
    /\ payload' = [payload EXCEPT ![receive_tail] = pushed + 1]
    /\ is_full' = is_full \cup {receive_tail}
    /\ receive_tail' = NextSlot(receive_tail)
    /\ pushed' = pushed + 1
    /\ UNCHANGED <<receive_head, popped>>

(* Mutant: the slot stays full.                                            *)
pop_leaves_full ==
    /\ receive_head' = NextSlot(receive_head)
    /\ popped' = IF receive_head \in is_full THEN payload[receive_head] ELSE popped
    /\ UNCHANGED <<payload, is_full, receive_tail, pushed>>

network_pop_packet ==
    /\ receive_head' = NextSlot(receive_head)
    /\ popped' = IF receive_head \in is_full THEN payload[receive_head] ELSE popped
    /\ is_full' = is_full \ {receive_head}
    /\ UNCHANGED <<payload, receive_tail, pushed>>

-----------------------------------------------------------------------------
RingTypeOK ==
    /\ payload \in [Slots -> 0 .. MaxPackets]
    /\ is_full \subseteq Slots
    /\ receive_head \in Slots /\ receive_tail \in Slots
    /\ pushed \in 0 .. MaxPackets /\ popped \in 0 .. MaxPackets

(* The payloads that wait in the ring.                                     *)
InRing == {payload[i] : i \in is_full}

Port == INSTANCE Mailbox WITH
            Ids <- 1 .. MaxPackets, waiting <- InRing,
            gone <- (1 .. pushed) \ InRing, last <- popped
=============================================================================
