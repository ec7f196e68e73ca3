-------------------------------- MODULE Nic ----------------------------------
(***************************************************************************)
(* The driver of the Intel network card (e1000hw.c) and the card itself.   *)
(* The card writes frames into a ring of descriptors and raises causes of  *)
(* interrupt while the driver runs; the driver runs with interrupts off,   *)
(* as an interrupt handler or under a system call that sends.              *)
(*                                                                         *)
(* The steps of the card are modelled from the registers and descriptors   *)
(* that the driver uses: RDH and RDT delimit the descriptors that the card *)
(* may fill, reading ICR clears it, a descriptor with RS set raises TXDW.  *)
(***************************************************************************)
EXTENDS Integers

CONSTANTS
    RECEIVE_BUFFER_MAX,  \* descriptors of the receive ring, 32 in e1000.h
    Frames,              \* what the host receives
    Sendings,            \* what the host sends
    NoFrame

ASSUME NicAssumption ==
    /\ RECEIVE_BUFFER_MAX \in Nat /\ RECEIVE_BUFFER_MAX >= 2
    /\ NoFrame \notin Frames \cup Sendings

VARIABLES
    rx_buffers,   \* rx_buffers_virt: what the buffers hold
    rx_done,      \* the descriptors whose status says that a frame is there
    RDH, RDT,     \* registers: next descriptor to fill, first one not to fill
    rx_cur,       \* the next descriptor that the driver looks at
    old,          \* the descriptor whose frame is being handled
    ICR,          \* register: the causes of interrupt raised
    InterruptCause,  \* the copy of it that the handler works from
    tx,           \* the frame that the card has to transmit
    npc,          \* where the driver is; "run" when it is not running
    back          \* where a send returns to

nicVars == <<rx_buffers, rx_done, RDH, RDT, rx_cur, old, ICR, InterruptCause, tx, npc, back>>

Desc == 0 .. (RECEIVE_BUFFER_MAX - 1)
Round(i) == IF i + 1 = RECEIVE_BUFFER_MAX THEN 0 ELSE i + 1

(* The causes that the handler tells apart; TXQE comes with TXDW, and      *)
(* RXDMT0 and SRPD are only asked for after RXT0 and do nothing.           *)
Causes == {"TXDW", "LSC", "RXT0"}
NicPc == {"run", "clear", "receive", "handle", "send"}

(* __initialize_rx_support and __e1000_enable_interrupt.                   *)
NicInit ==
    /\ rx_buffers = [i \in Desc |-> NoFrame] /\ rx_done = {}
    /\ RDH = 0 /\ RDT = RECEIVE_BUFFER_MAX - 1
    /\ rx_cur = 0 /\ old = 0
    /\ ICR = {} /\ InterruptCause = {}
    /\ tx = NoFrame
    /\ npc = "run" /\ back = "run"

-----------------------------------------------------------------------------
(* The card.                                                               *)

(* A frame arrives and there is a descriptor for it.                       *)
CardReceives(f) ==
    /\ RDH # RDT
    /\ rx_buffers' = [rx_buffers EXCEPT ![RDH] = f]
    /\ rx_done' = rx_done \cup {RDH}
    /\ RDH' = Round(RDH)
    /\ ICR' = ICR \cup {"RXT0"}
    /\ UNCHANGED <<RDT, rx_cur, old, InterruptCause, tx, npc, back>>

(* The frame to send is on the wire, and its descriptor says so.           *)
CardTransmits ==
    /\ tx # NoFrame
    /\ tx' = NoFrame
    /\ ICR' = ICR \cup {"TXDW"}
    /\ UNCHANGED <<rx_buffers, rx_done, RDH, RDT, rx_cur, old, InterruptCause, npc, back>>

CardLinkChanges ==
    /\ ICR' = ICR \cup {"LSC"}
    /\ UNCHANGED <<rx_buffers, rx_done, RDH, RDT, rx_cur, old, InterruptCause, tx, npc, back>>

-----------------------------------------------------------------------------
(* The driver.                                                             *)

(* The interrupt: ICR is read.                                             *)
irq_E1000 ==
    /\ npc = "run" /\ ICR # {}
    /\ InterruptCause' = ICR /\ ICR' = {}
    /\ npc' = "clear"
    /\ UNCHANGED <<rx_buffers, rx_done, RDH, RDT, rx_cur, old, tx, back>>

(* ICR is cleared once more, and one of the causes is served: the first of *)
(* TXDW, LSC and RXT0.                                                     *)
e1000hw_service_procedure ==
    /\ npc = "clear"
    /\ ICR' = {}
    /\ npc' = IF {"TXDW", "LSC"} \cap InterruptCause # {} THEN "run" ELSE "receive"
    /\ InterruptCause' = {}
    /\ UNCHANGED <<rx_buffers, rx_done, RDH, RDT, rx_cur, old, tx, back>>

(* Mutant: the ring has moved on when the card is told.                    *)
on_receive_gives_own_buffer ==
    /\ npc = "receive" /\ rx_cur \in rx_done
    /\ old' = rx_cur
    /\ rx_cur' = Round(rx_cur)
    /\ rx_done' = rx_done \ {rx_cur}
    /\ RDT' = Round(rx_cur)
    /\ npc' = "handle"
    /\ UNCHANGED <<rx_buffers, RDH, ICR, InterruptCause, tx, back>>

(* __e1000_on_receive: take the next frame of the ring; its descriptor is  *)
(* given to the card before the frame is handled.                          *)
e1000_on_receive ==
    /\ npc = "receive" /\ rx_cur \in rx_done
    /\ old' = rx_cur
    /\ rx_cur' = Round(rx_cur)
    /\ rx_done' = rx_done \ {rx_cur}
    /\ RDT' = rx_cur
    /\ npc' = "handle"
    /\ UNCHANGED <<rx_buffers, RDH, ICR, InterruptCause, tx, back>>

(* The ring is empty, and the interrupt is over.                           *)
e1000_on_receive_ends ==
    /\ npc = "receive" /\ rx_cur \notin rx_done
    /\ npc' = "run"
    /\ UNCHANGED <<rx_buffers, rx_done, RDH, RDT, rx_cur, old, ICR, InterruptCause, tx, back>>

(* The frame that network_on_receiving is given.                           *)
Received == rx_buffers[old]

(* It is handled without an answer.  Nobody looks at the buffer again      *)
(* before the card has written it.                                         *)
Handled ==
    /\ npc = "handle"
    /\ npc' = "receive"
    /\ rx_buffers' = [rx_buffers EXCEPT ![old] = NoFrame]
    /\ UNCHANGED <<rx_done, RDH, RDT, rx_cur, old, ICR, InterruptCause, tx, back>>

(* e1000hw_send, called at npc = from: the frame is handed to the card ... *)
e1000hw_send(f, from, to) ==
    /\ npc = from
    /\ tx' = f
    /\ npc' = "send" /\ back' = to
    /\ UNCHANGED <<rx_buffers, rx_done, RDH, RDT, rx_cur, old, ICR, InterruptCause>>

(* ... and the driver spins until the card has sent it.                    *)
Sent == npc = "send" /\ tx = NoFrame

e1000hw_send_returns ==
    /\ Sent
    /\ npc' = back /\ back' = "run"
    /\ rx_buffers' = IF back = "receive" THEN [rx_buffers EXCEPT ![old] = NoFrame] ELSE rx_buffers
    /\ UNCHANGED <<rx_done, RDH, RDT, rx_cur, old, ICR, InterruptCause, tx>>

-----------------------------------------------------------------------------
NicTypeOK ==
    /\ rx_buffers \in [Desc -> Frames \cup {NoFrame}]
    /\ rx_done \subseteq Desc
    /\ {RDH, RDT, rx_cur, old} \subseteq Desc
    /\ ICR \subseteq Causes /\ InterruptCause \subseteq Causes
    /\ tx \in Sendings \cup {NoFrame}
    /\ npc \in NicPc /\ back \in {"run", "receive"}

(* The descriptors from i up to, but not including, j, around the ring.    *)
Between(i, j) ==
    IF i <= j THEN i .. (j - 1) ELSE (i .. (RECEIVE_BUFFER_MAX - 1)) \cup (0 .. (j - 1))

(* The frame of the descriptor old is in use: it is being handled, or the  *)
(* answer to it is being sent.                                             *)
InUse == npc = "handle" \/ (npc = "send" /\ back = "receive")

(***************************************************************************)
(* The driver gives a descriptor back before it handles the frame in it    *)
(* ("#bugbug: devemos circular primeiro pra depois chamar essa rotina?").  *)
(* All the same the card never writes over a frame that the driver has not *)
(* taken or is handling, and the driver always looks where the oldest      *)
(* frame is.                                                               *)
(***************************************************************************)
RingSound ==
    /\ rx_done = Between(rx_cur, RDH)
    /\ Between(RDH, RDT) \cap rx_done = {}
    /\ InUse => old \notin Between(RDH, RDT) \cup rx_done
=============================================================================
