------------------------------ MODULE NetProofs ------------------------------
(***************************************************************************)
(* Proofs about the network: the receive ring is never written over, and   *)
(* the address in use has been leased, for every size of the ring, every   *)
(* set of servers and every budget.                                        *)
(***************************************************************************)
EXTENDS Net, TLAPS

-----------------------------------------------------------------------------
(* The ring.                                                               *)

(* The part of the type invariant that the ring needs.                     *)
IndexOK == rx_cur \in Desc /\ RDH \in Desc /\ RDT \in Desc /\ old \in Desc

(***************************************************************************)
(* The inductive invariant: the register RDT always names the descriptor   *)
(* before the one that the driver looks at, so that the one whose frame is *)
(* in use is the one that the card must not fill.                          *)
(***************************************************************************)
RingInv ==
    /\ IndexOK
    /\ rx_cur = Round(RDT)
    /\ rx_done = Between(rx_cur, RDH)
    /\ InUse => old = RDT
    /\ npc \in NicPc /\ back \in {"run", "receive"}

(* Around the ring, a descriptor is between i and j or not.                *)
LEMMA BetweenMember ==
    ASSUME NEW i \in Desc, NEW j \in Desc, NEW k \in Desc
    PROVE  k \in Between(i, j) <=> IF i <= j THEN i <= k /\ k < j ELSE i <= k \/ k < j
BY NicAssumption DEF Desc, Between

LEMMA BetweenDesc ==
    ASSUME NEW i \in Desc, NEW j \in Desc
    PROVE  Between(i, j) \subseteq Desc
BY NicAssumption DEF Desc, Between

LEMMA RoundDesc == ASSUME NEW i \in Desc PROVE Round(i) \in Desc
BY NicAssumption DEF Desc, Round

(* The card fills the descriptor at RDH.                                   *)
LEMMA BetweenGrows ==
    ASSUME NEW i \in Desc, NEW j \in Desc, Round(j) # i
    PROVE  Between(i, Round(j)) = Between(i, j) \cup {j}
<1>1. \A k \in Desc : k \in Between(i, Round(j)) <=> k \in Between(i, j) \cup {j}
  <2> TAKE k \in Desc
  <2> QED BY NicAssumption, BetweenMember, RoundDesc DEF Desc, Round
<1> QED BY <1>1, BetweenDesc, RoundDesc

(* The driver takes the frame at rx_cur.                                   *)
LEMMA BetweenShrinks ==
    ASSUME NEW i \in Desc, NEW j \in Desc, i \in Between(i, j)
    PROVE  Between(Round(i), j) = Between(i, j) \ {i}
<1>1. \A k \in Desc : k \in Between(Round(i), j) <=> k \in Between(i, j) \ {i}
  <2> TAKE k \in Desc
  <2> QED BY NicAssumption, BetweenMember, RoundDesc DEF Desc, Round
<1> QED BY <1>1, BetweenDesc, RoundDesc

(* The invariant says what the ring promises.                              *)
LEMMA RingInvSound == RingInv => RingSound
<1> SUFFICES ASSUME RingInv PROVE RingSound
  OBVIOUS
<1>1. \A k \in Desc : ~(k \in Between(RDH, RDT) /\ k \in Between(rx_cur, RDH))
  <2> TAKE k \in Desc
  <2> QED BY NicAssumption, BetweenMember, RoundDesc DEF RingInv, IndexOK, Desc, Round
<1>2. RDT \notin Between(RDH, RDT)
  BY NicAssumption, BetweenMember DEF RingInv, IndexOK, Desc
<1>3. RDT \notin Between(rx_cur, RDH)
  BY NicAssumption, BetweenMember, RoundDesc DEF RingInv, IndexOK, Desc, Round
<1> QED BY <1>1, <1>2, <1>3, BetweenDesc DEF RingInv, IndexOK, RingSound

(* What the steps of the driver and of the card do to the ring.            *)
LEMMA RingCardReceives ==
    ASSUME RingInv, NEW f, CardReceives(f)
    PROVE  RingInv'
<1>1. Round(RDH) # rx_cur
  BY NicAssumption DEF CardReceives, RingInv, IndexOK, Desc, Round
<1>2. rx_done' = Between(rx_cur', RDH')
  BY <1>1, BetweenGrows DEF CardReceives, RingInv, IndexOK
<1> QED BY <1>2, RoundDesc DEF CardReceives, RingInv, IndexOK, InUse

LEMMA RingOnReceive ==
    ASSUME RingInv, e1000_on_receive
    PROVE  RingInv'
<1>1. rx_done' = Between(rx_cur', RDH')
  BY BetweenShrinks DEF e1000_on_receive, RingInv, IndexOK
<1> QED BY <1>1, RoundDesc DEF e1000_on_receive, RingInv, IndexOK, InUse, NicPc

(* The other steps leave the ring alone; old is in use only after a frame  *)
(* was taken.                                                              *)
LEMMA RingOther ==
    ASSUME RingInv,
           \/ UNCHANGED nicVars
           \/ CardTransmits \/ CardLinkChanges \/ irq_E1000 \/ e1000hw_service_procedure
           \/ e1000_on_receive_ends \/ Handled \/ e1000hw_send_returns
           \/ \E f : \/ e1000hw_send(f, "handle", "receive")
                     \/ e1000hw_send(f, "run", "run")
                     \/ e1000hw_send(f, "send", "run")
    PROVE  RingInv'
<1>1. UNCHANGED <<rx_done, RDH, RDT, rx_cur, old>>
  BY DEF nicVars, CardTransmits, CardLinkChanges, irq_E1000, e1000hw_service_procedure,
         e1000_on_receive_ends, Handled, e1000hw_send_returns, e1000hw_send
<1>2. npc' \in NicPc /\ back' \in {"run", "receive"}
  BY DEF RingInv, NicPc, nicVars, CardTransmits, CardLinkChanges, irq_E1000,
         e1000hw_service_procedure, e1000_on_receive_ends, Handled, e1000hw_send_returns,
         e1000hw_send
<1>3. InUse' => InUse
  BY DEF RingInv, InUse, nicVars, CardTransmits, CardLinkChanges, irq_E1000,
         e1000hw_service_procedure, e1000_on_receive_ends, Handled, e1000hw_send_returns,
         e1000hw_send
<1> QED BY <1>1, <1>2, <1>3 DEF RingInv, IndexOK, Between, Round, Desc

LEMMA RingInvInit == NicInit => RingInv
<1> SUFFICES ASSUME NicInit PROVE RingInv
  OBVIOUS
<1>1. IndexOK /\ rx_cur = Round(RDT)
  BY NicAssumption DEF NicInit, IndexOK, Desc, Round
<1>2. Between(rx_cur, RDH) = {}
  BY NicAssumption DEF NicInit, Between
<1> QED BY <1>1, <1>2 DEF NicInit, RingInv, InUse, NicPc

-----------------------------------------------------------------------------
(* The medium.                                                             *)

LEMMA BagAdd ==
    ASSUME NEW b, NEW S
    PROVE  BagToSet(b (+) SetToBag(S)) = BagToSet(b) \cup S
BY DEF BagToSet, SetToBag, (+)

LEMMA BagSub ==
    ASSUME NEW b, NEW c
    PROVE  BagToSet(b (-) c) \subseteq BagToSet(b)
BY DEF BagToSet, (-)

LEMMA BagNone == BagToSet(EmptyBag) = {}
BY DEF BagToSet, EmptyBag, SetToBag

-----------------------------------------------------------------------------
(* The address.                                                            *)

(* An acknowledgement tells the truth.                                     *)
Known(f) == f.kind = "ack" => <<f.ip, f.server>> \in leases

(***************************************************************************)
(* The inductive invariant: acknowledgements are true wherever they are,   *)
(* on the wire, in the ring or in the hands of the driver.  That those in  *)
(* the ring stay so needs RingInv: the card does not touch them.           *)
(***************************************************************************)
LeaseInv ==
    /\ \A m \in BagToSet(out) : m.kind = "request" => m \in NetSendings
    /\ \A f \in BagToSet(wire) : Known(f)
    /\ \A i \in rx_done : rx_buffers[i] \in Frames /\ Known(rx_buffers[i])
    /\ npc = "handle" => Received \in Frames /\ Known(Received)
    /\ LeaseValid

NetInv == NetTypeOK /\ RingInv /\ LeaseInv

LEMMA NetInvInit == NetInit => NetInv
<1> SUFFICES ASSUME NetInit PROVE NetInv
  OBVIOUS
<1>1. NicTypeOK
  BY NicAssumption DEF NetInit, NicInit, NicTypeOK, Desc, NicPc
<1>2. DhcpTypeOK
  BY DEF NetInit, DhcpInit, DhcpTypeOK
<1>3. RingTypeOK
  BY RingAssumption DEF NetInit, RingInit, RingTypeOK, Slots
<1>4. NetTypeOK
  BY <1>1, <1>2, <1>3, BagNone, NetAssumption DEF NetInit, NetTypeOK
<1>5. LeaseInv
  BY BagNone DEF NetInit, NicInit, DhcpInit, LeaseInv, LeaseValid
<1> QED BY <1>4, <1>5, RingInvInit DEF NetInit, NetInv

-----------------------------------------------------------------------------
(* The types of the parts, step by step.                                   *)

LEMMA NicTypeCard ==
    ASSUME NicTypeOK,
           \/ \E f \in Frames : CardReceives(f)
           \/ CardTransmits \/ CardLinkChanges
    PROVE  NicTypeOK'
<1>1. CASE \E f \in Frames : CardReceives(f)
  <2> PICK f \in Frames : CardReceives(f)
    BY <1>1
  <2>1. Round(RDH) \in Desc
    BY RoundDesc DEF NicTypeOK
  <2>2. rx_buffers' \in [Desc -> Frames \cup {NoFrame}]
    BY DEF NicTypeOK, CardReceives
  <2> QED BY <2>1, <2>2 DEF NicTypeOK, CardReceives, Causes
<1>2. CASE CardTransmits \/ CardLinkChanges
  BY <1>2 DEF NicTypeOK, CardTransmits, CardLinkChanges, Causes
<1> QED BY <1>1, <1>2

LEMMA NicTypeDriver ==
    ASSUME NicTypeOK,
           \/ irq_E1000 \/ e1000hw_service_procedure \/ e1000_on_receive
           \/ e1000_on_receive_ends \/ Handled \/ e1000hw_send_returns
           \/ \E f \in Sendings : \/ e1000hw_send(f, "handle", "receive")
                                  \/ e1000hw_send(f, "run", "run")
                                  \/ e1000hw_send(f, "send", "run")
    PROVE  NicTypeOK'
<1>1. CASE irq_E1000 \/ e1000hw_service_procedure
  BY <1>1 DEF NicTypeOK, irq_E1000, e1000hw_service_procedure, Causes, NicPc
<1>2. CASE e1000_on_receive \/ e1000_on_receive_ends
  BY <1>2, RoundDesc DEF NicTypeOK, e1000_on_receive, e1000_on_receive_ends, NicPc
<1>3. CASE Handled \/ e1000hw_send_returns
  BY <1>3 DEF NicTypeOK, Handled, e1000hw_send_returns, Sent, NicPc
<1>4. CASE \E f \in Sendings : \/ e1000hw_send(f, "handle", "receive")
                              \/ e1000hw_send(f, "run", "run")
                              \/ e1000hw_send(f, "send", "run")
  BY <1>4 DEF NicTypeOK, e1000hw_send, NicPc
<1> QED BY <1>1, <1>2, <1>3, <1>4

LEMMA PacketTypeStep ==
    ASSUME RingTypeOK, network_push_packet \/ network_pop_packet
    PROVE  RingTypeOK'
<1>1. \A i \in Slots : NextSlot(i) \in Slots
  BY RingAssumption DEF Slots, NextSlot
<1>2. CASE network_push_packet
  BY <1>1, <1>2, RingAssumption DEF RingTypeOK, network_push_packet
<1>3. CASE network_pop_packet
  BY <1>1, <1>3 DEF RingTypeOK, network_pop_packet
<1> QED BY <1>2, <1>3

LEMMA LostType ==
    ASSUME losses \in 0 .. DISCOVERS, NEW m, Lost(m)
    PROVE  losses' \in 0 .. DISCOVERS
BY NetAssumption DEF Lost

-----------------------------------------------------------------------------
(* The invariant, action by action.                                        *)

(* What is outside the driver and the card leaves the ring alone.          *)
LEMMA OutsideStep ==
    ASSUME NetInv, UNCHANGED <<nicVars, dhcpVars, burst>>, RingTypeOK',
           leases \subseteq leases', leases' \subseteq Addresses \X Servers,
           losses' \in 0 .. DISCOVERS,
           BagToSet(wire') \subseteq Frames,
           \A f \in BagToSet(wire') : Known(f)',
           \A m \in BagToSet(out') : m.kind = "request" => m \in NetSendings
    PROVE  NetInv'
<1>1. NicTypeOK' /\ DhcpTypeOK'
  BY DEF NetInv, NetTypeOK, NicTypeOK, DhcpTypeOK, nicVars, dhcpVars
<1>2. NetTypeOK'
  BY <1>1 DEF NetInv, NetTypeOK
<1>3. RingInv'
  BY RingOther DEF NetInv
<1>4. LeaseInv'
  BY DEF NetInv, LeaseInv, LeaseValid, Known, Received, nicVars, dhcpVars
<1> QED BY <1>2, <1>3, <1>4 DEF NetInv

LEMMA InvServerStep == ASSUME NetInv, ServerStep PROVE NetInv'
<1>1. RingTypeOK' /\ UNCHANGED <<nicVars, dhcpVars, burst>>
  BY DEF ServerStep, NetInv, NetTypeOK, RingTypeOK, ringVars
<1> PICK s \in Servers : Offers(s) \/ Answers(s)
  BY DEF ServerStep
<1>2. CASE Offers(s)
  <2>0. PICK k \in 1 .. POOL : wire' = wire (+) SetToBag({Message("offer", <<s, k>>, s)})
    BY <1>2 DEF Offers
  <2>1. Message("offer", <<s, k>>, s) \in Frames
    BY NetAssumption, DhcpAssumption DEF NetFrames, Addresses, Message
  <2>2. BagToSet(wire') = BagToSet(wire) \cup {Message("offer", <<s, k>>, s)}
    BY <2>0, BagAdd
  <2>3. BagToSet(out') \subseteq BagToSet(out)
    BY <1>2, BagSub DEF Offers
  <2>4. UNCHANGED <<leases, losses>>
    BY <1>2 DEF Offers
  <2>5. \A f \in BagToSet(wire') : Known(f)'
    BY <2>2, <2>4 DEF NetInv, LeaseInv, Known, Message
  <2>6. BagToSet(wire') \subseteq Frames
    BY <2>1, <2>2 DEF NetInv, NetTypeOK
  <2> QED BY <1>1, <2>3, <2>4, <2>5, <2>6, OutsideStep DEF NetInv, NetTypeOK, LeaseInv
<1>3. CASE Answers(s)
  <2>0. PICK m \in BagToSet(out) :
        /\ m.kind = "request" /\ m.server = s
        /\ out' = out (-) SetToBag({m})
        /\ \/ /\ wire' = wire (+) SetToBag({Message("ack", m.ip, s)})
              /\ leases' = leases \cup {<<m.ip, s>>}
              /\ UNCHANGED losses
           \/ /\ wire' = wire (+) SetToBag({Nak})
              /\ Lost(m)
              /\ UNCHANGED leases
    BY <1>3 DEF Answers
  <2>1. m.ip \in Addresses
    BY <2>0 DEF NetInv, LeaseInv, NetSendings, Discover, Message
  <2>2. BagToSet(out') \subseteq BagToSet(out)
    BY <2>0, BagSub
  <2>3. PICK g \in Frames : /\ BagToSet(wire') = BagToSet(wire) \cup {g}
                            /\ g.kind = "ack" => <<g.ip, g.server>> \in leases'
    <3>1. Message("ack", m.ip, s) \in Frames /\ Nak \in Frames
      BY <2>1, NetAssumption DEF NetFrames, Message, Nak
    <3> QED BY <2>0, <3>1, BagAdd DEF Message, Nak
  <2>4. leases \subseteq leases' /\ leases' \subseteq Addresses \X Servers
    BY <2>0, <2>1 DEF NetInv, NetTypeOK
  <2>5. losses' \in 0 .. DISCOVERS
    BY <2>0, LostType DEF NetInv, NetTypeOK
  <2>6. \A f \in BagToSet(wire') : Known(f)'
    BY <2>3, <2>4 DEF NetInv, LeaseInv, Known
  <2>7. BagToSet(wire') \subseteq Frames
    BY <2>3 DEF NetInv, NetTypeOK
  <2> QED BY <1>1, <2>2, <2>4, <2>5, <2>6, <2>7, OutsideStep DEF NetInv, LeaseInv
<1> QED BY <1>2, <1>3

LEMMA InvMediumLoses == ASSUME NetInv, MediumLoses PROVE NetInv'
<1>1. /\ RingTypeOK' /\ UNCHANGED <<nicVars, dhcpVars, burst, leases>>
      /\ leases \subseteq Addresses \X Servers
  BY DEF MediumLoses, NetInv, NetTypeOK, RingTypeOK, ringVars
<1>2. losses' \in 0 .. DISCOVERS
  BY LostType DEF MediumLoses, NetInv, NetTypeOK
<1>3. BagToSet(out') \subseteq BagToSet(out) /\ BagToSet(wire') \subseteq BagToSet(wire)
  BY BagSub DEF MediumLoses
<1>4. BagToSet(wire') \subseteq Frames
  BY <1>3 DEF NetInv, NetTypeOK
<1>5. \A f \in BagToSet(wire') : Known(f)'
  BY <1>1, <1>3 DEF NetInv, LeaseInv, Known
<1>6. \A m \in BagToSet(out') : m.kind = "request" => m \in NetSendings
  BY <1>3 DEF NetInv, LeaseInv
<1> QED BY <1>1, <1>2, <1>4, <1>5, <1>6, OutsideStep

LEMMA InvOthersSend == ASSUME NetInv, OthersSend PROVE NetInv'
<1>1. RingTypeOK' /\ UNCHANGED <<nicVars, dhcpVars, burst, out, losses>>
  BY DEF OthersSend, NetInv, NetTypeOK, RingTypeOK, ringVars
<1>2. losses' \in 0 .. DISCOVERS /\ \A m \in BagToSet(out') : m.kind = "request" => m \in NetSendings
  BY <1>1 DEF NetInv, NetTypeOK, LeaseInv
<1>3. PICK g \in Frames : /\ BagToSet(wire') = BagToSet(wire) \cup {g}
                          /\ g.kind = "ack" => <<g.ip, g.server>> \in leases'
                          /\ leases \subseteq leases'
                          /\ leases' \subseteq Addresses \X Servers
  <2>1. AppFrame \in Frames /\ ArpRequest \in Frames
    BY NetAssumption DEF NetFrames
  <2>2. CASE wire' = wire (+) SetToBag({AppFrame}) /\ UNCHANGED leases
    BY <2>1, <2>2, BagAdd DEF NetInv, NetTypeOK, AppFrame, Message
  <2>3. CASE wire' = wire (+) SetToBag({ArpRequest}) /\ UNCHANGED leases
    BY <2>1, <2>3, BagAdd DEF NetInv, NetTypeOK, ArpRequest, Message
  <2>4. ASSUME NEW s \in Servers,
               wire' = wire (+) SetToBag({Message("ack", <<s, 0>>, s)}),
               leases' = leases \cup {<<<<s, 0>>, s>>}
        PROVE  \E g \in Frames : /\ BagToSet(wire') = BagToSet(wire) \cup {g}
                                 /\ g.kind = "ack" => <<g.ip, g.server>> \in leases'
                                 /\ leases \subseteq leases'
                                 /\ leases' \subseteq Addresses \X Servers
    <3>1. <<s, 0>> \in Addresses
      BY DhcpAssumption DEF Addresses
    <3>2. Message("ack", <<s, 0>>, s) \in Frames
      BY <3>1, NetAssumption DEF NetFrames, Message
    <3>3. leases' \subseteq Addresses \X Servers
      BY <2>4, <3>1 DEF NetInv, NetTypeOK
    <3> QED BY <2>4, <3>2, <3>3, BagAdd DEF Message
  <2> QED BY <2>2, <2>3, <2>4 DEF OthersSend
<1>4. BagToSet(wire') \subseteq Frames
  BY <1>3 DEF NetInv, NetTypeOK
<1>5. \A f \in BagToSet(wire') : Known(f)'
  BY <1>3 DEF NetInv, LeaseInv, Known
<1> QED BY <1>1, <1>2, <1>3, <1>4, <1>5, OutsideStep

LEMMA InvArrives == ASSUME NetInv, Arrives PROVE NetInv'
<1>1. PICK f \in BagToSet(wire) : CardReceives(f) /\ wire' = wire (-) SetToBag({f})
  BY DEF Arrives
<1>2. BagToSet(wire') \subseteq BagToSet(wire)
  BY <1>1, BagSub
<1>3. f \in Frames /\ Known(f)
  BY DEF NetInv, NetTypeOK, LeaseInv
<1>4. NicTypeOK'
  BY <1>1, <1>3, NicTypeCard DEF NetInv, NetTypeOK
<1>5. DhcpTypeOK' /\ RingTypeOK'
  BY DEF Arrives, NetInv, NetTypeOK, DhcpTypeOK, RingTypeOK, dhcpVars, ringVars
<1>6. NetTypeOK'
  BY <1>2, <1>4, <1>5 DEF Arrives, NetInv, NetTypeOK
<1>7. RingInv'
  BY <1>1, RingCardReceives DEF NetInv
<1>8. LeaseInv'
  <2>1. /\ \A m \in BagToSet(out') : m.kind = "request" => m \in NetSendings
        /\ \A g \in BagToSet(wire') : Known(g)'
        /\ LeaseValid'
    BY <1>2 DEF Arrives, NetInv, LeaseInv, LeaseValid, Known, dhcpVars
  <2>2. rx_buffers' = [rx_buffers EXCEPT ![RDH] = f] /\ rx_done' = rx_done \cup {RDH}
        /\ RDH # RDT /\ UNCHANGED <<npc, old, leases>>
    BY <1>1 DEF CardReceives, Arrives
  <2>3. rx_buffers \in [Desc -> Frames \cup {NoFrame}] /\ RDH \in Desc /\ old \in Desc
        /\ rx_done \subseteq Desc
    BY DEF NetInv, NetTypeOK, NicTypeOK
  <2>4. \A i \in rx_done' : rx_buffers'[i] \in Frames /\ Known(rx_buffers[i])'
    BY <1>3, <2>2, <2>3 DEF NetInv, LeaseInv, Known
  <2>5. npc' = "handle" => Received' \in Frames /\ Known(Received)'
    BY <2>2, <2>3 DEF NetInv, LeaseInv, Known, Received, RingInv, InUse
  <2> QED BY <2>1, <2>4, <2>5 DEF LeaseInv
<1> QED BY <1>6, <1>7, <1>8 DEF NetInv

(* A step that does not touch the ring, the wire or what was leased.       *)
LEMMA LeaseKept ==
    ASSUME NetInv, UNCHANGED <<rx_done, old, wire, leases>>, LeaseValid',
           \A i \in rx_done : rx_buffers'[i] = rx_buffers[i],
           npc' = "handle" => npc = "handle" /\ UNCHANGED rx_buffers,
           \A m \in BagToSet(out') : m.kind = "request" => m \in NetSendings
    PROVE  LeaseInv'
<1>1. \A i \in rx_done' : rx_buffers'[i] \in Frames /\ Known(rx_buffers[i])'
  BY DEF NetInv, LeaseInv, Known
<1>2. npc' = "handle" => Received' \in Frames /\ Known(Received)'
  BY DEF NetInv, LeaseInv, Known, Received
<1>3. \A f \in BagToSet(wire') : Known(f)'
  BY DEF NetInv, LeaseInv, Known
<1> QED BY <1>1, <1>2, <1>3 DEF LeaseInv

LEMMA InvTransmits == ASSUME NetInv, Transmits PROVE NetInv'
<1>1. NicTypeOK'
  BY NicTypeCard DEF Transmits, NetInv, NetTypeOK
<1>2. DhcpTypeOK' /\ RingTypeOK'
  BY DEF Transmits, NetInv, NetTypeOK, DhcpTypeOK, RingTypeOK, dhcpVars, ringVars
<1>3. NetTypeOK'
  BY <1>1, <1>2 DEF Transmits, NetInv, NetTypeOK
<1>4. RingInv'
  BY RingOther DEF Transmits, NetInv
<1>5. tx \in NetSendings
  BY NetAssumption DEF Transmits, CardTransmits, NetInv, NetTypeOK, NicTypeOK
<1>6. PICK S : Seen(tx) = SetToBag(S) /\ \A m \in S : m.kind = "request" => m \in NetSendings
  <2>1. CASE tx.kind = "discover"
    BY <2>1 DEF Seen, Message
  <2>2. CASE tx.kind = "request"
    BY <1>5, <2>2 DEF Seen
  <2>3. CASE tx.kind \notin {"discover", "request"}
    <3>1. Seen(tx) = SetToBag({})
      BY <2>3 DEF Seen, EmptyBag
    <3> QED BY <3>1
  <2> QED BY <2>1, <2>2, <2>3
<1>7. BagToSet(out') = BagToSet(out) \cup S
  BY <1>6, BagAdd DEF Transmits
<1>8. \A m \in BagToSet(out') : m.kind = "request" => m \in NetSendings
  BY <1>6, <1>7 DEF NetInv, LeaseInv
<1>9. UNCHANGED <<rx_buffers, rx_done, old, wire, leases, npc, dhcp_info>>
  BY DEF Transmits, CardTransmits, dhcpVars
<1>10. LeaseInv'
  BY <1>8, <1>9, LeaseKept DEF NetInv, LeaseInv, LeaseValid
<1> QED BY <1>3, <1>4, <1>10 DEF NetInv

LEMMA InvLinkChanges == ASSUME NetInv, LinkChanges PROVE NetInv'
<1>1. NicTypeOK'
  BY NicTypeCard DEF LinkChanges, NetInv, NetTypeOK
<1>2. DhcpTypeOK' /\ RingTypeOK'
  BY DEF LinkChanges, NetInv, NetTypeOK, DhcpTypeOK, RingTypeOK, dhcpVars, ringVars
<1>3. NetTypeOK'
  BY <1>1, <1>2 DEF LinkChanges, NetInv, NetTypeOK
<1>4. RingInv'
  BY RingOther DEF LinkChanges, NetInv
<1>5. UNCHANGED <<rx_buffers, rx_done, old, wire, out, leases, npc, dhcp_info>>
  BY DEF LinkChanges, CardLinkChanges, dhcpVars
<1>6. LeaseInv'
  BY <1>5, LeaseKept DEF NetInv, LeaseInv, LeaseValid
<1> QED BY <1>3, <1>4, <1>6 DEF NetInv

(***************************************************************************)
(* A step of the driver that takes no new frame: it leaves the buffers     *)
(* alone, or it is done with the frame in use, which no longer counts.     *)
(***************************************************************************)
LEMMA DriverKeeps ==
    ASSUME NetInv, NicTypeOK', DhcpTypeOK', RingTypeOK', RingInv',
           UNCHANGED <<rx_done, old, out, wire, leases>>,
           losses' \in 0 .. DISCOVERS, burst' \in 0 .. (DISCOVERS - 1),
           \/ UNCHANGED rx_buffers /\ (npc' = "handle" => npc = "handle")
           \/ /\ InUse /\ npc' # "handle"
              /\ rx_buffers' = [rx_buffers EXCEPT ![old] = NoFrame],
           LeaseValid'
    PROVE  NetInv'
<1>1. NetTypeOK'
  BY DEF NetInv, NetTypeOK
<1>2. InUse => old \notin rx_done
  BY RingInvSound DEF NetInv, RingSound
<1>3. rx_done \subseteq Desc /\ rx_buffers \in [Desc -> Frames \cup {NoFrame}]
  BY DEF NetInv, NetTypeOK, NicTypeOK
<1>4. \A i \in rx_done : rx_buffers'[i] = rx_buffers[i]
  BY <1>2, <1>3
<1>5. \A m \in BagToSet(out') : m.kind = "request" => m \in NetSendings
  BY DEF NetInv, LeaseInv
<1>6. npc' = "handle" => npc = "handle" /\ UNCHANGED rx_buffers
  OBVIOUS
<1>7. LeaseInv'
  BY <1>4, <1>5, <1>6, LeaseKept
<1> QED BY <1>1, <1>7 DEF NetInv

LEMMA InvInterrupt ==
    ASSUME NetInv, irq_E1000 \/ e1000hw_service_procedure \/ e1000_on_receive_ends,
           UNCHANGED <<dhcpVars, ringVars, outside, burst>>
    PROVE  NetInv'
<1>1. NicTypeOK'
  BY NicTypeDriver DEF NetInv, NetTypeOK
<1>2. DhcpTypeOK' /\ RingTypeOK' /\ LeaseValid'
  BY DEF NetInv, NetTypeOK, DhcpTypeOK, RingTypeOK, dhcpVars, ringVars, outside,
         LeaseInv, LeaseValid
<1>3. RingInv'
  BY RingOther DEF NetInv
<1>4. UNCHANGED <<rx_buffers, rx_done, old>> /\ npc' # "handle"
  BY DEF irq_E1000, e1000hw_service_procedure, e1000_on_receive_ends
<1> QED BY <1>1, <1>2, <1>3, <1>4, DriverKeeps DEF outside, NetInv, NetTypeOK

LEMMA InvOnReceive ==
    ASSUME NetInv, e1000_on_receive, UNCHANGED <<dhcpVars, ringVars, outside, burst>>
    PROVE  NetInv'
<1>1. NicTypeOK'
  BY NicTypeDriver DEF NetInv, NetTypeOK
<1>2. DhcpTypeOK' /\ RingTypeOK' /\ LeaseValid'
  BY DEF NetInv, NetTypeOK, DhcpTypeOK, RingTypeOK, dhcpVars, ringVars, outside,
         LeaseInv, LeaseValid
<1>3. RingInv'
  BY RingOnReceive DEF NetInv
<1>4. NetTypeOK'
  BY <1>1, <1>2 DEF NetInv, NetTypeOK, outside
<1>5. /\ UNCHANGED <<rx_buffers, out, wire, leases>> /\ rx_done' \subseteq rx_done
      /\ old' \in rx_done
  BY DEF e1000_on_receive, outside
<1>6. LeaseInv'
  BY <1>2, <1>5 DEF NetInv, LeaseInv, Known, Received
<1> QED BY <1>3, <1>4, <1>6 DEF NetInv

LEMMA InvSendReturns ==
    ASSUME NetInv, e1000hw_send_returns, UNCHANGED <<dhcpVars, ringVars, outside, burst>>
    PROVE  NetInv'
<1>1. NicTypeOK'
  BY NicTypeDriver DEF NetInv, NetTypeOK
<1>2. DhcpTypeOK' /\ RingTypeOK' /\ LeaseValid'
  BY DEF NetInv, NetTypeOK, DhcpTypeOK, RingTypeOK, dhcpVars, ringVars, outside,
         LeaseInv, LeaseValid
<1>3. RingInv'
  BY RingOther DEF NetInv
<1>4. /\ UNCHANGED <<rx_done, old>> /\ npc' # "handle"
      /\ \/ UNCHANGED rx_buffers
         \/ InUse /\ rx_buffers' = [rx_buffers EXCEPT ![old] = NoFrame]
  BY DEF e1000hw_send_returns, Sent, InUse, NetInv, RingInv
<1> QED BY <1>1, <1>2, <1>3, <1>4, DriverKeeps DEF outside, NetInv, NetTypeOK

(* The driver starts to send.                                              *)
LEMMA InvSend ==
    ASSUME NetInv, NEW m \in Sendings,
           \/ e1000hw_send(m, "handle", "receive")
           \/ e1000hw_send(m, "run", "run")
           \/ e1000hw_send(m, "send", "run"),
           DhcpTypeOK', UNCHANGED <<ringVars, out, wire, leases, losses>>, LeaseValid',
           burst' \in 0 .. (DISCOVERS - 1)
    PROVE  NetInv'
<1>1. NicTypeOK'
  BY NicTypeDriver DEF NetInv, NetTypeOK
<1>2. RingTypeOK'
  BY DEF NetInv, NetTypeOK, RingTypeOK, ringVars
<1>3. RingInv'
  BY RingOther DEF NetInv
<1>4. UNCHANGED <<rx_buffers, rx_done, old>> /\ npc' # "handle"
  BY DEF e1000hw_send
<1>5. losses' \in 0 .. DISCOVERS
  BY DEF NetInv, NetTypeOK
<1> QED BY <1>1, <1>2, <1>3, <1>4, <1>5, DriverKeeps

LEMMA DiscoverSent == Discover \in Sendings
BY NetAssumption DEF NetSendings

(* The driver is done with a frame.                                        *)
LEMMA InvHandled ==
    ASSUME NetInv, Handled, DhcpTypeOK', RingTypeOK', UNCHANGED <<out, wire, leases, burst>>,
           losses' \in 0 .. DISCOVERS, LeaseValid'
    PROVE  NetInv'
<1>1. NicTypeOK'
  BY NicTypeDriver DEF NetInv, NetTypeOK
<1>2. RingInv'
  BY RingOther DEF NetInv
<1>3. /\ UNCHANGED <<rx_done, old>> /\ npc' # "handle" /\ InUse
      /\ rx_buffers' = [rx_buffers EXCEPT ![old] = NoFrame]
  BY DEF Handled, InUse
<1> QED BY <1>1, <1>2, <1>3, DriverKeeps DEF NetInv, NetTypeOK

(***************************************************************************)
(* The handlers.  The frame in hand is one that came from the wire, so an  *)
(* acknowledgement is true; the address that an ARP reply gives away is    *)
(* leased.                                                                 *)
(***************************************************************************)
LEMMA InvHandles == ASSUME NetInv, Handles PROVE NetInv'
<1> DEFINE Rest == UNCHANGED <<out, wire, leases, losses, burst>>
<1>1. CASE network_handle_ethernet_drops /\ UNCHANGED burst
  <2>1. DhcpTypeOK' /\ RingTypeOK' /\ LeaseValid'
    BY <1>1 DEF network_handle_ethernet_drops, NetInv, NetTypeOK, DhcpTypeOK, RingTypeOK,
                dhcpVars, ringVars, LeaseInv, LeaseValid
  <2>2. losses' \in 0 .. DISCOVERS
    BY <1>1, LostType DEF network_handle_ethernet_drops, NetInv, NetTypeOK
  <2> QED BY <1>1, <2>1, <2>2, InvHandled DEF network_handle_ethernet_drops
<1>2. CASE network_handle_udp /\ UNCHANGED dhcpVars /\ Rest
  <2>1. RingTypeOK'
    BY <1>2, PacketTypeStep DEF network_handle_udp, NetInv, NetTypeOK
  <2>2. DhcpTypeOK' /\ LeaseValid'
    BY <1>2 DEF NetInv, NetTypeOK, DhcpTypeOK, dhcpVars, LeaseInv, LeaseValid
  <2>3. losses' \in 0 .. DISCOVERS
    BY <1>2 DEF NetInv, NetTypeOK
  <2> QED BY <1>2, <2>1, <2>2, <2>3, InvHandled DEF network_handle_udp
<1>3. CASE network_handle_arp /\ UNCHANGED <<dhcpVars, ringVars>> /\ Rest
  <2>1. DhcpTypeOK' /\ LeaseValid' /\ RingTypeOK'
    BY <1>3 DEF NetInv, NetTypeOK, DhcpTypeOK, RingTypeOK, dhcpVars, ringVars, LeaseInv,
                LeaseValid
  <2>2. losses' \in 0 .. DISCOVERS /\ burst' \in 0 .. (DISCOVERS - 1)
    BY <1>3 DEF NetInv, NetTypeOK
  <2>3. CASE dhcp_info.initialized
    <3> DEFINE m == Message("arp_reply", dhcp_info.your_ipv4, dhcp_info.server_ipv4)
    <3>1. dhcp_info.your_ipv4 \in Addresses /\ dhcp_info.server_ipv4 \in Servers
      BY <2>3 DEF NetInv, NetTypeOK, LeaseInv, LeaseValid
    <3>2. m \in Sendings
      BY <3>1, NetAssumption DEF NetSendings, Message
    <3>3. e1000hw_send(m, "handle", "receive")
      BY <1>3, <2>3 DEF network_handle_arp
    <3> HIDE DEF m
    <3> QED BY <1>3, <2>1, <2>2, <3>2, <3>3, InvSend
  <2>4. CASE ~dhcp_info.initialized
    BY <1>3, <2>1, <2>2, <2>4, InvHandled DEF network_handle_arp
  <2> QED BY <2>3, <2>4
<1>4. CASE npc = "handle" /\ network_handle_offer /\ UNCHANGED ringVars /\ Rest
  <2> DEFINE m == Request(Received.ip, Received.server)
  <2>1. Received \in Frames /\ Received.kind = "offer"
    BY <1>4 DEF network_handle_offer, NetInv, LeaseInv
  <2>2. m \in Sendings
    BY <2>1, NetAssumption DEF NetFrames, NetSendings, Request, Message, ArpRequest, AppFrame, Nak
  <2>3. DhcpTypeOK' /\ LeaseValid'
    BY <1>4 DEF network_handle_offer, DhcpOffered, NetInv, NetTypeOK, DhcpTypeOK, LeaseInv,
                LeaseValid
  <2>4. burst' \in 0 .. (DISCOVERS - 1)
    BY <1>4 DEF NetInv, NetTypeOK
  <2>5. e1000hw_send(m, "handle", "receive")
    BY <1>4 DEF network_handle_offer
  <2> HIDE DEF m
  <2> QED BY <1>4, <2>2, <2>3, <2>4, <2>5, InvSend
<1>5. CASE npc = "handle" /\ network_handle_ack /\ UNCHANGED ringVars /\ Rest
  <2>1. /\ Received \in Frames /\ Received.kind = "ack"
        /\ <<Received.ip, Received.server>> \in leases
    BY <1>5 DEF network_handle_ack, NetInv, LeaseInv, Known
  <2>2. Received.ip \in Addresses /\ Received.server \in Servers
    BY <2>1 DEF NetInv, NetTypeOK
  <2>3. /\ dhcp_info' = [initialized |-> TRUE, Step |-> 4, your_ipv4 |-> Received.ip,
                         server_ipv4 |-> Received.server]
        /\ online' = TRUE /\ locked' = locked /\ leases' = leases
    BY <1>5 DEF network_handle_ack, DhcpAcked
  <2>4. DhcpTypeOK'
    BY <2>2, <2>3 DEF NetInv, NetTypeOK, DhcpTypeOK
  <2>5. LeaseValid'
    BY <2>1, <2>3 DEF LeaseValid
  <2>6. RingTypeOK' /\ losses' \in 0 .. DISCOVERS
    BY <1>5 DEF NetInv, NetTypeOK, RingTypeOK, ringVars
  <2> QED BY <1>5, <2>4, <2>5, <2>6, InvHandled DEF network_handle_ack
<1>6. CASE network_handle_nak /\ UNCHANGED ringVars /\ Rest
  <2>1. DhcpTypeOK' /\ LeaseValid' /\ RingTypeOK' /\ losses' \in 0 .. DISCOVERS
    BY <1>6 DEF network_handle_nak, NetInv, NetTypeOK, DhcpTypeOK, RingTypeOK, dhcpVars,
                ringVars, LeaseInv, LeaseValid
  <2> QED BY <1>6, <2>1, InvHandled DEF network_handle_nak
<1> QED BY <1>1, <1>2, <1>3, <1>4, <1>5, <1>6 DEF Handles, outside

LEMMA InvDriverStep == ASSUME NetInv, DriverStep PROVE NetInv'
<1>1. CASE NextDiscover /\ UNCHANGED <<dhcpVars, ringVars, outside>>
  <2>1. DhcpTypeOK' /\ LeaseValid'
    BY <1>1 DEF NetInv, NetTypeOK, DhcpTypeOK, dhcpVars, outside, LeaseInv, LeaseValid
  <2>2. burst' \in 0 .. (DISCOVERS - 1)
    BY <1>1, NetAssumption DEF NextDiscover, NetInv, NetTypeOK
  <2> QED BY <1>1, <2>1, <2>2, InvSend, DiscoverSent DEF NextDiscover, outside
<1> QED BY <1>1, InvInterrupt, InvOnReceive, InvSendReturns, InvHandles DEF DriverStep

LEMMA InvProgramCalls == ASSUME NetInv, ProgramCalls PROVE NetInv'
<1>1. CASE network_initialize_dhcp /\ UNCHANGED <<ringVars, out, wire, leases, losses>>
  <2>1. DhcpTypeOK' /\ LeaseValid'
    BY <1>1 DEF network_initialize_dhcp, DhcpRestarts, NetInv, NetTypeOK, DhcpTypeOK, LeaseValid
  <2>2. burst' \in 0 .. (DISCOVERS - 1)
    BY <1>1, NetAssumption DEF network_initialize_dhcp
  <2> QED BY <1>1, <2>1, <2>2, InvSend, DiscoverSent DEF network_initialize_dhcp
<1>2. ASSUME UNCHANGED <<nicVars, out, wire, leases, losses, burst>>, DhcpTypeOK',
             RingTypeOK', UNCHANGED dhcp_info
      PROVE  NetInv'
  <2>1. UNCHANGED <<rx_done, old, rx_buffers, npc>>
    BY <1>2 DEF nicVars
  <2>2. NicTypeOK'
    BY <1>2 DEF NetInv, NetTypeOK, NicTypeOK, nicVars
  <2>3. RingInv'
    BY <1>2, RingOther DEF NetInv
  <2>4. LeaseValid'
    BY <1>2 DEF NetInv, LeaseInv, LeaseValid
  <2> QED BY <1>2, <2>1, <2>2, <2>3, <2>4, DriverKeeps DEF NetInv, NetTypeOK
<1>3. CASE /\ networkUnlock \/ networkLock
           /\ UNCHANGED <<nicVars, ringVars, out, wire, leases, losses, burst>>
  <2>1. RingTypeOK'
    BY <1>3 DEF NetInv, NetTypeOK, RingTypeOK, ringVars
  <2>2. DhcpTypeOK' /\ UNCHANGED dhcp_info
    BY <1>3 DEF NetInv, NetTypeOK, DhcpTypeOK, networkUnlock, networkLock
  <2> QED BY <1>2, <1>3, <2>1, <2>2
<1>4. CASE /\ network_push_packet \/ network_pop_packet
           /\ UNCHANGED <<nicVars, dhcpVars, out, wire, leases, losses, burst>>
  <2>1. RingTypeOK' /\ DhcpTypeOK'
    BY <1>4, PacketTypeStep DEF NetInv, NetTypeOK, DhcpTypeOK, dhcpVars
  <2> QED BY <1>2, <1>4, <2>1 DEF dhcpVars
<1> QED BY <1>1, <1>3, <1>4 DEF ProgramCalls, outside

(* A step that changes nothing.                                            *)
LEMMA InvStutter == ASSUME NetInv, UNCHANGED netVars PROVE NetInv'
<1>1. RingTypeOK' /\ UNCHANGED <<nicVars, dhcpVars, burst, leases, losses, wire, out>>
  BY DEF netVars, NetInv, NetTypeOK, RingTypeOK, ringVars
<1> QED BY <1>1, OutsideStep DEF NetInv, NetTypeOK, LeaseInv, Known

(* NetInv is an inductive invariant.                                       *)
THEOREM NetInvCorrect == NetSpec => []NetInv
<1>1. NetInv /\ [NetNext]_netVars => NetInv'
  BY InvServerStep, InvMediumLoses, InvOthersSend, InvArrives, InvTransmits, InvLinkChanges,
     InvDriverStep, InvProgramCalls, InvStutter DEF NetNext
<1> QED BY NetInvInit, <1>1, PTL DEF NetSpec

(***************************************************************************)
(* The variables of the driver, the client and the port keep their types;  *)
(* the indices of both rings stay inside them.                             *)
(***************************************************************************)
THEOREM NetTypeCorrect == NetSpec => []NetTypeOK
<1>1. NetInv => NetTypeOK
  BY DEF NetInv
<1> QED BY NetInvCorrect, <1>1, PTL

(***************************************************************************)
(* However the card, the interrupts and the sends interleave, and whatever *)
(* the size of the ring, the card does not write over a frame that         *)
(* e1000_on_receive has not taken or is handling.                          *)
(***************************************************************************)
THEOREM RingSoundCorrect == NetSpec => []RingSound
<1>1. NetInv => RingSound
  BY RingInvSound DEF NetInv
<1> QED BY NetInvCorrect, <1>1, PTL

(***************************************************************************)
(* With any number of servers, of dialogues and of losses, the address     *)
(* that network_handle_dhcp saves is one that the saved server has leased. *)
(***************************************************************************)
THEOREM LeaseValidCorrect == NetSpec => []LeaseValid
<1>1. NetInv => LeaseValid
  BY DEF NetInv, LeaseInv
<1> QED BY NetInvCorrect, <1>1, PTL

-----------------------------------------------------------------------------
(* The port.                                                               *)

(* The payloads in full slots have been pushed and differ.                 *)
PortInv ==
    /\ RingTypeOK
    /\ \A i \in is_full : payload[i] \in 1 .. pushed
    /\ \A i, j \in is_full : payload[i] = payload[j] => i = j

LEMMA PortPush ==
    ASSUME PortInv, network_push_packet
    PROVE  PortInv' /\ Port!MailNext
<1> DEFINE m == pushed + 1
           over == IF receive_tail \in is_full THEN {payload[receive_tail]} ELSE {}
<1>1. RingTypeOK'
  BY PacketTypeStep DEF PortInv
<1>2. /\ pushed \in Nat /\ m \in 1 .. MaxPackets /\ pushed' = m /\ UNCHANGED popped
      /\ receive_tail \in Slots /\ is_full \subseteq Slots
      /\ is_full' = is_full \cup {receive_tail}
      /\ payload' = [payload EXCEPT ![receive_tail] = m]
      /\ payload \in [Slots -> 0 .. MaxPackets]
  BY RingAssumption DEF network_push_packet, PortInv, RingTypeOK
<1>3. m \notin 1 .. pushed /\ 1 .. m = (1 .. pushed) \cup {m}
  BY <1>2
<1>4. \A i \in is_full' : payload'[i] = IF i = receive_tail THEN m ELSE payload[i]
  BY <1>2
<1>5. \A i \in is_full : payload[i] \in 1 .. pushed /\ payload[i] # m
  BY <1>3 DEF PortInv
<1>6. PortInv'
  <2>1. \A i \in is_full' : payload'[i] \in 1 .. pushed'
    BY <1>2, <1>3, <1>4, <1>5
  <2>2. \A i, j \in is_full' : payload'[i] = payload'[j] => i = j
    BY <1>2, <1>4, <1>5 DEF PortInv
  <2> QED BY <1>1, <2>1, <2>2 DEF PortInv
<1>7. InRing \subseteq 1 .. pushed
  BY <1>5 DEF InRing
<1>8. InRing' = (InRing \cup {m}) \ over
  <2>1. \A x \in InRing' : x \in (InRing \cup {m}) \ over
    BY <1>2, <1>4, <1>5 DEF InRing, PortInv
  <2>2. \A x \in (InRing \cup {m}) \ over : x \in InRing'
    BY <1>2, <1>4 DEF InRing
  <2> QED BY <2>1, <2>2
<1>9. over \subseteq InRing
  BY DEF InRing
<1>10. Port!Accept(m, over)
  <2>1. m \notin InRing \cup ((1 .. pushed) \ InRing)
    BY <1>3, <1>7
  <2>2. ((1 .. pushed) \ InRing)' = ((1 .. pushed) \ InRing) \cup over
    BY <1>2, <1>3, <1>7, <1>8, <1>9
  <2> QED BY <1>2, <1>8, <2>1, <2>2 DEF Port!Accept
<1>11. over \in SUBSET (InRing \cup {m})
  BY <1>9
<1> HIDE DEF m, over
<1>12. Port!MailNext
  BY <1>2, <1>10, <1>11 DEF Port!MailNext
<1> QED BY <1>6, <1>12

LEMMA PortPop ==
    ASSUME PortInv, network_pop_packet
    PROVE  PortInv' /\ [Port!MailNext]_(Port!mailVars)
<1>1. RingTypeOK'
  BY PacketTypeStep DEF PortInv
<1>2. UNCHANGED <<payload, pushed>> /\ is_full' = is_full \ {receive_head}
  BY DEF network_pop_packet
<1>3. PortInv'
  BY <1>1, <1>2 DEF PortInv
<1>4. CASE receive_head \in is_full
  <2>1. InRing' = InRing \ {payload[receive_head]}
    BY <1>2, <1>4 DEF InRing, PortInv
  <2>2. payload[receive_head] \in InRing /\ payload[receive_head] \in 1 .. pushed
    BY <1>4 DEF InRing, PortInv
  <2>3. ((1 .. pushed) \ InRing)' = ((1 .. pushed) \ InRing) \cup {payload[receive_head]}
    BY <1>2, <2>1, <2>2
  <2>4. popped' = payload[receive_head]
    BY <1>4 DEF network_pop_packet
  <2>5. Port!Deliver(payload[receive_head])
    BY <2>1, <2>3, <2>4 DEF Port!Deliver
  <2> QED BY <1>3, <2>2, <2>5 DEF Port!MailNext
<1>5. CASE receive_head \notin is_full
  <2>1. UNCHANGED <<payload, is_full, pushed, popped>>
    BY <1>2, <1>5 DEF network_pop_packet
  <2> QED BY <1>3, <2>1 DEF Port!mailVars, InRing
<1> QED BY <1>4, <1>5

LEMMA PortSame ==
    ASSUME PortInv, UNCHANGED ringVars
    PROVE  PortInv' /\ UNCHANGED Port!mailVars
BY DEF PortInv, RingTypeOK, ringVars, Port!mailVars, InRing

(* Every other step leaves the buffers of the port alone.                  *)
LEMMA PortSteps ==
    ASSUME [NetNext]_netVars
    PROVE  network_push_packet \/ network_pop_packet \/ UNCHANGED ringVars
BY DEF NetNext, netVars, ServerStep, MediumLoses, OthersSend, Arrives, Transmits, LinkChanges,
       DriverStep, Handles, network_handle_ethernet_drops, network_handle_udp, ProgramCalls

(***************************************************************************)
(* The buffers of port 11888 implement a mailbox for every number of slots *)
(* and of payloads: nothing that network_pop_packet returns is made up or  *)
(* returned twice.                                                         *)
(***************************************************************************)
THEOREM PortCorrect == NetSpec => ImplementsPort
<1>1. NetInit => PortInv
  BY RingAssumption DEF NetInit, RingInit, PortInv, RingTypeOK, Slots
<1>2. NetInit => Port!MailInit
  BY DEF NetInit, RingInit, Port!MailInit, InRing
<1>3. PortInv /\ [NetNext]_netVars => PortInv'
  BY PortPush, PortPop, PortSame, PortSteps
<1>4. PortInv /\ [NetNext]_netVars => [Port!MailNext]_(Port!mailVars)
  BY PortPush, PortPop, PortSame, PortSteps
<1> QED BY <1>1, <1>2, <1>3, <1>4, PTL DEF NetSpec, ImplementsPort, Port!MailSpec
=============================================================================
