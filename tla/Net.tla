-------------------------------- MODULE Net ----------------------------------
(***************************************************************************)
(* The network of the kernel, from the card to the programs: frames that   *)
(* arrive go through the driver (Nic) and the protocol handlers to the     *)
(* DHCP client (Dhcp), to the buffers of port 11888 (PacketRing) or to the *)
(* answer to an ARP request.  Outside are DHCP servers and a medium that   *)
(* loses and reorders.                                                     *)
(***************************************************************************)
EXTENDS Dhcp, PacketRing, Nic, Bags

CONSTANTS
    DISCOVERS,    \* Discovers sent by network_initialize_dhcp, 5 in dhcp.c
    Budgets       \* bounds: the servers that are up, and how often each of
                  \* starts, locks, links, apps, arps and others happens

VARIABLES
    out,      \* what the servers have not yet seen, a bag
    wire,     \* the frames on their way to the host, a bag
    leases,   \* history: the addresses acknowledged, with their servers
    losses,   \* history: parts of the dialogue lost, refused or dropped, cut at DISCOVERS
    burst,    \* Discovers that network_initialize_dhcp has still to send
    budget    \* what is left of the budget of the behaviour

netVars == <<nicVars, dhcpVars, ringVars, out, wire, leases, losses, burst, budget>>
outside == <<out, wire, leases, losses, budget>>

ArpRequest == Message("arp_request", Nobody, Nobody)
AppFrame == Message("app", Nobody, Nobody)
Nak == Message("nak", Nobody, Nobody)
NetFrames == [kind : {"offer", "ack"}, ip : Addresses, server : Servers]
             \cup {ArpRequest, AppFrame, Nak}
NetSendings == [kind : {"request", "arp_reply"}, ip : Addresses, server : Servers]
               \cup {Discover}

ASSUME NetAssumption ==
    /\ DISCOVERS \in Nat \ {0}
    /\ Frames = NetFrames /\ Sendings = NetSendings

NetInit ==
    /\ NicInit /\ DhcpInit /\ RingInit
    /\ out = EmptyBag /\ wire = EmptyBag
    /\ leases = {} /\ losses = 0 /\ burst = 0
    /\ budget \in Budgets

Spend(what) == budget[what] > 0 /\ budget' = [budget EXCEPT ![what] = @ - 1]

(* m does not get through; it may be one more part of the dialogue.        *)
Dialogue == {"discover", "offer", "request", "ack"}
Lost(m) == losses' = IF m.kind \in Dialogue /\ losses < DISCOVERS THEN losses + 1 ELSE losses

-----------------------------------------------------------------------------
(* The world outside.                                                      *)

(* A Discover reaches server s, which offers an address.                   *)
Offers(s) ==
    LET m == Message("discover", Nobody, s) IN
    /\ BagIn(m, out)
    /\ out' = out (-) SetToBag({m})
    /\ \E k \in 1 .. POOL : wire' = wire (+) SetToBag({Message("offer", <<s, k>>, s)})
    /\ UNCHANGED <<leases, losses>>

(* A Request reaches its server, which leases the address or refuses.      *)
Answers(s) ==
    \E m \in BagToSet(out) :
      /\ m.kind = "request" /\ m.server = s
      /\ out' = out (-) SetToBag({m})
      /\ \/ /\ wire' = wire (+) SetToBag({Message("ack", m.ip, s)})
            /\ leases' = leases \cup {<<m.ip, s>>}
            /\ UNCHANGED losses
         \/ /\ wire' = wire (+) SetToBag({Nak})
            /\ Lost(m)
            /\ UNCHANGED leases

ServerStep ==
    /\ \E s \in Servers : Offers(s) \/ Answers(s)
    /\ UNCHANGED <<nicVars, dhcpVars, ringVars, burst, budget>>

(* The medium, or a card without a free descriptor, loses something.       *)
MediumLoses ==
    /\ losses < DISCOVERS
    /\ \/ \E m \in BagToSet(out) :
            out' = out (-) SetToBag({m}) /\ Lost(m) /\ UNCHANGED wire
       \/ \E f \in BagToSet(wire) :
            wire' = wire (-) SetToBag({f}) /\ Lost(f) /\ UNCHANGED out
    /\ UNCHANGED <<nicVars, dhcpVars, ringVars, leases, burst, budget>>

(* Other hosts send to port 11888, ask for hardware addresses, and get     *)
(* addresses of their own.                                                 *)
OthersSend ==
    /\ \/ Spend("apps") /\ wire' = wire (+) SetToBag({AppFrame}) /\ UNCHANGED leases
       \/ Spend("arps") /\ wire' = wire (+) SetToBag({ArpRequest}) /\ UNCHANGED leases
       \/ \E s \in Servers :
            /\ Spend("others")
            /\ wire' = wire (+) SetToBag({Message("ack", <<s, 0>>, s)})
            /\ leases' = leases \cup {<<<<s, 0>>, s>>}
    /\ UNCHANGED <<nicVars, dhcpVars, ringVars, out, losses, burst>>

-----------------------------------------------------------------------------
(* The card.                                                               *)

Arrives ==
    /\ \E f \in BagToSet(wire) : CardReceives(f) /\ wire' = wire (-) SetToBag({f})
    /\ UNCHANGED <<dhcpVars, ringVars, out, leases, losses, burst, budget>>

(* A Discover goes to every server, a Request to the one it names.         *)
Seen(m) ==
    CASE m.kind = "discover" -> SetToBag({Message("discover", Nobody, s) : s \in budget.up})
      [] m.kind = "request" -> SetToBag({m})
      [] OTHER -> EmptyBag

Transmits ==
    /\ CardTransmits
    /\ out' = out (+) Seen(tx)
    /\ UNCHANGED <<dhcpVars, ringVars, wire, leases, losses, burst, budget>>

LinkChanges ==
    /\ Spend("links") /\ CardLinkChanges
    /\ UNCHANGED <<dhcpVars, ringVars, out, wire, leases, losses, burst>>

-----------------------------------------------------------------------------
(* The handlers: network_handle_ethernet, and what it calls.               *)

(* The network is locked: every frame is dropped.                          *)
network_handle_ethernet_drops ==
    /\ locked /\ Handled
    /\ Lost(Received)
    /\ UNCHANGED <<dhcpVars, ringVars, out, wire, leases, budget>>

(* Mutant: the host believes an Offer.                                     *)
offer_believed ==
    /\ Received.kind = "offer"
    /\ DhcpAcked(Received)
    /\ e1000hw_send(Request(Received.ip, Received.server), "handle", "receive")

(* network_handle_dhcp: port 68.                                           *)
network_handle_offer ==
    /\ Received.kind = "offer"
    /\ DhcpOffered
    /\ e1000hw_send(Request(Received.ip, Received.server), "handle", "receive")

network_handle_ack == Received.kind = "ack" /\ DhcpAcked(Received) /\ Handled

network_handle_nak == Received.kind = "nak" /\ Handled /\ UNCHANGED dhcpVars

(* network_handle_udp: port 11888.                                         *)
network_handle_udp ==
    /\ Received.kind = "app"
    /\ network_push_packet
    /\ Handled

(* network_handle_arp: a request is answered once there is an address.     *)
network_handle_arp ==
    /\ Received.kind = "arp_request"
    /\ IF dhcp_info.initialized
       THEN e1000hw_send(Message("arp_reply", dhcp_info.your_ipv4, dhcp_info.server_ipv4),
                         "handle", "receive")
       ELSE Handled

Handles ==
    \/ network_handle_ethernet_drops /\ UNCHANGED burst
    \/ /\ npc = "handle" /\ ~locked
       /\ \/ network_handle_udp /\ UNCHANGED dhcpVars
          \/ network_handle_arp /\ UNCHANGED <<dhcpVars, ringVars>>
          \/ network_handle_offer /\ UNCHANGED ringVars
          \/ network_handle_ack /\ UNCHANGED ringVars
          \/ network_handle_nak /\ UNCHANGED ringVars
       /\ UNCHANGED <<outside, burst>>

-----------------------------------------------------------------------------
(* System calls.                                                           *)

(* Mutant: one Discover and no more.                                       *)
network_initialize_dhcp_once ==
    /\ DhcpRestarts
    /\ e1000hw_send(Discover, "run", "run")
    /\ burst' = 0

(* Service 22003: reset the client and send the first Discover.            *)
network_initialize_dhcp ==
    /\ DhcpRestarts
    /\ e1000hw_send(Discover, "run", "run")
    /\ burst' = DISCOVERS - 1

(* The next one, when the card has sent the one before.                    *)
NextDiscover ==
    /\ Sent /\ back = "run" /\ burst > 0
    /\ e1000hw_send(Discover, "send", "run")
    /\ burst' = burst - 1

DriverStep ==
    \/ /\ \/ irq_E1000 \/ e1000hw_service_procedure \/ e1000_on_receive
          \/ e1000_on_receive_ends
          \/ e1000hw_send_returns /\ (back = "receive" \/ burst = 0)
       /\ UNCHANGED <<dhcpVars, ringVars, outside, burst>>
    \/ NextDiscover /\ UNCHANGED <<dhcpVars, ringVars, outside>>
    \/ Handles

(* A program calls service 22003, 22001, 118 or 119.                       *)
ProgramCalls ==
    /\ npc = "run"
    /\ \/ /\ Spend("starts") /\ network_initialize_dhcp
          /\ UNCHANGED <<ringVars, out, wire, leases, losses>>
       \/ networkUnlock /\ UNCHANGED <<nicVars, ringVars, outside, burst>>
       \/ /\ Spend("locks") /\ networkLock
          /\ UNCHANGED <<nicVars, ringVars, out, wire, leases, losses, burst>>
       \/ /\ Spend("apps") /\ network_push_packet
          /\ UNCHANGED <<nicVars, dhcpVars, out, wire, leases, losses, burst>>
       \/ /\ pushed > 0 \/ budget.apps > 0
          /\ network_pop_packet
          /\ UNCHANGED <<nicVars, dhcpVars, outside, burst>>

NetNext == ServerStep \/ MediumLoses \/ OthersSend \/ Arrives \/ Transmits \/ LinkChanges
           \/ DriverStep \/ ProgramCalls

(* The card and the servers do their work, and the processor takes the     *)
(* interrupt and runs the driver.  Programs owe nothing.                   *)
NetFairness ==
    /\ WF_netVars(DriverStep) /\ WF_netVars(Transmits)
    /\ WF_netVars(Arrives) /\ WF_netVars(ServerStep)

NetSpec == NetInit /\ [][NetNext]_netVars /\ NetFairness

-----------------------------------------------------------------------------
NetTypeOK ==
    /\ NicTypeOK /\ DhcpTypeOK /\ RingTypeOK
    /\ BagToSet(wire) \subseteq Frames
    /\ leases \subseteq Addresses \X Servers
    /\ losses \in 0 .. DISCOVERS /\ burst \in 0 .. (DISCOVERS - 1)

(***************************************************************************)
(* Although nothing ties the parts of the dialogue together, with several  *)
(* servers, late answers to an earlier dialogue and answers meant for      *)
(* other hosts, the address in use is one that the saved server has        *)
(* leased.                                                                 *)
(***************************************************************************)
LeaseValid ==
    dhcp_info.initialized => <<dhcp_info.your_ipv4, dhcp_info.server_ipv4>> \in leases

(* A payload of port 11888 is delivered at most once and is never made up, *)
(* however the interrupts and the services interleave.                     *)
ImplementsPort == Port!MailSpec

(***************************************************************************)
(* Frames wait in the ring and nothing will make the driver look: the      *)
(* cause RXT0 was read or cleared together with another one that was       *)
(* served, and nothing more comes, or the ring is full.                    *)
(***************************************************************************)
Stuck ==
    /\ rx_done # {} /\ ICR = {} /\ npc = "run"
    /\ (wire = EmptyBag /\ out = EmptyBag) \/ RDH = RDT

(***************************************************************************)
(* The client does not try again, but it has sent DISCOVERS Discovers:     *)
(* when less than that is lost, refused or dropped, the host gets an       *)
(* address, unless the driver is stuck.                                    *)
(***************************************************************************)
GetsAddress ==
    (dhcp_info.Step > 0) ~> (dhcp_info.initialized \/ Stuck \/ losses = DISCOVERS)
=============================================================================
