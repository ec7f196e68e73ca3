-------------------------------- MODULE Dhcp ---------------------------------
(***************************************************************************)
(* The DHCP client of the kernel (dhcp.c) and the gate in front of all     *)
(* protocols (the lock of the network).  The client broadcasts DISCOVERS   *)
(* Discovers in a row and then only reacts: to an Offer with a Request, to *)
(* an acknowledgement by taking its address.  It compares no transaction   *)
(* number and no hardware address, and it never tries again by itself.     *)
(***************************************************************************)
EXTENDS Integers

CONSTANTS
    Servers,      \* DHCP servers of the network
    POOL,         \* addresses that a server may offer to this host
    Nobody        \* an address of four zeros

(* The addresses of different servers are different.  Number 0 of a server *)
(* belongs to another host of the network.                                 *)
Addresses == Servers \X (0 .. POOL)

ASSUME DhcpAssumption ==
    /\ POOL \in Nat \ {0}
    /\ Nobody \notin Servers \cup Addresses

VARIABLES
    dhcp_info,    \* initialized, Step, your_ipv4, server_ipv4
    online,       \* NetworkInitialization.is_online
    locked        \* NetworkInitialization.locked

dhcpVars == <<dhcp_info, online, locked>>

(* What the host sends, with yiaddr and siaddr as far as they matter.      *)
Message(kind, ip, server) == [kind |-> kind, ip |-> ip, server |-> server]
Discover == Message("discover", Nobody, Nobody)
Request(ip, server) == Message("request", ip, server)

DhcpInit ==
    /\ dhcp_info = [initialized |-> FALSE, Step |-> 0,
                    your_ipv4 |-> Nobody, server_ipv4 |-> Nobody]
    /\ online = FALSE
    /\ locked = TRUE

(* The beginning of network_initialize_dhcp and the Step of its Discovers. *)
DhcpRestarts ==
    /\ dhcp_info' = [dhcp_info EXCEPT !.initialized = FALSE, !.Step = 1]
    /\ UNCHANGED <<online, locked>>

(* network_handle_dhcp, an Offer: Step is 2, and 3 when the Request goes.  *)
DhcpOffered ==
    /\ dhcp_info' = [dhcp_info EXCEPT !.Step = 3]
    /\ UNCHANGED <<online, locked>>

(* An acknowledgement: its addresses are saved, and the host is online.    *)
DhcpAcked(m) ==
    /\ dhcp_info' = [initialized |-> TRUE, Step |-> 4,
                     your_ipv4 |-> m.ip, server_ipv4 |-> m.server]
    /\ online' = TRUE
    /\ UNCHANGED locked

(* Service 22001.                                                          *)
networkUnlock == locked' = FALSE /\ UNCHANGED <<dhcp_info, online>>
networkLock == locked' = TRUE /\ UNCHANGED <<dhcp_info, online>>

-----------------------------------------------------------------------------
DhcpTypeOK ==
    /\ dhcp_info \in [initialized : BOOLEAN, Step : {0, 1, 3, 4},
                      your_ipv4 : Addresses \cup {Nobody},
                      server_ipv4 : Servers \cup {Nobody}]
    /\ online \in BOOLEAN /\ locked \in BOOLEAN
=============================================================================
