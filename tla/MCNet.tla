-------------------------------- MODULE MCNet --------------------------------
(***************************************************************************)
(* Net with its budgets for TLC: which servers are up, and how many        *)
(* dialogues, locks, link changes, payloads of port 11888, ARP requests    *)
(* and dialogues of other hosts there are.                                 *)
(***************************************************************************)
EXTENDS Net

Budget(up, starts, locks, links, apps, arps, others) ==
    [up |-> up, starts |-> starts, locks |-> locks, links |-> links, apps |-> apps,
     arps |-> arps, others |-> others]

OneUp == {CHOOSE s \in Servers : TRUE}

MCBudgets == {Budget(OneUp, 2, 1, 1, 0, 0, 0), Budget(OneUp, 1, 0, 0, 0, 1, 1),
              Budget(OneUp, 1, 0, 0, 1, 0, 0), Budget(Servers, 1, 0, 0, 0, 0, 0),
              Budget({}, 0, 0, 1, 4, 0, 0)}
=============================================================================
