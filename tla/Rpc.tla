--------------------------------- MODULE Rpc ---------------------------------
(***************************************************************************)
(* What a display server promises to the programs that call it: a call is  *)
(* served once, after it was made, and returns only when it was served.  A *)
(* connection may break, and then nothing is promised to its caller.       *)
(***************************************************************************)
CONSTANT Callers
VARIABLE phase

Phases == {"idle", "asked", "served", "broken"}

Init == phase = [c \in Callers |-> "idle"]

Move(c, from, to) == phase[c] = from /\ phase' = [phase EXCEPT ![c] = to]

Ask(c) == Move(c, "idle", "asked")
Serve(c) == Move(c, "asked", "served")
Return(c) == Move(c, "served", "idle")

(* A connect in the middle of a dispatch breaks two connections at once.   *)
Break == /\ DOMAIN phase' = Callers
         /\ \A c \in Callers : phase'[c] \in {phase[c], "broken"}

Next == Break \/ \E c \in Callers : Ask(c) \/ Serve(c) \/ Return(c)

Spec == Init /\ [][Next]_phase
=============================================================================
