----------------------------- MODULE ByteStream ------------------------------
(***************************************************************************)
(* What a pipe or a terminal queue promises: bytes come out in the order   *)
(* in which they went in, each once; a write takes what there is room for, *)
(* from the front of what it was given; a read of a stream that is not     *)
(* empty returns something.                                                *)
(***************************************************************************)
EXTENDS Integers, Sequences

CONSTANT Capacity
VARIABLES
    stream,   \* the bytes on their way
    last      \* the last call: what it was given or what it returned

Init == stream = <<>> /\ last = [op |-> "none", data |-> <<>>]

Room == Capacity - Len(stream)
Fits(s) == IF Len(s) <= Room THEN s ELSE SubSeq(s, 1, Room)

Write == last'.op = "write" /\ stream' = stream \o Fits(last'.data)

Read ==
    \E n \in 0 .. Len(stream) :
      /\ n = 0 => stream = <<>>
      /\ last' = [op |-> "read", data |-> SubSeq(stream, 1, n)]
      /\ stream' = SubSeq(stream, n + 1, Len(stream))

Next == Write \/ Read

Spec == Init /\ [][Next]_<<stream, last>>
=============================================================================
