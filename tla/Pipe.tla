-------------------------------- MODULE Pipe ---------------------------------
(***************************************************************************)
(* The bytes of one pipe (pipe.c, with the length checks that fslib.c puts *)
(* in front of it).  Both ends share one struct pipe_info_d; its positions *)
(* wrap when they are next used, not when they are moved.  A call runs     *)
(* with interrupts off and copies byte by byte.                            *)
(***************************************************************************)
EXTENDS Integers, Sequences

CONSTANTS
    Bytes,       \* what a byte may be
    BUFSIZ       \* size of the buffer, 1024 in the code

ASSUME PipeAssumption == BUFSIZ \in Nat \ {0} /\ 0 \in Bytes

VARIABLES
    pipe_info,   \* struct pipe_info_d
    copied       \* history: the last call and the bytes it was given or returned

pipeVars == <<pipe_info, copied>>

NewPipe == [base |-> [i \in 0 .. (BUFSIZ - 1) |-> 0], counter |-> 0,
            read_pos |-> 0, write_pos |-> 0]
NoCall == [op |-> "none", data |-> <<>>]

(* The bytes of a call of n bytes.                                         *)
Strings(n) == UNION {[1 .. k -> Bytes] : k \in 1 .. n}

PipeInit == pipe_info = NewPipe /\ copied = NoCall

Wrapped(pos) == IF pos >= BUFSIZ THEN 0 ELSE pos
Empty(q) == q.counter <= 0

(* Mutant: one byte more than the buffer holds.                            *)
FullLate(q) == q.counter > BUFSIZ

Full(q) == q.counter >= BUFSIZ

(* One turn of the loop of a read or of a write.                           *)
TakeByte(q) == [q EXCEPT !.read_pos = Wrapped(@) + 1, !.counter = @ - 1]
PutByte(q, b) == [q EXCEPT !.base[Wrapped(q.write_pos)] = b,
                           !.write_pos = Wrapped(@) + 1, !.counter = @ + 1]

(* read() of up to n bytes; more than the buffer holds is refused.         *)
file_read_pipe_buffer(n) ==
    LET q[i \in 0 .. n] == IF i = 0 THEN [pi |-> pipe_info, out |-> <<>>]
                           ELSE IF Empty(q[i - 1].pi) THEN q[i - 1]
                           ELSE [pi |-> TakeByte(q[i - 1].pi),
                                 out |-> Append(q[i - 1].out,
                                           q[i - 1].pi.base[Wrapped(q[i - 1].pi.read_pos)])]
    IN  /\ n <= BUFSIZ
        /\ pipe_info' = q[n].pi
        /\ copied' = [op |-> "read", data |-> q[n].out]

(* write() of s; what does not fit is left out, and s as long as the       *)
(* buffer is refused.                                                      *)
file_write_pipe_buffer(s) ==
    LET q[i \in 0 .. Len(s)] == IF i = 0 THEN pipe_info
                                ELSE IF Full(q[i - 1]) THEN q[i - 1]
                                ELSE PutByte(q[i - 1], s[i])
    IN  /\ Len(s) < BUFSIZ
        /\ pipe_info' = q[Len(s)]
        /\ copied' = [op |-> "write", data |-> s]

PipeTypeOK ==
    /\ pipe_info \in [base : [0 .. (BUFSIZ - 1) -> Bytes], counter : 0 .. BUFSIZ,
                      read_pos : 0 .. BUFSIZ, write_pos : 0 .. BUFSIZ]
    /\ copied \in [op : {"none", "read", "write"}, data : Seq(Bytes)]

PipeContent == [i \in 1 .. pipe_info.counter |->
                  pipe_info.base[(pipe_info.read_pos + i - 1) % BUFSIZ]]

PipeStream == INSTANCE ByteStream WITH
    Capacity <- BUFSIZ, stream <- PipeContent, last <- copied
=============================================================================
