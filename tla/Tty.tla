--------------------------------- MODULE Tty ---------------------------------
(***************************************************************************)
(* One queue of a terminal (tty.c): the raw_queue that keyboard input, the *)
(* master of a pseudo terminal and __tty_write fill and __tty_read empties,*)
(* or the output_queue of __tty_write2, __tty_read2 and the flush.  It is  *)
(* full when one place is left, and cnt is kept beside head and tail.      *)
(***************************************************************************)
EXTENDS Integers, Sequences

CONSTANTS
    TtyBytes,       \* what a byte may be
    TTY_BUF_SIZE    \* size of the buffer, 1024 in the code

ASSUME TtyAssumption == TTY_BUF_SIZE \in Nat \ {0, 1} /\ 0 \in TtyBytes

VARIABLES
    queue,          \* struct tty_queue
    typed           \* history: the last call and the bytes it was given or returned

ttyVars == <<queue, typed>>

TtyInit ==
    /\ queue = [buf |-> [i \in 0 .. (TTY_BUF_SIZE - 1) |-> 0], head |-> 0, tail |-> 0, cnt |-> 0]
    /\ typed = [op |-> "none", data |-> <<>>]

(* The bytes of a call of up to n bytes.                                   *)
TtyStrings(n) == UNION {[1 .. k -> TtyBytes] : k \in 1 .. n}

Advance(i) == (i + 1) % TTY_BUF_SIZE
TtyEmpty(q) == q.head = q.tail
TtyFull(q) == Advance(q.head) = q.tail

(* Mutant: cnt is moved by a byte that is not queued.                      *)
putchar_counts_dropped(q, c) ==
    IF TtyFull(q) THEN [q EXCEPT !.cnt = @ + 1]
    ELSE [q EXCEPT !.buf[q.head] = c, !.head = Advance(@), !.cnt = @ + 1]

tty_queue_putchar(q, c) ==
    IF TtyFull(q) THEN q
    ELSE [q EXCEPT !.buf[q.head] = c, !.head = Advance(@), !.cnt = @ + 1]

tty_queue_getchar(q) == [q EXCEPT !.tail = Advance(@), !.cnt = @ - 1]

(* __tty_write goes on when the queue is full and reports all of s,        *)
(* __tty_write2 stops and reports what it wrote: the queue is the same.    *)
tty_write(s) ==
    LET q[i \in 0 .. Len(s)] == IF i = 0 THEN queue ELSE tty_queue_putchar(q[i - 1], s[i])
    IN  /\ queue' = q[Len(s)]
        /\ typed' = [op |-> "write", data |-> s]

(* __tty_read and __tty_read2 of n bytes; with n = TTY_BUF_SIZE, a flush.  *)
tty_read(n) ==
    LET q[i \in 0 .. n] == IF i = 0 THEN [at |-> queue, out |-> <<>>]
                           ELSE IF TtyEmpty(q[i - 1].at) THEN q[i - 1]
                           ELSE [at |-> tty_queue_getchar(q[i - 1].at),
                                 out |-> Append(q[i - 1].out,
                                           q[i - 1].at.buf[q[i - 1].at.tail])]
    IN  /\ queue' = q[n].at
        /\ typed' = [op |-> "read", data |-> q[n].out]

TtyTypeOK ==
    /\ queue \in [buf : [0 .. (TTY_BUF_SIZE - 1) -> TtyBytes], cnt : 0 .. (TTY_BUF_SIZE - 1),
                  head : 0 .. (TTY_BUF_SIZE - 1), tail : 0 .. (TTY_BUF_SIZE - 1)]
    /\ typed \in [op : {"none", "read", "write"}, data : Seq(TtyBytes)]

TtyContent == [i \in 1 .. queue.cnt |-> queue.buf[(queue.tail + i - 1) % TTY_BUF_SIZE]]

TtyStream == INSTANCE ByteStream WITH
    Capacity <- TTY_BUF_SIZE - 1, stream <- TtyContent, last <- typed
=============================================================================
