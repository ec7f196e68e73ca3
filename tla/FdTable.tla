------------------------------- MODULE FdTable -------------------------------
(***************************************************************************)
(* The descriptors of the processes: Objects[] of each process, and the    *)
(* file structures that they name.  fd_counter is meant to count the names *)
(* of a structure.  It is 1 after open(), grows with dup, dup2, dup3 and   *)
(* clone, and shrinks only when dup2 or dup3 takes a name away; close does *)
(* not touch it, and sys_pipe does not set it.                             *)
(***************************************************************************)
EXTENDS Integers, FiniteSets

CONSTANTS
    Procs, First,          \* the processes, and the one that clones first
    Stdio,                 \* the file of the standard streams
    Regular,               \* the files that open() makes
    ReadEnd, WriteEnd,     \* the two files of a pipe
    None,                  \* an empty descriptor
    OPEN_MAX,              \* descriptors of a process, 32 in the code
    STREAMS,               \* reserved descriptors, 3 in the code
    Junk,                  \* what memory may hold that nobody has initialized
    MaxCount               \* bound: fd_counter

Files == {Stdio, ReadEnd, WriteEnd} \cup Regular
Fd == 0 .. (OPEN_MAX - 1)

ASSUME FdAssumption ==
    /\ First \in Procs /\ None \notin Files
    /\ Regular \cap {Stdio, ReadEnd, WriteEnd} = {}
    /\ ReadEnd # WriteEnd /\ Stdio \notin {ReadEnd, WriteEnd}
    /\ OPEN_MAX \in Nat /\ STREAMS \in 1 .. OPEN_MAX
    /\ Junk \subseteq Int /\ MaxCount \in Nat
    /\ IsFiniteSet(Procs)

VARIABLES
    objects,      \* Objects[] of every process
    running,      \* the processes that exist
    made,         \* the file structures that exist
    fd_counter,
    closed        \* files with magic 4321

fdVars == <<objects, running, made, fd_counter, closed>>

FdInit ==
    /\ objects = [p \in Procs |-> [fd \in Fd |-> IF p = First /\ fd < STREAMS
                                                 THEN Stdio ELSE None]]
    /\ running = {First}
    /\ made = {Stdio}
    /\ fd_counter = [f \in Files |-> 1]
    /\ closed = {}

(* The first free descriptor of p, not below low.                          *)
FirstFree(p, low, fd) ==
    /\ fd >= low /\ objects[p][fd] = None
    /\ \A i \in low .. (fd - 1) : objects[p][i] # None

Point(p, fd, f) == objects' = [objects EXCEPT ![p][fd] = f]

(* open() of a file that is read from the disk.                            *)
do_read_file_from_disk(p, f) ==
    /\ f \in Regular \ made
    /\ \E fd \in Fd : FirstFree(p, 0, fd) /\ Point(p, fd, f)
    /\ fd_counter' = [fd_counter EXCEPT ![f] = 1]
    /\ made' = made \cup {f}
    /\ UNCHANGED <<running, closed>>

sys_pipe(p) ==
    /\ made \cap {ReadEnd, WriteEnd} = {}
    /\ \E a \in Fd : \E b \in Fd :
         /\ FirstFree(p, STREAMS, a) /\ FirstFree(p, a + 1, b)
         /\ objects' = [objects EXCEPT ![p][a] = ReadEnd, ![p][b] = WriteEnd]
    /\ \E x \in Junk : \E y \in Junk :
         fd_counter' = [fd_counter EXCEPT ![ReadEnd] = x, ![WriteEnd] = y]
    /\ made' = made \cup {ReadEnd, WriteEnd}
    /\ UNCHANGED <<running, closed>>

sys_dup(p, old) ==
    /\ objects[p][old] # None
    /\ fd_counter[objects[p][old]] < MaxCount
    /\ \E fd \in Fd : FirstFree(p, 0, fd) /\ Point(p, fd, objects[p][old])
    /\ fd_counter' = [fd_counter EXCEPT ![objects[p][old]] = @ + 1]
    /\ UNCHANGED <<running, made, closed>>

(* The counters after a name of f was taken away.                          *)
Released(f) == IF f = None THEN fd_counter ELSE [fd_counter EXCEPT ![f] = @ - 1]

Unused(f) == f # None /\ Released(f)[f] <= 0

(* dup2 and dup3: the old name of new goes first, and the file is closed   *)
(* if the counter says that it was the last.                               *)
sys_dup2(p, old, new) ==
    /\ old # new /\ objects[p][old] # None
    /\ fd_counter[objects[p][old]] < MaxCount
    /\ Point(p, new, objects[p][old])
    /\ closed' = IF Unused(objects[p][new]) THEN closed \cup {objects[p][new]} ELSE closed
    /\ fd_counter' = [Released(objects[p][new]) EXCEPT ![objects[p][old]] = @ + 1]
    /\ UNCHANGED <<running, made>>

(* dup2 of a descriptor on itself; dup3 refuses it.                        *)
sys_dup2_same(p, old) == objects[p][old] # None /\ UNCHANGED fdVars

(* close() needs a valid file, and leaves consoles alone.                  *)
sys_close_file(p, fd) ==
    /\ fd >= STREAMS
    /\ objects[p][fd] \notin closed \cup {None, Stdio}
    /\ Point(p, fd, None)
    /\ UNCHANGED <<running, made, fd_counter, closed>>

NamesIn(p, f) == Cardinality({fd \in Fd : objects[p][fd] = f})

(* Mutant: the child shares the files without counting them.               *)
copy_process_struct_uncounted(p, q) ==
    /\ q \notin running
    /\ objects' = [objects EXCEPT ![q] = objects[p]]
    /\ running' = running \cup {q}
    /\ UNCHANGED <<made, fd_counter, closed>>

(* clone: the child gets every descriptor of the parent.                   *)
copy_process_struct(p, q) ==
    /\ q \notin running
    /\ \A f \in Files : fd_counter[f] + NamesIn(p, f) <= MaxCount
    /\ objects' = [objects EXCEPT ![q] = objects[p]]
    /\ fd_counter' = [f \in Files |-> fd_counter[f] + NamesIn(p, f)]
    /\ running' = running \cup {q}
    /\ UNCHANGED <<made, closed>>

FdTypeOK ==
    /\ objects \in [Procs -> [Fd -> Files \cup {None}]]
    /\ running \subseteq Procs /\ made \subseteq Files /\ closed \subseteq Files
    /\ fd_counter \in [Files -> Int]

(***************************************************************************)
(* A file that open() made is never closed by dup2 or dup3 under somebody  *)
(* who still names it, in whichever process: its counter is at least the   *)
(* number of its names.  The counters of pipes, sockets and the standard   *)
(* streams start too low for that.                                         *)
(***************************************************************************)
NamedIsOpen == \A p \in Procs : \A fd \in Fd : objects[p][fd] \in Regular => objects[p][fd] \notin closed
=============================================================================
