-------------------------------- MODULE Files --------------------------------
(***************************************************************************)
(* Files as programs see them: the descriptors of the processes, a pipe    *)
(* that is read and written through them, and a queue of a terminal.       *)
(***************************************************************************)
EXTENDS FdTable, Pipe, Tty

CONSTANT Workloads    \* bound: the sets of calls that a behaviour may consist of

VARIABLE calls        \* the set of calls of this behaviour

filesVars == <<fdVars, pipeVars, ttyVars, calls>>

FilesInit == FdInit /\ PipeInit /\ TtyInit /\ calls \in Workloads

(* A valid end of the pipe among the descriptors of p.  Both ends can be   *)
(* read and written.                                                       *)
HasPipe(p) == \E fd \in Fd : objects[p][fd] \in {ReadEnd, WriteEnd} \ closed

FdCall(p) ==
    \/ "open" \in calls /\ \E f \in Regular : do_read_file_from_disk(p, f)
    \/ "pipe" \in calls /\ sys_pipe(p)
    \/ "dup" \in calls /\ \E fd \in Fd : sys_dup(p, fd)
    \/ "dup2" \in calls /\ \E old \in Fd : \E new \in Fd : sys_dup2(p, old, new)
    \/ "dup2" \in calls /\ \E fd \in Fd : sys_dup2_same(p, fd)
    \/ "close" \in calls /\ \E fd \in Fd : sys_close_file(p, fd)
    \/ "clone" \in calls /\ \E q \in Procs : copy_process_struct(p, q)

PipeCall(p) ==
    /\ "bytes" \in calls /\ HasPipe(p)
    /\ \/ \E n \in 1 .. BUFSIZ : file_read_pipe_buffer(n)
       \/ \E s \in Strings(BUFSIZ - 1) : file_write_pipe_buffer(s)

TtyCall ==
    /\ "tty" \in calls
    /\ \/ \E n \in 1 .. TTY_BUF_SIZE : tty_read(n)
       \/ \E s \in TtyStrings(TTY_BUF_SIZE) : tty_write(s)

FilesNext ==
    \/ \E p \in running : FdCall(p) /\ UNCHANGED <<pipeVars, ttyVars, calls>>
    \/ \E p \in running : PipeCall(p) /\ UNCHANGED <<fdVars, ttyVars, calls>>
    \/ TtyCall /\ UNCHANGED <<fdVars, pipeVars, calls>>

FilesSpec == FilesInit /\ [][FilesNext]_filesVars

-----------------------------------------------------------------------------
(* Positions and counters stay inside their buffers.                       *)
FilesTypeOK == FdTypeOK /\ PipeTypeOK /\ TtyTypeOK /\ calls \in Workloads

(***************************************************************************)
(* Both rings, one with a counter and lazy wrapping, the other with a free *)
(* place and a count on the side, are streams: through wrap-around, short  *)
(* reads and writes that do not fit, no byte is lost after it was taken,   *)
(* doubled or passed by another.                                           *)
(***************************************************************************)
ImplementsStreams == PipeStream!Spec /\ TtyStream!Spec
=============================================================================
