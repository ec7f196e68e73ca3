SPECIFICATION FilesSpec
CONSTANTS
    Procs = {p1, p2}
    First = p1
    Stdio = stdio
    Regular = {r1, r2}
    ReadEnd = re
    WriteEnd = we
    None = none
    OPEN_MAX = 4
    STREAMS = 1
    Junk = {0, 2}
    MaxCount = 4
    Bytes = {0, 1}
    BUFSIZ = 3
    TtyBytes = {0, 1}
    TTY_BUF_SIZE = 4
    Workloads = {{"open", "dup", "dup2", "close", "clone"}, {"pipe", "dup2", "clone", "close"}, {"pipe", "clone", "bytes"}, {"tty"}}
INVARIANTS FilesTypeOK NamedIsOpen
PROPERTY ImplementsStreams
