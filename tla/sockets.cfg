SPECIFICATION SocketSpec
CONSTANTS
    Clients = {c1, c2, c3}
    Server = server
    None = none
    PENDING_MAX = 3
    DEFAULT_BACKLOG = 1
    Packets = {m}
    Users = {c1}
SYMMETRY ClientSymmetry
INVARIANTS SocketTypeOK FileSound NeverWakes PanicIsForced
PROPERTY ForgetsOnlyWhenFull
CHECK_DEADLOCK FALSE
