SPECIFICATION DsSpec
CONSTANTS
    Clients = {c1, c2}
    Callers = {c1, c2}
    Server = server
    None = none
    PENDING_MAX = 3
    DEFAULT_BACKLOG = 1
    Packets <- Packet
    Users = {c1, c2}
    SERVER_BACKLOG = 2
    SEND_TRIES = 2
    Calls = {"strict"}
INVARIANT AnswersRequester
