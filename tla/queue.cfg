SPECIFICATION MsgSpec
CONSTANTS
    MSG_QUEUE_MAX = 3
    Classes = {"key", "other"}
    Repeating = {"key"}
    Services = {"post", "post2", "get", "get2"}
    BlockOnEmpty = TRUE
    MaxIds = 5
INVARIANTS MsgTypeOK BoundedWait
PROPERTY ImplementsMailbox
CHECK_DEADLOCK FALSE
