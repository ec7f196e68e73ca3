SPECIFICATION Spec
CONSTANTS
    THREAD_COUNT_MAX = 3
    USER_THRESHOLD_TID = 2
    QUANTUM_MAX = 3
    FOCUS_BONUS = 1
    SleepMs = {2}
    MaxPosts = 1
    Calls = {"clone", "sleep", "block", "ds", "socket"}
    Callers = {0, 2}
    Booted = TRUE
PROPERTY NoSpuriousWake
