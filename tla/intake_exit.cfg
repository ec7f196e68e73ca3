SPECIFICATION Spec
CONSTANTS
    THREAD_COUNT_MAX = 4
    USER_THRESHOLD_TID = 2
    QUANTUM_MAX = 3
    FOCUS_BONUS = 1
    SleepMs = {2}
    MaxPosts = 1
    Calls = {"clone", "create", "exit", "waitpid", "post"}
    Callers = {0, 2, 3}
    Booted = TRUE
INVARIANTS OneRunning RoundEnds PanicCause
PROPERTIES ExitStops TickReturns
