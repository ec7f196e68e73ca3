SPECIFICATION Spec
CONSTANTS
    THREAD_COUNT_MAX = 3
    USER_THRESHOLD_TID = 2
    QUANTUM_MAX = 3
    FOCUS_BONUS = 1
    SleepMs = {2}
    MaxPosts = 1
    Calls = {"clone", "bad_image", "callback", "lock_ts", "lock_sched", "post", "stray_post", "init_event", "exit", "focus", "input", "yield"}
    Callers = {0, 2}
    Booted = FALSE
INVARIANTS TypeOK FocusAlive PanicCause CallbackOnCurrent
