CONSTANTS
    None = None
    Idle = idle
    Startup = startup
    Threads = {idle, startup, t1, t2}
    Queues = {e1, e2}
    Horizon = 1
    Delays = {1, 3, 6}
    Repeats = {0, 1}
    ClockFreq = 2
    NanoFactor = 4
    Word = 9
    Never = 9
    ThreadPriorities = {1}
SPECIFICATION TimersLiveSpec
INVARIANTS TimersIInv
PROPERTIES NotEarly SleepersWake
