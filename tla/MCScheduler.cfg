CONSTANTS
    None = None
    Idle = idle
    Startup = startup
    Slots = {t1, t2}
    Threads = {idle, startup, t1, t2}
    Queues = {q1, q2}
SPECIFICATION LiveSpec
INVARIANTS IInv
PROPERTIES PriorityDispatch FirstComeFirstServed SwitchEnablesIrq KeepsPromises HighRuns NormalRuns
