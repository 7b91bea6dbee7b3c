CONSTANTS
    None = None
    Idle = idle
    Startup = startup
    Slots = {t1, t2}
    Threads = {idle, startup, t1, t2}
    EventQ = event_q
    MutexQ = mutex_q
    SignalQ = signal_q
    Queues = {event_q, mutex_q, signal_q}
    ThreadPriorities = {0, 1}
    s1 = s1
    a = a
    Senders = {s1}
    Receivers = {}
    Bytes = {a}
    Outgoing = {a}
    Incoming = {a}
    Nothing = Nothing
    BufferSize = 6
    Slow = TRUE
SPECIFICATION KernelSpec
INVARIANTS MutualExclusion EventHeard LockHeard MountHeard
PROPERTIES SendReturns CrashFlushes
