CONSTANTS
    None = None
    Idle = idle
    Startup = startup
    Slots = {t1}
    Threads = {idle, startup, t1}
    EventQ = event
    MutexQ = mutex
    SignalQ = signal
    Queues = {event, mutex, signal}
    ThreadPriorities = {0, 1}
SPECIFICATION HistSpec
INVARIANTS MutexHeard
