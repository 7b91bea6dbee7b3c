CONSTANTS
    None = None
    Idle = idle
    Startup = startup
    Slots = {t1, t2}
    Threads = {idle, startup, t1, t2}
    Queues = {q1}
SPECIFICATION Spec
PROPERTIES WakeOneTakesOne
