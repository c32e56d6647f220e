SPECIFICATION Spec

CONSTANTS
    IoEvents = {io1}
    SignalEvents = {}
    TimerEvents = {}
    Deferreds = {}
    th_notify = th_notify
    ev_signal = ev_signal
    Persist = {io1}
    nactivequeues = 1
    MAX_DEFERREDS_QUEUED = 0
    NULL = NULL
    Threads = {t1, t2}
    LoopThreads = {t1}
    LoopExits = {}
    EvFinalize = {}
    MayFail = {}
    Ops = {"event_add", "event_active", "event_free"}
    Intervals = {}
    MaxNcalls = 2
    MaxVirtual = 1
    MaxClock = 1
    max_dispatch_callbacks = 2147483647
    max_dispatch_time <- NoTime
    limit_callbacks_after_prio = 0
    Level1 = {}
    SharedFd = {}
    fd = fd
    LoopFlags <- NoFlags
    df1 = df1
    io1 = io1
    io2 = io2
    sg1 = sg1
    t1 = t1
    t2 = t2
    tm1 = tm1
    tm2 = tm2
    evcb_pri <- MCevcb_pri
    Slots <- MCSlots


PROPERTIES
    FreeWaits
