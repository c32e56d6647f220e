SPECIFICATION Spec

CONSTANTS
    IoEvents = {io1}
    SignalEvents = {}
    TimerEvents = {tm1, tm2}
    Deferreds = {}
    th_notify = th_notify
    ev_signal = ev_signal
    Persist = {io1}
    nactivequeues = 2
    MAX_DEFERREDS_QUEUED = 0
    NULL = NULL
    Threads = {t1, t2}
    LoopThreads = {t1, t2}
    LoopExits = {tm2}
    EvFinalize = {}
    MayFail = {}
    Ops = {"event_add", "event_del", "event_active", "event_base_loopexit", "event_base_loopbreak", "event_base_add_virtual_", "event_base_del_virtual_", "dispatch_fails"}
    Intervals = {}
    MaxNcalls = 2
    MaxVirtual = 1
    MaxClock = 2
    max_dispatch_callbacks = 2
    max_dispatch_time = 1
    limit_callbacks_after_prio = 1
    Level1 = {tm1, io1}
    SharedFd = {}
    fd = fd
    LoopFlags <- AllFlags
    df1 = df1
    io1 = io1
    io2 = io2
    sg1 = sg1
    t1 = t1
    t2 = t2
    tm1 = tm1
    tm2 = tm2
    evcb_pri <- MCevcb_pri
    Slots <- MCSlots


PROPERTIES
    UrgentFirst
    EndsOnlyEmpty
