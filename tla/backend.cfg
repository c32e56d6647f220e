SPECIFICATION Spec

CONSTANTS
    Fds = {1, 2}
    Events = {r1, w1, rc1, rr1, c1, r2}
    ev_fd <- MCev_fd
    ev_events <- MCev_events
    EdgeTriggered = {}
    Files = {f1, f2}
    Held = {f1}
    Methods = {"epoll", "changelist", "poll", "select", "kqueue", "devpoll", "evport", "win32"}
    PortRaces = FALSE
    Room = 1
    MaxListed = 2
    MayRefuse = TRUE
    None = None
    Bases = {A, B}
    SigEvents = {a1, a2, b1}
    ev_base <- MCev_base
    ev_signum <- MCev_signum
    NeedReinit = TRUE
    WatchMayFail = FALSE
    PipeSize = 1
    MaxCounted = 2
    NoBase = NoBase
    r1 = r1
    w1 = w1
    rc1 = rc1
    r2 = r2
    f1 = f1
    a1 = a1
    a2 = a2
    b1 = b1
    A = A
    B = B
    f2 = f2
    rr1 = rr1
    c1 = c1

INVARIANTS IntegrityOK SignalsFollow
PROPERTIES PollsWhatIsListed ReportsServed
