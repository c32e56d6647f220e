------------------------------ MODULE Backends ------------------------------
(***************************************************************************)
(* The event map of evmap.c over the polling backends: epoll, epoll with   *)
(* the changelist, poll and select (epoll.c, poll.c, select.c), and those  *)
(* of OtherBackends.                                                       *)
(*                                                                         *)
(* The map counts, for each descriptor, the events that wait for reading,  *)
(* writing and closing, and tells the backend only when a count leaves or  *)
(* reaches 0.  The loop's thread holds the base lock except while it       *)
(* sleeps in the kernel; other threads change the map meanwhile.  The      *)
(* program closes a descriptor only after deleting its events, as the      *)
(* documentation asks, and may open it again as another file at any time.  *)
(***************************************************************************)
EXTENDS OtherBackends, FiniteSets

CONSTANTS
    Events,
    ev_fd, ev_events,   \* the descriptor and the conditions of each event
    EdgeTriggered,      \* the events with EV_ET
    Files, Held,        \* open files; those another descriptor keeps open
    Methods,            \* the backends the base may have been given
    MaxListed,          \* the limit on events per descriptor (0xffff)
    MayRefuse,          \* whether a system call or an allocation may fail
    PortRaces,          \* whether a descriptor an event port is reporting, or
                        \* has associated again, may lose its last event
    None

ASSUME BackendsAssumption ==
    /\ ev_fd \in [Events -> Fds]
    /\ ev_events \in [Events -> SUBSET Kinds \ {{}}]
    /\ EdgeTriggered \subseteq Events /\ Held \subseteq Files
    /\ Methods \subseteq {"epoll", "changelist", "poll", "select",
                     "kqueue", "devpoll", "evport", "win32"}
    /\ PortRaces \in BOOLEAN
    /\ MaxListed \in Nat \ {0} /\ MayRefuse \in BOOLEAN
    /\ None \notin Files

VARIABLES
    method,             \* base->evsel
    events, n,          \* struct evmap_io: the list and nread, nwrite, nclose
    idxplus1,           \* the fdinfo of the changelist and of poll
    changes,            \* base->changelist
    items,              \* the kernel's epoll set: (fd, file) -> conditions
    event_set,          \* poll's array
    sets, event_fds,    \* select's sets and highest descriptor
    be,                 \* the state of the other backends
    file,               \* what each descriptor is open on
    sleeping,           \* where the loop is in *_dispatch
    copy,               \* what poll and select were called with
    what,               \* what the kernel reported: fd -> conditions
    active,             \* the conditions each event was activated for
    refused             \* history: descriptors whose change the kernel refused

mapVars    == <<events, n>>
kernelVars == <<items, event_set, sets, event_fds, be>>
queueVars  == <<changes, idxplus1>>
loopVars   == <<sleeping, copy, what, active>>
backendVars == <<method, mapVars, queueVars, kernelVars, file, loopVars, refused>>

Counted(fd) == {k \in Kinds : n[fd][k] > 0}
Epoll == method \in {"epoll", "changelist"}
NoChange == [k \in Kinds |-> "none"]
Closed == {fd \in Fds : file[fd] = None}

----------------------------------------------------------------------------
(* epoll.                                                                  *)

\* epoll_ctl(2): what it answers and the set it leaves.
epoll_ctl(its, op, fd, k, et, full) ==
    LET key == <<fd, file[fd]>>
        set == [r |-> "ok", its |-> [x \in DOMAIN its \cup {key} |->
                                        IF x = key THEN [k |-> k, et |-> et] ELSE its[x]]]
        err(e) == [r |-> e, its |-> its]
    IN CASE file[fd] = None                         -> err("EBADF")
         [] op = "ADD" /\ key \in DOMAIN its        -> err("EEXIST")
         [] op = "ADD" /\ key \notin DOMAIN its     -> IF full THEN err("ENOSPC") ELSE set
         [] op # "ADD" /\ key \notin DOMAIN its     -> err("ENOENT")
         [] op = "MOD" /\ key \in DOMAIN its        -> set
         [] op = "DEL" /\ key \in DOMAIN its        ->
                [r |-> "ok", its |-> [x \in DOMAIN its \ {key} |-> its[x]]]

\* The operation for a change: the rows of the table for which one condition
\* is both added and deleted are never looked up.
epoll_op_table(ch) ==
    LET add  == {k \in Kinds : ch.change[k] = "add"}
        del  == {k \in Kinds : ch.change[k] = "del"}
        left == ch.old \ del
    IN CASE add # {} -> [op |-> IF ch.old = {} THEN "ADD" ELSE "MOD", k |-> add \cup left]
         [] add = {} /\ del # {} /\ left # {} -> [op |-> "MOD", k |-> left]
         [] add = {} /\ del # {} /\ left = {} -> [op |-> "DEL", k |-> del]
         [] add = {} /\ del = {} -> [op |-> "none", k |-> {}]

\* Mutant: the MOD that finds nothing is not retried.
apply_without_retry(its, ch, full) ==
    LET o == epoll_op_table(ch)
        a == epoll_ctl(its, o.op, ch.fd, o.k, FALSE, full)
    IN IF o.k = {} THEN [r |-> 0, its |-> its]
       ELSE [r |-> IF a.r = "ok" \/ o.op = "DEL" THEN 0 ELSE 1, its |-> a.its]

\* The operation with its retries; r is 0, or 1 for the code's -1.
epoll_apply_one_change(its, ch, full) ==
    LET o  == epoll_op_table(ch)
        et == ch.et["READ"] \/ ch.et["WRITE"]
        a  == epoll_ctl(its, o.op, ch.fd, o.k, et, full)
        again(op) == LET b == epoll_ctl(its, op, ch.fd, o.k, et, full)
                     IN [r |-> IF b.r = "ok" THEN 0 ELSE 1, its |-> b.its]
    IN CASE o.k = {}                                  -> [r |-> 0, its |-> its]
         [] o.k # {} /\ a.r = "ok"                    -> [r |-> 0, its |-> a.its]
         [] o.op = "MOD" /\ a.r = "ENOENT"            -> again("ADD")
         [] o.op = "ADD" /\ a.r = "EEXIST"            -> again("MOD")
         [] o.op = "DEL" /\ a.r \in {"ENOENT", "EBADF"} -> [r |-> 0, its |-> its]
         [] OTHER                                     -> [r |-> 1, its |-> its]

\* The struct event_change of epoll_nochangelist_add and of its del.
nochangelist(fd, old, k, et, op) ==
    [fd |-> fd, old |-> old,
     change |-> [x \in Kinds |-> IF x \in k THEN op ELSE "none"],
     et |-> [x \in Kinds |-> x \in k /\ et]]

epoll_nochangelist_add(fd, old, k, et, full) ==
    epoll_apply_one_change(items, nochangelist(fd, old, k, et, "add"), full)

epoll_nochangelist_del(fd, old, k) ==
    epoll_apply_one_change(items, nochangelist(fd, old, k, FALSE, "del"), FALSE)

----------------------------------------------------------------------------
(* The changelist.                                                         *)

\* The list with an entry for fd, and the entry's index.
event_changelist_get_or_construct(fd, old) ==
    IF idxplus1[fd] = 0
    THEN [ch |-> Append(changes, [fd |-> fd, old |-> old, change |-> NoChange,
                                  et |-> [k \in Kinds |-> FALSE]]),
          i |-> Len(changes) + 1]
    ELSE [ch |-> changes, i |-> idxplus1[fd]]

event_changelist_add_(fd, old, k, et) ==
    LET g == event_changelist_get_or_construct(fd, old)
    IN [g EXCEPT !.ch[g.i].change = [x \in Kinds |-> IF x \in k THEN "add" ELSE @[x]],
                 !.ch[g.i].et = [x \in Kinds |-> IF x \in k THEN et ELSE @[x]]]

\* A condition that was not set before the change becomes a no-op.
event_changelist_del_(fd, old, k) ==
    LET g == event_changelist_get_or_construct(fd, old)
        was == g.ch[g.i].old
    IN [g EXCEPT !.ch[g.i].change =
                     [x \in Kinds |-> IF x \notin k THEN @[x]
                                      ELSE IF x \in was THEN "del" ELSE "none"],
                 !.ch[g.i].et = [x \in Kinds |-> x \notin k /\ @[x]]]

\* The indices after event_changelist_remove_all_, which empties the list.
event_changelist_remove_all_ ==
    [fd \in Fds |-> IF \E i \in DOMAIN changes : changes[i].fd = fd THEN 0 ELSE idxplus1[fd]]

\* epoll_apply_changes: every change is tried, those after a failure too.
epoll_apply_changes(its, chs, full) ==
    LET f[i \in 0..Len(chs)] ==
            IF i = 0 THEN [its |-> its, bad |-> {}, good |-> {}]
            ELSE LET p == f[i - 1]
                     a == epoll_apply_one_change(p.its, chs[i], full)
                 IN [its  |-> a.its,
                     bad  |-> IF a.r = 1 /\ full THEN p.bad \cup {chs[i].fd} ELSE p.bad,
                     good |-> IF a.r = 0 /\ epoll_op_table(chs[i]).k # {}
                              THEN p.good \cup {chs[i].fd} ELSE p.good]
    IN f[Len(chs)]

----------------------------------------------------------------------------
(* poll and select.                                                        *)

poll_add(fd, k) ==
    LET i == IF idxplus1[fd] = 0 THEN Len(event_set) + 1 ELSE idxplus1[fd]
        s == IF idxplus1[fd] = 0 THEN Append(event_set, [fd |-> fd, k |-> {}]) ELSE event_set
    IN IF Pollable(k) = {} THEN [s |-> event_set, idx |-> idxplus1]
       ELSE [s   |-> [s EXCEPT ![i].k = @ \cup Pollable(k)],
             idx |-> [idxplus1 EXCEPT ![fd] = i]]

\* Mutant: the last entry is moved down and keeps its old index.
poll_del_keeps_index(fd, k) ==
    LET i == idxplus1[fd]
        s == [event_set EXCEPT ![i].k = @ \ Pollable(k)]
        l == Len(s)
    IN IF Pollable(k) = {} \/ s[i].k # {}
       THEN [s |-> IF Pollable(k) = {} THEN event_set ELSE s, idx |-> idxplus1]
       ELSE [s   |-> SubSeq([s EXCEPT ![i] = s[l]], 1, l - 1),
             idx |-> [idxplus1 EXCEPT ![fd] = 0]]

\* An entry nobody cares for is removed: the last one takes its place.
poll_del(fd, k) ==
    LET i == idxplus1[fd]
        s == [event_set EXCEPT ![i].k = @ \ Pollable(k)]
        l == Len(s)
    IN IF Pollable(k) = {} \/ s[i].k # {}
       THEN [s |-> IF Pollable(k) = {} THEN event_set ELSE s, idx |-> idxplus1]
       ELSE [s   |-> SubSeq([s EXCEPT ![i] = s[l]], 1, l - 1),
             idx |-> [idxplus1 EXCEPT ![s[l].fd] = i, ![fd] = 0]]

select_add(fd, k) ==
    [s |-> [x \in {"READ", "WRITE"} |-> IF x \in k THEN sets[x] \cup {fd} ELSE sets[x]],
     top |-> IF event_fds < fd THEN fd ELSE event_fds]

select_del(fd, k) ==
    IF event_fds < fd THEN sets
    ELSE [x \in {"READ", "WRITE"} |-> IF x \in k THEN sets[x] \ {fd} ELSE sets[x]]

----------------------------------------------------------------------------
(* The event map.                                                          *)

\* The backend's answer to an add: the state it leaves, when it takes it.
evsel_add(fd, k, et) ==
    CASE method = "epoll" ->
             LET a == epoll_nochangelist_add(fd, Counted(fd), k, et, FALSE)
             IN /\ a.r = 0 /\ items' = a.its /\ refused' = refused \ {fd}
                /\ UNCHANGED <<queueVars, event_set, sets, event_fds, be>>
      [] method \in {"changelist", "kqueue"} ->
             LET g == event_changelist_add_(fd, Counted(fd), k, et)
             IN /\ changes' = g.ch /\ idxplus1' = [idxplus1 EXCEPT ![fd] = g.i]
                /\ UNCHANGED <<kernelVars, refused>>
      [] method = "poll" ->
             LET p == poll_add(fd, k)
             IN /\ event_set' = p.s /\ idxplus1' = p.idx
                /\ UNCHANGED <<changes, items, sets, event_fds, be, refused>>
      [] method = "select" ->
             LET s == select_add(fd, k)
             IN /\ sets' = s.s /\ event_fds' = s.top
                /\ UNCHANGED <<queueVars, items, event_set, be, refused>>
      [] method \in {"devpoll", "evport", "win32"} ->
             /\ be' = CASE method = "devpoll" -> devpoll_add(be, fd, k, Closed, FALSE).s
                        [] method = "evport"  -> evport_add(be, fd, k)
                        [] method = "win32"   -> win32_add(be, fd, k)
             /\ UNCHANGED <<queueVars, items, event_set, sets, event_fds, refused>>

evsel_del(fd, k) ==
    CASE method = "epoll" ->
             LET a == epoll_nochangelist_del(fd, Counted(fd), k)
             IN /\ items' = a.its
                /\ refused' = refused \ {fd}
                /\ UNCHANGED <<queueVars, event_set, sets, event_fds, be>>
      [] method \in {"changelist", "kqueue"} ->
             LET g == event_changelist_del_(fd, Counted(fd), k)
             IN /\ changes' = g.ch /\ idxplus1' = [idxplus1 EXCEPT ![fd] = g.i]
                /\ UNCHANGED <<kernelVars, refused>>
      [] method = "poll" ->
             LET p == poll_del(fd, k)
             IN /\ event_set' = p.s /\ idxplus1' = p.idx
                /\ UNCHANGED <<changes, items, sets, event_fds, be, refused>>
      [] method = "select" ->
             /\ sets' = select_del(fd, k)
             /\ UNCHANGED <<queueVars, items, event_set, event_fds, be, refused>>
      [] method = "devpoll" ->
             \E fails \in {FALSE, MayRefuse} :
                LET d == devpoll_del(be, fd, Counted(fd), k, Closed, fails)
                IN /\ be' = d.s
                   /\ refused' = IF fails /\ Len(be.pend) + 2 > Room THEN refused \cup {fd}
                                 ELSE refused \ {fd}
                   /\ UNCHANGED <<queueVars, items, event_set, sets, event_fds>>
      [] method \in {"evport", "win32"} ->
             /\ be' = IF method = "evport" THEN evport_del(be, fd, k) ELSE win32_del(be, fd, k)
             /\ UNCHANGED <<queueVars, items, event_set, sets, event_fds, refused>>

\* EV_CLOSED is for a backend with EV_FEATURE_EARLY_CLOSE, epoll; poll and
\* select do without it, the others are not asked.
Supported(ev) == "CLOSED" \in ev_events[ev] => Epoll \/ method \in {"poll", "select"}

\* A refused event leaves everything as it was, and is no step.
evmap_io_add_(ev) ==
    LET fd  == ev_fd[ev]
        new == [k \in Kinds |-> n[fd][k] + IF k \in ev_events[ev] THEN 1 ELSE 0]
        res == {k \in ev_events[ev] : new[k] = 1}
    IN /\ ev \notin events[fd] /\ file[fd] # None /\ Supported(ev)
       /\ \A k \in Kinds : new[k] <= MaxListed
       /\ IF res = {} THEN UNCHANGED <<queueVars, kernelVars, refused>>
          ELSE evsel_add(fd, res, ev \in EdgeTriggered)
       /\ n' = [n EXCEPT ![fd] = [k \in Kinds |-> new[k] % (MaxListed + 1)]]
       /\ events' = [events EXCEPT ![fd] = @ \cup {ev}]
       /\ UNCHANGED <<method, file, loopVars>>

evmap_io_del_(ev) ==
    LET fd  == ev_fd[ev]
        new == [k \in Kinds |-> n[fd][k] - IF k \in ev_events[ev] THEN 1 ELSE 0]
        res == {k \in ev_events[ev] : new[k] = 0}
    IN /\ ev \in events[fd]
       /\ method = "evport" /\ events[fd] = {ev} /\ ~PortRaces =>
             what[fd] = {} /\ (be.idx[fd] # 0 => be.kern[fd] = {})
       /\ IF res = {} THEN UNCHANGED <<queueVars, kernelVars, refused>>
          ELSE evsel_del(fd, res)
       /\ n' = [n EXCEPT ![fd] = new]
       /\ events' = [events EXCEPT ![fd] = @ \ {ev}]
       /\ UNCHANGED <<method, file, loopVars>>

\* Every event of fd that waits for one of the conditions.
evmap_io_active_(k) ==
    [ev \in Events |-> IF ev \in events[ev_fd[ev]] THEN ev_events[ev] \cap k[ev_fd[ev]]
                       ELSE {}]

\* evmap_io_foreach_fd goes from the lowest descriptor to the highest.
evmap_io_foreach_fd ==
    CHOOSE order \in [1..Cardinality(Fds) -> Fds] :
        \A i, j \in DOMAIN order : i < j => order[i] < order[j]

\* evmap_reinit_: every descriptor is added again to the new backend, with
\* nothing as its old conditions.  Each has a slot in the map by now.
evmap_reinit_(order, full) ==
    LET et(fd) == \E ev \in events[fd] : ev \in EdgeTriggered
        new == [i \in DOMAIN order |->
                   nochangelist(order[i], {}, Counted(order[i]), et(order[i]), "add")]
        a == epoll_apply_changes(<<>>, new, full)
        f[i \in 0..Len(order)] ==
            IF i = 0 THEN base_init
            ELSE IF method = "devpoll"
                 THEN devpoll_add(f[i - 1], order[i], Counted(order[i]), Closed, FALSE).s
                 ELSE evport_add(f[i - 1], order[i], Counted(order[i]))
    IN CASE method = "epoll" ->
                /\ items' = a.its /\ refused' = a.bad
                /\ changes' = <<>> /\ idxplus1' = [fd \in Fds |-> 0] /\ be' = be
         [] method \in {"changelist", "kqueue"} ->
                /\ items' = <<>> /\ refused' = {} /\ changes' = new /\ be' = base_init
                /\ idxplus1' = [fd \in Fds |-> CHOOSE i \in DOMAIN order : order[i] = fd]
         [] method \in {"devpoll", "evport"} ->
                be' = f[Len(order)] /\ refused' = {} /\ UNCHANGED <<items, queueVars>>

\* event_reinit, for the backends with need_reinit.
event_reinit ==
    /\ method \notin {"poll", "select", "win32"} /\ sleeping = "no"
    /\ \E full \in {FALSE, MayRefuse} : evmap_reinit_(evmap_io_foreach_fd, full)
    /\ UNCHANGED <<method, mapVars, event_set, sets, event_fds, file, loopVars>>

----------------------------------------------------------------------------
(* *_dispatch: with the lock held, asleep, and with the lock again.        *)

\* epoll_dispatch up to epoll_wait.
epoll_prepares ==
    \E full \in {FALSE, MayRefuse} :
       LET a == epoll_apply_changes(items, changes, full)
       IN /\ items' = a.its
          /\ refused' = (refused \cup a.bad) \ a.good
          /\ changes' = <<>>
          /\ idxplus1' = event_changelist_remove_all_
          /\ be' = be /\ copy' = Nothing /\ sleeping' = "yes"

\* kq_dispatch up to kevent: the changes are on their way when the lock goes.
kq_prepares ==
    /\ be' = [be EXCEPT !.pend = kq_build_changes_list(changes)]
    /\ changes' = <<>> /\ idxplus1' = event_changelist_remove_all_
    /\ copy' = Nothing /\ sleeping' = "calling"
    /\ UNCHANGED <<items, refused>>

\* devpoll_dispatch up to the ioctl: a commit that fails is tried next time.
devpoll_prepares ==
    /\ be' \in {devpoll_commit(be, Closed)} \cup (IF MayRefuse THEN {be} ELSE {})
    /\ copy' = Nothing /\ sleeping' = "yes"
    /\ UNCHANGED <<queueVars, items, refused>>

evport_prepares ==
    /\ be' = evport_reassociates(be)
    /\ copy' = Nothing /\ sleeping' = "yes"
    /\ UNCHANGED <<queueVars, items, refused>>

\* win32_dispatch up to select; with no sockets it sleeps with the lock held.
win32_prepares ==
    /\ be' = win32_resize(be)
    /\ copy' = fd_set_copy(be)
    /\ sleeping' = IF copy' = Nothing THEN "no" ELSE "yes"
    /\ UNCHANGED <<queueVars, items, refused>>

poll_prepares ==
    /\ copy' = [fd \in Fds |-> UNION {event_set[i].k : i \in {j \in DOMAIN event_set :
                                                              event_set[j].fd = fd}}]
    /\ sleeping' = "yes"
    /\ UNCHANGED <<queueVars, items, refused, be>>

select_prepares ==
    /\ copy' = [fd \in Fds |-> IF fd > event_fds THEN {}
                               ELSE {k \in Polls : fd \in sets[k]}]
    /\ sleeping' = "yes"
    /\ UNCHANGED <<queueVars, items, refused, be>>

dispatch_prepare ==
    /\ sleeping = "no"
    /\ CASE Epoll              -> epoll_prepares
         [] method = "kqueue"  -> kq_prepares
         [] method = "devpoll" -> devpoll_prepares
         [] method = "evport"  -> evport_prepares
         [] method = "win32"   -> win32_prepares
         [] method = "poll"    -> poll_prepares
         [] method = "select"  -> select_prepares
    /\ active' = [ev \in Events |-> {}]
    /\ UNCHANGED <<method, mapVars, event_set, sets, event_fds, file, what>>

\* kevent takes the changes; when an addition is refused it returns with that.
kevent_takes ==
    /\ sleeping = "calling"
    /\ \E broken \in {{}} \cup (IF MayRefuse THEN {{fd} : fd \in Fds} ELSE {}) :
          LET a == kevent(be.kern, be.pend, Closed, broken)
          IN /\ be' = [be EXCEPT !.kern = a.kern, !.pend = <<>>]
             /\ refused' = refused \cup a.errs
             /\ what' = [fd \in Fds |-> IF fd \in a.errs THEN {"EPIPE"} ELSE {}]
             /\ sleeping' = IF a.errs = {} THEN "yes" ELSE "reported"
    /\ UNCHANGED <<method, mapVars, queueVars, items, event_set, sets, event_fds, file, copy, active>>

\* What the kernel may report: hang-ups are reported by epoll, poll, /dev/poll
\* and event ports for every descriptor they were given, asked for or not.
Reportable(fd) ==
    LET hup(given) == IF given THEN {"HUP"} ELSE {}
    IN CASE Epoll ->
               LET its == {x \in DOMAIN items : x[1] = fd}
               IN UNION {items[x].k : x \in its} \cup hup(its # {})
         [] method = "kqueue" -> be.kern[fd]
         [] method \in {"devpoll", "evport"} -> be.kern[fd] \cup hup(be.kern[fd] # {})
         [] method = "poll" -> copy[fd] \cup hup(copy[fd] # {})
         [] method \in {"select", "win32"} -> copy[fd]

\* The system call returns: with a report, or without one (EINTR, a timeout).
\* An event port forgets what it has reported.
dispatch_wakes ==
    /\ sleeping = "yes"
    /\ \E w \in SUBSET UNION {{fd} \X Reportable(fd) : fd \in Fds} :
          /\ what' = [fd \in Fds |-> {r[2] : r \in {x \in w : x[1] = fd}}]
          /\ sleeping' = IF w = {} THEN "no" ELSE "reported"
          /\ be' = IF method = "evport"
                   THEN [be EXCEPT !.kern = [fd \in Fds |-> IF what'[fd] = {} THEN @[fd] ELSE {}]]
                   ELSE be
    /\ UNCHANGED <<method, mapVars, queueVars, items, event_set, sets, event_fds, file, copy,
                   active, refused>>

\* Mutant: a hang-up is left to whoever asked for the closing.
hangup_ignored(w) ==
    w \cap Kinds

\* What a report of each backend stands for: the loop over the reports.
epoll_converts(w) == IF "HUP" \in w THEN {"READ", "WRITE"} ELSE w
poll_converts(w)  == IF "HUP" \in w THEN {"READ", "WRITE"} ELSE Pollable(w)
select_converts(w) == Pollable(w)

converted(w) ==
    CASE Epoll -> epoll_converts(w)
      [] method = "poll" -> poll_converts(w)
      [] method = "select" -> select_converts(w)
      [] method = "kqueue" -> kq_converts(w)
      [] method = "devpoll" -> devpoll_converts(w)
      [] method = "evport" -> evport_converts(w)
      [] method = "win32" -> win32_converts(w)

\* The loop over the reports.
dispatch_activates ==
    /\ sleeping = "reported"
    /\ active' = evmap_io_active_([fd \in Fds |-> converted(what[fd])])
    /\ sleeping' = "no"
    /\ what' = Nothing
    /\ IF method = "evport"
       THEN LET got == {fd \in Fds : what[fd] # {}}
            IN \E order \in [1..Cardinality(got) -> got] :
                  {order[i] : i \in DOMAIN order} = got /\ be' = evport_pends(be, order)
       ELSE be' = be
    /\ UNCHANGED <<method, mapVars, queueVars, items, event_set, sets, event_fds, file, copy, refused>>

----------------------------------------------------------------------------
(* The program closes and opens descriptors.                               *)

Close(fd) ==
    /\ file[fd] # None /\ events[fd] = {}
    /\ file' = [file EXCEPT ![fd] = None]
    /\ items' = IF file[fd] \in Held THEN items
                ELSE [x \in DOMAIN items \ {<<fd, file[fd]>>} |-> items[x]]
    /\ be' = [be EXCEPT !.kern[fd] = {}]
    /\ refused' = IF method = "kqueue" THEN refused \ {fd} ELSE refused
    /\ UNCHANGED <<method, mapVars, queueVars, event_set, sets, event_fds, loopVars>>

\* The changelist is documented not to work with duplicated descriptors; where
\* none are, it does not matter which file a descriptor is open on.
Open(fd, f) ==
    /\ file[fd] = None
    /\ method = "epoll" => f \in Held \/ \A o \in Fds : file[o] # f
    /\ method # "epoll" => f \notin Held
    /\ file' = [file EXCEPT ![fd] = f]
    /\ UNCHANGED <<method, mapVars, queueVars, kernelVars, loopVars, refused>>

BackendInit ==
    /\ method \in Methods
    /\ events = [fd \in Fds |-> {}] /\ n = [fd \in Fds |-> [k \in Kinds |-> 0]]
    /\ changes = <<>> /\ idxplus1 = [fd \in Fds |-> 0]
    /\ items = <<>> /\ event_set = <<>>
    /\ sets = [k \in {"READ", "WRITE"} |-> {}] /\ event_fds = 0
    /\ be = base_init
    /\ file = [fd \in Fds |-> None]
    /\ sleeping = "no" /\ copy = Nothing /\ what = Nothing
    /\ active = [ev \in Events |-> {}] /\ refused = {}

BackendNext ==
    \/ \E ev \in Events : evmap_io_add_(ev) \/ evmap_io_del_(ev)
    \/ event_reinit
    \/ dispatch_prepare \/ kevent_takes \/ dispatch_wakes \/ dispatch_activates
    \/ \E fd \in Fds : Close(fd) \/ \E f \in Files : Open(fd, f)

BackendSpec == BackendInit /\ [][BackendNext]_backendVars

----------------------------------------------------------------------------
(* Properties.                                                             *)

\* evmap_check_integrity_, event_changelist_assert_ok and poll_check_ok: the
\* counts are those of the lists, and the index kept with a descriptor leads
\* to its entry and back.
IntegrityOK ==
    /\ \A fd \in Fds, k \in Kinds :
          n[fd][k] = Cardinality({ev \in events[fd] : k \in ev_events[ev]})
    /\ LET list == IF method = "poll" THEN event_set ELSE changes
       IN /\ \A i \in DOMAIN list : idxplus1[list[i].fd] = i
          /\ \A fd \in Fds : idxplus1[fd] # 0 =>
                idxplus1[fd] \in DOMAIN list /\ list[idxplus1[fd]].fd = fd
    /\ \A fd \in Fds : be.idx[fd] # 0 =>
          be.idx[fd] \in DOMAIN be.pend /\ be.pend[be.idx[fd]] = fd
    /\ \A k \in Polls :
          /\ \A i \in DOMAIN be.set[k] : be.pos[be.set[k][i]][k] = i
          /\ method = "win32" /\ sleeping = "yes" => Cardinality({fd \in Fds : k \in copy[fd]}) <= be.out

\* What the backend polls fd for: what a queued change will make it, or what
\* the kernel has.
Effective(fd) ==
    CASE Epoll ->
             IF \E i \in DOMAIN changes : changes[i].fd = fd /\ changes[i].change # NoChange
             THEN LET o == epoll_op_table(changes[idxplus1[fd]])
                  IN IF o.op = "DEL" THEN {} ELSE o.k
             ELSE UNION {items[x].k : x \in {y \in DOMAIN items : y[1] = fd}}
      [] method = "poll" -> UNION {event_set[i].k : i \in {j \in DOMAIN event_set :
                                                           event_set[j].fd = fd}}
      [] method = "select" -> {k \in Polls : fd <= event_fds /\ fd \in sets[k]}
      [] OTHER -> Watched(method, be, changes, Closed, {f \in Fds : what[f] # {}})[fd]

\* What the backend can poll for on behalf of an event.
Asks(ev) == IF Epoll THEN ev_events[ev] ELSE Pollable(ev_events[ev])

\* How the event map and the backends read as what they promise.
Promise == INSTANCE Interest WITH
    listed <- events,
    polled <- [fd \in Fds |-> IF fd \in refused THEN {} ELSE Effective(fd)],
    asks <- [ev \in Events |-> Asks(ev)]

\* The event map over any of the backends polls each descriptor for exactly
\* what its events wait for (poll and select cannot wait for closing), through
\* queued changes, descriptors closed and opened again, and forks.
PollsWhatIsListed == Promise!Spec

\* A report on a descriptor activates an event when one waits for a reported
\* condition, or waits for anything and the other side hung up: otherwise the
\* condition stays and the loop spins.  The one exception is a hang-up where
\* all that is waited for is the closing: epoll_dispatch turns EPOLLHUP and
\* EPOLLERR into reading and writing, for which nobody waits there.
ReportsServed ==
    [][sleeping = "reported" /\ sleeping' = "no" =>
       \A fd \in Fds :
          LET asked == UNION {Asks(ev) : ev \in events[fd]}
          IN asked \cap what[fd] # {} \/ (asked # {} /\ "HUP" \in what[fd])
             => \/ \E ev \in events[fd] : active'[ev] # {}
                \/ asked = {"CLOSED"} /\ "HUP" \in what[fd]]_backendVars

\* A descriptor whose events are all edge-triggered is registered so.
EdgeKept ==
    \A fd \in Fds : Epoll /\ changes = <<>> =>
        \A x \in DOMAIN items : x[1] = fd /\ events[fd] # {} /\ events[fd] \subseteq EdgeTriggered
                                => items[x].et
=============================================================================
