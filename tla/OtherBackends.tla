--------------------------- MODULE OtherBackends ---------------------------
(***************************************************************************)
(* The backends of the other systems: kqueue.c, devpoll.c, evport.c and    *)
(* win32select.c, as operators on the private state of the backend.        *)
(* Each has its own way to keep the kernel's idea of a descriptor in step  *)
(* with the map's: kqueue takes the changelist when it sleeps, /dev/poll a *)
(* buffer of changes when it is full or at the next poll, an event port    *)
(* forgets what it reported until it is told again, and select on Windows  *)
(* has arrays in which each descriptor must know its place.                *)
(***************************************************************************)
EXTENDS Naturals, Sequences

CONSTANTS
    Fds,                \* descriptors: positive numbers
    Room                \* nevents of devpollop, NEVENT of win32op

ASSUME OtherBackendsAssumption == Fds \subseteq Nat \ {0} /\ Room \in Nat \ {0}

Kinds == {"READ", "WRITE", "CLOSED"}
Polls == {"READ", "WRITE"}
Pollable(k) == k \cap Polls
Nothing == [fd \in Fds |-> {}]

\* kern is what the kernel watches; the rest belongs to one backend each:
\* pend to kqop (the changes kevent was called with), devpollop (changes) and
\* evport_data (ed_pending), fdi_what and idx to evport's fd_info, set, pos,
\* size and out to win32op.
base_init ==
    [kern |-> Nothing, pend |-> <<>>, fdi_what |-> Nothing, idx |-> [fd \in Fds |-> 0],
     set |-> [k \in Polls |-> <<>>], pos |-> [fd \in Fds |-> [k \in Polls |-> 0]],
     size |-> Room, out |-> Room]

----------------------------------------------------------------------------
(* kqueue.                                                                 *)

kq_setup_kevent(fd, filter, change) ==
    [fd |-> fd, filter |-> filter, flags |-> IF change = "add" THEN "EV_ADD" ELSE "EV_DELETE"]

kq_build_changes_list(changes) ==
    LET one(ch, k) == IF ch.change[k] = "none" THEN <<>>
                      ELSE <<kq_setup_kevent(ch.fd, k, ch.change[k])>>
        f[i \in 0..Len(changes)] ==
            IF i = 0 THEN <<>>
            ELSE f[i - 1] \o one(changes[i], "READ") \o one(changes[i], "WRITE")
    IN f[Len(changes)]

\* kevent(2): a change of a closed descriptor and the deletion of what is not
\* there are answered with errors the dispatcher passes over; an addition to a
\* broken pipe is refused.
kevent(kern, kevs, closed, broken) ==
    LET f[i \in 0..Len(kevs)] ==
            IF i = 0 THEN [kern |-> kern, errs |-> {}]
            ELSE LET p == f[i - 1]
                     e == kevs[i]
                 IN CASE e.fd \in closed -> p
                      [] e.fd \notin closed /\ e.flags = "EV_DELETE" ->
                             [p EXCEPT !.kern[e.fd] = @ \ {e.filter}]
                      [] e.fd \notin closed /\ e.flags = "EV_ADD" ->
                             IF e.fd \in broken THEN [p EXCEPT !.errs = @ \cup {e.fd}]
                             ELSE [p EXCEPT !.kern[e.fd] = @ \cup {e.filter}]
    IN f[Len(kevs)]

\* The loop over what kevent reports: a refused addition is told to readers.
kq_converts(w) == Pollable(w) \cup (IF "EPIPE" \in w THEN {"READ"} ELSE {})

----------------------------------------------------------------------------
(* /dev/poll.                                                              *)

\* devpoll_commit with what the driver does of each entry: it adds the
\* conditions to those it has, or (POLLREMOVE) forgets the descriptor.
devpoll_commit(s, closed) ==
    LET f[i \in 0..Len(s.pend)] ==
            IF i = 0 THEN s.kern
            ELSE LET e == s.pend[i]
                 IN IF e.fd \in closed THEN f[i - 1]
                    ELSE [f[i - 1] EXCEPT ![e.fd] = IF e.remove THEN {} ELSE @ \cup e.k]
    IN [s EXCEPT !.kern = f[Len(s.pend)], !.pend = <<>>]

\* The buffer is committed first when it is full; r is 1 for the code's -1.
devpoll_queue(s, pfd, closed, fails) ==
    LET put(t) == [r |-> 0, s |-> [t EXCEPT !.pend = Append(@, pfd)]]
    IN CASE Len(s.pend) < Room -> put(s)
         [] Len(s.pend) >= Room /\ fails -> [r |-> 1, s |-> s]
         [] Len(s.pend) >= Room /\ ~fails -> put(devpoll_commit(s, closed))

devpoll_add(s, fd, k, closed, fails) ==
    devpoll_queue(s, [fd |-> fd, remove |-> FALSE, k |-> Pollable(k)], closed, fails)

\* Removing forgets all of the descriptor: the condition that is still wanted
\* is queued again, and whether that worked is not looked at.
devpoll_del(s, fd, old, k, closed, fails) ==
    LET r    == devpoll_queue(s, [fd |-> fd, remove |-> TRUE, k |-> {}], closed, fails)
        more == IF Pollable(k) = {"READ"} THEN old \cap {"WRITE"}
                ELSE IF Pollable(k) = {"WRITE"} THEN old \cap {"READ"} ELSE {}
    IN IF r.r = 1 \/ more = {} THEN r
       ELSE [r |-> 0,
             s |-> devpoll_queue(r.s, [fd |-> fd, remove |-> FALSE, k |-> more], closed, fails).s]

devpoll_converts(w) == IF "HUP" \in w THEN Polls ELSE Pollable(w)

----------------------------------------------------------------------------
(* Event ports.                                                            *)

\* What port_associate is called with, if at all (it does not fail here).
reassociate(s, fd) ==
    IF Pollable(s.fdi_what[fd]) = {} THEN s
    ELSE [s EXCEPT !.kern[fd] = Pollable(s.fdi_what[fd])]

evport_add(s, fd, k) ==
    reassociate([s EXCEPT !.fdi_what[fd] = @ \cup k], fd)

\* A descriptor that is pending has no association to change; 0 stands for -1
\* in ed_pending.
evport_del(s, fd, k) ==
    LET t    == [s EXCEPT !.fdi_what[fd] = @ \ Pollable(k)]
        left == Pollable(t.fdi_what[fd]) # {}
    IN CASE s.idx[fd] = 0 /\ left  -> reassociate(t, fd)
         [] s.idx[fd] = 0 /\ ~left -> [t EXCEPT !.kern[fd] = {}]
         [] s.idx[fd] # 0 /\ left  -> t
         [] s.idx[fd] # 0 /\ ~left -> [t EXCEPT !.pend[s.idx[fd]] = 0, !.idx[fd] = 0]

\* evport_dispatch up to port_getn: what was reported last time and is still
\* wanted is associated again.
evport_reassociates(s) ==
    LET again == {fd \in Fds : Pollable(s.fdi_what[fd]) # {}
                               /\ \E i \in DOMAIN s.pend : s.pend[i] = fd}
    IN [s EXCEPT !.kern = [fd \in Fds |-> IF fd \in again THEN Pollable(s.fdi_what[fd]) ELSE @[fd]],
                 !.idx  = [fd \in Fds |-> IF fd \in again THEN 0 ELSE @[fd]]]

\* evport_dispatch after it: the reports, in their order, are pending.
evport_pends(s, order) ==
    [s EXCEPT !.pend = order,
              !.idx = [fd \in Fds |-> IF \E i \in DOMAIN order : order[i] = fd
                                      THEN CHOOSE i \in DOMAIN order : order[i] = fd
                                      ELSE @[fd]]]

evport_converts(w) == IF "HUP" \in w THEN Polls ELSE Pollable(w)

----------------------------------------------------------------------------
(* select on Windows.                                                      *)

\* The arrays given to select are made as large before the next call.
grow_fd_sets(s) == [s EXCEPT !.size = 2 * @]

do_fd_set(s, fd, k) ==
    LET t == IF Len(s.set[k]) = s.size THEN grow_fd_sets(s) ELSE s
    IN IF s.pos[fd][k] > 0 THEN s
       ELSE [t EXCEPT !.set[k] = Append(@, fd), !.pos[fd][k] = Len(s.set[k]) + 1]

\* The last descriptor takes the place of the one that goes.
do_fd_clear(s, fd, k) ==
    LET i    == s.pos[fd][k]
        l    == Len(s.set[k])
        last == s.set[k][l]
    IN IF i = 0 THEN s
       ELSE [s EXCEPT !.set[k] = SubSeq([@ EXCEPT ![i] = last], 1, l - 1),
                      !.pos = [@ EXCEPT ![last][k] = i, ![fd][k] = 0]]

win32_add(s, fd, k) ==
    LET r == IF "READ" \in k THEN do_fd_set(s, fd, "READ") ELSE s
    IN IF "WRITE" \in k THEN do_fd_set(r, fd, "WRITE") ELSE r

win32_del(s, fd, k) ==
    LET r == IF "READ" \in k THEN do_fd_clear(s, fd, "READ") ELSE s
    IN IF "WRITE" \in k THEN do_fd_clear(r, fd, "WRITE") ELSE r

\* The resize_out_sets of win32_dispatch.
win32_resize(s) == [s EXCEPT !.out = s.size]

\* fd_set_copy: what select is called with.
fd_set_copy(s) ==
    [fd \in Fds |-> {k \in Polls : \E i \in DOMAIN s.set[k] : s.set[k][i] = fd}]

\* The loops over the three sets; an exceptional socket is told to writers and
\* is reported as one that can be written.
win32_converts(w) == Pollable(w)

----------------------------------------------------------------------------
(* What each of them watches, its pending changes applied.                 *)

Watched(m, s, changes, closed, reported) ==
    CASE m = "kqueue" ->
             kevent(kevent(s.kern, s.pend, closed, {}).kern, kq_build_changes_list(changes),
                    closed, {}).kern
      [] m = "devpoll" -> devpoll_commit(s, closed).kern
      [] m = "evport" ->
             [fd \in Fds |-> IF s.idx[fd] = 0 /\ fd \notin reported THEN s.kern[fd]
                             ELSE Pollable(s.fdi_what[fd])]
      [] m = "win32" -> fd_set_copy(s)
=============================================================================
