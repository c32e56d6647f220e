----------------------------- MODULE EventBase -----------------------------
(***************************************************************************)
(* One struct event_base of libevent (event.c) shared by the thread that   *)
(* runs event_base_loop and the other threads that call event_add,         *)
(* event_del, event_active, event_finalize and the rest on it.             *)
(*                                                                         *)
(* base holds what EventQueues describes; the nolock functions that change it*)
(* are those of EventNolock.  pc is where the loop is; the loop releases   *)
(* th_base_lock in epoll_wait and around each callback, and only there may *)
(* another thread act.  A thread that finds its event running waits on     *)
(* current_event_cond: thr records what it was doing.                      *)
(***************************************************************************)
EXTENDS EventNolock

CONSTANTS
    Threads, LoopThreads,         \* the threads, and those that run the loop
    LoopExits,                    \* timer events of event_base_loopexit
    EvFinalize,                   \* events assigned with EV_FINALIZE
    MayFail,                      \* events whose backend calls may fail
    Ops,                          \* the operations the program uses
    LoopFlags,                    \* the flags it passes to event_base_loop
    Intervals,                    \* the timeouts it passes to event_add
    MaxNcalls,                    \* bound: deliveries of one signal at a time
    MaxVirtual,                   \* bound: virtual events
    MaxClock,                     \* bound: the clock stops here
    max_dispatch_callbacks, max_dispatch_time, limit_callbacks_after_prio

VARIABLES
    base,                         \* the queues (EventQueues!event_base)
    current_event, current_event_waiters, event_gotterm,
    pc,                           \* where the loop is
    lflags, tv, deadline, ready,  \* event_base_loop and epoll_dispatch locals
    lag,                          \* history: how stale tv_cache made deadline
    next_pri, endtime, count,     \* event_process_active locals
    evcb, evcb_closure,           \* the callback being run
    thr,                          \* what each thread waits for
    freed, finalized              \* events given to mm_free or to their finalizer

ctlVars   == <<running_loop, th_owner_id, event_running_priority>>
curVars   == <<current_event, current_event_waiters>>
termVars  == <<event_break, event_gotterm>>
timeVars  == <<tv_cache, clock>>
localVars == <<lflags, tv, deadline, ready, lag, next_pri, endtime, count,
               evcb, evcb_closure>>
userVars  == <<thr, freed, finalized>>
vars == <<base, ctlVars, curVars, termVars, timeVars, pc, localVars, userVars>>

INT_MAX == 2147483647
Idle    == [op |-> "none", ev |-> NULL, arg |-> 0, woken |-> FALSE]

ASSUME ThreadsAssumption ==
    /\ LoopThreads \subseteq Threads
    /\ NULL \notin Threads
    /\ LoopExits \subseteq TimerEvents \ Persist
    /\ MayFail \subseteq Events
    /\ LoopFlags \subseteq SUBSET {"ONCE", "NONBLOCK", "NO_EXIT_ON_EMPTY"}

ASSUME BoundsAssumption ==
    /\ Intervals \subseteq Nat
    /\ MaxNcalls \in Nat /\ MaxVirtual \in Nat /\ MaxClock \in Nat \ {0}
    /\ max_dispatch_callbacks \in Nat
    /\ max_dispatch_time \in Nat \cup {NoTV}
    /\ limit_callbacks_after_prio \in Nat

LoopPcs == {"out", "top", "later", "dispatch", "polled", "events", "timeouts",
            "active", "queue", "callback", "evsig", "drained", "body_done"}

\* Where the loop has released th_base_lock.
LockFree == pc \in {"out", "dispatch", "polled", "callback", "drained", "body_done"}

----------------------------------------------------------------------------
(* The operations of the program.  A thread calls one when the lock is     *)
(* free and it is not inside another; the loop's thread does so from a     *)
(* user callback (a finalizer calls nothing).                              *)

InUserCallback ==
    /\ pc = "callback"
    /\ evcb \notin Internal \cup LoopExits
    /\ evcb_closure \notin Finalizers

Calls(t, op) ==
    /\ op \in Ops
    /\ thr[t] = Idle
    /\ LockFree
    /\ running_loop /\ th_owner_id = t => InUserCallback

\* No call is made on an event that was freed or whose finalizer has started,
\* nor on one that another thread is freeing (but by the event's own callback,
\* which event_free is there to wait for).
Usable(t, e) ==
    /\ e \notin freed \cup finalized
    /\ ~(evcb = e /\ evcb_closure \in Finalizers)
    /\ \A u \in Threads : thr[u].op = "event_free" /\ thr[u].ev = e =>
           evcb = e /\ th_owner_id = t

\* The event is running in the loop of another thread.
MustWait(t, e) == current_event = e /\ ~EVBASE_IN_THREAD(t)

\* Mutant: the waiter is not counted.
wait_uncounted(t, op, e, arg) ==
    /\ thr' = [thr EXCEPT ![t] = [op |-> op, ev |-> e, arg |-> arg, woken |-> FALSE]]
    /\ UNCHANGED current_event_waiters

\* EVTHREAD_COND_WAIT: releases the lock; Resume continues.
EVTHREAD_COND_WAIT(t, op, e, arg) ==
    /\ thr' = [thr EXCEPT ![t] = [op |-> op, ev |-> e, arg |-> arg, woken |-> FALSE]]
    /\ current_event_waiters' = current_event_waiters + 1

Accepts(e) == IF e \in MayFail THEN BOOLEAN ELSE {TRUE}
Hits(t, e) == IF base.ev_pncalls[e] = "live" /\ EVBASE_IN_THREAD(t) THEN {TRUE}
              ELSE BOOLEAN

apiUnchanged ==
    UNCHANGED <<ctlVars, current_event, termVars, timeVars, pc, localVars, finalized>>

event_add(t, e, tv_) ==
    /\ Calls(t, "event_add") /\ Usable(t, e)
    /\ ~Has(base, e, "FINALIZING")
    /\ \/ /\ e \in SignalEvents /\ MustWait(t, e)
          /\ EVTHREAD_COND_WAIT(t, "event_add", e, tv_)
          /\ UNCHANGED base
       \/ /\ ~(e \in SignalEvents /\ MustWait(t, e))
          /\ \E ok \in Accepts(e), hit \in Hits(t, e) :
                base' = event_add_nolock_(base, e, tv_, FALSE, ok, hit, t)
          /\ UNCHANGED <<thr, current_event_waiters>>
    /\ UNCHANGED freed /\ apiUnchanged

\* Whether event_del_nolock_ waits, for each of the ways to ask for it.
DelWaits(t, e, op) ==
    /\ MustWait(t, e)
    /\ op # "event_del_noblock"
    /\ op = "event_del_block" \/ e \notin EvFinalize

\* event_del, event_del_block and event_del_noblock.
event_del(t, e, op) ==
    /\ Calls(t, op) /\ Usable(t, e)
    /\ ~Has(base, e, "FINALIZING")
    /\ \/ /\ DelWaits(t, e, op)
          /\ EVTHREAD_COND_WAIT(t, op, e, 0)
          /\ UNCHANGED base
       \/ /\ ~DelWaits(t, e, op)
          /\ \E ok \in Accepts(e), hit \in Hits(t, e) :
                base' = event_del_nolock_(base, e, ok, hit, t)
          /\ UNCHANGED <<thr, current_event_waiters>>
    /\ UNCHANGED freed /\ apiUnchanged

\* event_free is event_del and mm_free; its caller has the event to itself.
event_free(t, e) ==
    /\ Calls(t, "event_free") /\ Usable(t, e)
    /\ \A u \in Threads : thr[u].ev # e
    /\ ~Has(base, e, "FINALIZING")
    /\ \/ /\ DelWaits(t, e, "event_free")
          /\ EVTHREAD_COND_WAIT(t, "event_free", e, 0)
          /\ UNCHANGED <<base, freed>>
       \/ /\ ~DelWaits(t, e, "event_free")
          /\ \E ok \in Accepts(e), hit \in Hits(t, e) :
                base' = event_del_nolock_(base, e, ok, hit, t)
          /\ freed' = freed \cup {e}
          /\ UNCHANGED <<thr, current_event_waiters>>
    /\ apiUnchanged

event_active(t, e, timeout, n) ==
    /\ Calls(t, "event_active") /\ Usable(t, e)
    /\ ~Has(base, e, "FINALIZING")
    /\ LET waits == e \in SignalEvents /\ MustWait(t, e) /\ ~Has(base, e, "ACTIVE")
       IN  \/ /\ waits
              /\ EVTHREAD_COND_WAIT(t, "event_active", e, n)
              /\ base' = event_active_enter(base, e, timeout)
           \/ /\ ~waits
              /\ base' = event_active_nolock_(base, e, timeout, n, t)
              /\ UNCHANGED <<thr, current_event_waiters>>
    /\ UNCHANGED freed /\ apiUnchanged

event_active_later_(t, e) ==
    /\ Calls(t, "event_active_later_") /\ Usable(t, e)
    /\ base' = event_callback_activate_later_nolock_(
                  IF IsActive(base, e) THEN base
                  ELSE [base EXCEPT !.res_timeout[e] = FALSE], e, t)
    /\ UNCHANGED <<thr, current_event_waiters, freed>> /\ apiUnchanged

\* event_finalize (FINALIZE) and event_free_finalize (FINALIZE_FREE).
event_finalize(t, e, closure) ==
    /\ Calls(t, "event_finalize") /\ Usable(t, e)
    /\ closure = "EVENT_FINALIZE_FREE" => \A u \in Threads : thr[u].ev # e
    /\ \E ok \in Accepts(e), hit \in Hits(t, e) :
        LET b     == event_finalize_enter(base, e, closure, ok, hit, t)
            waits == e \in SignalEvents /\ MustWait(t, e) /\ ~Has(base, e, "FINALIZING")
        IN  \/ /\ waits
               /\ EVTHREAD_COND_WAIT(t, "event_finalize", e, 0)
               /\ base' = b
            \/ /\ ~waits
               /\ base' = IF Has(base, e, "FINALIZING") THEN b
                          ELSE event_finalize_finish(b, e, t)
               /\ UNCHANGED <<thr, current_event_waiters>>
    /\ UNCHANGED freed /\ apiUnchanged

\* The wait is over and the thread has the lock again: the rest of the call.
Resume(t) ==
    LET op == thr[t].op
        e  == thr[t].ev
    IN  /\ thr[t].woken /\ LockFree
        /\ thr' = [thr EXCEPT ![t] = Idle]
        /\ \E ok \in Accepts(e), hit \in Hits(t, e) :
              \/ /\ op = "event_add"
                 /\ base' = event_add_nolock_(base, e, thr[t].arg, FALSE, ok, hit, t)
              \/ /\ op \in {"event_del", "event_del_block", "event_free"}
                 /\ base' = event_del_nolock_(base, e, ok, hit, t)
              \/ /\ op = "event_active"
                 /\ base' = event_active_finish(base, e, thr[t].arg, t)
              \/ /\ op = "event_finalize"
                 /\ base' = event_finalize_finish(base, e, t)
        /\ freed' = IF op = "event_free" THEN freed \cup {e} ELSE freed
        /\ UNCHANGED current_event_waiters /\ apiUnchanged

\* event_remove_timer.  In a signal event evutil_timerclear clears the union
\* member that holds ev_ncalls and ev_pncalls.
event_remove_timer(t, e) ==
    /\ Calls(t, "event_remove_timer") /\ Usable(t, e)
    /\ Has(base, e, "TIMEOUT")
    /\ LET b == event_queue_remove_timeout(base, e)
       IN  base' = IF e \in SignalEvents
                   THEN [b EXCEPT !.ev_ncalls[e] = 0, !.ev_pncalls[e] = "NULL"]
                   ELSE [b EXCEPT !.ev_io_timeout[e] = 0]
    /\ UNCHANGED <<thr, current_event_waiters, freed>> /\ apiUnchanged

event_deferred_cb_schedule_(t, c) ==
    /\ Calls(t, "event_deferred_cb_schedule_") /\ Usable(t, c)
    /\ IF base.n_deferreds_queued > MAX_DEFERREDS_QUEUED
       THEN base' = event_callback_activate_later_nolock_(base, c, t)
       ELSE LET b == event_callback_activate_nolock_(base, c, t)
                r == ~Has(base, c, "FINALIZING") /\ ~IsActive(base, c)
            IN  base' = IF r THEN [b EXCEPT !.n_deferreds_queued = @ + 1] ELSE b
    /\ UNCHANGED <<thr, current_event_waiters, freed>> /\ apiUnchanged

event_deferred_cb_cancel_(t, c) ==
    /\ Calls(t, "event_deferred_cb_cancel_") /\ Usable(t, c)
    /\ base' = event_callback_cancel_nolock_(base, c)
    /\ UNCHANGED <<thr, current_event_waiters, freed>> /\ apiUnchanged

event_callback_finalize_(t, c) ==
    /\ Calls(t, "event_callback_finalize_") /\ Usable(t, c)
    /\ base' = event_callback_finalize_nolock_(base, c, t)
    /\ UNCHANGED <<thr, current_event_waiters, freed>> /\ apiUnchanged

\* Mutant: the loop is not notified.
loopbreak_without_notify(t) ==
    /\ Calls(t, "event_base_loopbreak")
    /\ event_break' = TRUE
    /\ UNCHANGED <<base, ctlVars, curVars, event_gotterm, timeVars, pc, localVars, userVars>>

event_base_loopbreak(t) ==
    /\ Calls(t, "event_base_loopbreak")
    /\ event_break' = TRUE
    /\ base' = NotifyIf(base, TRUE, t)
    /\ UNCHANGED <<ctlVars, curVars, event_gotterm, timeVars, pc, localVars, userVars>>

event_base_loopcontinue(t) ==
    /\ Calls(t, "event_base_loopcontinue")
    /\ base' = NotifyIf([base EXCEPT !.event_continue = TRUE], TRUE, t)
    /\ UNCHANGED <<thr, current_event_waiters, freed>> /\ apiUnchanged

\* event_base_loopexit: event_base_once of a new timer event with
\* event_loopexit_cb; without a timeout it is made active at once.
event_base_loopexit(t, e, tv_) ==
    /\ Calls(t, "event_base_loopexit")
    /\ base.flags[e] = {} /\ evcb # e
    /\ base' = IF tv_ \in {NoTV, 0} THEN event_active_nolock_(base, e, TRUE, 1, t)
               ELSE event_add_nolock_(base, e, tv_, FALSE, TRUE, TRUE, t)
    /\ UNCHANGED <<thr, current_event_waiters, freed>> /\ apiUnchanged

event_base_add_virtual_(t) ==
    /\ Calls(t, "event_base_add_virtual_")
    /\ base.virtual_event_count < MaxVirtual
    /\ base' = [base EXCEPT !.virtual_event_count = @ + 1]
    /\ UNCHANGED <<thr, current_event_waiters, freed>> /\ apiUnchanged

event_base_del_virtual_(t) ==
    /\ Calls(t, "event_base_del_virtual_")
    /\ base.virtual_event_count > 0
    /\ base' = NotifyIf([base EXCEPT !.virtual_event_count = @ - 1],
                        base.virtual_event_count = 1, t)
    /\ UNCHANGED <<thr, current_event_waiters, freed>> /\ apiUnchanged

----------------------------------------------------------------------------
(* event_base_loop.                                                        *)

event_base_loop(t) ==
    /\ t \in LoopThreads /\ thr[t] = Idle
    /\ pc = "out" /\ ~running_loop
    /\ running_loop' = TRUE /\ th_owner_id' = t
    /\ tv_cache' = 0
    /\ event_gotterm' = FALSE /\ event_break' = FALSE
    /\ \E f \in LoopFlags : lflags' = f
    /\ pc' = "top"
    /\ UNCHANGED <<base, event_running_priority, curVars, clock, tv, deadline, ready, lag,
                   next_pri, endtime, count, evcb, evcb_closure, userVars>>

\* The label done: the function returns and its locals are gone.
loop_returns ==
    /\ tv_cache' = 0 /\ running_loop' = FALSE
    /\ pc' = "out"
    /\ lflags' = {} /\ tv' = NoTV /\ deadline' = NoTV /\ ready' = {} /\ lag' = 0
    /\ UNCHANGED th_owner_id

\* The head of the while loop: both flags are cleared before anything else.
loop_head_base == [base EXCEPT !.event_continue = FALSE, !.n_deferreds_queued = 0]

otherLocals == <<next_pri, endtime, count, evcb, evcb_closure>>

loop_terminated ==
    /\ pc = "top"
    /\ event_gotterm \/ event_break
    /\ base' = loop_head_base
    /\ loop_returns
    /\ UNCHANGED <<event_running_priority, curVars, termVars, clock, otherLocals, userVars>>

NoEvents == ~event_haveevents(base) /\ N_ACTIVE_CALLBACKS(base) = 0

loop_empty ==
    /\ pc = "top"
    /\ ~event_gotterm /\ ~event_break
    /\ "NO_EXIT_ON_EMPTY" \notin lflags /\ NoEvents
    /\ base' = loop_head_base
    /\ loop_returns
    /\ UNCHANGED <<event_running_priority, curVars, termVars, clock, otherLocals, userVars>>

loop_goes_on ==
    /\ pc = "top"
    /\ ~event_gotterm /\ ~event_break
    /\ "NO_EXIT_ON_EMPTY" \in lflags \/ ~NoEvents
    /\ base' = loop_head_base
    /\ IF N_ACTIVE_CALLBACKS(base) = 0 /\ "NONBLOCK" \notin lflags
       THEN timeout_next(base, tv') ELSE tv' = 0
    /\ pc' = "later"
    /\ UNCHANGED <<ctlVars, curVars, termVars, timeVars, lflags, deadline, ready, lag,
                   otherLocals, userVars>>

event_queue_make_later_events_active ==
    /\ pc = "later"
    /\ base.active_later_queue # << >>
    /\ base' = make_later_event_active(base)
    /\ UNCHANGED <<ctlVars, curVars, termVars, timeVars, pc, localVars, userVars>>

\* evsel->dispatch up to epoll_wait, which may block until deadline.
dispatch ==
    /\ pc = "later"
    /\ base.active_later_queue = << >>
    /\ tv_cache' = 0
    /\ deadline' = IF tv = NoTV THEN NoTV ELSE clock + tv
    /\ lag' = clock - gettime
    /\ tv' = NoTV
    /\ pc' = "dispatch"
    /\ UNCHANGED <<base, ctlVars, curVars, termVars, clock, lflags, ready,
                   otherLocals, userVars>>

\* The slots the backend watches for the program and for ev_signal.
WatchedSlots ==
    UNION {Slots[e] : e \in {e \in IoEvents \cup {ev_signal} : Has(base, e, "INSERTED")}}

\* epoll_wait returns: some descriptors are ready, or the deadline has passed,
\* or a signal interrupted it (ready is empty).  A notify descriptor that is
\* readable is among the ready ones.  The lock is not yet taken.
epoll_wait_returns ==
    /\ pc = "dispatch"
    /\ \E r \in SUBSET WatchedSlots :
          ready' = r \cup (IF base.notify_fd THEN Slots[th_notify] ELSE {})
    /\ deadline' = NoTV /\ lag' = 0
    /\ pc' = "polled"
    /\ UNCHANGED <<base, ctlVars, curVars, termVars, timeVars, lflags, tv,
                   otherLocals, userVars>>

\* epoll_wait fails, or epoll_dispatch takes the lock.
dispatch_fails ==
    /\ pc = "dispatch"
    /\ "dispatch_fails" \in Ops
    /\ loop_returns
    /\ UNCHANGED <<base, event_running_priority, curVars, termVars, clock,
                   otherLocals, userVars>>

dispatch_locks ==
    /\ pc = "polled"
    /\ pc' = "events"
    /\ UNCHANGED <<base, ctlVars, curVars, termVars, timeVars, localVars, userVars>>

\* The events of a slot that evmap_io_active_ has yet to activate.
ToActivate(s) ==
    {e \in IoEvents \cup Internal :
        /\ s \in Slots[e] /\ Has(base, e, "INSERTED")
        /\ ~Has(base, e, "ACTIVE") /\ ~Has(base, e, "FINALIZING")}

\* evmap_io_active_ on a ready slot: one turn of its loop.
evmap_io_active_ ==
    /\ pc = "events"
    /\ \E s \in ready : \E e \in ToActivate(s) :
          base' = event_active_nolock_(base, e, FALSE, 1, th_owner_id)
    /\ UNCHANGED <<ctlVars, curVars, termVars, timeVars, pc, localVars, userVars>>

\* Every ready slot has been handled: epoll_dispatch returns, and the cached
\* time is set.
dispatch_returns ==
    /\ pc = "events"
    /\ \A s \in ready : ToActivate(s) = {}
    /\ ready' = {}
    /\ tv_cache' = clock
    /\ pc' = "timeouts"
    /\ UNCHANGED <<base, ctlVars, curVars, termVars, clock, lflags, tv, deadline, lag,
                   otherLocals, userVars>>

\* The heap's top, one of the earliest timeouts, when it has elapsed.
Elapsed(b) == {e \in min_heap_top_(b) : b.ev_timeout[e] <= gettime}

\* timeout_process: one turn of its loop.  Nothing happens to a finalizing
\* event, which would stay at the top of the heap.
timeout_process ==
    /\ pc = "timeouts"
    /\ \E e \in Elapsed(base) :
          base' = IF Has(base, e, "FINALIZING") THEN base
                  ELSE event_active_nolock_(
                         event_del_nolock_(base, e, TRUE, TRUE, th_owner_id),
                         e, TRUE, 1, th_owner_id)
    /\ UNCHANGED <<ctlVars, curVars, termVars, timeVars, pc, localVars, userVars>>

\* The end of timeout_process, with something to run: event_process_active
\* begins; it reads the clock when max_dispatch_time is set.
process_active_begins ==
    /\ pc = "timeouts"
    /\ Elapsed(base) = {}
    /\ N_ACTIVE_CALLBACKS(base) > 0
    /\ next_pri' = 0
    /\ IF max_dispatch_time = NoTV
       THEN endtime' = NoTV /\ UNCHANGED tv_cache
       ELSE endtime' = clock + max_dispatch_time /\ tv_cache' = clock
    /\ pc' = "active"
    /\ UNCHANGED <<base, ctlVars, curVars, termVars, clock, lflags, tv, deadline, ready, lag,
                   count, evcb, evcb_closure, userVars>>

\* ... or with nothing to run.
nothing_active ==
    /\ pc = "timeouts"
    /\ Elapsed(base) = {}
    /\ N_ACTIVE_CALLBACKS(base) = 0
    /\ IF "NONBLOCK" \in lflags THEN loop_returns
       ELSE pc' = "top" /\ UNCHANGED <<tv_cache, running_loop, th_owner_id, lflags, tv,
                                       deadline, ready, lag>>
    /\ UNCHANGED <<base, event_running_priority, curVars, termVars, clock,
                   otherLocals, userVars>>

\* The end of a turn of the loop in which event_process_active returned n: the
\* loop goes on or, under EVLOOP_ONCE, ends.
loop_turn_ends(b, n, cache) ==
    IF "ONCE" \in lflags /\ N_ACTIVE_CALLBACKS(b) = 0 /\ n # 0
    THEN loop_returns
    ELSE /\ pc' = "top" /\ tv_cache' = cache
         /\ UNCHANGED <<running_loop, th_owner_id, lflags, tv, deadline, ready, lag>>

\* event_process_active returns n; b is the base and cache the cached time it
\* leaves.
process_active_returns(b, n, cache) ==
    /\ event_running_priority' = -1
    /\ next_pri' = 0 /\ endtime' = NoTV /\ count' = 0
    /\ loop_turn_ends(b, n, cache)

NonEmpty == {p \in Priorities : p >= next_pri /\ base.activequeues[p] # << >>}

\* The for loop of event_process_active reaches a queue that is not empty ...
process_active_queue ==
    /\ pc = "active"
    /\ \E p \in NonEmpty :
          (\A o \in NonEmpty : p <= o) /\ event_running_priority' = p
    /\ count' = 0
    /\ pc' = "queue"
    /\ UNCHANGED <<base, running_loop, th_owner_id, curVars, termVars, timeVars, lflags, tv,
                   deadline, ready, lag, next_pri, endtime, evcb, evcb_closure, userVars>>

\* ... or its end.
process_active_ends ==
    /\ pc = "active"
    /\ NonEmpty = {}
    /\ process_active_returns(base, 0, tv_cache)
    /\ UNCHANGED <<base, curVars, termVars, clock, evcb, evcb_closure, userVars>>

\* event_process_active_single_queue returns count: a user callback was run,
\* or the next priority is considered.
single_queue_returns(b, cache) ==
    IF count > 0 THEN process_active_returns(b, count, cache)
    ELSE /\ next_pri' = event_running_priority + 1
         /\ pc' = "active" /\ tv_cache' = cache
         /\ UNCHANGED <<ctlVars, endtime, count, lflags, tv, deadline, ready, lag>>

queue_empty ==
    /\ pc = "queue"
    /\ base.activequeues[event_running_priority] = << >>
    /\ single_queue_returns(base, tv_cache)
    /\ UNCHANGED <<base, curVars, termVars, clock, evcb, evcb_closure, userVars>>

\* count is only compared with 0 and with max_dispatch_callbacks.
CountCap == IF max_dispatch_callbacks \in {0, INT_MAX} THEN 1 ELSE max_dispatch_callbacks

\* The first callback of the queue is taken off it (a non-persistent event is
\* deleted) and started.
run_callback ==
    /\ pc = "queue"
    /\ base.activequeues[event_running_priority] # << >>
    /\ LET c       == Head(base.activequeues[event_running_priority])
           deletes == c \in Events \ Persist /\ ~Has(base, c, "FINALIZING")
           b       == IF deletes THEN event_del_nolock_(base, c, TRUE, TRUE, th_owner_id)
                      ELSE event_queue_remove_active(base, c)
           closure == base.closure[c]
       IN  /\ evcb' = c /\ evcb_closure' = closure
           /\ current_event' = IF closure \in Finalizers THEN NULL ELSE c
           /\ count' = IF count + Counted(c) <= CountCap THEN count + Counted(c) ELSE CountCap
           /\ \/ /\ closure = "EVENT_SIGNAL"
                 /\ base' = event_signal_closure(b, c)
                 /\ pc' = IF b.ev_ncalls[c] = 0 THEN "body_done" ELSE "callback"
              \/ /\ closure = "EVENT_PERSIST"
                 /\ \E ok \in Accepts(c) : base' = event_persist_closure(b, c, ok)
                 /\ pc' = "callback"
              \/ /\ closure \notin {"EVENT_SIGNAL", "EVENT_PERSIST"}
                 /\ base' = b
                 /\ pc' = "callback"
    /\ current_event_waiters' = 0
    /\ UNCHANGED <<ctlVars, termVars, timeVars, lflags, tv, deadline, ready, lag,
                   next_pri, endtime, userVars>>

callbackUnchanged ==
    UNCHANGED <<ctlVars, curVars, timeVars, localVars, userVars>>

\* evthread_notify_drain_eventfd: the read, then (under the lock) the flag.
notify_drain_reads ==
    /\ pc = "callback" /\ evcb = th_notify
    /\ base' = [base EXCEPT !.notify_fd = FALSE]
    /\ pc' = "drained"
    /\ UNCHANGED termVars /\ callbackUnchanged

notify_drain_clears ==
    /\ pc = "drained"
    /\ base' = [base EXCEPT !.is_notify_pending = FALSE]
    /\ pc' = "body_done"
    /\ UNCHANGED termVars /\ callbackUnchanged

\* evsig_cb has read the caught signals and takes the lock; it activates the
\* events of each, as many times as it was caught.
evsig_cb_locks ==
    /\ pc = "callback" /\ evcb = ev_signal
    /\ pc' = "evsig"
    /\ UNCHANGED <<base, termVars>> /\ callbackUnchanged

evmap_signal_active_ ==
    /\ pc = "evsig"
    /\ \E e \in SignalEvents, n \in 1 .. MaxNcalls :
          /\ Has(base, e, "INSERTED") /\ ~Has(base, e, "ACTIVE")
          /\ base' = event_active_nolock_(base, e, FALSE, n, th_owner_id)
    /\ UNCHANGED <<termVars, pc>> /\ callbackUnchanged

evsig_cb_unlocks ==
    /\ pc = "evsig"
    /\ pc' = "body_done"
    /\ UNCHANGED <<base, termVars>> /\ callbackUnchanged

event_loopexit_cb ==
    /\ pc = "callback" /\ evcb \in LoopExits
    /\ event_gotterm' = TRUE
    /\ pc' = "body_done"
    /\ UNCHANGED <<base, event_break>> /\ callbackUnchanged

\* The user's function has returned, or the library's has.
BodyDone ==
    \/ pc = "body_done"
    \/ pc = "callback" /\ evcb \notin Internal \cup LoopExits

\* event_signal_closure calls the callback again.
SignalGoesOn == evcb_closure = "EVENT_SIGNAL" /\ base.ncalls > 0 /\ ~event_break

signal_callback_again ==
    /\ BodyDone /\ SignalGoesOn
    /\ base' = signal_turn(base, evcb)
    /\ UNCHANGED <<termVars, pc>> /\ callbackUnchanged

max_to_process ==
    IF event_running_priority < limit_callbacks_after_prio THEN INT_MAX
    ELSE max_dispatch_callbacks

\* The callback is done: the loop takes the lock, wakes the threads that wait
\* for it, and decides whether to go on with the queue.
callback_returns ==
    /\ BodyDone /\ ~SignalGoesOn
    /\ LET b == IF evcb_closure = "EVENT_SIGNAL"
                THEN signal_closure_returns(base, evcb) ELSE base
           full  == count >= max_to_process
           timed == /\ ~full /\ count > 0 /\ endtime # NoTV
                    /\ event_running_priority >= limit_callbacks_after_prio
           cache == IF timed THEN clock ELSE tv_cache
           stop  == full \/ (timed /\ clock >= endtime) \/ b.event_continue
       IN  /\ base' = b
           /\ \/ /\ event_break
                 /\ process_active_returns(b, -1, tv_cache)
              \/ /\ ~event_break /\ stop
                 /\ single_queue_returns(b, cache)
              \/ /\ ~event_break /\ ~stop
                 /\ pc' = "queue" /\ tv_cache' = cache
                 /\ UNCHANGED <<ctlVars, lflags, tv, deadline, ready, lag, next_pri,
                                endtime, count>>
    /\ current_event' = NULL
    /\ current_event_waiters' = 0
    /\ thr' = IF current_event_waiters = 0 THEN thr
              ELSE [t \in Threads |-> IF thr[t] = Idle THEN Idle
                                      ELSE [thr[t] EXCEPT !.woken = TRUE]]
    /\ finalized' = IF evcb_closure \in Finalizers THEN finalized \cup {evcb}
                    ELSE finalized
    /\ freed' = IF evcb_closure = "EVENT_FINALIZE_FREE" THEN freed \cup {evcb}
                ELSE freed
    /\ evcb' = NULL /\ evcb_closure' = "EVENT"
    /\ UNCHANGED <<termVars, clock>>

\* Time passes while the lock is free.
Tick ==
    /\ LockFree /\ clock < MaxClock
    /\ clock' = clock + 1
    /\ UNCHANGED <<base, ctlVars, curVars, termVars, tv_cache, pc, localVars, userVars>>

----------------------------------------------------------------------------
Init ==
    /\ base = event_base_new_with_config
    /\ running_loop = FALSE /\ th_owner_id = NULL
    /\ event_running_priority = -1
    /\ current_event = NULL /\ current_event_waiters = 0
    /\ event_break = FALSE /\ event_gotterm = FALSE
    /\ tv_cache = 0 /\ clock = 1
    /\ pc = "out"
    /\ lflags = {} /\ tv = NoTV /\ deadline = NoTV /\ ready = {} /\ lag = 0
    /\ next_pri = 0 /\ endtime = NoTV /\ count = 0
    /\ evcb = NULL /\ evcb_closure = "EVENT"
    /\ thr = [t \in Threads |-> Idle]
    /\ freed = {} /\ finalized = {}

UserEvents == Events \ LoopExits
DelOps == {"event_del", "event_del_block", "event_del_noblock"}

\* event_active may be given EV_TIMEOUT as the reason.
ActiveRes == IF "EV_TIMEOUT" \in Ops THEN BOOLEAN ELSE {FALSE}

EventApi(t, e) ==
    \/ \E tv_ \in Intervals \cup {NoTV} : event_add(t, e, tv_)
    \/ \E op \in DelOps : event_del(t, e, op)
    \/ event_free(t, e)
    \/ \E timeout \in ActiveRes : \E n \in IF e \in SignalEvents THEN 1 .. MaxNcalls ELSE {1} :
          event_active(t, e, timeout, n)
    \/ event_active_later_(t, e)
    \/ \E closure \in {"EVENT_FINALIZE", "EVENT_FINALIZE_FREE"} : event_finalize(t, e, closure)
    \/ event_remove_timer(t, e)

DeferredApi(t, c) ==
    \/ event_deferred_cb_schedule_(t, c)
    \/ event_deferred_cb_cancel_(t, c)
    \/ event_callback_finalize_(t, c)

BaseApi(t) ==
    \/ event_base_loopbreak(t)
    \/ event_base_loopcontinue(t)
    \/ \E e \in LoopExits, tv_ \in Intervals \cup {NoTV} : event_base_loopexit(t, e, tv_)
    \/ event_base_add_virtual_(t)
    \/ event_base_del_virtual_(t)

\* The steps of the loop that nothing but the loop's own progress enables.
LoopStep ==
    \/ loop_terminated \/ loop_empty \/ loop_goes_on
    \/ event_queue_make_later_events_active \/ dispatch
    \/ dispatch_locks \/ evmap_io_active_ \/ dispatch_returns
    \/ timeout_process \/ process_active_begins \/ nothing_active
    \/ process_active_queue \/ process_active_ends \/ queue_empty \/ run_callback
    \/ notify_drain_reads \/ notify_drain_clears
    \/ evsig_cb_locks \/ evmap_signal_active_ \/ evsig_cb_unlocks
    \/ event_loopexit_cb \/ signal_callback_again \/ callback_returns

Next ==
    \/ \E t \in Threads :
          \/ \E e \in UserEvents : EventApi(t, e)
          \/ \E c \in Deferreds : DeferredApi(t, c)
          \/ BaseApi(t)
          \/ Resume(t)
          \/ event_base_loop(t)
    \/ LoopStep
    \/ epoll_wait_returns \/ dispatch_fails
    \/ Tick

Spec == Init /\ [][Next]_vars

----------------------------------------------------------------------------
(* Correctness.                                                            *)

\* The variables have their types.
TypeOK ==
    /\ base \in event_base
    /\ running_loop \in BOOLEAN
    /\ th_owner_id \in Threads \cup {NULL}
    /\ event_running_priority \in Priorities \cup {-1}
    /\ current_event \in Callbacks \cup {NULL}
    /\ current_event_waiters \in Nat
    /\ event_break \in BOOLEAN /\ event_gotterm \in BOOLEAN
    /\ tv_cache \in Nat /\ clock \in Nat
    /\ pc \in LoopPcs
    /\ lflags \subseteq {"ONCE", "NONBLOCK", "NO_EXIT_ON_EMPTY"}
    /\ ready \subseteq UNION {Slots[e] : e \in IoEvents \cup Internal}
    /\ tv \in Int /\ deadline \in Int /\ endtime \in Int /\ lag \in Int
    /\ next_pri \in Nat /\ count \in Nat
    /\ evcb \in Callbacks \cup {NULL} /\ evcb_closure \in Closures
    /\ thr \in [Threads -> [op: {"none", "event_add", "event_free", "event_active",
                                "event_finalize"} \cup DelOps,
                            ev: Events \cup {NULL}, arg: Int, woken: BOOLEAN]]
    /\ freed \subseteq Callbacks /\ finalized \subseteq Callbacks

\* Whatever the threads and the loop do, the queues of the base and the flags
\* of its callbacks agree: what event_base_assert_ok_nolock_ asserts.
QueuesOK == QueuesMatchFlags(base)

\* event_count and event_count_active never drift from the queues, over any
\* sequence of adds, deletes, activations, finalizations and callbacks.
CountsExact == CountsMatchFlags(base)

\* A thread that waits on current_event_cond and has not been woken waits for
\* the event that is running now, and the loop knows somebody waits: the
\* broadcast at the end of the callback cannot pass it by.
WaitersCounted ==
    \A t \in Threads : thr[t] # Idle /\ ~thr[t].woken =>
        current_event = thr[t].ev /\ current_event_waiters > 0

\* While the loop sleeps in epoll_wait, whatever another thread made it
\* necessary to do at once (an active callback, event_break, event_continue)
\* has made the notify descriptor readable, or the sleep is over.
NoLostWakeup ==
    pc = "dispatch" /\ (N_ACTIVE_CALLBACKS(base) > 0 \/ event_break \/ base.event_continue) =>
        base.notify_fd \/ (deadline # NoTV /\ deadline <= clock)

\* A loop that has nothing left to wait for does not sleep for ever: whoever
\* deletes the last event, or the last virtual event, wakes it.
EmptyLoopWakes ==
    pc = "dispatch" /\ NoEvents /\ "NO_EXIT_ON_EMPTY" \notin lflags =>
        base.notify_fd \/ deadline # NoTV

\* While the loop sleeps, it is to wake no later than each pending timeout
\* (but for the staleness of the time timeout_next computed the sleep from).
TimersWake ==
    pc = "dispatch" => \A e \in Timeouts(base) :
        \/ base.notify_fd
        \/ deadline # NoTV /\ (deadline <= clock \/ deadline <= base.ev_timeout[e] + lag)

\* A finalizer that was asked for stays queued until it runs, and what was
\* finalized never is on a queue again.
FinalizersKept ==
    \A c \in Callbacks :
        /\ Has(base, c, "FINALIZING") => Has(base, c, "ACTIVE") \/ evcb = c \/ c \in finalized
        /\ c \in finalized => base.flags[c] = {"FINALIZING"}

\* EVUTIL_ASSERT in event_process_active_single_queue: a finalizer is run only
\* for a callback marked as finalizing.
FinalizersMarked ==
    evcb_closure \in Finalizers => Has(base, evcb, "FINALIZING")

\* Callbacks of a more urgent priority never wait while a less urgent one is
\* started ("Lower priorities are always process before higher priorities").
UrgentFirst ==
    [][pc = "queue" /\ evcb' # NULL =>
        \A p \in Priorities : p < event_running_priority => base.activequeues[p] = << >>]_vars

\* event_base_loop returns for want of events only when no user event is
\* pending or active and no virtual event is left.
EndsOnlyEmpty ==
    [][pc = "top" /\ pc' = "out" /\ ~event_gotterm /\ ~event_break =>
        /\ base.virtual_event_count = 0
        /\ \A c \in Callbacks \ Internal : base.flags[c] \subseteq {"FINALIZING"}]_vars

\* event_free by a thread other than the loop's returns, and the memory is
\* released, only when the event's callback is not running.
FreeWaits ==
    [][\A e \in freed' \ freed :
        evcb = e /\ evcb_closure \notin Finalizers =>
            \A t \in Threads : thr[t] # thr'[t] => thr[t].ev # e]_vars

\* An I/O or signal event whose timeout is pending is also watched for its
\* descriptor or signal, or is about to run.
AddWatches ==
    \A e \in (IoEvents \cup SignalEvents) :
        Has(base, e, "TIMEOUT") => Has(base, e, "INSERTED") \/ IsActive(base, e)

\* An active signal event will call its callback.
ActiveSignalsFire ==
    \A e \in SignalEvents : IsActive(base, e) => base.ev_ncalls[e] > 0

Fairness ==
    /\ WF_vars(LoopStep)
    /\ WF_vars(epoll_wait_returns /\ (base.notify_fd \/ (deadline # NoTV /\ deadline <= clock)))
    /\ WF_vars(Tick)

FairSpec == Spec /\ Fairness

\* event_base_loopbreak ends the loop.
BreakEnds == event_break /\ running_loop ~> ~running_loop

\* A thread that waits for a callback to be over is woken.
WaitersWoken == \A t \in Threads : thr[t] # Idle ~> (thr[t] = Idle \/ thr[t].woken)

\* Deferred callbacks that keep scheduling themselves never keep the loop from
\* polling for other events.
LoopPolls == []<>(pc \in {"dispatch", "out"})

\* event_finalize and event_callback_finalize_: a finalizer, once asked for,
\* stays queued and marked until it runs, whoever deletes or activates meanwhile.
FinalizersSafe == FinalizersKept /\ FinalizersMarked

\* A sleep in the backend ends in time: for the earliest timeout, and for a
\* loop that has nothing left to wait for.
SleepEnds == TimersWake /\ EmptyLoopWakes

\* Under fair scheduling of the loop a break ends it, waiting threads are
\* woken, and polling is not starved by deferred callbacks.
LoopProgresses == BreakEnds /\ WaitersWoken /\ LoopPolls
=============================================================================
