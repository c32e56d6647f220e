---------------------------- MODULE EventNolock ----------------------------
(***************************************************************************)
(* The nolock functions of libevent's event.c: what event_add, event_del,  *)
(* event_active, event_finalize, the deferred callbacks and the closures   *)
(* do to an event_base once they hold th_base_lock and need not wait.  As  *)
(* in EventQueues each takes the base as a record and returns the base it  *)
(* leaves; of the rest of the struct they read the variables below.        *)
(***************************************************************************)
EXTENDS EventQueues

VARIABLES
    running_loop, th_owner_id, event_running_priority, event_break,
    tv_cache,                     \* 0 when cleared
    clock                         \* the monotonic clock, from 1

NoTV == -1                        \* a NULL struct timeval pointer

----------------------------------------------------------------------------
(* Helpers: the time, the notification of the loop, the evmap.             *)

gettime == IF tv_cache # 0 THEN tv_cache ELSE clock

EVBASE_NEED_NOTIFY(me) == running_loop /\ th_owner_id # me
EVBASE_IN_THREAD(me)   == th_owner_id = me

evthread_notify_base(b) ==
    IF b.is_notify_pending THEN b
    ELSE [b EXCEPT !.is_notify_pending = TRUE, !.notify_fd = TRUE]

NotifyIf(b, need, me) ==
    IF need /\ EVBASE_NEED_NOTIFY(me) THEN evthread_notify_base(b) ELSE b

\* evmap_io_add_ and evmap_io_del_ return 1 when the backend's interest in one
\* of the event's slots starts or ends; evmap_signal_add_ and _del_ always do.
evmap_changes(b, e) ==
    e \in SignalEvents \/
    \E s \in Slots[e] : \A o \in (IoEvents \cup Internal) \ {e} :
        Has(b, o, "INSERTED") => s \notin Slots[o]

\* evmap_signal_add_ calls evsig_add, which adds the internal ev_signal.
evmap_signal_add_(b, e) ==
    IF e \in SignalEvents THEN [b EXCEPT !.flags[ev_signal] = @ \cup {"INSERTED"}]
    ELSE b

\* The pending timeouts, and whether e is the heap's top after it was pushed
\* (an equal timeout that was there before stays above it).
Timeouts(b) == {e \in EventStructs : Has(b, e, "TIMEOUT")}

min_heap_elt_is_top_(b, e) ==
    \A o \in Timeouts(b) \ {e} : b.ev_timeout[e] < b.ev_timeout[o]

----------------------------------------------------------------------------
(* The nolock functions.  me is the calling thread, ok whether the backend *)
(* accepts the change, hit whether a write through ev_pncalls lands in the *)
(* ncalls of the signal closure that is running (it does when the pointer  *)
(* is live and the write does not race with the closure; otherwise it may).*)

\* *ev->ev_pncalls = 0, in event_add_nolock_ and event_del_nolock_.
abort_signal_loop(b, e, hit) ==
    IF e \in SignalEvents /\ b.ev_ncalls[e] # 0 /\ b.ev_pncalls[e] # "NULL" /\ hit
    THEN [b EXCEPT !.ncalls = 0] ELSE b

\* The second half of event_add_nolock_, when it is given a timeout.
event_add_timeout(b, e, tv_, absolute, hit) ==
    LET b1 == IF b.closure[e] = "EVENT_PERSIST" /\ ~absolute
              THEN [b EXCEPT !.ev_io_timeout[e] = tv_] ELSE b
        b2 == IF Has(b1, e, "TIMEOUT") THEN event_queue_remove_timeout(b1, e) ELSE b1
        b3 == IF Has(b2, e, "ACTIVE") /\ b2.res_timeout[e]
              THEN event_queue_remove_active(abort_signal_loop(b2, e, hit), e)
              ELSE b2
        b4 == [b3 EXCEPT !.ev_timeout[e] = IF absolute THEN tv_ ELSE gettime + tv_]
    IN  event_queue_insert_timeout(b4, e)

\* Mutant: a timeout that becomes the earliest one does not notify the loop.
add_without_top(b, e, tv_, absolute, ok, hit, me) ==
    LET insert == e \notin TimerEvents /\ ~Has(b, e, "INSERTED") /\ ~IsActive(b, e)
        b1 == IF insert /\ ok
              THEN event_queue_insert_inserted(evmap_signal_add_(b, e), e) ELSE b
        b2 == IF tv_ # NoTV /\ (insert => ok)
              THEN event_add_timeout(b1, e, tv_, absolute, hit) ELSE b1
    IN  NotifyIf(b2, \/ insert /\ ok /\ evmap_changes(b, e)
                     \/ \E o \in Timeouts(b2) : b2.ev_timeout[o] < gettime, me)

\* event_add_nolock_ past its wait.
event_add_nolock_(b, e, tv_, absolute, ok, hit, me) ==
    LET insert == e \notin TimerEvents /\ ~Has(b, e, "INSERTED") /\ ~IsActive(b, e)
        timed  == tv_ # NoTV /\ (insert => ok)
        b1 == IF insert /\ ok
              THEN event_queue_insert_inserted(evmap_signal_add_(b, e), e) ELSE b
        b2 == IF timed THEN event_add_timeout(b1, e, tv_, absolute, hit) ELSE b1
        earliest == \/ min_heap_elt_is_top_(b2, e)
                    \/ \E o \in Timeouts(b2) : b2.ev_timeout[o] < gettime
    IN  NotifyIf(b2, (insert /\ ok /\ evmap_changes(b, e)) \/ (timed /\ earliest), me)

\* event_del_nolock_ past its wait.
event_del_nolock_(b, e, ok, hit, me) ==
    LET b1 == abort_signal_loop(b, e, hit)
        b2 == IF Has(b1, e, "TIMEOUT") THEN event_queue_remove_timeout(b1, e) ELSE b1
        b3 == IF Has(b2, e, "ACTIVE") THEN event_queue_remove_active(b2, e)
              ELSE IF Has(b2, e, "ACTIVE_LATER")
                   THEN event_queue_remove_active_later(b2, e) ELSE b2
        b4 == IF Has(b3, e, "INSERTED") THEN event_queue_remove_inserted(b3, e) ELSE b3
    IN  NotifyIf(b4, Has(b3, e, "INSERTED") /\ ok /\ evmap_changes(b3, e), me)

\* Mutant: a callback on the active-later queue is not taken off it.
activate_leaves_later(b, c, me) ==
    IF Has(b, c, "FINALIZING") \/ Has(b, c, "ACTIVE") THEN b
    ELSE NotifyIf(event_queue_insert_active(b, c), TRUE, me)

\* Mutant: the loop is not notified of a callback made active.
activate_without_notify(b, c, me) ==
    IF Has(b, c, "FINALIZING") \/ Has(b, c, "ACTIVE") THEN b
    ELSE event_queue_insert_active(
            IF Has(b, c, "ACTIVE_LATER") THEN event_queue_remove_active_later(b, c) ELSE b, c)

event_callback_activate_nolock_(b, c, me) ==
    IF Has(b, c, "FINALIZING") \/ Has(b, c, "ACTIVE") THEN b
    ELSE LET b1 == IF Has(b, c, "ACTIVE_LATER")
                   THEN event_queue_remove_active_later(b, c) ELSE b
         IN  NotifyIf(event_queue_insert_active(b1, c), TRUE, me)

event_callback_activate_later_nolock_(b, c, me) ==
    IF IsActive(b, c) THEN b
    ELSE NotifyIf(event_queue_insert_active_later(b, c), TRUE, me)

\* Mutant: a more urgent event does not interrupt the queue that is running.
active_without_continue(b, e, timeout) ==
    [b EXCEPT !.res_timeout[e] = IF IsActive(b, e) THEN @ \/ timeout ELSE timeout]

\* event_active_nolock_ up to its wait ...
event_active_enter(b, e, timeout) ==
    [b EXCEPT !.res_timeout[e] = IF IsActive(b, e) THEN @ \/ timeout ELSE timeout,
              !.event_continue = \/ @
                                 \/ /\ ~Has(b, e, "ACTIVE")
                                    /\ evcb_pri[e] < event_running_priority]

\* ... and past it.
event_active_finish(b, e, n, me) ==
    LET b1 == IF e \in SignalEvents
              THEN [b EXCEPT !.ev_ncalls[e] = n, !.ev_pncalls[e] = "NULL"] ELSE b
    IN  event_callback_activate_nolock_(b1, e, me)

event_active_nolock_(b, e, timeout, n, me) ==
    IF Has(b, e, "FINALIZING") THEN b
    ELSE IF Has(b, e, "ACTIVE") THEN event_active_enter(b, e, timeout)
    ELSE event_active_finish(event_active_enter(b, e, timeout), e, n, me)

\* event_finalize_nolock_ up to the wait of event_active_nolock_ (its
\* event_del_nolock_ does nothing to an event that is finalizing already) ...
event_finalize_enter(b, e, closure, ok, hit, me) ==
    LET b1 == IF Has(b, e, "FINALIZING") THEN b
              ELSE event_del_nolock_(b, e, ok, hit, me)
        b2 == [b1 EXCEPT !.closure[e] = closure]
    IN  IF Has(b, e, "FINALIZING") THEN b2 ELSE event_active_enter(b2, e, FALSE)

\* ... and past it.
event_finalize_finish(b, e, me) ==
    [event_active_finish(b, e, 1, me) EXCEPT !.flags[e] = @ \cup {"FINALIZING"}]

\* Mutant: a callback that is finalizing can be cancelled.
cancel_finalizing(b, c) ==
    IF Has(b, c, "ACTIVE") THEN event_queue_remove_active(b, c)
    ELSE IF Has(b, c, "ACTIVE_LATER") THEN event_queue_remove_active_later(b, c)
    ELSE b

\* event_callback_cancel_nolock_ on a callback that is no event.
event_callback_cancel_nolock_(b, c) ==
    IF Has(b, c, "FINALIZING") THEN b
    ELSE IF Has(b, c, "ACTIVE") THEN event_queue_remove_active(b, c)
    ELSE IF Has(b, c, "ACTIVE_LATER") THEN event_queue_remove_active_later(b, c)
    ELSE b

\* event_callback_finalize_nolock_ on a callback that is no event.
event_callback_finalize_nolock_(b, c, me) ==
    LET b1 == [event_callback_cancel_nolock_(b, c) EXCEPT !.closure[c] = "CB_FINALIZE"]
    IN  [event_callback_activate_nolock_(b1, c, me) EXCEPT
            !.flags[c] = @ \cup {"FINALIZING"}]

\* The rescheduling part of event_persist_closure.
event_persist_closure(b, e, ok) ==
    LET now    == gettime
        from   == IF b.res_timeout[e] THEN b.ev_timeout[e] ELSE now
        at     == from + b.ev_io_timeout[e]
        run_at == IF at < now THEN now + b.ev_io_timeout[e] ELSE at
    IN  IF b.ev_io_timeout[e] = 0 THEN b
        ELSE event_add_nolock_(b, e, run_at, TRUE, ok, TRUE, th_owner_id)

\* event_signal_closure: one turn of its loop, up to the callback.
signal_turn(b, e) ==
    [b EXCEPT !.ncalls = @ - 1,
              !.ev_ncalls[e] = b.ncalls - 1,
              !.ev_pncalls[e] = IF b.ncalls = 1 THEN "NULL" ELSE @]

\* Mutant: the callback is called before ncalls is tested.
signal_calls_first(b, e) ==
    signal_turn([b EXCEPT !.ncalls = b.ev_ncalls[e], !.ev_pncalls[e] = "live"], e)

\* event_signal_closure up to its first callback (if ev_ncalls asks for one).
event_signal_closure(b, e) ==
    IF b.ev_ncalls[e] = 0 THEN [b EXCEPT !.ncalls = 0]
    ELSE signal_turn([b EXCEPT !.ncalls = b.ev_ncalls[e], !.ev_pncalls[e] = "live"], e)

\* How event_signal_closure leaves ev_pncalls: when a delete set ncalls to 0
\* the pointer to the dead local stays behind.
signal_closure_returns(b, e) ==
    [b EXCEPT !.ev_pncalls[e] =
        IF event_break /\ b.ncalls # 0 THEN "NULL"
        ELSE IF @ = "live" THEN "stale" ELSE @,
              !.ncalls = 0]

\* The top of the heap is one of the earliest timeouts.
min_heap_top_(b) ==
    {e \in Timeouts(b) : \A o \in Timeouts(b) : b.ev_timeout[e] <= b.ev_timeout[o]}

\* t is how long the loop may sleep: until the heap's top, or for ever.
timeout_next(b, t) ==
    \/ Timeouts(b) = {} /\ t = NoTV
    \/ \E e \in min_heap_top_(b) :
          t = IF b.ev_timeout[e] <= gettime THEN 0 ELSE b.ev_timeout[e] - gettime

\* Mutant: virtual events are forgotten.
haveevents_real(b) == b.event_count > 0

event_haveevents(b)   == b.virtual_event_count > 0 \/ b.event_count > 0
N_ACTIVE_CALLBACKS(b) == b.event_count_active
=============================================================================
