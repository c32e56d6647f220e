---------------------------- MODULE EventQueues ----------------------------
(***************************************************************************)
(* The queues of one struct event_base (libevent/event.c): the priority    *)
(* queues of active callbacks, the active-later queue, the set of events   *)
(* with a timeout (the heap, abstracted to EVLIST_TIMEOUT and ev_timeout), *)
(* the evmap (abstracted to EVLIST_INSERTED) and the counters kept beside  *)
(* them.  Every operator below is a C function that runs with th_base_lock *)
(* held; it takes the base as a record and returns the base it leaves.     *)
(***************************************************************************)
EXTENDS Integers, Sequences, FiniteSets

CONSTANTS
    IoEvents,      \* events assigned with EV_READ, EV_WRITE or EV_CLOSED
    SignalEvents,  \* events assigned with EV_SIGNAL
    TimerEvents,   \* events assigned with neither (evtimer_assign)
    Deferreds,     \* struct event_callback that is no event (deferred_cb)
    th_notify,     \* the internal event that reads the notify descriptor
    ev_signal,     \* the internal event that reads the signal socketpair
    Persist,       \* the events assigned with EV_PERSIST
    nactivequeues, \* how many priorities the base has
    evcb_pri,      \* the priority of each callback
    Slots,         \* the (descriptor, direction) pairs an I/O event watches
    MAX_DEFERREDS_QUEUED,
    NULL

Internal     == {th_notify, ev_signal}          \* EVLIST_INTERNAL
Events       == IoEvents \cup SignalEvents \cup TimerEvents
EventStructs == Events \cup Internal            \* EVLIST_INIT
Callbacks    == EventStructs \cup Deferreds
Priorities   == 0 .. nactivequeues - 1

\* No two kinds of callback are the same object, the internal events are the
\* most urgent ones, and a finite number of callbacks exists.
ASSUME CallbacksAssumption ==
    /\ th_notify # ev_signal
    /\ Internal \cap (Events \cup Deferreds) = {}
    /\ Events \cap Deferreds = {}
    /\ IoEvents \cap SignalEvents = {}
    /\ (IoEvents \cup SignalEvents) \cap TimerEvents = {}
    /\ IsFiniteSet(Callbacks)
    /\ NULL \notin Callbacks
    /\ Persist \subseteq Events

ASSUME PrioritiesAssumption ==
    /\ nactivequeues \in Nat \ {0}
    /\ evcb_pri \in [Callbacks -> Priorities]
    /\ \A c \in Internal : evcb_pri[c] = 0

\* An I/O event watches something, and no descriptor of the base's own.
ASSUME SlotsAssumption ==
    \A e \in IoEvents : /\ Slots[e] # {}
                        /\ \A o \in Internal : Slots[e] \cap Slots[o] = {}

ASSUME DeferredsAssumption == MAX_DEFERREDS_QUEUED \in Nat

EVLIST == {"TIMEOUT", "INSERTED", "ACTIVE", "ACTIVE_LATER", "FINALIZING"}

Closures == {"EVENT", "EVENT_SIGNAL", "EVENT_PERSIST", "CB_SELF",
             "EVENT_FINALIZE", "EVENT_FINALIZE_FREE", "CB_FINALIZE"}

Finalizers == {"EVENT_FINALIZE", "EVENT_FINALIZE_FREE", "CB_FINALIZE"}

----------------------------------------------------------------------------
(* The part of struct event_base, and of the structs event and             *)
(* event_callback that hang off it, that the lock protects.                *)

event_base ==
    [flags:               [Callbacks -> SUBSET EVLIST],
     closure:             [Callbacks -> Closures],
     ev_timeout:          [EventStructs -> Nat],
     ev_io_timeout:       [EventStructs -> Nat],  \* 0: no interval
     res_timeout:         [EventStructs -> BOOLEAN],  \* ev_res & EV_TIMEOUT
     ev_ncalls:           [EventStructs -> Nat],
     ev_pncalls:          [EventStructs -> {"NULL", "live", "stale"}],
     ncalls:              Nat,     \* the local that a live ev_pncalls points to
     activequeues:        [Priorities -> Seq(Callbacks)],
     active_later_queue:  Seq(Callbacks),
     event_count:         Int,
     event_count_active:  Int,
     virtual_event_count: Nat,
     n_deferreds_queued:  Nat,
     event_continue:      BOOLEAN,
     is_notify_pending:   BOOLEAN,
     notify_fd:           BOOLEAN] \* the notify descriptor is readable

\* event_assign, event_deferred_cb_init_ and evthread_make_base_notifiable:
\* what each callback's closure is before anything finalizes it.
event_assign(c) ==
    IF c \in Deferreds THEN "CB_SELF"
    ELSE IF c \in SignalEvents THEN "EVENT_SIGNAL"
    ELSE IF c \in Persist \cup Internal THEN "EVENT_PERSIST" ELSE "EVENT"

\* event_base_new_with_config on a base with threads: nothing is pending but
\* the notify event.
event_base_new_with_config ==
    [flags               |-> [c \in Callbacks |->
                                IF c = th_notify THEN {"INSERTED"} ELSE {}],
     closure             |-> [c \in Callbacks |-> event_assign(c)],
     ev_timeout          |-> [e \in EventStructs |-> 0],
     ev_io_timeout       |-> [e \in EventStructs |-> 0],
     res_timeout         |-> [e \in EventStructs |-> FALSE],
     ev_ncalls           |-> [e \in EventStructs |-> 0],
     ev_pncalls          |-> [e \in EventStructs |-> "NULL"],
     ncalls              |-> 0,
     activequeues        |-> [p \in Priorities |-> << >>],
     active_later_queue  |-> << >>,
     event_count         |-> 0,
     event_count_active  |-> 0,
     virtual_event_count |-> 0,
     n_deferreds_queued  |-> 0,
     event_continue      |-> FALSE,
     is_notify_pending   |-> FALSE,
     notify_fd           |-> FALSE]

Has(b, c, flag) == flag \in b.flags[c]
IsActive(b, c)  == Has(b, c, "ACTIVE") \/ Has(b, c, "ACTIVE_LATER")

\* TAILQ_REMOVE of an element that is on the queue.
TAILQ_REMOVE(q, c) ==
    LET k == CHOOSE i \in DOMAIN q : q[i] = c
    IN  SubSeq(q, 1, k - 1) \o SubSeq(q, k + 1, Len(q))

\* INCR_EVENT_COUNT and DECR_EVENT_COUNT leave internal events out.
Counted(c) == IF c \in Internal THEN 0 ELSE 1

----------------------------------------------------------------------------
(* Insertion and removal, one operator per event_queue_ function.          *)

event_queue_insert_inserted(b, e) ==
    [b EXCEPT !.flags[e] = @ \cup {"INSERTED"},
              !.event_count = @ + Counted(e)]

event_queue_remove_inserted(b, e) ==
    [b EXCEPT !.flags[e] = @ \ {"INSERTED"},
              !.event_count = @ - Counted(e)]

event_queue_insert_timeout(b, e) ==
    [b EXCEPT !.flags[e] = @ \cup {"TIMEOUT"},
              !.event_count = @ + Counted(e)]

event_queue_remove_timeout(b, e) ==
    [b EXCEPT !.flags[e] = @ \ {"TIMEOUT"},
              !.event_count = @ - Counted(e)]

event_queue_insert_active(b, c) ==
    IF Has(b, c, "ACTIVE") THEN b
    ELSE [b EXCEPT !.flags[c] = @ \cup {"ACTIVE"},
                   !.event_count = @ + Counted(c),
                   !.event_count_active = @ + 1,
                   !.activequeues[evcb_pri[c]] = Append(@, c)]

event_queue_remove_active(b, c) ==
    [b EXCEPT !.flags[c] = @ \ {"ACTIVE"},
              !.event_count = @ - Counted(c),
              !.event_count_active = @ - 1,
              !.activequeues[evcb_pri[c]] = TAILQ_REMOVE(@, c)]

event_queue_insert_active_later(b, c) ==
    IF IsActive(b, c) THEN b
    ELSE [b EXCEPT !.flags[c] = @ \cup {"ACTIVE_LATER"},
                   !.event_count = @ + Counted(c),
                   !.event_count_active = @ + 1,
                   !.active_later_queue = Append(@, c)]

event_queue_remove_active_later(b, c) ==
    [b EXCEPT !.flags[c] = @ \ {"ACTIVE_LATER"},
              !.event_count = @ - Counted(c),
              !.event_count_active = @ - 1,
              !.active_later_queue = TAILQ_REMOVE(@, c)]

\* Mutant: the callback is counted again when it changes queues.
make_later_recounts(b) ==
    LET c == Head(b.active_later_queue)
    IN  [b EXCEPT !.active_later_queue = Tail(@),
                  !.flags[c] = (@ \ {"ACTIVE_LATER"}) \cup {"ACTIVE"},
                  !.event_count_active = @ + 1,
                  !.activequeues[evcb_pri[c]] = Append(@, c)]

\* One turn of the loop of event_queue_make_later_events_active, for the
\* first callback c of the active-later queue.
make_later_event_active(b) ==
    LET c == Head(b.active_later_queue)
    IN  [b EXCEPT !.active_later_queue = Tail(@),
                  !.flags[c] = (@ \ {"ACTIVE_LATER"}) \cup {"ACTIVE"},
                  !.activequeues[evcb_pri[c]] = Append(@, c),
                  !.n_deferreds_queued =
                      @ + (IF b.closure[c] = "CB_SELF" THEN 1 ELSE 0)]

----------------------------------------------------------------------------
(* What the queues promise.                                                *)

\* The queue q holds exactly the members of M, each once.
Lists(q, M) ==
    /\ \A i \in DOMAIN q : q[i] \in M
    /\ \A i, j \in DOMAIN q : q[i] = q[j] => i = j
    /\ \A c \in M : \E i \in DOMAIN q : q[i] = c

\* In terms of the flags fl of the callbacks: those on the active queue of
\* priority p, those on the active-later queue, and both together.
ActiveAt(fl, p) == {c \in Callbacks : "ACTIVE" \in fl[c] /\ evcb_pri[c] = p}
LaterSet(fl)    == {c \in Callbacks : "ACTIVE_LATER" \in fl[c]}
ActiveSet(fl)   == {c \in Callbacks : "ACTIVE" \in fl[c] \/ "ACTIVE_LATER" \in fl[c]}

\* event_base_assert_ok_nolock_: a callback is on the active queue of its
\* priority exactly when EVLIST_ACTIVE is set, on the active-later queue
\* exactly when EVLIST_ACTIVE_LATER is set, never on both and never twice.
QueuesMatchFlags(b) ==
    /\ \A p \in Priorities : Lists(b.activequeues[p], ActiveAt(b.flags, p))
    /\ Lists(b.active_later_queue, LaterSet(b.flags))
    /\ \A c \in Callbacks : ~(Has(b, c, "ACTIVE") /\ Has(b, c, "ACTIVE_LATER"))

\* The pairs of a callback and a flag that event_count counts.
CountedFlags     == {"TIMEOUT", "INSERTED", "ACTIVE", "ACTIVE_LATER"}
CountedPairs(fl) ==
    {cf \in (Callbacks \ Internal) \X CountedFlags : cf[2] \in fl[cf[1]]}

\* The two counters by which event_base_loop decides whether to block and
\* whether to return say what the flags say.
CountsMatchFlags(b) ==
    /\ b.event_count_active = Cardinality(ActiveSet(b.flags))
    /\ b.event_count = Cardinality(CountedPairs(b.flags))
=============================================================================
