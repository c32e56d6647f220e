---------------------------- MODULE WakeupProofs ----------------------------
(***************************************************************************)
(* Why the loop never sleeps through what another thread asked of it, past a*)
(* timeout, or with nothing left to wait for: the two invariants, and that *)
(* every step keeps them.                                                  *)
(***************************************************************************)
EXTENDS EventBaseProofs

----------------------------------------------------------------------------
(* The invariant.                                                          *)

\* Whose thread the loop is in, and when a queue is being run.
LoopPlaces ==
    /\ pc # "out" <=> running_loop
    /\ running_loop => th_owner_id \in Threads /\ thr[th_owner_id] = Idle
    /\ pc \notin RunningPcs \cup {"active", "queue"} => event_running_priority = -1

\* Between its decision and its sleep the loop holds the lock: what it decided
\* from still is so.
AboutToSleep ==
    pc = "later" =>
        /\ ~event_break /\ ~base.event_continue
        /\ base.event_count_active > 0 => tv = 0
        /\ \A e \in Timeouts(base) : tv = 0 \/ (tv > 0 /\ tv <= base.ev_timeout[e] - gettime)

\* But for the moment between the two halves of the drain, a pending
\* notification is one the loop will still read.
WakeInv ==
    /\ pc # "drained" => Told(base)
    /\ LoopPlaces
    /\ AboutToSleep
    /\ NoLostWakeup
    /\ TimersWake

\* What an operation of thread t has to do for the invariant.
ApiQuiet(t) ==
    /\ Alerts(base, base', t)
    /\ apiUnchanged /\ LockFree
    /\ running_loop /\ th_owner_id = t => pc = "callback"
    /\ running_loop /\ thr[th_owner_id] = Idle => thr'[th_owner_id] = Idle

\* It is enough.
LEMMA ApiWake ==
    ASSUME IInv, BaseOK(base'), WakeInv, NEW t \in Threads, ApiQuiet(t)
    PROVE  WakeInv'
<1>1. /\ pc' = pc /\ running_loop' = running_loop /\ th_owner_id' = th_owner_id
      /\ event_running_priority' = event_running_priority /\ event_break' = event_break
      /\ clock' = clock /\ deadline' = deadline /\ lag' = lag
    BY DEF ApiQuiet, apiUnchanged, ctlVars, termVars, timeVars, localVars
<1>2. pc # "drained" => Told(base')
    BY DEF ApiQuiet, Alerts, WakeInv
<1>3. LoopPlaces'
    BY <1>1 DEF ApiQuiet, WakeInv, LoopPlaces
<1>4. AboutToSleep'
    BY <1>1 DEF ApiQuiet, LockFree, AboutToSleep
<1>5. CASE pc = "dispatch"
    <2>1. /\ EVBASE_NEED_NOTIFY(t) /\ event_running_priority = -1 /\ Told(base)
        BY <1>5 DEF ApiQuiet, WakeInv, LoopPlaces, EVBASE_NEED_NOTIFY, RunningPcs
    <2>2. \/ base'.notify_fd
          \/ (Wanted(base') => Wanted(base)) /\ NoEarlier(base, base') /\ ~base.notify_fd
        BY <2>1 DEF ApiQuiet, Alerts
    <2>3. NoLostWakeup'
        BY <1>1, <2>2 DEF WakeInv, NoLostWakeup, N_ACTIVE_CALLBACKS, Wanted
    <2>4. TimersWake'
        <3>1. BaseOK(base) /\ deadline \in Int /\ lag \in Int
            BY DEF IInv, CtlOK, CtlType, LoopType
        <3>2. CASE base'.notify_fd
            BY <3>2 DEF TimersWake
        <3>3. CASE ~base'.notify_fd
            <4>1. NoEarlier(base, base') /\ ~base.notify_fd
                BY <2>2, <3>3
            <4>2. ASSUME NEW e \in Timeouts(base')
                  PROVE  deadline # NoTV
                         /\ (deadline <= clock \/ deadline <= base'.ev_timeout[e] + lag)
                <5>1. PICK o \in Timeouts(base) : base.ev_timeout[o] <= base'.ev_timeout[e]
                    BY <4>1 DEF NoEarlier
                <5>2. base.ev_timeout[o] \in Nat /\ base'.ev_timeout[e] \in Nat
                    BY <3>1, TimesNat
                <5>3. deadline # NoTV
                      /\ (deadline <= clock \/ deadline <= base.ev_timeout[o] + lag)
                    BY <1>5, <4>1 DEF WakeInv, TimersWake
                <5> QED BY <3>1, <5>1, <5>2, <5>3
            <4> QED BY <1>1, <4>2 DEF TimersWake
        <3> QED BY <3>2, <3>3
    <2> QED BY <1>1, <1>2, <1>3, <1>4, <2>3, <2>4 DEF WakeInv
<1>6. CASE pc # "dispatch"
    BY <1>1, <1>2, <1>3, <1>4, <1>6 DEF WakeInv, NoLostWakeup, TimersWake
<1> QED BY <1>5, <1>6

\* A call is made by another thread than the loop's, or from a callback.
LEMMA CallsQuiet ==
    ASSUME NEW t, NEW op, Calls(t, op)
    PROVE  LockFree /\ (running_loop /\ th_owner_id = t => pc = "callback")
BY DEF Calls, InUserCallback

\* Only a thread other than the loop's waits.
LEMMA WaitsQuiet ==
    ASSUME IInv, WakeInv, NEW t, NEW e, NEW op, NEW arg, MustWait(t, e),
           EVTHREAD_COND_WAIT(t, op, e, arg)
    PROVE  running_loop /\ thr[th_owner_id] = Idle => thr'[th_owner_id] = Idle
<1>1. th_owner_id # t
    BY DEF MustWait, EVBASE_IN_THREAD
<1>2. thr' = [thr EXCEPT ![t] = [op |-> op, ev |-> e, arg |-> arg, woken |-> FALSE]]
    BY DEF EVTHREAD_COND_WAIT
<1>3. running_loop => th_owner_id \in Threads
    BY DEF WakeInv, LoopPlaces
<1>4. thr \in [Threads -> [op: {"none", "event_add", "event_free", "event_active",
                                "event_finalize"} \cup DelOps,
                            ev: Events \cup {NULL}, arg: Int, woken: BOOLEAN]]
    BY DEF IInv, CtlOK, CtlType, CallType
<1> QED BY <1>1, <1>2, <1>3, <1>4, Zenon

\* The operations on an event.
LEMMA EventApiQuiet ==
    ASSUME IInv, WakeInv, NEW t \in Threads, NEW e \in Events, EventApi(t, e)
    PROVE  ApiQuiet(t)
<1>1. /\ BaseOK(base) /\ e \in EventStructs /\ e \in Callbacks /\ gettime \in Nat
    BY GettimeNat DEF IInv, EventStructs, Callbacks
<1>2. Alerts(base, base, t)
    BY <1>1, CalmSame, CalmIsAlert
<1>3. ASSUME NEW tv_ \in Intervals \cup {NoTV}, event_add(t, e, tv_)
      PROVE  ApiQuiet(t)
    <2>1. tv_ \in Nat \cup {NoTV} /\ apiUnchanged /\ Calls(t, "event_add")
        BY <1>3, BoundsAssumption, Zenon DEF event_add
    <2>2. CASE e \in SignalEvents /\ MustWait(t, e)
        <3>1. EVTHREAD_COND_WAIT(t, "event_add", e, tv_) /\ UNCHANGED base
            BY <1>3, <2>2, Zenon DEF event_add
        <3> QED BY <1>2, <2>1, <2>2, <3>1, CallsQuiet, WaitsQuiet, Zenon DEF ApiQuiet
    <2>3. CASE ~(e \in SignalEvents /\ MustWait(t, e))
        <3>1. PICK ok, hit : base' = event_add_nolock_(base, e, tv_, FALSE, ok, hit, t)
            BY <1>3, <2>3, Zenon DEF event_add
        <3>2. Alerts(base, base', t)
            BY <1>1, <2>1, <3>1, AddAlerts, Zenon
        <3>3. UNCHANGED thr
            BY <1>3, <2>3, Zenon DEF event_add
        <3> QED BY <2>1, <3>2, <3>3, CallsQuiet, Zenon DEF ApiQuiet
    <2> QED BY <2>2, <2>3
<1>4. ASSUME NEW op \in DelOps \cup {"event_free"}, event_del(t, e, op) \/ event_free(t, e),
             event_free(t, e) => op = "event_free"
      PROVE  ApiQuiet(t)
    <2>1. apiUnchanged /\ Calls(t, op)
        BY <1>4, Zenon DEF event_del, event_free
    <2>2. CASE DelWaits(t, e, op)
        <3>1. MustWait(t, e) /\ EVTHREAD_COND_WAIT(t, op, e, 0) /\ UNCHANGED base
            BY <1>4, <2>2, Zenon DEF event_del, event_free, DelWaits
        <3> QED BY <1>2, <2>1, <3>1, CallsQuiet, WaitsQuiet, Zenon DEF ApiQuiet
    <2>3. CASE ~DelWaits(t, e, op)
        <3>1. PICK ok, hit : base' = event_del_nolock_(base, e, ok, hit, t)
            BY <1>4, <2>3, Zenon DEF event_del, event_free
        <3>2. Alerts(base, base', t)
            BY <1>1, <3>1, DelAlerts, Zenon
        <3>3. UNCHANGED thr
            BY <1>4, <2>3, Zenon DEF event_del, event_free
        <3> QED BY <2>1, <3>2, <3>3, CallsQuiet, Zenon DEF ApiQuiet
    <2> QED BY <2>2, <2>3
<1>5. ASSUME NEW timeout \in BOOLEAN, NEW n \in Nat, event_active(t, e, timeout, n)
      PROVE  ApiQuiet(t)
    <2> DEFINE waits == e \in SignalEvents /\ MustWait(t, e) /\ ~Has(base, e, "ACTIVE")
    <2>1. apiUnchanged /\ Calls(t, "event_active")
        BY <1>5, Zenon DEF event_active
    <2>2. CASE waits
        <3>1. /\ EVTHREAD_COND_WAIT(t, "event_active", e, n)
              /\ base' = event_active_enter(base, e, timeout)
            BY <1>5, <2>2 DEF event_active
        <3>2. Alerts(base, base', t)
            BY <1>1, <3>1, EnterAlerts
        <3> QED BY <2>1, <2>2, <3>1, <3>2, CallsQuiet, WaitsQuiet, Zenon DEF ApiQuiet
    <2>3. CASE ~waits
        <3>1. /\ base' = event_active_nolock_(base, e, timeout, n, t) /\ UNCHANGED thr
            BY <1>5, <2>3 DEF event_active
        <3>2. Alerts(base, base', t)
            BY <1>1, <3>1, ActiveAlerts
        <3> QED BY <2>1, <3>1, <3>2, CallsQuiet, Zenon DEF ApiQuiet
    <2> QED BY <2>2, <2>3
<1>6. ASSUME event_active_later_(t, e)
      PROVE  ApiQuiet(t)
    <2> DEFINE r == [base EXCEPT !.res_timeout[e] = FALSE]
               b == IF IsActive(base, e) THEN base ELSE r
    <2>1. r \in event_base /\ Assigned(base, r)
        BY <1>1, Zenon DEF BaseOK, event_base, Assigned
    <2>2. /\ r.flags = base.flags /\ r.ev_timeout = base.ev_timeout /\ Unseen(base, r)
          /\ r.event_count_active = base.event_count_active
        BY <1>1 DEF BaseOK, event_base, Unseen
    <2>3. BaseOK(r)
        BY <1>1, <2>1, AssignedOK
    <2> HIDE DEF r
    <2>4. Calm(base, r)
        BY <2>2 DEF Calm, Unseen, Timeouts, Has
    <2>5. BaseOK(b) /\ Calm(base, b)
        BY <1>1, <2>3, <2>4, CalmSame
    <2>6. /\ base' = event_callback_activate_later_nolock_(b, e, t) /\ UNCHANGED thr
          /\ apiUnchanged /\ Calls(t, "event_active_later_")
        BY <1>6 DEF event_active_later_, r
    <2> HIDE DEF b
    <2>7. Alerts(b, base', t)
        BY <1>1, <2>5, <2>6, LaterAlerts
    <2>8. Alerts(base, base', t)
        BY <1>1, <2>5, <2>7, CalmAlerts
    <2> QED BY <2>6, <2>8, CallsQuiet, Zenon DEF ApiQuiet
<1>7. ASSUME NEW closure \in {"EVENT_FINALIZE", "EVENT_FINALIZE_FREE"},
             event_finalize(t, e, closure)
      PROVE  ApiQuiet(t)
    <2> DEFINE waits == e \in SignalEvents /\ MustWait(t, e) /\ ~Has(base, e, "FINALIZING")
    <2>1. PICK ok, hit :
            LET b == event_finalize_enter(base, e, closure, ok, hit, t)
            IN  \/ /\ waits
                   /\ EVTHREAD_COND_WAIT(t, "event_finalize", e, 0)
                   /\ base' = b
                \/ /\ ~waits
                   /\ base' = IF Has(base, e, "FINALIZING") THEN b
                              ELSE event_finalize_finish(b, e, t)
                   /\ UNCHANGED <<thr, current_event_waiters>>
        BY <1>7 DEF event_finalize
    <2> DEFINE b == event_finalize_enter(base, e, closure, ok, hit, t)
               f == event_finalize_finish(b, e, t)
    <2>2. BaseOK(b) /\ Alerts(base, b, t)
        BY <1>1, FinalizeEnter, FinalizeEnterAlerts DEF Finalizers
    <2>3. apiUnchanged /\ Calls(t, "event_finalize")
        BY <1>7 DEF event_finalize
    <2> HIDE DEF b
    <2>4. BaseOK(f) /\ Alerts(b, f, t)
        BY <2>2, FinalizeFinish, FinalizeFinishAlerts
    <2> HIDE DEF f
    <2>5. Alerts(base, f, t)
        BY <1>1, <2>2, <2>4, AlertsTwice
    <2>6. Alerts(base, base', t)
        BY <2>1, <2>2, <2>5, Zenon DEF b, f
    <2>7. running_loop /\ thr[th_owner_id] = Idle => thr'[th_owner_id] = Idle
        <3>1. \/ MustWait(t, e) /\ EVTHREAD_COND_WAIT(t, "event_finalize", e, 0)
              \/ UNCHANGED thr
            BY <2>1, Zenon
        <3> QED BY <3>1, WaitsQuiet, Zenon
    <2> QED BY <2>3, <2>6, <2>7, CallsQuiet, Zenon DEF ApiQuiet
<1>8. ASSUME event_remove_timer(t, e)
      PROVE  ApiQuiet(t)
    <2> DEFINE b == event_queue_remove_timeout(base, e)
               s == [b EXCEPT !.ev_ncalls[e] = 0, !.ev_pncalls[e] = "NULL"]
               i == [b EXCEPT !.ev_io_timeout[e] = 0]
    <2>1. /\ Has(base, e, "TIMEOUT")
          /\ base' = IF e \in SignalEvents THEN s ELSE i
          /\ UNCHANGED thr /\ apiUnchanged /\ Calls(t, "event_remove_timer")
        BY <1>8 DEF event_remove_timer
    <2>2. BaseOK(b) /\ Calm(base, b)
        BY <1>1, <2>1, RemoveTimeout, RemovesCalm
    <2> HIDE DEF b
    <2>3. s \in event_base /\ i \in event_base
        BY <1>1, <2>2, Zenon DEF BaseOK, event_base
    <2>4. Assigned(b, s) /\ Assigned(b, i)
        BY <2>2 DEF BaseOK, event_base, Assigned
    <2>5. /\ s.flags = b.flags /\ s.ev_timeout = b.ev_timeout /\ Unseen(b, s)
          /\ s.event_count_active = b.event_count_active
          /\ i.flags = b.flags /\ i.ev_timeout = b.ev_timeout /\ Unseen(b, i)
          /\ i.event_count_active = b.event_count_active
        BY <2>2 DEF BaseOK, event_base, Unseen
    <2> HIDE DEF s, i
    <2>6. Calm(b, s) /\ Calm(b, i)
        BY <2>5 DEF Calm, Unseen, Timeouts, Has
    <2>7. BaseOK(base') /\ Calm(base, base')
        BY <2>1, <2>2, <2>3, <2>4, <2>6, AssignedOK, CalmTwice
    <2>8. Alerts(base, base', t)
        BY <1>1, <2>7, CalmIsAlert
    <2> QED BY <2>1, <2>8, CallsQuiet, Zenon DEF ApiQuiet
<1>9. QED
    <2>1. \A n : n \in (IF e \in SignalEvents THEN 1 .. MaxNcalls ELSE {1}) => n \in Nat
        BY BoundsAssumption
    <2>2. ActiveRes \subseteq BOOLEAN
        BY Zenon DEF ActiveRes
    <2>3. CASE event_free(t, e)
        BY <1>4, <2>3
    <2>4. CASE ~event_free(t, e)
        <3>1. ASSUME NEW op \in DelOps, event_del(t, e, op) PROVE ApiQuiet(t)
            BY <1>4, <2>4, <3>1
        <3> QED BY <1>3, <3>1, <1>5, <1>6, <1>7, <1>8, <2>1, <2>2, <2>4 DEF EventApi
    <2> QED BY <2>3, <2>4

\* The operations on a deferred callback.
LEMMA DeferredApiQuiet ==
    ASSUME IInv, NEW t \in Threads, NEW c \in Deferreds, DeferredApi(t, c)
    PROVE  ApiQuiet(t)
<1>1. BaseOK(base) /\ c \in Callbacks
    BY DEF IInv, Callbacks
<1>2. UNCHANGED thr /\ apiUnchanged /\ \E op : Calls(t, op)
    BY DEF DeferredApi, event_deferred_cb_schedule_, event_deferred_cb_cancel_,
           event_callback_finalize_
<1>3. CASE event_deferred_cb_schedule_(t, c)
    <2> DEFINE b == event_callback_activate_nolock_(base, c, t)
               n == b.n_deferreds_queued + 1
               r == [b EXCEPT !.n_deferreds_queued = n]
    <2>1. \/ base' = event_callback_activate_later_nolock_(base, c, t)
          \/ base' = b \/ base' = r
        BY <1>3 DEF event_deferred_cb_schedule_
    <2>2. /\ Alerts(base, event_callback_activate_later_nolock_(base, c, t), t)
          /\ Alerts(base, b, t) /\ BaseOK(b)
        BY <1>1, Activate, ActivateAlerts, LaterAlerts
    <2> HIDE DEF b
    <2>3. r \in event_base /\ Assigned(b, r)
        <3>1. n \in Nat
            BY <2>2 DEF BaseOK, event_base
        <3> HIDE DEF n
        <3> QED BY <2>2, <3>1, Zenon DEF BaseOK, event_base, Assigned
    <2>4. /\ r.flags = b.flags /\ r.ev_timeout = b.ev_timeout /\ Unseen(b, r)
          /\ r.event_count_active = b.event_count_active
        BY <2>2 DEF BaseOK, event_base, Unseen
    <2> HIDE DEF r
    <2>5. BaseOK(r) /\ Calm(b, r)
        <3>1. BaseOK(r)
            BY <2>2, <2>3, AssignedOK
        <3>2. Calm(b, r)
            BY <2>4 DEF Calm, Unseen, Timeouts, Has
        <3> QED BY <3>1, <3>2
    <2>6. Alerts(base, r, t)
        BY <1>1, <2>2, <2>5, CalmIsAlert, AlertsTwice
    <2> QED BY <1>2, <2>1, <2>2, <2>6, CallsQuiet, Zenon DEF ApiQuiet
<1>4. CASE event_deferred_cb_cancel_(t, c)
    <2>1. base' = event_callback_cancel_nolock_(base, c)
        BY <1>4 DEF event_deferred_cb_cancel_
    <2>2. Alerts(base, base', t)
        BY <1>1, <2>1, CallbackCancel, CancelCalm, CalmIsAlert
    <2> QED BY <1>2, <2>2, CallsQuiet, Zenon DEF ApiQuiet
<1>5. CASE event_callback_finalize_(t, c)
    <2>1. Alerts(base, base', t)
        BY <1>1, <1>5, CallbackFinalizeAlerts DEF event_callback_finalize_
    <2> QED BY <1>2, <2>1, CallsQuiet, Zenon DEF ApiQuiet
<1> QED BY <1>3, <1>4, <1>5 DEF DeferredApi

\* The operations on the base, but for event_base_loopbreak.
LEMMA BaseApiQuiet ==
    ASSUME IInv, NEW t \in Threads, BaseApi(t), ~event_base_loopbreak(t)
    PROVE  ApiQuiet(t)
<1>1. BaseOK(base) /\ gettime \in Nat
    BY GettimeNat DEF IInv
<1>2. UNCHANGED thr /\ apiUnchanged /\ \E op : Calls(t, op)
    BY Zenon DEF BaseApi, event_base_loopcontinue, event_base_loopexit, event_base_add_virtual_,
           event_base_del_virtual_
<1>3. ASSUME Alerts(base, base', t) PROVE ApiQuiet(t)
    BY <1>2, <1>3, CallsQuiet, Zenon DEF ApiQuiet
<1>4. CASE event_base_loopcontinue(t)
    <2> DEFINE r == [base EXCEPT !.event_continue = TRUE]
    <2>1. r \in event_base /\ Assigned(base, r)
        BY <1>1, Zenon DEF BaseOK, event_base, Assigned
    <2>2. BaseOK(r)
        BY <1>1, <2>1, AssignedOK
    <2>3. r.is_notify_pending = base.is_notify_pending /\ r.notify_fd = base.notify_fd
        BY <1>1 DEF BaseOK, event_base
    <2> HIDE DEF r
    <2>4. Alerts(base, NotifyIf(r, TRUE, t), t)
        BY <2>2, <2>3, NotifyNeeded, Zenon
    <2> QED BY <1>3, <1>4, <2>4, Zenon DEF event_base_loopcontinue, r
<1>5. ASSUME NEW e \in LoopExits, NEW tv_ \in Intervals \cup {NoTV},
             event_base_loopexit(t, e, tv_)
      PROVE  ApiQuiet(t)
    <2>1. e \in EventStructs
        BY ThreadsAssumption DEF EventStructs, Events
    <2>2. tv_ \in Nat \cup {NoTV}
        BY BoundsAssumption
    <2>3. Alerts(base, event_active_nolock_(base, e, TRUE, 1, t), t)
        BY <1>1, <2>1, ActiveAlerts, Zenon
    <2>4. Alerts(base, event_add_nolock_(base, e, tv_, FALSE, TRUE, TRUE, t), t)
        BY <1>1, <2>1, <2>2, AddAlerts, Zenon
    <2> QED BY <1>3, <1>5, <2>3, <2>4, Zenon DEF event_base_loopexit
<1>6. CASE event_base_add_virtual_(t)
    <2> DEFINE n == base.virtual_event_count + 1
               r == [base EXCEPT !.virtual_event_count = n]
    <2>1. r \in event_base /\ Assigned(base, r)
        <3>1. n \in Nat
            BY <1>1 DEF BaseOK, event_base
        <3> HIDE DEF n
        <3> QED BY <1>1, <3>1, Zenon DEF BaseOK, event_base, Assigned
    <2>2. /\ r.flags = base.flags /\ r.ev_timeout = base.ev_timeout
          /\ r.event_continue = base.event_continue
          /\ r.is_notify_pending = base.is_notify_pending /\ r.notify_fd = base.notify_fd
          /\ r.event_count_active = base.event_count_active
        BY <1>1 DEF BaseOK, event_base
    <2>3. base' = r
        BY <1>6 DEF event_base_add_virtual_
    <2> HIDE DEF r
    <2>4. BaseOK(r) /\ Calm(base, r)
        <3>1. BaseOK(r)
            BY <1>1, <2>1, AssignedOK
        <3>2. Calm(base, r)
            BY <2>2 DEF Calm, Timeouts, Has
        <3> QED BY <3>1, <3>2
    <2> QED BY <1>1, <1>3, <2>3, <2>4, CalmIsAlert
<1>7. CASE event_base_del_virtual_(t)
    <2> DEFINE n == base.virtual_event_count - 1
               r == [base EXCEPT !.virtual_event_count = n]
               need == base.virtual_event_count = 1
    <2>1. r \in event_base /\ Assigned(base, r)
        <3>1. n \in Nat
            BY <1>1, <1>7 DEF BaseOK, event_base, event_base_del_virtual_
        <3> HIDE DEF n
        <3> QED BY <1>1, <3>1, Zenon DEF BaseOK, event_base, Assigned
    <2>2. /\ r.flags = base.flags /\ r.ev_timeout = base.ev_timeout
          /\ r.event_continue = base.event_continue
          /\ r.is_notify_pending = base.is_notify_pending /\ r.notify_fd = base.notify_fd
          /\ r.event_count_active = base.event_count_active
        BY <1>1 DEF BaseOK, event_base
    <2>3. base' = NotifyIf(r, need, t)
        BY <1>7 DEF event_base_del_virtual_
    <2> HIDE DEF r, need
    <2>4. BaseOK(r) /\ Calm(base, r)
        <3>1. BaseOK(r)
            BY <1>1, <2>1, AssignedOK
        <3>2. Calm(base, r)
            BY <2>2 DEF Calm, Timeouts, Has
        <3> QED BY <3>1, <3>2
    <2> QED BY <1>1, <1>3, <2>3, <2>4, NotifyAfterCalm
<1> QED BY <1>4, <1>5, <1>6, <1>7 DEF BaseApi

\* event_base_loopbreak tells the loop.
LEMMA BreakWake ==
    ASSUME IInv, WakeInv, NEW t \in Threads, event_base_loopbreak(t)
    PROVE  WakeInv'
<1>1. BaseOK(base) /\ base' = NotifyIf(base, TRUE, t) /\ Calls(t, "event_base_loopbreak")
    BY Zenon DEF IInv, event_base_loopbreak
<1>2. /\ pc' = pc /\ running_loop' = running_loop /\ th_owner_id' = th_owner_id
      /\ event_running_priority' = event_running_priority /\ thr' = thr
    BY Zenon DEF event_base_loopbreak, ctlVars, curVars, timeVars, localVars, userVars
<1>3. LockFree /\ (running_loop /\ th_owner_id = t => pc = "callback")
    BY <1>1, CallsQuiet
<1>4. /\ Told(base) => Told(base')
      /\ EVBASE_NEED_NOTIFY(t) /\ Told(base) => base'.notify_fd
    BY <1>1, NotifyAlerts, Zenon
<1>5. LoopPlaces'
    BY <1>2 DEF WakeInv, LoopPlaces
<1>6. AboutToSleep'
    BY <1>2, <1>3 DEF LockFree, AboutToSleep
<1>7. pc = "dispatch" => base'.notify_fd
    BY <1>3, <1>4 DEF WakeInv, LoopPlaces, EVBASE_NEED_NOTIFY
<1> QED BY <1>2, <1>4, <1>5, <1>6, <1>7 DEF WakeInv, NoLostWakeup, TimersWake

\* The rest of a call that had to wait.
LEMMA ResumeQuiet ==
    ASSUME IInv, WakeInv, NEW t \in Threads, Resume(t)
    PROVE  ApiQuiet(t)
<1> DEFINE e == thr[t].ev
           op == thr[t].op
<1>1. /\ BaseOK(base) /\ gettime \in Nat
      /\ thr' = [thr EXCEPT ![t] = Idle] /\ LockFree
      /\ UNCHANGED current_event_waiters /\ apiUnchanged
    BY GettimeNat DEF IInv, Resume
<1>2. thr[t] # Idle
    BY DEF Resume, Idle
<1>3. /\ e \in Events /\ e \in EventStructs /\ e \in Callbacks
      /\ op = "event_add" => thr[t].arg \in Nat \cup {NoTV}
      /\ op = "event_active" => thr[t].arg \in Nat
    BY <1>2 DEF IInv, CtlOK, ThrOK, EventStructs, Callbacks
<1>4. PICK ok, hit :
         \/ /\ op = "event_add"
            /\ base' = event_add_nolock_(base, e, thr[t].arg, FALSE, ok, hit, t)
         \/ base' = event_del_nolock_(base, e, ok, hit, t)
         \/ /\ op = "event_active"
            /\ base' = event_active_finish(base, e, thr[t].arg, t)
         \/ base' = event_finalize_finish(base, e, t)
    BY Zenon DEF Resume
<1> HIDE DEF e, op
<1>5. Alerts(base, base', t)
    <2>1. CASE base' = event_add_nolock_(base, e, thr[t].arg, FALSE, ok, hit, t) /\ op = "event_add"
        BY <1>1, <1>3, <2>1, AddAlerts, Zenon
    <2>2. CASE base' = event_del_nolock_(base, e, ok, hit, t)
        BY <1>1, <1>3, <2>2, DelAlerts
    <2>3. CASE base' = event_active_finish(base, e, thr[t].arg, t) /\ op = "event_active"
        BY <1>1, <1>3, <2>3, FinishAlerts
    <2>4. CASE base' = event_finalize_finish(base, e, t)
        BY <1>1, <1>3, <2>4, FinalizeFinishAlerts
    <2> QED BY <1>4, <2>1, <2>2, <2>3, <2>4, Zenon
<1>6. running_loop => th_owner_id # t /\ th_owner_id \in Threads
    BY <1>2 DEF WakeInv, LoopPlaces
<1>7. running_loop /\ thr[th_owner_id] = Idle => thr'[th_owner_id] = Idle
    <2>1. thr \in [Threads -> [op: {"none", "event_add", "event_free", "event_active",
                                    "event_finalize"} \cup DelOps,
                                ev: Events \cup {NULL}, arg: Int, woken: BOOLEAN]]
        BY DEF IInv, CtlOK, CtlType, CallType
    <2> QED BY <1>1, <1>6, <2>1, Zenon
<1> QED BY <1>1, <1>5, <1>6, <1>7, Zenon DEF ApiQuiet

----------------------------------------------------------------------------
(* The steps of the loop.                                                  *)

\* A step of the loop that does not lead to a sleep.
LEMMA LoopWake ==
    ASSUME LoopPlaces', pc' \notin {"later", "dispatch"}, pc' # "drained" => Told(base')
    PROVE  WakeInv'
BY DEF WakeInv, AboutToSleep, NoLostWakeup, TimersWake

\* The loop stays in its thread ...
LEMMA LoopStays ==
    ASSUME LoopPlaces, pc # "out", pc' # "out", UNCHANGED <<running_loop, th_owner_id, thr>>,
           pc' \notin RunningPcs \cup {"active", "queue"} => event_running_priority' = -1
    PROVE  LoopPlaces'
BY DEF LoopPlaces

\* ... or returns.
LEMMA LoopLeaves ==
    ASSUME loop_returns, event_running_priority' = -1
    PROVE  LoopPlaces'
BY DEF LoopPlaces, loop_returns

\* event_process_active, or event_process_active_single_queue, returns.
LEMMA ReturnsPlaces ==
    ASSUME LoopPlaces, pc # "out", UNCHANGED thr, NEW b, NEW n, NEW cache,
           process_active_returns(b, n, cache) \/ single_queue_returns(b, cache)
    PROVE  LoopPlaces' /\ pc' \in {"out", "top", "active"}
<1>1. ASSUME NEW k, process_active_returns(b, k, cache)
      PROVE  LoopPlaces' /\ pc' \in {"out", "top"}
    <2>1. event_running_priority' = -1 /\ loop_turn_ends(b, k, cache)
        BY <1>1 DEF process_active_returns
    <2>2. CASE loop_returns
        BY <2>1, <2>2, LoopLeaves, Zenon DEF loop_returns
    <2>3. CASE pc' = "top" /\ UNCHANGED <<running_loop, th_owner_id>>
        BY <2>1, <2>3, LoopStays
    <2> QED BY <2>1, <2>2, <2>3 DEF loop_turn_ends
<1>2. CASE /\ pc' = "active" /\ UNCHANGED ctlVars
    BY <1>2, LoopStays DEF ctlVars
<1> QED BY <1>1, <1>2 DEF single_queue_returns

\* The head of the loop.
LEMMA TopWake ==
    ASSUME IInv, WakeInv, loop_terminated \/ loop_empty \/ loop_goes_on
    PROVE  WakeInv'
<1>1. BaseOK(base) /\ base' = loop_head_base /\ pc = "top" /\ LoopPlaces /\ Told(base)
      /\ UNCHANGED thr
    BY DEF IInv, WakeInv, loop_terminated, loop_empty, loop_goes_on, userVars
<1>2. /\ base'.is_notify_pending = base.is_notify_pending /\ base'.notify_fd = base.notify_fd
      /\ base'.flags = base.flags /\ base'.ev_timeout = base.ev_timeout
      /\ base'.event_count_active = base.event_count_active /\ base'.event_continue = FALSE
    BY <1>1 DEF BaseOK, event_base, loop_head_base
<1>3. Told(base')
    BY <1>1, <1>2 DEF Told
<1>4. event_running_priority = -1
    BY <1>1 DEF LoopPlaces, RunningPcs
<1>5. CASE loop_terminated \/ loop_empty
    <2>1. loop_returns /\ event_running_priority' = -1
        BY <1>4, <1>5 DEF loop_terminated, loop_empty
    <2> QED BY <1>3, <2>1, LoopLeaves, LoopWake, Zenon DEF loop_returns
<1>6. CASE loop_goes_on
    <2>1. /\ ~event_break /\ pc' = "later" /\ UNCHANGED <<ctlVars, termVars, timeVars>>
          /\ IF N_ACTIVE_CALLBACKS(base) = 0 /\ "NONBLOCK" \notin lflags
             THEN timeout_next(base, tv') ELSE tv' = 0
        BY <1>6 DEF loop_goes_on
    <2>2. LoopPlaces'
        BY <1>1, <1>4, <2>1, LoopStays DEF ctlVars
    <2>3. gettime' = gettime /\ gettime \in Nat /\ ~event_break'
        BY <2>1, GettimeNat DEF gettime, timeVars, termVars
    <2>4. base'.event_count_active > 0 => tv' = 0
        BY <1>1, <1>2, <2>1, TimesNat DEF N_ACTIVE_CALLBACKS
    <2>5. ASSUME NEW e \in Timeouts(base')
          PROVE  tv' = 0 \/ (tv' > 0 /\ tv' <= base'.ev_timeout[e] - gettime)
        <3>1. e \in Timeouts(base) /\ base.ev_timeout[e] = base'.ev_timeout[e]
            BY <1>2 DEF Timeouts, Has
        <3>2. CASE timeout_next(base, tv')
            <4>1. PICK o \in min_heap_top_(base) :
                    tv' = IF base.ev_timeout[o] <= gettime THEN 0
                          ELSE base.ev_timeout[o] - gettime
                BY <3>1, <3>2 DEF timeout_next
            <4>2. /\ base.ev_timeout[o] <= base.ev_timeout[e]
                  /\ base.ev_timeout[o] \in Nat /\ base.ev_timeout[e] \in Nat
                BY <1>1, <3>1, TimesNat DEF min_heap_top_
            <4> QED BY <2>3, <3>1, <4>1, <4>2
        <3> QED BY <2>1, <3>2
    <2>6. AboutToSleep'
        BY <1>2, <2>3, <2>4, <2>5 DEF AboutToSleep
    <2> QED BY <1>3, <2>1, <2>2, <2>6 DEF WakeInv, NoLostWakeup, TimersWake
<1> QED BY <1>5, <1>6

\* The active-later queue is emptied, and the loop goes to sleep.
LEMMA SleepWake ==
    ASSUME IInv, WakeInv, event_queue_make_later_events_active \/ dispatch
    PROVE  WakeInv'
<1>1. BaseOK(base) /\ LoopPlaces /\ pc = "later" /\ AboutToSleep /\ Told(base)
    BY DEF IInv, WakeInv, event_queue_make_later_events_active, dispatch
<1>2. CASE event_queue_make_later_events_active
    <2>1. /\ base' = make_later_event_active(base) /\ base.active_later_queue # << >>
          /\ UNCHANGED <<pc, running_loop, th_owner_id, event_running_priority, thr, tv,
                         event_break, tv_cache, clock>>
        BY <1>2, Zenon DEF event_queue_make_later_events_active, ctlVars, termVars, timeVars,
                           localVars, userVars
    <2>2. /\ base'.is_notify_pending = base.is_notify_pending
          /\ base'.notify_fd = base.notify_fd /\ base'.ev_timeout = base.ev_timeout
          /\ base'.event_count_active = base.event_count_active
          /\ base'.event_continue = base.event_continue
          /\ \E c : base'.flags = [base.flags EXCEPT
                                     ![c] = (@ \ {"ACTIVE_LATER"}) \cup {"ACTIVE"}]
        BY <1>1, <2>1, Zenon DEF BaseOK, event_base, make_later_event_active
    <2>3. Timeouts(base') = Timeouts(base)
        <3>1. base.flags \in [Callbacks -> SUBSET EVLIST]
            BY <1>1 DEF BaseOK, event_base
        <3> QED BY <2>2, <3>1 DEF Timeouts, Has, Callbacks
    <2>4. LoopPlaces' /\ Told(base')
        BY <1>1, <2>1, <2>2 DEF LoopPlaces, Told
    <2>5. gettime' = gettime
        BY <2>1 DEF gettime
    <2>6. AboutToSleep'
        BY <1>1, <2>1, <2>2, <2>3, <2>5 DEF AboutToSleep
    <2> QED BY <1>1, <2>1, <2>4, <2>6 DEF WakeInv, NoLostWakeup, TimersWake
<1>3. CASE dispatch
    <2>1. /\ deadline' = IF tv = NoTV THEN NoTV ELSE clock + tv
          /\ lag' = clock - gettime /\ pc' = "dispatch" /\ clock' = clock
          /\ UNCHANGED <<base, running_loop, th_owner_id, event_running_priority, thr,
                         event_break>>
        BY <1>3, Zenon DEF dispatch, ctlVars, termVars, userVars
    <2>2. gettime \in Nat /\ clock \in Nat /\ tv \in Int /\ base.event_count_active \in Int
        BY <1>1, GettimeNat, TimesNat DEF IInv, CtlOK, CtlType, LoopType, CallType
    <2>3. LoopPlaces' /\ AboutToSleep' /\ Told(base')
        BY <1>1, <2>1, LoopStays DEF AboutToSleep, LoopPlaces, RunningPcs
    <2>4. NoLostWakeup'
        <3>1. base.event_count_active > 0 => deadline' = clock /\ deadline' # NoTV
            BY <1>1, <2>1, <2>2 DEF AboutToSleep, NoTV
        <3> QED BY <1>1, <2>1, <2>2, <3>1 DEF NoLostWakeup, N_ACTIVE_CALLBACKS, AboutToSleep
    <2>5. TimersWake'
        <3>1. ASSUME NEW e \in Timeouts(base)
              PROVE  deadline' # NoTV
                     /\ (deadline' <= clock \/ deadline' <= base.ev_timeout[e] + lag')
            <4>1. base.ev_timeout[e] \in Nat
                BY <1>1, TimesNat
            <4>2. tv = 0 \/ (tv > 0 /\ tv <= base.ev_timeout[e] - gettime)
                BY <1>1 DEF AboutToSleep
            <4> QED BY <2>1, <2>2, <4>1, <4>2 DEF NoTV
        <3> QED BY <2>1, <3>1 DEF TimersWake
    <2> QED BY <2>3, <2>4, <2>5 DEF WakeInv
<1> QED BY <1>2, <1>3

\* The backend has returned; descriptors and timeouts are made active.
LEMMA PollWake ==
    ASSUME IInv, WakeInv,
           \/ epoll_wait_returns \/ dispatch_fails \/ dispatch_locks
           \/ evmap_io_active_ \/ dispatch_returns \/ timeout_process
    PROVE  WakeInv'
<1>1. BaseOK(base) /\ LoopPlaces /\ Told(base)
      /\ pc \in {"dispatch", "polled", "events", "timeouts"} /\ UNCHANGED thr
    BY Zenon DEF IInv, WakeInv, epoll_wait_returns, dispatch_fails, dispatch_locks,
           evmap_io_active_, dispatch_returns, timeout_process, userVars
<1>2. event_running_priority = -1
    BY <1>1 DEF LoopPlaces, RunningPcs
<1>3. CASE dispatch_fails
    <2>1. loop_returns /\ event_running_priority' = -1 /\ base' = base
        BY <1>2, <1>3 DEF dispatch_fails
    <2> QED BY <1>1, <2>1, LoopLeaves, LoopWake, Zenon DEF loop_returns
<1>4. CASE ~dispatch_fails
    <2>1. /\ UNCHANGED ctlVars /\ pc' \in {"polled", "events", "timeouts"}
        BY <1>4, Zenon DEF epoll_wait_returns, dispatch_locks, evmap_io_active_,
                           dispatch_returns, timeout_process
    <2>2. LoopPlaces'
        BY <1>1, <1>2, <2>1, LoopStays DEF ctlVars
    <2>3. Told(base')
        <3>1. CASE epoll_wait_returns \/ dispatch_locks \/ dispatch_returns
            BY <1>1, <3>1 DEF epoll_wait_returns, dispatch_locks, dispatch_returns
        <3>2. CASE evmap_io_active_
            <4>1. PICK e \in IoEvents \cup Internal :
                     base' = event_active_nolock_(base, e, FALSE, 1, th_owner_id)
                BY <3>2, Zenon DEF evmap_io_active_, ToActivate
            <4>2. e \in EventStructs
                BY DEF EventStructs, Events
            <4>3. Alerts(base, base', th_owner_id)
                BY <1>1, <4>1, <4>2, ActiveAlerts, Zenon
            <4> QED BY <1>1, <4>3 DEF Alerts
        <3>3. CASE timeout_process
            <4>1. PICK e \in EventStructs :
                     base' = IF Has(base, e, "FINALIZING") THEN base
                             ELSE event_active_nolock_(
                                    event_del_nolock_(base, e, TRUE, TRUE, th_owner_id),
                                    e, TRUE, 1, th_owner_id)
                BY <3>3, Zenon DEF timeout_process, Elapsed, min_heap_top_, Timeouts
            <4> DEFINE b == event_del_nolock_(base, e, TRUE, TRUE, th_owner_id)
                       r == event_active_nolock_(b, e, TRUE, 1, th_owner_id)
            <4>2. BaseOK(b) /\ Alerts(base, b, th_owner_id)
                BY <1>1, DelNolock, DelAlerts, Zenon
            <4> HIDE DEF b
            <4>3. Alerts(b, r, th_owner_id)
                BY <4>2, ActiveAlerts, Zenon
            <4> HIDE DEF r
            <4>4. Told(r)
                BY <1>1, <4>2, <4>3 DEF Alerts
            <4> QED BY <1>1, <4>1, <4>4, Zenon DEF b, r
        <3> QED BY <1>4, <3>1, <3>2, <3>3
    <2> QED BY <2>1, <2>2, <2>3, LoopWake
<1> QED BY <1>3, <1>4

\* event_process_active begins, chooses a queue, and ends.
LEMMA ProcessWake ==
    ASSUME IInv, WakeInv,
           \/ process_active_begins \/ nothing_active
           \/ process_active_queue \/ process_active_ends \/ queue_empty
    PROVE  WakeInv'
<1>1. LoopPlaces /\ Told(base) /\ base' = base /\ pc \in {"timeouts", "active", "queue"}
      /\ UNCHANGED thr
    BY Zenon DEF WakeInv, process_active_begins, nothing_active, process_active_queue,
           process_active_ends, queue_empty, userVars
<1>2. CASE process_active_begins
    <2>1. pc' = "active" /\ UNCHANGED ctlVars
        BY <1>2, Zenon DEF process_active_begins
    <2> QED BY <1>1, <2>1, LoopStays, LoopWake DEF ctlVars
<1>3. CASE nothing_active
    <2>1. event_running_priority' = -1
        BY <1>3 DEF nothing_active, WakeInv, LoopPlaces, RunningPcs
    <2>2. CASE loop_returns
        BY <1>1, <2>1, <2>2, LoopLeaves, LoopWake, Zenon DEF loop_returns
    <2>3. CASE pc' = "top" /\ UNCHANGED <<running_loop, th_owner_id>>
        BY <1>1, <2>1, <2>3, LoopStays, LoopWake
    <2> QED BY <1>3, <2>2, <2>3 DEF nothing_active
<1>4. CASE process_active_queue
    <2>1. pc' = "queue" /\ UNCHANGED <<running_loop, th_owner_id>>
        BY <1>4, Zenon DEF process_active_queue
    <2> QED BY <1>1, <2>1, LoopStays, LoopWake
<1>5. CASE process_active_ends \/ queue_empty
    <2>1. LoopPlaces' /\ pc' \in {"out", "top", "active"}
        BY <1>1, <1>5, ReturnsPlaces, SMTT(30) DEF process_active_ends, queue_empty
    <2> QED BY <1>1, <2>1, LoopWake
<1> QED BY <1>2, <1>3, <1>4, <1>5

\* signal_turn and the end of event_signal_closure do not touch the notification.
LEMMA SignalTold ==
    ASSUME NEW b, NEW e, BaseOK(b)
    PROVE  /\ Told(signal_turn(b, e)) <=> Told(b)
           /\ Told(event_signal_closure(b, e)) <=> Told(b)
           /\ Told(signal_closure_returns(b, e)) <=> Told(b)
<1>1. /\ signal_turn(b, e).is_notify_pending = b.is_notify_pending
      /\ signal_turn(b, e).notify_fd = b.notify_fd
    BY DEF BaseOK, event_base, signal_turn
<1>2. /\ event_signal_closure(b, e).is_notify_pending = b.is_notify_pending
      /\ event_signal_closure(b, e).notify_fd = b.notify_fd
    BY DEF BaseOK, event_base, event_signal_closure, signal_turn
<1>3. /\ signal_closure_returns(b, e).is_notify_pending = b.is_notify_pending
      /\ signal_closure_returns(b, e).notify_fd = b.notify_fd
    BY DEF BaseOK, event_base, signal_closure_returns
<1> QED BY <1>1, <1>2, <1>3 DEF Told

\* A callback is started.
LEMMA RunWake ==
    ASSUME IInv, WakeInv, run_callback
    PROVE  WakeInv'
<1> DEFINE q == base.activequeues[event_running_priority]
           c == Head(q)
           deletes == c \in Events \ Persist /\ ~Has(base, c, "FINALIZING")
           b == IF deletes THEN event_del_nolock_(base, c, TRUE, TRUE, th_owner_id)
                ELSE event_queue_remove_active(base, c)
           closure == base.closure[c]
<1>1. /\ BaseOK(base) /\ gettime \in Nat /\ LoopPlaces /\ Told(base)
      /\ pc = "queue" /\ event_running_priority \in Priorities /\ q # << >>
    BY GettimeNat, Zenon DEF IInv, WakeInv, CtlOK, PcOK, run_callback, RunningPcs
<1>2. c \in Callbacks /\ Has(base, c, "ACTIVE")
    <2> DEFINE M == ActiveAt(base.flags, event_running_priority)
    <2>1. q \in Seq(Callbacks) /\ Lists(q, M)
        BY <1>1 DEF BaseOK, QueuesMatchFlags, event_base
    <2> HIDE DEF q, M
    <2>2. c \in Callbacks /\ c \in M
        BY <1>1, <2>1, ListsTail, SMTT(30)
    <2> QED BY <2>2 DEF M, ActiveAt, Has
<1>3. closure \in {event_assign(c)} \cup Finalizers
    BY <1>1, <1>2 DEF BaseOK, ClosuresKept
<1>4. closure = "EVENT_PERSIST" => c \in EventStructs
    BY <1>2, <1>3, CallbacksAssumption
        DEF event_assign, Finalizers, Callbacks, EventStructs, Events
<1>5. /\ pc' \in {"body_done", "callback"} /\ UNCHANGED ctlVars /\ UNCHANGED thr
    BY Zenon DEF run_callback, userVars
<1>6. \/ /\ closure = "EVENT_SIGNAL" /\ base' = event_signal_closure(b, c)
      \/ /\ closure = "EVENT_PERSIST"
         /\ \E ok \in Accepts(c) : base' = event_persist_closure(b, c, ok)
      \/ base' = b
    BY Zenon DEF run_callback
<1> HIDE DEF c, closure, q
<1>7. BaseOK(b) /\ Told(b)
    <2>1. deletes => c \in EventStructs
        BY DEF EventStructs
    <2> DEFINE d == event_del_nolock_(base, c, TRUE, TRUE, th_owner_id)
               r == event_queue_remove_active(base, c)
    <2>2. deletes => BaseOK(d) /\ Alerts(base, d, th_owner_id)
        BY <1>1, <2>1, DelNolock, DelAlerts, Zenon
    <2>3. BaseOK(r) /\ Calm(base, r)
        BY <1>1, <1>2, RemoveActive, RemovesCalm
    <2> HIDE DEF d, r
    <2>4. (deletes => Told(d)) /\ Told(r)
        BY <1>1, <2>2, <2>3 DEF Alerts, Calm, Told
    <2> QED BY <2>2, <2>3, <2>4, Zenon DEF d, r
<1> HIDE DEF b
<1>8. Told(base')
    <2>1. CASE base' = event_signal_closure(b, c)
        BY <1>7, <2>1, SignalTold
    <2>2. CASE /\ closure = "EVENT_PERSIST"
               /\ \E ok \in Accepts(c) : base' = event_persist_closure(b, c, ok)
        <3>1. Alerts(b, base', th_owner_id)
            BY <1>1, <1>4, <1>7, <2>2, PersistAlerts
        <3> QED BY <1>7, <3>1 DEF Alerts
    <2> QED BY <1>6, <1>7, <2>1, <2>2
<1>9. LoopPlaces'
    BY <1>1, <1>5, LoopStays DEF ctlVars, RunningPcs
<1> QED BY <1>5, <1>8, <1>9, LoopWake

\* What the callbacks of the library itself do: only between the two halves of
\* the drain may a notification be pending that nobody will read.
LEMMA CallbackWake ==
    ASSUME IInv, WakeInv,
           \/ notify_drain_reads \/ notify_drain_clears
           \/ evsig_cb_locks \/ evmap_signal_active_ \/ evsig_cb_unlocks
           \/ event_loopexit_cb \/ signal_callback_again
    PROVE  WakeInv'
<1>1. BaseOK(base) /\ LoopPlaces
    BY DEF IInv, WakeInv
<1>2. /\ callbackUnchanged /\ pc \in RunningPcs /\ pc' \in RunningPcs
    BY Zenon DEF notify_drain_reads, notify_drain_clears, evsig_cb_locks, evmap_signal_active_,
           evsig_cb_unlocks, event_loopexit_cb, signal_callback_again, BodyDone, RunningPcs
<1>3. LoopPlaces' /\ pc' \notin {"later", "dispatch"}
    BY <1>1, <1>2, LoopStays DEF callbackUnchanged, ctlVars, userVars, RunningPcs
<1>4. pc' # "drained" => Told(base')
    <2>1. CASE notify_drain_reads
        BY <2>1 DEF notify_drain_reads
    <2>2. CASE notify_drain_clears
        <3>1. base'.is_notify_pending = FALSE
            BY <1>1, <2>2 DEF notify_drain_clears, BaseOK, event_base
        <3> QED BY <3>1 DEF Told
    <2>3. CASE evsig_cb_locks \/ evsig_cb_unlocks \/ event_loopexit_cb
        BY <2>3 DEF evsig_cb_locks, evsig_cb_unlocks, event_loopexit_cb, WakeInv
    <2>4. CASE evmap_signal_active_
        <3>1. PICK e \in SignalEvents, n \in 1 .. MaxNcalls :
                 base' = event_active_nolock_(base, e, FALSE, n, th_owner_id)
            BY <2>4, Zenon DEF evmap_signal_active_
        <3>2. e \in EventStructs /\ n \in Nat
            BY BoundsAssumption DEF EventStructs, Events
        <3>3. Alerts(base, base', th_owner_id)
            BY <1>1, <3>1, <3>2, ActiveAlerts, Zenon
        <3> QED BY <2>4, <3>3, Zenon DEF Alerts, WakeInv, evmap_signal_active_
    <2>5. CASE signal_callback_again
        BY <1>1, <2>5, SignalTold DEF signal_callback_again, BodyDone, WakeInv
    <2> QED BY <2>1, <2>2, <2>3, <2>4, <2>5
<1> QED BY <1>3, <1>4, LoopWake

\* A callback ends.
LEMMA ReturnWake ==
    ASSUME IInv, WakeInv, callback_returns
    PROVE  WakeInv'
<1> DEFINE b == IF evcb_closure = "EVENT_SIGNAL" THEN signal_closure_returns(base, evcb)
                ELSE base
<1>1. BaseOK(base) /\ LoopPlaces /\ Told(base) /\ pc \in {"callback", "body_done"}
    BY DEF IInv, WakeInv, callback_returns, BodyDone
<1>2. /\ base' = b
      /\ \/ process_active_returns(b, -1, tv_cache)
         \/ \E cache : single_queue_returns(b, cache)
         \/ pc' = "queue" /\ UNCHANGED ctlVars
    BY DEF callback_returns
<1>3. Told(base')
    BY <1>1, <1>2, SignalTold
<1>4. running_loop /\ th_owner_id \in Threads /\ thr[th_owner_id] = Idle
    BY <1>1 DEF LoopPlaces
<1>5. thr' = IF current_event_waiters = 0 THEN thr
             ELSE [t \in Threads |-> IF thr[t] = Idle THEN Idle
                                     ELSE [thr[t] EXCEPT !.woken = TRUE]]
    BY DEF callback_returns
<1>6. thr'[th_owner_id] = Idle
    BY <1>4, <1>5, Zenon
<1> HIDE DEF b
<1>7. LoopPlaces' /\ pc' \in {"out", "top", "active", "queue"}
    <2>1. ASSUME NEW n, NEW cache, process_active_returns(b, n, cache)
          PROVE  LoopPlaces' /\ pc' \in {"out", "top"}
        <3>1. event_running_priority' = -1 /\ loop_turn_ends(b, n, cache)
            BY <2>1 DEF process_active_returns
        <3>2. CASE loop_returns
            BY <3>1, <3>2, LoopLeaves, Zenon DEF loop_returns
        <3>3. CASE pc' = "top" /\ UNCHANGED <<running_loop, th_owner_id>>
            BY <1>4, <1>6, <3>1, <3>3 DEF LoopPlaces
        <3> QED BY <3>1, <3>2, <3>3 DEF loop_turn_ends
    <2>2. CASE pc' \in {"queue", "active"} /\ UNCHANGED ctlVars
        BY <1>4, <1>6, <2>2 DEF LoopPlaces, ctlVars
    <2> QED BY <1>2, <2>1, <2>2 DEF single_queue_returns
<1> QED BY <1>3, <1>7, LoopWake

\* Time passes: what is overdue stays so.
LEMMA TickWake ==
    ASSUME IInv, WakeInv, Tick
    PROVE  WakeInv'
<1>1. /\ LockFree /\ clock' = clock + 1
      /\ UNCHANGED <<base, running_loop, th_owner_id, event_running_priority, event_break, pc,
                     deadline, lag, thr>>
    BY Zenon DEF Tick, ctlVars, termVars, localVars, userVars
<1>2. clock \in Nat /\ deadline \in Int
    BY DEF IInv, CtlOK, CtlType, LoopType, CallType
<1>3. LoopPlaces' /\ AboutToSleep' /\ (pc' # "drained" => Told(base'))
    BY <1>1 DEF WakeInv, LoopPlaces, AboutToSleep, LockFree
<1>4. NoLostWakeup'
    BY <1>1, <1>2 DEF WakeInv, NoLostWakeup
<1>5. TimersWake'
    BY <1>1, <1>2 DEF WakeInv, TimersWake
<1> QED BY <1>3, <1>4, <1>5 DEF WakeInv

\* Every step preserves the invariant.
LEMMA NextWake == IInv /\ IInv' /\ WakeInv /\ [Next]_vars => WakeInv'
<1> SUFFICES ASSUME IInv, IInv', WakeInv, [Next]_vars PROVE WakeInv'
    OBVIOUS
<1>1. BaseOK(base')
    BY DEF IInv
<1>2. ASSUME NEW t \in Threads, NEW e \in UserEvents, EventApi(t, e) PROVE WakeInv'
    BY <1>1, <1>2, EventApiQuiet, ApiWake DEF UserEvents
<1>3. ASSUME NEW t \in Threads, NEW c \in Deferreds, DeferredApi(t, c) PROVE WakeInv'
    BY <1>1, <1>3, DeferredApiQuiet, ApiWake
<1>4. ASSUME NEW t \in Threads, BaseApi(t) \/ Resume(t) PROVE WakeInv'
    BY <1>1, <1>4, BaseApiQuiet, BreakWake, ResumeQuiet, ApiWake
<1>5. ASSUME NEW t \in Threads, event_base_loop(t) PROVE WakeInv'
    <2>1. /\ pc = "out" /\ pc' = "top" /\ thr[t] = Idle /\ running_loop' = TRUE
          /\ th_owner_id' = t /\ UNCHANGED <<base, event_running_priority, thr>>
        BY <1>5, Zenon DEF event_base_loop, userVars
    <2>2. event_running_priority = -1
        BY <2>1 DEF WakeInv, LoopPlaces, RunningPcs
    <2>3. LoopPlaces'
        BY <2>1, <2>2 DEF LoopPlaces
    <2> QED BY <2>1, <2>3, LoopWake DEF WakeInv
<1>6. CASE LoopStep
    BY <1>6, TopWake, SleepWake, PollWake, ProcessWake, RunWake, CallbackWake, ReturnWake
       DEF LoopStep
<1>7. CASE epoll_wait_returns \/ dispatch_fails \/ Tick
    BY <1>7, PollWake, TickWake
<1>8. CASE UNCHANGED vars
    BY <1>8, Zenon DEF vars, ctlVars, termVars, timeVars, localVars, userVars, WakeInv, LoopPlaces,
           AboutToSleep, NoLostWakeup, TimersWake, gettime
<1> QED BY <1>2, <1>3, <1>4, <1>5, <1>6, <1>7, <1>8 DEF Next

\* A new base satisfies it.
LEMMA InitWake == Init /\ IInv => WakeInv
<1> SUFFICES ASSUME Init, IInv PROVE WakeInv
    BY SMTT(30)
<1>1. base.is_notify_pending = FALSE
    BY DEF Init, event_base_new_with_config
<1> QED BY <1>1 DEF Init, WakeInv, Told, LoopPlaces, AboutToSleep, NoLostWakeup, TimersWake

----------------------------------------------------------------------------
(* The operations.                                                         *)

\* Under it the loop goes to sleep only with something to wait for, and the
\* sleep of one that has nothing left ends.
SleepInv ==
    /\ pc = "later" /\ "NO_EXIT_ON_EMPTY" \notin lflags => ~Empty(base)
    /\ EmptyLoopWakes

\* An operation that leaves something, or tells the loop, preserves it.
LEMMA ApiSleep ==
    ASSUME IInv, WakeInv, SleepInv, NEW t, ApiQuiet(t), Leaves(base, base', t)
    PROVE  SleepInv'
<1>1. pc' = pc /\ lflags' = lflags /\ deadline' = deadline
    BY DEF ApiQuiet, apiUnchanged, localVars
<1>2. pc # "later" /\ (base.notify_fd => base'.notify_fd)
    BY DEF ApiQuiet, LockFree, Alerts
<1>3. CASE pc = "dispatch" /\ Empty(base') /\ "NO_EXIT_ON_EMPTY" \notin lflags
    <2>1. EVBASE_NEED_NOTIFY(t) /\ Told(base)
        BY <1>3 DEF ApiQuiet, WakeInv, LoopPlaces, EVBASE_NEED_NOTIFY
    <2>2. Empty(base) \/ base'.notify_fd \/ Wanted(base) \/ Timeouts(base) # {}
        BY <1>3, <2>1 DEF Leaves
    <2>3. Empty(base) => base.notify_fd \/ deadline # NoTV
        BY <1>3 DEF SleepInv, EmptyLoopWakes, NoEvents, Empty
    <2>4. Wanted(base) => base.notify_fd \/ deadline # NoTV
        BY <1>3 DEF WakeInv, NoLostWakeup, Wanted, N_ACTIVE_CALLBACKS
    <2>5. Timeouts(base) # {} => base.notify_fd \/ deadline # NoTV
        BY <1>3 DEF WakeInv, TimersWake
    <2> QED BY <1>1, <1>2, <2>2, <2>3, <2>4, <2>5 DEF SleepInv, EmptyLoopWakes
<1>4. CASE ~(pc = "dispatch" /\ Empty(base') /\ "NO_EXIT_ON_EMPTY" \notin lflags)
    BY <1>1, <1>2, <1>4 DEF SleepInv, EmptyLoopWakes, NoEvents, Empty
<1> QED BY <1>3, <1>4

\* The operations on an event.
LEMMA EventApiSleep ==
    ASSUME MayFail = {}, IInv, NEW t \in Threads, NEW e \in Events, EventApi(t, e)
    PROVE  Leaves(base, base', t)
<1>1. /\ BaseOK(base) /\ e \in EventStructs /\ e \in Callbacks /\ gettime \in Nat
    BY GettimeNat DEF IInv, EventStructs, Callbacks
<1>2. Leaves(base, base, t)
    BY DEF Leaves
<1>3. ASSUME NEW tv_ \in Intervals \cup {NoTV}, event_add(t, e, tv_)
      PROVE  Leaves(base, base', t)
    <2>1. tv_ \in Nat \cup {NoTV}
        BY BoundsAssumption
    <2>2. CASE UNCHANGED base
        BY <1>2, <2>2
    <2>3. ASSUME NEW ok, NEW hit, base' = event_add_nolock_(base, e, tv_, FALSE, ok, hit, t)
          PROVE  Leaves(base, base', t)
        BY <1>1, <2>1, <2>3, AddGrows, GrowsLeaves, Zenon
    <2> QED BY <1>3, <2>2, <2>3, Zenon DEF event_add
<1>4. ASSUME \/ \E op \in DelOps : event_del(t, e, op)
             \/ event_free(t, e)
      PROVE  Leaves(base, base', t)
    <2>1. \/ UNCHANGED base
          \/ \E ok \in Accepts(e), hit \in Hits(t, e) :
                base' = event_del_nolock_(base, e, ok, hit, t)
        BY <1>4, Zenon DEF event_del, event_free
    <2>2. Accepts(e) = {TRUE}
        BY DEF Accepts
    <2> QED BY <1>1, <1>2, <2>1, <2>2, DelLeaves, Zenon
<1>5. ASSUME NEW timeout \in BOOLEAN, NEW n \in Nat, event_active(t, e, timeout, n)
      PROVE  Leaves(base, base', t)
    <2>1. \/ base' = event_active_enter(base, e, timeout)
          \/ base' = event_active_nolock_(base, e, timeout, n, t)
        BY <1>5 DEF event_active
    <2> QED BY <1>1, <2>1, ActiveGrows, GrowsLeaves
<1>6. ASSUME event_active_later_(t, e)
      PROVE  Leaves(base, base', t)
    <2> DEFINE r == [base EXCEPT !.res_timeout[e] = FALSE]
               b == IF IsActive(base, e) THEN base ELSE r
    <2>1. r \in event_base /\ Assigned(base, r)
        BY <1>1, Zenon DEF BaseOK, event_base, Assigned
    <2>2. /\ r.virtual_event_count = base.virtual_event_count
        BY <1>1 DEF BaseOK, event_base
    <2>3. BaseOK(r)
        BY <1>1, <2>1, AssignedOK
    <2> HIDE DEF r
    <2>4. Grows(base, r) /\ Grows(base, base)
        BY <2>1, <2>2, SameCounts DEF Assigned, Grows
    <2>5. BaseOK(b) /\ Grows(base, b)
        BY <1>1, <2>3, <2>4
    <2>6. base' = event_callback_activate_later_nolock_(b, e, t)
        BY <1>6 DEF event_active_later_, r
    <2> HIDE DEF b
    <2>7. Grows(b, base')
        BY <1>1, <2>5, <2>6, ActivateGrows
    <2>8. Grows(base, base')
        BY <2>5, <2>7 DEF Grows
    <2> QED BY <2>8, GrowsLeaves
<1>7. ASSUME NEW closure \in {"EVENT_FINALIZE", "EVENT_FINALIZE_FREE"},
             event_finalize(t, e, closure)
      PROVE  Leaves(base, base', t)
    <2>1. PICK ok \in Accepts(e), hit \in Hits(t, e) :
            LET b == event_finalize_enter(base, e, closure, ok, hit, t)
            IN  base' \in {b, event_finalize_finish(b, e, t)}
        BY <1>7 DEF event_finalize
    <2> DEFINE b == event_finalize_enter(base, e, closure, TRUE, hit, t)
               f == event_finalize_finish(b, e, t)
    <2>2. ok = TRUE
        BY DEF Accepts
    <2>3. BaseOK(b) /\ Leaves(base, b, t)
        BY <1>1, FinalizeEnter, FinalizeEnterLeaves, Zenon DEF Finalizers
    <2>4. base' \in {b, f}
        BY <2>1, <2>2, Zenon
    <2> HIDE DEF b
    <2>5. Grows(b, f) /\ Alerts(b, f, t)
        BY <2>3, FinalizeFinishGrows, FinalizeFinishAlerts
    <2> HIDE DEF f
    <2>6. Leaves(base, f, t)
        BY <2>3, <2>5, LeavesThenGrows DEF Alerts
    <2> QED BY <2>3, <2>4, <2>6
<1>8. ASSUME event_remove_timer(t, e)
      PROVE  Leaves(base, base', t)
    <2>1. e \in Timeouts(base)
        BY <1>1, <1>8 DEF event_remove_timer, Timeouts
    <2> QED BY <2>1 DEF Leaves
<1>9. QED
    <2>1. \A n : n \in (IF e \in SignalEvents THEN 1 .. MaxNcalls ELSE {1}) => n \in Nat
        BY BoundsAssumption
    <2>2. ActiveRes \subseteq BOOLEAN
        BY Zenon DEF ActiveRes
    <2> QED BY <1>3, <1>4, <1>5, <1>6, <1>7, <1>8, <2>1, <2>2 DEF EventApi

\* The operations on a deferred callback.
LEMMA DeferredApiSleep ==
    ASSUME IInv, NEW t \in Threads, NEW c \in Deferreds, DeferredApi(t, c)
    PROVE  Leaves(base, base', t)
<1>1. BaseOK(base) /\ c \in Callbacks
    BY DEF IInv, Callbacks
<1>2. CASE event_deferred_cb_schedule_(t, c)
    <2> DEFINE b == event_callback_activate_nolock_(base, c, t)
               n == b.n_deferreds_queued + 1
               r == [b EXCEPT !.n_deferreds_queued = n]
    <2>1. \/ base' = event_callback_activate_later_nolock_(base, c, t)
          \/ base' = b \/ base' = r
        BY <1>2 DEF event_deferred_cb_schedule_
    <2>2. /\ Grows(base, event_callback_activate_later_nolock_(base, c, t))
          /\ Grows(base, b) /\ BaseOK(b)
        BY <1>1, Activate, ActivateGrows
    <2> HIDE DEF b
    <2>3. /\ r.virtual_event_count = b.virtual_event_count
          /\ r.event_count = b.event_count /\ r.event_count_active = b.event_count_active
        BY <2>2 DEF BaseOK, event_base
    <2>4. Grows(base, r)
        BY <2>2, <2>3, SameCounts, Zenon DEF Grows
    <2> HIDE DEF r
    <2> QED BY <2>1, <2>2, <2>4, GrowsLeaves
<1>3. CASE event_deferred_cb_cancel_(t, c)
    BY <1>1, <1>3, CancelLeaves DEF event_deferred_cb_cancel_
<1>4. CASE event_callback_finalize_(t, c)
    BY <1>1, <1>4, CallbackFinalizeLeaves DEF event_callback_finalize_
<1> QED BY <1>2, <1>3, <1>4 DEF DeferredApi

\* The operations on the base, but for event_base_loopbreak.
LEMMA BaseApiSleep ==
    ASSUME IInv, NEW t \in Threads, BaseApi(t), ~event_base_loopbreak(t)
    PROVE  Leaves(base, base', t)
<1>1. BaseOK(base) /\ gettime \in Nat
    BY GettimeNat DEF IInv
<1>2. CASE event_base_loopcontinue(t)
    <2> DEFINE r == [base EXCEPT !.event_continue = TRUE]
    <2>1. r \in event_base /\ Assigned(base, r)
        BY <1>1, Zenon DEF BaseOK, event_base, Assigned
    <2>2. BaseOK(r)
        BY <1>1, <2>1, AssignedOK
    <2>3. r.virtual_event_count = base.virtual_event_count
        BY <1>1 DEF BaseOK, event_base
    <2>4. base' = NotifyIf(r, TRUE, t)
        BY <1>2, Zenon DEF event_base_loopcontinue
    <2> HIDE DEF r
    <2>5. Grows(base, r) /\ Grows(r, base')
        BY <2>1, <2>2, <2>3, <2>4, SameCounts, NotifyGrows, Zenon DEF Assigned
    <2> QED BY <2>5, GrowsLeaves DEF Grows
<1>3. ASSUME NEW e \in LoopExits, NEW tv_ \in Intervals \cup {NoTV},
             event_base_loopexit(t, e, tv_)
      PROVE  Leaves(base, base', t)
    <2>1. e \in Events /\ e \in EventStructs
        BY ThreadsAssumption DEF EventStructs, Events
    <2>2. tv_ \in Nat \cup {NoTV}
        BY BoundsAssumption
    <2>3. Grows(base, event_active_nolock_(base, e, TRUE, 1, t))
        BY <1>1, <2>1, ActiveGrows, Zenon
    <2>4. Grows(base, event_add_nolock_(base, e, tv_, FALSE, TRUE, TRUE, t))
        BY <1>1, <2>1, <2>2, AddGrows, Zenon
    <2>5. Grows(base, base')
        BY <1>3, <2>3, <2>4, Zenon DEF event_base_loopexit
    <2> QED BY <2>5, GrowsLeaves
<1>4. CASE event_base_add_virtual_(t)
    <2>1. base'.virtual_event_count > 0
        BY <1>1, <1>4 DEF BaseOK, event_base, event_base_add_virtual_
    <2> QED BY <2>1 DEF Leaves, Empty, event_haveevents
<1>5. CASE event_base_del_virtual_(t)
    <2> DEFINE n == base.virtual_event_count - 1
               r == [base EXCEPT !.virtual_event_count = n]
               need == base.virtual_event_count = 1
    <2>1. n \in Nat /\ (n = 0 <=> need)
        BY <1>1, <1>5 DEF BaseOK, event_base, event_base_del_virtual_
    <2>2. r \in event_base /\ Assigned(base, r)
        <3> HIDE DEF n
        <3> QED BY <1>1, <2>1, Zenon DEF BaseOK, event_base, Assigned
    <2>3. /\ r.virtual_event_count = n
          /\ r.is_notify_pending = base.is_notify_pending /\ r.notify_fd = base.notify_fd
        BY <1>1 DEF BaseOK, event_base
    <2>4. BaseOK(r) /\ base' = NotifyIf(r, need, t)
        BY <1>1, <1>5, <2>2, AssignedOK DEF event_base_del_virtual_
    <2> HIDE DEF r, need, n
    <2>5. Empty(base') => need
        BY <2>1, <2>3, <2>4, NotifyGrows, EmptyFields, Zenon DEF Grows
    <2>6. Told(base) => Told(r)
        BY <2>3 DEF Told
    <2> QED BY <2>4, <2>5, <2>6, NotifyAlerts, Zenon DEF Leaves
<1> QED BY <1>2, <1>3, <1>4, <1>5 DEF BaseApi

\* The rest of a call that had to wait.
LEMMA ResumeSleep ==
    ASSUME MayFail = {}, IInv, NEW t \in Threads, Resume(t)
    PROVE  Leaves(base, base', t)
<1> DEFINE e == thr[t].ev
           op == thr[t].op
<1>1. BaseOK(base) /\ gettime \in Nat
    BY GettimeNat, SMTT(30) DEF IInv
<1>2. thr[t] # Idle
    BY DEF Resume, Idle
<1>3. /\ e \in Events /\ e \in EventStructs
      /\ op = "event_add" => thr[t].arg \in Nat \cup {NoTV}
      /\ op = "event_active" => thr[t].arg \in Nat
    BY <1>2 DEF IInv, CtlOK, ThrOK, EventStructs
<1>4. PICK ok \in Accepts(e), hit \in Hits(t, e) :
         \/ /\ op = "event_add"
            /\ base' = event_add_nolock_(base, e, thr[t].arg, FALSE, ok, hit, t)
         \/ base' = event_del_nolock_(base, e, ok, hit, t)
         \/ /\ op = "event_active"
            /\ base' = event_active_finish(base, e, thr[t].arg, t)
         \/ base' = event_finalize_finish(base, e, t)
    BY Zenon DEF Resume
<1>5. ok = TRUE
    BY DEF Accepts
<1> HIDE DEF e, op
<1>6. CASE base' = event_add_nolock_(base, e, thr[t].arg, FALSE, ok, hit, t) /\ op = "event_add"
    BY <1>1, <1>3, <1>6, AddGrows, GrowsLeaves, ZenonT(30)
<1>7. CASE base' = event_del_nolock_(base, e, ok, hit, t)
    BY <1>1, <1>3, <1>5, <1>7, DelLeaves, Zenon
<1>8. CASE base' = event_active_finish(base, e, thr[t].arg, t) /\ op = "event_active"
    BY <1>1, <1>3, <1>8, ActiveGrows, GrowsLeaves, Zenon
<1>9. CASE base' = event_finalize_finish(base, e, t)
    BY <1>1, <1>3, <1>9, FinalizeFinishGrows, GrowsLeaves, Zenon
<1> QED BY <1>4, <1>6, <1>7, <1>8, <1>9, Zenon

----------------------------------------------------------------------------
(* The steps of the loop.                                                  *)

\* Only three steps lead to a sleep.
LEMMA OtherSteps ==
    ASSUME LoopStep \/ epoll_wait_returns \/ dispatch_fails,
           ~(loop_goes_on \/ event_queue_make_later_events_active \/ dispatch)
    PROVE  pc' \notin {"later", "dispatch"}
<1>1. ASSUME NEW b, NEW n, NEW cache, process_active_returns(b, n, cache)
      PROVE  pc' \in {"out", "top"}
    BY <1>1 DEF process_active_returns, loop_turn_ends, loop_returns
<1>2. ASSUME NEW b, NEW cache, single_queue_returns(b, cache)
      PROVE  pc' \in {"out", "top", "active"}
    BY <1>1, <1>2 DEF single_queue_returns
<1>3. CASE \/ loop_terminated \/ loop_empty \/ dispatch_fails \/ nothing_active
           \/ epoll_wait_returns
    BY <1>3, Zenon DEF loop_terminated, loop_empty, dispatch_fails, nothing_active, loop_returns,
                epoll_wait_returns
<1>4. CASE \/ dispatch_locks \/ evmap_io_active_ \/ dispatch_returns \/ timeout_process
           \/ process_active_begins \/ process_active_queue
    BY <1>4, Zenon DEF dispatch_locks, evmap_io_active_, dispatch_returns, timeout_process,
                process_active_begins, process_active_queue
<1>5. CASE process_active_ends \/ queue_empty \/ callback_returns
    BY <1>1, <1>2, <1>5 DEF process_active_ends, queue_empty, callback_returns
<1>6. CASE run_callback
    BY <1>6, Zenon DEF run_callback
<1>7. CASE \/ notify_drain_reads \/ notify_drain_clears \/ evsig_cb_locks
           \/ evmap_signal_active_ \/ evsig_cb_unlocks \/ event_loopexit_cb
           \/ signal_callback_again
    BY <1>7, Zenon DEF notify_drain_reads, notify_drain_clears, evsig_cb_locks,
                evmap_signal_active_, evsig_cb_unlocks, event_loopexit_cb,
                signal_callback_again, BodyDone
<1> QED BY <1>3, <1>4, <1>5, <1>6, <1>7 DEF LoopStep

\* The loop goes to sleep only with something to wait for.
LEMMA SleepSleep ==
    ASSUME IInv, SleepInv,
           loop_goes_on \/ event_queue_make_later_events_active \/ dispatch
    PROVE  SleepInv'
<1>1. BaseOK(base)
    BY DEF IInv
<1>2. CASE loop_goes_on
    <2>1. /\ "NO_EXIT_ON_EMPTY" \in lflags \/ ~Empty(base)
          /\ pc' = "later" /\ base' = loop_head_base /\ UNCHANGED lflags
        BY <1>2 DEF loop_goes_on, NoEvents, Empty
    <2>2. /\ base'.virtual_event_count = base.virtual_event_count
          /\ base'.event_count = base.event_count
          /\ base'.event_count_active = base.event_count_active
        BY <1>1, <2>1 DEF BaseOK, event_base, loop_head_base
    <2> QED BY <2>1, <2>2, SameCounts DEF Grows, SleepInv, EmptyLoopWakes
<1>3. CASE event_queue_make_later_events_active
    <2>1. /\ pc = "later" /\ pc' = pc /\ lflags' = lflags
          /\ base' = make_later_event_active(base)
        BY <1>3 DEF event_queue_make_later_events_active, localVars
    <2>2. /\ base'.virtual_event_count = base.virtual_event_count
          /\ base'.event_count = base.event_count
          /\ base'.event_count_active = base.event_count_active
        BY <1>1, <2>1 DEF BaseOK, event_base, make_later_event_active
    <2> QED BY <2>1, <2>2, SameCounts, SMTT(30) DEF Grows, SleepInv, EmptyLoopWakes
<1>4. CASE dispatch
    <2>1. pc = "later" /\ pc' = "dispatch" /\ UNCHANGED <<base, lflags>>
        BY <1>4 DEF dispatch
    <2> QED BY <2>1 DEF SleepInv, EmptyLoopWakes, NoEvents, Empty
<1> QED BY <1>2, <1>3, <1>4

\* Every step preserves the invariant when no backend call fails.
LEMMA NextSleep ==
    ASSUME MayFail = {}
    PROVE  IInv /\ WakeInv /\ SleepInv /\ [Next]_vars => SleepInv'
<1> SUFFICES ASSUME IInv, WakeInv, SleepInv, [Next]_vars PROVE SleepInv'
    OBVIOUS
<1>1. ASSUME pc' \notin {"later", "dispatch"} PROVE SleepInv'
    BY <1>1 DEF SleepInv, EmptyLoopWakes
<1>2. ASSUME NEW t \in Threads, NEW e \in UserEvents, EventApi(t, e) PROVE SleepInv'
    BY <1>2, EventApiQuiet, EventApiSleep, ApiSleep DEF UserEvents
<1>3. ASSUME NEW t \in Threads, NEW c \in Deferreds, DeferredApi(t, c) PROVE SleepInv'
    BY <1>3, DeferredApiQuiet, DeferredApiSleep, ApiSleep
<1>4. ASSUME NEW t \in Threads, BaseApi(t), ~event_base_loopbreak(t) PROVE SleepInv'
    BY <1>4, BaseApiQuiet, BaseApiSleep, ApiSleep
<1>5. ASSUME NEW t \in Threads, event_base_loopbreak(t) PROVE SleepInv'
    <2>1. BaseOK(base) /\ base' = NotifyIf(base, TRUE, t) /\ Calls(t, "event_base_loopbreak")
        BY <1>5, Zenon DEF IInv, event_base_loopbreak
    <2>2. pc' = pc
        BY <1>5 DEF event_base_loopbreak
    <2>3. LockFree /\ (running_loop /\ th_owner_id = t => pc = "callback")
        BY <2>1, CallsQuiet
    <2>4. pc = "dispatch" => base'.notify_fd
        BY <2>1, <2>3, NotifyAlerts, Zenon DEF WakeInv, LoopPlaces, EVBASE_NEED_NOTIFY
    <2> QED BY <2>2, <2>3, <2>4 DEF SleepInv, EmptyLoopWakes, LockFree
<1>6. ASSUME NEW t \in Threads, Resume(t) PROVE SleepInv'
    BY <1>6, ResumeQuiet, ResumeSleep, ApiSleep
<1>7. ASSUME NEW t \in Threads, event_base_loop(t) PROVE SleepInv'
    BY <1>1, <1>7 DEF event_base_loop
<1>8. CASE LoopStep \/ epoll_wait_returns \/ dispatch_fails
    BY <1>1, <1>8, OtherSteps, SleepSleep
<1>9. CASE Tick \/ UNCHANGED vars
    <2>1. UNCHANGED <<base, pc, lflags, deadline>>
        BY <1>9 DEF Tick, vars, localVars
    <2> QED BY <2>1 DEF SleepInv, EmptyLoopWakes, NoEvents, Empty
<1> QED BY <1>2, <1>3, <1>4, <1>5, <1>6, <1>7, <1>8, <1>9 DEF Next
=============================================================================
