-------------------------- MODULE EventBaseProofs ---------------------------
(***************************************************************************)
(* The inductive invariant of EventBase, and that the operations of the    *)
(* program and the steps of the loop keep it.                              *)
(***************************************************************************)
EXTENDS EventBase, EventNolockProofs

----------------------------------------------------------------------------
(* The inductive invariant.                                                *)

\* What a thread that waits on current_event_cond remembers of its call.
ThrOK ==
    \A t \in Threads : thr[t] # Idle =>
        /\ thr[t].ev \in Events
        /\ thr[t].op = "event_add" => thr[t].arg \in Nat \cup {NoTV}
        /\ thr[t].op = "event_active" => thr[t].arg \in Nat

RunningPcs == {"callback", "evsig", "drained", "body_done"}

\* A queue is being worked on from the moment it is chosen, and a callback is
\* current only while it runs.
PcOK ==
    /\ pc \in RunningPcs \cup {"queue"} => event_running_priority \in Priorities
    /\ current_event # NULL => pc \in RunningPcs
    /\ evcb = NULL => evcb_closure \notin Finalizers

\* The types of the variables other than base: the loop's own, and the rest.
LoopType ==
    /\ running_loop \in BOOLEAN
    /\ th_owner_id \in Threads \cup {NULL}
    /\ event_running_priority \in Priorities \cup {-1}
    /\ tv_cache \in Nat
    /\ pc \in LoopPcs
    /\ lflags \subseteq {"ONCE", "NONBLOCK", "NO_EXIT_ON_EMPTY"}
    /\ ready \subseteq UNION {Slots[e] : e \in IoEvents \cup Internal}
    /\ tv \in Int /\ deadline \in Int /\ endtime \in Int /\ lag \in Int
    /\ next_pri \in Nat /\ count \in Nat

CallType ==
    /\ current_event \in Callbacks \cup {NULL}
    /\ current_event_waiters \in Nat
    /\ event_break \in BOOLEAN /\ event_gotterm \in BOOLEAN
    /\ clock \in Nat
    /\ evcb \in Callbacks \cup {NULL} /\ evcb_closure \in Closures
    /\ thr \in [Threads -> [op: {"none", "event_add", "event_free", "event_active",
                                "event_finalize"} \cup DelOps,
                            ev: Events \cup {NULL}, arg: Int, woken: BOOLEAN]]
    /\ freed \subseteq Callbacks /\ finalized \subseteq Callbacks

CtlType == LoopType /\ CallType

CtlOK == CtlType /\ ThrOK /\ PcOK /\ WaitersCounted

IInv == BaseOK(base) /\ CtlOK

\* The inductive invariant implies the properties that TLC checks.
LEMMA IInvImplies ==
    IInv => TypeOK /\ QueuesOK /\ CountsExact /\ WaitersCounted
BY DEF IInv, CtlOK, CtlType, LoopType, CallType, TypeOK, BaseOK, QueuesOK, CountsExact

\* NULL is no event.
LEMMA NULLNotEvent == NULL \notin Events
BY CallbacksAssumption DEF Callbacks, EventStructs

\* gettime returns a time.
LEMMA GettimeNat ==
    ASSUME IInv PROVE gettime \in Nat
BY DEF IInv, CtlOK, CtlType, LoopType, CallType, gettime

\* An operation of the program that does not wait.
LEMMA ApiDone ==
    ASSUME IInv, BaseOK(base'), apiUnchanged, UNCHANGED <<thr, current_event_waiters>>,
           freed' \subseteq Callbacks
    PROVE  IInv'
<1>1. CtlType'
    BY
       DEF IInv, CtlOK, CtlType, LoopType, CallType, apiUnchanged, ctlVars, termVars, timeVars,
           localVars
<1>2. ThrOK' /\ PcOK' /\ WaitersCounted'
    BY DEF IInv, CtlOK, ThrOK, PcOK, WaitersCounted, apiUnchanged, ctlVars, localVars
<1> QED BY <1>1, <1>2 DEF IInv, CtlOK

\* An operation that waits for its event's callback.
LEMMA ApiWaits ==
    ASSUME IInv, BaseOK(base'), apiUnchanged, UNCHANGED freed,
           NEW t \in Threads, NEW e \in Events,
           NEW op \in {"event_add", "event_free", "event_active", "event_finalize"}
                         \cup DelOps,
           NEW arg \in Int,
           op = "event_add" => arg \in Nat \cup {NoTV},
           op = "event_active" => arg \in Nat,
           MustWait(t, e), EVTHREAD_COND_WAIT(t, op, e, arg)
    PROVE  IInv'
<1> DEFINE w == [op |-> op, ev |-> e, arg |-> arg, woken |-> FALSE]
<1>1. /\ thr' = [thr EXCEPT ![t] = w]
      /\ current_event_waiters \in Nat
      /\ current_event_waiters' = current_event_waiters + 1
      /\ thr \in [Threads -> [op: {"none", "event_add", "event_free", "event_active",
                                   "event_finalize"} \cup DelOps,
                               ev: Events \cup {NULL}, arg: Int, woken: BOOLEAN]]
    BY DEF EVTHREAD_COND_WAIT, IInv, CtlOK, CtlType, LoopType, CallType
<1>2. CtlType'
    BY <1>1
       DEF IInv, CtlOK, CtlType, LoopType, CallType, apiUnchanged, ctlVars, termVars, timeVars,
           localVars
<1>3. ThrOK'
    BY <1>1 DEF IInv, CtlOK, ThrOK
<1>4. PcOK'
    BY DEF IInv, CtlOK, PcOK, apiUnchanged, ctlVars, localVars
<1>5. WaitersCounted'
    <2>1. current_event' = e /\ current_event = e /\ current_event_waiters' > 0
        BY <1>1 DEF MustWait, apiUnchanged
    <2> QED BY <1>1, <2>1 DEF IInv, CtlOK, WaitersCounted
<1> QED BY <1>2, <1>3, <1>4, <1>5 DEF IInv, CtlOK

\* The call of a woken thread ends.
LEMMA ApiResumed ==
    ASSUME IInv, BaseOK(base'), apiUnchanged, UNCHANGED current_event_waiters,
           freed' \subseteq Callbacks,
           NEW t \in Threads, thr' = [thr EXCEPT ![t] = Idle]
    PROVE  IInv'
<1>1. thr \in [Threads -> [op: {"none", "event_add", "event_free", "event_active",
                                "event_finalize"} \cup DelOps,
                            ev: Events \cup {NULL}, arg: Int, woken: BOOLEAN]]
    BY DEF IInv, CtlOK, CtlType, LoopType, CallType
<1>2. CtlType'
    BY <1>1
       DEF IInv, CtlOK, CtlType, LoopType, CallType, apiUnchanged, ctlVars, termVars, timeVars,
           localVars, Idle
<1>3. ThrOK' /\ WaitersCounted'
    BY <1>1 DEF IInv, CtlOK, ThrOK, WaitersCounted, apiUnchanged
<1>4. PcOK'
    BY DEF IInv, CtlOK, PcOK, apiUnchanged, ctlVars, localVars
<1> QED BY <1>2, <1>3, <1>4 DEF IInv, CtlOK

----------------------------------------------------------------------------
(* The operations of the program.                                          *)

\* Every operation on an event preserves the invariant.
LEMMA EventApiStep ==
    ASSUME IInv, NEW t \in Threads, NEW e \in Events, EventApi(t, e)
    PROVE  IInv'
<1>1. /\ BaseOK(base) /\ e \in EventStructs /\ e \in Callbacks /\ gettime \in Nat
      /\ freed \subseteq Callbacks
    BY GettimeNat DEF IInv, CtlOK, CtlType, LoopType, CallType, EventStructs, Callbacks
<1>2. ASSUME NEW tv_ \in Intervals \cup {NoTV}, event_add(t, e, tv_)
      PROVE  IInv'
    <2>1. tv_ \in Nat \cup {NoTV} /\ tv_ \in Int
        BY BoundsAssumption DEF NoTV
    <2>2. CASE e \in SignalEvents /\ MustWait(t, e)
        <3>1. /\ EVTHREAD_COND_WAIT(t, "event_add", e, tv_)
              /\ UNCHANGED base /\ UNCHANGED freed /\ apiUnchanged
            BY <1>2, <2>2, Zenon DEF event_add
        <3> QED BY <1>1, <2>1, <2>2, <3>1, ApiWaits
    <2>3. CASE ~(e \in SignalEvents /\ MustWait(t, e))
        <3>1. PICK ok, hit : base' = event_add_nolock_(base, e, tv_, FALSE, ok, hit, t)
            BY <1>2, <2>3, Zenon DEF event_add
        <3>2. BaseOK(base')
            BY <1>1, <2>1, <3>1, AddNolock, Zenon
        <3>3. UNCHANGED <<thr, current_event_waiters>> /\ UNCHANGED freed /\ apiUnchanged
            BY <1>2, <2>3, Zenon DEF event_add
        <3> QED BY <1>1, <3>2, <3>3, ApiDone
    <2> QED BY <2>2, <2>3
<1>3. ASSUME NEW op \in DelOps, event_del(t, e, op)
      PROVE  IInv'
    <2>1. CASE DelWaits(t, e, op)
        <3>1. /\ EVTHREAD_COND_WAIT(t, op, e, 0) /\ MustWait(t, e)
              /\ UNCHANGED base /\ UNCHANGED freed /\ apiUnchanged
            BY <1>3, <2>1 DEF event_del, DelWaits
        <3>2. op # "event_add" /\ op # "event_active"
            BY DEF DelOps
        <3>3. op \in {"event_add", "event_free", "event_active", "event_finalize"} \cup DelOps
            OBVIOUS
        <3>4. BaseOK(base') /\ 0 \in Int
            BY <1>1, <3>1
        <3> QED BY <3>1, <3>2, <3>3, <3>4, ApiWaits
    <2>2. CASE ~DelWaits(t, e, op)
        <3>1. PICK ok, hit : base' = event_del_nolock_(base, e, ok, hit, t)
            BY <1>3, <2>2 DEF event_del
        <3>2. BaseOK(base')
            BY <1>1, <3>1, DelNolock
        <3>3. UNCHANGED <<thr, current_event_waiters>> /\ UNCHANGED freed /\ apiUnchanged
            BY <1>3, <2>2 DEF event_del
        <3> QED BY <1>1, <3>2, <3>3, ApiDone
    <2> QED BY <2>1, <2>2
<1>4. ASSUME event_free(t, e)
      PROVE  IInv'
    <2>1. CASE DelWaits(t, e, "event_free")
        <3>1. /\ EVTHREAD_COND_WAIT(t, "event_free", e, 0) /\ MustWait(t, e)
              /\ UNCHANGED base /\ UNCHANGED freed /\ apiUnchanged
            BY <1>4, <2>1 DEF event_free, DelWaits
        <3> QED BY <1>1, <3>1, ApiWaits
    <2>2. CASE ~DelWaits(t, e, "event_free")
        <3>1. PICK ok, hit : base' = event_del_nolock_(base, e, ok, hit, t)
            BY <1>4, <2>2 DEF event_free
        <3>2. BaseOK(base')
            BY <1>1, <3>1, DelNolock
        <3>3. /\ UNCHANGED <<thr, current_event_waiters>> /\ apiUnchanged
              /\ freed' = freed \cup {e}
            BY <1>4, <2>2 DEF event_free
        <3> QED BY <1>1, <3>2, <3>3, ApiDone
    <2> QED BY <2>1, <2>2
<1>5. ASSUME NEW timeout \in BOOLEAN, NEW n \in Nat, event_active(t, e, timeout, n)
      PROVE  IInv'
    <2> DEFINE waits == e \in SignalEvents /\ MustWait(t, e) /\ ~Has(base, e, "ACTIVE")
    <2>1. CASE waits
        <3>1. /\ EVTHREAD_COND_WAIT(t, "event_active", e, n)
              /\ base' = event_active_enter(base, e, timeout)
              /\ UNCHANGED freed /\ apiUnchanged
            BY <1>5, <2>1 DEF event_active
        <3>2. BaseOK(base')
            BY <1>1, <3>1, ActiveEnter
        <3> QED BY <2>1, <3>1, <3>2, ApiWaits
    <2>2. CASE ~waits
        <3>1. /\ base' = event_active_nolock_(base, e, timeout, n, t)
              /\ UNCHANGED <<thr, current_event_waiters>> /\ UNCHANGED freed /\ apiUnchanged
            BY <1>5, <2>2 DEF event_active
        <3>2. BaseOK(base')
            BY <1>1, <3>1, ActiveNolock
        <3> QED BY <1>1, <3>1, <3>2, ApiDone
    <2> QED BY <2>1, <2>2
<1>6. ASSUME event_active_later_(t, e)
      PROVE  IInv'
    <2> DEFINE r == [base EXCEPT !.res_timeout[e] = FALSE]
               b == IF IsActive(base, e) THEN base ELSE r
    <2>1. r \in event_base /\ Assigned(base, r)
        BY <1>1, Zenon DEF BaseOK, event_base, Assigned
    <2>2. BaseOK(r)
        BY <1>1, <2>1, AssignedOK
    <2>3. BaseOK(b)
        BY <1>1, <2>2
    <2>4. /\ base' = event_callback_activate_later_nolock_(b, e, t)
          /\ UNCHANGED <<thr, current_event_waiters, freed>> /\ apiUnchanged
        BY <1>6 DEF event_active_later_
    <2> HIDE DEF b
    <2>5. BaseOK(base')
        BY <1>1, <2>3, <2>4, ActivateLater
    <2> QED BY <1>1, <2>4, <2>5, ApiDone
<1>7. ASSUME NEW closure \in {"EVENT_FINALIZE", "EVENT_FINALIZE_FREE"},
             event_finalize(t, e, closure)
      PROVE  IInv'
    <2>1. closure \in Finalizers
        BY DEF Finalizers
    <2> DEFINE waits == e \in SignalEvents /\ MustWait(t, e) /\ ~Has(base, e, "FINALIZING")
    <2>2. PICK ok, hit :
            LET b == event_finalize_enter(base, e, closure, ok, hit, t)
            IN  \/ /\ waits
                   /\ EVTHREAD_COND_WAIT(t, "event_finalize", e, 0)
                   /\ base' = b
                \/ /\ ~waits
                   /\ base' = IF Has(base, e, "FINALIZING") THEN b
                              ELSE event_finalize_finish(b, e, t)
                   /\ UNCHANGED <<thr, current_event_waiters>>
        BY <1>7 DEF event_finalize
    <2> DEFINE b == event_finalize_enter(base, e, closure, ok, hit, t)
    <2>3. BaseOK(b)
        BY <1>1, <2>1, FinalizeEnter
    <2>4. UNCHANGED freed /\ apiUnchanged
        BY <1>7 DEF event_finalize
    <2>5. BaseOK(event_finalize_finish(b, e, t))
        BY <2>3, FinalizeFinish
    <2> HIDE DEF b
    <2>6. CASE waits
        <3>1. EVTHREAD_COND_WAIT(t, "event_finalize", e, 0) /\ BaseOK(base') /\ MustWait(t, e)
            BY <2>2, <2>3, <2>6 DEF b
        <3> QED BY <2>4, <3>1, ApiWaits
    <2>7. CASE ~waits
        <3>1. UNCHANGED <<thr, current_event_waiters>> /\ BaseOK(base')
            BY <2>2, <2>3, <2>5, <2>7 DEF b
        <3> QED BY <1>1, <2>4, <3>1, ApiDone
    <2> QED BY <2>6, <2>7
<1>8. ASSUME event_remove_timer(t, e)
      PROVE  IInv'
    <2> DEFINE b == event_queue_remove_timeout(base, e)
               s == [b EXCEPT !.ev_ncalls[e] = 0, !.ev_pncalls[e] = "NULL"]
               i == [b EXCEPT !.ev_io_timeout[e] = 0]
    <2>1. /\ Has(base, e, "TIMEOUT")
          /\ base' = IF e \in SignalEvents THEN s ELSE i
          /\ UNCHANGED <<thr, current_event_waiters, freed>> /\ apiUnchanged
        BY <1>8 DEF event_remove_timer
    <2>2. BaseOK(b)
        BY <1>1, <2>1, RemoveTimeout
    <2> HIDE DEF b
    <2>3. s \in event_base /\ i \in event_base
        BY <1>1, <2>2, Zenon DEF BaseOK, event_base
    <2>4. Assigned(b, s) /\ Assigned(b, i)
        BY <2>2 DEF BaseOK, event_base, Assigned
    <2> HIDE DEF s, i
    <2>5. BaseOK(base')
        BY <2>1, <2>2, <2>3, <2>4, AssignedOK
    <2> QED BY <1>1, <2>1, <2>5, ApiDone
<1>9. QED
    <2>1. \A n : n \in (IF e \in SignalEvents THEN 1 .. MaxNcalls ELSE {1}) => n \in Nat
        BY BoundsAssumption
    <2>2. ActiveRes \subseteq BOOLEAN
        BY Zenon DEF ActiveRes
    <2> QED BY <1>2, <1>3, <1>4, <1>5, <1>6, <1>7, <1>8, <2>1, <2>2 DEF EventApi

\* Every operation on a deferred callback preserves the invariant.
LEMMA DeferredApiStep ==
    ASSUME IInv, NEW t \in Threads, NEW c \in Deferreds, DeferredApi(t, c)
    PROVE  IInv'
<1>1. BaseOK(base) /\ c \in Callbacks /\ freed \subseteq Callbacks
    BY DEF IInv, CtlOK, CtlType, LoopType, CallType, Callbacks
<1>2. UNCHANGED <<thr, current_event_waiters, freed>> /\ apiUnchanged
    BY DEF DeferredApi, event_deferred_cb_schedule_, event_deferred_cb_cancel_,
           event_callback_finalize_
<1>3. CASE event_deferred_cb_schedule_(t, c)
    <2> DEFINE b == event_callback_activate_nolock_(base, c, t)
               n == b.n_deferreds_queued + 1
               r == [b EXCEPT !.n_deferreds_queued = n]
    <2>1. \/ base' = event_callback_activate_later_nolock_(base, c, t)
          \/ base' = b \/ base' = r
        BY <1>3 DEF event_deferred_cb_schedule_
    <2>2. BaseOK(event_callback_activate_later_nolock_(base, c, t)) /\ BaseOK(b)
        BY <1>1, Activate, ActivateLater
    <2> HIDE DEF b
    <2>3. r \in event_base /\ Assigned(b, r)
        <3>1. n \in Nat
            BY <2>2 DEF BaseOK, event_base
        <3> HIDE DEF n
        <3> QED BY <2>2, <3>1, Zenon DEF BaseOK, event_base, Assigned
    <2> HIDE DEF r
    <2>4. BaseOK(base')
        BY <2>1, <2>2, <2>3, AssignedOK
    <2> QED BY <1>1, <1>2, <2>4, ApiDone
<1>4. CASE event_deferred_cb_cancel_(t, c)
    <2>1. BaseOK(base')
        BY <1>1, <1>4, CallbackCancel DEF event_deferred_cb_cancel_
    <2> QED BY <1>1, <1>2, <2>1, ApiDone
<1>5. CASE event_callback_finalize_(t, c)
    <2>1. BaseOK(base')
        BY <1>1, <1>5, CallbackFinalize DEF event_callback_finalize_
    <2> QED BY <1>1, <1>2, <2>1, ApiDone
<1> QED BY <1>3, <1>4, <1>5 DEF DeferredApi

\* Every operation on the base preserves the invariant.
LEMMA BaseApiStep ==
    ASSUME IInv, NEW t \in Threads, BaseApi(t)
    PROVE  IInv'
<1>1. BaseOK(base) /\ gettime \in Nat /\ freed \subseteq Callbacks
    BY GettimeNat DEF IInv, CtlOK, CtlType, LoopType, CallType
<1>2. CASE event_base_loopbreak(t)
    <2>1. BaseOK(base')
        BY <1>1, <1>2, Notify, Zenon DEF event_base_loopbreak
    <2>2. CtlType'
        BY <1>2, Zenon
           DEF IInv, CtlOK, CtlType, LoopType, CallType, event_base_loopbreak, ctlVars, curVars,
               timeVars,
                    localVars, userVars
    <2>3. ThrOK' /\ PcOK' /\ WaitersCounted'
        BY <1>2, Zenon DEF IInv, CtlOK, ThrOK, PcOK, WaitersCounted, event_base_loopbreak,
                    ctlVars, curVars, localVars, userVars
    <2> QED BY <2>1, <2>2, <2>3 DEF IInv, CtlOK
<1>3. CASE event_base_loopcontinue(t)
    <2> DEFINE r == [base EXCEPT !.event_continue = TRUE]
    <2>1. r \in event_base /\ Assigned(base, r)
        BY <1>1, Zenon DEF BaseOK, event_base, Assigned
    <2>2. BaseOK(r)
        BY <1>1, <2>1, AssignedOK
    <2> HIDE DEF r
    <2>3. BaseOK(base')
        BY <1>3, <2>2, Notify, ZenonT(40) DEF event_base_loopcontinue, r
    <2> QED BY <1>1, <1>3, <2>3, ApiDone DEF event_base_loopcontinue
<1>4. ASSUME NEW e \in LoopExits, NEW tv_ \in Intervals \cup {NoTV},
             event_base_loopexit(t, e, tv_)
      PROVE  IInv'
    <2>1. e \in EventStructs
        BY ThreadsAssumption DEF EventStructs, Events
    <2>2. tv_ \in Nat \cup {NoTV}
        BY BoundsAssumption
    <2>3. BaseOK(event_active_nolock_(base, e, TRUE, 1, t))
        BY <1>1, <2>1, ActiveNolock, Zenon
    <2>4. BaseOK(event_add_nolock_(base, e, tv_, FALSE, TRUE, TRUE, t))
        BY <1>1, <2>1, <2>2, AddNolock, Zenon
    <2>5. BaseOK(base')
        BY <1>4, <2>3, <2>4, Zenon DEF event_base_loopexit
    <2> QED BY <1>1, <1>4, <2>5, ApiDone, Zenon DEF event_base_loopexit
<1>5. CASE event_base_add_virtual_(t)
    <2> DEFINE n == base.virtual_event_count + 1
               r == [base EXCEPT !.virtual_event_count = n]
    <2>1. r \in event_base /\ Assigned(base, r)
        <3>1. n \in Nat
            BY <1>1 DEF BaseOK, event_base
        <3> HIDE DEF n
        <3> QED BY <1>1, <3>1, Zenon DEF BaseOK, event_base, Assigned
    <2>2. BaseOK(r)
        BY <1>1, <2>1, AssignedOK
    <2>3. BaseOK(base')
        BY <1>5, <2>2 DEF event_base_add_virtual_
    <2> QED BY <1>1, <1>5, <2>3, ApiDone DEF event_base_add_virtual_
<1>6. CASE event_base_del_virtual_(t)
    <2> DEFINE n == base.virtual_event_count - 1
               r == [base EXCEPT !.virtual_event_count = n]
               need == base.virtual_event_count = 1
    <2>1. r \in event_base /\ Assigned(base, r)
        <3>1. n \in Nat
            BY <1>1, <1>6 DEF BaseOK, event_base, event_base_del_virtual_
        <3> HIDE DEF n
        <3> QED BY <1>1, <3>1, Zenon DEF BaseOK, event_base, Assigned
    <2>2. BaseOK(r)
        BY <1>1, <2>1, AssignedOK
    <2>3. base' = NotifyIf(r, need, t)
        BY <1>6 DEF event_base_del_virtual_
    <2> HIDE DEF r, need
    <2>4. BaseOK(base')
        BY <2>2, <2>3, Notify
    <2> QED BY <1>1, <1>6, <2>4, ApiDone DEF event_base_del_virtual_
<1> QED BY <1>2, <1>3, <1>4, <1>5, <1>6 DEF BaseApi

\* So does the rest of a call that had to wait.
LEMMA ResumeStep ==
    ASSUME IInv, NEW t \in Threads, Resume(t)
    PROVE  IInv'
<1> DEFINE e == thr[t].ev
           op == thr[t].op
<1>1. /\ BaseOK(base) /\ gettime \in Nat /\ freed \subseteq Callbacks
      /\ thr' = [thr EXCEPT ![t] = Idle]
      /\ UNCHANGED current_event_waiters /\ apiUnchanged
    BY GettimeNat DEF IInv, CtlOK, CtlType, LoopType, CallType, Resume
<1>2. thr[t] # Idle
    BY DEF Resume, Idle
<1>3. /\ e \in Events /\ e \in EventStructs /\ e \in Callbacks
      /\ op = "event_add" => thr[t].arg \in Nat \cup {NoTV}
      /\ op = "event_active" => thr[t].arg \in Nat
    BY <1>2 DEF IInv, CtlOK, ThrOK, EventStructs, Callbacks
<1>4. freed' \subseteq Callbacks
    BY <1>1, <1>3 DEF Resume
<1>5. PICK ok, hit :
         \/ /\ op = "event_add"
            /\ base' = event_add_nolock_(base, e, thr[t].arg, FALSE, ok, hit, t)
         \/ base' = event_del_nolock_(base, e, ok, hit, t)
         \/ /\ op = "event_active"
            /\ base' = event_active_finish(base, e, thr[t].arg, t)
         \/ base' = event_finalize_finish(base, e, t)
    BY Zenon DEF Resume
<1> HIDE DEF e, op
<1>6. BaseOK(base')
    <2>1. CASE base' = event_add_nolock_(base, e, thr[t].arg, FALSE, ok, hit, t) /\ op = "event_add"
        BY <1>1, <1>3, <2>1, AddNolock, Zenon
    <2>2. CASE base' = event_del_nolock_(base, e, ok, hit, t)
        BY <1>1, <1>3, <2>2, DelNolock
    <2>3. CASE base' = event_active_finish(base, e, thr[t].arg, t) /\ op = "event_active"
        BY <1>1, <1>3, <2>3, ActiveFinish
    <2>4. CASE base' = event_finalize_finish(base, e, t)
        BY <1>1, <1>3, <2>4, FinalizeFinish
    <2> QED BY <1>5, <2>1, <2>2, <2>3, <2>4, Zenon
<1> QED BY <1>1, <1>4, <1>6, ApiResumed, ZenonT(40)

----------------------------------------------------------------------------
(* The steps of the loop.                                                  *)

\* timeout_next gives NULL or a number of ticks.
LEMMA TimeoutNextInt ==
    ASSUME IInv, NEW t, timeout_next(base, t)
    PROVE  t \in Int
<1>1. gettime \in Nat
    BY GettimeNat
<1>2. \A e \in Timeouts(base) : base.ev_timeout[e] \in Nat
    BY DEF IInv, BaseOK, event_base, Timeouts
<1> QED BY <1>1, <1>2 DEF timeout_next, min_heap_top_, NoTV

\* A step of the loop outside the callbacks that wakes and starts nothing.
LEMMA LoopMoves ==
    ASSUME IInv, BaseOK(base'), CtlType', UNCHANGED <<curVars, evcb, evcb_closure, thr>>,
           pc \notin RunningPcs,
           pc' \in {"out", "top", "later", "dispatch", "polled", "events", "timeouts", "active"}
    PROVE  IInv'
<1>1. ThrOK' /\ WaitersCounted'
    BY DEF IInv, CtlOK, ThrOK, WaitersCounted, curVars
<1>2. PcOK'
    BY DEF IInv, CtlOK, PcOK, RunningPcs, curVars
<1> QED BY <1>1, <1>2 DEF IInv, CtlOK

\* The head of the while loop.
LEMMA LoopHead ==
    ASSUME IInv PROVE BaseOK(loop_head_base)
<1> DEFINE r == loop_head_base
<1>1. r \in event_base /\ Assigned(base, r)
    BY Zenon DEF IInv, BaseOK, event_base, Assigned, loop_head_base
<1>2. BaseOK(base)
    BY DEF IInv
<1> QED BY <1>1, <1>2, AssignedOK

\* event_base_loop returns.
LEMMA LoopReturnsType ==
    ASSUME LoopType, loop_returns,
           next_pri' \in Nat, count' \in Nat, endtime' \in Int,
           event_running_priority' \in Priorities \cup {-1}
    PROVE  LoopType'
<1>1. /\ tv_cache' \in Nat /\ pc' \in LoopPcs
      /\ tv' \in Int /\ deadline' \in Int /\ lag' \in Int
      /\ th_owner_id' \in Threads \cup {NULL}
    BY DEF loop_returns, LoopType, LoopPcs, NoTV
<1>2. ready' \subseteq UNION {Slots[e] : e \in IoEvents \cup Internal}
    BY DEF loop_returns
<1>3. running_loop' \in BOOLEAN
    BY Zenon DEF loop_returns
<1>4. lflags' \subseteq {"ONCE", "NONBLOCK", "NO_EXIT_ON_EMPTY"}
    BY DEF loop_returns
<1> QED BY <1>1, <1>2, <1>3, <1>4 DEF LoopType

\* event_process_active returns, whatever it returns.
LEMMA ProcessReturnsType ==
    ASSUME LoopType, NEW b, NEW n, NEW cache \in Nat, process_active_returns(b, n, cache)
    PROVE  LoopType' /\ pc' \in {"out", "top"}
<1>1. /\ event_running_priority' = -1 /\ next_pri' = 0 /\ endtime' = NoTV /\ count' = 0
    BY DEF process_active_returns, loop_turn_ends
<1>2. CASE loop_returns
    <2>1. LoopType'
        BY <1>1, <1>2, LoopReturnsType DEF NoTV
    <2> QED BY <1>2, <2>1 DEF loop_returns
<1>3. CASE /\ pc' = "top" /\ tv_cache' = cache
           /\ UNCHANGED <<running_loop, th_owner_id, lflags, tv, deadline, ready, lag>>
    BY <1>1, <1>3 DEF LoopType, NoTV, LoopPcs
<1> QED BY <1>2, <1>3 DEF process_active_returns, loop_turn_ends

\* event_process_active_single_queue returns count.
LEMMA QueueReturnsType ==
    ASSUME LoopType, NEW b, NEW cache \in Nat, single_queue_returns(b, cache)
    PROVE  LoopType' /\ pc' \in {"out", "top", "active"}
<1>1. CASE count > 0
    BY <1>1, ProcessReturnsType DEF single_queue_returns
<1>2. CASE ~(count > 0)
    <2>1. /\ next_pri' = event_running_priority + 1 /\ pc' = "active" /\ tv_cache' = cache
          /\ UNCHANGED <<ctlVars, endtime, count, lflags, tv, deadline, ready, lag>>
        BY <1>2 DEF single_queue_returns
    <2>2. event_running_priority + 1 \in Nat
        BY PrioritiesAssumption DEF LoopType, Priorities
    <2> QED BY <2>1, <2>2 DEF LoopType, LoopPcs, ctlVars
<1> QED BY <1>1, <1>2

\* event_base_loop begins.
LEMMA LoopStarts ==
    ASSUME IInv, NEW t \in Threads, event_base_loop(t)
    PROVE  IInv'
<1>1. CtlType'
    BY ThreadsAssumption, ZenonT(40)
       DEF event_base_loop, IInv, CtlOK, CtlType, LoopType, CallType, curVars, userVars, LoopPcs
<1>2. BaseOK(base')
    BY DEF event_base_loop, IInv
<1> QED BY <1>1, <1>2, LoopMoves DEF event_base_loop, userVars, RunningPcs

\* The decision at the head of the loop.
LEMMA LoopTopStep ==
    ASSUME IInv, loop_terminated \/ loop_empty \/ loop_goes_on
    PROVE  IInv'
<1>1. BaseOK(base')
    BY LoopHead DEF loop_terminated, loop_empty, loop_goes_on
<1>2. CASE loop_terminated \/ loop_empty
    <2>1. CtlType'
        <3>1. loop_returns /\ CtlType
            BY <1>2 DEF loop_terminated, loop_empty, IInv, CtlOK
        <3>2. UNCHANGED <<event_running_priority, curVars, termVars, clock, otherLocals, userVars>>
            BY <1>2 DEF loop_terminated, loop_empty
        <3>3. LoopType'
            BY <3>1, <3>2, LoopReturnsType, Zenon DEF CtlType, LoopType, otherLocals
        <3>4. CallType'
            BY <3>1, <3>2 DEF CtlType, CallType, curVars, termVars, otherLocals, userVars
        <3> QED BY <3>3, <3>4 DEF CtlType
    <2> QED BY <1>1, <1>2, <2>1, LoopMoves
            DEF loop_terminated, loop_empty, loop_returns, otherLocals, userVars, RunningPcs
<1>3. CASE loop_goes_on
    <2>1. tv' \in Int
        BY <1>3, TimeoutNextInt DEF loop_goes_on
    <2>2. CtlType'
        BY <1>3, <2>1 DEF loop_goes_on, otherLocals, IInv, CtlOK, CtlType, LoopType, CallType,
                    ctlVars, curVars, termVars, timeVars, userVars, LoopPcs
    <2> QED BY <1>1, <1>3, <2>2, LoopMoves
            DEF loop_goes_on, otherLocals, userVars, RunningPcs
<1> QED BY <1>2, <1>3

\* The active-later queue is emptied, and the backend polls.
LEMMA DispatchStep ==
    ASSUME IInv, \/ event_queue_make_later_events_active \/ dispatch
                 \/ epoll_wait_returns \/ dispatch_fails \/ dispatch_locks
    PROVE  IInv'
<1>1. CASE event_queue_make_later_events_active
    <2>1. BaseOK(base')
        BY <1>1, MakeLaterActive DEF event_queue_make_later_events_active, IInv
    <2>2. CtlType'
        BY <1>1 DEF event_queue_make_later_events_active, IInv, CtlOK, CtlType, LoopType, CallType,
                    ctlVars, curVars, termVars, timeVars, localVars, userVars
    <2> QED BY <1>1, <2>1, <2>2, LoopMoves, Zenon
            DEF event_queue_make_later_events_active, localVars, userVars, RunningPcs
<1>2. CASE dispatch
    <2>1. gettime \in Nat /\ BaseOK(base')
        BY <1>2, GettimeNat, Zenon DEF dispatch, IInv
    <2>2. clock \in Nat /\ tv \in Int
        BY Zenon DEF IInv, CtlOK, CtlType, LoopType, CallType
    <2>3. tv_cache' \in Nat /\ deadline' \in Int /\ lag' \in Int /\ tv' \in Int /\ pc' = "dispatch"
        <3>1. /\ tv_cache' = 0 /\ tv' = NoTV /\ pc' = "dispatch"
              /\ deadline' = IF tv = NoTV THEN NoTV ELSE clock + tv
              /\ lag' = clock - gettime
            BY <1>2, Zenon DEF dispatch
        <3> QED BY <2>1, <2>2, <3>1 DEF NoTV
    <2>4. UNCHANGED <<ctlVars, curVars, termVars, clock, lflags, ready, otherLocals, userVars>>
        BY <1>2, Zenon DEF dispatch
    <2>5. LoopType'
        BY <2>3, <2>4 DEF IInv, CtlOK, CtlType, LoopType, LoopPcs, ctlVars, otherLocals
    <2>6. CallType'
        BY <2>4 DEF IInv, CtlOK, CtlType, CallType, curVars, termVars, otherLocals, userVars
    <2>7. CtlType'
        BY <2>5, <2>6 DEF CtlType
    <2> QED BY <1>2, <2>1, <2>7, LoopMoves, Zenon DEF dispatch, otherLocals, userVars, RunningPcs
<1>3. CASE epoll_wait_returns
    <2>1. BaseOK(base')
        BY <1>3 DEF epoll_wait_returns, IInv
    <2>2. ready' \subseteq UNION {Slots[e] : e \in IoEvents \cup Internal}
        BY <1>3 DEF epoll_wait_returns, WatchedSlots, Internal
    <2>3. CtlType'
        BY <1>3, <2>2
           DEF epoll_wait_returns, IInv, CtlOK, CtlType, LoopType, CallType, otherLocals, NoTV,
               LoopPcs,
                    ctlVars, curVars, termVars, timeVars, userVars
    <2> QED BY <1>3, <2>1, <2>3, LoopMoves DEF epoll_wait_returns, otherLocals, userVars, RunningPcs
<1>4. CASE dispatch_fails
    <2>1. BaseOK(base')
        BY <1>4 DEF dispatch_fails, IInv
    <2>2. CtlType'
        <3>1. loop_returns /\ CtlType
            BY <1>4 DEF dispatch_fails, IInv, CtlOK
        <3>2. UNCHANGED <<event_running_priority, curVars, termVars, clock, otherLocals, userVars>>
            BY <1>4 DEF dispatch_fails
        <3>3. LoopType'
            BY <3>1, <3>2, LoopReturnsType DEF CtlType, LoopType, otherLocals
        <3>4. CallType'
            BY <3>1, <3>2 DEF CtlType, CallType, curVars, termVars, otherLocals, userVars
        <3> QED BY <3>3, <3>4 DEF CtlType
    <2> QED BY <1>4, <2>1, <2>2, LoopMoves
            DEF dispatch_fails, loop_returns, otherLocals, userVars, RunningPcs
<1>5. CASE dispatch_locks
    <2>1. BaseOK(base')
        BY <1>5 DEF dispatch_locks, IInv
    <2>2. CtlType'
        BY <1>5 DEF dispatch_locks, IInv, CtlOK, CtlType, LoopType, CallType, LoopPcs,
                    ctlVars, curVars, termVars, timeVars, localVars, userVars
    <2> QED BY <1>5, <2>1, <2>2, LoopMoves DEF dispatch_locks, localVars, userVars, RunningPcs
<1> QED BY <1>1, <1>2, <1>3, <1>4, <1>5

\* Descriptors and timeouts are made active.
LEMMA ActivationStep ==
    ASSUME IInv, evmap_io_active_ \/ dispatch_returns \/ timeout_process
    PROVE  IInv'
<1>1. BaseOK(base)
    BY DEF IInv
<1>2. CASE evmap_io_active_
    <2>1. PICK e \in IoEvents \cup Internal :
             base' = event_active_nolock_(base, e, FALSE, 1, th_owner_id)
        BY <1>2, Zenon DEF evmap_io_active_, ToActivate
    <2>2. BaseOK(base')
        BY <1>1, <2>1, ActiveNolock, ZenonT(40) DEF EventStructs, Events
    <2>3. CtlType'
        BY <1>2, Zenon DEF evmap_io_active_, IInv, CtlOK, CtlType, LoopType, CallType,
                    ctlVars, curVars, termVars, timeVars, localVars, userVars
    <2> QED BY <1>2, <2>2, <2>3, LoopMoves DEF evmap_io_active_, localVars, userVars, RunningPcs
<1>3. CASE dispatch_returns
    <2>1. BaseOK(base')
        BY <1>1, <1>3 DEF dispatch_returns
    <2>2. CtlType'
        BY <1>3
           DEF dispatch_returns, IInv, CtlOK, CtlType, LoopType, CallType, otherLocals, LoopPcs,
                    ctlVars, curVars, termVars, userVars
    <2> QED BY <1>3, <2>1, <2>2, LoopMoves DEF dispatch_returns, otherLocals, userVars, RunningPcs
<1>4. CASE timeout_process
    <2>1. PICK e \in EventStructs :
             base' = IF Has(base, e, "FINALIZING") THEN base
                     ELSE event_active_nolock_(
                            event_del_nolock_(base, e, TRUE, TRUE, th_owner_id),
                            e, TRUE, 1, th_owner_id)
        BY <1>4, Zenon DEF timeout_process, Elapsed, min_heap_top_, Timeouts
    <2> DEFINE b == event_del_nolock_(base, e, TRUE, TRUE, th_owner_id)
    <2>2. BaseOK(b)
        BY <1>1, DelNolock, Zenon
    <2> HIDE DEF b
    <2>3. BaseOK(event_active_nolock_(b, e, TRUE, 1, th_owner_id))
        BY <2>2, ActiveNolock, Zenon
    <2>4. BaseOK(base')
        BY <1>1, <2>1, <2>3, Zenon DEF b
    <2>5. CtlType'
        BY <1>4, Zenon DEF timeout_process, IInv, CtlOK, CtlType, LoopType, CallType,
                    ctlVars, curVars, termVars, timeVars, localVars, userVars
    <2> QED BY <1>4, <2>4, <2>5, LoopMoves DEF timeout_process, localVars, userVars, RunningPcs
<1> QED BY <1>2, <1>3, <1>4

\* event_process_active begins, ends, or is not needed.
LEMMA ProcessActiveStep ==
    ASSUME IInv, process_active_begins \/ nothing_active \/ process_active_ends
    PROVE  IInv'
<1>1. BaseOK(base') /\ CtlType
    BY DEF IInv, CtlOK, process_active_begins, nothing_active, process_active_ends
<1>2. CASE process_active_begins
    <2>1. endtime' \in Int /\ tv_cache' \in Nat
        BY <1>1, <1>2, BoundsAssumption DEF process_active_begins, CtlType, LoopType, CallType, NoTV
    <2>2. CtlType'
        BY <1>1, <1>2, <2>1, Zenon DEF process_active_begins, CtlType, LoopType, CallType, LoopPcs,
                    ctlVars, curVars, termVars, userVars
    <2> QED BY <1>1, <1>2, <2>2, LoopMoves DEF process_active_begins, userVars, RunningPcs
<1>3. CASE nothing_active
    <2>1. CASE "NONBLOCK" \in lflags
        <3>1. loop_returns /\ UNCHANGED <<event_running_priority, curVars, termVars, clock,
                                          otherLocals, userVars>>
            BY <1>3, <2>1 DEF nothing_active
        <3>2. CtlType'
            <4>1. LoopType'
                BY <1>1, <3>1, LoopReturnsType DEF CtlType, LoopType, otherLocals
            <4>2. CallType'
                BY <1>1, <3>1 DEF CtlType, CallType, curVars, termVars, otherLocals, userVars
            <4> QED BY <4>1, <4>2 DEF CtlType
        <3> QED BY <1>1, <1>3, <3>1, <3>2, LoopMoves
                DEF nothing_active, loop_returns, otherLocals, userVars, RunningPcs
    <2>2. CASE "NONBLOCK" \notin lflags
        <3>1. CtlType'
            BY <1>1, <1>3, <2>2, Zenon
               DEF nothing_active, CtlType, LoopType, CallType, otherLocals, LoopPcs,
                        curVars, termVars, userVars
        <3> QED BY <1>1, <1>3, <2>2, <3>1, LoopMoves
                DEF nothing_active, otherLocals, userVars, RunningPcs
    <2> QED BY <2>1, <2>2
<1>4. CASE process_active_ends
    <2>1. LoopType' /\ pc' \in {"out", "top"}
        BY <1>1, <1>4, ProcessReturnsType DEF process_active_ends, CtlType, LoopType
    <2>2. CallType'
        BY <1>1, <1>4 DEF process_active_ends, CtlType, CallType, curVars, termVars, userVars
    <2> QED BY <1>1, <1>4, <2>1, <2>2, LoopMoves
            DEF CtlType, process_active_ends, userVars, RunningPcs
<1> QED BY <1>2, <1>3, <1>4

\* event_process_active chooses a queue, or finds one exhausted.
LEMMA QueueStep ==
    ASSUME IInv, process_active_queue \/ queue_empty
    PROVE  IInv'
<1>1. BaseOK(base') /\ CtlType /\ LoopType
    BY Zenon DEF IInv, CtlOK, CtlType, process_active_queue, queue_empty
<1>2. CASE process_active_queue
    <2>1. event_running_priority' \in Priorities
        BY <1>2, Zenon DEF process_active_queue, NonEmpty
    <2>2. CtlType'
        BY <1>1, <1>2, <2>1 DEF process_active_queue, CtlType, LoopType, CallType, LoopPcs,
                    curVars, termVars, timeVars, userVars
    <2>3. ThrOK' /\ WaitersCounted' /\ PcOK'
        BY <1>2, <2>1 DEF process_active_queue, IInv, CtlOK, ThrOK, WaitersCounted, PcOK,
                    RunningPcs, curVars, userVars
    <2> QED BY <1>1, <2>2, <2>3 DEF IInv, CtlOK
<1>3. CASE queue_empty
    <2>1. LoopType' /\ pc' \in {"out", "top", "active"}
        BY <1>1, <1>3, QueueReturnsType, Zenon DEF queue_empty, LoopType
    <2>2. CallType'
        BY <1>1, <1>3, Zenon DEF queue_empty, CtlType, CallType, curVars, termVars, userVars
    <2> QED BY <1>1, <1>3, <2>1, <2>2, LoopMoves, ZenonT(40)
            DEF CtlType, queue_empty, userVars, RunningPcs
<1> QED BY <1>2, <1>3

\* A callback is taken off its queue and started; no thread can be waiting.
LEMMA RunCallbackStep ==
    ASSUME IInv, run_callback
    PROVE  IInv'
<1> DEFINE q == base.activequeues[event_running_priority]
           c == Head(q)
           deletes == c \in Events \ Persist /\ ~Has(base, c, "FINALIZING")
           b == IF deletes THEN event_del_nolock_(base, c, TRUE, TRUE, th_owner_id)
                ELSE event_queue_remove_active(base, c)
           closure == base.closure[c]
<1>1. /\ BaseOK(base) /\ CtlType /\ gettime \in Nat
      /\ pc = "queue" /\ event_running_priority \in Priorities /\ q # << >>
      /\ current_event = NULL
    BY GettimeNat, Zenon DEF IInv, CtlOK, PcOK, run_callback, RunningPcs
<1>2. c \in Callbacks /\ Has(base, c, "ACTIVE")
    <2> DEFINE M == ActiveAt(base.flags, event_running_priority)
    <2>1. q \in Seq(Callbacks) /\ Lists(q, M)
        BY <1>1 DEF BaseOK, QueuesMatchFlags, event_base
    <2> HIDE DEF q, M
    <2>2. c \in Callbacks /\ c \in M
        BY <1>1, <2>1, ListsTail
    <2> QED BY <2>2 DEF M, ActiveAt, Has
<1>3. closure \in Closures /\ closure \in {event_assign(c)} \cup Finalizers
    BY <1>1, <1>2 DEF BaseOK, ClosuresKept, event_base
<1>4. closure \in {"EVENT_SIGNAL", "EVENT_PERSIST"} => c \in EventStructs
    BY <1>2, <1>3, CallbacksAssumption
        DEF event_assign, Finalizers, Callbacks, EventStructs, Events
<1>5. /\ evcb' = c /\ evcb_closure' = closure
      /\ current_event' = IF closure \in Finalizers THEN NULL ELSE c
      /\ count' = IF count + Counted(c) <= CountCap THEN count + Counted(c) ELSE CountCap
      /\ current_event_waiters' = 0
      /\ pc' \in {"body_done", "callback"}
      /\ UNCHANGED <<ctlVars, termVars, timeVars, lflags, tv, deadline, ready, lag,
                     next_pri, endtime, userVars>>
    BY Zenon DEF run_callback
<1>6. \/ /\ closure = "EVENT_SIGNAL" /\ base' = event_signal_closure(b, c)
      \/ /\ closure = "EVENT_PERSIST"
         /\ \E ok \in Accepts(c) : base' = event_persist_closure(b, c, ok)
      \/ base' = b
    BY Zenon DEF run_callback
<1> HIDE DEF c, closure, q
<1>7. BaseOK(b)
    <2>1. deletes => c \in EventStructs
        BY DEF EventStructs
    <2>2. deletes => BaseOK(event_del_nolock_(base, c, TRUE, TRUE, th_owner_id))
        BY <1>1, <2>1, DelNolock, Zenon
    <2>3. BaseOK(event_queue_remove_active(base, c))
        BY <1>1, <1>2, RemoveActive
    <2> QED BY <2>2, <2>3, Zenon
<1> HIDE DEF b
<1>8. BaseOK(base')
    <2>1. CASE closure = "EVENT_SIGNAL" /\ base' = event_signal_closure(b, c)
        BY <1>4, <1>7, <2>1, SignalClosure
    <2>2. CASE /\ closure = "EVENT_PERSIST"
               /\ \E ok \in Accepts(c) : base' = event_persist_closure(b, c, ok)
        BY <1>1, <1>4, <1>7, <2>2, PersistClosure
    <2> QED BY <1>6, <1>7, <2>1, <2>2
<1>9. count' \in Nat
    <2>1. count + Counted(c) \in Nat /\ CountCap \in Nat
        BY <1>1, BoundsAssumption DEF CtlType, LoopType, Counted, CountCap
    <2> QED BY <1>5, <2>1
<1>10. CtlType'
    <2>1. LoopType'
        BY <1>1, <1>5, <1>9 DEF CtlType, LoopType, LoopPcs, ctlVars, timeVars
    <2>2. CallType'
        BY <1>1, <1>2, <1>3, <1>5 DEF CtlType, CallType, termVars, timeVars, userVars
    <2> QED BY <2>1, <2>2 DEF CtlType
<1>11. ThrOK'
    BY <1>5 DEF IInv, CtlOK, ThrOK, userVars
<1>12. \A t \in Threads : thr[t] = Idle \/ thr[t].woken
    BY <1>1, NULLNotEvent, Zenon DEF IInv, CtlOK, ThrOK, WaitersCounted
<1>13. WaitersCounted'
    BY <1>5, <1>12 DEF WaitersCounted, userVars
<1>14. PcOK'
    BY <1>1, <1>2, <1>5, CallbacksAssumption DEF PcOK, RunningPcs, ctlVars
<1> QED BY <1>8, <1>10, <1>11, <1>13, <1>14 DEF IInv, CtlOK

\* A step inside a callback, the loop still in it.
LEMMA InCallback ==
    ASSUME IInv, BaseOK(base'), callbackUnchanged, event_break' = event_break,
           event_gotterm' \in BOOLEAN, pc \in RunningPcs, pc' \in RunningPcs
    PROVE  IInv'
<1>1. CtlType'
    BY Zenon DEF IInv, CtlOK, CtlType, LoopType, CallType, callbackUnchanged, RunningPcs, LoopPcs,
           ctlVars, curVars, timeVars, localVars, userVars
<1>2. ThrOK' /\ WaitersCounted' /\ PcOK'
    BY Zenon DEF IInv, CtlOK, ThrOK, WaitersCounted, PcOK, callbackUnchanged,
           ctlVars, curVars, localVars, userVars
<1> QED BY <1>1, <1>2 DEF IInv, CtlOK

\* What the callbacks of the library itself do.
LEMMA CallbackStep ==
    ASSUME IInv, \/ notify_drain_reads \/ notify_drain_clears
                 \/ evsig_cb_locks \/ evmap_signal_active_ \/ evsig_cb_unlocks
                 \/ event_loopexit_cb \/ signal_callback_again
    PROVE  IInv'
<1>1. BaseOK(base) /\ event_gotterm \in BOOLEAN
    BY DEF IInv, CtlOK, CtlType, CallType
<1>2. /\ callbackUnchanged /\ event_break' = event_break
      /\ pc \in RunningPcs /\ pc' \in RunningPcs
    BY Zenon DEF notify_drain_reads, notify_drain_clears, evsig_cb_locks, evmap_signal_active_,
           evsig_cb_unlocks, event_loopexit_cb, signal_callback_again, BodyDone,
           RunningPcs, termVars
<1>3. event_gotterm' \in BOOLEAN
    BY <1>1, Zenon
       DEF notify_drain_reads, notify_drain_clears, evsig_cb_locks, evmap_signal_active_,
           evsig_cb_unlocks, event_loopexit_cb, signal_callback_again, termVars
<1>4. CASE notify_drain_reads \/ notify_drain_clears
    <2> DEFINE r == [base EXCEPT !.notify_fd = FALSE]
               s == [base EXCEPT !.is_notify_pending = FALSE]
    <2>1. r \in event_base /\ Assigned(base, r) /\ s \in event_base /\ Assigned(base, s)
        BY <1>1, Zenon DEF BaseOK, event_base, Assigned
    <2>2. BaseOK(r) /\ BaseOK(s)
        BY <1>1, <2>1, AssignedOK
    <2>3. BaseOK(base')
        BY <1>4, <2>2, Zenon DEF notify_drain_reads, notify_drain_clears
    <2> QED BY <1>2, <1>3, <2>3, InCallback
<1>5. CASE evsig_cb_locks \/ evsig_cb_unlocks \/ event_loopexit_cb
    <2>1. BaseOK(base')
        BY <1>1, <1>5 DEF evsig_cb_locks, evsig_cb_unlocks, event_loopexit_cb
    <2> QED BY <1>2, <1>3, <2>1, InCallback
<1>6. CASE evmap_signal_active_
    <2>1. PICK e \in SignalEvents, n \in 1 .. MaxNcalls :
             base' = event_active_nolock_(base, e, FALSE, n, th_owner_id)
        BY <1>6, Zenon DEF evmap_signal_active_
    <2>2. e \in EventStructs /\ n \in Nat
        BY BoundsAssumption DEF EventStructs, Events
    <2>3. BaseOK(base')
        BY <1>1, <2>1, <2>2, ActiveNolock, Zenon
    <2> QED BY <1>2, <1>3, <2>3, InCallback
<1>7. CASE signal_callback_again
    <2>1. BaseOK(base')
        BY <1>1, <1>7, SignalTurn DEF signal_callback_again, SignalGoesOn
    <2> QED BY <1>2, <1>3, <2>1, InCallback
<1> QED BY <1>4, <1>5, <1>6, <1>7

\* A callback ends, and every thread that waits for it is woken.
LEMMA CallbackReturnsStep ==
    ASSUME IInv, callback_returns
    PROVE  IInv'
<1> DEFINE b == IF evcb_closure = "EVENT_SIGNAL" THEN signal_closure_returns(base, evcb)
                ELSE base
           full  == count >= max_to_process
           timed == /\ ~full /\ count > 0 /\ endtime # NoTV
                    /\ event_running_priority >= limit_callbacks_after_prio
           cache == IF timed THEN clock ELSE tv_cache
           stop  == full \/ (timed /\ clock >= endtime) \/ b.event_continue
<1>1. BaseOK(base) /\ LoopType /\ CallType /\ cache \in Nat /\ pc \in RunningPcs
    BY DEF IInv, CtlOK, CtlType, LoopType, CallType, callback_returns, BodyDone, RunningPcs
<1>2. BaseOK(b)
    BY <1>1, SignalReturns
<1>3. /\ base' = b
      /\ \/ process_active_returns(b, -1, tv_cache)
         \/ single_queue_returns(b, cache)
         \/ /\ pc' = "queue" /\ tv_cache' = cache
            /\ UNCHANGED <<ctlVars, lflags, tv, deadline, ready, lag, next_pri, endtime, count>>
    BY DEF callback_returns
<1>4. /\ current_event' = NULL /\ current_event_waiters' = 0
      /\ thr' = IF current_event_waiters = 0 THEN thr
                ELSE [t \in Threads |-> IF thr[t] = Idle THEN Idle
                                        ELSE [thr[t] EXCEPT !.woken = TRUE]]
      /\ finalized' = IF evcb_closure \in Finalizers THEN finalized \cup {evcb} ELSE finalized
      /\ freed' = IF evcb_closure = "EVENT_FINALIZE_FREE" THEN freed \cup {evcb} ELSE freed
      /\ evcb' = NULL /\ evcb_closure' = "EVENT"
      /\ UNCHANGED <<termVars, clock>>
    BY DEF callback_returns
<1> HIDE DEF b, cache
<1>5. LoopType' /\ pc' \in {"out", "top", "active", "queue"}
    <2>1. CASE process_active_returns(b, -1, tv_cache)
        <3>1. tv_cache \in Nat
            BY <1>1 DEF LoopType
        <3> QED BY <1>1, <2>1, <3>1, ProcessReturnsType
    <2>2. CASE single_queue_returns(b, cache)
        BY <1>1, <2>2, QueueReturnsType
    <2>3. CASE /\ pc' = "queue" /\ tv_cache' = cache
               /\ UNCHANGED <<ctlVars, lflags, tv, deadline, ready, lag, next_pri, endtime, count>>
        BY <1>1, <2>3 DEF LoopType, LoopPcs, ctlVars
    <2> QED BY <1>3, <2>1, <2>2, <2>3
<1>6. pc' = "queue" => event_running_priority' \in Priorities
    <2>1. pc' = "queue" => UNCHANGED ctlVars
        BY <1>3 DEF process_active_returns, loop_turn_ends, single_queue_returns, loop_returns
    <2> QED BY <1>1, <2>1 DEF IInv, CtlOK, PcOK, ctlVars
<1>7. thr' \in [Threads -> [op: {"none", "event_add", "event_free", "event_active",
                                "event_finalize"} \cup DelOps,
                            ev: Events \cup {NULL}, arg: Int, woken: BOOLEAN]]
    BY <1>1, <1>4, Zenon DEF CallType, Idle
<1>8. freed' \subseteq Callbacks /\ finalized' \subseteq Callbacks
    BY <1>1, <1>4 DEF IInv, CtlOK, PcOK, CallType, Finalizers
<1>9. CallType'
    BY <1>1, <1>4, <1>7, <1>8 DEF CallType, Closures, termVars
<1>10. \A t \in Threads :
          \/ thr'[t] = thr[t] /\ (thr[t] = Idle \/ thr[t].woken)
          \/ thr[t] # Idle /\ thr'[t] = [thr[t] EXCEPT !.woken = TRUE]
    BY <1>1, <1>4 DEF IInv, CtlOK, WaitersCounted, CallType
<1>11. \A t \in Threads : thr'[t] = Idle \/ thr'[t].woken
    BY <1>1, <1>10, ZenonT(40) DEF CallType
<1>12. ThrOK'
    <2>1. \A t \in Threads : /\ thr'[t].op = thr[t].op /\ thr'[t].ev = thr[t].ev
                             /\ thr'[t].arg = thr[t].arg
                             /\ thr'[t] # Idle => thr[t] # Idle
        BY <1>1, <1>10, ZenonT(40) DEF CallType
    <2> QED BY <2>1 DEF IInv, CtlOK, ThrOK
<1>13. WaitersCounted'
    BY <1>11 DEF WaitersCounted
<1>14. PcOK'
    BY <1>4, <1>5, <1>6 DEF PcOK, RunningPcs, Finalizers
<1> QED BY <1>2, <1>3, <1>5, <1>9, <1>12, <1>13, <1>14 DEF IInv, CtlOK, CtlType

\* Time passes.
LEMMA TickStep ==
    ASSUME IInv, Tick
    PROVE  IInv'
<1>1. BaseOK(base')
    BY Zenon DEF IInv, Tick
<1>2. CtlType'
    <2>1. clock' \in Nat
        <3>1. clock \in Nat /\ clock' = clock + 1
            BY Zenon DEF IInv, CtlOK, CtlType, CallType, Tick
        <3> QED BY <3>1
    <2>2. LoopType'
        BY Zenon DEF Tick, IInv, CtlOK, CtlType, LoopType, ctlVars, localVars
    <2>3. CallType'
        BY <2>1, Zenon
           DEF Tick, IInv, CtlOK, CtlType, CallType, curVars, termVars, localVars, userVars
    <2> QED BY <2>2, <2>3 DEF CtlType
<1>3. ThrOK' /\ WaitersCounted' /\ PcOK'
    BY Zenon
       DEF Tick, IInv, CtlOK, ThrOK, WaitersCounted, PcOK, ctlVars, curVars, localVars, userVars
<1> QED BY <1>1, <1>2, <1>3 DEF IInv, CtlOK

\* A new base satisfies the invariant.
LEMMA InitInv ==
    ASSUME Cardinalities, Init PROVE IInv
<1>1. BaseOK(base)
    BY NewBase DEF Init
<1>2. LoopType
    <2>1. running_loop \in BOOLEAN
        BY Zenon DEF Init
    <2>2. lflags \subseteq {"ONCE", "NONBLOCK", "NO_EXIT_ON_EMPTY"}
        BY DEF Init
    <2>3. ready \subseteq UNION {Slots[e] : e \in IoEvents \cup Internal}
        BY DEF Init
    <2> QED BY <2>1, <2>2, <2>3 DEF Init, LoopType, LoopPcs, NoTV
<1>3. CallType
    <2>1. thr \in [Threads -> [op: {"none", "event_add", "event_free", "event_active",
                                   "event_finalize"} \cup DelOps,
                               ev: Events \cup {NULL}, arg: Int, woken: BOOLEAN]]
        BY DEF Init, Idle
    <2>2. event_break \in BOOLEAN /\ event_gotterm \in BOOLEAN
        BY Zenon DEF Init
    <2>3. freed \subseteq Callbacks /\ finalized \subseteq Callbacks
        BY DEF Init
    <2> QED BY <2>1, <2>2, <2>3 DEF Init, CallType, Closures
<1>4. ThrOK /\ PcOK /\ WaitersCounted
    BY DEF Init, ThrOK, PcOK, WaitersCounted, RunningPcs, Finalizers
<1> QED BY <1>1, <1>2, <1>3, <1>4 DEF IInv, CtlOK, CtlType

\* Every step preserves the invariant.
LEMMA NextInv == IInv /\ [Next]_vars => IInv'
<1> SUFFICES ASSUME IInv, [Next]_vars PROVE IInv'
    OBVIOUS
<1>1. ASSUME NEW t \in Threads, NEW e \in UserEvents, EventApi(t, e) PROVE IInv'
    BY <1>1, EventApiStep DEF UserEvents
<1>2. ASSUME NEW t \in Threads, NEW c \in Deferreds, DeferredApi(t, c) PROVE IInv'
    BY <1>2, DeferredApiStep
<1>3. ASSUME NEW t \in Threads, BaseApi(t) \/ Resume(t) \/ event_base_loop(t) PROVE IInv'
    BY <1>3, BaseApiStep, ResumeStep, LoopStarts
<1>4. CASE LoopStep
    BY <1>4, LoopTopStep, DispatchStep, ActivationStep, ProcessActiveStep, QueueStep,
       RunCallbackStep, CallbackStep, CallbackReturnsStep DEF LoopStep
<1>5. CASE epoll_wait_returns \/ dispatch_fails \/ Tick
    BY <1>5, DispatchStep, TickStep
<1>6. CASE UNCHANGED vars
    <2>1. BaseOK(base')
        BY <1>6 DEF vars, IInv
    <2>2. CtlType'
        BY <1>6, Zenon DEF vars, IInv, CtlOK, CtlType, LoopType, CallType,
               ctlVars, curVars, termVars, timeVars, localVars, userVars
    <2>3. ThrOK' /\ WaitersCounted' /\ PcOK'
        BY <1>6, Zenon DEF vars, IInv, CtlOK, ThrOK, WaitersCounted, PcOK,
               ctlVars, curVars, localVars, userVars
    <2> QED BY <2>1, <2>2, <2>3 DEF IInv, CtlOK
<1> QED BY <1>1, <1>2, <1>3, <1>4, <1>5, <1>6 DEF Next

\* NoEvents is what it says.
LEMMA EmptyCount ==
    ASSUME IInv, NoEvents
    PROVE  /\ base.virtual_event_count = 0
           /\ \A c \in Callbacks \ Internal : base.flags[c] \subseteq {"FINALIZING"}
<1>1. BaseOK(base) /\ base.virtual_event_count \in Nat
    BY Zenon DEF IInv, BaseOK, event_base
<1>2. base.virtual_event_count = 0 /\ base.event_count = 0
    BY <1>1, CountsNat DEF NoEvents, event_haveevents
<1> QED BY <1>1, <1>2, EmptyFlags
=============================================================================
