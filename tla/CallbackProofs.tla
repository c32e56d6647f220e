--------------------------- MODULE CallbackProofs ---------------------------
(***************************************************************************)
(* Why a finalizer that was asked for runs, and is the last thing that     *)
(* happens to its callback, and why no callback is started while a more    *)
(* urgent one is waiting: the two invariants, and that every step keeps them.*)
(***************************************************************************)
EXTENDS EventBaseProofs

----------------------------------------------------------------------------
(* The inductive invariant.                                                *)

\* No thread ever waits for the callback of an event that may be finalized:
\* a program that calls event_finalize assigns its events with EV_FINALIZE,
\* calls no event_del_block and has no signal event.  Without this a thread
\* that resumes in event_del or event_finalize meets an event that another
\* one has finalized meanwhile, and takes it off the queue or marks it late.
NobodyWaits ==
    "event_finalize" \in Ops =>
        SignalEvents = {} /\ UserEvents \subseteq EvFinalize /\ "event_del_block" \notin Ops

\* The finalizer of c is running.
FinalizerRuns(c) == evcb = c /\ evcb_closure \in Finalizers

\* What holds of a callback c: it is marked exactly when its closure is a
\* finalizer, and then it is active, or its finalizer is running or has run;
\* from the moment the finalizer starts c is on no queue.
FinalizerOK(c) ==
    /\ Finalizing(base, c) <=> base.closure[c] \in Finalizers
    /\ Finalizing(base, c) =>
          /\ base.flags[c] \subseteq {"ACTIVE", "FINALIZING"}
          /\ Has(base, c, "ACTIVE") \/ FinalizerRuns(c) \/ c \in finalized
          /\ c \notin Internal
          /\ c \in Events => "event_finalize" \in Ops
    /\ c \in finalized \/ FinalizerRuns(c) => base.flags[c] = {"FINALIZING"}

ThreadsFree ==
    \A t \in Threads :
        thr[t] # Idle => "event_finalize" \notin Ops /\ thr[t].op # "event_finalize"

FinInv ==
    /\ \A c \in Callbacks : FinalizerOK(c)
    /\ pc \notin RunningPcs => evcb = NULL
    /\ ThreadsFree

\* The invariant implies what TLC checks.
LEMMA FinInvImplies ==
    ASSUME IInv, FinInv PROVE FinalizersSafe
<1>1. FinalizersKept
    BY DEF FinInv, FinalizerOK, FinalizersKept, Finalizing, FinalizerRuns
<1>2. evcb_closure \in Finalizers => evcb \in Callbacks
    BY DEF IInv, CtlOK, PcOK, CtlType, CallType
<1>3. FinalizersMarked
    BY <1>2 DEF FinInv, FinalizerOK, FinalizersMarked, FinalizerRuns, Has
<1> QED BY <1>1, <1>3 DEF FinalizersSafe

\* The internal events are not finalizing.
LEMMA FinInternals ==
    ASSUME FinInv PROVE Internals(base)
BY DEF FinInv, FinalizerOK, Internals, Callbacks, EventStructs

\* A step that keeps the finalizers and starts and ends no callback.
LEMMA KeepsFin ==
    ASSUME FinInv, Keeps(base, base'), UNCHANGED <<evcb, evcb_closure, finalized>>,
           ThreadsFree', pc' \notin RunningPcs => pc \notin RunningPcs
    PROVE  FinInv'
<1>1. ASSUME NEW c \in Callbacks PROVE FinalizerOK(c)'
    <2>1. FinalizerOK(c)
        BY DEF FinInv
    <2>2. /\ base'.closure[c] = base.closure[c]
          /\ Finalizing(base', c) <=> Finalizing(base, c)
          /\ Finalizing(base, c) => base'.flags[c] = base.flags[c]
        BY DEF Keeps, Spares
    <2>3. FinalizerRuns(c)' <=> FinalizerRuns(c)
        BY DEF FinalizerRuns
    <2>4. base.flags[c] = {"FINALIZING"} => Finalizing(base, c)
        BY DEF Finalizing, Has
    <2> QED BY <2>1, <2>2, <2>3, <2>4 DEF FinalizerOK, Has
<1> QED BY <1>1 DEF FinInv

\* A call that finalizes c, which no finalizer has started on.
LEMMA FinalizesFin ==
    ASSUME FinInv, NEW c \in Callbacks, Finalizes(base, base', c),
           c \notin finalized, ~FinalizerRuns(c), c \notin Internal,
           c \in Events => "event_finalize" \in Ops,
           UNCHANGED <<evcb, evcb_closure, finalized, thr, pc>>
    PROVE  FinInv'
<1>1. ASSUME NEW d \in Callbacks \ {c} PROVE FinalizerOK(d)'
    <2>1. FinalizerOK(d)
        BY DEF FinInv
    <2>2. /\ base'.closure[d] = base.closure[d]
          /\ Finalizing(base', d) <=> Finalizing(base, d)
          /\ Finalizing(base, d) => base'.flags[d] = base.flags[d]
        BY DEF Finalizes, Spares
    <2>3. FinalizerRuns(d)' <=> FinalizerRuns(d)
        BY DEF FinalizerRuns
    <2>4. base.flags[d] = {"FINALIZING"} => Finalizing(base, d)
        BY DEF Finalizing, Has
    <2> QED BY <2>1, <2>2, <2>3, <2>4 DEF FinalizerOK, Has
<1>2. FinalizerOK(c)'
    <2>1. FinalizerOK(c)
        BY DEF FinInv
    <2>2. /\ base'.closure[c] \in Finalizers
          /\ IF Finalizing(base, c) THEN base'.flags[c] = base.flags[c]
             ELSE base'.flags[c] = {"ACTIVE", "FINALIZING"}
        BY DEF Finalizes
    <2>3. ~FinalizerRuns(c)' /\ c \notin finalized'
        BY DEF FinalizerRuns
    <2>4. /\ Finalizing(base', c)
          /\ base'.flags[c] \subseteq {"ACTIVE", "FINALIZING"}
          /\ Has(base', c, "ACTIVE")
        BY <2>1, <2>2 DEF FinalizerOK, Finalizing, Has
    <2> QED BY <2>2, <2>3, <2>4 DEF FinalizerOK
<1>3. ThreadsFree' /\ (pc' \notin RunningPcs => evcb' = NULL)
    BY DEF FinInv, ThreadsFree
<1> QED BY <1>1, <1>2, <1>3 DEF FinInv

----------------------------------------------------------------------------
(* The operations of the program.                                          *)

\* A callback that may be used and is finalizing is active.
LEMMA UsableActive ==
    ASSUME FinInv, NEW t, NEW c \in Callbacks, Usable(t, c)
    PROVE  /\ c \notin finalized /\ ~FinalizerRuns(c)
           /\ Finalizing(base, c) => IsActive(base, c)
BY DEF FinInv, FinalizerOK, Usable, FinalizerRuns, IsActive

\* A thread waits for an event only when no event can be finalized.
LEMMA WaitsFree ==
    ASSUME FinInv, NobodyWaits, NEW t \in Threads, NEW op, NEW e \in UserEvents, NEW arg,
           EVTHREAD_COND_WAIT(t, op, e, arg), op \in Ops,
           e \in SignalEvents \/ DelWaits(t, e, op),
           thr \in [Threads -> [op: {"none", "event_add", "event_free", "event_active",
                                     "event_finalize"} \cup DelOps,
                                ev: Events \cup {NULL}, arg: Int, woken: BOOLEAN]]
    PROVE  ThreadsFree'
<1>1. "event_finalize" \notin Ops
    BY DEF NobodyWaits, DelWaits
<1>2. op # "event_finalize"
    BY <1>1
<1>3. thr' = [thr EXCEPT ![t] = [op |-> op, ev |-> e, arg |-> arg, woken |-> FALSE]]
    BY DEF EVTHREAD_COND_WAIT
<1> QED BY <1>1, <1>2, <1>3 DEF FinInv, ThreadsFree

\* The operations on an event.
LEMMA EventApiFin ==
    ASSUME IInv, FinInv, NobodyWaits, NEW t \in Threads, NEW e \in UserEvents, EventApi(t, e)
    PROVE  FinInv'
<1>1. /\ BaseOK(base) /\ e \in Events /\ e \in EventStructs /\ e \in Callbacks
      /\ e \notin Internal /\ gettime \in Nat /\ Internals(base) /\ CallType
    BY GettimeNat, FinInternals, CallbacksAssumption
       DEF IInv, CtlOK, CtlType, UserEvents, EventStructs, Callbacks
<1>2. Keeps(base, base)
    BY KeepsSame
<1>3. ASSUME Keeps(base, base'), apiUnchanged, thr' = thr \/ ThreadsFree'
      PROVE  FinInv'
    <2>1. UNCHANGED <<evcb, evcb_closure, finalized, pc>>
        BY <1>3 DEF apiUnchanged, localVars
    <2>2. ThreadsFree'
        BY <1>3 DEF FinInv, ThreadsFree
    <2> QED BY <1>3, <2>1, <2>2, KeepsFin
<1>4. ASSUME NEW tv_ \in Intervals \cup {NoTV}, event_add(t, e, tv_)
      PROVE  FinInv'
    <2>1. tv_ \in Nat \cup {NoTV} /\ apiUnchanged /\ ~Finalizing(base, e) /\ "event_add" \in Ops
        BY <1>4, BoundsAssumption DEF event_add, Calls, Finalizing
    <2>2. CASE e \in SignalEvents /\ EVTHREAD_COND_WAIT(t, "event_add", e, tv_) /\ UNCHANGED base
        BY <1>1, <1>2, <1>3, <2>1, <2>2, WaitsFree DEF CallType
    <2>3. ASSUME NEW ok, NEW hit, UNCHANGED thr,
                 base' = event_add_nolock_(base, e, tv_, FALSE, ok, hit, t)
          PROVE  FinInv'
        BY <1>1, <1>3, <2>1, <2>3, AddKeeps, Zenon
    <2> QED BY <1>4, <2>2, <2>3, Zenon DEF event_add
<1>5. ASSUME NEW op \in DelOps \cup {"event_free"},
             Calls(t, op), ~Has(base, e, "FINALIZING"), apiUnchanged,
             \/ DelWaits(t, e, op) /\ EVTHREAD_COND_WAIT(t, op, e, 0) /\ UNCHANGED base
             \/ /\ UNCHANGED thr
                /\ \E ok, hit : base' = event_del_nolock_(base, e, ok, hit, t)
      PROVE  FinInv'
    <2>1. ~Finalizing(base, e) /\ op \in Ops /\ op # "event_finalize"
        BY <1>5 DEF Calls, Finalizing, DelOps
    <2>2. CASE DelWaits(t, e, op) /\ EVTHREAD_COND_WAIT(t, op, e, 0) /\ UNCHANGED base
        BY <1>1, <1>2, <1>3, <1>5, <2>1, <2>2, WaitsFree, SMTT(30) DEF CallType
    <2>3. ASSUME NEW ok, NEW hit, UNCHANGED thr,
                 base' = event_del_nolock_(base, e, ok, hit, t)
          PROVE  FinInv'
        BY <1>1, <1>3, <1>5, <2>1, <2>3, DelKeeps
    <2> QED BY <1>5, <2>2, <2>3
<1>6. ASSUME NEW op \in DelOps, event_del(t, e, op)
      PROVE  FinInv'
    BY <1>5, <1>6 DEF event_del
<1>7. ASSUME event_free(t, e)
      PROVE  FinInv'
    BY <1>5, <1>7 DEF event_free
<1>8. ASSUME NEW timeout \in BOOLEAN, NEW n \in Nat, event_active(t, e, timeout, n)
      PROVE  FinInv'
    <2>1. apiUnchanged /\ "event_active" \in Ops
        BY <1>8 DEF event_active, Calls
    <2>2. CASE /\ e \in SignalEvents /\ EVTHREAD_COND_WAIT(t, "event_active", e, n)
               /\ base' = event_active_enter(base, e, timeout)
        BY <1>1, <1>3, <2>1, <2>2, WaitsFree, EnterKeeps, Zenon DEF CallType
    <2>3. CASE UNCHANGED thr /\ base' = event_active_nolock_(base, e, timeout, n, t)
        BY <1>1, <1>3, <2>1, <2>3, ActiveKeeps
    <2> QED BY <1>8, <2>2, <2>3 DEF event_active
<1>9. ASSUME event_active_later_(t, e)
      PROVE  FinInv'
    <2> DEFINE r == [base EXCEPT !.res_timeout[e] = FALSE]
               b == IF IsActive(base, e) THEN base ELSE r
    <2>1. r \in event_base /\ Assigned(base, r)
        BY <1>1, Zenon DEF BaseOK, event_base, Assigned
    <2>2. BaseOK(r)
        BY <1>1, <2>1, AssignedOK
    <2>3. r.flags = base.flags /\ r.closure = base.closure
        BY <1>1 DEF BaseOK, event_base
    <2> HIDE DEF r
    <2>4. BaseOK(b) /\ Keeps(base, b) /\ b.flags = base.flags
        BY <1>1, <1>2, <2>2, <2>3, KeepsSame
    <2>5. base' = event_callback_activate_later_nolock_(b, e, t) /\ apiUnchanged /\ Usable(t, e)
          /\ UNCHANGED thr
        BY <1>9 DEF event_active_later_, r
    <2> HIDE DEF b
    <2>6. Finalizing(b, e) => IsActive(b, e)
        BY <1>1, <2>4, <2>5, UsableActive DEF Finalizing, IsActive, Has
    <2>7. Keeps(base, base')
        BY <1>1, <2>4, <2>5, <2>6, LaterKeeps, KeepsTwice
    <2> QED BY <1>3, <2>5, <2>7
<1>10. ASSUME NEW closure \in {"EVENT_FINALIZE", "EVENT_FINALIZE_FREE"},
              event_finalize(t, e, closure)
       PROVE  FinInv'
    <2>1. PICK ok, hit :
            LET b == event_finalize_enter(base, e, closure, ok, hit, t)
            IN  \/ e \in SignalEvents
                \/ /\ base' = IF Has(base, e, "FINALIZING") THEN b
                              ELSE event_finalize_finish(b, e, t)
                   /\ UNCHANGED thr
        BY <1>10, Zenon DEF event_finalize
    <2>2. apiUnchanged /\ Usable(t, e) /\ "event_finalize" \in Ops
        BY <1>10, Zenon DEF event_finalize, Calls
    <2>3. e \notin SignalEvents /\ closure \in Finalizers
        BY <2>2 DEF NobodyWaits, Finalizers
    <2>4. Finalizes(base, base', e) /\ UNCHANGED thr
        BY <1>1, <2>1, <2>3, FinalizeFinalizes DEF Finalizing
    <2>5. UNCHANGED <<evcb, evcb_closure, finalized, pc>>
        BY <2>2 DEF apiUnchanged, localVars
    <2> QED BY <1>1, <2>2, <2>4, <2>5, UsableActive, FinalizesFin
<1>11. ASSUME event_remove_timer(t, e)
       PROVE  FinInv'
    <2> DEFINE b == event_queue_remove_timeout(base, e)
               r1 == [b EXCEPT !.ev_ncalls[e] = 0, !.ev_pncalls[e] = "NULL"]
               r2 == [b EXCEPT !.ev_io_timeout[e] = 0]
    <2>1. Has(base, e, "TIMEOUT") /\ apiUnchanged /\ UNCHANGED thr /\ base' \in {r1, r2}
        BY <1>11 DEF event_remove_timer
    <2>2. ~Finalizing(base, e)
        BY <1>1, <2>1 DEF FinInv, FinalizerOK, Has
    <2>3. BaseOK(b) /\ Keeps(base, b)
        BY <1>1, <2>1, <2>2, RemoveTimeout, QueuesKeep
    <2> HIDE DEF b
    <2>4. /\ r1.flags = b.flags /\ r1.closure = b.closure
          /\ r2.flags = b.flags /\ r2.closure = b.closure
        BY <2>3 DEF BaseOK, event_base
    <2> HIDE DEF r1, r2
    <2>5. Keeps(b, r1) /\ Keeps(b, r2)
        BY <2>4, KeepsSame
    <2> QED BY <1>3, <2>1, <2>3, <2>5, KeepsTwice
<1>12. QED
    <2>1. \A n : n \in (IF e \in SignalEvents THEN 1 .. MaxNcalls ELSE {1}) => n \in Nat
        BY BoundsAssumption
    <2>2. ActiveRes \subseteq BOOLEAN
        BY Zenon DEF ActiveRes
    <2> QED BY <1>4, <1>6, <1>7, <1>8, <1>9, <1>10, <1>11, <2>1, <2>2 DEF EventApi

\* The operations on a deferred callback.
LEMMA DeferredApiFin ==
    ASSUME IInv, FinInv, NEW t \in Threads, NEW c \in Deferreds, DeferredApi(t, c)
    PROVE  FinInv'
<1>1. /\ BaseOK(base) /\ c \in Callbacks /\ c \notin Internal /\ c \notin Events
      /\ Usable(t, c) /\ apiUnchanged /\ UNCHANGED thr
    BY CallbacksAssumption
       DEF IInv, Callbacks, DeferredApi, event_deferred_cb_schedule_, event_deferred_cb_cancel_,
           event_callback_finalize_
<1>2. UNCHANGED <<evcb, evcb_closure, finalized, pc>>
    BY <1>1 DEF apiUnchanged, localVars
<1>3. ThreadsFree'
    BY <1>1 DEF FinInv, ThreadsFree
<1>4. CASE event_deferred_cb_schedule_(t, c)
    <2> DEFINE b == event_callback_activate_nolock_(base, c, t)
               n == b.n_deferreds_queued + 1
               r == [b EXCEPT !.n_deferreds_queued = n]
    <2>1. \/ base' = event_callback_activate_later_nolock_(base, c, t)
          \/ base' = b \/ base' = r
        BY <1>4, SMTT(30) DEF event_deferred_cb_schedule_
    <2>2. /\ Keeps(base, event_callback_activate_later_nolock_(base, c, t))
          /\ Keeps(base, b) /\ BaseOK(b)
        BY <1>1, Activate, ActivateKeeps, LaterKeeps, UsableActive
    <2> HIDE DEF b
    <2>3. r.flags = b.flags /\ r.closure = b.closure
        BY <2>2 DEF BaseOK, event_base
    <2> HIDE DEF r
    <2>4. Keeps(base, r)
        BY <2>2, <2>3, KeepsSame, KeepsTwice, SMTT(30)
    <2> QED BY <1>2, <1>3, <2>1, <2>2, <2>4, KeepsFin, SMTT(30)
<1>5. CASE event_deferred_cb_cancel_(t, c)
    BY <1>1, <1>2, <1>3, <1>5, CancelKeeps, KeepsFin, SMTT(30) DEF event_deferred_cb_cancel_
<1>6. CASE event_callback_finalize_(t, c)
    BY <1>1, <1>2, <1>6, CallbackFinalizes, UsableActive, FinalizesFin
       DEF event_callback_finalize_
<1> QED BY <1>4, <1>5, <1>6 DEF DeferredApi

\* The operations on the base.
LEMMA BaseApiFin ==
    ASSUME IInv, FinInv, NEW t \in Threads, BaseApi(t)
    PROVE  FinInv'
<1>1. BaseOK(base) /\ gettime \in Nat /\ Internals(base)
    BY GettimeNat, FinInternals DEF IInv
<1>2. UNCHANGED <<evcb, evcb_closure, finalized, pc, thr>>
    BY Zenon DEF BaseApi, event_base_loopbreak, event_base_loopcontinue, event_base_loopexit,
           event_base_add_virtual_, event_base_del_virtual_, apiUnchanged, localVars, userVars
<1>3. ThreadsFree'
    BY <1>2 DEF FinInv, ThreadsFree
<1>4. ASSUME NEW r, BaseOK(r), r.flags = base.flags, r.closure = base.closure, NEW need,
             base' = NotifyIf(r, need, t)
      PROVE  FinInv'
    BY <1>2, <1>3, <1>4, KeepsSame, NotifyKeeps, KeepsTwice, KeepsFin
<1>5. CASE event_base_loopbreak(t)
    BY <1>1, <1>4, <1>5, Zenon DEF event_base_loopbreak
<1>6. CASE event_base_loopcontinue(t)
    <2> DEFINE r == [base EXCEPT !.event_continue = TRUE]
    <2>1. r \in event_base /\ Assigned(base, r)
        BY <1>1, Zenon DEF BaseOK, event_base, Assigned
    <2>2. BaseOK(r)
        BY <1>1, <2>1, AssignedOK
    <2>3. r.flags = base.flags /\ r.closure = base.closure
        BY <1>1 DEF BaseOK, event_base
    <2>4. base' = NotifyIf(r, TRUE, t)
        BY <1>6, Zenon DEF event_base_loopcontinue
    <2> HIDE DEF r
    <2> QED BY <1>4, <2>2, <2>3, <2>4, Zenon
<1>7. ASSUME NEW e \in LoopExits, NEW tv_ \in Intervals \cup {NoTV},
             event_base_loopexit(t, e, tv_)
      PROVE  FinInv'
    <2>1. e \in Events /\ e \in EventStructs
        BY ThreadsAssumption DEF EventStructs, Events
    <2>2. tv_ \in Nat \cup {NoTV} /\ ~Finalizing(base, e)
        BY <1>7, BoundsAssumption DEF event_base_loopexit, Finalizing, Has
    <2>3. Keeps(base, event_active_nolock_(base, e, TRUE, 1, t))
        BY <1>1, <2>1, ActiveKeeps, Zenon
    <2>4. Keeps(base, event_add_nolock_(base, e, tv_, FALSE, TRUE, TRUE, t))
        BY <1>1, <2>1, <2>2, AddKeeps, Zenon
    <2>5. Keeps(base, base')
        BY <1>7, <2>3, <2>4, Zenon DEF event_base_loopexit
    <2> QED BY <1>2, <1>3, <2>5, KeepsFin
<1>8. CASE event_base_add_virtual_(t)
    <2>1. base'.flags = base.flags /\ base'.closure = base.closure
        BY <1>1, <1>8 DEF BaseOK, event_base, event_base_add_virtual_
    <2> QED BY <1>2, <1>3, <2>1, KeepsSame, KeepsFin
<1>9. CASE event_base_del_virtual_(t)
    <2> DEFINE n == base.virtual_event_count - 1
               r == [base EXCEPT !.virtual_event_count = n]
    <2>1. n \in Nat
        BY <1>1, <1>9 DEF BaseOK, event_base, event_base_del_virtual_
    <2>2. r \in event_base /\ Assigned(base, r)
        <3> HIDE DEF n
        <3> QED BY <1>1, <2>1, Zenon DEF BaseOK, event_base, Assigned
    <2>3. r.flags = base.flags /\ r.closure = base.closure
        BY <1>1 DEF BaseOK, event_base
    <2>4. BaseOK(r) /\ base' = NotifyIf(r, base.virtual_event_count = 1, t)
        BY <1>1, <1>9, <2>2, AssignedOK DEF event_base_del_virtual_
    <2> HIDE DEF r
    <2> QED BY <1>4, <2>3, <2>4
<1> QED BY <1>5, <1>6, <1>7, <1>8, <1>9 DEF BaseApi

\* The rest of a call that had to wait: its event cannot be finalized.
LEMMA ResumeFin ==
    ASSUME IInv, FinInv, NEW t \in Threads, Resume(t)
    PROVE  FinInv'
<1> DEFINE e == thr[t].ev
           op == thr[t].op
<1>1. BaseOK(base) /\ gettime \in Nat /\ Internals(base) /\ CallType
    BY GettimeNat, FinInternals DEF IInv, CtlOK, CtlType
<1>2. thr[t] # Idle
    BY DEF Resume, Idle
<1>3. /\ e \in Events /\ e \in EventStructs /\ e \in Callbacks
      /\ op = "event_add" => thr[t].arg \in Nat \cup {NoTV}
      /\ op = "event_active" => thr[t].arg \in Nat
    BY <1>2 DEF IInv, CtlOK, ThrOK, EventStructs, Callbacks
<1>4. "event_finalize" \notin Ops /\ op # "event_finalize"
    BY <1>2 DEF FinInv, ThreadsFree
<1>5. ~Finalizing(base, e)
    BY <1>3, <1>4 DEF FinInv, FinalizerOK
<1>6. PICK ok \in Accepts(e), hit \in Hits(t, e) :
         \/ /\ op = "event_add"
            /\ base' = event_add_nolock_(base, e, thr[t].arg, FALSE, ok, hit, t)
         \/ base' = event_del_nolock_(base, e, ok, hit, t)
         \/ /\ op = "event_active"
            /\ base' = event_active_finish(base, e, thr[t].arg, t)
    BY <1>4, Zenon DEF Resume
<1>7. /\ UNCHANGED <<evcb, evcb_closure, finalized, pc>>
      /\ thr' = [thr EXCEPT ![t] = Idle]
    BY DEF Resume, apiUnchanged, localVars
<1>8. ThreadsFree'
    BY <1>1, <1>7 DEF FinInv, ThreadsFree, CallType
<1> HIDE DEF e, op
<1>9. Keeps(base, base')
    <2>1. CASE base' = event_add_nolock_(base, e, thr[t].arg, FALSE, ok, hit, t) /\ op = "event_add"
        BY <1>1, <1>3, <1>5, <2>1, AddKeeps, Zenon
    <2>2. CASE base' = event_del_nolock_(base, e, ok, hit, t)
        BY <1>1, <1>3, <1>5, <2>2, DelKeeps
    <2>3. CASE base' = event_active_finish(base, e, thr[t].arg, t) /\ op = "event_active"
        BY <1>1, <1>3, <2>3, FinishKeeps, Zenon
    <2> QED BY <1>6, <2>1, <2>2, <2>3, Zenon
<1> QED BY <1>7, <1>8, <1>9, KeepsFin

----------------------------------------------------------------------------
(* The steps of the loop.                                                  *)

\* The first callback of the queue is started: if it is finalizing, what it is
\* taken off is the only queue it was on.
LEMMA RunFin ==
    ASSUME IInv, FinInv, run_callback
    PROVE  FinInv'
<1> DEFINE q == base.activequeues[event_running_priority]
<1> SUFFICES ASSUME NEW c, c = Head(q) PROVE FinInv'
    OBVIOUS
<1> DEFINE deletes == c \in Events \ Persist /\ ~Has(base, c, "FINALIZING")
           d == event_del_nolock_(base, c, TRUE, TRUE, th_owner_id)
           r == event_queue_remove_active(base, c)
           b == IF deletes THEN d ELSE r
           closure == base.closure[c]
<1>1. /\ BaseOK(base) /\ gettime \in Nat /\ Internals(base)
      /\ pc = "queue" /\ event_running_priority \in Priorities /\ q # << >>
      /\ evcb = NULL
    BY GettimeNat, FinInternals, Zenon
       DEF IInv, CtlOK, PcOK, run_callback, FinInv, RunningPcs
<1>2. c \in Callbacks /\ Has(base, c, "ACTIVE")
    <2> DEFINE M == ActiveAt(base.flags, event_running_priority)
    <2>1. q \in Seq(Callbacks) /\ Lists(q, M)
        BY <1>1 DEF BaseOK, QueuesMatchFlags, event_base
    <2> HIDE DEF q, M
    <2>2. c \in Callbacks /\ c \in M
        BY <1>1, <2>1, ListsTail, SMTT(30)
    <2> QED BY <2>2 DEF M, ActiveAt, Has
<1>3. closure \in {event_assign(c)} \cup Finalizers
    BY <1>1, <1>2, SMTT(30) DEF BaseOK, ClosuresKept
<1>4. closure \in {"EVENT_SIGNAL", "EVENT_PERSIST"} => c \in EventStructs
    BY <1>2, <1>3, CallbacksAssumption
        DEF event_assign, Finalizers, Callbacks, EventStructs, Events
<1>5. /\ evcb' = c /\ evcb_closure' = closure
      /\ pc' \in {"body_done", "callback"} /\ UNCHANGED <<thr, finalized>>
    BY Zenon DEF run_callback, userVars
<1>6. \/ /\ closure = "EVENT_SIGNAL" /\ base' = event_signal_closure(b, c)
      \/ /\ closure = "EVENT_PERSIST"
         /\ \E ok \in Accepts(c) : base' = event_persist_closure(b, c, ok)
      \/ closure \notin {"EVENT_SIGNAL", "EVENT_PERSIST"} /\ base' = b
    BY Zenon DEF run_callback
<1>7. Finalizing(base, c) <=> closure \in Finalizers
    BY <1>2 DEF FinInv, FinalizerOK
<1>8. ThreadsFree' /\ pc' \in RunningPcs
    BY <1>5 DEF FinInv, ThreadsFree, RunningPcs
<1>9. \A o \in Callbacks \ {c} : FinalizerOK(o) /\ ~FinalizerRuns(o) /\ ~FinalizerRuns(o)'
    BY <1>1, <1>5, CallbacksAssumption DEF FinInv, FinalizerRuns
<1>10. FinalizerOK(c)
    BY <1>2, SMTT(30) DEF FinInv
<1> HIDE DEF closure, q
<1>11. ASSUME NEW o \in Callbacks \ {c}, Spares(base, base', Callbacks \ {c})
       PROVE  FinalizerOK(o)'
    <2>1. /\ base'.closure[o] = base.closure[o]
          /\ Finalizing(base', o) <=> Finalizing(base, o)
          /\ Finalizing(base, o) => base'.flags[o] = base.flags[o]
        BY <1>11 DEF Spares
    <2>2. base.flags[o] = {"FINALIZING"} => Finalizing(base, o)
        BY DEF Finalizing, Has
    <2> QED BY <1>5, <1>9, <2>1, <2>2 DEF FinalizerOK, Has
<1>12. CASE Finalizing(base, c)
    <2>1. base' = r
        BY <1>6, <1>7, <1>12 DEF Finalizing, Finalizers
    <2>2. base.flags[c] = {"ACTIVE", "FINALIZING"} /\ c \notin finalized
        BY <1>2, <1>10, <1>12 DEF FinalizerOK, Finalizing, Has
    <2>3. /\ base.flags \in [Callbacks -> SUBSET EVLIST]
          /\ r.closure = base.closure
          /\ r.flags = [base.flags EXCEPT ![c] = base.flags[c] \ {"ACTIVE"}]
        BY <1>1 DEF BaseOK, event_base, event_queue_remove_active
    <2> HIDE DEF r
    <2>4. Spares(base, base', Callbacks \ {c})
        BY <1>2, <2>1, <2>3 DEF Spares, Finalizing, Has
    <2>5. base'.flags[c] = {"FINALIZING"} /\ base'.closure[c] = base.closure[c]
        BY <1>2, <2>1, <2>2, <2>3
    <2>6. FinalizerRuns(c)'
        BY <1>5, <1>7, <1>12, SMTT(30) DEF FinalizerRuns
    <2>7. FinalizerOK(c)'
        BY <1>10, <1>12, <2>5, <2>6 DEF FinalizerOK, Finalizing, Has
    <2> QED BY <1>8, <1>11, <2>4, <2>7 DEF FinInv
<1>13. CASE ~Finalizing(base, c)
    <2>1. BaseOK(b) /\ Keeps(base, b)
        <3>1. deletes => c \in EventStructs
            BY DEF EventStructs
        <3>2. deletes => BaseOK(d) /\ Keeps(base, d)
            BY <1>1, <1>13, <3>1, DelNolock, DelKeeps, Zenon
        <3>3. BaseOK(r) /\ Keeps(base, r)
            BY <1>1, <1>2, <1>13, RemoveActive, QueuesKeep
        <3> QED BY <3>2, <3>3, Zenon
    <2> HIDE DEF b
    <2>2. ~Finalizing(b, c) /\ Internals(b)
        BY <1>1, <1>2, <1>13, <2>1, KeepsNot
    <2>3. Keeps(b, base')
        <3>1. CASE closure = "EVENT_SIGNAL" /\ base' = event_signal_closure(b, c)
            BY <2>1, <3>1, SignalsKeep
        <3>2. CASE /\ closure = "EVENT_PERSIST"
                   /\ \E ok \in Accepts(c) : base' = event_persist_closure(b, c, ok)
            BY <1>1, <1>4, <2>1, <2>2, <3>2, PersistKeeps
        <3>3. CASE base' = b
            BY <3>3, KeepsSame
        <3> QED BY <1>6, <3>1, <3>2, <3>3
    <2>4. Keeps(base, base')
        BY <2>1, <2>3, KeepsTwice
    <2>5. ~FinalizerRuns(c)' /\ ~Finalizing(base', c)
        BY <1>2, <1>5, <1>7, <1>13, <2>4, KeepsNot, SMTT(30) DEF FinalizerRuns
    <2>6. c \notin finalized
        BY <1>2, <1>10, <1>13 DEF FinalizerOK, Finalizing, Has
    <2>7. base'.closure[c] = base.closure[c]
        BY <1>2, <2>4, SMTT(30) DEF Keeps, Spares
    <2>8. FinalizerOK(c)'
        BY <1>5, <1>10, <1>13, <2>5, <2>6, <2>7 DEF FinalizerOK
    <2> QED BY <1>2, <1>8, <1>11, <2>4, <2>8, KeepsSpares, Zenon DEF FinInv
<1> QED BY <1>12, <1>13

\* A callback has returned; a finalizer has run.
LEMMA ReturnFin ==
    ASSUME IInv, FinInv, callback_returns
    PROVE  FinInv'
<1>1. BaseOK(base) /\ CallType /\ (evcb_closure \in Finalizers => evcb \in Callbacks)
    BY DEF IInv, CtlOK, CtlType, CallType, PcOK
<1>2. /\ base' \in {base, signal_closure_returns(base, evcb)}
      /\ evcb' = NULL /\ evcb_closure' = "EVENT"
      /\ finalized' = IF evcb_closure \in Finalizers THEN finalized \cup {evcb} ELSE finalized
      /\ thr' = IF current_event_waiters = 0 THEN thr
                ELSE [t \in Threads |-> IF thr[t] = Idle THEN Idle
                                        ELSE [thr[t] EXCEPT !.woken = TRUE]]
    BY DEF callback_returns
<1>3. Keeps(base, base')
    BY <1>1, <1>2, KeepsSame, SignalsKeep
<1>4. ThreadsFree'
    <2>1. \A t \in Threads : (thr'[t] # Idle => thr[t] # Idle) /\ thr'[t].op = thr[t].op
        BY <1>1, <1>2, SMTT(30) DEF CallType
    <2> QED BY <2>1 DEF FinInv, ThreadsFree
<1>5. ASSUME NEW c \in Callbacks PROVE FinalizerOK(c)'
    <2>1. FinalizerOK(c)
        BY DEF FinInv
    <2>2. /\ base'.closure[c] = base.closure[c]
          /\ Finalizing(base', c) <=> Finalizing(base, c)
          /\ Finalizing(base, c) => base'.flags[c] = base.flags[c]
        BY <1>3 DEF Keeps, Spares
    <2>3. ~FinalizerRuns(c)' /\ (c \in finalized' <=> c \in finalized \/ FinalizerRuns(c))
        BY <1>2 DEF FinalizerRuns, Finalizers
    <2>4. base.flags[c] = {"FINALIZING"} => Finalizing(base, c)
        BY DEF Finalizing, Has
    <2> QED BY <2>1, <2>2, <2>3, <2>4 DEF FinalizerOK, Has
<1> QED BY <1>2, <1>4, <1>5 DEF FinInv

\* A step of the active-later queue: nothing on it is finalizing.
LEMMA MakeLaterKeeps ==
    ASSUME IInv, FinInv, base.active_later_queue # << >>
    PROVE  Keeps(base, make_later_event_active(base))
<1> DEFINE lq == base.active_later_queue
           c == Head(lq)
           r == make_later_event_active(base)
<1>1. BaseOK(base)
    BY DEF IInv
<1>2. lq \in Seq(Callbacks) /\ Lists(lq, LaterSet(base.flags))
    BY <1>1 DEF BaseOK, QueuesMatchFlags, event_base
<1>3. c \in Callbacks /\ Has(base, c, "ACTIVE_LATER")
    <2> DEFINE M == LaterSet(base.flags)
    <2> HIDE DEF lq, M
    <2>1. c \in Callbacks /\ c \in M
        BY <1>2, ListsTail, Zenon DEF lq, M
    <2> QED BY <2>1 DEF M, LaterSet, Has
<1>4. ~Finalizing(base, c)
    BY <1>3 DEF FinInv, FinalizerOK, Has
<1>5. /\ r.closure = base.closure
      /\ r.flags = [base.flags EXCEPT ![c] = (base.flags[c] \ {"ACTIVE_LATER"}) \cup {"ACTIVE"}]
    BY <1>1 DEF BaseOK, event_base, make_later_event_active
<1>6. "FINALIZING" \notin (base.flags[c] \ {"ACTIVE_LATER"}) \cup {"ACTIVE"}
    BY <1>4, SMTT(30) DEF Finalizing, Has
<1> HIDE DEF c, r
<1>7. Keeps(base, r)
    BY <1>1, <1>4, <1>5, <1>6, KeepsTouch
<1> QED BY <1>7 DEF r

\* The other steps that change the base.
LEMMA ChangesFin ==
    ASSUME IInv, FinInv,
           \/ loop_terminated \/ loop_empty \/ loop_goes_on
           \/ event_queue_make_later_events_active \/ evmap_io_active_ \/ timeout_process
           \/ notify_drain_reads \/ notify_drain_clears \/ evmap_signal_active_
           \/ signal_callback_again
    PROVE  FinInv'
<1>1. BaseOK(base)
    BY DEF IInv
<1>2. /\ UNCHANGED <<evcb, evcb_closure, finalized, thr>>
      /\ pc' \notin RunningPcs => pc \notin RunningPcs
    BY Zenon DEF loop_terminated, loop_empty, loop_goes_on, event_queue_make_later_events_active,
           evmap_io_active_, timeout_process, notify_drain_reads, notify_drain_clears,
           evmap_signal_active_, signal_callback_again, callbackUnchanged, otherLocals,
           localVars, userVars, RunningPcs
<1>3. ThreadsFree'
    BY <1>2, SMTT(30) DEF FinInv, ThreadsFree
<1>4. CASE loop_terminated \/ loop_empty \/ loop_goes_on
    <2>1. base' = loop_head_base
        BY <1>4 DEF loop_terminated, loop_empty, loop_goes_on
    <2>2. base'.flags = base.flags /\ base'.closure = base.closure
        BY <1>1, <2>1 DEF BaseOK, event_base, loop_head_base
    <2> QED BY <1>2, <1>3, <2>2, KeepsSame, KeepsFin, SMTT(30)
<1>5. CASE event_queue_make_later_events_active
    BY <1>2, <1>3, <1>5, MakeLaterKeeps, KeepsFin, Zenon DEF event_queue_make_later_events_active
<1>6. CASE evmap_io_active_
    <2>1. PICK e \in IoEvents \cup Internal :
              base' = event_active_nolock_(base, e, FALSE, 1, th_owner_id)
        BY <1>6, Zenon DEF evmap_io_active_, ToActivate
    <2>2. e \in EventStructs
        BY DEF EventStructs, Events
    <2> QED BY <1>1, <1>2, <1>3, <2>1, <2>2, ActiveKeeps, KeepsFin, Zenon
<1>7. CASE timeout_process
    <2>1. PICK e \in EventStructs :
              base' = IF Has(base, e, "FINALIZING") THEN base
                      ELSE event_active_nolock_(
                             event_del_nolock_(base, e, TRUE, TRUE, th_owner_id),
                             e, TRUE, 1, th_owner_id)
        BY <1>7, Zenon DEF timeout_process, Elapsed, min_heap_top_, Timeouts
    <2> DEFINE d == event_del_nolock_(base, e, TRUE, TRUE, th_owner_id)
    <2>2. CASE Has(base, e, "FINALIZING")
        BY <1>2, <1>3, <2>1, <2>2, KeepsSame, KeepsFin
    <2>3. CASE ~Has(base, e, "FINALIZING")
        <3>1. BaseOK(d) /\ Keeps(base, d)
            BY <1>1, <2>3, DelNolock, DelKeeps, Zenon DEF Finalizing
        <3>2. base' = event_active_nolock_(d, e, TRUE, 1, th_owner_id)
            BY <2>1, <2>3
        <3> HIDE DEF d
        <3>3. Keeps(base, base')
            BY <3>1, <3>2, ActiveKeeps, KeepsTwice, Zenon
        <3> QED BY <1>2, <1>3, <3>3, KeepsFin, SMTT(30)
    <2> QED BY <2>2, <2>3
<1>8. CASE notify_drain_reads \/ notify_drain_clears
    <2>1. base'.flags = base.flags /\ base'.closure = base.closure
        BY <1>1, <1>8 DEF BaseOK, event_base, notify_drain_reads, notify_drain_clears
    <2> QED BY <1>2, <1>3, <2>1, KeepsSame, KeepsFin
<1>9. CASE evmap_signal_active_
    <2>1. PICK e \in SignalEvents, n \in 1 .. MaxNcalls :
              base' = event_active_nolock_(base, e, FALSE, n, th_owner_id)
        BY <1>9, Zenon DEF evmap_signal_active_
    <2>2. e \in EventStructs /\ n \in Nat
        BY BoundsAssumption DEF EventStructs, Events
    <2> QED BY <1>1, <1>2, <1>3, <2>1, <2>2, ActiveKeeps, KeepsFin, Zenon
<1>10. CASE signal_callback_again
    BY <1>1, <1>2, <1>3, <1>10, SignalsKeep, KeepsFin, SMTT(30) DEF signal_callback_again
<1> QED BY <1>4, <1>5, <1>6, <1>7, <1>8, <1>9, <1>10

\* The steps that leave the base alone.
LEMMA MovesFin ==
    ASSUME IInv, FinInv,
           \/ dispatch \/ dispatch_locks \/ dispatch_returns \/ process_active_begins
           \/ nothing_active \/ process_active_queue \/ process_active_ends \/ queue_empty
           \/ evsig_cb_locks \/ evsig_cb_unlocks \/ event_loopexit_cb
           \/ epoll_wait_returns \/ dispatch_fails \/ Tick \/ UNCHANGED vars
           \/ \E t \in Threads : event_base_loop(t)
    PROVE  FinInv'
<1>1. /\ UNCHANGED <<base, evcb, evcb_closure, finalized, thr>>
      /\ pc' \notin RunningPcs => pc \notin RunningPcs
    <2>1. CASE \/ dispatch \/ dispatch_locks \/ dispatch_returns \/ process_active_begins
               \/ nothing_active \/ process_active_queue \/ process_active_ends \/ queue_empty
        BY <2>1, Zenon DEF dispatch, dispatch_locks, dispatch_returns, process_active_begins,
           nothing_active, process_active_queue, process_active_ends, queue_empty,
           otherLocals, localVars, userVars, RunningPcs
    <2>2. CASE \/ evsig_cb_locks \/ evsig_cb_unlocks \/ event_loopexit_cb
               \/ epoll_wait_returns \/ dispatch_fails \/ Tick \/ UNCHANGED vars
               \/ \E t \in Threads : event_base_loop(t)
        BY <2>2, ZenonT(30)
        DEF evsig_cb_locks, evsig_cb_unlocks, event_loopexit_cb, epoll_wait_returns, dispatch_fails,
            Tick, vars, event_base_loop, callbackUnchanged,
           otherLocals, localVars, userVars, RunningPcs
    <2> QED BY <2>1, <2>2
<1>2. ThreadsFree' /\ Keeps(base, base')
    BY <1>1, KeepsSame DEF FinInv, ThreadsFree
<1> QED BY <1>1, <1>2, KeepsFin

\* Every step preserves the invariant.
LEMMA NextFin ==
    ASSUME NobodyWaits
    PROVE  IInv /\ FinInv /\ [Next]_vars => FinInv'
<1> SUFFICES ASSUME IInv, FinInv, [Next]_vars PROVE FinInv'
    OBVIOUS
<1>1. CASE LoopStep
    BY <1>1, RunFin, ReturnFin, ChangesFin, MovesFin DEF LoopStep
<1>2. CASE epoll_wait_returns \/ dispatch_fails \/ Tick \/ UNCHANGED vars
    BY <1>2, MovesFin
<1>3. ASSUME NEW t \in Threads,
             \/ \E e \in UserEvents : EventApi(t, e)
             \/ \E c \in Deferreds : DeferredApi(t, c)
             \/ BaseApi(t) \/ Resume(t) \/ event_base_loop(t)
      PROVE  FinInv'
    BY <1>3, EventApiFin, DeferredApiFin, BaseApiFin, ResumeFin, MovesFin
<1> QED BY <1>1, <1>2, <1>3 DEF Next

\* The invariant holds at first.
LEMMA InitFin == Init => FinInv
<1> SUFFICES ASSUME Init PROVE FinInv
    OBVIOUS
<1>1. ASSUME NEW c \in Callbacks PROVE FinalizerOK(c)
    <2>1. "FINALIZING" \notin base.flags[c] /\ base.closure[c] = event_assign(c)
        BY DEF Init, event_base_new_with_config
    <2>2. event_assign(c) \notin Finalizers
        BY DEF event_assign, Finalizers
    <2>3. ~FinalizerRuns(c) /\ c \notin finalized
        BY DEF Init, FinalizerRuns, Finalizers
    <2> QED BY <2>1, <2>2, <2>3, SMTT(30) DEF FinalizerOK, Finalizing, Has
<1>2. ThreadsFree
    BY DEF Init, ThreadsFree
<1> QED BY <1>1, <1>2 DEF Init, FinInv

----------------------------------------------------------------------------
(* The inductive invariant.                                                *)

\* What is made active without event_continue (a deferred callback, and a
\* signal event whose activation had to wait) has the least urgent priority,
\* and event_base_loopcontinue, which sets event_continue for no reason, is not
\* called: it makes event_process_active go on to the next queue when only an
\* internal callback was run.  A limit of no callbacks at all does the same.
Unhurried ==
    /\ \A c \in Deferreds \cup SignalEvents : evcb_pri[c] = nactivequeues - 1
    /\ "event_base_loopcontinue" \notin Ops
    /\ max_dispatch_callbacks # 0

\* The queues more urgent than n are empty.
NoneBefore(n) == \A p \in Priorities : p < n => base.activequeues[p] = << >>

\* Only the activation of a signal event waits.
SignalsWait ==
    \A t \in Threads : thr[t] # Idle /\ thr[t].op \in {"event_active", "event_finalize"} =>
        thr[t].ev \in SignalEvents

\* Whatever is more urgent than the queue being run is empty, or the callback
\* that is running is the last of this turn: event_continue is set, which
\* happens only above priority 0, where the callbacks of the program are
\* counted, so that event_process_active returns.
UrgentInv ==
    /\ pc \notin RunningPcs \cup {"queue", "active"} => event_running_priority = -1
    /\ pc \notin RunningPcs \cup {"out", "top"} => ~base.event_continue
    /\ pc = "queue" => NoneBefore(event_running_priority)
    /\ pc = "active" => NoneBefore(next_pri)
    /\ pc \in RunningPcs =>
          /\ NoneBefore(event_running_priority) \/ base.event_continue
          /\ base.event_continue => event_running_priority > 0
          /\ count = 0 => event_running_priority = 0
    /\ SignalsWait

\* The activation of a callback of the least urgent priority is no hurry.
LEMMA LowHurries ==
    ASSUME Unhurried, NEW c \in Deferreds \cup SignalEvents, NEW b, NEW r,
           Fills(b, r, {evcb_pri[c]}), event_running_priority \in Priorities \cup {-1}
    PROVE  Hurries(b, r)
<1>1. ~(evcb_pri[c] < event_running_priority)
    BY PrioritiesAssumption DEF Unhurried, Priorities
<1> QED BY <1>1, FillsHurries

\* An operation of the program that hurries.
LEMMA ApiUrgent ==
    ASSUME UrgentInv, LockFree, Hurries(base, base'),
           UNCHANGED <<pc, event_running_priority, count>>, SignalsWait'
    PROVE  UrgentInv'
<1>1. pc \in RunningPcs \cup {"out", "dispatch", "polled"}
    BY DEF LockFree, RunningPcs
<1>2. CASE pc \in RunningPcs
    <2>1. NoneBefore(event_running_priority)' \/ base'.event_continue
        BY <1>2 DEF UrgentInv, NoneBefore, Hurries
    <2>2. base'.event_continue => event_running_priority > 0
        BY <1>2 DEF UrgentInv, Hurries
    <2> QED BY <1>2, <2>1, <2>2, SMTT(30) DEF UrgentInv, RunningPcs
<1>3. CASE pc \in {"out", "dispatch", "polled"}
    <2>1. pc # "out" => ~base'.event_continue
        BY <1>3, SMTT(30) DEF UrgentInv, Hurries, RunningPcs
    <2> QED BY <1>3, <2>1, SMTT(30) DEF UrgentInv, RunningPcs
<1> QED BY <1>1, <1>2, <1>3

----------------------------------------------------------------------------
(* The operations of the program.                                          *)

\* A thread that waits.
LEMMA WaitsUrgent ==
    ASSUME IInv, UrgentInv, NEW t \in Threads, NEW op, NEW e, NEW arg,
           EVTHREAD_COND_WAIT(t, op, e, arg),
           op \in {"event_active", "event_finalize"} => e \in SignalEvents
    PROVE  SignalsWait'
<1>1. thr' = [thr EXCEPT ![t] = [op |-> op, ev |-> e, arg |-> arg, woken |-> FALSE]]
    BY SMTT(30) DEF EVTHREAD_COND_WAIT
<1>2. \A u \in Threads : thr'[u] = IF u = t THEN [op |-> op, ev |-> e, arg |-> arg, woken |-> FALSE]
                                   ELSE thr[u]
    BY <1>1, SMTT(30) DEF IInv, CtlOK, CtlType, CallType
<1> QED BY <1>2 DEF UrgentInv, SignalsWait

\* The operations on an event.
LEMMA EventApiUrgent ==
    ASSUME IInv, UrgentInv, Unhurried, NEW t \in Threads, NEW e \in UserEvents, EventApi(t, e)
    PROVE  UrgentInv'
<1>1. /\ BaseOK(base) /\ e \in Events /\ e \in EventStructs /\ e \in Callbacks
      /\ gettime \in Nat /\ event_running_priority \in Priorities \cup {-1}
    BY GettimeNat, Zenon DEF IInv, CtlOK, CtlType, LoopType, UserEvents, EventStructs, Callbacks
<1>2. Hurries(base, base)
    BY DEF Hurries
<1>3. ASSUME Hurries(base, base'), apiUnchanged, NEW op, Calls(t, op), thr' = thr \/ SignalsWait'
      PROVE  UrgentInv'
    <2>1. UNCHANGED <<pc, event_running_priority, count>> /\ LockFree
        BY <1>3, SMTT(30) DEF apiUnchanged, localVars, ctlVars, Calls
    <2>2. SignalsWait'
        BY <1>3 DEF UrgentInv, SignalsWait
    <2> QED BY <1>3, <2>1, <2>2, ApiUrgent
<1>4. ASSUME NEW r, Fills(base, r, {})
      PROVE  Hurries(base, r)
    BY <1>4, FillsHurries
<1>5. ASSUME NEW tv_ \in Intervals \cup {NoTV}, event_add(t, e, tv_)
      PROVE  UrgentInv'
    <2>1. tv_ \in Nat \cup {NoTV} /\ apiUnchanged /\ Calls(t, "event_add")
        BY <1>5, BoundsAssumption DEF event_add
    <2>2. CASE EVTHREAD_COND_WAIT(t, "event_add", e, tv_) /\ UNCHANGED base
        BY <1>2, <1>3, <2>1, <2>2, WaitsUrgent
    <2>3. ASSUME NEW ok, NEW hit, UNCHANGED thr,
                 base' = event_add_nolock_(base, e, tv_, FALSE, ok, hit, t)
          PROVE  UrgentInv'
        BY <1>1, <1>3, <1>4, <2>1, <2>3, AddFills, Zenon
    <2> QED BY <1>5, <2>2, <2>3, Zenon DEF event_add
<1>6. ASSUME NEW op \in DelOps \cup {"event_free"}, Calls(t, op), apiUnchanged,
             \/ EVTHREAD_COND_WAIT(t, op, e, 0) /\ UNCHANGED base
             \/ /\ UNCHANGED thr
                /\ \E ok, hit : base' = event_del_nolock_(base, e, ok, hit, t)
      PROVE  UrgentInv'
    <2>1. CASE EVTHREAD_COND_WAIT(t, op, e, 0) /\ UNCHANGED base
        <3>1. op \notin {"event_active", "event_finalize"}
            BY DEF DelOps
        <3> QED BY <1>2, <1>3, <1>6, <2>1, <3>1, WaitsUrgent
    <2>2. ASSUME NEW ok, NEW hit, UNCHANGED thr,
                 base' = event_del_nolock_(base, e, ok, hit, t)
          PROVE  UrgentInv'
        BY <1>1, <1>3, <1>4, <1>6, <2>2, DelFills, SMTT(30)
    <2> QED BY <1>6, <2>1, <2>2
<1>7. ASSUME NEW op \in DelOps, event_del(t, e, op)
      PROVE  UrgentInv'
    BY <1>6, <1>7 DEF event_del
<1>8. ASSUME event_free(t, e)
      PROVE  UrgentInv'
    BY <1>6, <1>8 DEF event_free
<1>9. ASSUME NEW timeout \in BOOLEAN, NEW n \in Nat, event_active(t, e, timeout, n)
      PROVE  UrgentInv'
    <2>1. apiUnchanged /\ Calls(t, "event_active")
        BY <1>9 DEF event_active
    <2>2. CASE /\ e \in SignalEvents /\ EVTHREAD_COND_WAIT(t, "event_active", e, n)
               /\ base' = event_active_enter(base, e, timeout)
        BY <1>1, <1>3, <2>1, <2>2, WaitsUrgent, EnterHurries, Zenon
    <2>3. CASE UNCHANGED thr /\ base' = event_active_nolock_(base, e, timeout, n, t)
        BY <1>1, <1>3, <2>1, <2>3, ActiveHurries
    <2> QED BY <1>9, <2>2, <2>3 DEF event_active
<1>10. ASSUME event_active_later_(t, e)
       PROVE  UrgentInv'
    <2> DEFINE r == [base EXCEPT !.res_timeout[e] = FALSE]
               b == IF IsActive(base, e) THEN base ELSE r
    <2>1. r \in event_base /\ Assigned(base, r)
        BY <1>1, Zenon DEF BaseOK, event_base, Assigned
    <2>2. BaseOK(r)
        BY <1>1, <2>1, AssignedOK
    <2>3. r.activequeues = base.activequeues /\ r.event_continue = base.event_continue
        BY <1>1 DEF BaseOK, event_base
    <2> HIDE DEF r
    <2>4. BaseOK(b) /\ Fills(base, b, {})
        BY <1>1, <2>2, <2>3, FillsSame
    <2>5. /\ base' = event_callback_activate_later_nolock_(b, e, t) /\ apiUnchanged
          /\ Calls(t, "event_active_later_") /\ UNCHANGED thr
        BY <1>10 DEF event_active_later_, r
    <2> HIDE DEF b
    <2>6. Fills(base, base', {})
        BY <1>1, <2>4, <2>5, ActivateFills, FillsTwice, Zenon
    <2> QED BY <1>3, <1>4, <2>5, <2>6
<1>11. ASSUME NEW closure \in {"EVENT_FINALIZE", "EVENT_FINALIZE_FREE"},
              event_finalize(t, e, closure)
       PROVE  UrgentInv'
    <2>1. PICK ok, hit :
            LET b == event_finalize_enter(base, e, closure, ok, hit, t)
            IN  \/ /\ e \in SignalEvents
                   /\ EVTHREAD_COND_WAIT(t, "event_finalize", e, 0)
                   /\ base' = b
                \/ /\ base' = IF Has(base, e, "FINALIZING") THEN b
                              ELSE event_finalize_finish(b, e, t)
                   /\ UNCHANGED thr
        BY <1>11, Zenon DEF event_finalize
    <2>2. apiUnchanged /\ Calls(t, "event_finalize") /\ closure \in Finalizers
        BY <1>11, Zenon DEF event_finalize, Finalizers
    <2> DEFINE b == event_finalize_enter(base, e, closure, ok, hit, t)
               f == event_finalize_finish(b, e, t)
    <2>3. /\ BaseOK(b) /\ Hurries(base, b)
          /\ ~Finalizing(base, e) =>
                 b.event_continue \/ ~(evcb_pri[e] < event_running_priority)
        BY <1>1, <2>2, FinalizeEnter, FinalizeEnterHurries, SMTT(30)
    <2>4. \/ /\ e \in SignalEvents
             /\ EVTHREAD_COND_WAIT(t, "event_finalize", e, 0)
             /\ base' = b
          \/ base' = (IF Finalizing(base, e) THEN b ELSE f) /\ UNCHANGED thr
        BY <2>1 DEF Finalizing
    <2> HIDE DEF b
    <2>5. Fills(b, f, {evcb_pri[e]})
        BY <1>1, <2>3, FinalizeFinishFills, SMTT(30)
    <2> HIDE DEF f
    <2>6. ~Finalizing(base, e) => Hurries(base, f)
        BY <2>3, <2>5, FillsHurries, HurriesTwice, SMTT(30)
    <2>7. Hurries(base, base')
        BY <2>3, <2>4, <2>6
    <2>8. thr' = thr \/ SignalsWait'
        BY <2>4, WaitsUrgent
    <2> QED BY <1>3, <2>2, <2>7, <2>8
<1>12. ASSUME event_remove_timer(t, e)
       PROVE  UrgentInv'
    <2> DEFINE b == event_queue_remove_timeout(base, e)
               r1 == [b EXCEPT !.ev_ncalls[e] = 0, !.ev_pncalls[e] = "NULL"]
               r2 == [b EXCEPT !.ev_io_timeout[e] = 0]
    <2>1. /\ Has(base, e, "TIMEOUT") /\ apiUnchanged /\ UNCHANGED thr /\ base' \in {r1, r2}
          /\ Calls(t, "event_remove_timer")
        BY <1>12 DEF event_remove_timer
    <2>2. BaseOK(b) /\ Fills(base, b, {})
        BY <1>1, <2>1, RemoveTimeout, QueuesFill, Zenon
    <2> HIDE DEF b
    <2>3. /\ r1.activequeues = b.activequeues /\ r1.event_continue = b.event_continue
          /\ r2.activequeues = b.activequeues /\ r2.event_continue = b.event_continue
        BY <2>2 DEF BaseOK, event_base
    <2> HIDE DEF r1, r2
    <2>4. Fills(b, r1, {}) /\ Fills(b, r2, {})
        BY <2>3, FillsSame, Zenon
    <2> QED BY <1>3, <1>4, <2>1, <2>2, <2>4, FillsTwice, SMTT(30)
<1>13. QED
    <2>1. \A n : n \in (IF e \in SignalEvents THEN 1 .. MaxNcalls ELSE {1}) => n \in Nat
        BY BoundsAssumption
    <2>2. ActiveRes \subseteq BOOLEAN
        BY Zenon DEF ActiveRes
    <2> QED BY <1>5, <1>7, <1>8, <1>9, <1>10, <1>11, <1>12, <2>1, <2>2 DEF EventApi

\* The operations on a deferred callback.
LEMMA DeferredApiUrgent ==
    ASSUME IInv, UrgentInv, Unhurried, NEW t \in Threads, NEW c \in Deferreds, DeferredApi(t, c)
    PROVE  UrgentInv'
<1>1. /\ BaseOK(base) /\ c \in Callbacks /\ apiUnchanged /\ UNCHANGED thr /\ LockFree
      /\ event_running_priority \in Priorities \cup {-1}
    BY SMTT(30) DEF IInv, CtlOK, CtlType, LoopType, Callbacks, DeferredApi, Calls,
           event_deferred_cb_schedule_, event_deferred_cb_cancel_, event_callback_finalize_
<1>2. UNCHANGED <<pc, event_running_priority, count>> /\ SignalsWait'
    BY <1>1 DEF apiUnchanged, localVars, ctlVars, UrgentInv, SignalsWait
<1>3. CASE event_deferred_cb_schedule_(t, c)
    <2> DEFINE b == event_callback_activate_nolock_(base, c, t)
               n == b.n_deferreds_queued + 1
               r == [b EXCEPT !.n_deferreds_queued = n]
               P == {evcb_pri[c]}
    <2>1. \/ base' = event_callback_activate_later_nolock_(base, c, t)
          \/ base' = b \/ base' = r
        BY <1>3 DEF event_deferred_cb_schedule_
    <2>2. /\ Fills(base, event_callback_activate_later_nolock_(base, c, t), P)
          /\ Fills(base, b, P) /\ BaseOK(b)
        BY <1>1, Activate, ActivateFills, FillsMore
    <2> HIDE DEF b
    <2>3. r.activequeues = b.activequeues /\ r.event_continue = b.event_continue
        BY <2>2 DEF BaseOK, event_base
    <2> HIDE DEF r, P
    <2>4. Fills(base, r, P)
        BY <2>2, <2>3, FillsSame, FillsMore, FillsTwice, SMTT(30)
    <2>5. Fills(base, base', P)
        BY <2>1, <2>2, <2>4
    <2> QED BY <1>1, <1>2, <2>5, LowHurries, ApiUrgent DEF P
<1>4. CASE event_deferred_cb_cancel_(t, c)
    BY <1>1, <1>2, <1>4, CallbackFills, FillsMore, LowHurries, ApiUrgent, Zenon
       DEF event_deferred_cb_cancel_
<1>5. CASE event_callback_finalize_(t, c)
    BY <1>1, <1>2, <1>5, CallbackFills, LowHurries, ApiUrgent, Zenon DEF event_callback_finalize_
<1> QED BY <1>3, <1>4, <1>5 DEF DeferredApi

\* The operations on the base.
LEMMA BaseApiUrgent ==
    ASSUME IInv, UrgentInv, Unhurried, NEW t \in Threads, BaseApi(t)
    PROVE  UrgentInv'
<1>1. /\ BaseOK(base) /\ gettime \in Nat /\ event_running_priority \in Priorities \cup {-1}
    BY GettimeNat DEF IInv, CtlOK, CtlType, LoopType
<1>2. UNCHANGED <<pc, event_running_priority, count, thr>> /\ LockFree
    BY Zenon DEF BaseApi, event_base_loopbreak, event_base_loopcontinue, event_base_loopexit,
           event_base_add_virtual_, event_base_del_virtual_, apiUnchanged, localVars, userVars,
           ctlVars, Calls
<1>3. SignalsWait'
    BY <1>2 DEF UrgentInv, SignalsWait
<1>4. ASSUME NEW r, BaseOK(r), r.activequeues = base.activequeues,
             r.event_continue = base.event_continue, NEW need, base' = NotifyIf(r, need, t)
      PROVE  UrgentInv'
    <2>1. Fills(base, base', {})
        BY <1>4, FillsSame, AssignmentsFill, FillsTwice
    <2> QED BY <1>2, <1>3, <2>1, FillsHurries, ApiUrgent, SMTT(30)
<1>5. CASE event_base_loopbreak(t)
    BY <1>1, <1>4, <1>5, Zenon DEF event_base_loopbreak
<1>6. ~event_base_loopcontinue(t)
    BY Zenon DEF Unhurried, event_base_loopcontinue, Calls
<1>7. ASSUME NEW e \in LoopExits, NEW tv_ \in Intervals \cup {NoTV},
             event_base_loopexit(t, e, tv_)
      PROVE  UrgentInv'
    <2>1. e \in Events /\ e \in EventStructs /\ tv_ \in Nat \cup {NoTV}
        BY ThreadsAssumption, BoundsAssumption DEF EventStructs, Events
    <2>2. Hurries(base, event_active_nolock_(base, e, TRUE, 1, t))
        BY <1>1, <2>1, ActiveHurries, Zenon
    <2>3. Hurries(base, event_add_nolock_(base, e, tv_, FALSE, TRUE, TRUE, t))
        <3> DEFINE r == event_add_nolock_(base, e, tv_, FALSE, TRUE, TRUE, t)
        <3>1. Fills(base, r, {})
            BY <1>1, <2>1, AddFills, Zenon
        <3> HIDE DEF r
        <3>2. Hurries(base, r)
            BY <3>1, FillsHurries
        <3> QED BY <3>2, Zenon DEF r
    <2>4. Hurries(base, base')
        BY <1>7, <2>2, <2>3, Zenon DEF event_base_loopexit
    <2> QED BY <1>2, <1>3, <2>4, ApiUrgent, SMTT(30)
<1>8. CASE event_base_add_virtual_(t)
    <2>1. base'.activequeues = base.activequeues /\ base'.event_continue = base.event_continue
        BY <1>1, <1>8 DEF BaseOK, event_base, event_base_add_virtual_
    <2> QED BY <1>2, <1>3, <2>1, FillsSame, FillsHurries, ApiUrgent
<1>9. CASE event_base_del_virtual_(t)
    <2> DEFINE n == base.virtual_event_count - 1
               r == [base EXCEPT !.virtual_event_count = n]
    <2>1. n \in Nat
        BY <1>1, <1>9 DEF BaseOK, event_base, event_base_del_virtual_
    <2>2. r \in event_base /\ Assigned(base, r)
        <3> HIDE DEF n
        <3> QED BY <1>1, <2>1, Zenon DEF BaseOK, event_base, Assigned
    <2>3. r.activequeues = base.activequeues /\ r.event_continue = base.event_continue
        BY <1>1 DEF BaseOK, event_base
    <2>4. BaseOK(r) /\ base' = NotifyIf(r, base.virtual_event_count = 1, t)
        BY <1>1, <1>9, <2>2, AssignedOK DEF event_base_del_virtual_
    <2> HIDE DEF r
    <2> QED BY <1>4, <2>3, <2>4
<1> QED BY <1>5, <1>6, <1>7, <1>8, <1>9, SMTT(30) DEF BaseApi

\* The rest of a call that had to wait.
LEMMA ResumeUrgent ==
    ASSUME IInv, UrgentInv, Unhurried, NEW t \in Threads, Resume(t)
    PROVE  UrgentInv'
<1> DEFINE e == thr[t].ev
           op == thr[t].op
<1>1. /\ BaseOK(base) /\ gettime \in Nat /\ CallType
      /\ event_running_priority \in Priorities \cup {-1}
    BY GettimeNat, SMTT(30) DEF IInv, CtlOK, CtlType, LoopType
<1>2. thr[t] # Idle
    BY DEF Resume, Idle
<1>3. /\ e \in Events /\ e \in EventStructs
      /\ op = "event_add" => thr[t].arg \in Nat \cup {NoTV}
      /\ op = "event_active" => thr[t].arg \in Nat
      /\ op \in {"event_active", "event_finalize"} => e \in SignalEvents
    BY <1>2, Zenon DEF IInv, CtlOK, ThrOK, EventStructs, UrgentInv, SignalsWait
<1>4. PICK ok \in Accepts(e), hit \in Hits(t, e) :
         \/ /\ op = "event_add"
            /\ base' = event_add_nolock_(base, e, thr[t].arg, FALSE, ok, hit, t)
         \/ base' = event_del_nolock_(base, e, ok, hit, t)
         \/ /\ op = "event_active"
            /\ base' = event_active_finish(base, e, thr[t].arg, t)
         \/ /\ op = "event_finalize"
            /\ base' = event_finalize_finish(base, e, t)
    BY ZenonT(30) DEF Resume
<1>5. /\ UNCHANGED <<pc, event_running_priority, count>> /\ LockFree
      /\ thr' = [thr EXCEPT ![t] = Idle]
    BY SMTT(30) DEF Resume, apiUnchanged, localVars, ctlVars
<1>6. SignalsWait'
    BY <1>1, <1>5 DEF UrgentInv, SignalsWait, CallType
<1> HIDE DEF e, op
<1>7. Hurries(base, base')
    <2>1. CASE base' = event_add_nolock_(base, e, thr[t].arg, FALSE, ok, hit, t) /\ op = "event_add"
        <3>1. Fills(base, base', {})
            BY <1>1, <1>3, <2>1, AddFills, Zenon
        <3> QED BY <3>1, FillsHurries
    <2>2. CASE base' = event_del_nolock_(base, e, ok, hit, t)
        <3>1. Fills(base, base', {})
            BY <1>1, <1>3, <2>2, DelFills, Zenon
        <3> QED BY <3>1, FillsHurries
    <2>3. CASE base' = event_active_finish(base, e, thr[t].arg, t) /\ op = "event_active"
        BY <1>1, <1>3, <2>3, FinishFills, LowHurries, Zenon
    <2>4. CASE base' = event_finalize_finish(base, e, t) /\ op = "event_finalize"
        BY <1>1, <1>3, <2>4, FinalizeFinishFills, LowHurries, ZenonT(30)
    <2> QED BY <1>4, <2>1, <2>2, <2>3, <2>4, Zenon
<1> QED BY <1>5, <1>6, <1>7, ApiUrgent, SMTT(30)

----------------------------------------------------------------------------
(* The steps of the loop.                                                  *)

\* What happens while a callback runs.
LEMMA RunningUrgent ==
    ASSUME UrgentInv, pc \in RunningPcs, pc' \in RunningPcs, Hurries(base, base'),
           UNCHANGED <<event_running_priority, count, thr>>
    PROVE  UrgentInv'
<1>1. NoneBefore(event_running_priority)' \/ base'.event_continue
    BY SMTT(30) DEF UrgentInv, NoneBefore, Hurries
<1>2. base'.event_continue => event_running_priority > 0
    BY DEF UrgentInv, Hurries
<1>3. SignalsWait'
    BY DEF UrgentInv, SignalsWait
<1>4. pc' \notin {"queue", "active", "out", "top"}
    BY DEF RunningPcs
<1>5. count' = 0 => event_running_priority' = 0
    BY DEF UrgentInv
<1>6. event_running_priority' = event_running_priority
    OBVIOUS
<1> QED BY <1>1, <1>2, <1>3, <1>4, <1>5, <1>6, Zenon DEF UrgentInv

\* What happens outside event_process_active.
LEMMA OutsideUrgent ==
    ASSUME UrgentInv, pc' \notin RunningPcs \cup {"queue", "active"},
           event_running_priority' = -1, pc' \notin {"out", "top"} => ~base'.event_continue,
           SignalsWait'
    PROVE  UrgentInv'
BY DEF UrgentInv, RunningPcs

\* event_process_active returns, to the head of the loop or out of it.
LEMMA ReturnsUrgent ==
    ASSUME UrgentInv, NEW b, NEW n, NEW cache, process_active_returns(b, n, cache), SignalsWait'
    PROVE  UrgentInv'
<1>1. event_running_priority' = -1 /\ pc' \in {"out", "top"}
    BY DEF process_active_returns, loop_turn_ends, loop_returns
<1> QED BY <1>1, OutsideUrgent DEF RunningPcs

\* The first callback of the queue is started.
LEMMA RunUrgent ==
    ASSUME IInv, UrgentInv, run_callback
    PROVE  UrgentInv'
<1> DEFINE q == base.activequeues[event_running_priority]
<1> SUFFICES ASSUME NEW c, c = Head(q) PROVE UrgentInv'
    OBVIOUS
<1> DEFINE deletes == c \in Events \ Persist /\ ~Has(base, c, "FINALIZING")
           d == event_del_nolock_(base, c, TRUE, TRUE, th_owner_id)
           r == event_queue_remove_active(base, c)
           b == IF deletes THEN d ELSE r
           closure == base.closure[c]
<1>1. /\ BaseOK(base) /\ gettime \in Nat /\ count \in Nat
      /\ pc = "queue" /\ event_running_priority \in Priorities /\ q # << >>
      /\ NoneBefore(event_running_priority) /\ ~base.event_continue
    BY GettimeNat, Zenon
       DEF IInv, CtlOK, PcOK, CtlType, LoopType, run_callback, UrgentInv, RunningPcs
<1>2. c \in Callbacks /\ Has(base, c, "ACTIVE") /\ evcb_pri[c] = event_running_priority
    <2> DEFINE M == ActiveAt(base.flags, event_running_priority)
    <2>1. q \in Seq(Callbacks) /\ Lists(q, M)
        BY <1>1 DEF BaseOK, QueuesMatchFlags, event_base
    <2> HIDE DEF q, M
    <2>2. c \in Callbacks /\ c \in M
        BY <1>1, <2>1, ListsTail, SMTT(30)
    <2> QED BY <2>2, SMTT(30) DEF M, ActiveAt, Has
<1>3. closure \in {event_assign(c)} \cup Finalizers
    BY <1>1, <1>2 DEF BaseOK, ClosuresKept
<1>4. closure \in {"EVENT_SIGNAL", "EVENT_PERSIST"} => c \in EventStructs
    BY <1>2, <1>3, CallbacksAssumption, Zenon
        DEF event_assign, Finalizers, Callbacks, EventStructs, Events
<1>5. /\ count' = IF count + Counted(c) <= CountCap THEN count + Counted(c) ELSE CountCap
      /\ pc' \in {"body_done", "callback"} /\ UNCHANGED <<event_running_priority, thr>>
    BY Zenon DEF run_callback, ctlVars, userVars
<1>6. \/ /\ closure = "EVENT_SIGNAL" /\ base' = event_signal_closure(b, c)
      \/ /\ closure = "EVENT_PERSIST"
         /\ \E ok \in Accepts(c) : base' = event_persist_closure(b, c, ok)
      \/ base' = b
    BY Zenon DEF run_callback
<1>7. count' = 0 => event_running_priority = 0
    <2>1. CountCap \in Nat \ {0}
        BY BoundsAssumption DEF CountCap
    <2>2. count' = 0 => c \in Internal
        BY <1>1, <1>5, <2>1 DEF Counted
    <2> QED BY <1>2, <2>2, PrioritiesAssumption
<1> HIDE DEF closure, q
<1>8. BaseOK(b) /\ Fills(base, b, {})
    <2>1. deletes => c \in EventStructs
        BY DEF EventStructs
    <2>2. deletes => BaseOK(d) /\ Fills(base, d, {})
        BY <1>1, <2>1, DelNolock, DelFills, ZenonT(30)
    <2>3. BaseOK(r) /\ Fills(base, r, {})
        BY <1>1, <1>2, RemoveActive, QueuesFill, Zenon
    <2> QED BY <2>2, <2>3, Zenon
<1> HIDE DEF b
<1>9. Fills(b, base', {})
    <2>1. CASE closure = "EVENT_SIGNAL" /\ base' = event_signal_closure(b, c)
        BY <1>8, <2>1, AssignmentsFill
    <2>2. CASE /\ closure = "EVENT_PERSIST"
               /\ \E ok \in Accepts(c) : base' = event_persist_closure(b, c, ok)
        BY <1>1, <1>4, <1>8, <2>2, PersistFills, SMTT(30)
    <2>3. CASE base' = b
        BY <2>3, FillsSame
    <2> QED BY <1>6, <2>1, <2>2, <2>3
<1>10. Fills(base, base', {})
    BY <1>8, <1>9, FillsTwice, SMTT(30)
<1>11. NoneBefore(event_running_priority)' /\ ~base'.event_continue
    BY <1>1, <1>5, <1>10, SMTT(30) DEF NoneBefore, Fills
<1>12. SignalsWait'
    BY <1>5, SMTT(30) DEF UrgentInv, SignalsWait
<1> QED BY <1>5, <1>7, <1>11, <1>12 DEF UrgentInv, RunningPcs

\* A callback has returned: when event_continue stops the queue, a callback of
\* the program was counted, and event_process_active returns.
LEMMA ReturnUrgent ==
    ASSUME IInv, UrgentInv, Unhurried, callback_returns
    PROVE  UrgentInv'
<1> DEFINE b == IF evcb_closure = "EVENT_SIGNAL"
                THEN signal_closure_returns(base, evcb) ELSE base
           full  == count >= max_to_process
           timed == /\ ~full /\ count > 0 /\ endtime # NoTV
                    /\ event_running_priority >= limit_callbacks_after_prio
           cache == IF timed THEN clock ELSE tv_cache
           stop  == full \/ (timed /\ clock >= endtime) \/ b.event_continue
<1>1. /\ BaseOK(base) /\ CallType /\ LoopType /\ pc \in RunningPcs
      /\ event_running_priority \in Priorities
    BY DEF IInv, CtlOK, CtlType, PcOK, callback_returns, BodyDone, RunningPcs
<1>2. Fills(base, b, {})
    BY <1>1, AssignmentsFill, FillsSame
<1>3. /\ base' = b
      /\ \/ process_active_returns(b, -1, tv_cache)
         \/ stop /\ single_queue_returns(b, cache)
         \/ /\ ~stop /\ pc' = "queue"
            /\ UNCHANGED <<event_running_priority, count>>
    BY ZenonT(30) DEF callback_returns, ctlVars
<1>4. SignalsWait'
    <2>1. thr' = IF current_event_waiters = 0 THEN thr
                 ELSE [t \in Threads |-> IF thr[t] = Idle THEN Idle
                                         ELSE [thr[t] EXCEPT !.woken = TRUE]]
        BY Zenon DEF callback_returns
    <2>2. \A t \in Threads : /\ thr'[t] # Idle => thr[t] # Idle
                             /\ thr'[t].op = thr[t].op /\ thr'[t].ev = thr[t].ev
        BY <1>1, <2>1 DEF CallType
    <2> QED BY <2>2 DEF UrgentInv, SignalsWait
<1>5. stop => count > 0
    <2>1. count \in Nat /\ max_to_process \in Nat \ {0}
        BY <1>1, BoundsAssumption, SMTT(30) DEF LoopType, max_to_process, INT_MAX, Unhurried
    <2>2. count = 0 => ~b.event_continue
        BY <1>1, <1>2 DEF UrgentInv, Fills
    <2> HIDE DEF b
    <2>3. count = 0 => ~full /\ ~timed
        BY <2>1
    <2> HIDE DEF full, timed
    <2> QED BY <2>1, <2>2, <2>3, SMTT(30)
<1> HIDE DEF b
<1>6. CASE process_active_returns(b, -1, tv_cache)
    BY <1>4, <1>6, ReturnsUrgent, SMTT(30)
<1>7. CASE stop /\ single_queue_returns(b, cache)
    BY <1>4, <1>5, <1>7, ReturnsUrgent, SMTT(30) DEF single_queue_returns
<1>8. CASE /\ ~stop /\ pc' = "queue"
           /\ UNCHANGED <<event_running_priority, count>>
    <2>1. ~base'.event_continue /\ ~base.event_continue
        BY <1>2, <1>3, <1>8, SMTT(30) DEF Fills
    <2>2. NoneBefore(event_running_priority)'
        BY <1>1, <1>2, <1>3, <1>8, <2>1, SMTT(30) DEF UrgentInv, NoneBefore, Fills
    <2> QED BY <1>4, <1>8, <2>1, <2>2, SMTT(30) DEF UrgentInv, RunningPcs
<1> QED BY <1>3, <1>6, <1>7, <1>8

\* event_process_active goes through the queues.
LEMMA QueuesUrgent ==
    ASSUME IInv, UrgentInv,
           \/ process_active_begins \/ process_active_queue \/ process_active_ends
           \/ queue_empty
    PROVE  UrgentInv'
<1>1. UNCHANGED <<base, thr>> /\ pc \in {"timeouts", "active", "queue"} /\ ~base.event_continue
    BY ZenonT(30) DEF process_active_begins, process_active_queue, process_active_ends, queue_empty,
           userVars, UrgentInv, RunningPcs
<1>2. SignalsWait'
    BY <1>1, SMTT(30) DEF UrgentInv, SignalsWait
<1>3. CASE process_active_begins
    <2>1. pc' = "active" /\ next_pri' = 0
        BY <1>3 DEF process_active_begins
    <2>2. NoneBefore(next_pri)'
        BY <2>1, PrioritiesAssumption, SMTT(30) DEF NoneBefore, Priorities
    <2> QED BY <1>1, <1>2, <2>1, <2>2, SMTT(30) DEF UrgentInv, RunningPcs
<1>4. CASE process_active_queue
    <2>1. PICK p \in NonEmpty :
              /\ \A o \in NonEmpty : p <= o
              /\ event_running_priority' = p /\ pc' = "queue" /\ pc = "active"
        BY <1>4, SMTT(30) DEF process_active_queue
    <2>2. NoneBefore(next_pri) /\ p \in Priorities /\ next_pri \in Nat
        BY <2>1 DEF UrgentInv, NonEmpty, IInv, CtlOK, CtlType, LoopType
    <2>3. NoneBefore(p)
        <3> SUFFICES ASSUME NEW o \in Priorities, o < p PROVE base.activequeues[o] = << >>
            BY DEF NoneBefore
        <3>1. CASE o < next_pri
            BY <2>2, <3>1, SMTT(30) DEF NoneBefore
        <3>2. CASE ~(o < next_pri)
            <4>1. o \in Int /\ p \in Int
                BY <2>2, PrioritiesAssumption DEF Priorities
            <4>2. o \notin NonEmpty
                BY <2>1, <4>1
            <4> QED BY <2>2, <3>2, <4>1, <4>2, SMTT(30) DEF NonEmpty
        <3> QED BY <3>1, <3>2, SMTT(30)
    <2>4. NoneBefore(event_running_priority)'
        BY <1>1, <2>1, <2>3, SMTT(30) DEF NoneBefore
    <2> QED BY <1>1, <1>2, <2>1, <2>4, SMTT(30) DEF UrgentInv, RunningPcs
<1>5. CASE process_active_ends
    BY <1>2, <1>5, ReturnsUrgent, SMTT(30) DEF process_active_ends
<1>6. CASE queue_empty
    <2>1. /\ pc = "queue" /\ base.activequeues[event_running_priority] = << >>
          /\ single_queue_returns(base, tv_cache)
        BY <1>6 DEF queue_empty
    <2>2. CASE count > 0
        BY <1>2, <2>1, <2>2, ReturnsUrgent, Zenon DEF single_queue_returns
    <2>3. CASE ~(count > 0)
        <3>1. pc' = "active" /\ next_pri' = event_running_priority + 1
            BY <2>1, <2>3, SMTT(30) DEF single_queue_returns
        <3>2. event_running_priority \in Priorities /\ NoneBefore(event_running_priority)
            BY <2>1 DEF IInv, CtlOK, PcOK, UrgentInv
        <3>3. \A p \in Priorities : p < event_running_priority + 1 =>
                  p < event_running_priority \/ p = event_running_priority
            BY <3>2, PrioritiesAssumption, SMTT(30) DEF Priorities
        <3>4. NoneBefore(next_pri)'
            BY <1>1, <2>1, <3>1, <3>2, <3>3, SMTT(30) DEF NoneBefore
        <3> QED BY <1>1, <1>2, <3>1, <3>4, SMTT(30) DEF UrgentInv, RunningPcs
    <2> QED BY <2>2, <2>3, SMTT(30)
<1> QED BY <1>3, <1>4, <1>5, <1>6

\* The steps before event_process_active.
LEMMA PollUrgent ==
    ASSUME IInv, UrgentInv,
           \/ \E t \in Threads : event_base_loop(t)
           \/ loop_terminated \/ loop_empty \/ loop_goes_on
           \/ event_queue_make_later_events_active \/ dispatch
           \/ epoll_wait_returns \/ dispatch_fails
           \/ dispatch_locks \/ evmap_io_active_ \/ dispatch_returns
           \/ timeout_process \/ nothing_active
    PROVE  UrgentInv'
<1>1. /\ BaseOK(base)
      /\ pc \in {"out", "top", "later", "dispatch", "polled", "events", "timeouts"}
      /\ UNCHANGED <<event_running_priority, thr>>
    BY ZenonT(30) DEF IInv, event_base_loop, loop_terminated, loop_empty, loop_goes_on,
           event_queue_make_later_events_active, dispatch, epoll_wait_returns, dispatch_fails,
           dispatch_locks, evmap_io_active_, dispatch_returns, timeout_process, nothing_active,
           ctlVars, userVars
<1>2. event_running_priority = -1 /\ event_running_priority' = -1 /\ SignalsWait'
    BY <1>1 DEF UrgentInv, RunningPcs, SignalsWait
<1>3. CASE loop_terminated \/ loop_empty \/ loop_goes_on
    <2>1. base' = loop_head_base /\ pc' \in {"out", "later"}
        BY <1>3 DEF loop_terminated, loop_empty, loop_goes_on, loop_returns
    <2>2. ~base'.event_continue
        BY <1>1, <2>1, SMTT(30) DEF BaseOK, event_base, loop_head_base
    <2> QED BY <1>2, <2>1, <2>2, OutsideUrgent, SMTT(30) DEF RunningPcs
<1>4. CASE event_queue_make_later_events_active
    <2>1. /\ base' = make_later_event_active(base) /\ pc = "later" /\ pc' = "later"
        BY <1>4 DEF event_queue_make_later_events_active
    <2>2. base'.event_continue = base.event_continue
        BY <1>1, <2>1, SMTT(30) DEF BaseOK, event_base, make_later_event_active
    <2>3. ~base.event_continue
        BY <2>1 DEF UrgentInv, RunningPcs
    <2> QED BY <1>2, <2>1, <2>2, <2>3, OutsideUrgent, SMTT(30) DEF RunningPcs
<1>5. ASSUME Hurries(base, base'), pc \in {"events", "timeouts"}, pc' = pc
      PROVE  UrgentInv'
    <2>1. ~base'.event_continue
        BY <1>2, <1>5 DEF UrgentInv, Hurries, RunningPcs
    <2> QED BY <1>2, <1>5, <2>1, OutsideUrgent, SMTT(30) DEF RunningPcs
<1>6. CASE evmap_io_active_
    <2>1. PICK e \in IoEvents \cup Internal :
              base' = event_active_nolock_(base, e, FALSE, 1, th_owner_id)
        BY <1>6, Zenon DEF evmap_io_active_, ToActivate
    <2>2. e \in EventStructs /\ pc = "events" /\ pc' = pc
        BY <1>6 DEF EventStructs, Events, evmap_io_active_
    <2> QED BY <1>1, <1>2, <1>5, <2>1, <2>2, ActiveHurries, Zenon
<1>7. CASE timeout_process
    <2>1. PICK e \in EventStructs :
              base' = IF Has(base, e, "FINALIZING") THEN base
                      ELSE event_active_nolock_(
                             event_del_nolock_(base, e, TRUE, TRUE, th_owner_id),
                             e, TRUE, 1, th_owner_id)
        BY <1>7, Zenon DEF timeout_process, Elapsed, min_heap_top_, Timeouts
    <2>2. pc = "timeouts" /\ pc' = pc
        BY <1>7 DEF timeout_process
    <2> DEFINE d == event_del_nolock_(base, e, TRUE, TRUE, th_owner_id)
    <2>3. BaseOK(d) /\ Fills(base, d, {})
        BY <1>1, DelNolock, DelFills, Zenon
    <2> DEFINE a == event_active_nolock_(d, e, TRUE, 1, th_owner_id)
    <2>4. base' = base \/ base' = a
        BY <2>1, Zenon
    <2> HIDE DEF d
    <2>5. Hurries(d, a)
        BY <1>2, <2>3, ActiveHurries, Zenon
    <2> HIDE DEF a
    <2>6. Hurries(base, d) /\ Hurries(base, base)
        BY <2>3, FillsHurries, Zenon DEF Hurries
    <2> QED BY <1>5, <2>2, <2>4, <2>5, <2>6, HurriesTwice, SMTT(30)
<1>8. CASE \/ \E t \in Threads : event_base_loop(t)
           \/ dispatch \/ epoll_wait_returns \/ dispatch_fails
           \/ dispatch_locks \/ dispatch_returns \/ nothing_active
    <2>1. /\ UNCHANGED base
          /\ pc' \notin RunningPcs \cup {"queue", "active"}
          /\ pc' \notin {"out", "top"} => pc \notin {"out", "top"}
        BY <1>8, Zenon DEF event_base_loop, dispatch, epoll_wait_returns, dispatch_fails,
           dispatch_locks, dispatch_returns, nothing_active, loop_returns, RunningPcs
    <2>2. pc \notin {"out", "top"} => ~base.event_continue
        BY <1>1 DEF UrgentInv, RunningPcs
    <2> QED BY <1>2, <2>1, <2>2, OutsideUrgent
<1> QED BY <1>3, <1>4, <1>6, <1>7, <1>8, SMTT(30)

\* The steps inside a callback.
LEMMA CallbackUrgent ==
    ASSUME IInv, UrgentInv,
           \/ notify_drain_reads \/ notify_drain_clears
           \/ evsig_cb_locks \/ evmap_signal_active_ \/ evsig_cb_unlocks
           \/ event_loopexit_cb \/ signal_callback_again
    PROVE  UrgentInv'
<1>1. /\ BaseOK(base) /\ pc \in RunningPcs /\ pc' \in RunningPcs
      /\ UNCHANGED <<event_running_priority, count, thr>>
      /\ event_running_priority \in Priorities \cup {-1}
    BY Zenon DEF IInv, CtlOK, CtlType, LoopType, notify_drain_reads, notify_drain_clears,
           evsig_cb_locks, evmap_signal_active_, evsig_cb_unlocks, event_loopexit_cb,
           signal_callback_again, BodyDone, RunningPcs, callbackUnchanged, ctlVars, localVars,
           userVars
<1>2. CASE notify_drain_reads \/ notify_drain_clears
    <2>1. base'.activequeues = base.activequeues /\ base'.event_continue = base.event_continue
        BY <1>1, <1>2, SMTT(30) DEF BaseOK, event_base, notify_drain_reads, notify_drain_clears
    <2> QED BY <1>1, <2>1, FillsSame, FillsHurries, RunningUrgent, Zenon
<1>3. CASE evsig_cb_locks \/ evsig_cb_unlocks \/ event_loopexit_cb
    <2>1. UNCHANGED base
        BY <1>3 DEF evsig_cb_locks, evsig_cb_unlocks, event_loopexit_cb
    <2> QED BY <1>1, <2>1, FillsSame, FillsHurries, RunningUrgent, SMTT(30)
<1>4. CASE evmap_signal_active_
    <2>1. PICK e \in SignalEvents, n \in 1 .. MaxNcalls :
              base' = event_active_nolock_(base, e, FALSE, n, th_owner_id)
        BY <1>4, Zenon DEF evmap_signal_active_
    <2>2. e \in EventStructs /\ n \in Nat
        BY BoundsAssumption DEF EventStructs, Events
    <2> QED BY <1>1, <2>1, <2>2, ActiveHurries, RunningUrgent, Zenon
<1>5. CASE signal_callback_again
    <2>1. Fills(base, base', {})
        BY <1>1, <1>5, AssignmentsFill DEF signal_callback_again
    <2> QED BY <1>1, <2>1, FillsHurries, RunningUrgent, SMTT(30)
<1> QED BY <1>2, <1>3, <1>4, <1>5

\* Every step preserves the invariant.
LEMMA NextUrgent ==
    ASSUME Unhurried
    PROVE  IInv /\ UrgentInv /\ [Next]_vars => UrgentInv'
<1> SUFFICES ASSUME IInv, UrgentInv, [Next]_vars PROVE UrgentInv'
    OBVIOUS
<1>1. CASE LoopStep
    BY <1>1, RunUrgent, ReturnUrgent, QueuesUrgent, PollUrgent, CallbackUrgent DEF LoopStep
<1>2. CASE epoll_wait_returns \/ dispatch_fails
    BY <1>2, PollUrgent, SMTT(30)
<1>3. CASE Tick \/ UNCHANGED vars
    <2>1. UNCHANGED <<base, pc, event_running_priority, count, thr, next_pri>>
        BY <1>3, SMTT(30) DEF Tick, vars, ctlVars, localVars, userVars
    <2> QED BY <2>1, SMTT(30) DEF UrgentInv, NoneBefore, SignalsWait
<1>4. ASSUME NEW t \in Threads,
             \/ \E e \in UserEvents : EventApi(t, e)
             \/ \E c \in Deferreds : DeferredApi(t, c)
             \/ BaseApi(t) \/ Resume(t) \/ event_base_loop(t)
      PROVE  UrgentInv'
    BY <1>4, EventApiUrgent, DeferredApiUrgent, BaseApiUrgent, ResumeUrgent, PollUrgent, SMTT(30)
<1> QED BY <1>1, <1>2, <1>3, <1>4, SMTT(30) DEF Next
=============================================================================
