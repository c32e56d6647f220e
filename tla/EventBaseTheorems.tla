------------------------- MODULE EventBaseTheorems --------------------------
(***************************************************************************)
(* The theorems about EventBase, for every set of events, threads and      *)
(* operations.                                                             *)
(***************************************************************************)
EXTENDS WakeupProofs, CallbackProofs, FiniteSetTheorems

\* The library's theorems on finite sets give what the proofs use.
LEMMA CardinalitiesHold == Cardinalities
<1>1. ASSUME NEW S, IsFiniteSet(S)
      PROVE  Cardinality(S) \in Nat /\ (Cardinality(S) = 0 <=> S = {})
    BY <1>1, FS_CardinalityType, FS_EmptySet
<1>2. ASSUME NEW S, NEW x, IsFiniteSet(S)
      PROVE  /\ x \notin S => Cardinality(S \cup {x}) = Cardinality(S) + 1
             /\ x \in S => Cardinality(S \ {x}) = Cardinality(S) - 1
    BY <1>2, FS_AddElement, FS_RemoveElement
<1>3. ASSUME NEW S, NEW T, IsFiniteSet(S), T \subseteq S
      PROVE  IsFiniteSet(T)
    BY <1>3, FS_Subset
<1>4. IsFiniteSet({})
    BY FS_EmptySet
<1>5. IsFiniteSet(EVLIST)
    <2>1. /\ IsFiniteSet({"TIMEOUT"}) /\ IsFiniteSet({"INSERTED"})
          /\ IsFiniteSet({"ACTIVE"}) /\ IsFiniteSet({"ACTIVE_LATER"})
          /\ IsFiniteSet({"FINALIZING"})
        BY FS_Singleton, Zenon
    <2>2. EVLIST = (({"TIMEOUT"} \cup {"INSERTED"}) \cup ({"ACTIVE"} \cup {"ACTIVE_LATER"}))
                       \cup {"FINALIZING"}
        BY DEF EVLIST
    <2> QED BY <2>1, <2>2, FS_Union, Zenon
<1>6. IsFiniteSet(Callbacks \X EVLIST)
    BY <1>5, CallbacksAssumption, FS_Product
<1> QED BY <1>1, <1>2, <1>3, <1>4, <1>6 DEF Cardinalities

\* The inductive invariant holds in every state of every behaviour.
THEOREM Invariance == Spec => []IInv
<1>1. Init => IInv
    BY InitInv, CardinalitiesHold
<1>2. IInv /\ [Next]_vars => IInv'
    BY NextInv
<1> QED BY <1>1, <1>2, PTL DEF Spec

\* The variables keep their types, for any events, threads and operations.
THEOREM TypeCorrect == Spec => []TypeOK
BY Invariance, IInvImplies, PTL

\* The queues of the base always agree with the flags of the callbacks.
THEOREM QueuesCorrect == Spec => []QueuesOK
BY Invariance, IInvImplies, PTL

\* event_count and event_count_active are always exact.
THEOREM CountsCorrect == Spec => []CountsExact
BY Invariance, IInvImplies, PTL

\* No thread waits for a callback that is not running.
THEOREM WaitersCorrect == Spec => []WaitersCounted
BY Invariance, IInvImplies, PTL

\* event_base_loop returns for want of events only when there are none: the
\* only step from the head of the loop to its end that finds neither
\* event_gotterm nor event_break set is loop_empty.
THEOREM EndsCorrect == Spec => EndsOnlyEmpty
<1> DEFINE Ends == pc = "top" /\ pc' = "out" /\ ~event_gotterm /\ ~event_break =>
                     /\ base.virtual_event_count = 0
                     /\ \A c \in Callbacks \ Internal : base.flags[c] \subseteq {"FINALIZING"}
<1>1. IInv /\ [Next]_vars => [Ends]_vars
    <2> SUFFICES ASSUME IInv, Next, pc = "top", pc' = "out", ~event_gotterm, ~event_break
                 PROVE  NoEvents
        BY EmptyCount
    <2>1. ASSUME NEW t \in Threads, NEW e, EventApi(t, e) PROVE FALSE
        BY <2>1 DEF EventApi, event_add, event_del, event_free, event_active,
               event_active_later_, event_finalize, event_remove_timer, Calls, LockFree
    <2>2. ASSUME NEW t \in Threads, NEW c, DeferredApi(t, c) PROVE FALSE
        BY <2>2 DEF DeferredApi, event_deferred_cb_schedule_, event_deferred_cb_cancel_,
               event_callback_finalize_, Calls, LockFree
    <2>3. ASSUME NEW t \in Threads, BaseApi(t) \/ Resume(t) \/ event_base_loop(t) PROVE FALSE
        BY <2>3 DEF BaseApi, event_base_loopbreak, event_base_loopcontinue, event_base_loopexit,
               event_base_add_virtual_, event_base_del_virtual_, Resume, event_base_loop,
               Calls, LockFree
    <2>4. CASE LoopStep
        BY <2>4, Zenon DEF LoopStep, loop_terminated, loop_empty, loop_goes_on,
               event_queue_make_later_events_active, dispatch, dispatch_locks, evmap_io_active_,
               dispatch_returns, timeout_process, process_active_begins, nothing_active,
               process_active_queue, process_active_ends, queue_empty, run_callback,
               notify_drain_reads, notify_drain_clears, evsig_cb_locks, evmap_signal_active_,
               evsig_cb_unlocks, event_loopexit_cb, signal_callback_again, callback_returns,
               BodyDone
    <2>5. CASE epoll_wait_returns \/ dispatch_fails \/ Tick
        BY <2>5 DEF epoll_wait_returns, dispatch_fails, Tick, LockFree
    <2> QED BY <2>1, <2>2, <2>3, <2>4, <2>5 DEF Next
<1> QED BY <1>1, Invariance, PTL DEF EndsOnlyEmpty, Spec

\* The loop is told of what it should not sleep on, in every state.
LEMMA WakeInvariance == Spec => []WakeInv
BY Invariance, InitWake, NextWake, PTL DEF Spec

\* While the loop sleeps, whatever another thread made it necessary to do at
\* once has made the notify descriptor readable, or the sleep is over: the
\* flag is_notify_pending, which spares the threads a second write, never
\* spares them one that the loop has not yet read.
THEOREM WakeupsCorrect == Spec => []NoLostWakeup
<1>1. WakeInv => NoLostWakeup
    BY DEF WakeInv
<1> QED BY <1>1, WakeInvariance, PTL

\* While the loop sleeps, it is to wake no later than each pending timeout.
THEOREM TimersCorrect == Spec => []TimersWake
<1>1. WakeInv => TimersWake
    BY DEF WakeInv
<1> QED BY <1>1, WakeInvariance, PTL

\* When no backend deletion fails, a sleeping loop wakes for each pending
\* timeout, and one that has nothing left to wait for does not sleep for ever:
\* event_del tells it of the last event, although it notifies only of an
\* event that was watched, and event_base_del_virtual_ of the last virtual one.
THEOREM SleepsCorrect ==
    ASSUME MayFail = {}
    PROVE  Spec => []SleepEnds
<1>1. Init => SleepInv
    BY DEF Init, SleepInv, EmptyLoopWakes
<1>2. IInv /\ WakeInv /\ SleepInv /\ [Next]_vars => SleepInv'
    BY NextSleep
<1>3. WakeInv /\ SleepInv => SleepEnds
    BY DEF WakeInv, SleepInv, SleepEnds
<1> QED BY <1>1, <1>2, <1>3, Invariance, WakeInvariance, PTL DEF Spec

\* When nobody waits for an event that may be finalized, a finalizer that was
\* asked for stays queued and marked until it runs, and what was finalized is
\* never on a queue again: event_add, event_del, event_active, the timeouts and
\* the deferred callbacks all leave it alone.
THEOREM FinalizersCorrect ==
    ASSUME NobodyWaits
    PROVE  Spec => []FinalizersSafe
<1>1. IInv /\ FinInv /\ [Next]_vars => FinInv'
    BY NextFin
<1>2. IInv /\ FinInv => FinalizersSafe
    BY FinInvImplies
<1> QED BY <1>1, <1>2, Invariance, InitFin, PTL DEF Spec

\* When what is activated without event_continue has the least urgent priority
\* and nobody calls event_base_loopcontinue, event_process_active starts no
\* callback while one of a more urgent priority is active, whoever activated it
\* and whenever: event_active_nolock_ sets event_continue, and the queue that is
\* running stops after the callback.
THEOREM PrioritiesCorrect ==
    ASSUME Unhurried
    PROVE  Spec => UrgentFirst
<1>1. Init => UrgentInv
    BY DEF Init, UrgentInv, RunningPcs, SignalsWait
<1>2. IInv /\ UrgentInv /\ [Next]_vars => UrgentInv'
    BY NextUrgent
<1>3. UrgentInv /\ [Next]_vars =>
        [pc = "queue" /\ evcb' # NULL =>
            \A p \in Priorities : p < event_running_priority => base.activequeues[p] = << >>]_vars
    BY DEF UrgentInv, NoneBefore
<1> QED BY <1>1, <1>2, <1>3, Invariance, PTL DEF Spec, UrgentFirst
=============================================================================
