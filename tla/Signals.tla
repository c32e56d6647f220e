------------------------------- MODULE Signals -------------------------------
(***************************************************************************)
(* Signal handling of signal.c for the event bases of one process, with    *)
(* the signal half of evmap.c and of event_reinit.                         *)
(*                                                                         *)
(* The first event for a signal installs evsig_handler and keeps what was  *)
(* installed before; the last one restores it.  The handler runs at any    *)
(* time and writes to the pipe of the one base that evsig_base names; that *)
(* base's loop reads the pipe and activates the events.  Each base is used *)
(* by a thread of its own; adding is split where a signal can come between.*)
(***************************************************************************)
EXTENDS Integers, FiniteSets

CONSTANTS
    Bases, SigEvents,
    ev_base, ev_signum,     \* the base and the signal of each event
    NeedReinit,             \* the backend's need_reinit (epoll: TRUE)
    WatchMayFail,           \* whether the backend may refuse the pipe, or a
                            \* descriptor that is added again after a fork
    PipeSize,               \* bound: bytes of a signal a pipe holds
    MaxCounted,             \* bound: forks of a base while it has signals
    NoBase

SigNums == {ev_signum[ev] : ev \in SigEvents}

ASSUME SignalsAssumption ==
    /\ ev_base \in [SigEvents -> Bases] /\ SigNums \subseteq Nat
    /\ IsFiniteSet(SigNums)           \* they are below NSIG
    /\ NeedReinit \in BOOLEAN /\ WatchMayFail \in BOOLEAN
    /\ PipeSize \in Nat /\ MaxCounted \in Nat
    /\ NoBase \notin Bases

VARIABLES
    handler,                \* the process's handlers: "user" or "evsig"
    evsig_base, evsig_base_fd,
    sig,                    \* base->sig of each base
    sigmap,                 \* the events listed in the signal maps
    pipe,                   \* the bytes in the pipe of each base
    adding                  \* the evsig_add each base is in the middle of

globalVars == <<evsig_base, evsig_base_fd>>
sigVars == <<handler, globalVars, sig, sigmap, pipe, adding>>

Idle    == [ev |-> NoBase, at |-> "none"]
NoBytes == [s \in SigNums |-> 0]
NoOld   == [s \in SigNums |-> "NULL"]
On(b, s) == {ev \in sigmap : ev_base[ev] = b /\ ev_signum[ev] = s}

\* What a base's pipe is called: evsig_init_ makes another one.
Fd(b) == <<b, sig[b].pair>>

evsig_init_(old) ==
    [old EXCEPT !.pair = 1 - @, !.open = TRUE, !.sh_old = NoOld, !.sh_old_max = 0]

----------------------------------------------------------------------------
(* Handlers.                                                               *)

\* The handler that was installed is kept in sh_old.
evsig_set_handler_(b, s) ==
    /\ handler' = [handler EXCEPT ![s] = "evsig"]
    /\ sig' = [sig EXCEPT ![b].sh_old[s] = handler[s],
                          ![b].sh_old_max = IF @ > s THEN @ ELSE s + 1]

\* Which handlers a base restores, and what that leaves in its sh_old.
evsig_restore_handler_(hs, old, S) ==
    LET can == {s \in S : s < old.sh_old_max}
    IN [hs  |-> [s \in SigNums |-> IF s \in can THEN old.sh_old[s] ELSE hs[s]],
        old |-> [old EXCEPT !.sh_old = [s \in SigNums |-> IF s \in can THEN "NULL"
                                                          ELSE @[s]]]]

----------------------------------------------------------------------------
(* Adding and deleting.                                                    *)

\* evsig_add claims the process's signals for the base.
claim(b) ==
    /\ evsig_base' = b
    /\ evsig_base_fd' = Fd(b)
    /\ sig' = [sig EXCEPT ![b].ev_n_signals_added = @ + 1]

evmap_signal_add_(ev) ==
    LET b == ev_base[ev]
    IN /\ sig[b].open /\ adding[b] = Idle /\ ev \notin sigmap
       /\ IF On(b, ev_signum[ev]) # {}
          THEN sigmap' = sigmap \cup {ev} /\ UNCHANGED <<globalVars, sig, adding>>
          ELSE /\ claim(b)
               /\ adding' = [adding EXCEPT ![b] = [ev |-> ev, at |-> "handler"]]
               /\ UNCHANGED sigmap
       /\ UNCHANGED <<handler, pipe>>

\* evsig_add, the handler.
evsig_add_handler(b) ==
    /\ adding[b].at = "handler"
    /\ evsig_set_handler_(b, ev_signum[adding[b].ev])
    /\ adding' = [adding EXCEPT ![b].at = "watch"]
    /\ UNCHANGED <<globalVars, sigmap, pipe>>

\* evsig_add, the event that watches the pipe.
evsig_add_watch(b) ==
    /\ adding[b].at = "watch"
    /\ sig' = [sig EXCEPT ![b].ev_signal_added = TRUE]
    /\ sigmap' = sigmap \cup {adding[b].ev}
    /\ adding' = [adding EXCEPT ![b] = Idle]
    /\ UNCHANGED <<handler, globalVars, pipe>>

\* The error exit takes back the counts and nothing else.
evsig_add_err(b) ==
    /\ \/ adding[b].at = "handler"
       \/ adding[b].at = "watch" /\ ~sig[b].ev_signal_added /\ WatchMayFail
    /\ sig' = [sig EXCEPT ![b].ev_n_signals_added = @ - 1]
    /\ adding' = [adding EXCEPT ![b] = Idle]
    /\ UNCHANGED <<handler, globalVars, sigmap, pipe>>

\* evmap_signal_del_ with the evsig_del of the last event.
evmap_signal_del_(ev) ==
    LET b == ev_base[ev]
        r == evsig_restore_handler_(handler, sig[b], {ev_signum[ev]})
    IN /\ ev \in sigmap /\ adding[b] = Idle
       /\ sigmap' = sigmap \ {ev}
       /\ IF On(b, ev_signum[ev]) = {ev}
          THEN /\ handler' = r.hs
               /\ sig' = [sig EXCEPT ![b] = [r.old EXCEPT !.ev_n_signals_added = @ - 1]]
          ELSE UNCHANGED <<handler, sig>>
       /\ UNCHANGED <<globalVars, pipe, adding>>

----------------------------------------------------------------------------
(* Delivery.                                                               *)

\* evsig_handler: a full pipe, or one that is closed, loses the signal.
evsig_handler(s) ==
    /\ handler[s] = "evsig" /\ evsig_base # NoBase
    /\ sig[evsig_base].open /\ evsig_base_fd = Fd(evsig_base)
    /\ pipe[evsig_base][s] < PipeSize
    /\ pipe' = [pipe EXCEPT ![evsig_base][s] = @ + 1]
    /\ UNCHANGED <<handler, globalVars, sig, sigmap, adding>>

\* evsig_cb reads everything and activates the events of each signal.
evsig_cb(b) ==
    /\ sig[b].ev_signal_added /\ adding[b] = Idle /\ pipe[b] # NoBytes
    /\ pipe' = [pipe EXCEPT ![b] = NoBytes]
    /\ UNCHANGED <<handler, globalVars, sig, sigmap, adding>>

\* event_base_loop claims the signals for a base that has any.
evsig_set_base_(b) ==
    /\ sig[b].open /\ adding[b] = Idle
    /\ sig[b].ev_signal_added /\ sig[b].ev_n_signals_added > 0
    /\ evsig_base' = b
    /\ evsig_base_fd' = Fd(b)
    /\ UNCHANGED <<handler, sig, sigmap, pipe, adding>>

----------------------------------------------------------------------------
(* Freeing and forking.                                                    *)

\* Mutant: the globals still name the base and its closed pipe.
released_late(b) == [b |-> evsig_base, fd |-> evsig_base_fd]

\* The globals after evsig_dealloc_.
released(b) == IF evsig_base = b THEN [b |-> NoBase, fd |-> <<NoBase, 0>>]
               ELSE [b |-> evsig_base, fd |-> evsig_base_fd]

\* base->sig and the handlers after evsig_dealloc_.
evsig_dealloc_(b) ==
    LET r == evsig_restore_handler_(handler, sig[b], {s \in SigNums : sig[b].sh_old[s] # "NULL"})
    IN [hs |-> r.hs, old |-> [r.old EXCEPT !.open = FALSE, !.ev_signal_added = FALSE,
                                           !.sh_old_max = 0, !.sh_old = NoOld]]

\* event_base_free: evmap_delete_all_ and the backend's dealloc.
event_base_free_(b) ==
    LET d == evsig_dealloc_(b)
        gone == Cardinality({s \in SigNums : On(b, s) # {}})
    IN /\ sig[b].open /\ adding[b] = Idle
       /\ handler' = d.hs
       /\ sigmap' = {ev \in sigmap : ev_base[ev] # b}
       /\ sig' = [sig EXCEPT ![b] = [d.old EXCEPT !.ev_n_signals_added = @ - gone]]
       /\ evsig_base' = released(b).b /\ evsig_base_fd' = released(b).fd
       /\ pipe' = [pipe EXCEPT ![b] = NoBytes]
       /\ UNCHANGED adding

\* The signal half of event_reinit: a new pipe, and the signals of `used' added
\* again when the backend needs it; otherwise only the event that watches the
\* pipe.
reinit_signals(b, used) ==
    LET d    == evsig_dealloc_(b)
        new  == evsig_init_(d.old)
        all  == [new EXCEPT !.ev_n_signals_added = @ + Cardinality(used),
                            !.ev_signal_added = used # {},
                            !.sh_old = [s \in SigNums |-> IF s \in used THEN d.hs[s]
                                                          ELSE "NULL"],
                            !.sh_old_max = IF used = {} THEN 0
                                           ELSE 1 + CHOOSE s \in used : \A t \in used : s >= t]
    IN /\ sig[b].open /\ adding[b] = Idle /\ sig[b].ev_n_signals_added <= MaxCounted
       /\ pipe' = [pipe EXCEPT ![b] = NoBytes]
       /\ IF NeedReinit
          THEN /\ handler' = [s \in SigNums |-> IF s \in used THEN "evsig" ELSE d.hs[s]]
               /\ sig' = [sig EXCEPT ![b] = all]
               /\ evsig_base' = IF used # {} THEN b ELSE released(b).b
               /\ evsig_base_fd' = IF used # {} THEN <<b, new.pair>> ELSE released(b).fd
          ELSE /\ sig' = [sig EXCEPT ![b] = evsig_init_(sig[b])]
               /\ UNCHANGED <<handler, globalVars>>
       /\ UNCHANGED <<sigmap, adding>>

\* evmap_reinit_ adds every signal with an event, or none when the backend has
\* refused a descriptor before.
event_reinit_signals(b) ==
    \E used \in {{s \in SigNums : On(b, s) # {}}} \cup (IF WatchMayFail THEN {{}} ELSE {}) :
        reinit_signals(b, used)

\* event_base_new, in place of a base that was freed.
event_base_new(b) ==
    /\ ~sig[b].open
    /\ sig' = [sig EXCEPT ![b] = [evsig_init_(@) EXCEPT !.ev_n_signals_added = 0]]
    /\ UNCHANGED <<handler, globalVars, sigmap, pipe, adding>>

SigInit ==
    /\ handler = [s \in SigNums |-> "user"]
    /\ evsig_base = NoBase /\ evsig_base_fd = <<NoBase, 0>>
    /\ sig = [b \in Bases |-> [ev_n_signals_added |-> 0, ev_signal_added |-> FALSE,
                               sh_old |-> NoOld, sh_old_max |-> 0, open |-> TRUE, pair |-> 0]]
    /\ sigmap = {} /\ pipe = [b \in Bases |-> NoBytes]
    /\ adding = [b \in Bases |-> Idle]

SigNext ==
    \/ \E ev \in SigEvents : evmap_signal_add_(ev) \/ evmap_signal_del_(ev)
    \/ \E b \in Bases : \/ evsig_add_handler(b) \/ evsig_add_watch(b) \/ evsig_add_err(b)
                        \/ evsig_cb(b) \/ evsig_set_base_(b)
                        \/ event_base_free_(b) \/ event_base_new(b) \/ event_reinit_signals(b)
    \/ \E s \in SigNums : evsig_handler(s)

SigSpec == SigInit /\ [][SigNext]_sigVars

----------------------------------------------------------------------------
(* Properties.                                                             *)

\* A signal is caught exactly as long as an event waits for it: evsig_handler
\* is installed with the first and what was there before comes back with the
\* last, with the base, or with a fork (bases that use different signals).
HandlersFollowEvents ==
    \A s \in SigNums :
        LET users == {b \in Bases : On(b, s) # {}}
            busy  == {b \in Bases : adding[b] # Idle /\ ev_signum[adding[b].ev] = s}
        IN busy = {} => (handler[s] = "evsig") = (users # {})

\* The base that is told of signals exists, its pipe is the one the handler
\* writes to, and when it has an event for a signal that signal is caught and
\* its pipe is watched: what is raised now reaches the event.
SignalsHeard ==
    evsig_base # NoBase =>
        /\ sig[evsig_base].open /\ evsig_base_fd = Fd(evsig_base)
        /\ \A s \in SigNums : On(evsig_base, s) # {} =>
              handler[s] = "evsig" /\ sig[evsig_base].ev_signal_added

\* "Count of the number of signals we're currently watching."
SignalsCounted ==
    \A b \in Bases : adding[b] = Idle =>
        sig[b].ev_n_signals_added = Cardinality({s \in SigNums : On(b, s) # {}})

\* Handlers follow the events, and what is raised reaches the base in charge.
SignalsFollow == HandlersFollowEvents /\ SignalsHeard
=============================================================================
