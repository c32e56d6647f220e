---------------------------- MODULE SignalsProofs ----------------------------
(***************************************************************************)
(* The signal handling of signal.c (Signals): handlers follow the events,  *)
(* for any number of bases, events and signals.                            *)
(***************************************************************************)
EXTENDS Signals, FiniteSetTheorems, WellFoundedInduction, TLAPS

\* The uses the theorem is about: no two bases have events for the same signal
\* (evsig_add warns of more, "Only one can have signals at a time"; different
\* signals on different bases are included here), the backend sets need_reinit,
\* and the backend refuses nothing.
Separate ==
    /\ \A e, f \in SigEvents : ev_signum[e] = ev_signum[f] => ev_base[e] = ev_base[f]
    /\ NeedReinit /\ ~WatchMayFail

\* The signals of a base, and those among them that it has a handler for: the
\* ones with an event listed and the one whose first event is being added.
Sigs(b) == {ev_signum[ev] : ev \in {e \in SigEvents : ev_base[e] = b}}

Caught(b, s) ==
    On(b, s) # {} \/ (adding[b].at = "watch" /\ ev_signum[adding[b].ev] = s)

evsig_info ==
    [ev_n_signals_added: Int, ev_signal_added: BOOLEAN,
     sh_old: [SigNums -> {"NULL", "user", "evsig"}], sh_old_max: Nat,
     open: BOOLEAN, pair: {0, 1}]

SigType ==
    /\ handler \in [SigNums -> {"user", "evsig"}]
    /\ evsig_base \in Bases \cup {NoBase}
    /\ sig \in [Bases -> evsig_info]
    /\ sigmap \subseteq SigEvents
    /\ adding \in [Bases -> [ev: SigEvents \cup {NoBase}, at: {"none", "handler", "watch"}]]

\* One base: what sh_old keeps is exactly what the handlers it installed have
\* replaced, within sh_old_max, and nothing is kept for the signals of others.
BaseFollows(b) ==
    /\ \/ adding[b] = Idle
       \/ /\ adding[b].ev \in SigEvents /\ ev_base[adding[b].ev] = b /\ adding[b].at # "none"
          /\ sig[b].open /\ On(b, ev_signum[adding[b].ev]) = {}
    /\ \A s \in Sigs(b) :
          IF Caught(b, s)
          THEN handler[s] = "evsig" /\ sig[b].sh_old[s] = "user" /\ s < sig[b].sh_old_max
          ELSE handler[s] = "user" /\ sig[b].sh_old[s] = "NULL"
    /\ \A s \in SigNums \ Sigs(b) : sig[b].sh_old[s] = "NULL"
    /\ \A s \in SigNums : On(b, s) # {} => sig[b].ev_signal_added /\ sig[b].open

\* The inductive invariant: every base, and the one that the handler writes to.
SigInv ==
    /\ SigType
    /\ \A b \in Bases : BaseFollows(b)
    /\ evsig_base # NoBase => sig[evsig_base].open /\ evsig_base_fd = Fd(evsig_base)

\* Every nonempty set of natural numbers has a least element.
LEMMA Least ==
    ASSUME NEW S \in SUBSET Nat, S # {}
    PROVE  \E n \in S : \A m \in S : n <= m
<1> DEFINE R == OpToRel(<, Nat)
<1>1. IsWellFoundedOn(R, Nat)
    BY NatLessThanWellFounded, Zenon
<1>2. \A x, y \in Nat : x < y => <<x, y>> \in R
    BY DEF OpToRel
<1>3. \E x \in S : \A y \in S : ~(<<y, x>> \in R)
    BY <1>1, WFMin, Zenon
<1> HIDE DEF R
<1>4. PICK x \in S : \A y \in S : ~(<<y, x>> \in R)
    BY <1>3, Zenon
<1>5. ASSUME NEW m \in S PROVE x <= m
    <2>1. ~(<<m, x>> \in R)
        BY <1>4, Zenon
    <2>2. ~(m < x)
        BY <2>1, <1>2, Zenon
    <2> QED BY <2>2
<1> QED BY <1>5, Zenon

\* Every nonempty finite set of natural numbers has a greatest element.
LEMMA Greatest ==
    ASSUME NEW S \in SUBSET Nat, IsFiniteSet(S), S # {}
    PROVE  \E s \in S : \A t \in S : s >= t
<1> DEFINE Top(T) == \E s \in T : \A t \in T : s >= t
           Sizes == {n \in Nat : \E T \in SUBSET S : T # {} /\ Cardinality(T) = n /\ ~Top(T)}
<1>1. \A T \in SUBSET S : IsFiniteSet(T) /\ Cardinality(T) \in Nat
    BY FS_Subset, FS_CardinalityType
<1>2. SUFFICES ASSUME ~Top(S) PROVE FALSE
    OBVIOUS
<1>3. Sizes \in SUBSET Nat /\ Cardinality(S) \in Sizes
    BY <1>1, <1>2
<1>4. PICK n \in Sizes : \A m \in Sizes : n <= m
    <2> HIDE DEF Sizes
    <2> QED BY <1>3, Least
<1>5. PICK T \in SUBSET S : T # {} /\ Cardinality(T) = n /\ ~Top(T)
    OBVIOUS
<1>6. PICK x \in T : TRUE
    BY <1>5
<1>7. Cardinality(T \ {x}) = n - 1 /\ n \in Nat
    BY <1>1, <1>5, <1>6, FS_RemoveElement
<1>8. CASE T \ {x} = {}
    BY <1>5, <1>6, <1>8
<1>9. CASE T \ {x} # {}
    <2>1. Top(T \ {x})
        <3>1. n - 1 \notin Sizes
            BY <1>4, <1>7
        <3>2. n - 1 \in Nat
            BY <1>1, <1>7
        <3> QED BY <1>7, <1>9, <3>1, <3>2
    <2>2. PICK s \in T \ {x} : \A t \in T \ {x} : s >= t
        BY <2>1
    <2> QED BY <1>5, <1>6, <2>2
<1> QED BY <1>8, <1>9

-----------------------------------------------------------------------------
(* Facts the steps share.                                                  *)

\* A signal is one base's.
LEMMA Owned ==
    ASSUME Separate, NEW b \in Bases, NEW c \in Bases, NEW s \in Sigs(b), s \in Sigs(c)
    PROVE  b = c
BY DEF Separate, Sigs

\* Every signal is of some base, and an event's signal of the event's base.
LEMMA OwnedBy ==
    /\ \A b \in Bases : Sigs(b) \subseteq SigNums
    /\ \A e \in SigEvents : ev_base[e] \in Bases /\ ev_signum[e] \in Sigs(ev_base[e])
    /\ \A s \in SigNums : \E b \in Bases : s \in Sigs(b)
BY SignalsAssumption DEF Sigs, SigNums

\* The events listed for a base and a signal are of that base.
LEMMA OnIsOwn ==
    ASSUME SigType, NEW b \in Bases, NEW s, On(b, s) # {}
    PROVE  s \in Sigs(b)
BY DEF SigType, On, Sigs

\* A base that a step does not touch still follows.
LEMMA Untouched ==
    ASSUME NEW c \in Bases, BaseFollows(c), SigType, SigType',
           sig'[c] = sig[c], adding'[c] = adding[c],
           \A s \in Sigs(c) : handler'[s] = handler[s],
           \A e \in SigEvents : ev_base[e] = c => (e \in sigmap' <=> e \in sigmap)
    PROVE  BaseFollows(c)'
<1>1. \A s : On(c, s)' = On(c, s)
    BY DEF On, SigType
<1>2. \A s : Caught(c, s)' = Caught(c, s)
    BY <1>1 DEF Caught
<1> QED BY <1>1, <1>2 DEF BaseFollows, Idle

\* All of a base's signal state but ev_n_signals_added stays.
SameFields(c) ==
    /\ sig'[c].open = sig[c].open /\ sig'[c].ev_signal_added = sig[c].ev_signal_added
    /\ sig'[c].sh_old = sig[c].sh_old /\ sig'[c].sh_old_max = sig[c].sh_old_max
    /\ sig'[c].pair = sig[c].pair

\* Counting a signal more or less changes only the count.
LEMMA Recount ==
    ASSUME sig \in [Bases -> evsig_info], NEW b \in Bases, NEW m \in Int,
           sig' = [sig EXCEPT ![b].ev_n_signals_added = m]
    PROVE  /\ sig' \in [Bases -> evsig_info]
           /\ \A c \in Bases : SameFields(c)
           /\ \A c \in Bases : c # b => sig'[c] = sig[c]
<1>1. [sig[b] EXCEPT !.ev_n_signals_added = m] \in evsig_info
    BY DEF evsig_info
<1>2. sig' = [sig EXCEPT ![b] = [sig[b] EXCEPT !.ev_n_signals_added = m]]
    OBVIOUS
<1> QED BY <1>1, <1>2 DEF evsig_info, SameFields

-----------------------------------------------------------------------------
(* The steps.                                                              *)

\* The invariant holds at the start.
LEMMA InitSig == SigInit => SigInv
<1> SUFFICES ASSUME SigInit PROVE SigInv
    OBVIOUS
<1>1. SigType
    BY DEF SigInit, SigType, evsig_info, NoOld, Idle
<1>2. \A b, s : On(b, s) = {}
    BY DEF SigInit, On
<1>3. ASSUME NEW b \in Bases PROVE BaseFollows(b)
    BY <1>2, OwnedBy DEF SigInit, BaseFollows, Caught, Idle, NoOld
<1> QED BY <1>1, <1>3 DEF SigInv, SigInit

\* evmap_signal_add_: a further event only joins the list; the first one begins
\* evsig_add and claims the handler's base.
LEMMA AddStep ==
    ASSUME Separate, SigInv, NEW ev \in SigEvents, evmap_signal_add_(ev)
    PROVE  SigInv'
<1> DEFINE b == ev_base[ev]
           s0 == ev_signum[ev]
<1>1. b \in Bases /\ s0 \in Sigs(b) /\ s0 \in SigNums
    BY OwnedBy
<1>2. CASE On(b, s0) # {}
    <2>1. /\ sigmap' = sigmap \cup {ev}
          /\ UNCHANGED <<handler, evsig_base, evsig_base_fd, sig, adding>>
          /\ adding[b] = Idle
        BY <1>2 DEF evmap_signal_add_, globalVars
    <2>2. SigType'
        BY <2>1 DEF SigInv, SigType
    <2>3. ASSUME NEW c \in Bases PROVE BaseFollows(c)'
        <3>1. CASE c # b
            BY <2>1, <2>2, <3>1, Untouched DEF SigInv
        <3>2. CASE c = b
            <4>1. \A s : (On(b, s) # {})' <=> On(b, s) # {}
                BY <1>2, <2>1 DEF On
            <4>2. \A s : Caught(b, s)' <=> Caught(b, s)
                BY <2>1, <4>1 DEF Caught
            <4> HIDE DEF b, s0
            <4> QED BY <1>1, <2>1, <3>2, <4>1, <4>2 DEF SigInv, BaseFollows, Idle
        <3> QED BY <3>1, <3>2
    <2> QED BY <2>1, <2>2, <2>3 DEF SigInv, Fd
<1>3. CASE On(b, s0) = {}
    <2>1. /\ evsig_base' = b /\ evsig_base_fd' = Fd(b)
          /\ sig' = [sig EXCEPT ![b].ev_n_signals_added = @ + 1]
          /\ adding' = [adding EXCEPT ![b] = [ev |-> ev, at |-> "handler"]]
          /\ UNCHANGED <<handler, sigmap>> /\ adding[b] = Idle /\ sig[b].open
        BY <1>3 DEF evmap_signal_add_, claim
    <2>4. /\ sig' \in [Bases -> evsig_info]
          /\ \A c \in Bases : SameFields(c)
        <3>1. sig[b].ev_n_signals_added + 1 \in Int
            BY <1>1 DEF SigInv, SigType, evsig_info
        <3> QED BY <1>1, <2>1, <3>1, Recount DEF SigInv, SigType
    <2>2. SigType'
        BY <1>1, <2>1, <2>4 DEF SigInv, SigType
    <2>3. ASSUME NEW c \in Bases PROVE BaseFollows(c)'
        <3>1. CASE c # b
            BY <1>1, <2>1, <2>2, <3>1, Untouched DEF SigInv, SigType
        <3>2. CASE c = b
            <4>1. \A s : On(b, s)' = On(b, s)
                BY <2>1 DEF On
            <4>3. adding'[b] = [ev |-> ev, at |-> "handler"]
                BY <1>1, <2>1 DEF SigInv, SigType
            <4>2. \A s : Caught(b, s)' <=> Caught(b, s)
                BY <2>1, <4>1, <4>3 DEF Caught, Idle
            <4> QED BY <1>1, <1>3, <2>1, <2>4, <3>2, <4>1, <4>2, <4>3
                       DEF SigInv, BaseFollows, SameFields
        <3> QED BY <3>1, <3>2
    <2> QED BY <1>1, <2>1, <2>2, <2>3, <2>4 DEF SigInv, Fd, SameFields
<1> QED BY <1>2, <1>3

\* evsig_set_handler_: what was installed is kept, in a table made long enough.
LEMMA HandlerStep ==
    ASSUME Separate, SigInv, NEW b \in Bases, evsig_add_handler(b)
    PROVE  SigInv'
<1> DEFINE s0  == ev_signum[adding[b].ev]
           old == [sig[b].sh_old EXCEPT ![s0] = handler[s0]]
           top == IF sig[b].sh_old_max > s0 THEN sig[b].sh_old_max ELSE s0 + 1
           new == [sig[b] EXCEPT !.sh_old = old, !.sh_old_max = top]
<1>1. /\ adding[b].ev \in SigEvents /\ ev_base[adding[b].ev] = b /\ On(b, s0) = {}
      /\ sig[b].open /\ adding[b].at = "handler" /\ sig[b] \in evsig_info
    <2>1. BaseFollows(b) /\ sig[b] \in evsig_info
        BY DEF SigInv, SigType
    <2>2. adding[b] # Idle
        BY DEF evsig_add_handler, Idle
    <2> QED BY <2>1, <2>2 DEF BaseFollows, evsig_add_handler
<1>2. s0 \in SigNums /\ s0 \in Sigs(b) /\ s0 \in Nat
    BY <1>1, OwnedBy, SignalsAssumption
<1>3. handler[s0] = "user"
    BY <1>1, <1>2 DEF SigInv, BaseFollows, Caught
<1>4. /\ handler' = [handler EXCEPT ![s0] = "evsig"]
      /\ sig' = [sig EXCEPT ![b] = new]
      /\ adding' = [adding EXCEPT ![b].at = "watch"]
      /\ UNCHANGED <<evsig_base, evsig_base_fd, sigmap>>
    BY DEF evsig_add_handler, evsig_set_handler_, globalVars
<1>5. /\ old \in [SigNums -> {"NULL", "user", "evsig"}] /\ top \in Nat
      /\ top > s0 /\ top >= sig[b].sh_old_max /\ old[s0] = "user"
      /\ \A s \in SigNums : s # s0 => old[s] = sig[b].sh_old[s]
    BY <1>1, <1>2, <1>3 DEF evsig_info
<1> HIDE DEF old, top
<1>6. /\ new \in evsig_info /\ new.sh_old = old /\ new.sh_old_max = top /\ new.open = sig[b].open
      /\ new.ev_signal_added = sig[b].ev_signal_added /\ new.pair = sig[b].pair
    BY <1>1, <1>5 DEF evsig_info
<1>7. /\ sig'[b] = new /\ \A c \in Bases : c # b => sig'[c] = sig[c]
      /\ adding'[b].ev = adding[b].ev /\ adding'[b].at = "watch"
      /\ \A c \in Bases : c # b => adding'[c] = adding[c]
    BY <1>4 DEF SigInv, SigType
<1> HIDE DEF new
<1>8. SigType'
    BY <1>2, <1>4, <1>6 DEF SigInv, SigType
<1>9. ASSUME NEW c \in Bases PROVE BaseFollows(c)'
    <2>1. CASE c # b
        <3>1. \A s \in Sigs(c) : handler'[s] = handler[s]
            BY <1>2, <1>4, <2>1, Owned, OwnedBy DEF SigInv, SigType
        <3> QED BY <1>4, <1>7, <1>8, <2>1, <3>1, Untouched DEF SigInv
    <2>2. CASE c = b
        <3>1. \A s : On(b, s)' = On(b, s)
            BY <1>4 DEF On
        <3>2. \A s \in SigNums : Caught(b, s)' <=> Caught(b, s) \/ s = s0
            BY <1>1, <1>7, <3>1 DEF Caught
        <3>3. \A s \in Sigs(b) : s \in SigNums /\ s \in Nat
            BY OwnedBy, SignalsAssumption
        <3>4. \A s \in Sigs(b) :
                IF Caught(b, s)'
                THEN handler'[s] = "evsig" /\ sig'[b].sh_old[s] = "user" /\ s < sig'[b].sh_old_max
                ELSE handler'[s] = "user" /\ sig'[b].sh_old[s] = "NULL"
            <4> SUFFICES ASSUME NEW s \in Sigs(b)
                         PROVE  IF Caught(b, s)'
                                THEN /\ handler'[s] = "evsig" /\ sig'[b].sh_old[s] = "user"
                                     /\ s < sig'[b].sh_old_max
                                ELSE handler'[s] = "user" /\ sig'[b].sh_old[s] = "NULL"
                OBVIOUS
            <4>1. IF Caught(b, s)
                  THEN handler[s] = "evsig" /\ sig[b].sh_old[s] = "user" /\ s < sig[b].sh_old_max
                  ELSE handler[s] = "user" /\ sig[b].sh_old[s] = "NULL"
                BY DEF SigInv, BaseFollows
            <4>2. CASE s = s0
                BY <1>2, <1>4, <1>5, <1>6, <1>7, <3>2, <4>2 DEF SigInv, SigType
            <4>3. CASE s # s0
                <5>1. handler'[s] = handler[s] /\ sig'[b].sh_old[s] = sig[b].sh_old[s]
                    BY <1>4, <1>5, <1>6, <1>7, <3>3, <4>3 DEF SigInv, SigType
                <5>2. sig'[b].sh_old_max = top /\ sig[b].sh_old_max \in Nat
                    BY <1>1, <1>6, <1>7 DEF evsig_info
                <5> QED BY <1>5, <3>2, <3>3, <4>1, <4>3, <5>1, <5>2
            <4> QED BY <4>2, <4>3
        <3>5. \A s \in SigNums \ Sigs(b) : sig'[b].sh_old[s] = "NULL"
            BY <1>2, <1>5, <1>6, <1>7 DEF SigInv, BaseFollows
        <3>6. \A s \in SigNums : On(b, s)' # {} => sig'[b].ev_signal_added /\ sig'[b].open
            BY <1>6, <1>7, <3>1 DEF SigInv, BaseFollows
        <3>7. /\ adding'[b].ev \in SigEvents /\ ev_base[adding'[b].ev] = b /\ adding'[b].at # "none"
              /\ sig'[b].open /\ On(b, ev_signum[adding[b].ev])' = {}
            BY <1>1, <1>6, <1>7, <3>1
        <3> QED BY <1>7, <2>2, <3>4, <3>5, <3>6, <3>7 DEF BaseFollows
    <2> QED BY <2>1, <2>2
<1> QED BY <1>4, <1>6, <1>7, <1>8, <1>9 DEF SigInv, SigType, Fd

\* The end of evsig_add: the pipe is watched and the event listed.
LEMMA WatchStep ==
    ASSUME Separate, SigInv, NEW b \in Bases, evsig_add_watch(b)
    PROVE  SigInv'
<1> DEFINE e   == adding[b].ev
           s0  == ev_signum[e]
           new == [sig[b] EXCEPT !.ev_signal_added = TRUE]
<1>1. /\ e \in SigEvents /\ ev_base[e] = b /\ On(b, s0) = {}
      /\ sig[b].open /\ adding[b].at = "watch" /\ sig[b] \in evsig_info
    <2>1. BaseFollows(b) /\ sig[b] \in evsig_info
        BY DEF SigInv, SigType
    <2>2. adding[b] # Idle
        BY DEF evsig_add_watch, Idle
    <2> QED BY <2>1, <2>2 DEF BaseFollows, evsig_add_watch
<1>2. /\ sig' = [sig EXCEPT ![b] = new] /\ sigmap' = sigmap \cup {e}
      /\ adding' = [adding EXCEPT ![b] = Idle]
      /\ UNCHANGED <<handler, evsig_base, evsig_base_fd>>
    BY DEF evsig_add_watch, globalVars
<1>3. /\ new \in evsig_info /\ new.sh_old = sig[b].sh_old /\ new.sh_old_max = sig[b].sh_old_max
      /\ new.pair = sig[b].pair
    BY <1>1 DEF evsig_info
<1>4. new.ev_signal_added /\ new.open
    BY <1>1, Zenon DEF evsig_info
<1> HIDE DEF new
<1>5. /\ sig'[b] = new /\ adding'[b] = Idle
      /\ \A c \in Bases : c # b => sig'[c] = sig[c] /\ adding'[c] = adding[c]
    BY <1>2 DEF SigInv, SigType
<1>6. SigType'
    BY <1>1, <1>2, <1>3 DEF SigInv, SigType, Idle
<1>7. ASSUME NEW c \in Bases PROVE BaseFollows(c)'
    <2>1. CASE c # b
        BY <1>1, <1>2, <1>5, <1>6, <2>1, Untouched DEF SigInv
    <2>2. CASE c = b
        <3>1. \A s : On(b, s)' = IF s = s0 THEN On(b, s) \cup {e} ELSE On(b, s)
            BY <1>1, <1>2 DEF On
        <3>2. \A s : Caught(b, s)' <=> Caught(b, s)
            BY <1>1, <1>5, <3>1 DEF Caught, Idle
        <3> QED BY <1>2, <1>3, <1>4, <1>5, <2>2, <3>2 DEF SigInv, BaseFollows
    <2> QED BY <2>1, <2>2
<1>8. evsig_base # NoBase =>
        sig'[evsig_base].open /\ evsig_base_fd = <<evsig_base, sig'[evsig_base].pair>>
    BY <1>1, <1>3, <1>4, <1>5 DEF SigInv, SigType, Fd
<1> QED BY <1>2, <1>6, <1>7, <1>8 DEF SigInv, Fd

\* The error exit of evsig_add, before a handler was installed.
LEMMA ErrStep ==
    ASSUME Separate, SigInv, NEW b \in Bases, evsig_add_err(b)
    PROVE  SigInv'
<1>1. /\ adding[b].at = "handler" /\ UNCHANGED <<handler, evsig_base, evsig_base_fd, sigmap>>
      /\ sig' = [sig EXCEPT ![b].ev_n_signals_added = sig[b].ev_n_signals_added - 1]
      /\ adding' = [adding EXCEPT ![b] = Idle]
    BY DEF evsig_add_err, globalVars, Separate
<1>2. /\ sig' \in [Bases -> evsig_info] /\ \A c \in Bases : SameFields(c)
      /\ \A c \in Bases : c # b => sig'[c] = sig[c]
    <2>1. sig[b].ev_n_signals_added - 1 \in Int
        BY DEF SigInv, SigType, evsig_info
    <2> QED BY <1>1, <2>1, Recount DEF SigInv, SigType
<1>3. /\ adding'[b] = Idle /\ \A c \in Bases : c # b => adding'[c] = adding[c]
    BY <1>1 DEF SigInv, SigType
<1>4. SigType'
    BY <1>1, <1>2 DEF SigInv, SigType, Idle
<1>5. ASSUME NEW c \in Bases PROVE BaseFollows(c)'
    <2>1. CASE c # b
        BY <1>1, <1>2, <1>3, <1>4, <2>1, Untouched DEF SigInv
    <2>2. CASE c = b
        <3>1. \A s : On(b, s)' = On(b, s)
            BY <1>1 DEF On
        <3>2. \A s : Caught(b, s)' <=> Caught(b, s)
            BY <1>1, <1>3, <3>1 DEF Caught, Idle
        <3> QED BY <1>1, <1>2, <1>3, <2>2, <3>1, <3>2 DEF SigInv, BaseFollows, SameFields
    <2> QED BY <2>1, <2>2
<1> QED BY <1>1, <1>2, <1>4, <1>5 DEF SigInv, Fd, SameFields, SigType

\* evsig_restore_handler_ gives back the handlers of S and keeps the rest.
LEMMA Restored ==
    ASSUME NEW hs \in [SigNums -> {"user", "evsig"}], NEW old \in evsig_info,
           NEW S \in SUBSET SigNums,
           \A s \in S : old.sh_old[s] = "user" /\ s < old.sh_old_max,
           NEW r, r = evsig_restore_handler_(hs, old, S)
    PROVE  /\ r.hs \in [SigNums -> {"user", "evsig"}] /\ r.old \in evsig_info
           /\ \A s \in SigNums : r.hs[s] = IF s \in S THEN "user" ELSE hs[s]
           /\ \A s \in SigNums : r.old.sh_old[s] = IF s \in S THEN "NULL" ELSE old.sh_old[s]
           /\ r.old.sh_old_max = old.sh_old_max /\ r.old.pair = old.pair
           /\ r.old.open = old.open /\ r.old.ev_signal_added = old.ev_signal_added
           /\ r.old.ev_n_signals_added = old.ev_n_signals_added
<1> DEFINE n == [s \in SigNums |-> IF s \in S THEN "NULL" ELSE old.sh_old[s]]
<1>1. {s \in S : s < old.sh_old_max} = S
    OBVIOUS
<1>2. r.hs = [s \in SigNums |-> IF s \in S THEN old.sh_old[s] ELSE hs[s]]
    BY <1>1 DEF evsig_restore_handler_
<1>3. r.old = [old EXCEPT !.sh_old = n]
    BY <1>1 DEF evsig_restore_handler_
<1>4. n \in [SigNums -> {"NULL", "user", "evsig"}]
    BY DEF evsig_info
<1>5. \A s \in SigNums : n[s] = IF s \in S THEN "NULL" ELSE old.sh_old[s]
    OBVIOUS
<1> HIDE DEF n
<1>6. /\ r.old \in evsig_info /\ r.old.sh_old = n
      /\ r.old.sh_old_max = old.sh_old_max /\ r.old.pair = old.pair
      /\ r.old.open = old.open /\ r.old.ev_signal_added = old.ev_signal_added
      /\ r.old.ev_n_signals_added = old.ev_n_signals_added
    BY <1>3, <1>4 DEF evsig_info
<1>7. /\ r.hs \in [SigNums -> {"user", "evsig"}]
      /\ \A s \in SigNums : r.hs[s] = IF s \in S THEN "user" ELSE hs[s]
    BY <1>2
<1> QED BY <1>5, <1>6, <1>7

\* evmap_signal_del_: the last event of a signal gives its handler back.
LEMMA DelStep ==
    ASSUME Separate, SigInv, NEW ev \in SigEvents, evmap_signal_del_(ev)
    PROVE  SigInv'
<1> DEFINE b == ev_base[ev]
           s0 == ev_signum[ev]
           r  == evsig_restore_handler_(handler, sig[b], {s0})
           new == [r.old EXCEPT !.ev_n_signals_added = @ - 1]
<1>1. /\ b \in Bases /\ s0 \in Sigs(b) /\ s0 \in SigNums /\ ev \in On(b, s0)
      /\ adding[b] = Idle /\ sigmap' = sigmap \ {ev}
      /\ UNCHANGED <<evsig_base, evsig_base_fd, adding>>
    BY OwnedBy DEF evmap_signal_del_, globalVars, On
<1>2. \A s : On(b, s)' = On(b, s) \ {ev}
    BY <1>1 DEF On
<1>3. \A s : Caught(b, s) <=> On(b, s) # {}
    BY <1>1 DEF Caught, Idle
<1>4. \A s : Caught(b, s)' <=> On(b, s) \ {ev} # {}
    BY <1>1, <1>2 DEF Caught, Idle
<1>5. \A s : s # s0 => ev \notin On(b, s)
    BY DEF On
<1>6. CASE On(b, s0) # {ev}
    <2>1. UNCHANGED <<handler, sig>>
        BY <1>6 DEF evmap_signal_del_
    <2>2. SigType'
        BY <1>1, <2>1 DEF SigInv, SigType
    <2>3. ASSUME NEW c \in Bases PROVE BaseFollows(c)'
        <3>1. CASE c # b
            BY <1>1, <2>1, <2>2, <3>1, Untouched DEF SigInv
        <3>2. CASE c = b
            <4>1. \A s : Caught(b, s)' <=> Caught(b, s)
                BY <1>1, <1>3, <1>4, <1>5, <1>6
            <4> HIDE DEF b, s0
            <4> QED BY <1>1, <1>2, <2>1, <3>2, <4>1 DEF SigInv, BaseFollows
        <3> QED BY <3>1, <3>2
    <2> QED BY <1>1, <2>1, <2>2, <2>3 DEF SigInv, Fd
<1>7. CASE On(b, s0) = {ev}
    <2>1. handler' = r.hs /\ sig' = [sig EXCEPT ![b] = new]
        BY <1>7 DEF evmap_signal_del_
    <2>2. sig[b] \in evsig_info /\ sig[b].sh_old[s0] = "user" /\ s0 < sig[b].sh_old_max
        BY <1>1, <1>3 DEF SigInv, SigType, BaseFollows
    <2>3. /\ r.hs \in [SigNums -> {"user", "evsig"}] /\ r.old \in evsig_info
          /\ \A s \in SigNums : r.hs[s] = IF s = s0 THEN "user" ELSE handler[s]
          /\ \A s \in SigNums : r.old.sh_old[s] = IF s = s0 THEN "NULL" ELSE sig[b].sh_old[s]
          /\ r.old.sh_old_max = sig[b].sh_old_max /\ r.old.pair = sig[b].pair
          /\ r.old.open = sig[b].open /\ r.old.ev_signal_added = sig[b].ev_signal_added
        <3> DEFINE S == {s0}
        <3>1. /\ S \in SUBSET SigNums /\ handler \in [SigNums -> {"user", "evsig"}]
              /\ \A s \in S : sig[b].sh_old[s] = "user" /\ s < sig[b].sh_old_max
              /\ r = evsig_restore_handler_(handler, sig[b], S) /\ \A s : s \in S <=> s = s0
            BY <1>1, <2>2 DEF SigInv, SigType
        <3> HIDE DEF r, b, s0, S
        <3> QED BY <2>2, <3>1, Restored
    <2> HIDE DEF r
    <2>4. /\ new \in evsig_info /\ new.sh_old = r.old.sh_old /\ new.sh_old_max = r.old.sh_old_max
          /\ new.pair = r.old.pair /\ new.open = r.old.open
          /\ new.ev_signal_added = r.old.ev_signal_added
        BY <2>3 DEF evsig_info
    <2> HIDE DEF new
    <2>5. sig'[b] = new /\ \A c \in Bases : c # b => sig'[c] = sig[c]
        BY <1>1, <2>1 DEF SigInv, SigType
    <2>6. SigType'
        BY <1>1, <2>1, <2>3, <2>4 DEF SigInv, SigType
    <2>7. ASSUME NEW c \in Bases PROVE BaseFollows(c)'
        <3>1. CASE c # b
            <4>1. \A s \in Sigs(c) : handler'[s] = handler[s]
                BY <1>1, <2>1, <2>3, <3>1, Owned, OwnedBy
            <4> QED BY <1>1, <2>5, <2>6, <3>1, <4>1, Untouched DEF SigInv
        <3>2. CASE c = b
            <4>1. \A s : Caught(b, s)' <=> Caught(b, s) /\ s # s0
                BY <1>1, <1>3, <1>4, <1>5, <1>7
            <4>2. Sigs(b) \subseteq SigNums
                BY <1>1, OwnedBy
            <4> HIDE DEF b, s0
            <4>3. \A s \in Sigs(b) :
                    IF Caught(b, s)'
                    THEN handler'[s] = "evsig" /\ sig'[b].sh_old[s] = "user" /\ s < sig'[b].sh_old_max
                    ELSE handler'[s] = "user" /\ sig'[b].sh_old[s] = "NULL"
                BY <1>1, <2>1, <2>3, <2>4, <2>5, <4>1, <4>2 DEF SigInv, BaseFollows
            <4>4. \A s \in SigNums \ Sigs(b) : sig'[b].sh_old[s] = "NULL"
                BY <1>1, <2>3, <2>4, <2>5 DEF SigInv, BaseFollows
            <4>5. \A s \in SigNums : On(b, s)' # {} => sig'[b].ev_signal_added /\ sig'[b].open
                BY <1>1, <1>2, <2>3, <2>4, <2>5 DEF SigInv, BaseFollows
            <4> QED BY <1>1, <3>2, <4>3, <4>4, <4>5 DEF BaseFollows, Idle
        <3> QED BY <3>1, <3>2
    <2>8. evsig_base # NoBase =>
            sig'[evsig_base].open /\ evsig_base_fd = <<evsig_base, sig'[evsig_base].pair>>
        BY <2>3, <2>4, <2>5 DEF SigInv, SigType, Fd
    <2> QED BY <1>1, <2>6, <2>7, <2>8 DEF SigInv, Fd
<1> QED BY <1>6, <1>7

\* Signals that arrive, pipes that are read, evsig_set_base_.
LEMMA DeliveryStep ==
    ASSUME SigInv,
           \/ \E b \in Bases : evsig_cb(b) \/ evsig_set_base_(b)
           \/ \E s \in SigNums : evsig_handler(s)
           \/ UNCHANGED sigVars
    PROVE  SigInv'
<1>1. /\ UNCHANGED <<handler, sig, sigmap, adding>>
      /\ \/ UNCHANGED <<evsig_base, evsig_base_fd>>
         \/ evsig_base' \in Bases /\ sig[evsig_base'].open /\ evsig_base_fd' = Fd(evsig_base')
    BY DEF evsig_cb, evsig_set_base_, evsig_handler, sigVars, globalVars
<1>2. SigType'
    BY <1>1 DEF SigInv, SigType
<1>3. \A b \in Bases : BaseFollows(b)'
    BY <1>1, <1>2, Untouched DEF SigInv
<1> QED BY <1>1, <1>2, <1>3 DEF SigInv, Fd

\* evsig_dealloc_ gives back every handler of the base and closes its pipe.
LEMMA Deallocated ==
    ASSUME Separate, SigInv, NEW b \in Bases, adding[b] = Idle, NEW d, d = evsig_dealloc_(b)
    PROVE  /\ d.hs \in [SigNums -> {"user", "evsig"}] /\ d.old \in evsig_info
           /\ \A s \in SigNums : d.hs[s] = IF s \in Sigs(b) THEN "user" ELSE handler[s]
           /\ d.old.sh_old = NoOld /\ d.old.pair = sig[b].pair /\ ~d.old.open
           /\ d.old.ev_signal_added = FALSE
<1> DEFINE S == {s \in SigNums : sig[b].sh_old[s] # "NULL"}
           r == evsig_restore_handler_(handler, sig[b], S)
<1>1. /\ S \in SUBSET SigNums /\ handler \in [SigNums -> {"user", "evsig"}] /\ sig[b] \in evsig_info
      /\ \A s \in S : s \in Sigs(b) /\ Caught(b, s)
      /\ \A s \in S : sig[b].sh_old[s] = "user" /\ s < sig[b].sh_old_max
      /\ \A s \in Sigs(b) : s \in SigNums /\ (s \notin S => handler[s] = "user")
    BY OwnedBy DEF SigInv, SigType, BaseFollows
<1>2. /\ d.hs = r.hs
      /\ d.old = [r.old EXCEPT !.open = FALSE, !.ev_signal_added = FALSE,
                               !.sh_old_max = 0, !.sh_old = NoOld]
      /\ r = evsig_restore_handler_(handler, sig[b], S)
    BY DEF evsig_dealloc_
<1> HIDE DEF r, S
<1>3. /\ r.hs \in [SigNums -> {"user", "evsig"}] /\ r.old \in evsig_info
      /\ \A s \in SigNums : r.hs[s] = IF s \in S THEN "user" ELSE handler[s]
      /\ r.old.pair = sig[b].pair
    BY <1>1, <1>2, Restored
<1>4. NoOld \in [SigNums -> {"NULL", "user", "evsig"}] /\ 0 \in Nat
    BY DEF NoOld
<1>5. d.old \in evsig_info
    BY <1>2, <1>3, <1>4, Zenon DEF evsig_info
<1>6. ~d.old.open /\ d.old.ev_signal_added = FALSE
    BY <1>2, <1>3, Zenon DEF evsig_info
<1>7. d.old.sh_old = NoOld /\ d.old.pair = sig[b].pair
    BY <1>2, <1>3, Zenon DEF evsig_info
<1>8. \A s \in SigNums : d.hs[s] = IF s \in Sigs(b) THEN "user" ELSE handler[s]
    BY <1>1, <1>2, <1>3
<1> QED BY <1>2, <1>3, <1>5, <1>6, <1>7, <1>8

\* event_base_free: the base's events and handlers go.
LEMMA FreeStep ==
    ASSUME Separate, SigInv, NEW b \in Bases, event_base_free_(b)
    PROVE  SigInv'
<1> DEFINE d   == evsig_dealloc_(b)
           gone == Cardinality({s \in SigNums : On(b, s) # {}})
           new == [d.old EXCEPT !.ev_n_signals_added = @ - gone]
<1>1. /\ adding[b] = Idle /\ handler' = d.hs /\ sigmap' = {ev \in sigmap : ev_base[ev] # b}
      /\ sig' = [sig EXCEPT ![b] = new] /\ adding' = adding /\ d = evsig_dealloc_(b)
      /\ evsig_base' = released(b).b /\ evsig_base_fd' = released(b).fd
    BY DEF event_base_free_
<1>2. /\ d.hs \in [SigNums -> {"user", "evsig"}] /\ d.old \in evsig_info
      /\ \A s \in SigNums : d.hs[s] = IF s \in Sigs(b) THEN "user" ELSE handler[s]
      /\ d.old.sh_old = NoOld
    <2> HIDE DEF d
    <2> QED BY <1>1, Deallocated
<1>3. gone \in Nat
    BY SignalsAssumption, FS_Subset, FS_CardinalityType
<1> HIDE DEF d, gone
<1>4. new \in evsig_info /\ new.sh_old = NoOld
    BY <1>2, <1>3 DEF evsig_info
<1> HIDE DEF new
<1>5. sig'[b] = new /\ \A c \in Bases : c # b => sig'[c] = sig[c]
    BY <1>1 DEF SigInv, SigType
<1>6. SigType'
    BY <1>1, <1>2, <1>4 DEF SigInv, SigType, released
<1>7. ASSUME NEW c \in Bases PROVE BaseFollows(c)'
    <2>1. CASE c # b
        <3>1. \A s \in Sigs(c) : handler'[s] = handler[s]
            BY <1>1, <1>2, <2>1, Owned, OwnedBy
        <3> QED BY <1>1, <1>5, <1>6, <2>1, <3>1, Untouched DEF SigInv
    <2>2. CASE c = b
        <3>1. \A s : On(b, s)' = {}
            BY <1>1 DEF On
        <3>2. \A s : ~Caught(b, s)'
            BY <1>1, <3>1 DEF Caught, Idle
        <3>3. Sigs(b) \subseteq SigNums /\ \A s \in SigNums : NoOld[s] = "NULL"
            BY OwnedBy DEF NoOld
        <3> QED BY <1>1, <1>2, <1>4, <1>5, <2>2, <3>1, <3>2, <3>3 DEF BaseFollows, Idle
    <2> QED BY <2>1, <2>2
<1>8. evsig_base' # NoBase =>
        sig'[evsig_base'].open /\ evsig_base_fd' = <<evsig_base', sig'[evsig_base'].pair>>
    BY <1>1, <1>5 DEF SigInv, SigType, Fd, released
<1> QED BY <1>6, <1>7, <1>8 DEF SigInv, Fd

\* event_base_new opens another pipe.
LEMMA NewStep ==
    ASSUME SigInv, NEW b \in Bases, event_base_new(b)
    PROVE  SigInv'
<1> DEFINE new == [evsig_init_(sig[b]) EXCEPT !.ev_n_signals_added = 0]
<1>1. /\ ~sig[b].open /\ sig' = [sig EXCEPT ![b] = new]
      /\ UNCHANGED <<handler, evsig_base, evsig_base_fd, sigmap, adding>>
    BY DEF event_base_new, globalVars
<1>2. sig[b] \in evsig_info /\ BaseFollows(b)
    BY DEF SigInv, SigType
<1>3. /\ NoOld \in [SigNums -> {"NULL", "user", "evsig"}] /\ 0 \in Nat /\ 0 \in Int
      /\ 1 - sig[b].pair \in {0, 1}
    BY <1>2 DEF NoOld, evsig_info
<1>4. new \in evsig_info
    BY <1>2, <1>3, Zenon DEF evsig_info, evsig_init_
<1>5. new.sh_old = NoOld
    BY <1>2, Zenon DEF evsig_info, evsig_init_
<1> HIDE DEF new
<1>6. sig'[b] = new /\ \A c \in Bases : c # b => sig'[c] = sig[c]
    BY <1>1 DEF SigInv, SigType
<1>7. SigType'
    BY <1>1, <1>4 DEF SigInv, SigType
<1>8. ASSUME NEW c \in Bases PROVE BaseFollows(c)'
    <2>1. CASE c # b
        BY <1>1, <1>6, <1>7, <2>1, Untouched DEF SigInv
    <2>2. CASE c = b
        <3>1. \A s \in SigNums : On(b, s) = {} /\ On(b, s)' = On(b, s)
            BY <1>1, <1>2 DEF BaseFollows, On
        <3>2. adding[b] = Idle
            BY <1>1, <1>2 DEF BaseFollows
        <3>3. Sigs(b) \subseteq SigNums /\ \A s \in SigNums : NoOld[s] = "NULL"
            BY OwnedBy DEF NoOld
        <3>4. \A s \in SigNums : ~Caught(b, s) /\ ~Caught(b, s)'
            BY <1>1, <3>1, <3>2 DEF Caught, Idle
        <3> QED BY <1>1, <1>2, <1>5, <1>6, <2>2, <3>1, <3>2, <3>3, <3>4 DEF BaseFollows, Idle
    <2> QED BY <2>1, <2>2
<1>9. evsig_base # NoBase =>
        sig'[evsig_base].open /\ evsig_base_fd = <<evsig_base, sig'[evsig_base].pair>>
    BY <1>1, <1>6 DEF SigInv, SigType, Fd
<1> QED BY <1>1, <1>7, <1>8, <1>9 DEF SigInv, Fd

\* event_reinit gives the handlers back and installs them again for the events
\* that are listed.
LEMMA ReinitStep ==
    ASSUME Separate, SigInv, NEW b \in Bases, event_reinit_signals(b)
    PROVE  SigInv'
<1> DEFINE d    == evsig_dealloc_(b)
           used == {s \in SigNums : On(b, s) # {}}
           n    == evsig_init_(d.old)
           hs   == [s \in SigNums |-> IF s \in used THEN "evsig" ELSE d.hs[s]]
           old  == [s \in SigNums |-> IF s \in used THEN d.hs[s] ELSE "NULL"]
           top  == IF used = {} THEN 0 ELSE 1 + CHOOSE s \in used : \A t \in used : s >= t
           new  == [n EXCEPT !.ev_n_signals_added = @ + Cardinality(used),
                             !.ev_signal_added = used # {}, !.sh_old = old, !.sh_old_max = top]
<1>0. reinit_signals(b, used)
    BY DEF event_reinit_signals, Separate
<1>1. /\ adding[b] = Idle /\ sig[b].open /\ handler' = hs /\ sig' = [sig EXCEPT ![b] = new]
      /\ evsig_base' = IF used # {} THEN b ELSE released(b).b
      /\ evsig_base_fd' = IF used # {} THEN <<b, n.pair>> ELSE released(b).fd
      /\ UNCHANGED <<sigmap, adding>> /\ d = evsig_dealloc_(b)
    BY <1>0 DEF reinit_signals, Separate
<1>2. /\ d.hs \in [SigNums -> {"user", "evsig"}] /\ d.old \in evsig_info
      /\ \A s \in SigNums : d.hs[s] = IF s \in Sigs(b) THEN "user" ELSE handler[s]
    <2>1. d = evsig_dealloc_(b) /\ adding[b] = Idle
        BY <1>1
    <2> HIDE DEF d
    <2> QED BY <2>1, Deallocated
<1>3. /\ used \subseteq Sigs(b) /\ Sigs(b) \subseteq SigNums
      /\ used \subseteq SigNums /\ SigNums \subseteq Nat
    BY OnIsOwn, OwnedBy, SignalsAssumption DEF SigInv
<1>4. Cardinality(used) \in Nat
    BY <1>3, SignalsAssumption, FS_Subset, FS_CardinalityType
<1>5. top \in Nat /\ \A s \in used : s < top
    <2>1. CASE used = {}
        BY <2>1
    <2>2. CASE used # {}
        <3> DEFINE m == CHOOSE s \in used : \A t \in used : s >= t
        <3>1. \E s \in used : \A t \in used : s >= t
            <4>1. used \in SUBSET Nat /\ IsFiniteSet(used)
                BY <1>3, SignalsAssumption, FS_Subset
            <4> HIDE DEF used
            <4> QED BY <2>2, <4>1, Greatest
        <3>2. m \in used /\ \A t \in used : m >= t
            BY <3>1
        <3>3. top = 1 + m
            BY <2>2
        <3> HIDE DEF m, top, used
        <3> QED BY <1>3, <3>2, <3>3
    <2> QED BY <2>1, <2>2
<1>6. /\ hs \in [SigNums -> {"user", "evsig"}]
      /\ \A s \in SigNums : hs[s] = IF s \in used THEN "evsig" ELSE d.hs[s]
      /\ old \in [SigNums -> {"NULL", "user", "evsig"}]
      /\ \A s \in SigNums : old[s] = IF s \in used THEN d.hs[s] ELSE "NULL"
    BY <1>2
<1> HIDE DEF d, hs, old, top
<1>7. n \in evsig_info
    <2>1. /\ NoOld \in [SigNums -> {"NULL", "user", "evsig"}] /\ 0 \in Nat
          /\ 1 - d.old.pair \in {0, 1}
        BY <1>2 DEF NoOld, evsig_info
    <2> QED BY <1>2, <2>1, Zenon DEF evsig_info, evsig_init_
<1>8. n.open
    BY <1>2, Zenon DEF evsig_info, evsig_init_
<1> HIDE DEF n
<1>9. /\ new \in evsig_info /\ new.sh_old = old /\ new.sh_old_max = top /\ new.pair = n.pair
      /\ new.open = n.open
    <2>1. n.ev_n_signals_added + Cardinality(used) \in Int /\ (used # {}) \in BOOLEAN
        BY <1>4, <1>7 DEF evsig_info
    <2> HIDE DEF used
    <2> QED BY <1>5, <1>6, <1>7, <2>1, Zenon DEF evsig_info
<1>10. new.ev_signal_added <=> used # {}
    <2> HIDE DEF used
    <2> QED BY <1>7, Zenon DEF evsig_info
<1> HIDE DEF new
<1>11. sig'[b] = new /\ \A c \in Bases : c # b => sig'[c] = sig[c]
    BY <1>1 DEF SigInv, SigType
<1>12. SigType'
    BY <1>1, <1>6, <1>9 DEF SigInv, SigType, released
<1>13. ASSUME NEW c \in Bases PROVE BaseFollows(c)'
    <2>1. CASE c # b
        <3>1. \A s \in Sigs(c) : handler'[s] = handler[s]
            BY <1>1, <1>2, <1>3, <1>6, <2>1, Owned, OwnedBy
        <3> QED BY <1>1, <1>11, <1>12, <2>1, <3>1, Untouched DEF SigInv
    <2>2. CASE c = b
        <3>1. \A s : On(b, s)' = On(b, s)
            BY <1>1 DEF On
        <3>2. \A s \in SigNums : Caught(b, s)' <=> s \in used
            BY <1>1, <3>1 DEF Caught, Idle
        <3>3. \A s \in SigNums : On(b, s)' # {} => s \in used
            BY <3>1
        <3> HIDE DEF used
        <3>4. \A s \in Sigs(b) :
                IF Caught(b, s)'
                THEN handler'[s] = "evsig" /\ sig'[b].sh_old[s] = "user" /\ s < sig'[b].sh_old_max
                ELSE handler'[s] = "user" /\ sig'[b].sh_old[s] = "NULL"
            BY <1>1, <1>2, <1>3, <1>5, <1>6, <1>9, <1>11, <3>2
        <3>5. \A s \in SigNums \ Sigs(b) : sig'[b].sh_old[s] = "NULL"
            BY <1>3, <1>6, <1>9, <1>11
        <3>6. \A s \in SigNums : On(b, s)' # {} => sig'[b].ev_signal_added /\ sig'[b].open
            BY <1>8, <1>9, <1>10, <1>11, <3>3
        <3> QED BY <1>1, <2>2, <3>4, <3>5, <3>6 DEF BaseFollows, Idle
    <2> QED BY <2>1, <2>2
<1>14. evsig_base' # NoBase =>
        sig'[evsig_base'].open /\ evsig_base_fd' = <<evsig_base', sig'[evsig_base'].pair>>
    <2> HIDE DEF used
    <2> QED BY <1>1, <1>8, <1>9, <1>11 DEF SigInv, SigType, Fd, released
<1> QED BY <1>12, <1>13, <1>14 DEF SigInv, Fd

\* Wherever signals and threads interleave, a signal has libevent's handler
\* exactly while some event for it is listed, the program's own handler comes back
\* with the last one, and the base the handler writes to is open and listening
\* (SignalsFollow), for every number of bases, events and signals.
THEOREM SignalsCorrect ==
    ASSUME Separate
    PROVE  SigSpec => []SignalsFollow
<1>1. SigInv /\ [SigNext]_sigVars => SigInv'
    BY AddStep, DelStep, HandlerStep, WatchStep, ErrStep, DeliveryStep, FreeStep, NewStep,
       ReinitStep
    DEF SigNext
<1>2. SigInv => SignalsFollow
    <2> SUFFICES ASSUME SigInv PROVE HandlersFollowEvents /\ SignalsHeard
        BY DEF SignalsFollow
    <2>1. ASSUME NEW s \in SigNums, \A b \in Bases : ~(adding[b] # Idle /\ ev_signum[adding[b].ev] = s)
          PROVE  (handler[s] = "evsig") <=> \E b \in Bases : On(b, s) # {}
        <3>1. PICK b \in Bases : s \in Sigs(b)
            BY OwnedBy
        <3>2. \A c \in Bases : On(c, s) # {} => c = b
            BY <3>1, OnIsOwn, Owned DEF SigInv
        <3>3. Caught(b, s) <=> On(b, s) # {}
            BY <2>1 DEF Caught, Idle
        <3> QED BY <3>1, <3>2, <3>3 DEF SigInv, BaseFollows
    <2>2. HandlersFollowEvents
        BY <2>1 DEF HandlersFollowEvents
    <2>3. SignalsHeard
        <3>1. ASSUME evsig_base # NoBase, NEW s \in SigNums, On(evsig_base, s) # {}
              PROVE  handler[s] = "evsig" /\ sig[evsig_base].ev_signal_added
            <4>1. evsig_base \in Bases /\ s \in Sigs(evsig_base) /\ Caught(evsig_base, s)
                BY <3>1, OnIsOwn DEF SigInv, SigType, Caught
            <4> QED BY <3>1, <4>1 DEF SigInv, BaseFollows
        <3> QED BY <3>1 DEF SignalsHeard, SigInv
    <2> QED BY <2>2, <2>3
<1> QED BY <1>1, <1>2, InitSig, PTL DEF SigSpec
==============================================================================
