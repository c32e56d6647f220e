-------------------------- MODULE EventNolockProofs --------------------------
(***************************************************************************)
(* Every event_queue_ function, and every nolock function of event.c, which*)
(* compose them, keeps the queues, the flags and the counters of an        *)
(* event_base in agreement.  Then: what the nolock functions do to the     *)
(* notification of the loop, to what is left for it to wait for, to the    *)
(* callbacks that are finalizing, and to the active queues and             *)
(* event_continue.                                                         *)
(***************************************************************************)
EXTENDS EventNolock, TLAPS

\* What the proofs use of finite sets.  EventBaseTheorems, which alone extends
\* the library of theorems about them, proves it.
Cardinalities ==
    /\ \A S : IsFiniteSet(S) =>
          Cardinality(S) \in Nat /\ (Cardinality(S) = 0 <=> S = {})
    /\ \A S, x : IsFiniteSet(S) =>
          /\ x \notin S => Cardinality(S \cup {x}) = Cardinality(S) + 1
          /\ x \in S => Cardinality(S \ {x}) = Cardinality(S) - 1
    /\ \A S, T : IsFiniteSet(S) /\ T \subseteq S => IsFiniteSet(T)
    /\ IsFiniteSet({}) /\ IsFiniteSet(Callbacks \X EVLIST)

\* A callback has the closure it was given or one of the finalizers.
ClosuresKept(b) ==
    \A c \in Callbacks : b.closure[c] \in {event_assign(c)} \cup Finalizers

\* Only what has a descriptor or a signal is inserted into the event map, and
\* only an event has a timeout.
FlagsFit(b) ==
    \A c \in Callbacks :
        /\ Has(b, c, "INSERTED") => c \notin TimerEvents \cup Deferreds
        /\ Has(b, c, "TIMEOUT") => c \notin Deferreds

\* A base whose queues and counters agree with the flags of its callbacks.
BaseOK(b) ==
    /\ Cardinalities
    /\ b \in event_base
    /\ QueuesMatchFlags(b) /\ CountsMatchFlags(b)
    /\ ClosuresKept(b) /\ FlagsFit(b)

----------------------------------------------------------------------------
(* Sequences: appending to, and removing from, a queue without repetition. *)

\* TAILQ_INSERT_TAIL of a callback that is not on the queue.
LEMMA ListsAppend ==
    ASSUME NEW S, NEW q \in Seq(S), NEW M, NEW c \in S, Lists(q, M), c \notin M
    PROVE  Append(q, c) \in Seq(S) /\ Lists(Append(q, c), M \cup {c})
<1> DEFINE r == Append(q, c)
<1>1. /\ r \in Seq(S) /\ Len(r) = Len(q) + 1
      /\ \A i \in 1 .. Len(q) : r[i] = q[i]
      /\ r[Len(q) + 1] = c
    OBVIOUS
<1>2. \A i \in 1 .. Len(q) : q[i] # c
    BY DEF Lists
<1> HIDE DEF r
<1> QED BY <1>1, <1>2 DEF Lists

\* Taking the first element off a queue.
LEMMA ListsTail ==
    ASSUME NEW S, NEW q \in Seq(S), NEW M, Lists(q, M), q # << >>
    PROVE  /\ Head(q) \in S /\ Head(q) \in M
           /\ Tail(q) \in Seq(S) /\ Lists(Tail(q), M \ {Head(q)})
<1> DEFINE r == Tail(q)
           c == Head(q)
<1>1. /\ Len(q) \in Nat \ {0} /\ DOMAIN q = 1 .. Len(q)
      /\ c = q[1] /\ c \in S
      /\ r \in Seq(S) /\ DOMAIN r = 1 .. Len(q) - 1
      /\ \A i \in 1 .. Len(q) - 1 : r[i] = q[i + 1]
    OBVIOUS
<1> HIDE DEF r, c
<1>2. c \in M
    BY <1>1 DEF Lists
<1>3. ASSUME NEW i \in DOMAIN r
      PROVE  r[i] \in M \ {c}
    <2>1. 1 \in DOMAIN q /\ i + 1 \in DOMAIN q /\ i + 1 # 1 /\ r[i] = q[i + 1]
        BY <1>1
    <2>2. q[i + 1] \in M /\ q[i + 1] # q[1]
        BY <2>1 DEF Lists
    <2> QED BY <1>1, <2>1, <2>2
<1>4. ASSUME NEW i \in DOMAIN r, NEW j \in DOMAIN r, r[i] = r[j]
      PROVE  i = j
    <2>1. i + 1 \in DOMAIN q /\ j + 1 \in DOMAIN q /\ q[i + 1] = q[j + 1]
        BY <1>1, <1>4
    <2>2. i + 1 = j + 1
        BY <2>1 DEF Lists
    <2> QED BY <2>2, <1>1
<1>5. ASSUME NEW d \in M \ {c}
      PROVE  \E i \in DOMAIN r : r[i] = d
    <2>1. PICK k \in DOMAIN q : q[k] = d
        BY DEF Lists
    <2>2. k # 1
        BY <1>1, <2>1
    <2>3. k - 1 \in DOMAIN r /\ (k - 1) + 1 = k
        BY <1>1, <2>1, <2>2
    <2> QED BY <1>1, <2>1, <2>3
<1> QED BY <1>1, <1>2, <1>3, <1>4, <1>5 DEF Lists, r, c

\* What is left of a sequence when its k-th element is removed.
RemoveAt(q, k) == SubSeq(q, 1, k - 1) \o SubSeq(q, k + 1, Len(q))

\* Its elements.
LEMMA RemoveAtShape ==
    ASSUME NEW S, NEW q \in Seq(S), NEW k \in 1 .. Len(q)
    PROVE  /\ RemoveAt(q, k) \in Seq(S)
           /\ Len(RemoveAt(q, k)) = Len(q) - 1
           /\ \A i \in 1 .. Len(q) - 1 :
                 RemoveAt(q, k)[i] = IF i < k THEN q[i] ELSE q[i + 1]
<1> DEFINE u == SubSeq(q, 1, k - 1)
           v == SubSeq(q, k + 1, Len(q))
<1>1. /\ u \in Seq(S) /\ Len(u) = k - 1
      /\ \A i \in 1 .. k - 1 : u[i] = q[i]
    OBVIOUS
<1>2. /\ v \in Seq(S) /\ Len(v) = Len(q) - k
      /\ \A i \in 1 .. Len(q) - k : v[i] = q[k + i]
    OBVIOUS
<1> HIDE DEF u, v
<1>3. /\ u \o v \in Seq(S) /\ Len(u \o v) = Len(u) + Len(v)
      /\ \A i \in 1 .. Len(u) + Len(v) :
            (u \o v)[i] = IF i <= Len(u) THEN u[i] ELSE v[i - Len(u)]
    <2> SUFFICES ASSUME NEW x \in Seq(S), NEW y \in Seq(S)
                 PROVE  /\ x \o y \in Seq(S) /\ Len(x \o y) = Len(x) + Len(y)
                        /\ \A i \in 1 .. Len(x) + Len(y) :
                              (x \o y)[i] = IF i <= Len(x) THEN x[i] ELSE y[i - Len(x)]
        BY <1>1, <1>2, Zenon
    <2>1. x \o y \in Seq(S)
        OBVIOUS
    <2>2. Len(x \o y) = Len(x) + Len(y)
        OBVIOUS
    <2>3. ASSUME NEW i \in 1 .. Len(x) + Len(y)
          PROVE  (x \o y)[i] = IF i <= Len(x) THEN x[i] ELSE y[i - Len(x)]
        OBVIOUS
    <2> QED BY <2>1, <2>2, <2>3
<1>4. RemoveAt(q, k) = u \o v
    BY DEF RemoveAt, u, v
<1>5. ASSUME NEW i \in 1 .. Len(q) - 1
      PROVE  (u \o v)[i] = IF i < k THEN q[i] ELSE q[i + 1]
    <2>1. i \in 1 .. Len(u) + Len(v) /\ k \in Nat /\ Len(q) \in Nat
        BY <1>1, <1>2
    <2>2. CASE i < k
        BY <1>1, <1>3, <2>1, <2>2
    <2>3. CASE ~(i < k)
        <3>1. /\ i - Len(u) \in 1 .. Len(q) - k
              /\ k + (i - Len(u)) = i + 1 /\ ~(i <= Len(u))
            BY <1>1, <2>1, <2>3
        <3> QED BY <1>2, <1>3, <2>1, <2>3, <3>1, Zenon
    <2> QED BY <2>2, <2>3, Zenon
<1>6. Len(u \o v) = Len(q) - 1
    BY <1>1, <1>2, <1>3
<1> QED BY <1>3, <1>4, <1>5, <1>6

\* TAILQ_REMOVE of a callback that is on the queue.
LEMMA ListsRemove ==
    ASSUME NEW S, NEW q \in Seq(S), NEW M, NEW c \in S, Lists(q, M), c \in M
    PROVE  TAILQ_REMOVE(q, c) \in Seq(S) /\ Lists(TAILQ_REMOVE(q, c), M \ {c})
<1> DEFINE k == CHOOSE i \in DOMAIN q : q[i] = c
           r == RemoveAt(q, k)
           Old(i) == IF i < k THEN i ELSE i + 1
<1>1. k \in 1 .. Len(q) /\ q[k] = c
    BY DEF Lists
<1>2. TAILQ_REMOVE(q, c) = r
    BY DEF TAILQ_REMOVE, RemoveAt
<1> HIDE DEF k
<1>3. /\ r \in Seq(S)
      /\ Len(r) = Len(q) - 1
      /\ \A i \in 1 .. Len(q) - 1 : r[i] = IF i < k THEN q[i] ELSE q[i + 1]
    BY <1>1, RemoveAtShape, Zenon
<1> HIDE DEF r
<1>4. DOMAIN r = 1 .. Len(q) - 1 /\ DOMAIN q = 1 .. Len(q) /\ Len(q) \in Nat
    BY <1>3
<1>5. \A i \in DOMAIN r : Old(i) \in DOMAIN q /\ Old(i) # k /\ r[i] = q[Old(i)]
    BY <1>1, <1>3, <1>4
<1>6. \A i, j \in DOMAIN r : Old(i) = Old(j) => i = j
    BY <1>1, <1>4
<1>7. \A i \in DOMAIN q : i # k => \E j \in DOMAIN r : Old(j) = i
    <2> TAKE i \in DOMAIN q
    <2> HAVE i # k
    <2>1. CASE i < k
        BY <1>1, <1>4, <2>1
    <2>2. CASE i > k
        <3>1. i - 1 \in DOMAIN r /\ Old(i - 1) = i
            BY <1>1, <1>4, <2>2
        <3> QED BY <3>1
    <2> QED BY <1>1, <1>4, <2>1, <2>2
<1> HIDE DEF Old
<1>8. \A i \in DOMAIN r : r[i] \in M \ {c}
    BY <1>1, <1>4, <1>5 DEF Lists
<1>9. \A i, j \in DOMAIN r : r[i] = r[j] => i = j
    BY <1>5, <1>6 DEF Lists
<1>10. \A d \in M \ {c} : \E i \in DOMAIN r : r[i] = d
    BY <1>1, <1>5, <1>7 DEF Lists
<1> QED BY <1>2, <1>3, <1>8, <1>9, <1>10 DEF Lists

----------------------------------------------------------------------------
(* Cardinalities: what setting or clearing one flag does to the counters.  *)

\* The sets that the two counters count are finite.
LEMMA CountedFinite ==
    ASSUME Cardinalities, NEW fl \in [Callbacks -> SUBSET EVLIST]
    PROVE  IsFiniteSet(CountedPairs(fl)) /\ IsFiniteSet(ActiveSet(fl))
<1>1. CountedPairs(fl) \subseteq Callbacks \X EVLIST
    BY DEF CountedPairs, CountedFlags, EVLIST
<1>2. ActiveSet(fl) \subseteq Callbacks
    BY DEF ActiveSet
<1> QED BY <1>1, <1>2, CallbacksAssumption DEF Cardinalities

\* INCR_EVENT_COUNT is right when a flag is set that was clear.
LEMMA CountedSet ==
    ASSUME Cardinalities, NEW fl \in [Callbacks -> SUBSET EVLIST], NEW c \in Callbacks,
           NEW f \in CountedFlags, f \notin fl[c]
    PROVE  Cardinality(CountedPairs([fl EXCEPT ![c] = @ \cup {f}]))
               = Cardinality(CountedPairs(fl)) + Counted(c)
<1> DEFINE gl == [fl EXCEPT ![c] = @ \cup {f}]
<1>1. CASE c \in Internal
    <2>1. CountedPairs(gl) = CountedPairs(fl)
        BY <1>1 DEF CountedPairs
    <2>2. Cardinality(CountedPairs(fl)) \in Nat
        BY CountedFinite, Zenon DEF Cardinalities
    <2> QED BY <1>1, <2>1, <2>2 DEF Counted
<1>2. CASE c \notin Internal
    <2>1. CountedPairs(gl) = CountedPairs(fl) \cup {<<c, f>>}
        BY <1>2 DEF CountedPairs
    <2>2. <<c, f>> \notin CountedPairs(fl)
        BY DEF CountedPairs
    <2>3. Cardinality(CountedPairs(gl)) = Cardinality(CountedPairs(fl)) + 1
        BY <2>1, <2>2, CountedFinite, Zenon DEF Cardinalities
    <2> QED BY <1>2, <2>3 DEF Counted
<1> QED BY <1>1, <1>2

\* DECR_EVENT_COUNT is right when a flag is cleared that was set.
LEMMA CountedClear ==
    ASSUME Cardinalities, NEW fl \in [Callbacks -> SUBSET EVLIST], NEW c \in Callbacks,
           NEW f \in CountedFlags, f \in fl[c]
    PROVE  Cardinality(CountedPairs([fl EXCEPT ![c] = @ \ {f}]))
               = Cardinality(CountedPairs(fl)) - Counted(c)
<1> DEFINE gl == [fl EXCEPT ![c] = @ \ {f}]
<1>1. gl \in [Callbacks -> SUBSET EVLIST] /\ f \notin gl[c]
    OBVIOUS
<1>2. [gl EXCEPT ![c] = @ \cup {f}] = fl
    BY Zenon
<1>3. Cardinality(CountedPairs(gl)) \in Nat
    BY <1>1, CountedFinite, Zenon DEF Cardinalities
<1> HIDE DEF gl
<1>4. Cardinality(CountedPairs(fl)) = Cardinality(CountedPairs(gl)) + Counted(c)
    BY <1>1, <1>2, CountedSet
<1>5. Counted(c) \in Nat
    BY DEF Counted
<1>6. Cardinality(CountedPairs(gl)) = Cardinality(CountedPairs(fl)) - Counted(c)
    BY <1>3, <1>4, <1>5
<1> QED BY <1>6 DEF gl

\* event_count_active is right when a callback becomes active.
LEMMA ActiveSetInsert ==
    ASSUME Cardinalities, NEW fl \in [Callbacks -> SUBSET EVLIST], NEW c \in Callbacks,
           NEW f \in {"ACTIVE", "ACTIVE_LATER"}, c \notin ActiveSet(fl)
    PROVE  Cardinality(ActiveSet([fl EXCEPT ![c] = @ \cup {f}]))
               = Cardinality(ActiveSet(fl)) + 1
<1>1. ActiveSet([fl EXCEPT ![c] = @ \cup {f}]) = ActiveSet(fl) \cup {c}
    BY DEF ActiveSet
<1> QED BY <1>1, CountedFinite, Zenon DEF Cardinalities

\* event_count_active is right when a callback ceases to be active.
LEMMA ActiveSetRemove ==
    ASSUME Cardinalities, NEW fl \in [Callbacks -> SUBSET EVLIST], NEW c \in Callbacks,
           NEW f \in {"ACTIVE", "ACTIVE_LATER"},
           fl[c] \cap {"ACTIVE", "ACTIVE_LATER"} = {f}
    PROVE  Cardinality(ActiveSet([fl EXCEPT ![c] = @ \ {f}]))
               = Cardinality(ActiveSet(fl)) - 1
<1>1. c \in ActiveSet(fl)
    BY DEF ActiveSet
<1>2. ActiveSet([fl EXCEPT ![c] = @ \ {f}]) = ActiveSet(fl) \ {c}
    BY DEF ActiveSet
<1> QED BY <1>1, <1>2, CountedFinite, Zenon DEF Cardinalities

----------------------------------------------------------------------------
(* The event_queue_ functions.                                             *)

\* The fields that the event_queue_ functions assign.
LEMMA SetFields ==
    ASSUME NEW b \in event_base, NEW fl \in [Callbacks -> SUBSET EVLIST],
           NEW n \in Int, NEW m \in Int,
           NEW aq \in [Priorities -> Seq(Callbacks)], NEW lq \in Seq(Callbacks)
    PROVE  [b EXCEPT !.flags = fl, !.event_count = n, !.event_count_active = m,
                     !.activequeues = aq, !.active_later_queue = lq] \in event_base
BY Zenon DEF event_base

\* A change of the base that touches no queue, no counter and, of the flags,
\* only EVLIST_FINALIZING or the flags of the uncounted internal events.
LEMMA SameQueues ==
    ASSUME NEW b, NEW r \in event_base, BaseOK(b),
           r.activequeues = b.activequeues,
           r.active_later_queue = b.active_later_queue,
           r.event_count = b.event_count,
           r.event_count_active = b.event_count_active,
           \A c \in Callbacks :
               /\ r.flags[c] \cap {"ACTIVE", "ACTIVE_LATER"}
                      = b.flags[c] \cap {"ACTIVE", "ACTIVE_LATER"}
               /\ c \notin Internal =>
                      r.flags[c] \cap CountedFlags = b.flags[c] \cap CountedFlags
               /\ r.closure[c] \in {b.closure[c]} \cup Finalizers
    PROVE  BaseOK(r)
<1>1. \A p \in Priorities : ActiveAt(r.flags, p) = ActiveAt(b.flags, p)
    BY DEF ActiveAt
<1>2. LaterSet(r.flags) = LaterSet(b.flags) /\ ActiveSet(r.flags) = ActiveSet(b.flags)
    BY DEF LaterSet, ActiveSet
<1>3. CountedPairs(r.flags) = CountedPairs(b.flags)
    <2>1. \A c \in Callbacks \ Internal, f \in CountedFlags :
             f \in r.flags[c] <=> f \in b.flags[c]
        OBVIOUS
    <2> QED BY <2>1 DEF CountedPairs
<1>4. QueuesMatchFlags(r)
    BY <1>1, <1>2 DEF BaseOK, QueuesMatchFlags, Has
<1>5. CountsMatchFlags(r)
    BY <1>2, <1>3 DEF BaseOK, CountsMatchFlags
<1>6. ClosuresKept(r)
    BY DEF BaseOK, ClosuresKept
<1>7. FlagsFit(r)
    <2>1. \A c \in Internal : c \notin TimerEvents \cup Deferreds
        BY CallbacksAssumption DEF Events
    <2>2. \A c \in Callbacks \ Internal :
             /\ Has(r, c, "INSERTED") => Has(b, c, "INSERTED")
             /\ Has(r, c, "TIMEOUT") => Has(b, c, "TIMEOUT")
        BY DEF Has, CountedFlags
    <2> QED BY <2>1, <2>2 DEF BaseOK, FlagsFit
<1> QED BY <1>4, <1>5, <1>6, <1>7 DEF BaseOK

\* Setting or clearing EVLIST_INSERTED or EVLIST_TIMEOUT with its count.
LEMMA FlagAndCount ==
    ASSUME NEW b, NEW r, NEW c \in EventStructs, NEW f \in {"INSERTED", "TIMEOUT"},
           BaseOK(b),
           \/ /\ ~Has(b, c, f) /\ (f = "INSERTED" => c \notin TimerEvents)
              /\ r = [b EXCEPT !.flags[c] = @ \cup {f}, !.event_count = @ + Counted(c)]
           \/ /\ Has(b, c, f)
              /\ r = [b EXCEPT !.flags[c] = @ \ {f}, !.event_count = @ - Counted(c)]
    PROVE  BaseOK(r)
<1>1. /\ c \in Callbacks /\ f \in CountedFlags /\ f \in EVLIST
      /\ b \in event_base /\ b.flags \in [Callbacks -> SUBSET EVLIST]
      /\ b.event_count \in Int /\ Counted(c) \in Int
    BY DEF BaseOK, event_base, EVLIST, CountedFlags, Callbacks, Counted
<1>2. r \in event_base
    <2>1. \E fl \in [Callbacks -> SUBSET EVLIST], n \in Int :
             r = [b EXCEPT !.flags = fl, !.event_count = n]
        <3>1. CASE r = [b EXCEPT !.flags[c] = @ \cup {f}, !.event_count = @ + Counted(c)]
            <4>1. /\ [b.flags EXCEPT ![c] = @ \cup {f}] \in [Callbacks -> SUBSET EVLIST]
                  /\ b.event_count + Counted(c) \in Int
                BY <1>1
            <4> QED BY <3>1, <4>1, Zenon
        <3>2. CASE r = [b EXCEPT !.flags[c] = @ \ {f}, !.event_count = @ - Counted(c)]
            <4>1. /\ [b.flags EXCEPT ![c] = @ \ {f}] \in [Callbacks -> SUBSET EVLIST]
                  /\ b.event_count - Counted(c) \in Int
                BY <1>1
            <4> QED BY <3>2, <4>1, Zenon
        <3> QED BY <3>1, <3>2, Zenon
    <2> QED BY <1>1, <2>1, ZenonT(40) DEF event_base
<1>3. /\ r.activequeues = b.activequeues
      /\ r.active_later_queue = b.active_later_queue
      /\ r.event_count_active = b.event_count_active
      /\ r.closure = b.closure
    BY <1>1, Zenon DEF event_base
<1>4. \/ /\ f \notin b.flags[c] /\ r.flags = [b.flags EXCEPT ![c] = @ \cup {f}]
         /\ f = "INSERTED" => c \notin TimerEvents
         /\ r.event_count = b.event_count + Counted(c)
      \/ /\ f \in b.flags[c] /\ r.flags = [b.flags EXCEPT ![c] = @ \ {f}]
         /\ r.event_count = b.event_count - Counted(c)
    BY <1>1, Zenon DEF event_base, Has
<1>5. r.event_count = Cardinality(CountedPairs(r.flags))
    BY <1>1, <1>4, CountedSet, CountedClear DEF BaseOK, CountsMatchFlags
<1>6. \A d \in Callbacks : /\ "ACTIVE" \in r.flags[d] <=> "ACTIVE" \in b.flags[d]
                           /\ "ACTIVE_LATER" \in r.flags[d] <=> "ACTIVE_LATER" \in b.flags[d]
    BY <1>1, <1>4
<1>7. /\ \A p \in Priorities : ActiveAt(r.flags, p) = ActiveAt(b.flags, p)
      /\ LaterSet(r.flags) = LaterSet(b.flags) /\ ActiveSet(r.flags) = ActiveSet(b.flags)
    BY <1>6 DEF ActiveAt, LaterSet, ActiveSet
<1>8. QueuesMatchFlags(r)
    BY <1>3, <1>6, <1>7 DEF BaseOK, QueuesMatchFlags, Has
<1>9. CountsMatchFlags(r)
    BY <1>3, <1>5, <1>7 DEF BaseOK, CountsMatchFlags
<1>10. FlagsFit(r)
    <2>1. c \notin Deferreds
        BY CallbacksAssumption DEF EventStructs
    <2> QED BY <1>1, <1>4, <2>1 DEF BaseOK, FlagsFit, Has
<1> QED BY <1>2, <1>3, <1>8, <1>9, <1>10 DEF BaseOK, ClosuresKept

\* event_queue_insert_inserted of an event that is not inserted.
LEMMA InsertInserted ==
    ASSUME NEW b, NEW e \in EventStructs, BaseOK(b), ~Has(b, e, "INSERTED"),
           e \notin TimerEvents
    PROVE  BaseOK(event_queue_insert_inserted(b, e))
BY FlagAndCount, Zenon DEF event_queue_insert_inserted

\* event_queue_remove_inserted of an event that is inserted.
LEMMA RemoveInserted ==
    ASSUME NEW b, NEW e \in EventStructs, BaseOK(b), Has(b, e, "INSERTED")
    PROVE  BaseOK(event_queue_remove_inserted(b, e))
BY FlagAndCount, Zenon DEF event_queue_remove_inserted

\* event_queue_insert_timeout of an event without a pending timeout.
LEMMA InsertTimeout ==
    ASSUME NEW b, NEW e \in EventStructs, BaseOK(b), ~Has(b, e, "TIMEOUT")
    PROVE  BaseOK(event_queue_insert_timeout(b, e))
BY FlagAndCount, Zenon DEF event_queue_insert_timeout

\* event_queue_remove_timeout of an event with a pending timeout.
LEMMA RemoveTimeout ==
    ASSUME NEW b, NEW e \in EventStructs, BaseOK(b), Has(b, e, "TIMEOUT")
    PROVE  BaseOK(event_queue_remove_timeout(b, e))
BY FlagAndCount, Zenon DEF event_queue_remove_timeout

\* event_queue_insert_active of a callback that is on neither queue.
LEMMA InsertActive ==
    ASSUME NEW b, NEW c \in Callbacks, BaseOK(b), ~IsActive(b, c)
    PROVE  BaseOK(event_queue_insert_active(b, c))
<1> DEFINE r == event_queue_insert_active(b, c)
           p == evcb_pri[c]
           fl == b.flags
<1>1. /\ b \in event_base /\ fl \in [Callbacks -> SUBSET EVLIST]
      /\ b.event_count \in Int /\ b.event_count_active \in Int /\ Counted(c) \in Int
      /\ p \in Priorities /\ b.activequeues \in [Priorities -> Seq(Callbacks)]
      /\ b.active_later_queue \in Seq(Callbacks)
    BY PrioritiesAssumption DEF BaseOK, event_base, Counted
<1>2. /\ r.flags = [fl EXCEPT ![c] = @ \cup {"ACTIVE"}]
      /\ r.event_count = b.event_count + Counted(c)
      /\ r.event_count_active = b.event_count_active + 1
      /\ r.activequeues = [b.activequeues EXCEPT ![p] = Append(@, c)]
      /\ r.active_later_queue = b.active_later_queue
      /\ r.closure = b.closure
      /\ r = [b EXCEPT !.flags = r.flags, !.event_count = r.event_count,
                       !.event_count_active = r.event_count_active,
                       !.activequeues = r.activequeues,
                       !.active_later_queue = r.active_later_queue]
    BY <1>1, ZenonT(40) DEF event_queue_insert_active, event_base, Has, IsActive
<1>3. /\ Lists(b.active_later_queue, LaterSet(fl))
      /\ \A q \in Priorities : Lists(b.activequeues[q], ActiveAt(fl, q))
      /\ \A d \in Callbacks : ~("ACTIVE" \in fl[d] /\ "ACTIVE_LATER" \in fl[d])
      /\ b.event_count_active = Cardinality(ActiveSet(fl))
      /\ b.event_count = Cardinality(CountedPairs(fl))
    BY DEF BaseOK, QueuesMatchFlags, CountsMatchFlags, Has
<1>4. "ACTIVE" \notin fl[c] /\ "ACTIVE" \in CountedFlags
    BY DEF Has, IsActive, CountedFlags
<1> HIDE DEF r, p, fl
<1>5. r.event_count = Cardinality(CountedPairs(r.flags))
    <2>1. Cardinality(CountedPairs([fl EXCEPT ![c] = @ \cup {"ACTIVE"}]))
             = Cardinality(CountedPairs(fl)) + Counted(c)
        BY <1>1, <1>4, CountedSet, Zenon DEF BaseOK
    <2> QED BY <1>2, <1>3, <2>1
<1>6. r.event_count_active = Cardinality(ActiveSet(r.flags))
    <2>1. c \notin ActiveSet(fl)
        BY DEF ActiveSet, Has, IsActive, fl
    <2>2. Cardinality(ActiveSet([fl EXCEPT ![c] = @ \cup {"ACTIVE"}])) = Cardinality(ActiveSet(fl)) + 1
        BY <1>1, <2>1, ActiveSetInsert, Zenon DEF BaseOK
    <2> QED BY <1>2, <1>3, <2>2
<1>7. c \notin ActiveAt(fl, p)
    BY <1>4 DEF ActiveAt, p
<1>8. /\ ActiveAt(r.flags, p) = ActiveAt(fl, p) \cup {c}
      /\ \A q \in Priorities \ {p} : ActiveAt(r.flags, q) = ActiveAt(fl, q)
      /\ LaterSet(r.flags) = LaterSet(fl)
    BY <1>1, <1>2 DEF ActiveAt, LaterSet, p
<1>9. /\ r.activequeues[p] \in Seq(Callbacks)
      /\ Lists(r.activequeues[p], ActiveAt(r.flags, p))
    <2>1. r.activequeues[p] = Append(b.activequeues[p], c)
        BY <1>1, <1>2
    <2>2. b.activequeues[p] \in Seq(Callbacks) /\ Lists(b.activequeues[p], ActiveAt(fl, p))
        BY <1>1, <1>3
    <2> QED BY <1>7, <1>8, <2>1, <2>2, ListsAppend
<1>10. \A q \in Priorities \ {p} : r.activequeues[q] = b.activequeues[q]
    BY <1>1, <1>2
<1>11. r.activequeues \in [Priorities -> Seq(Callbacks)]
    BY <1>1, <1>2, <1>9
<1>12. /\ Lists(r.active_later_queue, LaterSet(r.flags))
       /\ \A q \in Priorities : Lists(r.activequeues[q], ActiveAt(r.flags, q))
    BY <1>2, <1>3, <1>8, <1>9, <1>10, Zenon
<1>13. \A d \in Callbacks : ~(Has(r, d, "ACTIVE") /\ Has(r, d, "ACTIVE_LATER"))
    BY <1>1, <1>2, <1>3 DEF Has, IsActive, fl
<1>14. r \in event_base
    <2>1. /\ r.flags \in [Callbacks -> SUBSET EVLIST]
          /\ r.event_count \in Int /\ r.event_count_active \in Int
          /\ r.active_later_queue \in Seq(Callbacks)
        BY <1>1, <1>2 DEF EVLIST
    <2>2. [b EXCEPT !.flags = r.flags, !.event_count = r.event_count,
                    !.event_count_active = r.event_count_active,
                    !.activequeues = r.activequeues,
                    !.active_later_queue = r.active_later_queue] \in event_base
        BY <1>1, <1>11, <2>1, SetFields, Zenon
    <2> QED BY <1>2, <2>2, Zenon
<1>15. QueuesMatchFlags(r) /\ CountsMatchFlags(r)
    BY <1>5, <1>6, <1>12, <1>13 DEF QueuesMatchFlags, CountsMatchFlags
<1>16. FlagsFit(r)
    BY <1>1, <1>2 DEF BaseOK, FlagsFit, Has, fl
<1> QED BY <1>2, <1>14, <1>15, <1>16 DEF BaseOK, ClosuresKept, r

\* event_queue_remove_active of an active callback.
LEMMA RemoveActive ==
    ASSUME NEW b, NEW c \in Callbacks, BaseOK(b), Has(b, c, "ACTIVE")
    PROVE  BaseOK(event_queue_remove_active(b, c))
<1> DEFINE r == event_queue_remove_active(b, c)
           p == evcb_pri[c]
           fl == b.flags
<1>1. /\ b \in event_base /\ fl \in [Callbacks -> SUBSET EVLIST]
      /\ b.event_count \in Int /\ b.event_count_active \in Int /\ Counted(c) \in Int
      /\ p \in Priorities /\ b.activequeues \in [Priorities -> Seq(Callbacks)]
      /\ b.active_later_queue \in Seq(Callbacks)
    BY PrioritiesAssumption DEF BaseOK, event_base, Counted
<1>2. /\ r.flags = [fl EXCEPT ![c] = @ \ {"ACTIVE"}]
      /\ r.event_count = b.event_count - Counted(c)
      /\ r.event_count_active = b.event_count_active - 1
      /\ r.activequeues = [b.activequeues EXCEPT ![p] = TAILQ_REMOVE(@, c)]
      /\ r.active_later_queue = b.active_later_queue
      /\ r.closure = b.closure
      /\ r = [b EXCEPT !.flags = r.flags, !.event_count = r.event_count,
                       !.event_count_active = r.event_count_active,
                       !.activequeues = r.activequeues,
                       !.active_later_queue = r.active_later_queue]
    BY <1>1, ZenonT(40) DEF event_queue_remove_active, event_base, Has, IsActive
<1>3. /\ Lists(b.active_later_queue, LaterSet(fl))
      /\ \A q \in Priorities : Lists(b.activequeues[q], ActiveAt(fl, q))
      /\ \A d \in Callbacks : ~("ACTIVE" \in fl[d] /\ "ACTIVE_LATER" \in fl[d])
      /\ b.event_count_active = Cardinality(ActiveSet(fl))
      /\ b.event_count = Cardinality(CountedPairs(fl))
    BY DEF BaseOK, QueuesMatchFlags, CountsMatchFlags, Has
<1>4. "ACTIVE" \in fl[c] /\ "ACTIVE" \in CountedFlags
    BY DEF Has, IsActive, CountedFlags
<1> HIDE DEF r, p, fl
<1>5. r.event_count = Cardinality(CountedPairs(r.flags))
    <2>1. Cardinality(CountedPairs([fl EXCEPT ![c] = @ \ {"ACTIVE"}]))
             = Cardinality(CountedPairs(fl)) - Counted(c)
        BY <1>1, <1>4, CountedClear, Zenon DEF BaseOK
    <2> QED BY <1>2, <1>3, <2>1
<1>6. r.event_count_active = Cardinality(ActiveSet(r.flags))
    <2>1. fl[c] \cap {"ACTIVE", "ACTIVE_LATER"} = {"ACTIVE"}
        BY <1>3, <1>4
    <2>2. Cardinality(ActiveSet([fl EXCEPT ![c] = @ \ {"ACTIVE"}])) = Cardinality(ActiveSet(fl)) - 1
        BY <1>1, <2>1, ActiveSetRemove, Zenon DEF BaseOK
    <2> QED BY <1>2, <1>3, <2>2
<1>7. c \in ActiveAt(fl, p)
    BY <1>4 DEF ActiveAt, p
<1>8. /\ ActiveAt(r.flags, p) = ActiveAt(fl, p) \ {c}
      /\ \A q \in Priorities \ {p} : ActiveAt(r.flags, q) = ActiveAt(fl, q)
      /\ LaterSet(r.flags) = LaterSet(fl)
    BY <1>1, <1>2 DEF ActiveAt, LaterSet, p
<1>9. /\ r.activequeues[p] \in Seq(Callbacks)
      /\ Lists(r.activequeues[p], ActiveAt(r.flags, p))
    <2>1. r.activequeues[p] = TAILQ_REMOVE(b.activequeues[p], c)
        BY <1>1, <1>2
    <2>2. b.activequeues[p] \in Seq(Callbacks) /\ Lists(b.activequeues[p], ActiveAt(fl, p))
        BY <1>1, <1>3
    <2> QED BY <1>7, <1>8, <2>1, <2>2, ListsRemove
<1>10. \A q \in Priorities \ {p} : r.activequeues[q] = b.activequeues[q]
    BY <1>1, <1>2
<1>11. r.activequeues \in [Priorities -> Seq(Callbacks)]
    BY <1>1, <1>2, <1>9
<1>12. /\ Lists(r.active_later_queue, LaterSet(r.flags))
       /\ \A q \in Priorities : Lists(r.activequeues[q], ActiveAt(r.flags, q))
    BY <1>2, <1>3, <1>8, <1>9, <1>10, Zenon
<1>13. \A d \in Callbacks : ~(Has(r, d, "ACTIVE") /\ Has(r, d, "ACTIVE_LATER"))
    BY <1>1, <1>2, <1>3 DEF Has
<1>14. r \in event_base
    <2>1. /\ r.flags \in [Callbacks -> SUBSET EVLIST]
          /\ r.event_count \in Int /\ r.event_count_active \in Int
          /\ r.active_later_queue \in Seq(Callbacks)
        BY <1>1, <1>2 DEF EVLIST
    <2>2. [b EXCEPT !.flags = r.flags, !.event_count = r.event_count,
                    !.event_count_active = r.event_count_active,
                    !.activequeues = r.activequeues,
                    !.active_later_queue = r.active_later_queue] \in event_base
        BY <1>1, <1>11, <2>1, SetFields, Zenon
    <2> QED BY <1>2, <2>2, Zenon
<1>15. QueuesMatchFlags(r) /\ CountsMatchFlags(r)
    BY <1>5, <1>6, <1>12, <1>13 DEF QueuesMatchFlags, CountsMatchFlags
<1>16. FlagsFit(r)
    BY <1>1, <1>2 DEF BaseOK, FlagsFit, Has, fl
<1> QED BY <1>2, <1>14, <1>15, <1>16 DEF BaseOK, ClosuresKept, r

\* event_queue_insert_active_later of a callback that is on neither queue.
LEMMA InsertActiveLater ==
    ASSUME NEW b, NEW c \in Callbacks, BaseOK(b), ~IsActive(b, c)
    PROVE  BaseOK(event_queue_insert_active_later(b, c))
<1> DEFINE r == event_queue_insert_active_later(b, c)
           p == evcb_pri[c]
           fl == b.flags
<1>1. /\ b \in event_base /\ fl \in [Callbacks -> SUBSET EVLIST]
      /\ b.event_count \in Int /\ b.event_count_active \in Int /\ Counted(c) \in Int
      /\ p \in Priorities /\ b.activequeues \in [Priorities -> Seq(Callbacks)]
      /\ b.active_later_queue \in Seq(Callbacks)
    BY PrioritiesAssumption DEF BaseOK, event_base, Counted
<1>2. /\ r.flags = [fl EXCEPT ![c] = @ \cup {"ACTIVE_LATER"}]
      /\ r.event_count = b.event_count + Counted(c)
      /\ r.event_count_active = b.event_count_active + 1
      /\ r.activequeues = b.activequeues
      /\ r.active_later_queue = Append(b.active_later_queue, c)
      /\ r.closure = b.closure
      /\ r = [b EXCEPT !.flags = r.flags, !.event_count = r.event_count,
                       !.event_count_active = r.event_count_active,
                       !.activequeues = r.activequeues,
                       !.active_later_queue = r.active_later_queue]
    BY <1>1, ZenonT(40) DEF event_queue_insert_active_later, event_base, Has, IsActive
<1>3. /\ Lists(b.active_later_queue, LaterSet(fl))
      /\ \A q \in Priorities : Lists(b.activequeues[q], ActiveAt(fl, q))
      /\ \A d \in Callbacks : ~("ACTIVE" \in fl[d] /\ "ACTIVE_LATER" \in fl[d])
      /\ b.event_count_active = Cardinality(ActiveSet(fl))
      /\ b.event_count = Cardinality(CountedPairs(fl))
    BY DEF BaseOK, QueuesMatchFlags, CountsMatchFlags, Has
<1>4. "ACTIVE_LATER" \notin fl[c] /\ "ACTIVE_LATER" \in CountedFlags
    BY DEF Has, IsActive, CountedFlags
<1> HIDE DEF r, p, fl
<1>5. r.event_count = Cardinality(CountedPairs(r.flags))
    <2>1. Cardinality(CountedPairs([fl EXCEPT ![c] = @ \cup {"ACTIVE_LATER"}]))
             = Cardinality(CountedPairs(fl)) + Counted(c)
        BY <1>1, <1>4, CountedSet, Zenon DEF BaseOK
    <2> QED BY <1>2, <1>3, <2>1
<1>6. r.event_count_active = Cardinality(ActiveSet(r.flags))
    <2>1. c \notin ActiveSet(fl)
        BY DEF ActiveSet, Has, IsActive, fl
    <2>2. Cardinality(ActiveSet([fl EXCEPT ![c] = @ \cup {"ACTIVE_LATER"}])) = Cardinality(ActiveSet(fl)) + 1
        BY <1>1, <2>1, ActiveSetInsert, Zenon DEF BaseOK
    <2> QED BY <1>2, <1>3, <2>2
<1>7. c \notin LaterSet(fl)
    BY <1>4 DEF LaterSet
<1>8. /\ LaterSet(r.flags) = LaterSet(fl) \cup {c}
      /\ \A q \in Priorities : ActiveAt(r.flags, q) = ActiveAt(fl, q)
    BY <1>1, <1>2 DEF ActiveAt, LaterSet
<1>9. /\ r.active_later_queue \in Seq(Callbacks)
      /\ Lists(r.active_later_queue, LaterSet(r.flags))
    <2> DEFINE lq == b.active_later_queue
    <2>1. lq \in Seq(Callbacks) /\ Lists(lq, LaterSet(fl))
        BY <1>1, <1>3
    <2>2. r.active_later_queue = Append(lq, c)
        BY <1>2
    <2> HIDE DEF lq
    <2>3. Append(lq, c) \in Seq(Callbacks) /\ Lists(Append(lq, c), LaterSet(fl) \cup {c})
        BY <1>7, <2>1, ListsAppend
    <2> QED BY <1>8, <2>2, <2>3
<1>10. r.activequeues \in [Priorities -> Seq(Callbacks)]
    BY <1>1, <1>2
<1>11. \A q \in Priorities : Lists(r.activequeues[q], ActiveAt(r.flags, q))
    BY <1>2, <1>3, <1>8, Zenon
<1>12. \A d \in Callbacks : ~(Has(r, d, "ACTIVE") /\ Has(r, d, "ACTIVE_LATER"))
    BY <1>1, <1>2, <1>3 DEF Has, IsActive, fl
<1>13. r \in event_base
    <2>1. /\ r.flags \in [Callbacks -> SUBSET EVLIST]
          /\ r.event_count \in Int /\ r.event_count_active \in Int
          /\ r.active_later_queue \in Seq(Callbacks)
        BY <1>1, <1>2, <1>9 DEF EVLIST
    <2>2. [b EXCEPT !.flags = r.flags, !.event_count = r.event_count,
                    !.event_count_active = r.event_count_active,
                    !.activequeues = r.activequeues,
                    !.active_later_queue = r.active_later_queue] \in event_base
        BY <1>1, <1>10, <2>1, SetFields, Zenon
    <2> QED BY <1>2, <2>2, Zenon
<1>14. QueuesMatchFlags(r) /\ CountsMatchFlags(r)
    BY <1>5, <1>6, <1>9, <1>11, <1>12 DEF QueuesMatchFlags, CountsMatchFlags
<1>15. FlagsFit(r)
    BY <1>1, <1>2 DEF BaseOK, FlagsFit, Has, fl
<1> QED BY <1>2, <1>13, <1>14, <1>15 DEF BaseOK, ClosuresKept, r

\* event_queue_remove_active_later of a callback that is on that queue.
LEMMA RemoveActiveLater ==
    ASSUME NEW b, NEW c \in Callbacks, BaseOK(b), Has(b, c, "ACTIVE_LATER")
    PROVE  BaseOK(event_queue_remove_active_later(b, c))
<1> DEFINE r == event_queue_remove_active_later(b, c)
           p == evcb_pri[c]
           fl == b.flags
<1>1. /\ b \in event_base /\ fl \in [Callbacks -> SUBSET EVLIST]
      /\ b.event_count \in Int /\ b.event_count_active \in Int /\ Counted(c) \in Int
      /\ p \in Priorities /\ b.activequeues \in [Priorities -> Seq(Callbacks)]
      /\ b.active_later_queue \in Seq(Callbacks)
    BY PrioritiesAssumption DEF BaseOK, event_base, Counted
<1>2. /\ r.flags = [fl EXCEPT ![c] = @ \ {"ACTIVE_LATER"}]
      /\ r.event_count = b.event_count - Counted(c)
      /\ r.event_count_active = b.event_count_active - 1
      /\ r.activequeues = b.activequeues
      /\ r.active_later_queue = TAILQ_REMOVE(b.active_later_queue, c)
      /\ r.closure = b.closure
      /\ r = [b EXCEPT !.flags = r.flags, !.event_count = r.event_count,
                       !.event_count_active = r.event_count_active,
                       !.activequeues = r.activequeues,
                       !.active_later_queue = r.active_later_queue]
    BY <1>1, ZenonT(40) DEF event_queue_remove_active_later, event_base, Has, IsActive
<1>3. /\ Lists(b.active_later_queue, LaterSet(fl))
      /\ \A q \in Priorities : Lists(b.activequeues[q], ActiveAt(fl, q))
      /\ \A d \in Callbacks : ~("ACTIVE" \in fl[d] /\ "ACTIVE_LATER" \in fl[d])
      /\ b.event_count_active = Cardinality(ActiveSet(fl))
      /\ b.event_count = Cardinality(CountedPairs(fl))
    BY DEF BaseOK, QueuesMatchFlags, CountsMatchFlags, Has
<1>4. "ACTIVE_LATER" \in fl[c] /\ "ACTIVE_LATER" \in CountedFlags
    BY DEF Has, IsActive, CountedFlags
<1> HIDE DEF r, p, fl
<1>5. r.event_count = Cardinality(CountedPairs(r.flags))
    <2>1. Cardinality(CountedPairs([fl EXCEPT ![c] = @ \ {"ACTIVE_LATER"}]))
             = Cardinality(CountedPairs(fl)) - Counted(c)
        BY <1>1, <1>4, CountedClear, Zenon DEF BaseOK
    <2> QED BY <1>2, <1>3, <2>1
<1>6. r.event_count_active = Cardinality(ActiveSet(r.flags))
    <2>1. fl[c] \cap {"ACTIVE", "ACTIVE_LATER"} = {"ACTIVE_LATER"}
        BY <1>3, <1>4
    <2>2. Cardinality(ActiveSet([fl EXCEPT ![c] = @ \ {"ACTIVE_LATER"}])) = Cardinality(ActiveSet(fl)) - 1
        BY <1>1, <2>1, ActiveSetRemove, Zenon DEF BaseOK
    <2> QED BY <1>2, <1>3, <2>2
<1>7. c \in LaterSet(fl)
    BY <1>4 DEF LaterSet
<1>8. /\ LaterSet(r.flags) = LaterSet(fl) \ {c}
      /\ \A q \in Priorities : ActiveAt(r.flags, q) = ActiveAt(fl, q)
    BY <1>1, <1>2 DEF ActiveAt, LaterSet
<1>9. /\ r.active_later_queue \in Seq(Callbacks)
      /\ Lists(r.active_later_queue, LaterSet(r.flags))
    <2> DEFINE lq == b.active_later_queue
    <2>1. lq \in Seq(Callbacks) /\ Lists(lq, LaterSet(fl))
        BY <1>1, <1>3
    <2>2. r.active_later_queue = TAILQ_REMOVE(lq, c)
        BY <1>2
    <2> HIDE DEF lq
    <2>3. TAILQ_REMOVE(lq, c) \in Seq(Callbacks) /\ Lists(TAILQ_REMOVE(lq, c), LaterSet(fl) \ {c})
        BY <1>7, <2>1, ListsRemove
    <2> QED BY <1>8, <2>2, <2>3
<1>10. r.activequeues \in [Priorities -> Seq(Callbacks)]
    BY <1>1, <1>2
<1>11. \A q \in Priorities : Lists(r.activequeues[q], ActiveAt(r.flags, q))
    BY <1>2, <1>3, <1>8, Zenon
<1>12. \A d \in Callbacks : ~(Has(r, d, "ACTIVE") /\ Has(r, d, "ACTIVE_LATER"))
    BY <1>1, <1>2, <1>3 DEF Has
<1>13. r \in event_base
    <2>1. /\ r.flags \in [Callbacks -> SUBSET EVLIST]
          /\ r.event_count \in Int /\ r.event_count_active \in Int
          /\ r.active_later_queue \in Seq(Callbacks)
        BY <1>1, <1>2, <1>9 DEF EVLIST
    <2>2. [b EXCEPT !.flags = r.flags, !.event_count = r.event_count,
                    !.event_count_active = r.event_count_active,
                    !.activequeues = r.activequeues,
                    !.active_later_queue = r.active_later_queue] \in event_base
        BY <1>1, <1>10, <2>1, SetFields, Zenon
    <2> QED BY <1>2, <2>2, Zenon
<1>14. QueuesMatchFlags(r) /\ CountsMatchFlags(r)
    BY <1>5, <1>6, <1>9, <1>11, <1>12 DEF QueuesMatchFlags, CountsMatchFlags
<1>15. FlagsFit(r)
    BY <1>1, <1>2 DEF BaseOK, FlagsFit, Has, fl
<1> QED BY <1>2, <1>13, <1>14, <1>15 DEF BaseOK, ClosuresKept, r

\* One turn of event_queue_make_later_events_active: the counters stay, the
\* callback moves from one queue to the other.
LEMMA MakeLaterActive ==
    ASSUME NEW b, BaseOK(b), b.active_later_queue # << >>
    PROVE  BaseOK(make_later_event_active(b))
<1> DEFINE lq == b.active_later_queue
           c == Head(lq)
           p == evcb_pri[c]
           fl == b.flags
           r == make_later_event_active(b)
<1>1. /\ b \in event_base /\ fl \in [Callbacks -> SUBSET EVLIST]
      /\ b.activequeues \in [Priorities -> Seq(Callbacks)] /\ lq \in Seq(Callbacks)
      /\ b.n_deferreds_queued \in Nat
    BY DEF BaseOK, event_base
<1>2. /\ Lists(lq, LaterSet(fl))
      /\ \A q \in Priorities : Lists(b.activequeues[q], ActiveAt(fl, q))
      /\ \A d \in Callbacks : ~("ACTIVE" \in fl[d] /\ "ACTIVE_LATER" \in fl[d])
      /\ b.event_count_active = Cardinality(ActiveSet(fl))
      /\ b.event_count = Cardinality(CountedPairs(fl))
    BY DEF BaseOK, QueuesMatchFlags, CountsMatchFlags, Has
<1>3. /\ c \in Callbacks /\ c \in LaterSet(fl)
      /\ Tail(lq) \in Seq(Callbacks) /\ Lists(Tail(lq), LaterSet(fl) \ {c})
    <2> HIDE DEF lq, fl
    <2>1. lq # << >>
        BY DEF lq
    <2> QED BY <1>1, <1>2, <2>1, ListsTail
<1>4. p \in Priorities
    BY <1>3, PrioritiesAssumption
<1>5. /\ r.flags = [fl EXCEPT ![c] = (@ \ {"ACTIVE_LATER"}) \cup {"ACTIVE"}]
      /\ r.activequeues = [b.activequeues EXCEPT ![p] = Append(@, c)]
      /\ r.active_later_queue = Tail(lq)
      /\ r.event_count = b.event_count /\ r.closure = b.closure
      /\ r.event_count_active = b.event_count_active
      /\ r = [b EXCEPT !.flags = r.flags, !.activequeues = r.activequeues,
                       !.active_later_queue = r.active_later_queue,
                       !.n_deferreds_queued = r.n_deferreds_queued]
      /\ r.n_deferreds_queued \in Nat
    <2> DEFINE n == b.n_deferreds_queued + (IF b.closure[c] = "CB_SELF" THEN 1 ELSE 0)
               gl == [fl EXCEPT ![c] = (@ \ {"ACTIVE_LATER"}) \cup {"ACTIVE"}]
               aq == [b.activequeues EXCEPT ![p] = Append(@, c)]
               tq == Tail(lq)
    <2>1. r = [b EXCEPT !.active_later_queue = tq, !.flags = gl, !.activequeues = aq,
                        !.n_deferreds_queued = n]
        BY DEF make_later_event_active
    <2>2. n \in Nat
        BY <1>1
    <2> HIDE DEF n, gl, aq, tq, r
    <2>3. /\ r.flags = gl /\ r.activequeues = aq /\ r.active_later_queue = tq
          /\ r.n_deferreds_queued = n
          /\ r.event_count = b.event_count /\ r.closure = b.closure
          /\ r.event_count_active = b.event_count_active
        BY <1>1, <2>1 DEF event_base
    <2>4. r = [b EXCEPT !.flags = gl, !.activequeues = aq, !.active_later_queue = tq,
                        !.n_deferreds_queued = n]
        BY <1>1, <2>1, Zenon DEF event_base
    <2> QED BY <2>2, <2>3, <2>4 DEF gl, aq, tq
<1> HIDE DEF r, lq, c, p, fl
<1>6. c \notin ActiveAt(fl, p) /\ c \in ActiveSet(fl)
    BY <1>2, <1>3 DEF ActiveAt, LaterSet, ActiveSet
<1>7. /\ LaterSet(r.flags) = LaterSet(fl) \ {c}
      /\ ActiveAt(r.flags, p) = ActiveAt(fl, p) \cup {c}
      /\ \A q \in Priorities \ {p} : ActiveAt(r.flags, q) = ActiveAt(fl, q)
      /\ ActiveSet(r.flags) = ActiveSet(fl)
    BY <1>1, <1>3, <1>5 DEF ActiveAt, LaterSet, ActiveSet, p
<1>8. /\ r.activequeues[p] \in Seq(Callbacks)
      /\ Lists(r.activequeues[p], ActiveAt(r.flags, p))
    <2>1. r.activequeues[p] = Append(b.activequeues[p], c)
        BY <1>1, <1>4, <1>5
    <2>2. b.activequeues[p] \in Seq(Callbacks) /\ Lists(b.activequeues[p], ActiveAt(fl, p))
        BY <1>1, <1>2, <1>4
    <2> QED BY <1>3, <1>6, <1>7, <2>1, <2>2, ListsAppend
<1>9. /\ \A q \in Priorities \ {p} : r.activequeues[q] = b.activequeues[q]
      /\ r.activequeues \in [Priorities -> Seq(Callbacks)]
    BY <1>1, <1>5, <1>8, Zenon
<1>10. QueuesMatchFlags(r)
    <2>1. \A q \in Priorities : Lists(r.activequeues[q], ActiveAt(r.flags, q))
        BY <1>2, <1>7, <1>8, <1>9, Zenon
    <2>2. Lists(r.active_later_queue, LaterSet(r.flags))
        BY <1>3, <1>5, <1>7, Zenon
    <2>3. \A d \in Callbacks : ~(Has(r, d, "ACTIVE") /\ Has(r, d, "ACTIVE_LATER"))
        BY <1>1, <1>2, <1>3, <1>5 DEF Has
    <2> QED BY <2>1, <2>2, <2>3 DEF QueuesMatchFlags
<1>11. Cardinality(CountedPairs(r.flags)) = Cardinality(CountedPairs(fl))
    <2> DEFINE gl == [fl EXCEPT ![c] = @ \ {"ACTIVE_LATER"}]
    <2>1. /\ gl \in [Callbacks -> SUBSET EVLIST]
          /\ "ACTIVE_LATER" \in fl[c] /\ "ACTIVE" \notin gl[c]
          /\ r.flags = [gl EXCEPT ![c] = @ \cup {"ACTIVE"}]
        BY <1>1, <1>2, <1>3, <1>5 DEF LaterSet
    <2>2. {"ACTIVE", "ACTIVE_LATER"} \subseteq CountedFlags
        BY DEF CountedFlags
    <2>3. Cardinality(CountedPairs(gl)) = Cardinality(CountedPairs(fl)) - Counted(c)
        BY <1>1, <1>3, <2>1, <2>2, CountedClear DEF BaseOK
    <2> HIDE DEF gl
    <2>4. Cardinality(CountedPairs(r.flags)) = Cardinality(CountedPairs(gl)) + Counted(c)
        BY <1>3, <2>1, <2>2, CountedSet, Zenon DEF BaseOK
    <2>5. Counted(c) \in Nat /\ Cardinality(CountedPairs(fl)) \in Nat
        BY <1>1, CountedFinite, Zenon DEF Counted, Cardinalities, BaseOK
    <2> QED BY <2>3, <2>4, <2>5
<1>12. CountsMatchFlags(r)
    BY <1>2, <1>5, <1>7, <1>11, Zenon DEF CountsMatchFlags
<1>13. r \in event_base
    <2>1. /\ r.flags \in [Callbacks -> SUBSET EVLIST]
          /\ r.active_later_queue \in Seq(Callbacks)
        BY <1>1, <1>3, <1>5 DEF EVLIST
    <2>2. \A gl \in [Callbacks -> SUBSET EVLIST], aq \in [Priorities -> Seq(Callbacks)],
              q \in Seq(Callbacks), n \in Nat :
             [b EXCEPT !.flags = gl, !.activequeues = aq, !.active_later_queue = q,
                       !.n_deferreds_queued = n] \in event_base
        BY <1>1, Zenon DEF event_base
    <2>3. [b EXCEPT !.flags = r.flags, !.activequeues = r.activequeues,
                    !.active_later_queue = r.active_later_queue,
                    !.n_deferreds_queued = r.n_deferreds_queued] \in event_base
        BY <1>5, <1>9, <2>1, <2>2, Zenon
    <2> QED BY <1>5, <2>3, Zenon
<1>14. FlagsFit(r)
    BY <1>1, <1>3, <1>5 DEF BaseOK, FlagsFit, Has, fl
<1> QED BY <1>5, <1>10, <1>12, <1>13, <1>14 DEF BaseOK, ClosuresKept, r

----------------------------------------------------------------------------
(* A new base.                                                             *)

\* event_base_new_with_config makes a base whose queues are empty.
LEMMA NewBase ==
    ASSUME Cardinalities PROVE BaseOK(event_base_new_with_config)
<1> DEFINE b  == event_base_new_with_config
           f  == [c \in Callbacks |-> IF c = th_notify THEN {"INSERTED"} ELSE {}]
           cl == [c \in Callbacks |-> event_assign(c)]
           z  == [e \in EventStructs |-> 0]
           no == [e \in EventStructs |-> FALSE]
           pn == [e \in EventStructs |-> "NULL"]
           qs == [p \in Priorities |-> << >>]
<1>1. b = [flags |-> f, closure |-> cl, ev_timeout |-> z, ev_io_timeout |-> z,
           res_timeout |-> no, ev_ncalls |-> z, ev_pncalls |-> pn, ncalls |-> 0,
           activequeues |-> qs, active_later_queue |-> << >>,
           event_count |-> 0, event_count_active |-> 0, virtual_event_count |-> 0,
           n_deferreds_queued |-> 0, event_continue |-> FALSE,
           is_notify_pending |-> FALSE, notify_fd |-> FALSE]
    BY Zenon DEF event_base_new_with_config
<1>2. \A c \in Callbacks : event_assign(c) \in Closures
    BY DEF event_assign, Closures
<1>3. /\ f \in [Callbacks -> SUBSET EVLIST] /\ cl \in [Callbacks -> Closures]
      /\ z \in [EventStructs -> Nat] /\ no \in [EventStructs -> BOOLEAN]
      /\ pn \in [EventStructs -> {"NULL", "live", "stale"}]
      /\ qs \in [Priorities -> Seq(Callbacks)] /\ << >> \in Seq(Callbacks)
    BY <1>2 DEF EVLIST
<1>4. /\ \A c \in Callbacks : /\ "ACTIVE" \notin f[c] /\ "ACTIVE_LATER" \notin f[c]
                              /\ c \notin Internal => f[c] = {}
      /\ \A c \in Callbacks : cl[c] = event_assign(c)
      /\ \A p \in Priorities : qs[p] = << >>
    BY DEF Internal
<1> HIDE DEF b, f, cl, z, no, pn, qs
<1>5. b \in event_base
    BY <1>1, <1>3 DEF event_base
<1>6. /\ b.flags = f /\ b.closure = cl /\ b.activequeues = qs /\ b.active_later_queue = << >>
      /\ b.event_count = 0 /\ b.event_count_active = 0
    BY <1>1
<1>7. QueuesMatchFlags(b)
    <2>1. LaterSet(f) = {} /\ \A p \in Priorities : ActiveAt(f, p) = {}
        BY <1>4 DEF ActiveAt, LaterSet
    <2>2. Lists(<< >>, {})
        BY DEF Lists
    <2> QED BY <1>4, <1>6, <2>1, <2>2, Zenon DEF QueuesMatchFlags, Has
<1>8. CountsMatchFlags(b)
    <2>1. ActiveSet(f) = {}
        BY <1>4 DEF ActiveSet
    <2>2. CountedPairs(f) = {}
        BY <1>4 DEF CountedPairs
    <2>3. Cardinality({}) = 0
        BY DEF Cardinalities
    <2> QED BY <1>6, <2>1, <2>2, <2>3 DEF CountsMatchFlags
<1>9. ClosuresKept(b)
    BY <1>4, <1>6 DEF ClosuresKept
<1>10. FlagsFit(b)
    BY <1>4, <1>6, CallbacksAssumption DEF FlagsFit, Has, Events
<1> QED BY <1>5, <1>7, <1>8, <1>9, <1>10 DEF BaseOK, b

----------------------------------------------------------------------------
(* The nolock functions.                                                   *)

\* The fields that no queue depends on may be assigned at will.
Assigned(b, r) ==
    /\ r.flags = b.flags /\ r.closure = b.closure
    /\ r.activequeues = b.activequeues /\ r.active_later_queue = b.active_later_queue
    /\ r.event_count = b.event_count /\ r.event_count_active = b.event_count_active

\* Assigning the other fields keeps the queues and counters right.
LEMMA AssignedOK ==
    ASSUME NEW b, NEW r \in event_base, BaseOK(b), Assigned(b, r)
    PROVE  BaseOK(r)
BY SameQueues DEF Assigned

\* evthread_notify_base touches no queue.
LEMMA Notify ==
    ASSUME NEW b, NEW need, NEW me, BaseOK(b)
    PROVE  BaseOK(NotifyIf(b, need, me)) /\ Assigned(b, NotifyIf(b, need, me))
<1> DEFINE r == [b EXCEPT !.is_notify_pending = TRUE, !.notify_fd = TRUE]
<1>1. r \in event_base
    BY Zenon DEF BaseOK, event_base
<1>2. Assigned(b, r)
    BY DEF BaseOK, event_base, Assigned
<1>3. BaseOK(r)
    BY <1>1, <1>2, AssignedOK
<1>4. Assigned(b, b)
    BY DEF Assigned
<1> QED BY <1>2, <1>3, <1>4 DEF NotifyIf, evthread_notify_base

\* evmap_signal_add_ may insert ev_signal, which is not counted.
LEMMA SignalAdd ==
    ASSUME NEW b, NEW e \in SignalEvents, BaseOK(b)
    PROVE  /\ BaseOK(evmap_signal_add_(b, e))
           /\ evmap_signal_add_(b, e).flags[e] = b.flags[e]
<1> DEFINE r == [b EXCEPT !.flags[ev_signal] = @ \cup {"INSERTED"}]
<1>1. ev_signal \in Callbacks /\ ev_signal \in Internal /\ e # ev_signal
    BY CallbacksAssumption DEF Callbacks, EventStructs, Events, Internal
<1>2. b \in event_base /\ b.flags \in [Callbacks -> SUBSET EVLIST]
    BY DEF BaseOK, event_base
<1>3. /\ r.flags = [b.flags EXCEPT ![ev_signal] = @ \cup {"INSERTED"}]
      /\ r.closure = b.closure
      /\ r.activequeues = b.activequeues /\ r.active_later_queue = b.active_later_queue
      /\ r.event_count = b.event_count /\ r.event_count_active = b.event_count_active
    BY <1>2 DEF event_base
<1>4. r \in event_base
    <2>1. [b.flags EXCEPT ![ev_signal] = @ \cup {"INSERTED"}] \in [Callbacks -> SUBSET EVLIST]
        BY <1>2, Zenon DEF EVLIST
    <2>2. \A fl \in [Callbacks -> SUBSET EVLIST] : [b EXCEPT !.flags = fl] \in event_base
        BY <1>2, Zenon DEF event_base
    <2> QED BY <2>1, <2>2
<1>5. BaseOK(r)
    <2> HIDE DEF r
    <2>1. \A c \in Callbacks :
             /\ r.flags[c] \cap {"ACTIVE", "ACTIVE_LATER"}
                    = b.flags[c] \cap {"ACTIVE", "ACTIVE_LATER"}
             /\ c \notin Internal =>
                    r.flags[c] \cap CountedFlags = b.flags[c] \cap CountedFlags
             /\ r.closure[c] \in {b.closure[c]} \cup Finalizers
        BY <1>1, <1>2, <1>3
    <2> QED BY <1>3, <1>4, <2>1, SameQueues, Zenon
<1>6. r.flags[e] = b.flags[e]
    BY <1>1, <1>2, <1>3
<1> QED BY <1>5, <1>6 DEF evmap_signal_add_

\* Writing through ev_pncalls touches no queue.
LEMMA AbortSignalLoop ==
    ASSUME NEW b, NEW e, NEW hit, BaseOK(b)
    PROVE  /\ BaseOK(abort_signal_loop(b, e, hit))
           /\ Assigned(b, abort_signal_loop(b, e, hit))
<1> DEFINE r == [b EXCEPT !.ncalls = 0]
<1>1. r \in event_base /\ Assigned(b, r)
    BY Zenon DEF BaseOK, event_base, Assigned
<1>2. BaseOK(r)
    BY <1>1, AssignedOK
<1>3. Assigned(b, b)
    BY DEF Assigned
<1> QED BY <1>1, <1>2, <1>3 DEF abort_signal_loop

\* The timeout half of event_add_nolock_ removes a timeout before it inserts
\* one, so EVLIST_TIMEOUT is never set twice.
LEMMA AddTimeout ==
    ASSUME NEW b, NEW e \in EventStructs, NEW tv_ \in Nat, NEW absolute \in BOOLEAN,
           NEW hit, BaseOK(b), gettime \in Nat
    PROVE  BaseOK(event_add_timeout(b, e, tv_, absolute, hit))
<1> DEFINE b1 == IF b.closure[e] = "EVENT_PERSIST" /\ ~absolute
                 THEN [b EXCEPT !.ev_io_timeout[e] = tv_] ELSE b
           b2 == IF Has(b1, e, "TIMEOUT") THEN event_queue_remove_timeout(b1, e) ELSE b1
           a  == abort_signal_loop(b2, e, hit)
           b3 == IF Has(b2, e, "ACTIVE") /\ b2.res_timeout[e]
                 THEN event_queue_remove_active(a, e) ELSE b2
           at == IF absolute THEN tv_ ELSE gettime + tv_
           b4 == [b3 EXCEPT !.ev_timeout[e] = at]
<1>1. e \in Callbacks
    BY DEF Callbacks
<1>2. BaseOK(b1)
    <2> DEFINE r == [b EXCEPT !.ev_io_timeout[e] = tv_]
    <2>1. r \in event_base /\ Assigned(b, r)
        BY Zenon DEF BaseOK, event_base, Assigned
    <2>2. BaseOK(r)
        BY <2>1, AssignedOK
    <2> QED BY <2>2
<1> HIDE DEF b1
<1>3. BaseOK(b2) /\ ~Has(b2, e, "TIMEOUT")
    <2>1. CASE Has(b1, e, "TIMEOUT")
        <3>1. BaseOK(event_queue_remove_timeout(b1, e))
            BY <1>2, <2>1, RemoveTimeout
        <3>2. ~Has(event_queue_remove_timeout(b1, e), e, "TIMEOUT")
            BY <1>1, <1>2 DEF BaseOK, event_base, event_queue_remove_timeout, Has
        <3> QED BY <2>1, <3>1, <3>2
    <2>2. CASE ~Has(b1, e, "TIMEOUT")
        BY <1>2, <2>2
    <2> QED BY <2>1, <2>2
<1> HIDE DEF b2
<1>4. BaseOK(a) /\ Assigned(b2, a)
    BY <1>3, AbortSignalLoop
<1> HIDE DEF a
<1>5. BaseOK(b3) /\ ~Has(b3, e, "TIMEOUT")
    <2>1. CASE Has(b2, e, "ACTIVE") /\ b2.res_timeout[e]
        <3>1. Has(a, e, "ACTIVE") /\ ~Has(a, e, "TIMEOUT")
            BY <1>3, <1>4, <2>1 DEF Assigned, Has
        <3>2. BaseOK(event_queue_remove_active(a, e))
            BY <1>1, <1>4, <3>1, RemoveActive
        <3>3. ~Has(event_queue_remove_active(a, e), e, "TIMEOUT")
            BY <1>1, <1>4, <3>1 DEF BaseOK, event_base, event_queue_remove_active, Has
        <3> QED BY <2>1, <3>2, <3>3
    <2>2. CASE ~(Has(b2, e, "ACTIVE") /\ b2.res_timeout[e])
        BY <1>3, <2>2
    <2> QED BY <2>1, <2>2
<1> HIDE DEF b3
<1>6. at \in Nat
    OBVIOUS
<1> HIDE DEF at
<1>7. BaseOK(b4) /\ ~Has(b4, e, "TIMEOUT")
    <2>1. b4 \in event_base /\ Assigned(b3, b4)
        BY <1>5, <1>6, Zenon DEF BaseOK, event_base, Assigned
    <2> HIDE DEF b4
    <2>2. BaseOK(b4)
        BY <1>5, <2>1, AssignedOK
    <2> QED BY <1>5, <2>1, <2>2 DEF Assigned, Has
<1> HIDE DEF b4
<1>8. BaseOK(event_queue_insert_timeout(b4, e))
    BY <1>7, InsertTimeout
<1> QED BY <1>8, Zenon DEF event_add_timeout, b1, b2, a, b3, at, b4

\* event_add_nolock_, whether or not the backend accepts the event.
LEMMA AddNolock ==
    ASSUME NEW b, NEW e \in EventStructs, NEW tv_ \in Nat \cup {NoTV},
           NEW absolute \in BOOLEAN, NEW ok, NEW hit, NEW me,
           BaseOK(b), gettime \in Nat
    PROVE  BaseOK(event_add_nolock_(b, e, tv_, absolute, ok, hit, me))
<1> DEFINE insert == e \notin TimerEvents /\ ~Has(b, e, "INSERTED") /\ ~IsActive(b, e)
           timed  == tv_ # NoTV /\ (insert => ok)
           s  == evmap_signal_add_(b, e)
           b1 == IF insert /\ ok THEN event_queue_insert_inserted(s, e) ELSE b
           b2 == IF timed THEN event_add_timeout(b1, e, tv_, absolute, hit) ELSE b1
           earliest == \/ min_heap_elt_is_top_(b2, e)
                       \/ \E o \in Timeouts(b2) : b2.ev_timeout[o] < gettime
           need == (insert /\ ok /\ evmap_changes(b, e)) \/ (timed /\ earliest)
<1>1. BaseOK(s) /\ s.flags[e] = b.flags[e]
    <2>1. CASE e \in SignalEvents
        BY <2>1, SignalAdd
    <2>2. CASE e \notin SignalEvents
        BY <2>2 DEF evmap_signal_add_
    <2> QED BY <2>1, <2>2
<1> HIDE DEF s
<1>2. BaseOK(b1)
    <2>1. CASE insert /\ ok
        <3>1. ~Has(s, e, "INSERTED")
            BY <1>1, <2>1 DEF Has
        <3> QED BY <1>1, <2>1, <3>1, InsertInserted
    <2>2. CASE ~(insert /\ ok)
        BY <2>2
    <2> QED BY <2>1, <2>2
<1> HIDE DEF b1
<1>3. BaseOK(b2)
    <2>1. CASE timed
        <3>1. tv_ \in Nat
            BY <2>1
        <3> QED BY <1>2, <2>1, <3>1, AddTimeout
    <2>2. CASE ~timed
        BY <1>2, <2>2
    <2> QED BY <2>1, <2>2
<1> HIDE DEF b2
<1>4. BaseOK(NotifyIf(b2, need, me))
    BY <1>3, Notify
<1> QED BY <1>4, Zenon DEF event_add_nolock_, b2, b1, s

\* event_del_nolock_ takes the event off every queue it is on.
LEMMA DelNolock ==
    ASSUME NEW b, NEW e \in EventStructs, NEW ok, NEW hit, NEW me, BaseOK(b)
    PROVE  BaseOK(event_del_nolock_(b, e, ok, hit, me))
<1> DEFINE b1 == abort_signal_loop(b, e, hit)
           b2 == IF Has(b1, e, "TIMEOUT") THEN event_queue_remove_timeout(b1, e) ELSE b1
           b3 == IF Has(b2, e, "ACTIVE") THEN event_queue_remove_active(b2, e)
                 ELSE IF Has(b2, e, "ACTIVE_LATER")
                      THEN event_queue_remove_active_later(b2, e) ELSE b2
           b4 == IF Has(b3, e, "INSERTED") THEN event_queue_remove_inserted(b3, e) ELSE b3
           need == Has(b3, e, "INSERTED") /\ ok /\ evmap_changes(b3, e)
<1>1. e \in Callbacks
    BY DEF Callbacks
<1>2. BaseOK(b1)
    BY AbortSignalLoop
<1> HIDE DEF b1
<1>3. BaseOK(b2)
    BY <1>2, RemoveTimeout
<1> HIDE DEF b2
<1>4. BaseOK(b3)
    BY <1>1, <1>3, RemoveActive, RemoveActiveLater
<1> HIDE DEF b3
<1>5. BaseOK(b4)
    BY <1>4, RemoveInserted
<1> HIDE DEF b4
<1>6. BaseOK(NotifyIf(b4, need, me))
    BY <1>5, Notify
<1> QED BY <1>6, Zenon DEF event_del_nolock_, b1, b2, b3, b4

\* event_callback_activate_nolock_ moves a callback from the active-later
\* queue rather than putting it on both.
LEMMA Activate ==
    ASSUME NEW b, NEW c \in Callbacks, NEW me, BaseOK(b)
    PROVE  BaseOK(event_callback_activate_nolock_(b, c, me))
<1> DEFINE b1 == IF Has(b, c, "ACTIVE_LATER")
                 THEN event_queue_remove_active_later(b, c) ELSE b
           b2 == event_queue_insert_active(b1, c)
<1>1. CASE Has(b, c, "FINALIZING") \/ Has(b, c, "ACTIVE")
    BY <1>1, Zenon DEF event_callback_activate_nolock_
<1>2. CASE ~(Has(b, c, "FINALIZING") \/ Has(b, c, "ACTIVE"))
    <2>1. BaseOK(b1) /\ ~IsActive(b1, c)
        <3>1. CASE Has(b, c, "ACTIVE_LATER")
            <4>1. BaseOK(event_queue_remove_active_later(b, c))
                BY <3>1, RemoveActiveLater
            <4>2. ~IsActive(event_queue_remove_active_later(b, c), c)
                BY <1>2 DEF BaseOK, event_base, event_queue_remove_active_later, IsActive, Has
            <4> QED BY <3>1, <4>1, <4>2
        <3>2. CASE ~Has(b, c, "ACTIVE_LATER")
            BY <1>2, <3>2 DEF IsActive
        <3> QED BY <3>1, <3>2
    <2> HIDE DEF b1
    <2>2. BaseOK(b2)
        BY <2>1, InsertActive
    <2> HIDE DEF b2
    <2>3. BaseOK(NotifyIf(b2, TRUE, me))
        BY <2>2, Notify, Zenon
    <2> QED BY <1>2, <2>3, Zenon DEF event_callback_activate_nolock_, b1, b2
<1> QED BY <1>1, <1>2

\* event_callback_activate_later_nolock_ leaves an active callback alone.
LEMMA ActivateLater ==
    ASSUME NEW b, NEW c \in Callbacks, NEW me, BaseOK(b)
    PROVE  BaseOK(event_callback_activate_later_nolock_(b, c, me))
<1>1. CASE IsActive(b, c)
    BY <1>1 DEF event_callback_activate_later_nolock_
<1>2. CASE ~IsActive(b, c)
    <2>1. BaseOK(event_queue_insert_active_later(b, c))
        BY <1>2, InsertActiveLater
    <2>2. BaseOK(NotifyIf(event_queue_insert_active_later(b, c), TRUE, me))
        BY <2>1, Notify, Zenon
    <2> QED BY <1>2, <2>2, Zenon DEF event_callback_activate_later_nolock_
<1> QED BY <1>1, <1>2

\* event_active_nolock_ up to its wait touches no queue.
LEMMA ActiveEnter ==
    ASSUME NEW b, NEW e \in EventStructs, NEW timeout \in BOOLEAN, BaseOK(b)
    PROVE  BaseOK(event_active_enter(b, e, timeout))
<1> DEFINE rt == IF IsActive(b, e) THEN b.res_timeout[e] \/ timeout ELSE timeout
           ct == \/ b.event_continue
                 \/ /\ ~Has(b, e, "ACTIVE")
                    /\ evcb_pri[e] < event_running_priority
           r  == event_active_enter(b, e, timeout)
<1>1. r = [b EXCEPT !.res_timeout[e] = rt, !.event_continue = ct]
    BY DEF event_active_enter
<1>2. rt \in BOOLEAN /\ ct \in BOOLEAN
    BY Zenon
<1> HIDE DEF rt, ct, r
<1>3. r \in event_base
    BY <1>1, <1>2, Zenon DEF BaseOK, event_base
<1>4. Assigned(b, r)
    BY <1>1 DEF BaseOK, event_base, Assigned
<1>5. BaseOK(r)
    BY <1>3, <1>4, AssignedOK
<1> QED BY <1>5 DEF r

\* event_active_nolock_ past its wait.
LEMMA ActiveFinish ==
    ASSUME NEW b, NEW e \in EventStructs, NEW n \in Nat, NEW me, BaseOK(b)
    PROVE  BaseOK(event_active_finish(b, e, n, me))
<1> DEFINE r  == [b EXCEPT !.ev_ncalls[e] = n, !.ev_pncalls[e] = "NULL"]
           b1 == IF e \in SignalEvents THEN r ELSE b
<1>1. r \in event_base /\ Assigned(b, r)
    BY Zenon DEF BaseOK, event_base, Assigned
<1>2. BaseOK(r)
    BY <1>1, AssignedOK
<1>3. BaseOK(b1) /\ e \in Callbacks
    BY <1>2 DEF Callbacks
<1> HIDE DEF b1
<1>4. BaseOK(event_callback_activate_nolock_(b1, e, me))
    BY <1>3, Activate
<1> QED BY <1>4 DEF event_active_finish, b1

\* event_active_nolock_ when it does not wait.
LEMMA ActiveNolock ==
    ASSUME NEW b, NEW e \in EventStructs, NEW timeout \in BOOLEAN, NEW n \in Nat, NEW me,
           BaseOK(b)
    PROVE  BaseOK(event_active_nolock_(b, e, timeout, n, me))
<1>1. BaseOK(event_active_enter(b, e, timeout))
    BY ActiveEnter
<1>2. BaseOK(event_active_finish(event_active_enter(b, e, timeout), e, n, me))
    BY <1>1, ActiveFinish
<1> QED BY <1>1, <1>2 DEF event_active_nolock_

\* Setting EVLIST_FINALIZING or a finalizer's closure.
LEMMA SetFinalizing ==
    ASSUME NEW b, NEW c \in Callbacks, BaseOK(b)
    PROVE  BaseOK([b EXCEPT !.flags[c] = @ \cup {"FINALIZING"}])
<1> DEFINE fl == [b.flags EXCEPT ![c] = @ \cup {"FINALIZING"}]
           r  == [b EXCEPT !.flags = fl]
<1>1. b \in event_base /\ b.flags \in [Callbacks -> SUBSET EVLIST]
    BY DEF BaseOK, event_base
<1>2. fl \in [Callbacks -> SUBSET EVLIST]
    BY <1>1 DEF EVLIST
<1>3. \A d \in Callbacks :
         /\ fl[d] \cap {"ACTIVE", "ACTIVE_LATER"}
                = b.flags[d] \cap {"ACTIVE", "ACTIVE_LATER"}
         /\ fl[d] \cap CountedFlags = b.flags[d] \cap CountedFlags
    BY <1>1 DEF CountedFlags
<1> HIDE DEF fl
<1>4. /\ r \in event_base /\ r.flags = fl /\ r.closure = b.closure
      /\ r.activequeues = b.activequeues /\ r.active_later_queue = b.active_later_queue
      /\ r.event_count = b.event_count /\ r.event_count_active = b.event_count_active
    BY <1>1, <1>2, Zenon DEF event_base
<1> HIDE DEF r
<1>5. BaseOK(r)
    BY <1>3, <1>4, SameQueues
<1> QED BY <1>5 DEF r, fl

\* Giving a callback a finalizer as its closure.
LEMMA SetFinalizer ==
    ASSUME NEW b, NEW c \in Callbacks, NEW closure \in Finalizers, BaseOK(b)
    PROVE  BaseOK([b EXCEPT !.closure[c] = closure])
<1> DEFINE cl == [b.closure EXCEPT ![c] = closure]
           r  == [b EXCEPT !.closure = cl]
<1>1. b \in event_base /\ b.closure \in [Callbacks -> Closures]
    BY DEF BaseOK, event_base
<1>2. cl \in [Callbacks -> Closures]
    BY <1>1 DEF Closures, Finalizers
<1>3. \A d \in Callbacks : cl[d] \in {b.closure[d]} \cup Finalizers
    BY <1>1
<1> HIDE DEF cl
<1>4. /\ r \in event_base /\ r.flags = b.flags /\ r.closure = cl
      /\ r.activequeues = b.activequeues /\ r.active_later_queue = b.active_later_queue
      /\ r.event_count = b.event_count /\ r.event_count_active = b.event_count_active
    BY <1>1, <1>2, Zenon DEF event_base
<1> HIDE DEF r
<1>5. BaseOK(r)
    BY <1>3, <1>4, SameQueues
<1> QED BY <1>5 DEF r, cl

\* event_finalize_nolock_ up to its wait.
LEMMA FinalizeEnter ==
    ASSUME NEW b, NEW e \in Events, NEW closure \in Finalizers, NEW ok, NEW hit, NEW me,
           BaseOK(b)
    PROVE  BaseOK(event_finalize_enter(b, e, closure, ok, hit, me))
<1> DEFINE b1 == IF Has(b, e, "FINALIZING") THEN b
                 ELSE event_del_nolock_(b, e, ok, hit, me)
           b2 == [b1 EXCEPT !.closure[e] = closure]
<1>1. e \in EventStructs /\ e \in Callbacks
    BY DEF EventStructs, Callbacks
<1>2. BaseOK(b1)
    BY <1>1, DelNolock
<1> HIDE DEF b1
<1>3. BaseOK(b2)
    BY <1>1, <1>2, SetFinalizer
<1> HIDE DEF b2
<1>4. BaseOK(event_active_enter(b2, e, FALSE))
    BY <1>1, <1>3, ActiveEnter, Zenon
<1> QED BY <1>3, <1>4, Zenon DEF event_finalize_enter, b1, b2

\* event_finalize_nolock_ past its wait.
LEMMA FinalizeFinish ==
    ASSUME NEW b, NEW e \in Events, NEW me, BaseOK(b)
    PROVE  BaseOK(event_finalize_finish(b, e, me))
<1>1. e \in EventStructs /\ e \in Callbacks
    BY DEF EventStructs, Callbacks
<1>2. BaseOK(event_active_finish(b, e, 1, me))
    BY <1>1, ActiveFinish
<1> QED BY <1>1, <1>2, SetFinalizing DEF event_finalize_finish

\* event_callback_cancel_nolock_ takes a callback off the queue it is on.
LEMMA CallbackCancel ==
    ASSUME NEW b, NEW c \in Callbacks, BaseOK(b)
    PROVE  BaseOK(event_callback_cancel_nolock_(b, c))
BY RemoveActive, RemoveActiveLater DEF event_callback_cancel_nolock_

\* event_callback_finalize_nolock_.
LEMMA CallbackFinalize ==
    ASSUME NEW b, NEW c \in Callbacks, NEW me, BaseOK(b)
    PROVE  BaseOK(event_callback_finalize_nolock_(b, c, me))
<1> DEFINE b0 == event_callback_cancel_nolock_(b, c)
           b1 == [b0 EXCEPT !.closure[c] = "CB_FINALIZE"]
<1>1. BaseOK(b0)
    BY CallbackCancel
<1> HIDE DEF b0
<1>2. BaseOK(b1)
    BY <1>1, SetFinalizer, Zenon DEF Finalizers
<1> HIDE DEF b1
<1>3. BaseOK(event_callback_activate_nolock_(b1, c, me))
    BY <1>2, Activate
<1> QED BY <1>3, SetFinalizing DEF event_callback_finalize_nolock_, b1, b0

\* The rescheduling of event_persist_closure.
LEMMA PersistClosure ==
    ASSUME NEW b, NEW e \in EventStructs, NEW ok, BaseOK(b), gettime \in Nat
    PROVE  BaseOK(event_persist_closure(b, e, ok))
<1> DEFINE from   == IF b.res_timeout[e] THEN b.ev_timeout[e] ELSE gettime
           at     == from + b.ev_io_timeout[e]
           run_at == IF at < gettime THEN gettime + b.ev_io_timeout[e] ELSE at
<1>1. b.ev_timeout[e] \in Nat /\ b.ev_io_timeout[e] \in Nat
    BY DEF BaseOK, event_base
<1>2. from \in Nat
    BY <1>1
<1> HIDE DEF from
<1>3. run_at \in Nat
    BY <1>1, <1>2
<1> HIDE DEF run_at
<1>4. BaseOK(event_add_nolock_(b, e, run_at, TRUE, ok, TRUE, th_owner_id))
    BY <1>3, AddNolock, Zenon
<1> QED BY <1>4, Zenon DEF event_persist_closure, run_at, from

\* One turn of the loop of event_signal_closure.
LEMMA SignalTurn ==
    ASSUME NEW b, NEW e, BaseOK(b), b.ncalls > 0
    PROVE  BaseOK(signal_turn(b, e))
<1> DEFINE pn == IF b.ncalls = 1 THEN "NULL" ELSE b.ev_pncalls[e]
           r  == signal_turn(b, e)
<1>1. r = [b EXCEPT !.ncalls = b.ncalls - 1, !.ev_ncalls[e] = b.ncalls - 1,
                    !.ev_pncalls[e] = pn]
    BY DEF signal_turn
<1>2. /\ b.ncalls - 1 \in Nat
      /\ e \in EventStructs => pn \in {"NULL", "live", "stale"}
    BY DEF BaseOK, event_base
<1> HIDE DEF pn, r
<1>3. r \in event_base
    <2> DEFINE nf == [b.ev_ncalls EXCEPT ![e] = b.ncalls - 1]
               pf == [b.ev_pncalls EXCEPT ![e] = pn]
               n  == b.ncalls - 1
    <2>1. /\ nf \in [EventStructs -> Nat] /\ n \in Nat
          /\ pf \in [EventStructs -> {"NULL", "live", "stale"}]
        <3>1. /\ b.ev_ncalls \in [EventStructs -> Nat]
              /\ b.ev_pncalls \in [EventStructs -> {"NULL", "live", "stale"}]
            BY DEF BaseOK, event_base
        <3> QED BY <1>2, <3>1, Zenon
    <2>2. r = [b EXCEPT !.ncalls = n, !.ev_ncalls = nf, !.ev_pncalls = pf]
        BY <1>1
    <2> HIDE DEF nf, pf, n
    <2> QED BY <2>1, <2>2, Zenon DEF BaseOK, event_base
<1>4. Assigned(b, r)
    BY <1>1 DEF BaseOK, event_base, Assigned
<1>5. BaseOK(r)
    BY <1>3, <1>4, AssignedOK
<1> QED BY <1>5 DEF r

\* event_signal_closure up to its first callback.
LEMMA SignalClosure ==
    ASSUME NEW b, NEW e \in EventStructs, BaseOK(b)
    PROVE  BaseOK(event_signal_closure(b, e))
<1> DEFINE z == [b EXCEPT !.ncalls = 0]
           r == [b EXCEPT !.ncalls = b.ev_ncalls[e], !.ev_pncalls[e] = "live"]
<1>1. b.ev_ncalls[e] \in Nat
    BY DEF BaseOK, event_base
<1>2. z \in event_base /\ Assigned(b, z)
    BY Zenon DEF BaseOK, event_base, Assigned
<1>3. r \in event_base /\ Assigned(b, r) /\ r.ncalls = b.ev_ncalls[e]
    BY <1>1, Zenon DEF BaseOK, event_base, Assigned
<1> HIDE DEF z, r
<1>4. BaseOK(z) /\ BaseOK(r)
    BY <1>2, <1>3, AssignedOK
<1>5. b.ev_ncalls[e] # 0 => BaseOK(signal_turn(r, e))
    BY <1>1, <1>3, <1>4, SignalTurn
<1> QED BY <1>4, <1>5 DEF event_signal_closure, z, r

\* The end of event_signal_closure.
LEMMA SignalReturns ==
    ASSUME NEW b, NEW e, BaseOK(b)
    PROVE  BaseOK(signal_closure_returns(b, e))
<1> DEFINE pn == IF event_break /\ b.ncalls # 0 THEN "NULL"
                 ELSE IF b.ev_pncalls[e] = "live" THEN "stale" ELSE b.ev_pncalls[e]
           r  == signal_closure_returns(b, e)
<1>1. r = [b EXCEPT !.ev_pncalls[e] = pn, !.ncalls = 0]
    BY DEF signal_closure_returns
<1>2. e \in EventStructs => pn \in {"NULL", "live", "stale"}
    BY DEF BaseOK, event_base
<1> HIDE DEF pn, r
<1>3. r \in event_base
    <2> DEFINE pf == [b.ev_pncalls EXCEPT ![e] = pn]
    <2>1. pf \in [EventStructs -> {"NULL", "live", "stale"}]
        BY <1>2, Zenon DEF BaseOK, event_base
    <2>2. r = [b EXCEPT !.ev_pncalls = pf, !.ncalls = 0]
        BY <1>1
    <2> HIDE DEF pf
    <2> QED BY <2>1, <2>2, Zenon DEF BaseOK, event_base
<1>4. Assigned(b, r)
    BY <1>1 DEF BaseOK, event_base, Assigned
<1>5. BaseOK(r)
    BY <1>3, <1>4, AssignedOK
<1> QED BY <1>5 DEF r

----------------------------------------------------------------------------
(* What the counters say.                                                  *)

\* The two counters are natural numbers, and positive when there is something
\* to count.
LEMMA CountsNat ==
    ASSUME NEW b, BaseOK(b)
    PROVE  /\ b.event_count \in Nat /\ b.event_count_active \in Nat
           /\ \A c \in Callbacks : IsActive(b, c) => b.event_count_active > 0
<1> DEFINE A == ActiveSet(b.flags)
           P == CountedPairs(b.flags)
<1>1. /\ b.flags \in [Callbacks -> SUBSET EVLIST]
      /\ b.event_count = Cardinality(P) /\ b.event_count_active = Cardinality(A)
    BY DEF BaseOK, event_base, CountsMatchFlags
<1>2. /\ IsFiniteSet(P) /\ Cardinality(P) \in Nat
      /\ IsFiniteSet(A) /\ Cardinality(A) \in Nat
    BY <1>1, CountedFinite, Zenon DEF BaseOK, Cardinalities
<1>3. \A c \in Callbacks : IsActive(b, c) => c \in A
    BY DEF IsActive, Has, ActiveSet
<1> HIDE DEF A, P
<1>4. A # {} => Cardinality(A) # 0
    BY <1>2, Zenon DEF BaseOK, Cardinalities
<1> QED BY <1>1, <1>2, <1>3, <1>4

\* A base with event_count 0 has no user event pending or active.
LEMMA EmptyFlags ==
    ASSUME NEW b, BaseOK(b), b.event_count = 0
    PROVE  \A c \in Callbacks \ Internal : b.flags[c] \subseteq {"FINALIZING"}
<1> DEFINE P == CountedPairs(b.flags)
<1>1. b.flags \in [Callbacks -> SUBSET EVLIST] /\ Cardinality(P) = 0
    BY DEF BaseOK, event_base, CountsMatchFlags
<1>2. IsFiniteSet(P)
    BY <1>1, CountedFinite DEF BaseOK
<1> HIDE DEF P
<1>3. P = {}
    BY <1>1, <1>2, Zenon DEF BaseOK, Cardinalities
<1>4. ASSUME NEW c \in Callbacks \ Internal, NEW f \in b.flags[c]
      PROVE  f = "FINALIZING"
    <2>1. CASE f \in CountedFlags
        <3>1. <<c, f>> \in P
            BY <2>1 DEF P, CountedPairs
        <3> QED BY <1>3, <3>1
    <2>2. CASE f \notin CountedFlags
        BY <1>1, <2>2 DEF EVLIST, CountedFlags
    <2> QED BY <2>1, <2>2
<1> QED BY <1>4

----------------------------------------------------------------------------
(* What the nolock functions do to the notification.                       *)

\* A notification that is pending is one the loop will read.
Told(b)   == b.is_notify_pending => b.notify_fd

\* There is something the loop should not sleep on.
Wanted(b) == b.event_count_active > 0 \/ b.event_continue

\* r differs from b in nothing that a sleeping loop would have to know.
Calm(b, r) ==
    /\ r.event_continue = b.event_continue
    /\ r.is_notify_pending = b.is_notify_pending /\ r.notify_fd = b.notify_fd
    /\ r.event_count_active > 0 => b.event_count_active > 0
    /\ \A e \in Timeouts(r) : e \in Timeouts(b) /\ r.ev_timeout[e] = b.ev_timeout[e]

\* Each timeout of r has been announced, or is no earlier than one of b.
NoEarlier(b, r) ==
    \A e \in Timeouts(r) : \E o \in Timeouts(b) : b.ev_timeout[o] <= r.ev_timeout[e]

\* What thread me does to b, giving r, is either calm or told to the loop.
Alerts(b, r, me) ==
    /\ Told(b) => Told(r)
    /\ b.notify_fd => r.notify_fd
    /\ EVBASE_NEED_NOTIFY(me) /\ event_running_priority = -1 /\ Told(b) =>
           r.notify_fd \/ ((Wanted(r) => Wanted(b)) /\ NoEarlier(b, r))

\* Times are numbers.
LEMMA TimesNat ==
    ASSUME NEW b, BaseOK(b)
    PROVE  /\ b.event_count_active \in Int /\ b.event_count \in Int
           /\ \A e \in EventStructs : b.ev_timeout[e] \in Nat
           /\ \A e \in Timeouts(b) : b.ev_timeout[e] \in Nat
           /\ b.event_continue \in BOOLEAN /\ b.notify_fd \in BOOLEAN
           /\ b.is_notify_pending \in BOOLEAN
BY DEF BaseOK, event_base, Timeouts

\* Calm changes compose with what follows them.
LEMMA CalmAlerts ==
    ASSUME NEW b, NEW r, NEW s, NEW me, BaseOK(b), BaseOK(r), Calm(b, r), Alerts(r, s, me)
    PROVE  Alerts(b, s, me)
BY TimesNat DEF Calm, Alerts, Told, Wanted, NoEarlier

\* A calm change alerts nobody and need not.
LEMMA CalmIsAlert ==
    ASSUME NEW b, NEW r, NEW me, BaseOK(b), BaseOK(r), Calm(b, r)
    PROVE  Alerts(b, r, me)
BY TimesNat DEF Calm, Alerts, Told, Wanted, NoEarlier

\* Alerts compose.
LEMMA AlertsTwice ==
    ASSUME NEW b, NEW r, NEW s, NEW me, BaseOK(b), BaseOK(r), BaseOK(s),
           Alerts(b, r, me), Alerts(r, s, me)
    PROVE  Alerts(b, s, me)
<1>1. ASSUME NoEarlier(b, r), NoEarlier(r, s) PROVE NoEarlier(b, s)
    BY <1>1, TimesNat DEF NoEarlier
<1> QED BY <1>1 DEF Alerts

\* Nothing changed.
LEMMA CalmSame ==
    ASSUME NEW b PROVE Calm(b, b)
BY DEF Calm

\* Calm changes compose.
LEMMA CalmTwice ==
    ASSUME NEW b, NEW r, NEW s, Calm(b, r), Calm(r, s) PROVE Calm(b, s)
BY DEF Calm

\* evthread_notify_base, when it is called for.
LEMMA NotifyAlerts ==
    ASSUME NEW b, NEW need, NEW me, BaseOK(b)
    PROVE  LET r == NotifyIf(b, need, me)
           IN  /\ Told(b) => Told(r)
               /\ b.notify_fd => r.notify_fd
               /\ need /\ EVBASE_NEED_NOTIFY(me) /\ Told(b) => r.notify_fd
               /\ r.event_continue = b.event_continue
               /\ r.ev_timeout = b.ev_timeout /\ Timeouts(r) = Timeouts(b)
               /\ r.event_count_active = b.event_count_active
               /\ r.event_count = b.event_count /\ r.flags = b.flags
               /\ r.virtual_event_count = b.virtual_event_count
<1> DEFINE r == [b EXCEPT !.is_notify_pending = TRUE, !.notify_fd = TRUE]
<1>1. /\ r.is_notify_pending = TRUE /\ r.notify_fd = TRUE
      /\ r.event_continue = b.event_continue /\ r.ev_timeout = b.ev_timeout
      /\ r.event_count_active = b.event_count_active /\ r.flags = b.flags
      /\ r.event_count = b.event_count /\ r.virtual_event_count = b.virtual_event_count
    BY DEF BaseOK, event_base
<1> HIDE DEF r
<1>2. Timeouts(r) = Timeouts(b)
    BY <1>1 DEF Timeouts, Has
<1> QED BY <1>1, <1>2, Zenon DEF NotifyIf, evthread_notify_base, Told, r

\* A function that calls the notification with need FALSE or TRUE alerts if
\* what it did before was calm or needed.
LEMMA NotifyAfterCalm ==
    ASSUME NEW b, NEW r, NEW need, NEW me, BaseOK(b), BaseOK(r), Calm(b, r)
    PROVE  Alerts(b, NotifyIf(r, need, me), me)
<1> DEFINE s == NotifyIf(r, need, me)
<1>1. Alerts(r, s, me)
    BY NotifyAlerts, TimesNat DEF Alerts, Wanted, NoEarlier
<1> QED BY <1>1, CalmAlerts

\* The notification was needed: nothing else matters.
LEMMA NotifyNeeded ==
    ASSUME NEW b, NEW r, NEW me, BaseOK(r),
           r.is_notify_pending = b.is_notify_pending, r.notify_fd = b.notify_fd
    PROVE  Alerts(b, NotifyIf(r, TRUE, me), me)
<1>1. Told(b) <=> Told(r)
    BY DEF Told
<1> QED BY <1>1, NotifyAlerts, Zenon DEF Alerts

----------------------------------------------------------------------------
(* The event_queue_ functions.                                             *)

\* Assignments to fields that no sleeping loop looks at.
Unseen(b, r) ==
    /\ r.event_continue = b.event_continue
    /\ r.is_notify_pending = b.is_notify_pending /\ r.notify_fd = b.notify_fd
    /\ r.virtual_event_count = b.virtual_event_count

\* Removing from a queue, or inserting into the event map, is calm.
LEMMA RemovesCalm ==
    ASSUME NEW b, NEW c \in Callbacks, BaseOK(b)
    PROVE  /\ Calm(b, event_queue_remove_timeout(b, c))
           /\ Calm(b, event_queue_remove_active(b, c))
           /\ Calm(b, event_queue_remove_active_later(b, c))
           /\ Calm(b, event_queue_remove_inserted(b, c))
           /\ Calm(b, event_queue_insert_inserted(b, c))
<1>1. /\ b \in event_base /\ b.event_count_active \in Int
      /\ b.flags \in [Callbacks -> SUBSET EVLIST]
    BY DEF BaseOK, event_base
<1>2. ASSUME NEW r, NEW S, r.flags = [b.flags EXCEPT ![c] = S],
             "TIMEOUT" \in S => "TIMEOUT" \in b.flags[c],
             r.ev_timeout = b.ev_timeout, Unseen(b, r),
             r.event_count_active \in {b.event_count_active, b.event_count_active - 1}
      PROVE  Calm(b, r)
    <2>1. Timeouts(r) \subseteq Timeouts(b)
        BY <1>1, <1>2 DEF Timeouts, Has, EventStructs, Callbacks
    <2>2. r.event_count_active > 0 => b.event_count_active > 0
        BY <1>1, <1>2
    <2> QED BY <1>2, <2>1, <2>2 DEF Calm, Unseen
<1>3. Calm(b, event_queue_remove_timeout(b, c))
    <2> DEFINE r == event_queue_remove_timeout(b, c)
    <2>1. /\ r.flags = [b.flags EXCEPT ![c] = b.flags[c] \ {"TIMEOUT"}]
          /\ r.ev_timeout = b.ev_timeout /\ Unseen(b, r)
          /\ r.event_count_active = b.event_count_active
        BY <1>1 DEF event_queue_remove_timeout, event_base, Unseen
    <2> HIDE DEF r
    <2> QED BY <1>2, <2>1 DEF r
<1>4. Calm(b, event_queue_remove_active(b, c))
    <2> DEFINE r == event_queue_remove_active(b, c)
    <2>1. /\ r.flags = [b.flags EXCEPT ![c] = b.flags[c] \ {"ACTIVE"}]
          /\ r.ev_timeout = b.ev_timeout /\ Unseen(b, r)
          /\ r.event_count_active = b.event_count_active - 1
        BY <1>1 DEF event_queue_remove_active, event_base, Unseen
    <2> HIDE DEF r
    <2> QED BY <1>2, <2>1 DEF r
<1>5. Calm(b, event_queue_remove_active_later(b, c))
    <2> DEFINE r == event_queue_remove_active_later(b, c)
    <2>1. /\ r.flags = [b.flags EXCEPT ![c] = b.flags[c] \ {"ACTIVE_LATER"}]
          /\ r.ev_timeout = b.ev_timeout /\ Unseen(b, r)
          /\ r.event_count_active = b.event_count_active - 1
        BY <1>1 DEF event_queue_remove_active_later, event_base, Unseen
    <2> HIDE DEF r
    <2> QED BY <1>2, <2>1 DEF r
<1>6. Calm(b, event_queue_remove_inserted(b, c))
    <2> DEFINE r == event_queue_remove_inserted(b, c)
    <2>1. /\ r.flags = [b.flags EXCEPT ![c] = b.flags[c] \ {"INSERTED"}]
          /\ r.ev_timeout = b.ev_timeout /\ Unseen(b, r)
          /\ r.event_count_active = b.event_count_active
        BY <1>1 DEF event_queue_remove_inserted, event_base, Unseen
    <2> HIDE DEF r
    <2> QED BY <1>2, <2>1 DEF r
<1>7. Calm(b, event_queue_insert_inserted(b, c))
    <2> DEFINE r == event_queue_insert_inserted(b, c)
    <2>1. /\ r.flags = [b.flags EXCEPT ![c] = b.flags[c] \cup {"INSERTED"}]
          /\ r.ev_timeout = b.ev_timeout /\ Unseen(b, r)
          /\ r.event_count_active = b.event_count_active
        BY <1>1 DEF event_queue_insert_inserted, event_base, Unseen
    <2> HIDE DEF r
    <2> QED BY <1>2, <2>1 DEF r
<1> QED BY <1>3, <1>4, <1>5, <1>6, <1>7

\* So is adding ev_signal, and what a signal closure or its end assigns.
LEMMA SignalsCalm ==
    ASSUME NEW b, BaseOK(b)
    PROVE  /\ \A e : Calm(b, evmap_signal_add_(b, e))
           /\ \A e, hit : Calm(b, abort_signal_loop(b, e, hit))
<1>1. /\ b \in event_base /\ b.event_count_active \in Int
      /\ b.flags \in [Callbacks -> SUBSET EVLIST]
    BY DEF BaseOK, event_base
<1>2. ASSUME NEW e PROVE Calm(b, evmap_signal_add_(b, e))
    <2> DEFINE r == [b EXCEPT !.flags[ev_signal] = @ \cup {"INSERTED"}]
    <2>1. /\ r.flags = [b.flags EXCEPT ![ev_signal] = b.flags[ev_signal] \cup {"INSERTED"}]
          /\ r.ev_timeout = b.ev_timeout /\ Unseen(b, r)
          /\ r.event_count_active = b.event_count_active
        BY <1>1 DEF event_base, Unseen
    <2> HIDE DEF r
    <2>2. Timeouts(r) \subseteq Timeouts(b)
        BY <1>1, <2>1 DEF Timeouts, Has, EventStructs, Callbacks
    <2>3. Calm(b, r)
        BY <2>1, <2>2 DEF Calm, Unseen
    <2> QED BY <2>3, CalmSame DEF evmap_signal_add_, r
<1>3. ASSUME NEW e, NEW hit PROVE Calm(b, abort_signal_loop(b, e, hit))
    <2> DEFINE r == [b EXCEPT !.ncalls = 0]
    <2>1. /\ r.flags = b.flags /\ r.ev_timeout = b.ev_timeout /\ Unseen(b, r)
          /\ r.event_count_active = b.event_count_active
        BY <1>1 DEF event_base, Unseen
    <2> HIDE DEF r
    <2>2. Calm(b, r)
        BY <2>1 DEF Calm, Unseen, Timeouts, Has
    <2> QED BY <2>2, CalmSame DEF abort_signal_loop, r
<1> QED BY <1>2, <1>3

----------------------------------------------------------------------------
(* The nolock functions.                                                   *)

\* event_del_nolock_ only takes away, and tells the loop of a descriptor.
LEMMA DelAlerts ==
    ASSUME NEW b, NEW e \in EventStructs, NEW ok, NEW hit, NEW me, BaseOK(b)
    PROVE  Alerts(b, event_del_nolock_(b, e, ok, hit, me), me)
<1> DEFINE b1 == abort_signal_loop(b, e, hit)
           b2 == IF Has(b1, e, "TIMEOUT") THEN event_queue_remove_timeout(b1, e) ELSE b1
           b3 == IF Has(b2, e, "ACTIVE") THEN event_queue_remove_active(b2, e)
                 ELSE IF Has(b2, e, "ACTIVE_LATER")
                      THEN event_queue_remove_active_later(b2, e) ELSE b2
           b4 == IF Has(b3, e, "INSERTED") THEN event_queue_remove_inserted(b3, e) ELSE b3
           need == Has(b3, e, "INSERTED") /\ ok /\ evmap_changes(b3, e)
<1>1. e \in Callbacks
    BY DEF Callbacks
<1>2. BaseOK(b1) /\ Calm(b, b1)
    BY AbortSignalLoop, SignalsCalm
<1> HIDE DEF b1
<1>3. BaseOK(b2) /\ Calm(b1, b2)
    BY <1>1, <1>2, RemoveTimeout, RemovesCalm, CalmSame
<1> HIDE DEF b2
<1>4. BaseOK(b3) /\ Calm(b2, b3)
    BY <1>1, <1>3, RemoveActive, RemoveActiveLater, RemovesCalm, CalmSame
<1> HIDE DEF b3
<1>5. BaseOK(b4) /\ Calm(b3, b4)
    BY <1>1, <1>4, RemoveInserted, RemovesCalm, CalmSame
<1> HIDE DEF b4
<1>6. Calm(b, b4)
    BY <1>2, <1>3, <1>4, <1>5, CalmTwice
<1>7. Alerts(b, NotifyIf(b4, need, me), me)
    BY <1>5, <1>6, NotifyAfterCalm
<1> QED BY <1>7, Zenon DEF event_del_nolock_, b1, b2, b3, b4

\* What the second half of event_add_nolock_ changes besides e's timeout.
LEMMA AddTimeoutCalm ==
    ASSUME NEW b, NEW e \in EventStructs, NEW tv_ \in Nat, NEW absolute \in BOOLEAN,
           NEW hit, BaseOK(b), gettime \in Nat
    PROVE  LET r == event_add_timeout(b, e, tv_, absolute, hit)
           IN  /\ r.event_continue = b.event_continue
               /\ r.is_notify_pending = b.is_notify_pending /\ r.notify_fd = b.notify_fd
               /\ r.event_count_active > 0 => b.event_count_active > 0
               /\ e \in Timeouts(r)
               /\ \A o \in Timeouts(r) \ {e} :
                     o \in Timeouts(b) /\ r.ev_timeout[o] = b.ev_timeout[o]
<1> DEFINE b1 == IF b.closure[e] = "EVENT_PERSIST" /\ ~absolute
                 THEN [b EXCEPT !.ev_io_timeout[e] = tv_] ELSE b
           b2 == IF Has(b1, e, "TIMEOUT") THEN event_queue_remove_timeout(b1, e) ELSE b1
           a  == abort_signal_loop(b2, e, hit)
           b3 == IF Has(b2, e, "ACTIVE") /\ b2.res_timeout[e]
                 THEN event_queue_remove_active(a, e) ELSE b2
           at == IF absolute THEN tv_ ELSE gettime + tv_
           b4 == [b3 EXCEPT !.ev_timeout[e] = at]
           b5 == event_queue_insert_timeout(b4, e)
<1>1. e \in Callbacks
    BY DEF Callbacks
<1>2. BaseOK(b1) /\ Calm(b, b1)
    <2> DEFINE r == [b EXCEPT !.ev_io_timeout[e] = tv_]
    <2>1. r \in event_base /\ Assigned(b, r)
        BY Zenon DEF BaseOK, event_base, Assigned
    <2>2. BaseOK(r)
        BY <2>1, AssignedOK
    <2>3. /\ r.flags = b.flags /\ r.ev_timeout = b.ev_timeout /\ Unseen(b, r)
          /\ r.event_count_active = b.event_count_active
        BY DEF BaseOK, event_base, Unseen
    <2> HIDE DEF r
    <2>4. Calm(b, r)
        BY <2>3 DEF Calm, Unseen, Timeouts, Has
    <2> QED BY <2>2, <2>4, CalmSame DEF r
<1> HIDE DEF b1
<1>3. BaseOK(b2) /\ Calm(b1, b2)
    BY <1>1, <1>2, RemoveTimeout, RemovesCalm, CalmSame
<1> HIDE DEF b2
<1>4. BaseOK(a) /\ Assigned(b2, a) /\ Calm(b2, a)
    BY <1>3, AbortSignalLoop, SignalsCalm
<1> HIDE DEF a
<1>5. BaseOK(b3) /\ Calm(b2, b3)
    <2>1. CASE Has(b2, e, "ACTIVE") /\ b2.res_timeout[e]
        <3>1. Has(a, e, "ACTIVE")
            BY <1>4, <2>1 DEF Assigned, Has
        <3>2. BaseOK(event_queue_remove_active(a, e)) /\ Calm(a, event_queue_remove_active(a, e))
            BY <1>1, <1>4, <3>1, RemoveActive, RemovesCalm
        <3>3. Calm(b2, event_queue_remove_active(a, e))
            BY <1>4, <3>2, CalmTwice
        <3> QED BY <2>1, <3>2, <3>3
    <2>2. CASE ~(Has(b2, e, "ACTIVE") /\ b2.res_timeout[e])
        BY <1>3, <2>2, CalmSame
    <2> QED BY <2>1, <2>2
<1> HIDE DEF b3
<1>6. Calm(b, b3)
    BY <1>2, <1>3, <1>5, CalmTwice
<1>7. /\ b4.flags = b3.flags /\ Unseen(b3, b4)
      /\ b4.ev_timeout = [b3.ev_timeout EXCEPT ![e] = at]
      /\ b4.event_count_active = b3.event_count_active
      /\ b4.event_count = b3.event_count
      /\ b4 \in event_base
    <2>1. at \in Nat
        OBVIOUS
    <2> HIDE DEF at
    <2>2. b4 \in event_base
        BY <1>5, <2>1, Zenon DEF BaseOK, event_base
    <2> QED BY <1>5, <2>2, Zenon DEF BaseOK, event_base, Unseen
<1> HIDE DEF b4, at
<1>8. /\ b5.flags = [b4.flags EXCEPT ![e] = b4.flags[e] \cup {"TIMEOUT"}]
      /\ b5.ev_timeout = b4.ev_timeout /\ Unseen(b4, b5)
      /\ b5.event_count_active = b4.event_count_active
    BY <1>7 DEF event_queue_insert_timeout, event_base, Unseen
<1>9. b5 = event_add_timeout(b, e, tv_, absolute, hit)
    BY Zenon DEF event_add_timeout, b1, b2, a, b3, at, b4
<1> HIDE DEF b5
<1>10. b3.flags \in [Callbacks -> SUBSET EVLIST] /\ b3.ev_timeout \in [EventStructs -> Nat]
    BY <1>5, SMTT(30) DEF BaseOK, event_base
<1>11. /\ e \in Timeouts(b5)
       /\ \A o \in Timeouts(b5) \ {e} :
             o \in Timeouts(b3) /\ b5.ev_timeout[o] = b3.ev_timeout[o]
    BY <1>1, <1>7, <1>8, <1>10 DEF Timeouts, Has
<1> QED BY <1>6, <1>7, <1>8, <1>9, <1>11, Zenon DEF Calm, Unseen

\* event_add_nolock_ tells the loop of a new earliest timeout.
LEMMA AddAlerts ==
    ASSUME NEW b, NEW e \in EventStructs, NEW tv_ \in Nat \cup {NoTV},
           NEW absolute \in BOOLEAN, NEW ok, NEW hit, NEW me,
           BaseOK(b), gettime \in Nat
    PROVE  Alerts(b, event_add_nolock_(b, e, tv_, absolute, ok, hit, me), me)
<1> DEFINE insert == e \notin TimerEvents /\ ~Has(b, e, "INSERTED") /\ ~IsActive(b, e)
           timed  == tv_ # NoTV /\ (insert => ok)
           s  == evmap_signal_add_(b, e)
           b1 == IF insert /\ ok THEN event_queue_insert_inserted(s, e) ELSE b
           b2 == IF timed THEN event_add_timeout(b1, e, tv_, absolute, hit) ELSE b1
           earliest == \/ min_heap_elt_is_top_(b2, e)
                       \/ \E o \in Timeouts(b2) : b2.ev_timeout[o] < gettime
           need == (insert /\ ok /\ evmap_changes(b, e)) \/ (timed /\ earliest)
<1>1. BaseOK(s) /\ s.flags[e] = b.flags[e] /\ Calm(b, s) /\ e \in Callbacks
    <2>1. CASE e \in SignalEvents
        BY <2>1, SignalAdd, SignalsCalm DEF Callbacks
    <2>2. CASE e \notin SignalEvents
        BY <2>2, CalmSame DEF evmap_signal_add_, Callbacks
    <2> QED BY <2>1, <2>2
<1> HIDE DEF s
<1>2. BaseOK(b1) /\ Calm(b, b1)
    <2>1. CASE insert /\ ok
        <3>1. ~Has(s, e, "INSERTED")
            BY <1>1, <2>1 DEF Has
        <3>2. BaseOK(b1) /\ Calm(s, b1)
            BY <1>1, <2>1, <3>1, InsertInserted, RemovesCalm
        <3> QED BY <1>1, <3>2, CalmTwice
    <2>2. CASE ~(insert /\ ok)
        BY <2>2, CalmSame
    <2> QED BY <2>1, <2>2
<1> HIDE DEF b1
<1>3. Alerts(b1, NotifyIf(b2, need, me), me)
    <2>1. CASE ~timed
        BY <1>2, <2>1, NotifyAfterCalm, CalmSame
    <2>2. CASE timed
        <3>1. tv_ \in Nat
            BY <2>2
        <3>2. /\ b2.event_continue = b1.event_continue
              /\ b2.is_notify_pending = b1.is_notify_pending /\ b2.notify_fd = b1.notify_fd
              /\ b2.event_count_active > 0 => b1.event_count_active > 0
              /\ e \in Timeouts(b2)
              /\ \A o \in Timeouts(b2) \ {e} :
                    o \in Timeouts(b1) /\ b2.ev_timeout[o] = b1.ev_timeout[o]
            BY <1>2, <2>2, <3>1, AddTimeoutCalm
        <3>3. BaseOK(b2)
            BY <1>2, <2>2, <3>1, AddTimeout
        <3> HIDE DEF b2
        <3>4. CASE need
            <4>1. need = TRUE
                BY <3>4
            <4> HIDE DEF need
            <4>2. Alerts(b1, NotifyIf(b2, TRUE, me), me)
                BY <3>2, <3>3, NotifyNeeded, Zenon
            <4> QED BY <4>1, <4>2, Zenon
        <3>5. CASE ~need
            <4>1. ~min_heap_elt_is_top_(b2, e)
                BY <2>2, <3>5
            <4>2. PICK o \in Timeouts(b2) \ {e} : ~(b2.ev_timeout[e] < b2.ev_timeout[o])
                BY <4>1 DEF min_heap_elt_is_top_
            <4>3. o \in Timeouts(b1) /\ b1.ev_timeout[o] <= b2.ev_timeout[e]
                BY <1>2, <3>2, <3>3, <4>2, TimesNat
            <4>4. NoEarlier(b1, b2)
                <5> SUFFICES ASSUME NEW x \in Timeouts(b2)
                             PROVE  \E y \in Timeouts(b1) : b1.ev_timeout[y] <= b2.ev_timeout[x]
                    BY DEF NoEarlier
                <5>1. CASE x = e
                    BY <4>3, <5>1
                <5>2. CASE x # e
                    <6>1. x \in Timeouts(b1) /\ b2.ev_timeout[x] = b1.ev_timeout[x]
                        BY <3>2, <5>2
                    <6> QED BY <1>2, <6>1, TimesNat
                <5> QED BY <5>1, <5>2
            <4>5. NotifyIf(b2, need, me) = b2
                BY <3>5 DEF NotifyIf
            <4> QED BY <3>2, <4>4, <4>5 DEF Alerts, Told, Wanted
        <3> QED BY <3>4, <3>5
    <2> QED BY <2>1, <2>2
<1>4. Alerts(b, NotifyIf(b2, need, me), me)
    BY <1>2, <1>3, CalmAlerts
<1> QED BY <1>4, Zenon DEF event_add_nolock_, b2, b1, s

\* Putting a callback on a queue leaves the notification to what follows.
LEMMA InsertsUnseen ==
    ASSUME NEW b, NEW c \in Callbacks, BaseOK(b)
    PROVE  /\ Unseen(b, event_queue_insert_active(b, c))
           /\ Unseen(b, event_queue_insert_active_later(b, c))
           /\ Unseen(b, event_queue_remove_active_later(b, c))
BY DEF BaseOK, event_base, Unseen, event_queue_insert_active, event_queue_insert_active_later,
       event_queue_remove_active_later

\* event_callback_activate_nolock_ tells the loop whenever it does anything.
LEMMA ActivateAlerts ==
    ASSUME NEW b, NEW c \in Callbacks, NEW me, BaseOK(b)
    PROVE  Alerts(b, event_callback_activate_nolock_(b, c, me), me)
<1> DEFINE b1 == IF Has(b, c, "ACTIVE_LATER")
                 THEN event_queue_remove_active_later(b, c) ELSE b
           b2 == event_queue_insert_active(b1, c)
<1>1. CASE Has(b, c, "FINALIZING") \/ Has(b, c, "ACTIVE")
    <2>1. event_callback_activate_nolock_(b, c, me) = b
        BY <1>1, Zenon DEF event_callback_activate_nolock_
    <2> QED BY <2>1, CalmIsAlert, CalmSame
<1>2. CASE ~(Has(b, c, "FINALIZING") \/ Has(b, c, "ACTIVE"))
    <2>1. BaseOK(b1) /\ ~IsActive(b1, c) /\ Unseen(b, b1)
        <3>1. CASE Has(b, c, "ACTIVE_LATER")
            <4>1. BaseOK(event_queue_remove_active_later(b, c))
                BY <3>1, RemoveActiveLater
            <4>2. ~IsActive(event_queue_remove_active_later(b, c), c)
                BY <1>2 DEF BaseOK, event_base, event_queue_remove_active_later, IsActive, Has
            <4> QED BY <3>1, <4>1, <4>2, InsertsUnseen
        <3>2. CASE ~Has(b, c, "ACTIVE_LATER")
            BY <1>2, <3>2 DEF IsActive, Unseen
        <3> QED BY <3>1, <3>2
    <2> HIDE DEF b1
    <2>2. BaseOK(b2) /\ Unseen(b1, b2)
        BY <2>1, InsertActive, InsertsUnseen
    <2> HIDE DEF b2
    <2>3. Alerts(b, NotifyIf(b2, TRUE, me), me)
        BY <2>1, <2>2, NotifyNeeded, Zenon DEF Unseen
    <2> QED BY <1>2, <2>3, Zenon DEF event_callback_activate_nolock_, b1, b2
<1> QED BY <1>1, <1>2

\* So does event_callback_activate_later_nolock_.
LEMMA LaterAlerts ==
    ASSUME NEW b, NEW c \in Callbacks, NEW me, BaseOK(b)
    PROVE  Alerts(b, event_callback_activate_later_nolock_(b, c, me), me)
<1>1. CASE IsActive(b, c)
    <2>1. event_callback_activate_later_nolock_(b, c, me) = b
        BY <1>1 DEF event_callback_activate_later_nolock_
    <2> QED BY <2>1, CalmIsAlert, CalmSame
<1>2. CASE ~IsActive(b, c)
    <2> DEFINE r == event_queue_insert_active_later(b, c)
    <2>1. BaseOK(r) /\ Unseen(b, r)
        BY <1>2, InsertActiveLater, InsertsUnseen
    <2> HIDE DEF r
    <2>2. Alerts(b, NotifyIf(r, TRUE, me), me)
        BY <2>1, NotifyNeeded, Zenon DEF Unseen
    <2> QED BY <1>2, <2>2, Zenon DEF event_callback_activate_later_nolock_, r
<1> QED BY <1>1, <1>2

\* event_active_nolock_ up to its wait: while the loop sleeps no queue is
\* running, so event_continue is not asked for.
LEMMA EnterAlerts ==
    ASSUME NEW b, NEW e \in EventStructs, NEW timeout \in BOOLEAN, NEW me, BaseOK(b)
    PROVE  Alerts(b, event_active_enter(b, e, timeout), me)
<1> DEFINE ct == \/ b.event_continue
                 \/ /\ ~Has(b, e, "ACTIVE")
                    /\ evcb_pri[e] < event_running_priority
           r  == event_active_enter(b, e, timeout)
<1>1. /\ r.is_notify_pending = b.is_notify_pending /\ r.notify_fd = b.notify_fd
      /\ r.flags = b.flags /\ r.ev_timeout = b.ev_timeout
      /\ r.event_count_active = b.event_count_active /\ r.event_continue = ct
    BY DEF BaseOK, event_base, event_active_enter
<1>2. event_running_priority = -1 => ct = b.event_continue
    <2>1. evcb_pri[e] \in Nat
        BY PrioritiesAssumption DEF Priorities, Callbacks
    <2>2. event_running_priority = -1 => ~(evcb_pri[e] < event_running_priority)
        BY <2>1
    <2>3. b.event_continue \in BOOLEAN
        BY TimesNat
    <2> QED BY <2>2, <2>3, Zenon
<1> HIDE DEF r, ct
<1>3. event_running_priority = -1 => Calm(b, r)
    BY <1>1, <1>2 DEF Calm, Timeouts, Has
<1>4. BaseOK(r)
    BY ActiveEnter DEF r
<1>5. CASE event_running_priority = -1
    BY <1>3, <1>4, <1>5, CalmIsAlert DEF r
<1>6. CASE event_running_priority # -1
    BY <1>1, <1>6 DEF Alerts, Told, r
<1> QED BY <1>5, <1>6

\* event_active_nolock_ past its wait.
LEMMA FinishAlerts ==
    ASSUME NEW b, NEW e \in EventStructs, NEW n \in Nat, NEW me, BaseOK(b)
    PROVE  Alerts(b, event_active_finish(b, e, n, me), me)
<1> DEFINE r  == [b EXCEPT !.ev_ncalls[e] = n, !.ev_pncalls[e] = "NULL"]
           b1 == IF e \in SignalEvents THEN r ELSE b
<1>1. r \in event_base /\ Assigned(b, r)
    BY Zenon DEF BaseOK, event_base, Assigned
<1>2. BaseOK(r)
    BY <1>1, AssignedOK
<1>3. /\ r.flags = b.flags /\ r.ev_timeout = b.ev_timeout /\ Unseen(b, r)
      /\ r.event_count_active = b.event_count_active
    BY DEF BaseOK, event_base, Unseen
<1> HIDE DEF r
<1>4. BaseOK(b1) /\ e \in Callbacks /\ Calm(b, b1)
    <2>1. Calm(b, r)
        BY <1>3 DEF Calm, Unseen, Timeouts, Has
    <2> QED BY <1>2, <2>1, CalmSame DEF Callbacks
<1> HIDE DEF b1
<1>5. Alerts(b1, event_callback_activate_nolock_(b1, e, me), me)
    BY <1>4, ActivateAlerts
<1>6. Alerts(b, event_callback_activate_nolock_(b1, e, me), me)
    BY <1>4, <1>5, CalmAlerts
<1> QED BY <1>6, Zenon DEF event_active_finish, b1, r

\* event_active_nolock_.
LEMMA ActiveAlerts ==
    ASSUME NEW b, NEW e \in EventStructs, NEW timeout \in BOOLEAN, NEW n \in Nat, NEW me,
           BaseOK(b)
    PROVE  Alerts(b, event_active_nolock_(b, e, timeout, n, me), me)
<1> DEFINE r == event_active_enter(b, e, timeout)
           f == event_active_finish(r, e, n, me)
<1>1. BaseOK(r) /\ Alerts(b, r, me)
    BY ActiveEnter, EnterAlerts
<1> HIDE DEF r
<1>2. BaseOK(f) /\ Alerts(r, f, me)
    BY <1>1, ActiveFinish, FinishAlerts
<1> HIDE DEF f
<1>3. Alerts(b, f, me) /\ Alerts(b, b, me)
    BY <1>1, <1>2, AlertsTwice, CalmIsAlert, CalmSame
<1> QED BY <1>1, <1>3, Zenon DEF event_active_nolock_, r, f

\* Marking a callback as finalizing, or changing its closure, is calm.
LEMMA MarksCalm ==
    ASSUME NEW b, NEW c \in Callbacks, BaseOK(b)
    PROVE  /\ Calm(b, [b EXCEPT !.flags[c] = @ \cup {"FINALIZING"}])
           /\ \A cl : Calm(b, [b EXCEPT !.closure[c] = cl])
<1> DEFINE r == [b EXCEPT !.flags[c] = @ \cup {"FINALIZING"}]
<1>1. b.flags \in [Callbacks -> SUBSET EVLIST]
    BY DEF BaseOK, event_base
<1>2. /\ r.flags = [b.flags EXCEPT ![c] = b.flags[c] \cup {"FINALIZING"}]
      /\ r.ev_timeout = b.ev_timeout /\ Unseen(b, r)
      /\ r.event_count_active = b.event_count_active
    BY DEF BaseOK, event_base, Unseen
<1> HIDE DEF r
<1>3. Timeouts(r) \subseteq Timeouts(b)
    BY <1>1, <1>2 DEF Timeouts, Has, EventStructs, Callbacks
<1>4. Calm(b, r)
    BY <1>2, <1>3 DEF Calm, Unseen
<1>5. ASSUME NEW cl PROVE Calm(b, [b EXCEPT !.closure[c] = cl])
    <2> DEFINE s == [b EXCEPT !.closure[c] = cl]
    <2>1. /\ s.flags = b.flags /\ s.ev_timeout = b.ev_timeout /\ Unseen(b, s)
          /\ s.event_count_active = b.event_count_active
        BY DEF BaseOK, event_base, Unseen
    <2> HIDE DEF s
    <2>2. Calm(b, s)
        BY <2>1 DEF Calm, Unseen, Timeouts, Has
    <2> QED BY <2>2 DEF s
<1> QED BY <1>4, <1>5 DEF r

\* event_finalize_nolock_ up to its wait.
LEMMA FinalizeEnterAlerts ==
    ASSUME NEW b, NEW e \in Events, NEW closure \in Finalizers, NEW ok, NEW hit, NEW me,
           BaseOK(b)
    PROVE  Alerts(b, event_finalize_enter(b, e, closure, ok, hit, me), me)
<1> DEFINE b1 == IF Has(b, e, "FINALIZING") THEN b
                 ELSE event_del_nolock_(b, e, ok, hit, me)
           b2 == [b1 EXCEPT !.closure[e] = closure]
           b3 == event_active_enter(b2, e, FALSE)
<1>1. e \in EventStructs /\ e \in Callbacks
    BY DEF EventStructs, Callbacks
<1>2. BaseOK(b1) /\ Alerts(b, b1, me)
    BY <1>1, DelNolock, DelAlerts, CalmIsAlert, CalmSame
<1> HIDE DEF b1
<1>3. BaseOK(b2) /\ Calm(b1, b2)
    BY <1>1, <1>2, SetFinalizer, MarksCalm, Zenon
<1> HIDE DEF b2
<1>4. BaseOK(b3) /\ Alerts(b2, b3, me)
    BY <1>1, <1>3, ActiveEnter, EnterAlerts, Zenon
<1> HIDE DEF b3
<1>5. Alerts(b, b2, me) /\ Alerts(b, b3, me)
    BY <1>2, <1>3, <1>4, CalmIsAlert, AlertsTwice
<1> QED BY <1>5, Zenon DEF event_finalize_enter, b1, b2, b3

\* event_finalize_nolock_ past its wait.
LEMMA FinalizeFinishAlerts ==
    ASSUME NEW b, NEW e \in Events, NEW me, BaseOK(b)
    PROVE  Alerts(b, event_finalize_finish(b, e, me), me)
<1> DEFINE b1 == event_active_finish(b, e, 1, me)
           b2 == [b1 EXCEPT !.flags[e] = @ \cup {"FINALIZING"}]
<1>1. e \in EventStructs /\ e \in Callbacks
    BY DEF EventStructs, Callbacks
<1>2. BaseOK(b1) /\ Alerts(b, b1, me)
    BY <1>1, ActiveFinish, FinishAlerts
<1> HIDE DEF b1
<1>3. BaseOK(b2) /\ Calm(b1, b2)
    BY <1>1, <1>2, SetFinalizing, MarksCalm
<1> HIDE DEF b2
<1>4. Alerts(b, b2, me)
    BY <1>2, <1>3, CalmIsAlert, AlertsTwice
<1> QED BY <1>4, Zenon DEF event_finalize_finish, b1, b2

\* event_callback_cancel_nolock_ only takes from queues.
LEMMA CancelCalm ==
    ASSUME NEW b, NEW c \in Callbacks, BaseOK(b)
    PROVE  Calm(b, event_callback_cancel_nolock_(b, c))
BY RemovesCalm, CalmSame DEF event_callback_cancel_nolock_

\* event_callback_finalize_nolock_.
LEMMA CallbackFinalizeAlerts ==
    ASSUME NEW b, NEW c \in Callbacks, NEW me, BaseOK(b)
    PROVE  Alerts(b, event_callback_finalize_nolock_(b, c, me), me)
<1> DEFINE b0 == event_callback_cancel_nolock_(b, c)
           b1 == [b0 EXCEPT !.closure[c] = "CB_FINALIZE"]
           b2 == event_callback_activate_nolock_(b1, c, me)
           b3 == [b2 EXCEPT !.flags[c] = @ \cup {"FINALIZING"}]
<1>1. BaseOK(b0) /\ Calm(b, b0)
    BY CallbackCancel, CancelCalm
<1> HIDE DEF b0
<1>2. BaseOK(b1) /\ Calm(b0, b1)
    <2>1. BaseOK(b1)
        BY <1>1, SetFinalizer, Zenon DEF Finalizers
    <2>2. Calm(b0, b1)
        BY <1>1, MarksCalm, Zenon
    <2> QED BY <2>1, <2>2
<1> HIDE DEF b1
<1>3. BaseOK(b2) /\ Alerts(b1, b2, me)
    BY <1>2, Activate, ActivateAlerts
<1> HIDE DEF b2
<1>4. BaseOK(b3) /\ Calm(b2, b3)
    BY <1>3, SetFinalizing, MarksCalm, Zenon
<1> HIDE DEF b3
<1>5. Alerts(b1, b3, me)
    BY <1>2, <1>3, <1>4, CalmIsAlert, AlertsTwice
<1>6. Alerts(b, b3, me)
    BY <1>1, <1>2, <1>5, CalmTwice, CalmAlerts
<1> QED BY <1>6, Zenon DEF event_callback_finalize_nolock_, b0, b1, b2, b3

\* The rescheduling of event_persist_closure.
LEMMA PersistAlerts ==
    ASSUME NEW b, NEW e \in EventStructs, NEW ok, BaseOK(b), gettime \in Nat
    PROVE  Alerts(b, event_persist_closure(b, e, ok), th_owner_id)
<1> DEFINE from   == IF b.res_timeout[e] THEN b.ev_timeout[e] ELSE gettime
           at     == from + b.ev_io_timeout[e]
           run_at == IF at < gettime THEN gettime + b.ev_io_timeout[e] ELSE at
<1>1. b.ev_timeout[e] \in Nat /\ b.ev_io_timeout[e] \in Nat
    BY DEF BaseOK, event_base
<1>2. from \in Nat
    BY <1>1
<1> HIDE DEF from
<1>3. run_at \in Nat
    BY <1>1, <1>2
<1> HIDE DEF run_at
<1>4. Alerts(b, event_add_nolock_(b, e, run_at, TRUE, ok, TRUE, th_owner_id), th_owner_id)
    BY <1>3, AddAlerts, Zenon
<1>5. Alerts(b, b, th_owner_id)
    BY CalmSame, CalmIsAlert
<1> QED BY <1>4, <1>5, Zenon DEF event_persist_closure, run_at, from

----------------------------------------------------------------------------
(* What the nolock functions leave to wait for.                            *)

Empty(b) == ~event_haveevents(b) /\ N_ACTIVE_CALLBACKS(b) = 0

\* Nothing that was there to wait for is gone.
Grows(b, r) == Empty(r) => Empty(b)

\* What a function that can empty the base owes to a sleeping loop: unless the
\* loop is to wake anyway, for a timeout or for something active, it is told.
Leaves(b, r, me) ==
    EVBASE_NEED_NOTIFY(me) /\ Told(b) /\ Empty(r) =>
        Empty(b) \/ r.notify_fd \/ Wanted(b) \/ Timeouts(b) # {}

\* What Empty looks at.
LEMMA EmptyFields ==
    ASSUME NEW b, BaseOK(b)
    PROVE  /\ b.virtual_event_count \in Nat
           /\ Empty(b) <=> /\ b.virtual_event_count = 0 /\ b.event_count = 0
                           /\ b.event_count_active = 0
<1>1. b.virtual_event_count \in Nat /\ b.event_count \in Nat
    BY CountsNat, Zenon DEF BaseOK, event_base
<1> QED BY <1>1 DEF Empty, event_haveevents, N_ACTIVE_CALLBACKS

\* Assignments that leave the three counts alone.
LEMMA SameCounts ==
    ASSUME NEW b, NEW r, r.virtual_event_count = b.virtual_event_count,
           r.event_count = b.event_count, r.event_count_active = b.event_count_active
    PROVE  Grows(b, r) /\ Grows(r, b)
BY DEF Grows, Empty, event_haveevents, N_ACTIVE_CALLBACKS

\* evthread_notify_base does.
LEMMA NotifyGrows ==
    ASSUME NEW b, NEW need, NEW me, BaseOK(b)
    PROVE  Grows(b, NotifyIf(b, need, me)) /\ Grows(NotifyIf(b, need, me), b)
BY NotifyAlerts, SameCounts

\* event_callback_activate_nolock_ and event_callback_activate_later_nolock_.
LEMMA ActivateGrows ==
    ASSUME NEW b, NEW c \in Callbacks, NEW me, BaseOK(b)
    PROVE  /\ Grows(b, event_callback_activate_nolock_(b, c, me))
           /\ Grows(b, event_callback_activate_later_nolock_(b, c, me))
<1>1. Grows(b, event_callback_activate_nolock_(b, c, me))
    <2> DEFINE b1 == IF Has(b, c, "ACTIVE_LATER")
                     THEN event_queue_remove_active_later(b, c) ELSE b
               b2 == event_queue_insert_active(b1, c)
    <2>1. CASE Has(b, c, "FINALIZING") \/ Has(b, c, "ACTIVE")
        BY <2>1, Zenon DEF event_callback_activate_nolock_, Grows
    <2>2. CASE ~(Has(b, c, "FINALIZING") \/ Has(b, c, "ACTIVE"))
        <3>1. BaseOK(b1) /\ ~IsActive(b1, c)
            <4>1. CASE Has(b, c, "ACTIVE_LATER")
                <5>1. BaseOK(event_queue_remove_active_later(b, c))
                    BY <4>1, RemoveActiveLater
                <5>2. ~IsActive(event_queue_remove_active_later(b, c), c)
                    BY <2>2 DEF BaseOK, event_base, event_queue_remove_active_later, IsActive, Has
                <5> QED BY <4>1, <5>1, <5>2
            <4>2. CASE ~Has(b, c, "ACTIVE_LATER")
                BY <2>2, <4>2 DEF IsActive
            <4> QED BY <4>1, <4>2
        <3> HIDE DEF b1
        <3>2. BaseOK(b2) /\ IsActive(b2, c)
            <4>1. BaseOK(b2)
                BY <3>1, InsertActive
            <4>2. IsActive(b2, c)
                BY <3>1 DEF BaseOK, event_base, event_queue_insert_active, IsActive, Has
            <4> QED BY <4>1, <4>2
        <3> HIDE DEF b2
        <3>3. ~Empty(b2)
            BY <3>2, CountsNat, EmptyFields
        <3>4. ~Empty(NotifyIf(b2, TRUE, me))
            BY <3>2, <3>3, NotifyGrows, Zenon DEF Grows
        <3>5. event_callback_activate_nolock_(b, c, me) = NotifyIf(b2, TRUE, me)
            BY <2>2, Zenon DEF event_callback_activate_nolock_, b1, b2
        <3> QED BY <3>4, <3>5, Zenon DEF Grows
    <2> QED BY <2>1, <2>2
<1>2. Grows(b, event_callback_activate_later_nolock_(b, c, me))
    <2> DEFINE r == event_queue_insert_active_later(b, c)
    <2>1. CASE IsActive(b, c)
        BY <2>1 DEF event_callback_activate_later_nolock_, Grows
    <2>2. CASE ~IsActive(b, c)
        <3>1. BaseOK(r)
            BY <2>2, InsertActiveLater
        <3>2. IsActive(r, c)
            BY <2>2 DEF BaseOK, event_base, event_queue_insert_active_later, IsActive, Has
        <3> HIDE DEF r
        <3>3. ~Empty(r)
            BY <3>1, <3>2, CountsNat, EmptyFields
        <3>4. ~Empty(NotifyIf(r, TRUE, me))
            BY <3>1, <3>3, NotifyGrows, Zenon DEF Grows
        <3>5. event_callback_activate_later_nolock_(b, c, me) = NotifyIf(r, TRUE, me)
            BY <2>2, Zenon DEF event_callback_activate_later_nolock_, r
        <3> QED BY <3>4, <3>5, Zenon DEF Grows
    <2> QED BY <2>1, <2>2
<1> QED BY <1>1, <1>2

\* event_active_nolock_, in one piece and in two.
LEMMA ActiveGrows ==
    ASSUME NEW b, NEW e \in EventStructs, NEW timeout \in BOOLEAN, NEW n \in Nat, NEW me,
           BaseOK(b)
    PROVE  /\ Grows(b, event_active_enter(b, e, timeout))
           /\ Grows(b, event_active_finish(b, e, n, me))
           /\ Grows(b, event_active_nolock_(b, e, timeout, n, me))
<1> DEFINE Fin(s) == event_active_finish(s, e, n, me)
           r == event_active_enter(b, e, timeout)
<1>1. ASSUME NEW s, BaseOK(s) PROVE Grows(s, Fin(s))
    <2> DEFINE a  == [s EXCEPT !.ev_ncalls[e] = n, !.ev_pncalls[e] = "NULL"]
               s1 == IF e \in SignalEvents THEN a ELSE s
    <2>1. a \in event_base /\ Assigned(s, a)
        BY <1>1, Zenon DEF BaseOK, event_base, Assigned
    <2>2. BaseOK(a)
        BY <1>1, <2>1, AssignedOK
    <2>3. /\ a.virtual_event_count = s.virtual_event_count
          /\ a.event_count = s.event_count /\ a.event_count_active = s.event_count_active
        BY <1>1 DEF BaseOK, event_base
    <2> HIDE DEF a
    <2>4. BaseOK(s1) /\ e \in Callbacks /\ Grows(s, s1)
        BY <1>1, <2>2, <2>3, SameCounts DEF Callbacks, Grows
    <2> HIDE DEF s1
    <2>5. Grows(s, event_callback_activate_nolock_(s1, e, me))
        BY <2>4, ActivateGrows DEF Grows
    <2> QED BY <2>5, Zenon DEF event_active_finish, s1, a
<1>2. BaseOK(r) /\ Grows(b, r)
    <2>1. /\ r.virtual_event_count = b.virtual_event_count
          /\ r.event_count = b.event_count /\ r.event_count_active = b.event_count_active
        BY DEF BaseOK, event_base, event_active_enter
    <2> QED BY <2>1, ActiveEnter, SameCounts
<1> HIDE DEF r
<1>3. Grows(r, Fin(r)) /\ Grows(b, Fin(b))
    BY <1>1, <1>2
<1>4. Grows(b, Fin(r)) /\ Grows(b, b)
    BY <1>2, <1>3 DEF Grows
<1> QED BY <1>2, <1>3, <1>4, Zenon DEF event_active_nolock_, r

\* What has a counted flag is something to wait for.
LEMMA NotEmpty ==
    ASSUME NEW b, NEW c \in Callbacks \ Internal, BaseOK(b),
           Has(b, c, "TIMEOUT") \/ Has(b, c, "INSERTED") \/ IsActive(b, c)
    PROVE  ~Empty(b)
BY EmptyFields, EmptyFlags DEF Has, IsActive

\* event_add_nolock_ of a user event.
LEMMA AddGrows ==
    ASSUME NEW b, NEW e \in Events, NEW tv_ \in Nat \cup {NoTV},
           NEW absolute \in BOOLEAN, NEW ok, NEW hit, NEW me,
           BaseOK(b), gettime \in Nat
    PROVE  Grows(b, event_add_nolock_(b, e, tv_, absolute, ok, hit, me))
<1> DEFINE insert == e \notin TimerEvents /\ ~Has(b, e, "INSERTED") /\ ~IsActive(b, e)
           timed  == tv_ # NoTV /\ (insert => ok)
           s  == evmap_signal_add_(b, e)
           b1 == IF insert /\ ok THEN event_queue_insert_inserted(s, e) ELSE b
           b2 == IF timed THEN event_add_timeout(b1, e, tv_, absolute, hit) ELSE b1
           earliest == \/ min_heap_elt_is_top_(b2, e)
                       \/ \E o \in Timeouts(b2) : b2.ev_timeout[o] < gettime
           need == (insert /\ ok /\ evmap_changes(b, e)) \/ (timed /\ earliest)
<1>1. /\ BaseOK(s) /\ s.flags[e] = b.flags[e]
      /\ e \in Callbacks \ Internal /\ e \in EventStructs
    <2>1. e \in Callbacks \ Internal /\ e \in EventStructs
        BY CallbacksAssumption DEF Callbacks, EventStructs
    <2>2. CASE e \in SignalEvents
        BY <2>1, <2>2, SignalAdd
    <2>3. CASE e \notin SignalEvents
        BY <2>1, <2>3 DEF evmap_signal_add_
    <2> QED BY <2>1, <2>2, <2>3
<1> HIDE DEF s
<1>2. BaseOK(b1) /\ Grows(b, b1)
    <2>1. CASE insert /\ ok
        <3> DEFINE r == event_queue_insert_inserted(s, e)
        <3>1. ~Has(s, e, "INSERTED")
            BY <1>1, <2>1 DEF Has
        <3>2. BaseOK(r)
            BY <1>1, <2>1, <3>1, InsertInserted
        <3>3. Has(r, e, "INSERTED")
            BY <1>1 DEF BaseOK, event_base, event_queue_insert_inserted, Has
        <3> HIDE DEF r
        <3>4. ~Empty(r)
            BY <1>1, <3>2, <3>3, NotEmpty
        <3> QED BY <2>1, <3>2, <3>4 DEF Grows, r
    <2>2. CASE ~(insert /\ ok)
        BY <2>2 DEF Grows
    <2> QED BY <2>1, <2>2
<1> HIDE DEF b1
<1>3. BaseOK(b2) /\ Grows(b, b2)
    <2>1. CASE timed
        <3> DEFINE r == event_add_timeout(b1, e, tv_, absolute, hit)
        <3>1. tv_ \in Nat
            BY <2>1
        <3>2. BaseOK(r) /\ e \in Timeouts(r)
            BY <1>1, <1>2, <3>1, AddTimeout, AddTimeoutCalm
        <3> HIDE DEF r
        <3>3. ~Empty(r)
            BY <1>1, <3>2, NotEmpty DEF Timeouts
        <3> QED BY <2>1, <3>2, <3>3 DEF Grows, r
    <2>2. CASE ~timed
        BY <1>2, <2>2
    <2> QED BY <2>1, <2>2
<1> HIDE DEF b2
<1>4. Grows(b, NotifyIf(b2, need, me))
    BY <1>3, NotifyGrows DEF Grows
<1> QED BY <1>4, Zenon DEF event_add_nolock_, b2, b1, s

\* event_del_nolock_ tells the loop that the last event is gone: it was
\* watched for (for the loop would wake for a timeout), and nothing else
\* watches the same.
LEMMA DelLeaves ==
    ASSUME NEW b, NEW e \in Events, NEW hit, NEW me, BaseOK(b)
    PROVE  Leaves(b, event_del_nolock_(b, e, TRUE, hit, me), me)
<1> DEFINE b1 == abort_signal_loop(b, e, hit)
           b2 == IF Has(b1, e, "TIMEOUT") THEN event_queue_remove_timeout(b1, e) ELSE b1
           b3 == IF Has(b2, e, "ACTIVE") THEN event_queue_remove_active(b2, e)
                 ELSE IF Has(b2, e, "ACTIVE_LATER")
                      THEN event_queue_remove_active_later(b2, e) ELSE b2
           b4 == IF Has(b3, e, "INSERTED") THEN event_queue_remove_inserted(b3, e) ELSE b3
           need == Has(b3, e, "INSERTED") /\ TRUE /\ evmap_changes(b3, e)
           r == NotifyIf(b4, need, me)
<1>1. e \in Callbacks \ Internal /\ e \in EventStructs
    BY CallbacksAssumption DEF Callbacks, EventStructs
<1>2. BaseOK(b1) /\ Assigned(b, b1) /\ Calm(b, b1)
    BY AbortSignalLoop, SignalsCalm
<1>3. /\ b1.virtual_event_count = b.virtual_event_count
    BY DEF BaseOK, event_base, abort_signal_loop
<1> HIDE DEF b1
<1>4. SUFFICES ASSUME EVBASE_NEED_NOTIFY(me), Told(b), Empty(r), ~Empty(b), ~Wanted(b),
                      Timeouts(b) = {}
               PROVE  r.notify_fd
    BY Zenon DEF Leaves, event_del_nolock_, b1, b2, b3, b4, r
<1>5. ~Has(b1, e, "TIMEOUT") /\ ~IsActive(b1, e)
    <2>1. ~IsActive(b, e)
        BY <1>1, <1>4, CountsNat DEF Wanted
    <2> QED BY <1>1, <1>2, <1>4, <2>1, Zenon DEF Assigned, Has, IsActive, Timeouts
<1>6. b2 = b1 /\ b3 = b1
    BY <1>5 DEF IsActive
<1>7. ~Empty(b1)
    BY <1>2, <1>3, <1>4, SameCounts DEF Assigned, Grows
<1>8. CASE ~Has(b1, e, "INSERTED")
    <2>1. b4 = b1
        BY <1>6, <1>8
    <2> HIDE DEF b4, need
    <2>2. Grows(b4, r)
        BY <1>2, <2>1, NotifyGrows
    <2> HIDE DEF r
    <2>3. Empty(b4)
        BY <1>4, <2>2 DEF Grows
    <2> QED BY <1>7, <2>1, <2>3
<1>9. CASE Has(b1, e, "INSERTED")
    <2> DEFINE d == event_queue_remove_inserted(b1, e)
    <2>1. BaseOK(d) /\ Calm(b1, d)
        BY <1>1, <1>2, <1>9, RemoveInserted, RemovesCalm
    <2>2. b4 = d
        BY <1>6, <1>9, Zenon
    <2>3. \A c \in Callbacks \ {e} : d.flags[c] = b1.flags[c]
        BY <1>2 DEF BaseOK, event_base, event_queue_remove_inserted
    <2> HIDE DEF d, b4
    <2>4. Empty(d)
        BY <1>4, <2>1, <2>2, NotifyGrows DEF Grows
    <2>5. \A o \in Callbacks \ (Internal \cup {e}) : ~Has(b1, o, "INSERTED")
        BY <2>1, <2>3, <2>4, EmptyFields, EmptyFlags DEF Has
    <2>6. evmap_changes(b1, e)
        <3>1. e \in IoEvents \cup SignalEvents
            BY <1>1, <1>2, <1>9 DEF BaseOK, FlagsFit, Events
        <3>2. CASE e \in SignalEvents
            BY <3>2 DEF evmap_changes
        <3>3. CASE e \in IoEvents
            <4>1. PICK s \in Slots[e] : \A o \in Internal : s \notin Slots[o]
                BY <3>3, SlotsAssumption
            <4>2. IoEvents \subseteq Callbacks
                BY DEF Callbacks, EventStructs, Events
            <4> QED BY <2>5, <4>1, <4>2 DEF evmap_changes
        <3> QED BY <3>1, <3>2, <3>3
    <2>7. need
        BY <1>6, <1>9, <2>6
    <2>8. Told(d)
        BY <1>2, <1>4, <2>1 DEF Calm, Told
    <2> QED BY <1>4, <2>1, <2>2, <2>7, <2>8, NotifyAlerts, Zenon
<1> QED BY <1>8, <1>9, Zenon

\* Assigning the closure or EVLIST_FINALIZING changes no count.
LEMMA MarksGrow ==
    ASSUME NEW b, NEW c, NEW v, BaseOK(b)
    PROVE  /\ LET r == [b EXCEPT !.closure[c] = v]
              IN  /\ Grows(b, r) /\ Grows(r, b) /\ Calm(b, r)
           /\ LET r == [b EXCEPT !.flags[c] = @ \cup {"FINALIZING"}] IN Grows(b, r)
<1>1. LET r == [b EXCEPT !.closure[c] = v]
      IN  /\ r.virtual_event_count = b.virtual_event_count
          /\ r.event_count = b.event_count /\ r.event_count_active = b.event_count_active
          /\ r.flags = b.flags /\ r.ev_timeout = b.ev_timeout /\ Unseen(b, r)
    BY DEF BaseOK, event_base, Unseen
<1>2. LET r == [b EXCEPT !.flags[c] = @ \cup {"FINALIZING"}]
      IN  /\ r.virtual_event_count = b.virtual_event_count
          /\ r.event_count = b.event_count /\ r.event_count_active = b.event_count_active
    BY DEF BaseOK, event_base
<1>3. Calm(b, [b EXCEPT !.closure[c] = v])
    BY <1>1 DEF Calm, Unseen, Timeouts, Has
<1> QED BY <1>1, <1>2, <1>3, SameCounts, Zenon

\* What leaves something, followed by what takes nothing away.
LEMMA LeavesThenGrows ==
    ASSUME NEW b, NEW r, NEW s, NEW me, Leaves(b, r, me), Grows(r, s),
           r.notify_fd => s.notify_fd
    PROVE  Leaves(b, s, me)
BY DEF Leaves, Grows

\* What takes nothing away leaves something.
LEMMA GrowsLeaves ==
    ASSUME NEW b, NEW r, NEW me, Grows(b, r)
    PROVE  Leaves(b, r, me)
BY DEF Leaves, Grows

\* event_finalize_nolock_ up to its wait.
LEMMA FinalizeEnterLeaves ==
    ASSUME NEW b, NEW e \in Events, NEW closure \in Finalizers, NEW hit, NEW me, BaseOK(b)
    PROVE  Leaves(b, event_finalize_enter(b, e, closure, TRUE, hit, me), me)
<1> DEFINE d  == event_del_nolock_(b, e, TRUE, hit, me)
           b1 == IF Has(b, e, "FINALIZING") THEN b ELSE d
           b2 == [b1 EXCEPT !.closure[e] = closure]
           b3 == event_active_enter(b2, e, FALSE)
<1>1. e \in EventStructs /\ e \in Callbacks
    BY DEF EventStructs, Callbacks
<1>2. BaseOK(b1) /\ Leaves(b, b1, me)
    <2>1. BaseOK(d) /\ Leaves(b, d, me)
        BY <1>1, DelNolock, DelLeaves, Zenon
    <2>2. Leaves(b, b, me)
        BY DEF Leaves
    <2> QED BY <2>1, <2>2, Zenon
<1> HIDE DEF b1
<1>3. BaseOK(b2) /\ Grows(b1, b2) /\ Calm(b1, b2)
    BY <1>1, <1>2, SetFinalizer, MarksGrow, Zenon
<1> HIDE DEF b2
<1>4. Leaves(b, b2, me)
    BY <1>2, <1>3, LeavesThenGrows DEF Calm
<1>5. Grows(b2, b3) /\ Alerts(b2, b3, me)
    BY <1>1, <1>3, ActiveGrows, EnterAlerts, Zenon
<1> HIDE DEF b3
<1>6. Leaves(b, b3, me)
    BY <1>4, <1>5, LeavesThenGrows DEF Alerts
<1> QED BY <1>4, <1>6, Zenon DEF event_finalize_enter, b1, b2, b3

\* ... and past it.
LEMMA FinalizeFinishGrows ==
    ASSUME NEW b, NEW e \in Events, NEW me, BaseOK(b)
    PROVE  Grows(b, event_finalize_finish(b, e, me))
<1> DEFINE r == event_active_finish(b, e, 1, me)
<1>1. e \in EventStructs
    BY DEF EventStructs
<1>2. BaseOK(r) /\ Grows(b, r)
    BY <1>1, ActiveFinish, ActiveGrows, Zenon
<1> HIDE DEF r
<1>3. Grows(r, [r EXCEPT !.flags[e] = @ \cup {"FINALIZING"}])
    BY <1>2, MarksGrow, Zenon
<1> QED BY <1>2, <1>3 DEF Grows, event_finalize_finish, r

\* event_callback_cancel_nolock_: what it takes away was active.
LEMMA CancelLeaves ==
    ASSUME NEW b, NEW c \in Callbacks, NEW me, BaseOK(b)
    PROVE  Leaves(b, event_callback_cancel_nolock_(b, c), me)
<1>1. CASE IsActive(b, c)
    BY <1>1, CountsNat DEF Leaves, Wanted
<1>2. CASE ~IsActive(b, c)
    BY <1>2 DEF event_callback_cancel_nolock_, IsActive, Leaves
<1> QED BY <1>1, <1>2

\* event_callback_finalize_nolock_.
LEMMA CallbackFinalizeLeaves ==
    ASSUME NEW b, NEW c \in Callbacks, NEW me, BaseOK(b)
    PROVE  Leaves(b, event_callback_finalize_nolock_(b, c, me), me)
<1> DEFINE d  == event_callback_cancel_nolock_(b, c)
           b1 == [d EXCEPT !.closure[c] = "CB_FINALIZE"]
           b2 == event_callback_activate_nolock_(b1, c, me)
           b3 == [b2 EXCEPT !.flags[c] = @ \cup {"FINALIZING"}]
<1>1. BaseOK(d) /\ Leaves(b, d, me)
    BY CallbackCancel, CancelLeaves
<1> HIDE DEF d
<1>2. BaseOK(b1) /\ Grows(d, b1) /\ Calm(d, b1)
    BY <1>1, SetFinalizer, MarksGrow, Zenon DEF Finalizers
<1> HIDE DEF b1
<1>3. Leaves(b, b1, me)
    BY <1>1, <1>2, LeavesThenGrows DEF Calm
<1>4. BaseOK(b2) /\ Grows(b1, b2) /\ Alerts(b1, b2, me)
    BY <1>2, Activate, ActivateGrows, ActivateAlerts
<1> HIDE DEF b2
<1>5. Leaves(b, b2, me)
    BY <1>3, <1>4, LeavesThenGrows DEF Alerts
<1>6. Grows(b2, b3) /\ (b2.notify_fd => b3.notify_fd)
    <2>1. b3.notify_fd = b2.notify_fd
        BY <1>4 DEF BaseOK, event_base
    <2> QED BY <1>4, <2>1, MarksGrow, Zenon
<1> HIDE DEF b3
<1>7. Leaves(b, b3, me)
    BY <1>5, <1>6, LeavesThenGrows
<1> QED BY <1>7, Zenon DEF event_callback_finalize_nolock_, b3, b2, b1, d

----------------------------------------------------------------------------
(* What the nolock functions do to the callbacks that are finalizing.      *)

Finalizing(b, c) == Has(b, c, "FINALIZING")

\* From b to r nothing happens to the finalizers of the callbacks in S.
Spares(b, r, S) ==
    \A c \in S : /\ r.closure[c] = b.closure[c]
                 /\ Finalizing(r, c) <=> Finalizing(b, c)
                 /\ Finalizing(b, c) => r.flags[c] = b.flags[c]

\* Nothing happens to any finalizer.
Keeps(b, r) == Spares(b, r, Callbacks)

\* The internal events are never finalized.
Internals(b) == \A c \in Internal : ~Finalizing(b, c)

\* Sparing is transitive.
LEMMA SparesTwice ==
    ASSUME NEW b, NEW r, NEW s, NEW S, Spares(b, r, S), Spares(r, s, S)
    PROVE  Spares(b, s, S)
BY DEF Spares

\* So is keeping.
LEMMA KeepsTwice ==
    ASSUME NEW b, NEW r, NEW s, Keeps(b, r), Keeps(r, s)
    PROVE  Keeps(b, s)
BY SparesTwice DEF Keeps

\* What is kept can be relied on.
LEMMA KeepsNot ==
    ASSUME NEW b, NEW r, Keeps(b, r)
    PROVE  /\ \A c \in Callbacks : Finalizing(r, c) <=> Finalizing(b, c)
           /\ Internals(b) => Internals(r)
BY DEF Keeps, Spares, Internals, Callbacks, EventStructs

\* Assignments to other fields.
LEMMA KeepsSame ==
    ASSUME NEW b, NEW r, r.flags = b.flags, r.closure = b.closure
    PROVE  Keeps(b, r)
BY DEF Keeps, Spares, Finalizing, Has

\* A change of the flags of a callback that is not finalizing.
LEMMA KeepsTouch ==
    ASSUME NEW b, NEW r, NEW c, NEW S, BaseOK(b), ~Finalizing(b, c), r.closure = b.closure,
           r.flags = [b.flags EXCEPT ![c] = S], "FINALIZING" \notin S
    PROVE  Keeps(b, r)
<1>1. b.flags \in [Callbacks -> SUBSET EVLIST]
    BY DEF BaseOK, event_base
<1> QED BY <1>1 DEF Keeps, Spares, Finalizing, Has

\* The event_queue_ functions.
LEMMA QueuesKeep ==
    ASSUME NEW b, NEW c \in Callbacks, BaseOK(b), ~Finalizing(b, c)
    PROVE  /\ Keeps(b, event_queue_remove_timeout(b, c))
           /\ Keeps(b, event_queue_insert_timeout(b, c))
           /\ Keeps(b, event_queue_remove_active(b, c))
           /\ Keeps(b, event_queue_insert_active(b, c))
           /\ Keeps(b, event_queue_remove_active_later(b, c))
           /\ Keeps(b, event_queue_insert_active_later(b, c))
           /\ Keeps(b, event_queue_remove_inserted(b, c))
           /\ Keeps(b, event_queue_insert_inserted(b, c))
<1>1. b \in event_base /\ "FINALIZING" \notin b.flags[c]
    BY DEF BaseOK, Finalizing, Has
<1>2. Keeps(b, event_queue_remove_timeout(b, c))
    <2> DEFINE r == event_queue_remove_timeout(b, c)
    <2>1. r.closure = b.closure /\ r.flags = [b.flags EXCEPT ![c] = b.flags[c] \ {"TIMEOUT"}]
        BY <1>1 DEF event_base, event_queue_remove_timeout
    <2> HIDE DEF r
    <2> QED BY <1>1, <2>1, KeepsTouch DEF r
<1>3. Keeps(b, event_queue_insert_timeout(b, c))
    <2> DEFINE r == event_queue_insert_timeout(b, c)
    <2>1. r.closure = b.closure /\ r.flags = [b.flags EXCEPT ![c] = b.flags[c] \cup {"TIMEOUT"}]
        BY <1>1 DEF event_base, event_queue_insert_timeout
    <2> HIDE DEF r
    <2> QED BY <1>1, <2>1, KeepsTouch DEF r
<1>4. Keeps(b, event_queue_remove_active(b, c))
    <2> DEFINE r == event_queue_remove_active(b, c)
    <2>1. r.closure = b.closure /\ r.flags = [b.flags EXCEPT ![c] = b.flags[c] \ {"ACTIVE"}]
        BY <1>1 DEF event_base, event_queue_remove_active
    <2> HIDE DEF r
    <2> QED BY <1>1, <2>1, KeepsTouch DEF r
<1>5. Keeps(b, event_queue_insert_active(b, c))
    <2> DEFINE r == event_queue_insert_active(b, c)
    <2>1. CASE Has(b, c, "ACTIVE")
        BY <2>1, KeepsSame DEF event_queue_insert_active
    <2>2. CASE ~Has(b, c, "ACTIVE")
        <3>1. /\ r.closure = b.closure
              /\ r.flags = [b.flags EXCEPT ![c] = b.flags[c] \cup {"ACTIVE"}]
            BY <1>1, <2>2 DEF event_base, event_queue_insert_active
        <3> HIDE DEF r
        <3> QED BY <1>1, <3>1, KeepsTouch DEF r
    <2> QED BY <2>1, <2>2
<1>6. Keeps(b, event_queue_remove_active_later(b, c))
    <2> DEFINE r == event_queue_remove_active_later(b, c)
    <2>1. /\ r.closure = b.closure
          /\ r.flags = [b.flags EXCEPT ![c] = b.flags[c] \ {"ACTIVE_LATER"}]
        BY <1>1 DEF event_base, event_queue_remove_active_later
    <2> HIDE DEF r
    <2> QED BY <1>1, <2>1, KeepsTouch DEF r
<1>7. Keeps(b, event_queue_insert_active_later(b, c))
    <2> DEFINE r == event_queue_insert_active_later(b, c)
    <2>1. CASE IsActive(b, c)
        BY <2>1, KeepsSame DEF event_queue_insert_active_later
    <2>2. CASE ~IsActive(b, c)
        <3>1. /\ r.closure = b.closure
              /\ r.flags = [b.flags EXCEPT ![c] = b.flags[c] \cup {"ACTIVE_LATER"}]
            BY <1>1, <2>2 DEF event_base, event_queue_insert_active_later
        <3> HIDE DEF r
        <3> QED BY <1>1, <3>1, KeepsTouch DEF r
    <2> QED BY <2>1, <2>2
<1>8. Keeps(b, event_queue_remove_inserted(b, c))
    <2> DEFINE r == event_queue_remove_inserted(b, c)
    <2>1. r.closure = b.closure /\ r.flags = [b.flags EXCEPT ![c] = b.flags[c] \ {"INSERTED"}]
        BY <1>1 DEF event_base, event_queue_remove_inserted
    <2> HIDE DEF r
    <2> QED BY <1>1, <2>1, KeepsTouch DEF r
<1>9. Keeps(b, event_queue_insert_inserted(b, c))
    <2> DEFINE r == event_queue_insert_inserted(b, c)
    <2>1. r.closure = b.closure /\ r.flags = [b.flags EXCEPT ![c] = b.flags[c] \cup {"INSERTED"}]
        BY <1>1 DEF event_base, event_queue_insert_inserted
    <2> HIDE DEF r
    <2> QED BY <1>1, <2>1, KeepsTouch DEF r
<1> QED BY <1>2, <1>3, <1>4, <1>5, <1>6, <1>7, <1>8, <1>9

\* evthread_notify_base.
LEMMA NotifyKeeps ==
    ASSUME NEW b, NEW need, NEW me, BaseOK(b)
    PROVE  LET r == NotifyIf(b, need, me)
           IN  r.flags = b.flags /\ r.closure = b.closure /\ Keeps(b, r)
<1>1. NotifyIf(b, need, me).flags = b.flags /\ NotifyIf(b, need, me).closure = b.closure
    BY DEF BaseOK, event_base, NotifyIf, evthread_notify_base
<1> QED BY <1>1, KeepsSame

\* The write through ev_pncalls that ends a signal's loop.
LEMMA AbortKeeps ==
    ASSUME NEW b, NEW e, NEW hit, BaseOK(b)
    PROVE  LET r == abort_signal_loop(b, e, hit)
           IN  r.flags = b.flags /\ r.closure = b.closure /\ Keeps(b, r)
<1>1. /\ abort_signal_loop(b, e, hit).flags = b.flags
      /\ abort_signal_loop(b, e, hit).closure = b.closure
    BY DEF BaseOK, event_base, abort_signal_loop
<1> QED BY <1>1, KeepsSame

\* evsig_add watches the internal event of the signals.
LEMMA SignalAddKeeps ==
    ASSUME NEW b, NEW e, BaseOK(b), Internals(b)
    PROVE  Keeps(b, evmap_signal_add_(b, e))
<1> DEFINE r == evmap_signal_add_(b, e)
<1>1. CASE e \in SignalEvents
    <2>1. /\ r.closure = b.closure
          /\ r.flags = [b.flags EXCEPT ![ev_signal] = b.flags[ev_signal] \cup {"INSERTED"}]
        BY <1>1 DEF BaseOK, event_base, evmap_signal_add_
    <2>2. ~Finalizing(b, ev_signal) /\ "FINALIZING" \notin b.flags[ev_signal] \cup {"INSERTED"}
        BY DEF Internals, Internal, Finalizing, Has
    <2> HIDE DEF r
    <2> QED BY <2>1, <2>2, KeepsTouch DEF r
<1>2. CASE e \notin SignalEvents
    BY <1>2, KeepsSame DEF evmap_signal_add_
<1> QED BY <1>1, <1>2

\* The pieces of event_signal_closure.
LEMMA SignalsKeep ==
    ASSUME NEW b, NEW e, BaseOK(b)
    PROVE  /\ Keeps(b, signal_turn(b, e)) /\ Keeps(b, event_signal_closure(b, e))
           /\ Keeps(b, signal_closure_returns(b, e))
<1>1. signal_turn(b, e).flags = b.flags /\ signal_turn(b, e).closure = b.closure
    BY DEF BaseOK, event_base, signal_turn
<1>2. /\ event_signal_closure(b, e).flags = b.flags
      /\ event_signal_closure(b, e).closure = b.closure
    BY DEF BaseOK, event_base, event_signal_closure, signal_turn
<1>3. /\ signal_closure_returns(b, e).flags = b.flags
      /\ signal_closure_returns(b, e).closure = b.closure
    BY DEF BaseOK, event_base, signal_closure_returns
<1> QED BY <1>1, <1>2, <1>3, KeepsSame

\* event_del_nolock_: it leaves an event that is not finalizing on no queue.
LEMMA DelKeeps ==
    ASSUME NEW b, NEW e \in EventStructs, NEW ok, NEW hit, NEW me, BaseOK(b),
           ~Finalizing(b, e)
    PROVE  LET r == event_del_nolock_(b, e, ok, hit, me)
           IN  Keeps(b, r) /\ r.flags[e] = {}
<1> DEFINE b1 == abort_signal_loop(b, e, hit)
           b2 == IF Has(b1, e, "TIMEOUT") THEN event_queue_remove_timeout(b1, e) ELSE b1
           b3 == IF Has(b2, e, "ACTIVE") THEN event_queue_remove_active(b2, e)
                 ELSE IF Has(b2, e, "ACTIVE_LATER")
                      THEN event_queue_remove_active_later(b2, e) ELSE b2
           b4 == IF Has(b3, e, "INSERTED") THEN event_queue_remove_inserted(b3, e) ELSE b3
           need == Has(b3, e, "INSERTED") /\ ok /\ evmap_changes(b3, e)
<1>1. e \in Callbacks
    BY DEF Callbacks
<1>2. BaseOK(b1) /\ Keeps(b, b1) /\ ~Finalizing(b1, e)
    BY <1>1, AbortSignalLoop, AbortKeeps, KeepsNot
<1> HIDE DEF b1
<1>3. BaseOK(b2) /\ Keeps(b1, b2) /\ ~Has(b2, e, "TIMEOUT")
    <2>1. CASE Has(b1, e, "TIMEOUT")
        <3> DEFINE r == event_queue_remove_timeout(b1, e)
        <3>1. BaseOK(r) /\ Keeps(b1, r)
            BY <1>1, <1>2, <2>1, RemoveTimeout, QueuesKeep
        <3>2. ~Has(r, e, "TIMEOUT")
            BY <1>1, <1>2 DEF BaseOK, event_base, event_queue_remove_timeout, Has
        <3> QED BY <2>1, <3>1, <3>2
    <2>2. CASE ~Has(b1, e, "TIMEOUT")
        BY <1>2, <2>2, KeepsSame
    <2> QED BY <2>1, <2>2
<1> HIDE DEF b2
<1>4. ~Finalizing(b2, e)
    BY <1>1, <1>2, <1>3, KeepsNot
<1>5. /\ BaseOK(b3) /\ Keeps(b2, b3)
      /\ ~Has(b3, e, "TIMEOUT") /\ ~Has(b3, e, "ACTIVE") /\ ~Has(b3, e, "ACTIVE_LATER")
    <2>1. ~(Has(b2, e, "ACTIVE") /\ Has(b2, e, "ACTIVE_LATER"))
        BY <1>1, <1>3, Zenon DEF BaseOK, QueuesMatchFlags
    <2>2. CASE Has(b2, e, "ACTIVE")
        <3> DEFINE r == event_queue_remove_active(b2, e)
        <3>1. BaseOK(r) /\ Keeps(b2, r)
            BY <1>1, <1>3, <1>4, <2>2, RemoveActive, QueuesKeep
        <3>2. ~Has(r, e, "TIMEOUT") /\ ~Has(r, e, "ACTIVE") /\ ~Has(r, e, "ACTIVE_LATER")
            BY <1>1, <1>3, <2>1, <2>2 DEF BaseOK, event_base, event_queue_remove_active, Has
        <3> QED BY <2>2, <3>1, <3>2
    <2>3. CASE ~Has(b2, e, "ACTIVE") /\ Has(b2, e, "ACTIVE_LATER")
        <3> DEFINE r == event_queue_remove_active_later(b2, e)
        <3>1. BaseOK(r) /\ Keeps(b2, r)
            BY <1>1, <1>3, <1>4, <2>3, RemoveActiveLater, QueuesKeep
        <3>2. ~Has(r, e, "TIMEOUT") /\ ~Has(r, e, "ACTIVE") /\ ~Has(r, e, "ACTIVE_LATER")
            BY <1>1, <1>3, <2>3
               DEF BaseOK, event_base, event_queue_remove_active_later, Has
        <3> QED BY <2>3, <3>1, <3>2
    <2>4. CASE ~Has(b2, e, "ACTIVE") /\ ~Has(b2, e, "ACTIVE_LATER")
        BY <1>3, <2>4, KeepsSame
    <2> QED BY <2>2, <2>3, <2>4
<1> HIDE DEF b3
<1>6. ~Finalizing(b3, e)
    BY <1>1, <1>4, <1>5, KeepsNot
<1>7. BaseOK(b4) /\ Keeps(b3, b4) /\ b4.flags[e] = {}
    <2>1. b3.flags[e] \subseteq {"INSERTED"}
        <3>1. b3.flags[e] \subseteq EVLIST
            BY <1>1, <1>5 DEF BaseOK, event_base
        <3> QED BY <1>5, <1>6, <3>1 DEF EVLIST, Has, Finalizing
    <2>2. CASE Has(b3, e, "INSERTED")
        <3> DEFINE r == event_queue_remove_inserted(b3, e)
        <3>1. BaseOK(r) /\ Keeps(b3, r)
            BY <1>1, <1>5, <1>6, <2>2, RemoveInserted, QueuesKeep
        <3>2. r.flags[e] = {}
            BY <1>1, <1>5, <2>1 DEF BaseOK, event_base, event_queue_remove_inserted
        <3> QED BY <2>2, <3>1, <3>2
    <2>3. CASE ~Has(b3, e, "INSERTED")
        BY <1>5, <2>1, <2>3, KeepsSame DEF Has
    <2> QED BY <2>2, <2>3
<1> HIDE DEF b4
<1>8. /\ Keeps(b4, NotifyIf(b4, need, me))
      /\ NotifyIf(b4, need, me).flags = b4.flags
    BY <1>7, NotifyKeeps
<1>9. Keeps(b, b4)
    BY <1>2, <1>3, <1>5, <1>7, KeepsTwice
<1>10. Keeps(b, NotifyIf(b4, need, me)) /\ NotifyIf(b4, need, me).flags[e] = {}
    BY <1>7, <1>8, <1>9, KeepsTwice
<1> QED BY <1>10, Zenon DEF event_del_nolock_, b1, b2, b3, b4

\* The second half of event_add_nolock_.
LEMMA AddTimeoutKeeps ==
    ASSUME NEW b, NEW e \in EventStructs, NEW tv_ \in Nat, NEW absolute \in BOOLEAN,
           NEW hit, BaseOK(b), gettime \in Nat, ~Finalizing(b, e)
    PROVE  Keeps(b, event_add_timeout(b, e, tv_, absolute, hit))
<1> DEFINE a0 == [b EXCEPT !.ev_io_timeout[e] = tv_]
           b1 == IF b.closure[e] = "EVENT_PERSIST" /\ ~absolute THEN a0 ELSE b
           b2 == IF Has(b1, e, "TIMEOUT") THEN event_queue_remove_timeout(b1, e) ELSE b1
           a  == abort_signal_loop(b2, e, hit)
           b3 == IF Has(b2, e, "ACTIVE") /\ b2.res_timeout[e]
                 THEN event_queue_remove_active(a, e) ELSE b2
           at == IF absolute THEN tv_ ELSE gettime + tv_
           b4 == [b3 EXCEPT !.ev_timeout[e] = at]
           b5 == event_queue_insert_timeout(b4, e)
<1>1. e \in Callbacks
    BY DEF Callbacks
<1>2. BaseOK(b1) /\ Keeps(b, b1) /\ ~Finalizing(b1, e)
    <2>1. a0 \in event_base /\ Assigned(b, a0)
        BY Zenon DEF BaseOK, event_base, Assigned
    <2>2. BaseOK(a0)
        BY <2>1, AssignedOK
    <2>3. a0.flags = b.flags /\ a0.closure = b.closure
        BY DEF BaseOK, event_base
    <2> HIDE DEF a0
    <2>4. Keeps(b, a0) /\ Keeps(b, b)
        BY <2>3, KeepsSame
    <2> QED BY <1>1, <2>2, <2>4, KeepsNot
<1> HIDE DEF b1
<1>3. BaseOK(b2) /\ Keeps(b1, b2) /\ ~Finalizing(b2, e)
    <2>1. BaseOK(b2)
        BY <1>1, <1>2, RemoveTimeout
    <2>2. Keeps(b1, event_queue_remove_timeout(b1, e)) /\ Keeps(b1, b1)
        BY <1>1, <1>2, QueuesKeep, KeepsSame
    <2>3. Keeps(b1, b2)
        BY <2>2
    <2> QED BY <1>1, <1>2, <2>1, <2>3, KeepsNot
<1> HIDE DEF b2
<1>4. BaseOK(a) /\ Keeps(b2, a) /\ a.flags = b2.flags /\ ~Finalizing(a, e)
    BY <1>1, <1>3, AbortSignalLoop, AbortKeeps, KeepsNot
<1> HIDE DEF a
<1>5. BaseOK(b3) /\ Keeps(b2, b3) /\ ~Finalizing(b3, e)
    <2>1. CASE Has(b2, e, "ACTIVE") /\ b2.res_timeout[e]
        <3>1. Has(a, e, "ACTIVE")
            BY <1>4, <2>1 DEF Has
        <3>2. BaseOK(event_queue_remove_active(a, e)) /\ Keeps(a, event_queue_remove_active(a, e))
            BY <1>1, <1>4, <3>1, RemoveActive, QueuesKeep
        <3>3. Keeps(b2, event_queue_remove_active(a, e))
            BY <1>4, <3>2, KeepsTwice
        <3> QED BY <1>1, <1>3, <2>1, <3>2, <3>3, KeepsNot
    <2>2. CASE ~(Has(b2, e, "ACTIVE") /\ b2.res_timeout[e])
        BY <1>3, <2>2, KeepsSame
    <2> QED BY <2>1, <2>2
<1> HIDE DEF b3
<1>6. BaseOK(b4) /\ Keeps(b3, b4) /\ ~Finalizing(b4, e)
    <2>1. at \in Nat
        OBVIOUS
    <2> HIDE DEF at
    <2>2. b4 \in event_base /\ Assigned(b3, b4)
        BY <1>5, <2>1, Zenon DEF BaseOK, event_base, Assigned
    <2>3. BaseOK(b4)
        BY <1>5, <2>2, AssignedOK
    <2>4. b4.flags = b3.flags /\ b4.closure = b3.closure
        BY <1>5 DEF BaseOK, event_base
    <2> HIDE DEF b4
    <2> QED BY <1>1, <1>5, <2>3, <2>4, KeepsSame, KeepsNot
<1> HIDE DEF b4
<1>7. Keeps(b4, b5)
    BY <1>1, <1>6, QueuesKeep
<1> HIDE DEF b5
<1>8. Keeps(b, b5)
    BY <1>2, <1>3, <1>5, <1>6, <1>7, KeepsTwice
<1> QED BY <1>8, Zenon DEF event_add_timeout, b1, a0, b2, a, b3, at, b4, b5

\* event_add_nolock_.
LEMMA AddKeeps ==
    ASSUME NEW b, NEW e \in EventStructs, NEW tv_ \in Nat \cup {NoTV},
           NEW absolute \in BOOLEAN, NEW ok, NEW hit, NEW me,
           BaseOK(b), gettime \in Nat, ~Finalizing(b, e), Internals(b)
    PROVE  Keeps(b, event_add_nolock_(b, e, tv_, absolute, ok, hit, me))
<1> DEFINE insert == e \notin TimerEvents /\ ~Has(b, e, "INSERTED") /\ ~IsActive(b, e)
           timed  == tv_ # NoTV /\ (insert => ok)
           s  == evmap_signal_add_(b, e)
           b1 == IF insert /\ ok THEN event_queue_insert_inserted(s, e) ELSE b
           b2 == IF timed THEN event_add_timeout(b1, e, tv_, absolute, hit) ELSE b1
           earliest == \/ min_heap_elt_is_top_(b2, e)
                       \/ \E o \in Timeouts(b2) : b2.ev_timeout[o] < gettime
           need == (insert /\ ok /\ evmap_changes(b, e)) \/ (timed /\ earliest)
<1>1. BaseOK(s) /\ s.flags[e] = b.flags[e] /\ e \in Callbacks
    <2>1. CASE e \in SignalEvents
        BY <2>1, SignalAdd DEF Callbacks
    <2>2. CASE e \notin SignalEvents
        BY <2>2 DEF evmap_signal_add_, Callbacks
    <2> QED BY <2>1, <2>2
<1>2. Keeps(b, s) /\ ~Finalizing(s, e)
    BY <1>1, SignalAddKeeps, KeepsNot
<1> HIDE DEF s
<1>3. BaseOK(b1) /\ Keeps(b, b1) /\ ~Finalizing(b1, e)
    <2>1. CASE insert /\ ok
        <3>1. ~Has(s, e, "INSERTED")
            BY <1>1, <2>1 DEF Has
        <3>2. BaseOK(b1) /\ Keeps(s, b1)
            BY <1>1, <1>2, <2>1, <3>1, InsertInserted, QueuesKeep
        <3> HIDE DEF b1
        <3>3. Keeps(b, b1)
            BY <1>2, <3>2, KeepsTwice
        <3> QED BY <1>1, <3>2, <3>3, KeepsNot
    <2>2. CASE ~(insert /\ ok)
        BY <2>2, KeepsSame
    <2> QED BY <2>1, <2>2
<1> HIDE DEF b1
<1>4. BaseOK(b2) /\ Keeps(b1, b2)
    <2>1. CASE timed
        <3>1. tv_ \in Nat
            BY <2>1
        <3> QED BY <1>3, <2>1, <3>1, AddTimeout, AddTimeoutKeeps
    <2>2. CASE ~timed
        BY <1>3, <2>2, KeepsSame
    <2> QED BY <2>1, <2>2
<1> HIDE DEF b2
<1>5. Keeps(b2, NotifyIf(b2, need, me))
    BY <1>4, NotifyKeeps, SMTT(30)
<1>6. Keeps(b, NotifyIf(b2, need, me))
    BY <1>3, <1>4, <1>5, KeepsTwice
<1> QED BY <1>6, Zenon DEF event_add_nolock_, b2, b1, s

\* event_callback_activate_nolock_.
LEMMA ActivateKeeps ==
    ASSUME NEW b, NEW c \in Callbacks, NEW me, BaseOK(b)
    PROVE  LET r == event_callback_activate_nolock_(b, c, me)
           IN  Keeps(b, r) /\ (b.flags[c] = {} => r.flags[c] = {"ACTIVE"})
<1> DEFINE b1 == IF Has(b, c, "ACTIVE_LATER")
                 THEN event_queue_remove_active_later(b, c) ELSE b
           b2 == event_queue_insert_active(b1, c)
<1>1. CASE Finalizing(b, c) \/ Has(b, c, "ACTIVE")
    BY <1>1, KeepsSame, Zenon DEF event_callback_activate_nolock_, Finalizing, Has
<1>2. CASE ~(Finalizing(b, c) \/ Has(b, c, "ACTIVE"))
    <2>1. /\ BaseOK(b1) /\ Keeps(b, b1) /\ ~IsActive(b1, c)
          /\ b.flags[c] = {} => b1.flags[c] = {}
        <3>1. CASE Has(b, c, "ACTIVE_LATER")
            <4> DEFINE r == event_queue_remove_active_later(b, c)
            <4>1. BaseOK(r) /\ Keeps(b, r)
                BY <1>2, <3>1, RemoveActiveLater, QueuesKeep
            <4>2. ~IsActive(r, c) /\ b.flags[c] # {}
                BY <1>2, <3>1 DEF BaseOK, event_base, event_queue_remove_active_later, IsActive, Has
            <4> QED BY <3>1, <4>1, <4>2
        <3>2. CASE ~Has(b, c, "ACTIVE_LATER")
            BY <1>2, <3>2, KeepsSame DEF IsActive
        <3> QED BY <3>1, <3>2
    <2> HIDE DEF b1
    <2>2. ~Finalizing(b1, c)
        BY <1>2, <2>1, KeepsNot
    <2>3. BaseOK(b2) /\ Keeps(b1, b2) /\ b2.flags[c] = b1.flags[c] \cup {"ACTIVE"}
        <3>1. BaseOK(b2) /\ Keeps(b1, b2)
            BY <2>1, <2>2, InsertActive, QueuesKeep
        <3>2. b2.flags[c] = b1.flags[c] \cup {"ACTIVE"}
            BY <2>1 DEF BaseOK, event_base, event_queue_insert_active, IsActive
        <3> QED BY <3>1, <3>2
    <2> HIDE DEF b2
    <2> DEFINE r == NotifyIf(b2, TRUE, me)
    <2>4. Keeps(b2, r) /\ r.flags = b2.flags
        BY <2>3, NotifyKeeps, Zenon
    <2> HIDE DEF r
    <2>5. Keeps(b, r)
        BY <2>1, <2>3, <2>4, KeepsTwice
    <2>6. r = event_callback_activate_nolock_(b, c, me)
        BY <1>2, Zenon DEF event_callback_activate_nolock_, Finalizing, r, b2, b1
    <2> QED BY <2>1, <2>3, <2>4, <2>5, <2>6
<1> QED BY <1>1, <1>2

\* event_callback_activate_later_nolock_ has no test of EVLIST_FINALIZING: what
\* saves a finalizer from it is that a callback that is active stays as it is.
LEMMA LaterKeeps ==
    ASSUME NEW b, NEW c \in Callbacks, NEW me, BaseOK(b), Finalizing(b, c) => IsActive(b, c)
    PROVE  Keeps(b, event_callback_activate_later_nolock_(b, c, me))
<1> DEFINE r == event_queue_insert_active_later(b, c)
<1>1. CASE IsActive(b, c)
    BY <1>1, KeepsSame DEF event_callback_activate_later_nolock_
<1>2. CASE ~IsActive(b, c)
    <2>1. BaseOK(r) /\ Keeps(b, r)
        BY <1>2, InsertActiveLater, QueuesKeep
    <2> HIDE DEF r
    <2>2. Keeps(b, NotifyIf(r, TRUE, me))
        BY <2>1, NotifyKeeps, KeepsTwice, Zenon
    <2> QED BY <1>2, <2>2, Zenon DEF event_callback_activate_later_nolock_, r
<1> QED BY <1>1, <1>2

\* event_active_nolock_ up to its wait.
LEMMA EnterKeeps ==
    ASSUME NEW b, NEW e, NEW timeout, BaseOK(b)
    PROVE  LET r == event_active_enter(b, e, timeout)
           IN  r.flags = b.flags /\ Keeps(b, r)
<1>1. /\ event_active_enter(b, e, timeout).flags = b.flags
      /\ event_active_enter(b, e, timeout).closure = b.closure
    BY DEF BaseOK, event_base, event_active_enter
<1> QED BY <1>1, KeepsSame

\* Its second half, past the wait.
LEMMA FinishKeeps ==
    ASSUME NEW b, NEW e \in EventStructs, NEW n \in Nat, NEW me, BaseOK(b)
    PROVE  LET r == event_active_finish(b, e, n, me)
           IN  Keeps(b, r) /\ (b.flags[e] = {} => r.flags[e] = {"ACTIVE"})
<1> DEFINE a  == [b EXCEPT !.ev_ncalls[e] = n, !.ev_pncalls[e] = "NULL"]
           b1 == IF e \in SignalEvents THEN a ELSE b
           r  == event_callback_activate_nolock_(b1, e, me)
<1>1. a \in event_base /\ Assigned(b, a)
    BY Zenon DEF BaseOK, event_base, Assigned
<1>2. BaseOK(a) /\ e \in Callbacks
    BY <1>1, AssignedOK DEF Callbacks
<1>3. a.flags = b.flags /\ a.closure = b.closure
    BY DEF BaseOK, event_base
<1> HIDE DEF a
<1>4. BaseOK(b1) /\ Keeps(b, b1) /\ b1.flags = b.flags
    BY <1>2, <1>3, KeepsSame
<1> HIDE DEF b1
<1>5. Keeps(b1, r) /\ (b1.flags[e] = {} => r.flags[e] = {"ACTIVE"})
    BY <1>2, <1>4, ActivateKeeps
<1> HIDE DEF r
<1>6. Keeps(b, r)
    BY <1>4, <1>5, KeepsTwice
<1>7. r = event_active_finish(b, e, n, me)
    BY Zenon DEF event_active_finish, r, b1, a
<1> QED BY <1>4, <1>5, <1>6, <1>7

\* The whole of it.
LEMMA ActiveKeeps ==
    ASSUME NEW b, NEW e \in EventStructs, NEW timeout \in BOOLEAN, NEW n \in Nat, NEW me,
           BaseOK(b)
    PROVE  Keeps(b, event_active_nolock_(b, e, timeout, n, me))
<1> DEFINE r == event_active_enter(b, e, timeout)
<1>1. BaseOK(r) /\ Keeps(b, r)
    BY ActiveEnter, EnterKeeps
<1> HIDE DEF r
<1>2. Keeps(r, event_active_finish(r, e, n, me)) /\ Keeps(b, b)
    BY <1>1, FinishKeeps, KeepsSame, Zenon
<1>3. Keeps(b, event_active_finish(r, e, n, me))
    BY <1>1, <1>2, KeepsTwice
<1> QED BY <1>1, <1>2, <1>3, Zenon DEF event_active_nolock_, r

\* The rescheduling of a persistent event.
LEMMA PersistKeeps ==
    ASSUME NEW b, NEW e \in EventStructs, NEW ok, BaseOK(b), gettime \in Nat,
           ~Finalizing(b, e), Internals(b)
    PROVE  Keeps(b, event_persist_closure(b, e, ok))
<1> DEFINE from   == IF b.res_timeout[e] THEN b.ev_timeout[e] ELSE gettime
           at     == from + b.ev_io_timeout[e]
           run_at == IF at < gettime THEN gettime + b.ev_io_timeout[e] ELSE at
<1>1. run_at \in Nat
    BY DEF BaseOK, event_base
<1> HIDE DEF run_at
<1>2. Keeps(b, event_add_nolock_(b, e, run_at, TRUE, ok, TRUE, th_owner_id))
    BY <1>1, AddKeeps, Zenon
<1> QED BY <1>2, KeepsSame, Zenon DEF event_persist_closure, run_at

----------------------------------------------------------------------------
(* Finalization.                                                           *)

\* What finalizing c does: its closure is a finalizer, and if it was not
\* finalizing before it is now active and marked.
Finalizes(b, r, c) ==
    /\ Spares(b, r, Callbacks \ {c})
    /\ r.closure[c] \in Finalizers
    /\ IF Finalizing(b, c) THEN r.flags[c] = b.flags[c]
       ELSE r.flags[c] = {"ACTIVE", "FINALIZING"}

\* Assigning the finalizer.
LEMMA ClosureSpares ==
    ASSUME NEW b, NEW c \in Callbacks, NEW v, NEW r, r.flags = b.flags,
           r.closure[c] = v, \A o \in Callbacks \ {c} : r.closure[o] = b.closure[o]
    PROVE  Spares(b, r, Callbacks \ {c})
BY DEF Spares, Finalizing, Has

\* Setting EVLIST_FINALIZING.
LEMMA MarkSpares ==
    ASSUME NEW b, NEW c \in Callbacks, NEW r, BaseOK(b),
           r = [b EXCEPT !.flags[c] = @ \cup {"FINALIZING"}]
    PROVE  /\ Spares(b, r, Callbacks \ {c}) /\ r.closure = b.closure
           /\ r.flags[c] = b.flags[c] \cup {"FINALIZING"}
<1>1. b \in event_base /\ b.flags \in [Callbacks -> SUBSET EVLIST]
    BY DEF BaseOK, event_base
<1>2. /\ r.closure = b.closure
      /\ r.flags = [b.flags EXCEPT ![c] = b.flags[c] \cup {"FINALIZING"}]
    BY <1>1 DEF event_base
<1> QED BY <1>1, <1>2 DEF Spares, Finalizing, Has

\* What is kept is spared.
LEMMA KeepsSpares ==
    ASSUME NEW b, NEW r, NEW c \in Callbacks, Keeps(b, r)
    PROVE  Spares(b, r, Callbacks \ {c}) /\ r.closure[c] = b.closure[c]
BY DEF Keeps, Spares

\* event_finalize_nolock_ when it does not wait.
LEMMA FinalizeFinalizes ==
    ASSUME NEW b, NEW e \in Events, NEW closure \in Finalizers, NEW ok, NEW hit, NEW me,
           BaseOK(b)
    PROVE  LET s == event_finalize_enter(b, e, closure, ok, hit, me)
           IN  Finalizes(b, IF Finalizing(b, e) THEN s ELSE event_finalize_finish(s, e, me), e)
<1> DEFINE d  == event_del_nolock_(b, e, ok, hit, me)
           s  == event_finalize_enter(b, e, closure, ok, hit, me)
           f  == event_finalize_finish(s, e, me)
<1>1. e \in EventStructs /\ e \in Callbacks
    BY DEF EventStructs, Callbacks
<1>2. CASE Finalizing(b, e)
    <2>1. s = [b EXCEPT !.closure[e] = closure]
        BY <1>2, Zenon DEF event_finalize_enter, Finalizing
    <2> HIDE DEF s
    <2>2. Spares(b, s, Callbacks \ {e}) /\ s.closure[e] = closure /\ s.flags = b.flags
        <3>1. /\ s.closure[e] = closure /\ s.flags = b.flags
              /\ \A o \in Callbacks \ {e} : s.closure[o] = b.closure[o]
            BY <1>1, <2>1, SMTT(30) DEF BaseOK, event_base
        <3> QED BY <1>1, <3>1, ClosureSpares
    <2> QED BY <1>2, <2>2, Zenon DEF Finalizes, s
<1>3. CASE ~Finalizing(b, e)
    <2> DEFINE b2 == [d EXCEPT !.closure[e] = closure]
               b3 == event_active_enter(b2, e, FALSE)
               b4 == event_active_finish(b3, e, 1, me)
               b5 == [b4 EXCEPT !.flags[e] = @ \cup {"FINALIZING"}]
    <2>1. BaseOK(d) /\ Spares(b, d, Callbacks \ {e}) /\ d.flags[e] = {}
        BY <1>1, <1>3, DelNolock, DelKeeps, KeepsSpares, Zenon
    <2> HIDE DEF d
    <2>2. /\ BaseOK(b2) /\ Spares(d, b2, Callbacks \ {e}) /\ b2.closure[e] = closure
          /\ b2.flags[e] = {}
        <3>1. BaseOK(b2)
            BY <1>1, <2>1, SetFinalizer, Zenon
        <3>2. Spares(d, b2, Callbacks \ {e}) /\ b2.closure[e] = closure /\ b2.flags = d.flags
            <4>1. /\ b2.closure[e] = closure /\ b2.flags = d.flags
                  /\ \A o \in Callbacks \ {e} : b2.closure[o] = d.closure[o]
                BY <1>1, <2>1 DEF BaseOK, event_base
            <4> HIDE DEF b2
            <4> QED BY <1>1, <2>1, <4>1, ClosureSpares, Zenon
        <3> QED BY <2>1, <3>1, <3>2
    <2> HIDE DEF b2
    <2>3. /\ BaseOK(b3) /\ Spares(b2, b3, Callbacks \ {e}) /\ b3.closure[e] = closure
          /\ b3.flags[e] = {}
        BY <1>1, <2>2, ActiveEnter, EnterKeeps, KeepsSpares, Zenon
    <2> HIDE DEF b3
    <2>4. /\ BaseOK(b4) /\ Spares(b3, b4, Callbacks \ {e}) /\ b4.closure[e] = closure
          /\ b4.flags[e] = {"ACTIVE"}
        BY <1>1, <2>3, ActiveFinish, FinishKeeps, KeepsSpares
    <2> HIDE DEF b4
    <2>5. /\ Spares(b4, b5, Callbacks \ {e}) /\ b5.closure[e] = closure
          /\ b5.flags[e] = {"ACTIVE", "FINALIZING"}
        <3>1. /\ Spares(b4, b5, Callbacks \ {e}) /\ b5.closure = b4.closure
              /\ b5.flags[e] = b4.flags[e] \cup {"FINALIZING"}
            <4>1. b5 = [b4 EXCEPT !.flags[e] = @ \cup {"FINALIZING"}]
                OBVIOUS
            <4> HIDE DEF b5
            <4> QED BY <1>1, <2>4, <4>1, MarkSpares, Zenon
        <3> QED BY <2>4, <3>1
    <2> HIDE DEF b5
    <2>6. Spares(b, b5, Callbacks \ {e})
        BY <2>1, <2>2, <2>3, <2>4, <2>5, SparesTwice
    <2>7. f = b5
        BY <1>3, Zenon DEF event_finalize_finish, event_finalize_enter, Finalizing,
                           b5, b4, b3, b2, d
    <2> QED BY <1>3, <2>5, <2>6, <2>7 DEF Finalizes
<1> QED BY <1>2, <1>3

\* event_callback_cancel_nolock_ leaves a callback that is no event and is not
\* finalizing on no queue.
LEMMA CancelKeeps ==
    ASSUME NEW b, NEW c \in Deferreds, BaseOK(b)
    PROVE  LET r == event_callback_cancel_nolock_(b, c)
           IN  Keeps(b, r) /\ (~Finalizing(b, c) => r.flags[c] = {})
<1> DEFINE r == event_callback_cancel_nolock_(b, c)
<1>1. c \in Callbacks
    BY DEF Callbacks
<1>2. /\ ~(Has(b, c, "ACTIVE") /\ Has(b, c, "ACTIVE_LATER"))
      /\ ~Has(b, c, "INSERTED") /\ ~Has(b, c, "TIMEOUT")
      /\ b.flags[c] \subseteq EVLIST
    BY <1>1 DEF BaseOK, event_base, QueuesMatchFlags, FlagsFit
<1>3. CASE Finalizing(b, c)
    BY <1>3, KeepsSame DEF event_callback_cancel_nolock_, Finalizing
<1>4. CASE ~Finalizing(b, c) /\ Has(b, c, "ACTIVE")
    <2>1. r = event_queue_remove_active(b, c)
        BY <1>4 DEF event_callback_cancel_nolock_, Finalizing
    <2>2. r.flags[c] = b.flags[c] \ {"ACTIVE"}
        BY <1>1, <2>1 DEF BaseOK, event_base, event_queue_remove_active
    <2>3. Keeps(b, r)
        BY <1>1, <1>4, <2>1, QueuesKeep
    <2> QED BY <1>2, <1>4, <2>2, <2>3 DEF Has, Finalizing, EVLIST
<1>5. CASE ~Finalizing(b, c) /\ ~Has(b, c, "ACTIVE") /\ Has(b, c, "ACTIVE_LATER")
    <2>1. r = event_queue_remove_active_later(b, c)
        BY <1>5 DEF event_callback_cancel_nolock_, Finalizing
    <2>2. r.flags[c] = b.flags[c] \ {"ACTIVE_LATER"}
        BY <1>1, <2>1 DEF BaseOK, event_base, event_queue_remove_active_later
    <2>3. Keeps(b, r)
        BY <1>1, <1>5, <2>1, QueuesKeep
    <2> QED BY <1>2, <1>5, <2>2, <2>3 DEF Has, Finalizing, EVLIST
<1>6. CASE ~Finalizing(b, c) /\ ~Has(b, c, "ACTIVE") /\ ~Has(b, c, "ACTIVE_LATER")
    <2>1. r = b
        BY <1>6 DEF event_callback_cancel_nolock_, Finalizing
    <2>2. b.flags[c] = {}
        BY <1>2, <1>6 DEF Has, Finalizing, EVLIST
    <2> QED BY <2>1, <2>2, KeepsSame
<1> QED BY <1>3, <1>4, <1>5, <1>6

\* event_callback_finalize_nolock_.
LEMMA CallbackFinalizes ==
    ASSUME NEW b, NEW c \in Deferreds, NEW me, BaseOK(b)
    PROVE  Finalizes(b, event_callback_finalize_nolock_(b, c, me), c)
<1> DEFINE d  == event_callback_cancel_nolock_(b, c)
           b1 == [d EXCEPT !.closure[c] = "CB_FINALIZE"]
           b2 == event_callback_activate_nolock_(b1, c, me)
           b3 == [b2 EXCEPT !.flags[c] = @ \cup {"FINALIZING"}]
<1>1. c \in Callbacks /\ "CB_FINALIZE" \in Finalizers
    BY DEF Callbacks, Finalizers
<1>2. /\ BaseOK(d) /\ Spares(b, d, Callbacks \ {c}) /\ Keeps(b, d)
      /\ ~Finalizing(b, c) => d.flags[c] = {}
    BY <1>1, CallbackCancel, CancelKeeps, KeepsSpares
<1> HIDE DEF d
<1>3. /\ BaseOK(b1) /\ Spares(d, b1, Callbacks \ {c}) /\ b1.closure[c] = "CB_FINALIZE"
      /\ b1.flags = d.flags
    <2>1. BaseOK(b1)
        BY <1>1, <1>2, SetFinalizer, Zenon
    <2>2. /\ Spares(d, b1, Callbacks \ {c}) /\ b1.closure[c] = "CB_FINALIZE"
          /\ b1.flags = d.flags
        <3>1. /\ b1.closure[c] = "CB_FINALIZE" /\ b1.flags = d.flags
              /\ \A o \in Callbacks \ {c} : b1.closure[o] = d.closure[o]
            BY <1>1, <1>2 DEF BaseOK, event_base
        <3> HIDE DEF b1
        <3> QED BY <1>1, <1>2, <3>1, ClosureSpares
    <2> QED BY <2>1, <2>2
<1> HIDE DEF b1
<1>4. /\ BaseOK(b2) /\ Spares(b1, b2, Callbacks \ {c}) /\ b2.closure[c] = "CB_FINALIZE"
      /\ b1.flags[c] = {} => b2.flags[c] = {"ACTIVE"}
      /\ Finalizing(b1, c) => b2.flags[c] = b1.flags[c]
    <2>1. /\ Keeps(b1, b2)
          /\ b1.flags[c] = {} => b2.flags[c] = {"ACTIVE"}
        BY <1>1, <1>3, ActivateKeeps, Zenon
    <2>2. BaseOK(b2)
        BY <1>1, <1>3, Activate
    <2> HIDE DEF b2
    <2>3. Spares(b1, b2, Callbacks \ {c}) /\ b2.closure[c] = b1.closure[c]
        BY <1>1, <2>1, KeepsSpares
    <2>4. Finalizing(b1, c) => b2.flags[c] = b1.flags[c]
        BY <1>1, <2>1 DEF Keeps, Spares
    <2> QED BY <1>3, <2>1, <2>2, <2>3, <2>4
<1> HIDE DEF b2
<1>5. /\ Spares(b2, b3, Callbacks \ {c}) /\ b3.closure[c] = "CB_FINALIZE"
      /\ b3.flags[c] = b2.flags[c] \cup {"FINALIZING"}
    <2>1. b3 = [b2 EXCEPT !.flags[c] = @ \cup {"FINALIZING"}]
        OBVIOUS
    <2> HIDE DEF b3
    <2> QED BY <1>1, <1>4, <2>1, MarkSpares, ZenonT(30)
<1> HIDE DEF b3
<1>6. Spares(b, b3, Callbacks \ {c})
    BY <1>2, <1>3, <1>4, <1>5, SparesTwice
<1>7. IF Finalizing(b, c) THEN b3.flags[c] = b.flags[c]
      ELSE b3.flags[c] = {"ACTIVE", "FINALIZING"}
    <2>1. CASE Finalizing(b, c)
        <3>1. d.flags[c] = b.flags[c]
            BY <1>1, <1>2, <2>1 DEF Keeps, Spares
        <3>2. b2.flags[c] = b.flags[c]
            BY <1>3, <1>4, <2>1, <3>1 DEF Finalizing, Has
        <3> QED BY <1>5, <2>1, <3>2 DEF Finalizing, Has
    <2>2. CASE ~Finalizing(b, c)
        BY <1>2, <1>3, <1>4, <1>5, <2>2
    <2> QED BY <2>1, <2>2
<1>8. Finalizes(b, b3, c)
    BY <1>1, <1>5, <1>6, <1>7 DEF Finalizes
<1> QED BY <1>8, Zenon DEF event_callback_finalize_nolock_, b3, b2, b1, d

----------------------------------------------------------------------------
(* What the nolock functions do to the active queues and event_continue.   *)

\* From b to r no queue but, perhaps, those of the priorities in P stops being
\* empty, and event_continue stays as it is.
Fills(b, r, P) ==
    /\ r.event_continue = b.event_continue
    /\ \A p \in Priorities \ P : b.activequeues[p] = << >> => r.activequeues[p] = << >>

\* From b to r a queue more urgent than the one that is running stops being
\* empty only with event_continue set; and it is set for nothing else.
Hurries(b, r) ==
    /\ b.event_continue => r.event_continue
    /\ r.event_continue => b.event_continue \/ event_running_priority > 0
    /\ \A p \in Priorities : p < event_running_priority /\ b.activequeues[p] = << >> =>
           r.activequeues[p] = << >> \/ r.event_continue

\* Filling is transitive.
LEMMA FillsTwice ==
    ASSUME NEW b, NEW r, NEW s, NEW P, Fills(b, r, P), Fills(r, s, P)
    PROVE  Fills(b, s, P)
BY DEF Fills

\* A queue that none fills is filled by none.
LEMMA FillsMore ==
    ASSUME NEW b, NEW r, NEW P, Fills(b, r, {}) PROVE Fills(b, r, P)
BY DEF Fills

\* Hurrying is transitive.
LEMMA HurriesTwice ==
    ASSUME NEW b, NEW r, NEW s, Hurries(b, r), Hurries(r, s)
    PROVE  Hurries(b, s)
BY DEF Hurries

\* Filling a queue that is no more urgent than the one running is no hurry,
\* and neither is any once event_continue is set.
LEMMA FillsHurries ==
    ASSUME NEW b, NEW r, NEW P, Fills(b, r, P),
           b.event_continue \/ \A p \in P : ~(p < event_running_priority)
    PROVE  Hurries(b, r)
BY DEF Fills, Hurries

\* Assignments to other fields.
LEMMA FillsSame ==
    ASSUME NEW b, NEW r, r.activequeues = b.activequeues, r.event_continue = b.event_continue
    PROVE  Fills(b, r, {})
BY DEF Fills

\* The event_queue_ functions.
LEMMA QueuesFill ==
    ASSUME NEW b, NEW c \in Callbacks, BaseOK(b)
    PROVE  /\ Fills(b, event_queue_remove_timeout(b, c), {})
           /\ Fills(b, event_queue_insert_timeout(b, c), {})
           /\ Has(b, c, "ACTIVE") => Fills(b, event_queue_remove_active(b, c), {})
           /\ Fills(b, event_queue_insert_active(b, c), {evcb_pri[c]})
           /\ Fills(b, event_queue_remove_active_later(b, c), {})
           /\ Fills(b, event_queue_insert_active_later(b, c), {})
           /\ Fills(b, event_queue_remove_inserted(b, c), {})
           /\ Fills(b, event_queue_insert_inserted(b, c), {})
<1>1. b \in event_base /\ b.activequeues \in [Priorities -> Seq(Callbacks)]
    BY Zenon DEF BaseOK, event_base
<1>2. Fills(b, event_queue_remove_timeout(b, c), {})
    BY <1>1 DEF event_base, event_queue_remove_timeout, Fills
<1>3. Fills(b, event_queue_insert_timeout(b, c), {})
    BY <1>1 DEF event_base, event_queue_insert_timeout, Fills
<1>4. ASSUME Has(b, c, "ACTIVE") PROVE Fills(b, event_queue_remove_active(b, c), {})
    <2> DEFINE r == event_queue_remove_active(b, c)
               q == evcb_pri[c]
    <2>1. q \in Priorities /\ c \in ActiveAt(b.flags, q)
        BY <1>4, PrioritiesAssumption, SMTT(30) DEF ActiveAt, Has
    <2>2. b.activequeues[q] # << >>
        BY <2>1 DEF BaseOK, QueuesMatchFlags, Lists
    <2>3. /\ r.event_continue = b.event_continue
          /\ r.activequeues = [b.activequeues EXCEPT ![q] = TAILQ_REMOVE(b.activequeues[q], c)]
        BY <1>1 DEF event_base, event_queue_remove_active
    <2> HIDE DEF r, q
    <2>4. Fills(b, r, {})
        BY <1>1, <2>1, <2>2, <2>3 DEF Fills
    <2> QED BY <2>4 DEF r
<1>5. Fills(b, event_queue_insert_active(b, c), {evcb_pri[c]})
    <2> DEFINE r == event_queue_insert_active(b, c)
               q == evcb_pri[c]
    <2>1. CASE Has(b, c, "ACTIVE")
        BY <2>1 DEF event_queue_insert_active, Fills
    <2>2. CASE ~Has(b, c, "ACTIVE")
        <3>1. /\ r.event_continue = b.event_continue
              /\ r.activequeues = [b.activequeues EXCEPT ![q] = Append(b.activequeues[q], c)]
            BY <1>1, <2>2 DEF event_base, event_queue_insert_active
        <3> HIDE DEF r, q
        <3>2. Fills(b, r, {q})
            BY <1>1, <3>1 DEF Fills
        <3> QED BY <3>2 DEF r, q
    <2> QED BY <2>1, <2>2
<1>6. Fills(b, event_queue_remove_active_later(b, c), {})
    BY <1>1 DEF event_base, event_queue_remove_active_later, Fills
<1>7. Fills(b, event_queue_insert_active_later(b, c), {})
    BY <1>1 DEF event_base, event_queue_insert_active_later, Fills
<1>8. Fills(b, event_queue_remove_inserted(b, c), {})
    BY <1>1 DEF event_base, event_queue_remove_inserted, Fills
<1>9. Fills(b, event_queue_insert_inserted(b, c), {})
    BY <1>1 DEF event_base, event_queue_insert_inserted, Fills
<1> QED BY <1>2, <1>3, <1>4, <1>5, <1>6, <1>7, <1>8, <1>9

\* evthread_notify_base, and the assignments around a signal.
LEMMA AssignmentsFill ==
    ASSUME NEW b, NEW e, BaseOK(b)
    PROVE  /\ \A need, me : Fills(b, NotifyIf(b, need, me), {})
           /\ \A hit : Fills(b, abort_signal_loop(b, e, hit), {})
           /\ Fills(b, evmap_signal_add_(b, e), {})
           /\ Fills(b, signal_turn(b, e), {}) /\ Fills(b, event_signal_closure(b, e), {})
           /\ Fills(b, signal_closure_returns(b, e), {})
<1>1. ASSUME NEW need, NEW me PROVE Fills(b, NotifyIf(b, need, me), {})
    BY DEF BaseOK, event_base, NotifyIf, evthread_notify_base, Fills
<1>2. ASSUME NEW hit PROVE Fills(b, abort_signal_loop(b, e, hit), {})
    BY DEF BaseOK, event_base, abort_signal_loop, Fills
<1>3. Fills(b, evmap_signal_add_(b, e), {})
    BY DEF BaseOK, event_base, evmap_signal_add_, Fills
<1>4. Fills(b, signal_turn(b, e), {})
    BY DEF BaseOK, event_base, signal_turn, Fills
<1>5. Fills(b, event_signal_closure(b, e), {})
    BY DEF BaseOK, event_base, event_signal_closure, signal_turn, Fills
<1>6. Fills(b, signal_closure_returns(b, e), {})
    BY DEF BaseOK, event_base, signal_closure_returns, Fills
<1> QED BY <1>1, <1>2, <1>3, <1>4, <1>5, <1>6

\* event_del_nolock_.
LEMMA DelFills ==
    ASSUME NEW b, NEW e \in EventStructs, NEW ok, NEW hit, NEW me, BaseOK(b)
    PROVE  Fills(b, event_del_nolock_(b, e, ok, hit, me), {})
<1> DEFINE b1 == abort_signal_loop(b, e, hit)
           b2 == IF Has(b1, e, "TIMEOUT") THEN event_queue_remove_timeout(b1, e) ELSE b1
           b3 == IF Has(b2, e, "ACTIVE") THEN event_queue_remove_active(b2, e)
                 ELSE IF Has(b2, e, "ACTIVE_LATER")
                      THEN event_queue_remove_active_later(b2, e) ELSE b2
           b4 == IF Has(b3, e, "INSERTED") THEN event_queue_remove_inserted(b3, e) ELSE b3
           need == Has(b3, e, "INSERTED") /\ ok /\ evmap_changes(b3, e)
<1>1. e \in Callbacks
    BY DEF Callbacks
<1>2. BaseOK(b1) /\ Fills(b, b1, {})
    BY AbortSignalLoop, AssignmentsFill
<1> HIDE DEF b1
<1>3. BaseOK(b2) /\ Fills(b1, b2, {})
    BY <1>1, <1>2, RemoveTimeout, QueuesFill, FillsSame, Zenon
<1> HIDE DEF b2
<1>4. BaseOK(b3) /\ Fills(b2, b3, {})
    BY <1>1, <1>3, RemoveActive, RemoveActiveLater, QueuesFill, FillsSame, Zenon
<1> HIDE DEF b3
<1>5. BaseOK(b4) /\ Fills(b3, b4, {})
    BY <1>1, <1>4, RemoveInserted, QueuesFill, FillsSame, Zenon
<1> HIDE DEF b4
<1>6. Fills(b4, NotifyIf(b4, need, me), {})
    BY <1>5, AssignmentsFill
<1>7. Fills(b, NotifyIf(b4, need, me), {})
    BY <1>2, <1>3, <1>4, <1>5, <1>6, FillsTwice
<1> QED BY <1>7, Zenon DEF event_del_nolock_, b1, b2, b3, b4

\* The second half of event_add_nolock_.
LEMMA AddTimeoutFills ==
    ASSUME NEW b, NEW e \in EventStructs, NEW tv_ \in Nat, NEW absolute \in BOOLEAN,
           NEW hit, BaseOK(b), gettime \in Nat
    PROVE  Fills(b, event_add_timeout(b, e, tv_, absolute, hit), {})
<1> DEFINE a0 == [b EXCEPT !.ev_io_timeout[e] = tv_]
           b1 == IF b.closure[e] = "EVENT_PERSIST" /\ ~absolute THEN a0 ELSE b
           b2 == IF Has(b1, e, "TIMEOUT") THEN event_queue_remove_timeout(b1, e) ELSE b1
           a  == abort_signal_loop(b2, e, hit)
           b3 == IF Has(b2, e, "ACTIVE") /\ b2.res_timeout[e]
                 THEN event_queue_remove_active(a, e) ELSE b2
           at == IF absolute THEN tv_ ELSE gettime + tv_
           b4 == [b3 EXCEPT !.ev_timeout[e] = at]
           b5 == event_queue_insert_timeout(b4, e)
<1>1. e \in Callbacks
    BY DEF Callbacks
<1>2. BaseOK(b1) /\ Fills(b, b1, {})
    <2>1. a0 \in event_base /\ Assigned(b, a0)
        BY Zenon DEF BaseOK, event_base, Assigned
    <2>2. BaseOK(a0)
        BY <2>1, AssignedOK
    <2>3. a0.activequeues = b.activequeues /\ a0.event_continue = b.event_continue
        BY DEF BaseOK, event_base
    <2> HIDE DEF a0
    <2> QED BY <2>2, <2>3, FillsSame
<1> HIDE DEF b1
<1>3. BaseOK(b2) /\ Fills(b1, b2, {})
    BY <1>1, <1>2, RemoveTimeout, QueuesFill, FillsSame, Zenon
<1> HIDE DEF b2
<1>4. BaseOK(a) /\ Fills(b2, a, {}) /\ a.flags = b2.flags
    BY <1>3, AbortSignalLoop, AssignmentsFill, AbortKeeps, Zenon
<1> HIDE DEF a
<1>5. BaseOK(b3) /\ Fills(b2, b3, {})
    <2>1. CASE Has(b2, e, "ACTIVE") /\ b2.res_timeout[e]
        <3>1. Has(a, e, "ACTIVE")
            BY <1>4, <2>1 DEF Has
        <3>2. /\ BaseOK(event_queue_remove_active(a, e))
              /\ Fills(a, event_queue_remove_active(a, e), {})
            BY <1>1, <1>4, <3>1, RemoveActive, QueuesFill, Zenon
        <3> QED BY <1>4, <2>1, <3>2, FillsTwice
    <2>2. CASE ~(Has(b2, e, "ACTIVE") /\ b2.res_timeout[e])
        BY <1>3, <2>2, FillsSame
    <2> QED BY <2>1, <2>2
<1> HIDE DEF b3
<1>6. BaseOK(b4) /\ Fills(b3, b4, {})
    <2>1. at \in Nat
        OBVIOUS
    <2> HIDE DEF at
    <2>2. b4 \in event_base /\ Assigned(b3, b4)
        BY <1>5, <2>1, Zenon DEF BaseOK, event_base, Assigned
    <2>3. BaseOK(b4)
        BY <1>5, <2>2, AssignedOK
    <2>4. b4.activequeues = b3.activequeues /\ b4.event_continue = b3.event_continue
        BY <1>5 DEF BaseOK, event_base
    <2> HIDE DEF b4
    <2> QED BY <2>3, <2>4, FillsSame
<1> HIDE DEF b4
<1>7. Fills(b4, b5, {})
    BY <1>1, <1>6, QueuesFill, Zenon
<1> HIDE DEF b5
<1>8. Fills(b, b5, {})
    BY <1>2, <1>3, <1>5, <1>6, <1>7, FillsTwice
<1> QED BY <1>8, Zenon DEF event_add_timeout, b1, a0, b2, a, b3, at, b4, b5

\* event_add_nolock_.
LEMMA AddFills ==
    ASSUME NEW b, NEW e \in EventStructs, NEW tv_ \in Nat \cup {NoTV},
           NEW absolute \in BOOLEAN, NEW ok, NEW hit, NEW me, BaseOK(b), gettime \in Nat
    PROVE  Fills(b, event_add_nolock_(b, e, tv_, absolute, ok, hit, me), {})
<1> DEFINE insert == e \notin TimerEvents /\ ~Has(b, e, "INSERTED") /\ ~IsActive(b, e)
           timed  == tv_ # NoTV /\ (insert => ok)
           s  == evmap_signal_add_(b, e)
           b1 == IF insert /\ ok THEN event_queue_insert_inserted(s, e) ELSE b
           b2 == IF timed THEN event_add_timeout(b1, e, tv_, absolute, hit) ELSE b1
           earliest == \/ min_heap_elt_is_top_(b2, e)
                       \/ \E o \in Timeouts(b2) : b2.ev_timeout[o] < gettime
           need == (insert /\ ok /\ evmap_changes(b, e)) \/ (timed /\ earliest)
<1>1. BaseOK(s) /\ s.flags[e] = b.flags[e] /\ e \in Callbacks
    <2>1. CASE e \in SignalEvents
        BY <2>1, SignalAdd DEF Callbacks
    <2>2. CASE e \notin SignalEvents
        BY <2>2 DEF evmap_signal_add_, Callbacks
    <2> QED BY <2>1, <2>2
<1>2. Fills(b, s, {})
    BY AssignmentsFill
<1> HIDE DEF s
<1>3. BaseOK(b1) /\ Fills(b, b1, {})
    <2>1. CASE insert /\ ok
        <3>1. ~Has(s, e, "INSERTED")
            BY <1>1, <2>1 DEF Has
        <3>2. BaseOK(b1) /\ Fills(s, b1, {})
            BY <1>1, <2>1, <3>1, InsertInserted, QueuesFill, Zenon
        <3> HIDE DEF b1
        <3> QED BY <1>2, <3>2, FillsTwice
    <2>2. CASE ~(insert /\ ok)
        BY <2>2, FillsSame
    <2> QED BY <2>1, <2>2
<1> HIDE DEF b1
<1>4. BaseOK(b2) /\ Fills(b1, b2, {})
    <2>1. CASE timed
        <3>1. tv_ \in Nat
            BY <2>1
        <3> QED BY <1>3, <2>1, <3>1, AddTimeout, AddTimeoutFills
    <2>2. CASE ~timed
        BY <1>3, <2>2, FillsSame
    <2> QED BY <2>1, <2>2
<1> HIDE DEF b2
<1>5. Fills(b2, NotifyIf(b2, need, me), {})
    BY <1>4, AssignmentsFill, Zenon
<1>6. Fills(b, NotifyIf(b2, need, me), {})
    BY <1>3, <1>4, <1>5, FillsTwice, Zenon
<1> QED BY <1>6, Zenon DEF event_add_nolock_, b2, b1, s

\* The rescheduling of a persistent event.
LEMMA PersistFills ==
    ASSUME NEW b, NEW e \in EventStructs, NEW ok, BaseOK(b), gettime \in Nat
    PROVE  Fills(b, event_persist_closure(b, e, ok), {})
<1> DEFINE from   == IF b.res_timeout[e] THEN b.ev_timeout[e] ELSE gettime
           at     == from + b.ev_io_timeout[e]
           run_at == IF at < gettime THEN gettime + b.ev_io_timeout[e] ELSE at
<1>1. run_at \in Nat
    BY DEF BaseOK, event_base
<1> HIDE DEF run_at
<1>2. Fills(b, event_add_nolock_(b, e, run_at, TRUE, ok, TRUE, th_owner_id), {})
    BY <1>1, AddFills, Zenon
<1> QED BY <1>2, FillsSame, Zenon DEF event_persist_closure, run_at

\* event_callback_activate_nolock_ and event_callback_activate_later_nolock_.
LEMMA ActivateFills ==
    ASSUME NEW b, NEW c \in Callbacks, NEW me, BaseOK(b)
    PROVE  /\ Fills(b, event_callback_activate_nolock_(b, c, me), {evcb_pri[c]})
           /\ Fills(b, event_callback_activate_later_nolock_(b, c, me), {})
<1>1. Fills(b, event_callback_activate_nolock_(b, c, me), {evcb_pri[c]})
    <2> DEFINE b1 == IF Has(b, c, "ACTIVE_LATER")
                     THEN event_queue_remove_active_later(b, c) ELSE b
               b2 == event_queue_insert_active(b1, c)
               P  == {evcb_pri[c]}
    <2>1. CASE Has(b, c, "FINALIZING") \/ Has(b, c, "ACTIVE")
        BY <2>1, FillsSame, FillsMore, Zenon DEF event_callback_activate_nolock_
    <2>2. CASE ~(Has(b, c, "FINALIZING") \/ Has(b, c, "ACTIVE"))
        <3>1. BaseOK(b1) /\ Fills(b, b1, {}) /\ ~IsActive(b1, c)
            <4>1. CASE Has(b, c, "ACTIVE_LATER")
                <5>1. ~IsActive(event_queue_remove_active_later(b, c), c)
                    BY <2>2 DEF BaseOK, event_base, event_queue_remove_active_later, IsActive, Has
                <5> QED BY <4>1, <5>1, RemoveActiveLater, QueuesFill, Zenon
            <4>2. CASE ~Has(b, c, "ACTIVE_LATER")
                BY <2>2, <4>2, FillsSame DEF IsActive
            <4> QED BY <4>1, <4>2
        <3> HIDE DEF b1
        <3>2. BaseOK(b2) /\ Fills(b1, b2, P)
            BY <3>1, InsertActive, QueuesFill
        <3> HIDE DEF b2
        <3>3. Fills(b2, NotifyIf(b2, TRUE, me), {})
            BY <3>2, AssignmentsFill, Zenon
        <3> HIDE DEF P
        <3>4. Fills(b, NotifyIf(b2, TRUE, me), P)
            BY <3>1, <3>2, <3>3, FillsTwice, FillsMore, Zenon
        <3> QED BY <2>2, <3>4, Zenon DEF event_callback_activate_nolock_, b2, b1, P
    <2> QED BY <2>1, <2>2
<1>2. Fills(b, event_callback_activate_later_nolock_(b, c, me), {})
    <2> DEFINE r == event_queue_insert_active_later(b, c)
    <2>1. CASE IsActive(b, c)
        BY <2>1, FillsSame DEF event_callback_activate_later_nolock_
    <2>2. CASE ~IsActive(b, c)
        <3>1. BaseOK(r) /\ Fills(b, r, {})
            BY <2>2, InsertActiveLater, QueuesFill, Zenon
        <3> HIDE DEF r
        <3>2. Fills(b, NotifyIf(r, TRUE, me), {})
            BY <3>1, AssignmentsFill, FillsTwice, Zenon
        <3> QED BY <2>2, <3>2, Zenon DEF event_callback_activate_later_nolock_, r
    <2> QED BY <2>1, <2>2
<1> QED BY <1>1, <1>2

\* The second half of event_active_nolock_.
LEMMA FinishFills ==
    ASSUME NEW b, NEW e \in EventStructs, NEW n \in Nat, NEW me, BaseOK(b)
    PROVE  Fills(b, event_active_finish(b, e, n, me), {evcb_pri[e]})
<1> DEFINE a  == [b EXCEPT !.ev_ncalls[e] = n, !.ev_pncalls[e] = "NULL"]
           b1 == IF e \in SignalEvents THEN a ELSE b
           r  == event_callback_activate_nolock_(b1, e, me)
           P  == {evcb_pri[e]}
<1>1. a \in event_base /\ Assigned(b, a)
    BY Zenon DEF BaseOK, event_base, Assigned
<1>2. BaseOK(a) /\ e \in Callbacks
    BY <1>1, AssignedOK DEF Callbacks
<1>3. a.activequeues = b.activequeues /\ a.event_continue = b.event_continue
    BY DEF BaseOK, event_base
<1> HIDE DEF a
<1>4. BaseOK(b1) /\ Fills(b, b1, {})
    BY <1>2, <1>3, FillsSame
<1> HIDE DEF b1
<1>5. Fills(b1, r, P)
    BY <1>2, <1>4, ActivateFills
<1> HIDE DEF r, P
<1>6. Fills(b, r, P)
    BY <1>4, <1>5, FillsTwice, FillsMore
<1> QED BY <1>6, Zenon DEF event_active_finish, r, b1, a, P

\* Its first half sets event_continue when the event is more urgent than the
\* queue that is running.
LEMMA EnterHurries ==
    ASSUME NEW b, NEW e \in EventStructs, NEW timeout, BaseOK(b),
           event_running_priority \in Priorities \cup {-1}
    PROVE  LET r == event_active_enter(b, e, timeout)
           IN  /\ Hurries(b, r)
               /\ ~Has(b, e, "ACTIVE") =>
                      r.event_continue \/ ~(evcb_pri[e] < event_running_priority)
<1> DEFINE r == event_active_enter(b, e, timeout)
           urgent == ~Has(b, e, "ACTIVE") /\ evcb_pri[e] < event_running_priority
<1>1. r.activequeues = b.activequeues /\ r.event_continue = (b.event_continue \/ urgent)
    BY Zenon DEF BaseOK, event_base, event_active_enter
<1>2. urgent => event_running_priority > 0
    <2>1. evcb_pri[e] \in Priorities
        BY PrioritiesAssumption DEF Callbacks
    <2> QED BY <2>1, PrioritiesAssumption DEF Priorities
<1> HIDE DEF r
<1>3. Hurries(b, r) /\ (urgent => r.event_continue)
    BY <1>1, <1>2, Zenon DEF Hurries
<1> QED BY <1>3 DEF r

\* event_active_nolock_.
LEMMA ActiveHurries ==
    ASSUME NEW b, NEW e \in EventStructs, NEW timeout \in BOOLEAN, NEW n \in Nat, NEW me,
           BaseOK(b), event_running_priority \in Priorities \cup {-1}
    PROVE  Hurries(b, event_active_nolock_(b, e, timeout, n, me))
<1> DEFINE r == event_active_enter(b, e, timeout)
           f == event_active_finish(r, e, n, me)
<1>1. /\ BaseOK(r) /\ Hurries(b, r)
      /\ ~Has(b, e, "ACTIVE") => r.event_continue \/ ~(evcb_pri[e] < event_running_priority)
    BY ActiveEnter, EnterHurries, Zenon
<1> HIDE DEF r
<1>2. Fills(r, f, {evcb_pri[e]})
    BY <1>1, FinishFills
<1> HIDE DEF f
<1>3. ~Has(b, e, "ACTIVE") => Hurries(b, f)
    BY <1>1, <1>2, FillsHurries, HurriesTwice
<1>4. Hurries(b, b)
    BY DEF Hurries
<1> QED BY <1>1, <1>3, <1>4, Zenon DEF event_active_nolock_, r, f

\* event_finalize_nolock_ up to the wait.
LEMMA FinalizeEnterHurries ==
    ASSUME NEW b, NEW e \in Events, NEW closure \in Finalizers, NEW ok, NEW hit, NEW me,
           BaseOK(b), event_running_priority \in Priorities \cup {-1}
    PROVE  LET r == event_finalize_enter(b, e, closure, ok, hit, me)
           IN  /\ Hurries(b, r)
               /\ ~Finalizing(b, e) =>
                      r.event_continue \/ ~(evcb_pri[e] < event_running_priority)
<1> DEFINE d  == event_del_nolock_(b, e, ok, hit, me)
           b1 == IF Has(b, e, "FINALIZING") THEN b ELSE d
           b2 == [b1 EXCEPT !.closure[e] = closure]
           b3 == event_active_enter(b2, e, FALSE)
           r  == event_finalize_enter(b, e, closure, ok, hit, me)
<1>1. e \in EventStructs /\ e \in Callbacks
    BY DEF EventStructs, Callbacks
<1>2. /\ BaseOK(b1) /\ Fills(b, b1, {})
      /\ ~Finalizing(b, e) => b1.flags[e] = {}
    BY <1>1, DelNolock, DelFills, DelKeeps, FillsSame, Zenon DEF Finalizing
<1> HIDE DEF d, b1
<1>3. BaseOK(b2)
    BY <1>1, <1>2, SetFinalizer, Zenon
<1>4. /\ b2.activequeues = b1.activequeues /\ b2.event_continue = b1.event_continue
      /\ b2.flags = b1.flags
    BY <1>2 DEF BaseOK, event_base
<1> HIDE DEF b2
<1>5. Hurries(b, b2)
    <2>1. Fills(b, b2, {})
        BY <1>2, <1>4, FillsSame, FillsTwice
    <2> QED BY <2>1, FillsHurries
<1>6. /\ Hurries(b2, b3)
      /\ ~Has(b2, e, "ACTIVE") =>
             b3.event_continue \/ ~(evcb_pri[e] < event_running_priority)
    BY <1>1, <1>3, EnterHurries, Zenon
<1> HIDE DEF b3
<1>7. ~Finalizing(b, e) => ~Has(b2, e, "ACTIVE")
    BY <1>2, <1>4 DEF Has
<1>8. r = IF Finalizing(b, e) THEN b2 ELSE b3
    BY Zenon DEF event_finalize_enter, Finalizing, b3, b2, b1, d
<1> HIDE DEF r
<1>9. /\ Hurries(b, r)
      /\ ~Finalizing(b, e) => r.event_continue \/ ~(evcb_pri[e] < event_running_priority)
    BY <1>5, <1>6, <1>7, <1>8, HurriesTwice
<1> QED BY <1>9 DEF r

\* The end of event_finalize_nolock_.
LEMMA FinalizeFinishFills ==
    ASSUME NEW b, NEW e \in Events, NEW me, BaseOK(b)
    PROVE  Fills(b, event_finalize_finish(b, e, me), {evcb_pri[e]})
<1> DEFINE f == event_active_finish(b, e, 1, me)
           r == [f EXCEPT !.flags[e] = @ \cup {"FINALIZING"}]
           P == {evcb_pri[e]}
<1>1. BaseOK(f) /\ Fills(b, f, P)
    BY ActiveFinish, FinishFills DEF EventStructs
<1> HIDE DEF f, P
<1>2. r.activequeues = f.activequeues /\ r.event_continue = f.event_continue
    BY <1>1 DEF BaseOK, event_base
<1> HIDE DEF r
<1>3. Fills(b, r, P)
    BY <1>1, <1>2, FillsSame, FillsMore, FillsTwice
<1> QED BY <1>3, Zenon DEF event_finalize_finish, f, r, P

\* event_callback_cancel_nolock_ and event_callback_finalize_nolock_.
LEMMA CallbackFills ==
    ASSUME NEW b, NEW c \in Callbacks, NEW me, BaseOK(b)
    PROVE  /\ Fills(b, event_callback_cancel_nolock_(b, c), {})
           /\ Fills(b, event_callback_finalize_nolock_(b, c, me), {evcb_pri[c]})
<1> DEFINE d  == event_callback_cancel_nolock_(b, c)
           b1 == [d EXCEPT !.closure[c] = "CB_FINALIZE"]
           b2 == event_callback_activate_nolock_(b1, c, me)
           b3 == [b2 EXCEPT !.flags[c] = @ \cup {"FINALIZING"}]
           P  == {evcb_pri[c]}
<1>1. BaseOK(d) /\ Fills(b, d, {})
    BY CallbackCancel, QueuesFill, FillsSame, Zenon DEF event_callback_cancel_nolock_
<1> HIDE DEF d
<1>2. BaseOK(b1)
    BY <1>1, SetFinalizer, Zenon DEF Finalizers
<1>3. b1.activequeues = d.activequeues /\ b1.event_continue = d.event_continue
    BY <1>1 DEF BaseOK, event_base
<1> HIDE DEF b1
<1>4. BaseOK(b2) /\ Fills(b1, b2, P)
    BY <1>2, Activate, ActivateFills
<1> HIDE DEF b2
<1>5. b3.activequeues = b2.activequeues /\ b3.event_continue = b2.event_continue
    BY <1>4 DEF BaseOK, event_base
<1> HIDE DEF b3, P
<1>6. Fills(b, b3, P)
    BY <1>1, <1>3, <1>4, <1>5, FillsSame, FillsMore, FillsTwice
<1> QED BY <1>1, <1>6, Zenon DEF event_callback_finalize_nolock_, b3, b2, b1, d, P
=============================================================================
