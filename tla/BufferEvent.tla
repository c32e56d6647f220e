---------------------------- MODULE BufferEvent -----------------------------
(***************************************************************************)
(* The bufferevents of bufferevent.c, bufferevent_sock.c,                  *)
(* bufferevent_pair.c, bufferevent_filter.c and the rate limits of         *)
(* bufferevent_ratelim.c.  Buffers are modelled by their lengths (their    *)
(* content is EvBuffer's subject), timeouts by whether they are armed.     *)
(* The functions of the code call each other through be_ops and through    *)
(* evbuffer callbacks, all under the bufferevent's lock; each is an        *)
(* operator from the map m of all bufferevents to the map it leaves.  An   *)
(* event handler is one step up to the program's callback, and the program *)
(* may call anything while the callback runs.                              *)
(***************************************************************************)
EXTENDS TokenBuckets, FiniteSets, Sequences

CONSTANTS Bevs, NoBev,
          Kinds,          \* the kind of each bufferevent: [Bevs -> {"socket", "pair", "filter"}]
          Others,         \* a pair's partner, or the bufferevent under a filter
          Deferring,      \* the bufferevents made with BEV_OPT_DEFER_CALLBACKS
          NullFilters,    \* the filters created with NULL filter functions
          Highs,          \* the high watermarks the program sets (0 is none)
          Rate, Burst,    \* the one token bucket configuration
          MinShare,       \* the group's configured_min_share
          MaxLen,         \* bound on the bytes of one buffer
          MaxDebt,        \* bound on how far a bucket is overdrawn
          MaxFill,        \* bound on how far a bucket is filled above Burst
          MaxTicks,       \* bound on the ticks between two updates
          Careful         \* TRUE: the program keeps clear of the uses marked Careful

ASSUME RateAssumption == ev_token_bucket_cfg_new(Rate, Burst)

VARIABLES bev,      \* the bufferevents
          grp,      \* the rate limiting group
          finals,   \* the bufferevents whose finalizer is queued, oldest first
          calling   \* the callback of the program the loop is running

bevVars == <<bev, grp, finals, calling>>

R == "R"
W == "W"
Idle == [b |-> NoBev, cb |-> "none", then |-> "none", stage |-> 0, current |-> "none"]

Live(m, b) == m[b].state = "live"
least(x, y) == IF x < y THEN x ELSE y

-----------------------------------------------------------------------------
\* bufferevent_add_event_ and event_del on ev_read and ev_write.  Adding the
\* event that carries a finalizer fails (EVLIST_FINALIZING).
add_read(m, b) ==
    IF m[b].final = "ev_read" THEN m
    ELSE [m EXCEPT ![b].evr = TRUE, ![b].tr = @ \/ m[b].tor]
add_write(m, b) ==
    IF m[b].final = "ev_write" THEN m
    ELSE [m EXCEPT ![b].evw = TRUE, ![b].tw = @ \/ m[b].tow]
del_read(m, b) == [m EXCEPT ![b].evr = FALSE, ![b].tr = FALSE]
del_write(m, b) == [m EXCEPT ![b].evw = FALSE, ![b].tw = FALSE]

\* Filters and pairs use the two events for their timers only.
BEV_RESET_GENERIC_READ_TIMEOUT(m, b) == [m EXCEPT ![b].tr = @ \/ m[b].tor]
BEV_RESET_GENERIC_WRITE_TIMEOUT(m, b) == [m EXCEPT ![b].tw = @ \/ m[b].tow]

-----------------------------------------------------------------------------
(* Socket bufferevents. *)

be_socket_enable(m, b, ev) ==
    [m EXCEPT ![b] = [@ EXCEPT
        !.evr = @ \/ (R \in ev /\ m[b].final # "ev_read"),
        !.tr = @ \/ (R \in ev /\ m[b].final # "ev_read" /\ m[b].tor),
        !.evw = @ \/ (W \in ev /\ m[b].final # "ev_write"),
        !.tw = @ \/ (W \in ev /\ m[b].final # "ev_write" /\ m[b].tow)]]

be_socket_disable(m, b, ev) ==
    LET reads == R \in ev
        writes == W \in ev /\ ~m[b].connecting
    IN [m EXCEPT ![b] = [@ EXCEPT !.evr = @ /\ ~reads, !.tr = @ /\ ~reads,
                                  !.evw = @ /\ ~writes, !.tw = @ /\ ~writes]]

bufferevent_socket_outbuf_cb(m, b) ==
    IF W \in m[b].enabled /\ ~m[b].evw /\ m[b].ws = {} THEN add_write(m, b) ELSE m

-----------------------------------------------------------------------------
(* Suspending, which calls the kind's disable.  A filter's suspends the    *)
(* bufferevent below it, which is a socket.                                *)

suspend_below(m, u) ==
    [(IF m[u].rs = {} THEN be_socket_disable(m, u, {R}) ELSE m) EXCEPT ![u].rs = @ \cup {"FILT"}]

be_pair_disable(m, b, ev) ==
    [m EXCEPT ![b] = [@ EXCEPT !.evr = @ /\ R \notin ev, !.tr = @ /\ R \notin ev,
                               !.evw = @ /\ W \notin ev, !.tw = @ /\ W \notin ev]]

be_filter_disable(m, f, ev) ==
    IF R \in ev THEN suspend_below(be_pair_disable(m, f, ev), Others[f]) ELSE be_pair_disable(m, f, ev)

be_disable(m, b, ev) ==
    CASE Kinds[b] = "socket" -> be_socket_disable(m, b, ev)
      [] Kinds[b] = "pair" -> be_pair_disable(m, b, ev)
      [] Kinds[b] = "filter" -> be_filter_disable(m, b, ev)

bufferevent_suspend_read_(m, b, what) ==
    [(IF m[b].rs = {} THEN be_disable(m, b, {R}) ELSE m) EXCEPT ![b].rs = @ \cup {what}]
bufferevent_suspend_write_(m, b, what) ==
    [(IF m[b].ws = {} THEN be_disable(m, b, {W}) ELSE m) EXCEPT ![b].ws = @ \cup {what}]

disable(m, b, ev) == be_disable([m EXCEPT ![b].enabled = @ \ ev], b, ev)

-----------------------------------------------------------------------------
(* Callbacks that are the program's.  One that is not deferred is left to  *)
(* the action that runs the handler (Report below).                        *)

\* SCHEDULE_DEFERRED: a newly scheduled callback holds a reference.
SCHEDULE_DEFERRED(m, b, what) ==
    [m EXCEPT ![b].pend = @ \cup {what},
              ![b].refs = IF m[b].sched THEN @ ELSE @ + 1,
              ![b].sched = TRUE]

told(m, b, what) ==
    IF m[b].cbs # "none" /\ b \in Deferring THEN SCHEDULE_DEFERRED(m, b, what) ELSE m

told_event(m, b, what) ==
    IF m[b].cbs # "none" /\ b \in Deferring THEN SCHEDULE_DEFERRED(m, b, what)
    ELSE [m EXCEPT ![b].waits = @ /\ what \notin {"CONNECTED", "ERROR"} /\ m[b].cbs # "none"]

\* bufferevent_trigger_nolock_ with the low watermarks at their defaults.
told_written(m, b) == IF m[b].out = 0 THEN told(m, b, "WRITE") ELSE m

-----------------------------------------------------------------------------
(* Pairs. *)

be_pair_wants_to_talk(m, src, dst) ==
    /\ W \in m[src].enabled
    /\ R \in m[dst].enabled
    /\ m[dst].rs = {}
    /\ m[src].out > 0

\* bufferevent_inbuf_wm_cb after a transfer to b.  One that did not fill the
\* input moved all there was, so that enabling b only resets its timer.
pair_wm_cb(m, b) ==
    IF m[b].high = 0 THEN m
    ELSE IF m[b].in >= m[b].high THEN bufferevent_suspend_read_(m, b, "WM")
    ELSE IF m[b].rs \ {"WM"} = {} /\ R \in m[b].enabled
    THEN BEV_RESET_GENERIC_READ_TIMEOUT([m EXCEPT ![b].rs = {}], b)
    ELSE [m EXCEPT ![b].rs = @ \ {"WM"}]

full(m, b) == m[b].high # 0 /\ m[b].in >= m[b].high
\* How much a transfer asks for, and what it moves of that.
wanted(m, src, dst) == IF m[dst].high # 0 /\ ~full(m, dst) THEN m[dst].high - m[dst].in ELSE m[src].out
moved(m, src, dst, k) ==
    IF k = 0 THEN m ELSE pair_wm_cb([m EXCEPT ![src].out = @ - k, ![dst].in = @ + k], dst)
reset_timers(m, b) ==
    IF m[b].out > 0 THEN BEV_RESET_GENERIC_WRITE_TIMEOUT(BEV_RESET_GENERIC_READ_TIMEOUT(m, b), b)
    ELSE del_write(BEV_RESET_GENERIC_READ_TIMEOUT(m, b), b)
transferred(m, src, dst, n) ==
    IF n = 0 THEN m ELSE reset_timers(moved(m, src, dst, least(n, m[src].out)), dst)

\* Mutant: data that fills the partner's input is not announced (a part of it).
announce_room(m, b) == IF m[b].rs = {} THEN told(m, b, "READ") ELSE m
\* Mutant: data that fills the partner's input is not announced.
transfer_quiet(m, src, dst, ignore_wm) ==
    IF full(m, dst) /\ ~ignore_wm THEN m
    ELSE told_written(announce_room(transferred(m, src, dst, wanted(m, src, dst)), dst), src)

be_pair_transfer(m, src, dst, ignore_wm) ==
    IF full(m, dst) /\ ~ignore_wm THEN m
    ELSE told_written(told(transferred(m, src, dst, wanted(m, src, dst)), dst, "READ"), src)

\* The transfer, if the two sides are there and want to talk.
talk(m, src, dst) ==
    IF src # NoBev /\ dst # NoBev /\ be_pair_wants_to_talk(m, src, dst)
    THEN be_pair_transfer(m, src, dst, FALSE) ELSE m

be_pair_outbuf_cb(m, b) == IF m[b].partner # NoBev THEN talk(m, b, m[b].partner) ELSE m

pair_timers(m, b, ev) ==
    [m EXCEPT ![b].tr = @ \/ (R \in ev /\ m[b].tor),
              ![b].tw = @ \/ (W \in ev /\ m[b].out > 0 /\ m[b].tow)]

\* Mutant: enabling reading does not ask the partner for what it holds.
pair_enable_silent(m, b, ev) ==
    IF m[b].partner = NoBev \/ W \notin ev THEN pair_timers(m, b, ev)
    ELSE talk(pair_timers(m, b, ev), b, m[b].partner)

be_pair_enable(m, b, ev) ==
    LET p == m[b].partner
        pulls == IF R \in ev THEN p ELSE NoBev
        pushes == IF W \in ev THEN p ELSE NoBev
    IN talk(talk(pair_timers(m, b, ev), pulls, b), b, pushes)

be_pair_unlink(m, b) ==
    LET p == m[b].partner
    IN IF p = NoBev THEN m
       ELSE [m EXCEPT ![b].unlinked = p, ![b].partner = NoBev, ![p].partner = NoBev]

\* The lock both sides use goes to the side destroyed last.
be_pair_destruct(m, b) ==
    LET p == m[b].unlinked
    IN IF p # NoBev /\ m[b].own_lock
       THEN [m EXCEPT ![p].own_lock = TRUE, ![b].own_lock = FALSE, ![b].unlinked = NoBev]
       ELSE [m EXCEPT ![b].unlinked = NoBev]

-----------------------------------------------------------------------------
(* Enabling, and what ends a suspension. *)

unsuspend_below(m, u) ==
    IF m[u].rs \ {"FILT"} = {} /\ R \in m[u].enabled
    THEN be_socket_enable([m EXCEPT ![u].rs = {}], u, {R}) ELSE [m EXCEPT ![u].rs = @ \ {"FILT"}]

be_filter_enable(m, f, ev) ==
    LET timed == [m EXCEPT ![f].tr = @ \/ (R \in ev /\ m[f].tor), ![f].tw = @ \/ (W \in ev /\ m[f].tow)]
    IN IF R \in ev THEN unsuspend_below(timed, Others[f]) ELSE timed

be_enable(m, b, ev) ==
    CASE Kinds[b] = "socket" -> be_socket_enable(m, b, ev)
      [] Kinds[b] = "pair" -> be_pair_enable(m, b, ev)
      [] Kinds[b] = "filter" -> be_filter_enable(m, b, ev)

\* Enables b for ev if what still suspends it, and its enabled, allow.
resume(m, b, ev, still) == IF still = {} /\ ev \subseteq m[b].enabled THEN be_enable(m, b, ev) ELSE m

\* Mutant: the reason goes away and the others are forgotten.
unsuspend_any(m, b, what) == resume([m EXCEPT ![b].rs = @ \ {what}], b, {R}, {})

bufferevent_unsuspend_read_(m, b, what) ==
    resume([m EXCEPT ![b].rs = @ \ {what}], b, {R}, m[b].rs \ {what})
bufferevent_unsuspend_write_(m, b, what) ==
    resume([m EXCEPT ![b].ws = @ \ {what}], b, {W}, m[b].ws \ {what})

bufferevent_inbuf_wm_cb(m, b) ==
    IF m[b].high = 0 THEN m
    ELSE IF m[b].in >= m[b].high THEN bufferevent_suspend_read_(m, b, "WM")
    ELSE bufferevent_unsuspend_read_(m, b, "WM")

\* bufferevent_enable.
enable(m, b, ev) ==
    LET impl == ev \ ((IF m[b].rs # {} THEN {R} ELSE {}) \cup (IF m[b].ws # {} THEN {W} ELSE {}))
        m1 == [m EXCEPT ![b].enabled = @ \cup ev]
    IN IF impl = {} THEN m1 ELSE be_enable(m1, b, impl)

-----------------------------------------------------------------------------
(* Filters.  A filter function moves what it may and says BEV_OK when it    *)
(* moved something; the built-in be_null_filter moves everything it may and *)
(* says BEV_OK only when evbuffer_remove_buffer returned 0.                 *)

Over(b) == CHOOSE f \in Bevs : Kinds[f] = "filter" /\ Others[f] = b

be_underlying_writebuf_full(m, f) ==
    LET u == Others[f] IN m[u].whigh # 0 /\ m[u].out >= m[u].whigh
be_readbuf_full(m, f) == full(m, f)

filter_says_ok(f, k) == IF f \in NullFilters THEN k = 0 ELSE k > 0

\* How much be_filter_process_input moves, or None when it does not try, and
\* the map it leaves.
None == -1
input_moved(m, f, flush) ==
    IF ~flush /\ (R \notin m[f].enabled \/ be_readbuf_full(m, f)) THEN None
    ELSE IF ~flush /\ m[f].high # 0 THEN least(m[f].high - m[f].in, m[Others[f]].in)
    ELSE m[Others[f]].in
filtered_in(m, f, k) ==
    IF k <= 0 THEN m
    ELSE bufferevent_inbuf_wm_cb(bufferevent_inbuf_wm_cb(
             [m EXCEPT ![Others[f]].in = @ - k, ![f].in = @ + k], Others[f]), f)
be_filter_process_input(m, f, k) ==
    IF k # None /\ filter_says_ok(f, k)
    THEN BEV_RESET_GENERIC_READ_TIMEOUT(filtered_in(m, f, k), f) ELSE filtered_in(m, f, k)

output_moved(m, f, flush) ==
    IF ~flush /\ (W \notin m[f].enabled \/ be_underlying_writebuf_full(m, f) \/ m[f].out = 0) THEN None
    ELSE IF ~flush /\ m[Others[f]].whigh # 0
    THEN least(m[Others[f]].whigh - m[Others[f]].out, m[f].out) ELSE m[f].out
filtered_out(m, f, k) ==
    IF k <= 0 THEN m
    ELSE bufferevent_socket_outbuf_cb([m EXCEPT ![f].out = @ - k, ![Others[f]].out = @ + k], Others[f])
process_output(m, f, k) ==
    IF k # None /\ filter_says_ok(f, k)
    THEN BEV_RESET_GENERIC_WRITE_TIMEOUT(told_written(filtered_out(m, f, k), f), f)
    ELSE filtered_out(m, f, k)
be_filter_process_output(m, f, flush) == process_output(m, f, output_moved(m, f, flush))

\* What did not fit waits for the program to make room (inbuf_cb).
wait_for_room(m, f) ==
    IF m[Others[f]].in > 0 /\ be_readbuf_full(m, f) THEN [m EXCEPT ![f].incb = TRUE] ELSE m
filter_read(m, f, k) ==
    IF k # None /\ filter_says_ok(f, k)
    THEN wait_for_room(told(be_filter_process_input(m, f, k), f, "READ"), f)
    ELSE be_filter_process_input(m, f, k)
be_filter_read_nolock_(m, f) ==
    IF Live(m, f) THEN filter_read(m, f, input_moved(m, f, FALSE)) ELSE m

bufferevent_filtered_inbuf_cb(m, f) ==
    IF ~m[f].incb \/ be_readbuf_full(m, f) THEN m
    ELSE IF m[Others[f]].in > 0 THEN be_filter_read_nolock_([m EXCEPT ![f].incb = FALSE], f)
    ELSE [m EXCEPT ![f].incb = FALSE]

be_filter_writecb(m, f) == IF Live(m, f) THEN be_filter_process_output(m, f, FALSE) ELSE m
be_filter_eventcb(m, f, what) == IF Live(m, f) THEN told_event(m, f, what) ELSE m

\* be_filter_unlink of a filter made without BEV_OPT_CLOSE_ON_FREE.
be_filter_unlink(m, f) ==
    LET u == Others[f]
    IN unsuspend_below([m EXCEPT ![u].cbs = IF @ = "filter" THEN "none" ELSE @], u)

-----------------------------------------------------------------------------
(* What the callback pointers lead to: the filter's functions, at once when *)
(* callbacks are not deferred, or the program's.                            *)

below_filter(m, b) == m[b].cbs = "filter" /\ b \notin Deferring
run_readcb_(m, b) ==
    IF below_filter(m, b) THEN be_filter_read_nolock_(m, Over(b)) ELSE told(m, b, "READ")
run_writecb_(m, b) ==
    IF below_filter(m, b) THEN be_filter_writecb(m, Over(b)) ELSE told(m, b, "WRITE")
run_eventcb_(m, b, what) ==
    IF below_filter(m, b) THEN be_filter_eventcb(told_event(m, b, what), Over(b), what)
    ELSE told_event(m, b, what)

trigger_write(m, b) == IF m[b].out = 0 THEN run_writecb_(m, b) ELSE m
trigger(m, b, io) ==
    CASE io = {R} -> run_readcb_(m, b)
      [] io = {W} -> trigger_write(m, b)
      [] OTHER -> trigger_write(run_readcb_(m, b), b)

\* Draining the input buffer runs its callbacks, the newest first.
drained(m, b, k) ==
    LET m1 == bufferevent_inbuf_wm_cb([m EXCEPT ![b].in = @ - k], b)
    IN IF Kinds[b] = "filter" THEN bufferevent_filtered_inbuf_cb(m1, b) ELSE m1

\* So does adding to the output buffer.
written(m, b, k) ==
    LET m1 == [m EXCEPT ![b].out = @ + k]
    IN CASE Kinds[b] = "socket" -> bufferevent_socket_outbuf_cb(m1, b)
         [] Kinds[b] = "pair" -> be_pair_outbuf_cb(m1, b)
         [] Kinds[b] = "filter" -> be_filter_process_output(m1, b, FALSE)

-----------------------------------------------------------------------------
(* Rate limits.  A bufferevent has a bucket of its own when cfg is TRUE and *)
(* may be a member of the group; `d' is the direction, R or W.              *)

suspend(m, b, d, what) ==
    IF d = R THEN bufferevent_suspend_read_(m, b, what) ELSE bufferevent_suspend_write_(m, b, what)
unsuspend(m, b, d, what) ==
    IF d = R THEN bufferevent_unsuspend_read_(m, b, what) ELSE bufferevent_unsuspend_write_(m, b, what)
suspended(m, b, d) == IF d = R THEN m[b].rs ELSE m[b].ws

bufferevent_update_buckets(m, b, n) ==
    [m EXCEPT ![b].lim = [d \in {R, W} |-> ev_token_bucket_update_(@[d], n, Rate, Burst)]]

share(g) == LET s == g.lim \div Cardinality(g.members)
                least_share == min_share(MinShare, Rate)
            IN IF s < least_share THEN least_share ELSE s

\* bufferevent_get_rlim_max_: the map it leaves and the most to read or write.
bufferevent_get_rlim_max_(m, g, b, d, n) ==
    LET m1 == IF m[b].cfg THEN bufferevent_update_buckets(m, b, n) ELSE m
        own == IF m[b].cfg THEN m1[b].lim[d] ELSE MaxLen
        joined == b \in g[d].members
        group == IF g[d].susp THEN 0 ELSE share(g[d])
        max == IF joined THEN least(own, group) ELSE own
    IN [m |-> IF joined /\ g[d].susp THEN suspend(m1, b, d, "GROUP") ELSE m1,
        max |-> IF max < 0 THEN 0 ELSE max]

\* The group's loops try each member's lock; `locked' are the members whose
\* lock another thread holds at that moment.
group_suspend(m, g, d, locked) ==
    [m |-> [x \in Bevs |-> IF x \in g[d].members \ locked THEN suspend(m, x, d, "GROUP")[x] ELSE m[x]],
     g |-> [g EXCEPT ![d].susp = TRUE, ![d].pend = FALSE]]

\* Mutant: a member that could not be locked is forgotten.
group_unsuspend_once(m, g, d, locked) ==
    [m |-> [x \in Bevs |-> IF x \in g[d].members \ locked THEN unsuspend(m, x, d, "GROUP")[x] ELSE m[x]],
     g |-> [g EXCEPT ![d].susp = FALSE, ![d].pend = FALSE]]

group_unsuspend(m, g, d, locked) ==
    [m |-> [x \in Bevs |-> IF x \in g[d].members \ locked THEN unsuspend(m, x, d, "GROUP")[x] ELSE m[x]],
     g |-> [g EXCEPT ![d].susp = FALSE, ![d].pend = g[d].members \cap locked # {}]]

bev_group_suspend_reading_(m, g, locked) == group_suspend(m, g, R, locked)
bev_group_suspend_writing_(m, g, locked) == group_suspend(m, g, W, locked)
bev_group_unsuspend_reading_(m, g, locked) == group_unsuspend(m, g, R, locked)
bev_group_unsuspend_writing_(m, g, locked) == group_unsuspend(m, g, W, locked)
bev_group_suspend_(m, g, d, locked) ==
    IF d = R THEN bev_group_suspend_reading_(m, g, locked) ELSE bev_group_suspend_writing_(m, g, locked)
bev_group_unsuspend_(m, g, d, locked) ==
    IF d = R THEN bev_group_unsuspend_reading_(m, g, locked) ELSE bev_group_unsuspend_writing_(m, g, locked)

\* The bucket of b itself went down to lim.
bucket_spent(m, b, d) ==
    IF m[b].lim[d] <= 0
    THEN [suspend(m, b, d, "BW") EXCEPT ![b].refill = TRUE]
    ELSE IF "BW" \notin suspended(m, b, d) THEN m
    ELSE LET other == IF d = R THEN W ELSE R
         IN unsuspend([m EXCEPT ![b].refill = @ /\ "BW" \in suspended(m, b, other)], b, d, "BW")

decrement_buckets(m, g, b, d, bytes, locked) ==
    LET m1 == IF m[b].cfg THEN bucket_spent([m EXCEPT ![b].lim[d] = @ - bytes], b, d) ELSE m
        g1 == [g EXCEPT ![d].lim = @ - bytes]
    IN IF b \notin g[d].members THEN [m |-> m1, g |-> g]
       ELSE IF g1[d].lim <= 0 THEN bev_group_suspend_(m1, g1, d, locked \ {b})
       ELSE IF g1[d].susp THEN bev_group_unsuspend_(m1, g1, d, locked \ {b})
       ELSE [m |-> m1, g |-> g1]
bufferevent_decrement_read_buckets_(m, g, b, bytes, locked) == decrement_buckets(m, g, b, R, bytes, locked)
bufferevent_decrement_write_buckets_(m, g, b, bytes, locked) == decrement_buckets(m, g, b, W, bytes, locked)
bufferevent_get_read_max_(m, g, b, n) == bufferevent_get_rlim_max_(m, g, b, R, n)
bufferevent_get_write_max_(m, g, b, n) == bufferevent_get_rlim_max_(m, g, b, W, n)

-----------------------------------------------------------------------------
(* References.  The last one queues the finalizer on one of the callbacks   *)
(* and cancels the others.                                                  *)

unlink(m, b) ==
    CASE Kinds[b] = "pair" -> be_pair_unlink(m, b)
      [] Kinds[b] = "filter" -> be_filter_unlink(m, b)
      [] OTHER -> m

\* Mutant: the refill event of a dying bufferevent is not finalized.
decref_keeps_refill(m, b, current) ==
    IF m[b].refs > 1 THEN [m EXCEPT ![b].refs = @ - 1]
    ELSE [unlink(m, b) EXCEPT ![b] =
            [@ EXCEPT !.refs = 0, !.state = "dying", !.evr = FALSE, !.evw = FALSE, !.tr = FALSE, !.tw = FALSE,
                      !.sched = FALSE, !.final = IF current = "none" THEN "ev_read" ELSE current]]

bufferevent_decref_and_unlock_(m, b, current) ==
    IF m[b].refs > 1 THEN [m EXCEPT ![b].refs = @ - 1]
    ELSE [unlink(m, b) EXCEPT ![b] =
            [@ EXCEPT !.refs = 0, !.state = "dying", !.evr = FALSE, !.evw = FALSE, !.tr = FALSE, !.tw = FALSE,
                      !.sched = FALSE, !.refill = FALSE,
                      !.final = IF current = "none" THEN "ev_read" ELSE current]]

incref(m, b) == [m EXCEPT ![b].refs = @ + 1]

\* The bufferevents, with the finalizers that this step queued.
Becomes(m) ==
    /\ bev' = m
    /\ LET new == {b \in Bevs : m[b].state = "dying" /\ bev[b].state # "dying"}
       IN finals' = IF new = {} THEN finals ELSE Append(finals, CHOOSE b \in new : TRUE)

\* The end of a handler: the callback runs now, or the reference goes.
Report(m, b, cb, current) ==
    IF m[b].cbs = "program" /\ b \notin Deferring
    THEN Becomes(m) /\ calling' = [b |-> b, cb |-> cb, then |-> "end", stage |-> 0, current |-> current]
    ELSE Becomes(bufferevent_decref_and_unlock_(m, b, current)) /\ calling' = Idle
Done(m, b, current) == Becomes(bufferevent_decref_and_unlock_(m, b, current)) /\ calling' = Idle

-----------------------------------------------------------------------------
(* The handlers of a socket's events.                                       *)

Ready(b) == calling = Idle /\ Live(bev, b) /\ bev[b].joins = "no"
Ticks ==
    {n \in 0..MaxTicks :
        \A d \in {R, W} : \A lim \in {grp[d].lim} \cup {bev[b].lim[d] : b \in Bevs} :
            ev_token_bucket_update_(lim, n, Rate, Burst) <= Burst + MaxFill}
TicksOf(b) == IF bev[b].cfg THEN Ticks ELSE {0}
Locked == SUBSET {x \in grp[R].members : Cardinality(grp[R].members) > 1 \/ bev[x].joins # "no"}

\* What is left below the high watermark.
howmuch(m, b) == IF m[b].high # 0 THEN m[b].high - m[b].in ELSE MaxLen - m[b].in

\* The bytes read from the socket that the program has not taken.
unread(b) == LET fs == {f \in Bevs : Kinds[f] = "filter" /\ Others[f] = b}
             IN bev[b].in + (IF fs = {} THEN 0 ELSE bev[Over(b)].in)

\* What a read of k bytes does once they are in the input, and an answer of
\* the limits that the operation was given no byte by.
read_done(m, g, b, k, locked) ==
    \E r \in {bufferevent_decrement_read_buckets_(bufferevent_inbuf_wm_cb(m, b), g, b, k, locked)} :
        grp' = r.g /\ Report(trigger(r.m, b, {R}), b, "READ", "ev_read")
failed(m, b, d, what, max, current) ==
    /\ Report(run_eventcb_(disable([m EXCEPT ![b].lied = @ \/ max = 0], b, {d}), b, what), b, what, current)
    /\ UNCHANGED grp

\* evbuffer_read of at most max bytes: EAGAIN, an error or some bytes.
read_from(m, b, max) ==
    \/ Done(m, b, "ev_read") /\ UNCHANGED grp
    \/ /\ bev[b].sock = "connecting"
       /\ Done([m EXCEPT ![b].refused = TRUE], b, "ev_read") /\ UNCHANGED grp
    \/ \E what \in {"EOF", "ERROR"} :
         (what = "EOF" => bev[b].sock = "up") /\ failed(m, b, R, what, max, "ev_read")
    \/ \E k \in 1..least(howmuch(m, b), max), locked \in Locked :
         /\ bev[b].sock = "up" /\ unread(b) + k <= MaxLen
         /\ read_done([m EXCEPT ![b].in = @ + k], grp, b, k, locked)

\* bufferevent_readcb, when the socket is readable.
bufferevent_readcb(b) ==
    /\ Ready(b) /\ Kinds[b] = "socket" /\ bev[b].evr /\ bev[b].sock \in {"up", "connecting"}
    /\ \E n \in TicksOf(b), full_now \in {bev[b].high # 0 /\ howmuch(bev, b) <= 0} :
       \E lim \in {IF full_now THEN [m |-> bufferevent_suspend_read_(incref(bev, b), b, "WM"), max |-> 0]
                   ELSE bufferevent_get_read_max_(incref(bev, b), grp, b, n)} :
          IF full_now \/ lim.m[b].rs # {} THEN Done(lim.m, b, "ev_read") /\ UNCHANGED grp
          ELSE read_from(lim.m, b, lim.max)

\* The end of a write: an empty output ends the interest in writing, and is
\* reported if something was written or there was nothing to write.
wrote(m, b, tells) ==
    IF m[b].out > 0 THEN Done(m, b, "ev_write")
    ELSE IF tells THEN Report(trigger(del_write(m, b), b, {W}), b, "WRITE", "ev_write")
    ELSE Done(del_write(m, b), b, "ev_write")
write_to(m, b, max) ==
    \/ Done(m, b, "ev_write") /\ UNCHANGED grp
    \/ failed(m, b, W, "ERROR", max, "ev_write")
    \/ \E k \in 1..least(m[b].out, max), locked \in Locked :
       \E r \in {bufferevent_decrement_write_buckets_([m EXCEPT ![b].out = @ - k], grp, b, k, locked)} :
          grp' = r.g /\ wrote(r.m, b, TRUE)

\* The part of bufferevent_writecb after a connect, if there was one.
write_rest(m, b, connected) ==
    \E n \in TicksOf(b), idle \in {connected /\ (W \notin m[b].enabled \/ m[b].ws # {})} :
    \E lim \in {IF idle THEN [m |-> del_write(m, b), max |-> 0] ELSE bufferevent_get_write_max_(m, grp, b, n)} :
       IF idle \/ lim.m[b].ws # {} THEN Done(lim.m, b, "ev_write") /\ UNCHANGED grp
       ELSE IF m[b].out = 0 THEN wrote(lim.m, b, ~connected) /\ UNCHANGED grp
       ELSE write_to(lim.m, b, lim.max)

\* How the connect attempt ended.
connect_failed(m, b) ==
    LET down == [m EXCEPT ![b].connecting = FALSE, ![b].refused = FALSE, ![b].sock = "failed"]
    IN /\ Report(run_eventcb_(del_read(del_write(down, b), b), b, "ERROR"), b, "ERROR", "ev_write")
       /\ UNCHANGED grp
\* The program's callback runs before the rest of the handler.
connected(m, b) ==
    /\ Becomes(m) /\ UNCHANGED grp
    /\ calling' = [b |-> b, cb |-> "CONNECTED", then |-> "write", stage |-> 0, current |-> "ev_write"]

\* bufferevent_writecb, when the socket is writable.
bufferevent_writecb(b) ==
    /\ Ready(b) /\ Kinds[b] = "socket" /\ bev[b].evw /\ bev[b].sock \in {"up", "connecting"}
    /\ \/ /\ bev[b].connecting /\ bev[b].sock = "connecting" /\ ~bev[b].refused
          /\ Done(incref(bev, b), b, "ev_write") /\ UNCHANGED grp
       \/ /\ bev[b].connecting /\ (bev[b].sock = "connecting" \/ bev[b].refused)
          /\ connect_failed(incref(bev, b), b)
       \/ /\ bev[b].connecting => ~bev[b].refused
          /\ \E m \in {IF bev[b].connecting
                       THEN run_eventcb_([incref(bev, b) EXCEPT ![b].connecting = FALSE, ![b].sock = "up"], b, "CONNECTED")
                       ELSE incref(bev, b)} :
                IF bev[b].connecting /\ bev[b].cbs = "program" /\ b \notin Deferring THEN connected(m, b)
                ELSE write_rest(m, b, bev[b].connecting)

\* The two handlers called with EV_TIMEOUT, and the generic timeout callbacks.
timeout(b, d) ==
    /\ Ready(b) /\ UNCHANGED grp
    /\ IF d = R THEN bev[b].tr ELSE bev[b].tw
    /\ LET m0 == incref(bev, b)
           m1 == IF Kinds[b] = "socket" THEN m0
                 ELSE [m0 EXCEPT ![b].tr = @ /\ d # R, ![b].tw = @ /\ d # W]
           current == IF d = R THEN "ev_read" ELSE "ev_write"
       IN Report(run_eventcb_(disable(m1, b, {d}), b, "TIMEOUT"), b, "TIMEOUT", current)

\* The deferred callback: CONNECTED first, then READ, WRITE and the rest.
Stages == <<{"CONNECTED"}, {"READ"}, {"WRITE"}, {"CONNECTED", "ERROR", "EOF", "TIMEOUT"}>>

RECURSIVE run_stages(_, _, _)
\* The stages from i on whose callbacks are the filter's own functions.
run_stages(m, b, i) ==
    IF i > 4 THEN m
    ELSE LET due == m[b].pend \cap Stages[i]
             m1 == [m EXCEPT ![b].pend = @ \ due]
             f == Over(b)
         IN run_stages(CASE due = {} -> m
                         [] i = 2 -> be_filter_read_nolock_(m1, f)
                         [] i = 3 -> be_filter_writecb(m1, f)
                         [] OTHER -> LET answer == IF due \cap {"CONNECTED", "ERROR"} # {}
                                                   THEN [m1 EXCEPT ![b].waits = FALSE] ELSE m1
                                     IN be_filter_eventcb(answer, f, CHOOSE w \in due : TRUE), b, i + 1)

\* bufferevent_run_deferred_callbacks_locked and _unlocked from stage i on.
deferred_from(m, b, i) ==
    LET due(j) == m[b].pend \cap Stages[j] # {} /\ m[b].cbs = "program"
        later == {j \in i..4 : due(j)}
        j == CHOOSE x \in later : \A y \in later : x <= y
    IN IF later = {} THEN Done(IF m[b].cbs = "filter" THEN run_stages(m, b, i) ELSE m, b, "deferred")
       ELSE /\ Becomes([m EXCEPT ![b].pend = @ \ Stages[j],
                                 ![b].waits = @ /\ m[b].pend \cap Stages[j] \cap {"CONNECTED", "ERROR"} = {}])
            /\ calling' = [b |-> b, cb |-> "deferred", then |-> "stages", stage |-> j + 1, current |-> "deferred"]

bufferevent_run_deferred_callbacks(b) ==
    /\ Ready(b) /\ bev[b].sched
    /\ deferred_from([bev EXCEPT ![b].sched = FALSE], b, 1)
    /\ UNCHANGED grp

\* The program's callback returns to the handler that called it.
callback_returns ==
    /\ calling # Idle
    /\ LET b == calling.b
       IN CASE calling.then = "end" -> Done(bev, b, calling.current) /\ UNCHANGED grp
            [] calling.then = "write" -> write_rest(bev, b, TRUE)
            [] OTHER -> deferred_from(bev, b, calling.stage) /\ UNCHANGED grp

-----------------------------------------------------------------------------
(* Connecting. *)

schedule(m, b, what) == IF m[b].cbs = "none" THEN m ELSE SCHEDULE_DEFERRED(m, b, what)

be_socket_setfd(m, b) == enable(del_write(del_read(m, b), b), b, m[b].enabled)

\* bufferevent_socket_connect, by the answer r of evutil_socket_connect_: -1
\* it failed, 0 it goes on, 1 it succeeded, 2 it was refused.
bufferevent_socket_connect(m, b, r) ==
    LET m1 == [m EXCEPT ![b].waits = m[b].cbs # "none"]
        m2 == be_socket_setfd(m1, b)
        up == [m2 EXCEPT ![b].connecting = TRUE, ![b].sock = "up"]
    IN CASE r = -1 -> run_eventcb_(m1, b, "ERROR")
         [] r = 0 -> [be_socket_enable(m2, b, {W}) EXCEPT ![b].connecting = TRUE, ![b].sock = "connecting"]
         [] r = 1 -> IF up[b].out = 0 THEN schedule(up, b, "WRITE") ELSE up
         [] r = 2 -> disable(schedule([m2 EXCEPT ![b].sock = "failed"], b, "ERROR"), b, {R, W})

\* Careful: a connect that succeeds at once is heard of only while writing is
\* enabled and not suspended.
heard_at_once(m, b, r) == Careful /\ r = 1 => W \in m[b].enabled /\ m[b].ws \ {"LOOKUP"} = {}

connect(b) ==
    /\ Live(bev, b) /\ bev[b].held /\ bev[b].sock = "none" /\ ~bev[b].dns
    /\ \E r \in -1..2 : heard_at_once(bev, b, r) /\ Becomes(bufferevent_socket_connect(bev, b, r))
    /\ UNCHANGED <<grp, calling>>

bufferevent_socket_connect_hostname(b) ==
    /\ Live(bev, b) /\ bev[b].held /\ bev[b].sock = "none" /\ ~bev[b].dns
    /\ Becomes([incref(bufferevent_suspend_read_(bufferevent_suspend_write_(bev, b, "LOOKUP"), b, "LOOKUP"), b)
                 EXCEPT ![b].dns = TRUE, ![b].waits = TRUE])
    /\ UNCHANGED <<grp, calling>>

bufferevent_connect_getaddrinfo_cb(b) ==
    /\ calling = Idle /\ Live(bev, b) /\ bev[b].dns /\ UNCHANGED grp
    /\ LET m1 == [bufferevent_unsuspend_read_(bufferevent_unsuspend_write_(bev, b, "LOOKUP"), b, "LOOKUP")
                  EXCEPT ![b].dns = FALSE]
       IN \/ Report(run_eventcb_(m1, b, "ERROR"), b, "ERROR", "none")
          \/ \E r \in -1..2 :
               /\ heard_at_once(bev, b, r)
               /\ Done(bufferevent_socket_connect(m1, b, r), b, "none")

-----------------------------------------------------------------------------
(* The program. *)

May(b) == Live(bev, b) /\ bev[b].held /\ bev[b].joins = "no"
Same == UNCHANGED <<grp, calling>>

\* Careful: a filter's output is written, and its input read, while enabled.
bufferevent_write(b, k) ==
    /\ May(b) /\ bev[b].out + k <= MaxLen
    /\ Kinds[b] = "pair" /\ bev[b].partner # NoBev => bev[b].out + bev[bev[b].partner].in + k <= MaxLen
    /\ Kinds[b] = "filter" => bev[b].out + bev[Others[b]].out + k <= MaxLen
    /\ Careful /\ Kinds[b] = "filter" => W \in bev[b].enabled
    /\ Becomes(written(bev, b, k)) /\ Same

bufferevent_read(b, k) ==
    /\ May(b) /\ k <= bev[b].in
    /\ Careful /\ Kinds[b] = "filter" => R \in bev[b].enabled
    /\ Becomes(drained(bev, b, k)) /\ Same

bufferevent_enable(b, ev) == May(b) /\ Becomes(enable(bev, b, ev)) /\ Same
bufferevent_disable(b, ev) == May(b) /\ Becomes(disable(bev, b, ev)) /\ Same
bufferevent_disable_hard_(b, ev) ==
    /\ May(b) /\ Same
    /\ Becomes(disable([bev EXCEPT ![b].connecting = FALSE, ![b].waits = FALSE], b, ev))

\* bufferevent_setwatermark for reading, with no low mark.
bufferevent_setwatermark(b, high) ==
    /\ May(b) /\ Same
    /\ LET m1 == [bev EXCEPT ![b].high = high]
       IN Becomes(IF high # 0 THEN bufferevent_inbuf_wm_cb(m1, b)
                  ELSE bufferevent_unsuspend_read_(m1, b, "WM"))
set_write_high(b, high) == May(b) /\ Becomes([bev EXCEPT ![b].whigh = high]) /\ Same

\* bufferevent_set_timeouts with the two adj_timeouts of be_ops.
bufferevent_generic_adj_timeouts_(m, b) ==
    [m EXCEPT ![b].tr = R \in m[b].enabled /\ m[b].rs = {} /\ m[b].tor,
              ![b].tw = W \in m[b].enabled /\ m[b].ws = {} /\ m[b].tow /\ m[b].out > 0]
bufferevent_generic_adj_existing_timeouts_(m, b) ==
    [m EXCEPT ![b].tr = m[b].evr /\ m[b].tor, ![b].tw = m[b].evw /\ m[b].tow]
bufferevent_set_timeouts(b, r, w) ==
    /\ May(b) /\ Same
    /\ LET m1 == [bev EXCEPT ![b].tor = r, ![b].tow = w]
       IN Becomes(IF Kinds[b] = "socket" THEN bufferevent_generic_adj_existing_timeouts_(m1, b)
                  ELSE bufferevent_generic_adj_timeouts_(m1, b))

bufferevent_trigger(b, io) ==
    May(b) /\ Becomes(trigger(bev, b, io)) /\ Same

bufferevent_setcb(b, on) ==
    /\ May(b) /\ bev[b].cbs # "filter" /\ Same
    /\ Becomes([bev EXCEPT ![b].cbs = IF on THEN "program" ELSE "none", ![b].waits = @ /\ on])

bufferevent_incref(b) == May(b) /\ ~bev[b].extra /\ Becomes([incref(bev, b) EXCEPT ![b].extra = TRUE]) /\ Same
bufferevent_decref(b) ==
    /\ Live(bev, b) /\ bev[b].extra /\ bev[b].joins = "no" /\ Same
    /\ Becomes(bufferevent_decref_and_unlock_([bev EXCEPT ![b].extra = FALSE], b, "none"))

be_pair_flush(b, io, finished) ==
    /\ May(b) /\ Kinds[b] = "pair" /\ bev[b].partner # NoBev /\ Same
    /\ LET p == bev[b].partner
           m1 == IF R \in io THEN be_pair_transfer(bev, p, b, TRUE) ELSE bev
           m2 == IF W \in io THEN be_pair_transfer(m1, b, p, TRUE) ELSE m1
       IN Becomes(IF finished THEN run_eventcb_(m2, p, "EOF") ELSE m2)

be_filter_flush(b, io) ==
    /\ May(b) /\ Kinds[b] = "filter" /\ Same
    /\ LET m1 == IF R \in io THEN be_filter_process_input(bev, b, input_moved(bev, b, TRUE)) ELSE bev
       IN Becomes(IF W \in io THEN be_filter_process_output(m1, b, TRUE) ELSE m1)

\* Careful: a member leaves the group before it is freed.
bufferevent_free(b) ==
    /\ May(b) /\ Same
    /\ Careful => b \notin grp[R].members
    /\ Becomes(bufferevent_decref_and_unlock_([bev EXCEPT ![b].cbs = "none", ![b].held = FALSE, ![b].waits = FALSE], b, "none"))

\* bufferevent_finalize_cb_, run by the loop in the order they were queued.
bufferevent_finalize_cb_ ==
    /\ calling = Idle /\ finals # <<>>
    /\ LET b == Head(finals)
           m1 == [be_pair_destruct(bev, b) EXCEPT ![b].state = "freed", ![b].in = 0, ![b].out = 0]
           u == Others[b]
           m2 == IF Kinds[b] = "filter" THEN bufferevent_decref_and_unlock_(m1, u, "none") ELSE m1
       IN /\ bev' = m2
          /\ grp' = [d \in {R, W} |-> [grp[d] EXCEPT !.members = @ \ {b}]]
          /\ finals' = Tail(finals) \o (IF Kinds[b] = "filter" /\ m2[u].state = "dying" THEN <<u>> ELSE <<>>)
          /\ UNCHANGED calling

-----------------------------------------------------------------------------
(* Rate limits set and spent by the program, and refilled by the loop. *)

\* bufferevent_set_rate_limit with a configuration it does not have yet, or
\* with NULL.
bufferevent_set_rate_limit(b, on) ==
    /\ May(b) /\ Same
    /\ LET off == [bufferevent_unsuspend_write_(bufferevent_unsuspend_read_(
                      [bev EXCEPT ![b].cfg = FALSE], b, "BW"), b, "BW") EXCEPT ![b].refill = FALSE]
           lim == [d \in {R, W} |-> ev_token_bucket_init_(bev[b].lim[d], Rate, Burst, bev[b].cfg)]
           set(m, d) == IF lim[d] > 0 THEN unsuspend(m, b, d, "BW") ELSE suspend(m, b, d, "BW")
           new == [bev EXCEPT ![b].cfg = TRUE, ![b].lim = lim,
                              ![b].refill = \E d \in {R, W} : lim[d] <= 0]
       IN Becomes(IF on THEN set(set(new, R), W) ELSE off)

\* The program spends from a bucket, or refills it, above its burst too.
decrement_limit(b, d, decr) ==
    /\ May(b) /\ bev[b].cfg /\ Same
    /\ LET old == bev[b].lim[d]
           new == old - decr
           m1 == [bev EXCEPT ![b].lim[d] = new]
           other == IF d = R THEN W ELSE R
       IN /\ new \in -MaxDebt..Burst + MaxFill
          /\ Becomes(IF old > 0 /\ new <= 0 THEN [suspend(m1, b, d, "BW") EXCEPT ![b].refill = TRUE]
                     ELSE IF old <= 0 /\ new > 0
                     THEN unsuspend([m1 EXCEPT ![b].refill = @ /\ "BW" \in suspended(m1, b, other)], b, d, "BW")
                     ELSE m1)
bufferevent_decrement_read_limit(b, decr) == decrement_limit(b, R, decr)
bufferevent_decrement_write_limit(b, decr) == decrement_limit(b, W, decr)

bev_refill_callback_(b) ==
    /\ Ready(b) /\ bev[b].refill /\ UNCHANGED <<grp, calling>>
    /\ \E n \in Ticks :
        LET m0 == bufferevent_update_buckets([bev EXCEPT ![b].refill = FALSE], b, n)
            wake(m, d) == IF "BW" \in suspended(m, b, d) /\ m[b].lim[d] > 0 THEN unsuspend(m, b, d, "BW") ELSE m
            m1 == wake(wake(m0, R), W)
        IN Becomes([m1 EXCEPT ![b].refill = \E d \in {R, W} : "BW" \in suspended(m1, b, d)])

bev_group_refill_callback_ ==
    /\ calling = Idle /\ UNCHANGED calling
    /\ \E n \in Ticks, locked \in Locked :
        LET joining == {x \in Bevs : bev[x].joins # "no"}
            g0 == [d \in {R, W} |-> [grp[d] EXCEPT !.lim = ev_token_bucket_update_(@, n, Rate, Burst)]]
            due(d) == g0[d].pend \/ (g0[d].susp /\ g0[d].lim >= min_share(MinShare, Rate))
            wake(x, d) == IF due(d) THEN bev_group_unsuspend_(x.m, x.g, d, locked \cup joining) ELSE x
            r == wake(wake([m |-> bev, g |-> g0], R), W)
        IN Becomes(r.m) /\ grp' = r.g

group_decrement(d, decr) ==
    /\ UNCHANGED calling /\ grp[d].lim - decr \in -MaxDebt..Burst + MaxFill
    /\ \E locked \in Locked :
        LET joining == {x \in Bevs : bev[x].joins # "no"}
            old == grp[d].lim
            g1 == [grp EXCEPT ![d].lim = @ - decr]
            r == IF old > 0 /\ old - decr <= 0 THEN bev_group_suspend_(bev, g1, d, locked \cup joining)
                 ELSE IF old <= 0 /\ old - decr > 0 THEN bev_group_unsuspend_(bev, g1, d, locked \cup joining)
                 ELSE [m |-> bev, g |-> g1]
        IN Becomes(r.m) /\ grp' = r.g
bufferevent_rate_limit_group_decrement_read(decr) == group_decrement(R, decr)

\* bufferevent_add_to_rate_limit_group: it reads the group's state under the
\* group's lock and uses it after releasing that lock, holding its own.
bufferevent_add_to_rate_limit_group(b) ==
    /\ May(b) /\ b \notin grp[R].members /\ UNCHANGED calling
    /\ grp' = [d \in {R, W} |-> [grp[d] EXCEPT !.members = @ \cup {b}]]
    /\ Becomes([bev EXCEPT ![b].joins = CASE grp[R].susp /\ grp[W].susp -> "RW"
                                            [] grp[R].susp -> "R" [] grp[W].susp -> "W" [] OTHER -> "none"])
add_to_group_rest(b) ==
    /\ Live(bev, b) /\ bev[b].joins # "no" /\ Same
    /\ LET m1 == IF bev[b].joins \in {"R", "RW"} THEN bufferevent_suspend_read_(bev, b, "GROUP") ELSE bev
           m2 == IF bev[b].joins \in {"W", "RW"} THEN bufferevent_suspend_write_(m1, b, "GROUP") ELSE m1
       IN Becomes([m2 EXCEPT ![b].joins = "no"])

bufferevent_remove_from_rate_limit_group(b) ==
    /\ May(b) /\ b \in grp[R].members /\ UNCHANGED calling
    /\ grp' = [d \in {R, W} |-> [grp[d] EXCEPT !.members = @ \ {b}]]
    /\ Becomes(bufferevent_unsuspend_write_(bufferevent_unsuspend_read_(bev, b, "GROUP"), b, "GROUP"))

-----------------------------------------------------------------------------
(* A new bufferevent (bufferevent_init_common_ and the constructors). *)

bufferevent_init_common_ ==
    [state |-> "live", refs |-> 1, held |-> TRUE, extra |-> FALSE, final |-> "none", cbs |-> "program",
     enabled |-> {W}, rs |-> {}, ws |-> {}, evr |-> FALSE, evw |-> FALSE,
     tor |-> FALSE, tow |-> FALSE, tr |-> FALSE, tw |-> FALSE,
     in |-> 0, out |-> 0, high |-> 0, whigh |-> 0, pend |-> {}, sched |-> FALSE,
     sock |-> "none", connecting |-> FALSE, refused |-> FALSE, dns |-> FALSE, waits |-> FALSE, lied |-> FALSE,
     cfg |-> FALSE, lim |-> [d \in {R, W} |-> 0], refill |-> FALSE, joins |-> "no",
     partner |-> NoBev, unlinked |-> NoBev, own_lock |-> TRUE, incb |-> FALSE]

\* bufferevent_pair_new: the first side owns the lock both use.
bufferevent_pair_new(b, first) ==
    [bufferevent_init_common_ EXCEPT !.partner = Others[b], !.own_lock = first]

\* bufferevent_filter_new takes over the callbacks of the bufferevent below.
bufferevent_filter_new(m, f) ==
    LET u == Others[f]
    IN bufferevent_suspend_read_(enable(incref([m EXCEPT ![u].cbs = "filter"], u), u, {R, W}), u, "FILT")

Absent == [bufferevent_init_common_ EXCEPT !.state = "freed", !.refs = 0, !.held = FALSE, !.cbs = "none",
                                           !.enabled = {}, !.own_lock = FALSE]

\* The bufferevents in `some' exist, their sockets in state `sock' and with
\* callbacks `cbs'; `owner' is the first of a pair.
BevInit(some, sock, cbs, owner) ==
    LET new == [b \in Bevs |->
                  IF b \notin some THEN Absent
                  ELSE CASE Kinds[b] = "socket" -> [bufferevent_init_common_ EXCEPT !.sock = sock, !.cbs = cbs]
                         [] Kinds[b] = "pair" -> bufferevent_pair_new(b, b = owner)
                         [] OTHER -> bufferevent_init_common_]
        filters == {f \in some : Kinds[f] = "filter"}
    IN /\ bev = IF filters = {} THEN new ELSE bufferevent_filter_new(new, CHOOSE f \in filters : TRUE)
       /\ grp = [d \in {R, W} |-> [lim |-> Rate, susp |-> FALSE, pend |-> FALSE, members |-> {}]]
       /\ finals = <<>>
       /\ calling = Idle

Directions == {{R}, {W}, {R, W}}

\* What the loop does.
Loop == \/ \E b \in Bevs : \/ bufferevent_readcb(b)
                           \/ bufferevent_writecb(b)
                           \/ timeout(b, R)
                           \/ timeout(b, W)
                           \/ bufferevent_run_deferred_callbacks(b)
        \/ callback_returns
        \/ bufferevent_finalize_cb_

\* What the program does.
Using(b, sizes, dirs) ==
    \/ \E k \in sizes : bufferevent_write(b, k) \/ bufferevent_read(b, k)
    \/ \E ev \in dirs : bufferevent_enable(b, ev) \/ bufferevent_disable(b, ev)
    \/ bufferevent_free(b)
Marking(b) == \E high \in Highs : bufferevent_setwatermark(b, high)
Timing(b) == \E r, w \in BOOLEAN : bufferevent_set_timeouts(b, r, w)
Holding(b) == \/ bufferevent_incref(b) \/ bufferevent_decref(b)
              \/ \E on \in BOOLEAN : bufferevent_setcb(b, on)
              \/ \E io \in Directions : bufferevent_trigger(b, io)
Connecting(b) == \/ connect(b)
                 \/ bufferevent_socket_connect_hostname(b)
                 \/ bufferevent_connect_getaddrinfo_cb(b)
                 \/ \E ev \in Directions : bufferevent_disable_hard_(b, ev)
Flushing(b) == \/ \E fin \in BOOLEAN : be_pair_flush(b, {R, W}, fin)
               \/ be_filter_flush(b, {R, W})
Limiting(b) == \/ \E on \in BOOLEAN : bufferevent_set_rate_limit(b, on)
               \/ \E k \in {-1, 1} : bufferevent_decrement_read_limit(b, k) \/ bufferevent_decrement_write_limit(b, k)
               \/ bev_refill_callback_(b)
Grouping(b) == \/ bufferevent_add_to_rate_limit_group(b)
               \/ add_to_group_rest(b)
               \/ bufferevent_remove_from_rate_limit_group(b)
GroupSpending == \/ bev_group_refill_callback_
                 \/ \E k \in {-1, 1} : bufferevent_rate_limit_group_decrement_read(k)

-----------------------------------------------------------------------------
(* Properties. *)

\* A socket's events are registered exactly as the bufferevent's state asks:
\* reading when it is enabled and nothing suspends it, writing when there is
\* something to write.  Otherwise data would wait for ever, or be read past a
\* limit (bufferevent_enable, bufferevent_suspend_read_ and the like,
\* be_socket_disable, bufferevent_socket_outbuf_cb).
SocketsWatched ==
    \A b \in Bevs : Kinds[b] = "socket" /\ Live(bev, b) /\ bev[b].sock \in {"up", "connecting"} =>
        /\ bev[b].evr <=> (R \in bev[b].enabled /\ bev[b].rs = {})
        /\ W \in bev[b].enabled /\ bev[b].ws = {} /\ bev[b].out > 0 => bev[b].evw

\* Reading is suspended for the watermark exactly when the input has reached
\* it, whatever reads, drains and watermark changes came before
\* (bufferevent_inbuf_wm_cb, bufferevent_setwatermark).
WatermarksHeld ==
    \A b \in Bevs : Live(bev, b) =>
        ("WM" \in bev[b].rs <=> (bev[b].high # 0 /\ bev[b].in >= bev[b].high))

\* What is suspended for want of bandwidth will be looked at again: by the
\* bufferevent's refill event, or by the group's, even when the group could
\* not take the lock of a member (pending_unsuspend_read, _write).
SuspendedRefilled ==
    \A b \in Bevs : Live(bev, b) =>
        /\ "BW" \in bev[b].rs \cup bev[b].ws => bev[b].refill
        /\ \A d \in {R, W} : "GROUP" \in suspended(bev, b, d) =>
             b \in grp[d].members /\ (grp[d].susp \/ grp[d].pend)

\* Every reference is somebody's, and a freed bufferevent is on no queue, no
\* timer and no group (bufferevent_decref_and_unlock_, SCHEDULE_DEFERRED).
RefsExact ==
    \A b \in Bevs :
        LET count(x) == IF x THEN 1 ELSE 0
        IN /\ Live(bev, b) =>
               bev[b].refs = count(bev[b].held) + count(bev[b].extra) + count(calling.b = b) + count(bev[b].sched)
                             + count(bev[b].dns)
                             + Cardinality({f \in Bevs : /\ Kinds[f] = "filter" /\ Others[f] = b
                                                         /\ bev[f].state # "freed"})
           /\ bev[b].state = "freed" =>
               /\ ~bev[b].evr /\ ~bev[b].evw /\ ~bev[b].tr /\ ~bev[b].tw
               /\ ~bev[b].sched /\ ~bev[b].refill /\ ~bev[b].dns
               /\ b \notin grp[R].members

\* The lock the two sides of a pair share outlives both
\* (be_pair_unlink, be_pair_destruct).
LockOutlives ==
    \A b \in Bevs : Kinds[b] = "pair" /\ bev[b].state # "freed" =>
        \E x \in {b, Others[b]} : bev[x].state # "freed" /\ bev[x].own_lock

\* No end of file or error is reported that the socket did not have: nothing
\* is ever asked to read or write zero bytes (bufferevent_get_rlim_max_).
NoFalseEnds == \A b \in Bevs : ~bev[b].lied

\* Between two steps nothing that a pair could hand over is left behind
\* (be_pair_enable, be_pair_outbuf_cb, be_pair_transfer).
PairFlows ==
    \A b \in Bevs : Kinds[b] = "pair" /\ Live(bev, b) /\ bev[b].partner # NoBev =>
        ~be_pair_wants_to_talk(bev, b, bev[b].partner)

\* Data a filter has not taken from the bufferevent below is announced or
\* watched for: be_filter_read_nolock_ says it schedules a callback "to avoid
\* data gets stuck in underlying input buffer".
FilterFlows ==
    \A f \in Bevs : Kinds[f] = "filter" /\ Live(bev, f) /\ R \in bev[f].enabled =>
        LET u == Others[f]
        IN bev[u].in > 0 /\ bev[u].cbs = "filter" =>
            "READ" \in bev[u].pend \/ (bev[f].incb /\ bev[f].in > 0)

\* A timeout is armed only while the bufferevent is willing to read or write
\* (bufferevent_set_timeouts: "if reading or writing is disabled, or ...
\* suspended ... the timeout isn't active").
TimersFit ==
    \A b \in Bevs : Live(bev, b) =>
        /\ bev[b].tr => R \in bev[b].enabled /\ bev[b].rs = {}
        /\ bev[b].tw /\ ~bev[b].connecting => W \in bev[b].enabled /\ bev[b].ws = {}

\* Data that arrives is announced: the read callback runs or is scheduled
\* (bufferevent_trigger_nolock_, be_filter_read_nolock_).  Only the program's
\* own flush of a filter moves data without a word.
ReadsAnnounced ==
    [][\A b \in Bevs : bev'[b].in > bev[b].in /\ bev'[b].cbs = "program" =>
          \/ "READ" \in bev'[b].pend
          \/ calling'.b = b /\ calling'.cb = "READ"
          \/ \E io \in Directions : be_filter_flush(b, io)]_bevVars

\* The overflow-safe update of every bucket the program reaches, overdrawn or
\* full, is the naive one (ev_token_bucket_update_: "we're worried about
\* overflow, so we do it like this"), so no update takes a bucket past the
\* burst.  A bucket that the program itself refilled above the burst is not
\* cut back: there the unsigned difference is large and the update adds on.
BucketExact ==
    \A d \in {R, W} : /\ Exact(grp[d].lim, Rate, Burst)
                     /\ \A b \in Bevs : bev[b].cfg => Exact(bev[b].lim[d], Rate, Burst)

\* A program that waits for its connect will hear of it: the resolver is
\* busy, or the socket's write event is up, or CONNECTED or the error is
\* scheduled (bufferevent_socket_connect, bufferevent_writecb,
\* bufferevent_connect_getaddrinfo_cb, bufferevent_run_deferred_callbacks).
ConnectHeard ==
    \A b \in Bevs : Live(bev, b) /\ bev[b].waits =>
        \/ bev[b].dns
        \/ bev[b].connecting /\ bev[b].evw
        \/ bev[b].sched /\ bev[b].pend \cap {"CONNECTED", "ERROR"} # {}


\* What is registered with the base is what the state asks for: the socket's
\* events, the suspension at the watermark, and the end of a connect.
RegisteredAsAsked == SocketsWatched /\ WatermarksHeld /\ ConnectHeard

\* Rate limits hold nothing up for ever and invent nothing: what is suspended
\* is looked at again, no share is zero bytes, and buckets fill exactly.
LimitsSound == SuspendedRefilled /\ NoFalseEnds /\ BucketExact

\* Nothing is released while somebody uses it, nor kept when nobody does.
LivesLongEnough == RefsExact /\ LockOutlives

\* Data is not left where no callback will come for it.
NothingStuck == PairFlows /\ FilterFlows
=============================================================================
