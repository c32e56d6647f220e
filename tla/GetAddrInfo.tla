---------------------------- MODULE GetAddrInfo -----------------------------
(***************************************************************************)
(* evdns_getaddrinfo: one question of the program is two lookups, one per  *)
(* address family, whose answers are merged.  The resolver is used as      *)
(* module Lookups promises: each lookup that was accepted is told once,    *)
(* from the event loop, after its result was scheduled.                    *)
(***************************************************************************)
EXTENDS Naturals, Sequences, FiniteSets

CONSTANT Prompt   \* TRUE: memory does not run out, the program asks from the thread that
                  \* runs the loop, and the resolver is shut down only while no result
                  \* is scheduled and no answer waits for the other

VARIABLE gai

Families == {"A", "AAAA"}
other(f) == IF f = "A" THEN "AAAA" ELSE "A"

\* DNS_ERR_CANCEL is scheduled unless a result already is.
evdns_cancel(g, f) == IF g.r[f] /\ g.sub[f] = "out" THEN [g EXCEPT !.sub[f] = "cancel"] ELSE g

user_cb(g, outcome) == [g EXCEPT !.told = Append(@, outcome), !.fatal = @ \/ ~g.user_cb]

free_getaddrinfo_request(g) ==
    [g EXCEPT !.freed = TRUE, !.timer = FALSE, !.fatal = @ \/ g.freed \/ \E f \in Families : g.sub[f] \notin {"idle", "ran"}]

timed_out(g) ==
    LET g1 == evdns_cancel(evdns_cancel(g, "A"), "AAAA")
        g2 == [user_cb(g1, g.pending_result) EXCEPT !.pending_result = {}]
        g3 == [g2 EXCEPT !.user_cb = FALSE, !.timer = FALSE, !.fatal = @ \/ g.base = "freed" \/ (g.r["A"] /\ g.r["AAAA"])]
    IN IF ~g.r["A"] /\ ~g.r["AAAA"] THEN free_getaddrinfo_request(g3) ELSE g3

told_error(g, f, result) ==
    IF g.r[other(f)] THEN [g EXCEPT !.timer = @ \/ result # "shutdown"]
    ELSE free_getaddrinfo_request(
           IF g.user_canceled THEN user_cb(g, {"cancel"})
           ELSE [user_cb(g, g.pending_result) EXCEPT !.pending_result = {}])

told_answer(g, f, memory) ==
    LET g1 == IF g.r[other(f)] THEN evdns_cancel(g, other(f)) ELSE g
        g2 == user_cb(g1, {})
    IN IF g.user_canceled
         THEN IF g.r[other(f)] THEN g ELSE free_getaddrinfo_request(user_cb(g, {"cancel"}))
       ELSE IF ~memory
         THEN IF g.r[other(f)] THEN g2 ELSE free_getaddrinfo_request(g2)
       ELSE IF g.r[other(f)]
         THEN [g EXCEPT !.timer = TRUE, !.pending_result = {f}]
       ELSE free_getaddrinfo_request([user_cb(g, g.pending_result \cup {f}) EXCEPT !.pending_result = {}])

\* Mutant: data is freed when the first of two lookups was cancelled.
gotresolve_frees(g0, f, result, memory) ==
    LET g == [g0 EXCEPT !.r[f] = FALSE, !.request_done = @ \/ (result # "shutdown" /\ ~g0.r[other(f)]),
                        !.base = IF result = "shutdown" THEN "null" ELSE @]
    IN IF result = "cancel" THEN free_getaddrinfo_request(IF g.user_canceled THEN user_cb(g, {"cancel"}) ELSE g)
       ELSE IF ~g.user_cb THEN free_getaddrinfo_request(g)
       ELSE IF result = "ok" THEN told_answer(g, f, memory) ELSE told_error(g, f, result)

gotresolve(g0, f, result, memory) ==
    LET g == [g0 EXCEPT !.r[f] = FALSE, !.request_done = @ \/ (result # "shutdown" /\ ~g0.r[other(f)]),
                        !.base = IF result = "shutdown" THEN "null" ELSE @]
    IN IF result = "cancel" /\ ~g.user_canceled
         THEN IF ~g.r[other(f)] THEN free_getaddrinfo_request(g) ELSE g
       ELSE IF ~g.user_cb THEN free_getaddrinfo_request(g)
       ELSE IF result = "ok" THEN told_answer(g, f, memory) ELSE told_error(g, f, result)

-----------------------------------------------------------------------------
\* Each lookup asked for may be refused at once, or not be wanted; the lock is
\* not held from one to the other.
launch(g, f, accepted) ==
    IF g.freed THEN [g EXCEPT !.fatal = TRUE]
    ELSE [g EXCEPT !.r[f] = accepted, !.sub[f] = IF accepted THEN "out" ELSE "idle"]

\* A numeric name, one of the hosts file and an error are told at once.
evdns_getaddrinfo ==
    /\ gai.state = "new"
    /\ \/ gai' = [gai EXCEPT !.state = "answered", !.told = <<{}>>]
       \/ \E accepted \in BOOLEAN : gai' = [launch(gai, "A", accepted) EXCEPT !.state = "A launched"]
evdns_getaddrinfo_launches_ipv6 ==
    /\ gai.state = "A launched" /\ ~gai.fatal
    /\ \E accepted \in BOOLEAN : gai' = [launch(gai, "AAAA", accepted) EXCEPT !.state = "AAAA launched"]
\* The timer is assigned; when both lookups were refused the program is told
\* of it and there is no request.
evdns_getaddrinfo_returns ==
    /\ gai.state = "AAAA launched" /\ ~gai.fatal
    /\ gai' = IF gai.freed \/ gai.timer THEN [gai EXCEPT !.fatal = TRUE]
              ELSE IF \A f \in Families : ~gai.r[f] THEN [gai EXCEPT !.state = "answered", !.told = Append(@, {})]
              ELSE [gai EXCEPT !.state = "asked"]
LoopFree == Prompt => gai.state \notin {"A launched", "AAAA launched"}

\* The resolver ends a lookup; shutting down ends both.
Resolved(f) == /\ LoopFree /\ gai.sub[f] = "out" /\ gai.base = "live"
               /\ \E result \in {"ok", "error"} : gai' = [gai EXCEPT !.sub[f] = result]
Shutdown == /\ gai.state = "asked" /\ gai.base = "live" /\ ~gai.freed
            /\ Prompt => ~gai.timer /\ \A f \in Families : gai.sub[f] \in {"idle", "out", "ran"}
            /\ gai' = [gai EXCEPT !.base = "freed",
                                  !.sub = [f \in Families |-> IF @[f] = "out" THEN "shutdown" ELSE @[f]]]

evdns_getaddrinfo_gotresolve(f) ==
    /\ LoopFree /\ gai.sub[f] \in {"ok", "error", "cancel", "shutdown"} /\ ~gai.fatal
    /\ \E memory \in IF Prompt THEN {TRUE} ELSE BOOLEAN :
         LET g == [gai EXCEPT !.sub[f] = "ran", !.got = IF gai.sub[f] = "ok" /\ gai.told = <<>> THEN @ \cup {f} ELSE @]
         IN gai' = IF gai.freed \/ (gai.base = "freed" /\ gai.sub[f] # "shutdown") THEN [g EXCEPT !.fatal = TRUE]
                   ELSE gotresolve(g, f, gai.sub[f], memory)

evdns_getaddrinfo_timeout_cb == LoopFree /\ gai.timer /\ ~gai.fatal /\ gai' = timed_out(gai)

\* The program may cancel until it is told.
evdns_getaddrinfo_cancel ==
    /\ gai.state = "asked" /\ gai.told = <<>> /\ ~gai.user_canceled /\ ~gai.fatal
    /\ gai.base = "live" /\ ~gai.request_done
    /\ gai' = evdns_cancel(evdns_cancel([gai EXCEPT !.timer = FALSE, !.user_canceled = TRUE], "A"), "AAAA")

GaiInit == gai = [state |-> "new", r |-> [f \in Families |-> FALSE], sub |-> [f \in Families |-> "idle"], timer |-> FALSE,
                  pending_result |-> {}, user_cb |-> TRUE, user_canceled |-> FALSE, request_done |-> FALSE,
                  base |-> "live", freed |-> FALSE, fatal |-> FALSE, told |-> <<>>, got |-> {}]
GaiNext == \/ evdns_getaddrinfo \/ evdns_getaddrinfo_launches_ipv6 \/ evdns_getaddrinfo_returns
           \/ evdns_getaddrinfo_cancel \/ evdns_getaddrinfo_timeout_cb \/ Shutdown
           \/ \E f \in Families : Resolved(f) \/ evdns_getaddrinfo_gotresolve(f)

-----------------------------------------------------------------------------
\* The request is freed once, after both lookups have called back, and no
\* callback finds it freed: "Only once both callbacks have been invoked is it
\* safe to free the request".  It is not kept for ever either.
RequestFreedSafely ==
    /\ ~gai.fatal
    /\ gai.state = "asked" /\ (\A f \in Families : gai.sub[f] \in {"idle", "ran"}) => gai.freed

\* The program is told once, and of every address that came in before that
\* unless it cancelled.
AnswersToldOnce ==
    /\ Len(gai.told) <= 1
    /\ gai.freed => Len(gai.told) = 1
    /\ gai.told # <<>> /\ gai.state = "asked" /\ ~gai.user_canceled => gai.told[1] = gai.got

\* Once one family has ended, the other is waited for no longer than the
\* skew allows: a timer runs, or the end of the other is scheduled.
AnswersTimely ==
    gai.state = "asked" /\ ~gai.freed /\ gai.user_cb /\ (\E f \in Families : gai.sub[f] = "ran") =>
        gai.timer \/ \A f \in Families : gai.sub[f] # "out"

\* evdns_getaddrinfo tells the program once, in time, and frees what its two
\* lookups share after both.
AddrInfoSound == RequestFreedSafely /\ AnswersToldOnce /\ AnswersTimely
=============================================================================
