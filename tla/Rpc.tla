-------------------------------- MODULE Rpc ---------------------------------
(***************************************************************************)
(* RPC over HTTP (evrpc.c): the client's pool of connections, and the      *)
(* server's dispatch of requests through hooks that may pause them.  The   *)
(* HTTP layer is external: a connection ends the first of its requests, in *)
(* the order they were made, and tells each end once.                      *)
(***************************************************************************)
EXTENDS Naturals, Sequences, SequencesExt

CONSTANTS Calls,  \* the requests of the client
          Conns,  \* its connections
          Asks,   \* the requests that reach the server
          Polite  \* TRUE: the program keeps clear of the uses marked Polite

VARIABLES pool, rpcs

HookResults == {"continue", "pause", "terminate"}
rpcVars == <<pool, rpcs>>

-----------------------------------------------------------------------------
(* The pool.  luck = [hook, made]: what the output hooks answer, and        *)
(* whether evhttp_make_request accepts the request.                        *)

\* The user's callback, and evrpc_request_wrapper_free.
told(p, c) == [p EXCEPT !.call[c].st = "freed", !.call[c].told = @ + 1]

evrpc_schedule_request_closure(p, c, res, luck) ==
    LET timed == [p EXCEPT !.call[c].timer = p.timeout]
    IN IF res = "terminate" THEN told(p, c)
       ELSE IF ~luck.made THEN told(timed, c)
       ELSE [timed EXCEPT !.busy[p.call[c].evcon] = Append(@, c), !.call[c].st = "sent"]

evrpc_schedule_request(p, conn, c, luck) ==
    LET p1 == [p EXCEPT !.call[c].evcon = conn]
    IN CASE luck.hook = "terminate" -> told(p1, c)
         [] luck.hook = "pause" -> [p1 EXCEPT !.call[c].st = "paused out"]
         [] OTHER -> evrpc_schedule_request_closure(p1, c, "continue", luck)

\* The first connection with no request, as its place in the pool.
evrpc_pool_find_connection(p) ==
    {i \in DOMAIN p.conns : p.busy[p.conns[i]] = <<>> /\ \A j \in 1..i - 1 : p.busy[p.conns[j]] # <<>>}

evrpc_pool_schedule(p, luck) ==
    LET found == evrpc_pool_find_connection(p)
    IN IF p.requests = <<>> \/ found = {} THEN p
       ELSE evrpc_schedule_request([p EXCEPT !.requests = Tail(@)], p.conns[CHOOSE i \in found : TRUE],
                                   Head(p.requests), luck)

make_request(p, c, luck) ==
    evrpc_pool_schedule([p EXCEPT !.requests = Append(@, c), !.call[c].st = "queued"], luck)

\* Mutant: the pool is not asked for another request.
reply_done_only(p, c, more, luck) ==
    FoldSet(LAMBDA d, q : make_request(q, d, luck), told(p, c), more)

\* evrpc_reply_done_closure: the callback may make `more' requests.
evrpc_reply_done_closure(p, c, more, luck) ==
    evrpc_pool_schedule(FoldSet(LAMBDA d, q : make_request(q, d, luck), told(p, c), more), luck)

\* evrpc_reply_done, given what the input hooks answer; a failed request has
\* no reply for them.
evrpc_reply_done(p, c, failed, hook, more, luck) ==
    LET p1 == [p EXCEPT !.call[c].timer = FALSE]
    IN IF ~failed /\ hook = "pause" THEN [p1 EXCEPT !.call[c].st = "paused in"]
       ELSE evrpc_reply_done_closure(p1, c, more, luck)

\* The HTTP layer ends the first request of a connection.
ends(p, conn, failed, hook, more, luck) ==
    evrpc_reply_done([p EXCEPT !.busy[conn] = Tail(@)], Head(p.busy[conn]), failed, hook, more, luck)

New == {c \in Calls : pool.call[c].st = "new"}
\* Polite: requests are not paused on their way out when they have a timeout,
\* not refused by a hook while others wait, and not refused by the HTTP layer
\* once the timer runs.
Lucks == {luck \in [hook : HookResults, made : BOOLEAN] :
            Polite => /\ pool.timeout => luck.hook # "pause" /\ luck.made
                      /\ luck.hook = "terminate" \/ ~luck.made => Len(pool.requests) = 0}
Mores == {{}} \cup {{c} : c \in New}

evrpc_make_request(c) ==
    /\ pool.alive /\ pool.call[c].st = "new" /\ pool.conns # <<>>
    /\ \E luck \in Lucks : pool' = make_request(pool, c, luck)
    /\ UNCHANGED rpcs
RequestEnds(conn) ==
    /\ pool.alive /\ pool.busy[conn] # <<>>
    /\ \E failed \in BOOLEAN, hook \in HookResults, more \in Mores, luck \in Lucks :
         pool' = ends(pool, conn, failed, hook, more, luck)
    /\ UNCHANGED rpcs
evrpc_resume_request(c, res) ==
    /\ pool.alive /\ res # "pause"
    /\ \E more \in Mores, luck \in Lucks :
         \/ /\ pool.call[c].st = "paused out" /\ (Polite /\ res = "terminate" => pool.requests = <<>>)
            /\ pool' = evrpc_schedule_request_closure(pool, c, res, luck)
         \/ pool.call[c].st = "paused in" /\ pool' = evrpc_reply_done_closure(pool, c, more, luck)
    /\ UNCHANGED rpcs
\* The request at the head of the connection fails, whichever it is.
evrpc_request_timeout(c) ==
    /\ pool.call[c].timer
    /\ LET p == [pool EXCEPT !.call[c].timer = FALSE]
           evcon == pool.call[c].evcon
       IN \E more \in Mores, luck \in Lucks :
            pool' = IF ~p.alive \/ p.call[c].st = "freed" \/ p.busy[evcon] = <<>> THEN [p EXCEPT !.fatal = TRUE]
                    ELSE [ends(p, evcon, TRUE, "continue", more, luck) EXCEPT !.wronged = Head(p.busy[evcon]) # c]
    /\ UNCHANGED rpcs
\* Polite: the connection has no request (evhttp_connection_set_base asserts as
\* much when the pool has a base; nothing checks it otherwise).
evrpc_pool_add_connection(conn) ==
    /\ pool.alive /\ conn \notin Range(pool.conns) /\ (Polite => pool.busy[conn] = <<>>)
    /\ \E luck \in Lucks :
         LET p == [pool EXCEPT !.conns = Append(@, conn)]
         IN pool' = IF p.requests = <<>> THEN p
                    ELSE evrpc_schedule_request([p EXCEPT !.requests = Tail(@)], conn, Head(p.requests), luck)
    /\ UNCHANGED rpcs
evrpc_pool_remove_connection(conn) ==
    /\ pool.alive /\ conn \in Range(pool.conns)
    /\ pool' = [pool EXCEPT !.conns = SelectSeq(@, LAMBDA k : k # conn)]
    /\ UNCHANGED rpcs
\* Queued requests are dropped, and with the connections those under way.
\* Polite: none is under way.
evrpc_pool_free ==
    /\ pool.alive /\ (Polite => \A c \in Calls : pool.call[c].st \in {"new", "queued", "freed"})
    /\ pool' = [pool EXCEPT !.alive = FALSE, !.requests = <<>>, !.busy = [k \in Conns |-> <<>>],
                            !.call = [c \in Calls |-> IF @[c].st = "queued" THEN [@[c] EXCEPT !.st = "dropped"] ELSE @[c]]]
    /\ UNCHANGED rpcs

evrpc_pool_new == \E timeout \in BOOLEAN :
    pool = [alive |-> TRUE, timeout |-> timeout, conns |-> <<>>, requests |-> <<>>, busy |-> [k \in Conns |-> <<>>],
            call |-> [c \in Calls |-> [st |-> "new", timer |-> FALSE, told |-> 0, evcon |-> CHOOSE k \in Conns : TRUE]],
            fatal |-> FALSE, wronged |-> FALSE]

-----------------------------------------------------------------------------
(* The server: where a request is, and how often HTTP was told to answer.  *)

free_state(r, a) == [r EXCEPT ![a].st = "freed"]
evhttp_answers(r, a) == [r EXCEPT ![a].answers = @ + 1]
send_error(r, a) == evhttp_answers(free_state(r, a), a)

evrpc_request_done_(r, a, complete, hook) ==
    IF ~complete \/ hook = "terminate" THEN send_error(r, a)
    ELSE IF hook = "pause" THEN [r EXCEPT ![a].st = "paused out"]
    ELSE free_state(evhttp_answers(r, a), a)

\* evrpc_request_cb_closure: the request is parsed and given to the user.
evrpc_request_cb_closure(r, a, res, parses) ==
    IF res = "terminate" \/ ~parses THEN send_error(r, a) ELSE [r EXCEPT ![a].st = "user"]

\* Polite: a POST with a body (anything else reaches the assertion of
\* evrpc_reqstate_free_, there being no state to free).
evrpc_request_cb(a) ==
    /\ rpcs[a].st = "new" /\ rpcs[a].registered
    /\ \E hook \in HookResults, parses, proper \in BOOLEAN :
         /\ Polite => proper
         /\ rpcs' = IF ~proper THEN [rpcs EXCEPT ![a].fatal = TRUE]
                    ELSE IF hook = "pause" THEN [rpcs EXCEPT ![a].st = "paused in"]
                    ELSE evrpc_request_cb_closure(rpcs, a, hook, parses)
    /\ UNCHANGED pool
evrpc_request_done(a) ==
    /\ rpcs[a].st = "user"
    /\ \E complete \in BOOLEAN, hook \in HookResults : rpcs' = evrpc_request_done_(rpcs, a, complete, hook)
    /\ UNCHANGED pool
resume_at_server(a, res) ==
    /\ res # "pause"
    /\ \/ /\ rpcs[a].st = "paused in"
          /\ \E parses \in BOOLEAN : rpcs' = evrpc_request_cb_closure(rpcs, a, res, parses)
       \/ /\ rpcs[a].st = "paused out"
          /\ rpcs' = IF res = "terminate" THEN send_error(rpcs, a) ELSE free_state(evhttp_answers(rpcs, a), a)
    /\ UNCHANGED pool
\* Polite: no request of the procedure is under way.
evrpc_unregister_rpc ==
    /\ \A a \in Asks : rpcs[a].registered /\ (Polite => rpcs[a].st \in {"new", "freed"})
    /\ rpcs' = [a \in Asks |-> [rpcs[a] EXCEPT !.registered = FALSE]]
    /\ UNCHANGED pool

evrpc_init == rpcs = [a \in Asks |-> [st |-> "new", answers |-> 0, registered |-> TRUE, fatal |-> FALSE]]

RpcInit == evrpc_pool_new /\ evrpc_init
PoolNext == \/ \E c \in Calls : evrpc_make_request(c) \/ evrpc_request_timeout(c)
            \/ \E c \in Calls, res \in HookResults : evrpc_resume_request(c, res)
            \/ \E k \in Conns : RequestEnds(k) \/ evrpc_pool_add_connection(k) \/ evrpc_pool_remove_connection(k)
            \/ evrpc_pool_free
RpcServerNext == \/ \E a \in Asks : evrpc_request_cb(a) \/ evrpc_request_done(a)
                 \/ \E a \in Asks, res \in HookResults : resume_at_server(a, res)
                 \/ evrpc_unregister_rpc

-----------------------------------------------------------------------------
(* Properties. *)

\* "a timeout after which the whole rpc is going to be aborted": a timer runs
\* only for a request that is still on its connection, and when it fires it
\* is that request which is aborted.
TimeoutsHitOwn == /\ ~pool.fatal /\ ~pool.wronged
                  /\ \A c \in Calls : pool.call[c].timer => c \in Range(pool.busy[pool.call[c].evcon])
\* With a timeout, a request on a connection always has its timer.
CallsTimed == pool.alive /\ pool.timeout => \A k \in Conns : \A c \in Range(pool.busy[k]) : pool.call[c].timer

\* "if no connection is available, we queue the request on the pool, the next
\* time a connection is empty, the rpc will be send on that": while requests
\* are queued, some request whose end will look for them is under way.
QueuedServed ==
    pool.alive /\ pool.requests # <<>> /\ pool.conns # <<>> =>
        \E c \in Calls : pool.call[c].st \in {"sent", "paused out", "paused in"}

\* A request at the server is answered once, as its state is freed, and the
\* procedure it belongs to is there until then.
AnsweredOnce == \A a \in Asks : /\ rpcs[a].answers = IF rpcs[a].st = "freed" THEN 1 ELSE 0
                                /\ rpcs[a].st \notin {"new", "freed"} => rpcs[a].registered
                                /\ ~rpcs[a].fatal

\* Remote calls are timed, aborted by their own timers only, served from the
\* queue, and answered once.
RpcsServed == TimeoutsHitOwn /\ CallsTimed /\ QueuedServed /\ AnsweredOnce
=============================================================================
