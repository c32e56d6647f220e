----------------------------- MODULE HttpClient -----------------------------
(***************************************************************************)
(* An outgoing connection of http.c with its queue of requests.  The       *)
(* bufferevent under it is modelled by the directions that are enabled,    *)
(* the callbacks that are set and the bytes that wait in its buffers: `out'*)
(* whole requests to write, `input' a sequence of the parts of responses.  *)
(* A response is a sequence of such parts; the peer sends it in pieces.    *)
(* Every function of the code is an operator from the state w of the       *)
(* connection and its requests to the state it leaves.                     *)
(*                                                                         *)
(* Where the code calls the program, a frame is pushed on `stack': the     *)
(* program may call anything then, and callback_returns runs what follows. *)
(***************************************************************************)
EXTENDS Integers, Sequences

CONSTANTS Reqs,        \* the requests the program may make
          Owned,       \* those it called evhttp_request_own for
          Chunked,     \* those with a chunk callback
          Expecting,   \* those with "Expect: 100-continue"
          Bodies,      \* how the responses end: subset of {"none", "length", "chunked", "close", "bad"}
          RetryMax,    \* evhttp_connection_set_retries
          ReadOnError, \* EVHTTP_CON_READ_ON_WRITE_ERROR is set
          BindFails,   \* a local address is set and may be taken
          Careful      \* TRUE: the program keeps clear of the uses marked Careful

VARIABLES con, req, stack

httpVars == <<con, req, stack>>

Bump(x) == IF x < 2 THEN x + 1 ELSE x
Die(w, why) == [w EXCEPT !.c.fatal = IF @ = "none" THEN why ELSE @]
Assert(w, ok, why) == IF ok THEN w ELSE Die(w, why)

Queue(w) == w.c.requests
evhttp_connected(w) == w.c.state \notin {"DISCONNECTED", "CONNECTING"}

-----------------------------------------------------------------------------
(* Requests. *)

\* evhttp_request_free and evhttp_request_free_auto.
evhttp_request_free(w, r) ==
    IF w.q[r].defer_free THEN [w EXCEPT !.q[r].needs_free = TRUE]
    ELSE [w EXCEPT !.q[r].freed = Bump(@)]
evhttp_request_free_auto(w, r) == IF r \in Owned THEN w ELSE evhttp_request_free(w, r)
evhttp_request_free_(w, r) ==
    evhttp_request_free_auto([w EXCEPT !.c.requests = SelectSeq(@, LAMBDA x : x # r)], r)

\* The program's callback is called with the request, or with NULL.
Frame(k, r, free, list, on) == [k |-> k, r |-> r, free |-> free, list |-> list, on |-> on]
push(w, f) == [w EXCEPT !.s = <<f>> \o @]
notify(w, r, how) == [w EXCEPT !.q[r].calls = Bump(@), !.q[r].fate = how]

\* The callbacks that are due on top of the stack are called.
settle(w) ==
    IF w.s = <<>> THEN w
    ELSE LET f == Head(w.s)
         IN IF f.on THEN w
            ELSE [notify(w, f.r, IF f.k = "done" THEN "answered" ELSE "failed") EXCEPT !.s[1].on = TRUE]

-----------------------------------------------------------------------------
(* The connection. *)

\* Buffers, callbacks and events go; the retry event, the deferred read and
\* EVHTTP_CON_CLOSEDETECT stay as they are.
evhttp_connection_reset_(w) ==
    [w EXCEPT !.c.rd = FALSE, !.c.wr = FALSE, !.c.fd = "none", !.c.out = 0, !.c.input = <<>>, !.c.sending = <<>>,
              !.c.reading_error = FALSE, !.c.state = "DISCONNECTED"]

\* Try again later, or tell all requests: they are moved to a list of their
\* own first, because a callback may make new ones.
evhttp_connection_cb_cleanup(w) ==
    LET w1 == evhttp_connection_reset_(w)
        list == Queue(w1)
    IN IF RetryMax < 0 \/ w1.c.retry_cnt < RetryMax
       THEN [Assert(w1, ~w1.c.retry, "assigned while pending") EXCEPT !.c.retry = TRUE, !.c.retry_cnt = @ + 1]
       ELSE IF list = <<>> THEN w1
       ELSE push([w1 EXCEPT !.c.requests = <<>>, !.q[Head(list)].evcon = FALSE],
                 Frame("cleanup", Head(list), FALSE, Tail(list), FALSE))

\* `luck' says how a connect started in this step begins.
evhttp_connection_connect_(w) ==
    LET w1 == evhttp_connection_reset_(w)
    IN IF w.c.state = "CONNECTING" THEN w
       ELSE CASE w.luck = "starts" -> [w1 EXCEPT !.c.cbs = "connect", !.c.wr = TRUE, !.c.fd = "connecting", !.c.state = "CONNECTING"]
              [] w.luck = "bind" -> w1
              [] w.luck = "fails" -> evhttp_connection_cb_cleanup([w1 EXCEPT !.c.cbs = "connect", !.c.state = w.c.state])

evhttp_write_buffer(w) == [w EXCEPT !.c.cbs = "write", !.c.wr = TRUE]

evhttp_request_dispatch(w) ==
    IF Queue(w) = <<>> THEN w
    ELSE LET r == Head(Queue(w))
             w1 == Assert([w EXCEPT !.c.closedetect = FALSE, !.c.rd = FALSE], w.c.state = "IDLE", "dispatch not idle")
         IN evhttp_write_buffer([w1 EXCEPT !.c.state = "WRITING", !.c.out = 1, !.q[r].sent = Bump(@)])

evhttp_start_read_(w) ==
    [w EXCEPT !.c.wr = FALSE, !.c.rd = TRUE, !.c.state = "READING_FIRSTLINE", !.c.cbs = "read",
              !.c.deferred = @ \/ w.c.input # <<>>]

evhttp_start_write_(w) ==
    evhttp_write_buffer([w EXCEPT !.c.wr = FALSE, !.c.rd = TRUE, !.c.state = "WRITING"])

\* Mutant: the next request is forgotten when the first one fails.
fail_leaves_queue(w, cancel) ==
    LET r == Head(Queue(w))
        w1 == evhttp_connection_reset_(evhttp_request_free_([w EXCEPT !.c.rd = FALSE, !.c.wr = FALSE], r))
    IN IF Queue(w) = <<>> THEN Die(w, "fail without request")
       ELSE IF cancel THEN [w1 EXCEPT !.q[r].fate = "dropped"] ELSE push(w1, Frame("failed", r, FALSE, <<>>, FALSE))

\* Mutant: the callback of a cancelled request is called as well.
fail_tells_cancelled(w, cancel) ==
    LET r == Head(Queue(w))
        w1 == evhttp_connection_reset_(evhttp_request_free_([w EXCEPT !.c.rd = FALSE, !.c.wr = FALSE], r))
        w2 == push([w1 EXCEPT !.q[r].fate = IF cancel THEN "dropped" ELSE @], Frame("failed", r, FALSE, <<>>, FALSE))
    IN IF Queue(w) = <<>> THEN Die(w, "fail without request")
       ELSE IF Queue(w2) = <<>> THEN w2 ELSE evhttp_connection_connect_(w2)

\* The first request ends; the others go over a new connection.
evhttp_connection_fail_(w, cancel) ==
    LET r == Head(Queue(w))
        w1 == evhttp_connection_reset_(evhttp_request_free_([w EXCEPT !.c.rd = FALSE, !.c.wr = FALSE], r))
        w2 == IF cancel THEN [w1 EXCEPT !.q[r].fate = "dropped"] ELSE push(w1, Frame("failed", r, FALSE, <<>>, FALSE))
    IN IF Queue(w) = <<>> THEN Die(w, "fail without request")
       ELSE IF Queue(w2) = <<>> THEN w2 ELSE evhttp_connection_connect_(w2)

\* The response is complete: go on with the next request, wait for the peer
\* to close, or be freed after the callback.
evhttp_connection_done(w) ==
    LET r == Head(Queue(w))
        need_close == w.c.closing
        w1 == [w EXCEPT !.c.requests = Tail(@), !.q[r].evcon = FALSE, !.c.state = "IDLE"]
        w2 == IF need_close THEN evhttp_connection_reset_(w1) ELSE w1
        last == Tail(Queue(w)) = <<>>
        w3 == push(w2, Frame("done", r, last /\ need_close /\ w.c.autofree, <<>>, FALSE))
    IN IF Queue(w) = <<>> THEN Die(w, "done without request")
       ELSE IF last THEN (IF need_close THEN w3 ELSE [w3 EXCEPT !.c.closedetect = TRUE, !.c.rd = TRUE])
       ELSE IF evhttp_connected(w3) THEN evhttp_request_dispatch(w3) ELSE evhttp_connection_connect_(w3)

\* evhttp_connection_free.
RECURSIVE free_all(_)
free_all(w) ==
    IF Queue(w) = <<>> THEN w
    ELSE LET r == Head(Queue(w)) IN free_all(evhttp_request_free_([w EXCEPT !.q[r].fate = "dropped"], r))
evhttp_connection_free(w) ==
    [free_all(w) EXCEPT !.c.freed = TRUE, !.c.retry = FALSE, !.c.deferred = FALSE, !.c.rd = FALSE, !.c.wr = FALSE,
                        !.c.fd = "none", !.c.sending = <<>>, !.c.input = <<>>, !.c.state = "DISCONNECTED"]

-----------------------------------------------------------------------------
(* Reading a response. *)

Part(w) == Head(w.c.input).t
pop(w) == [w EXCEPT !.c.input = Tail(@)]

evhttp_read_trailer(w) ==
    IF w.c.input = <<>> THEN w
    ELSE IF Part(w) = "trailer" THEN evhttp_connection_done([pop(w) EXCEPT !.c.rd = FALSE])
    ELSE evhttp_connection_fail_(w, FALSE)

chunk_cb(w, r) == push([w EXCEPT !.q[r].defer_free = TRUE], Frame("chunk", r, FALSE, <<>>, TRUE))

RECURSIVE evhttp_read_chunks(_)
\* evhttp_handle_chunked_read and what evhttp_read_body does with its result.
evhttp_read_chunks(w) ==
    LET r == Head(Queue(w))
    IN IF w.c.input = <<>> THEN w
       ELSE CASE Part(w) = "chunk" -> IF r \in Chunked THEN chunk_cb(pop(w), r) ELSE evhttp_read_chunks(pop(w))
              [] Part(w) = "last" -> evhttp_read_trailer([pop(w) EXCEPT !.c.state = "READING_TRAILER"])
              [] OTHER -> evhttp_connection_fail_(w, FALSE)

\* The data parts at the front of the input, at most n of them.
RECURSIVE datas(_, _)
datas(s, n) == IF s # <<>> /\ n # 0 /\ Head(s).t = "data" THEN 1 + datas(Tail(s), n - 1) ELSE 0
take(w, n) == [w EXCEPT !.c.input = SubSeq(@, n + 1, Len(@)), !.c.ntoread = IF @ < 0 THEN @ ELSE @ - n]

finish_body(w) == IF w.c.ntoread = 0 THEN evhttp_connection_done([w EXCEPT !.c.rd = FALSE]) ELSE w

evhttp_read_body(w) ==
    LET r == Head(Queue(w))
        n == datas(w.c.input, w.c.ntoread)
    IN IF w.c.chunked THEN evhttp_read_chunks(w)
       ELSE IF w.c.ntoread < 0 \/ r \in Chunked \/ n = w.c.ntoread
       THEN IF n > 0 /\ r \in Chunked THEN chunk_cb(take(w, n), r) ELSE finish_body(take(w, n))
       ELSE w

evhttp_get_body(w, head) ==
    LET w1 == [w EXCEPT !.c.state = "READING_BODY", !.c.chunked = head.body = "chunked",
                        !.c.ntoread = IF head.body = "length" THEN 2 ELSE -1]
    IN IF head.body = "bad" THEN evhttp_connection_fail_(w1, FALSE) ELSE evhttp_read_body(w1)

\* `refuse' is a negative answer of the header callback.
evhttp_read_header(w) ==
    LET head == Head(w.c.input)
        w1 == [pop(w) EXCEPT !.c.closing = head.close]
    IN IF w.c.input = <<>> THEN w
       ELSE IF head.t # "head" \/ w.refuse THEN evhttp_connection_fail_(w, FALSE)
       ELSE IF head.body = "continue" THEN evhttp_start_write_([w1 EXCEPT !.c.out = 1])
       ELSE IF head.body = "none" THEN evhttp_connection_done(w1)
       ELSE evhttp_get_body(w1, head)

evhttp_read_firstline(w) ==
    IF w.c.input = <<>> THEN w
    ELSE IF Part(w) = "line" THEN evhttp_read_header([pop(w) EXCEPT !.c.state = "READING_HEADERS"])
    ELSE evhttp_connection_fail_(w, FALSE)

evhttp_read_cb(w) ==
    LET w1 == [w EXCEPT !.c.deferred = FALSE]
    IN CASE w.c.state = "READING_FIRSTLINE" -> evhttp_read_firstline(w1)
         [] w.c.state = "READING_HEADERS" -> evhttp_read_header(w1)
         [] w.c.state = "READING_BODY" -> evhttp_read_body(w1)
         [] w.c.state = "READING_TRAILER" -> evhttp_read_trailer(w1)
         [] w.c.state = "IDLE" -> evhttp_connection_reset_(w1)
         [] OTHER -> Die(w1, "illegal connection state")

\* After the request was written.
evhttp_write_connectioncb(w) ==
    LET w1 == Assert(Assert(w, Queue(w) # <<>>, "written without request"), w.c.state = "WRITING", "written not writing")
    IN evhttp_start_read_(w1)

evhttp_connection_read_on_write_error(w) ==
    IF w.c.reading_error THEN evhttp_connection_fail_([w EXCEPT !.c.reading_error = FALSE], FALSE)
    ELSE [evhttp_start_read_([w EXCEPT !.c.out = 0]) EXCEPT !.c.reading_error = TRUE]

\* what: "timeout", or an end or error while "reading" or "writing".
evhttp_error_cb(w, what) ==
    LET w1 == evhttp_connection_reset_(Assert([w EXCEPT !.c.closedetect = FALSE], w.c.state = "IDLE", "detected close not idle"))
    IN IF w.c.state = "CONNECTING" /\ what = "timeout" THEN evhttp_connection_cb_cleanup(w)
       ELSE IF w.c.state = "READING_BODY" /\ ~w.c.chunked /\ w.c.ntoread < 0 /\ what = "eof" THEN evhttp_connection_done(w)
       ELSE IF w.c.closedetect THEN (IF Queue(w1) = <<>> /\ w.c.autofree THEN evhttp_connection_free(w1) ELSE w1)
       ELSE IF what = "writing" /\ ReadOnError THEN evhttp_connection_read_on_write_error(w)
       ELSE evhttp_connection_fail_(w, FALSE)

evhttp_connection_cb(w, what) ==
    CASE what = "connected" -> evhttp_request_dispatch([w EXCEPT !.c.fd = "up", !.c.retry_cnt = 0, !.c.state = "IDLE", !.c.cbs = "read"])
      [] what = "refused" -> evhttp_connection_cb_cleanup(w)
      [] OTHER -> evhttp_error_cb(w, what)

-----------------------------------------------------------------------------
(* Steps. *)

Now == [c |-> con, q |-> req, s |-> stack, luck |-> "starts", refuse |-> FALSE]
Becomes(w) == LET w1 == settle(w) IN con' = w1.c /\ req' = w1.q /\ stack' = w1.s
Alive == con.fatal = "none" /\ ~con.freed
Lucks == {"starts", "fails"} \cup (IF BindFails THEN {"bind"} ELSE {})
Quiet == Alive /\ stack = <<>>

\* The connects of a step begin with the luck of the step.
With(luck) == [Now EXCEPT !.luck = luck]

\* The events of the bufferevent.  Careful: a connection that was reset while
\* it waited for its peer to close is refused, or succeeds.
ConnectEnds == /\ Quiet /\ con.fd = "connecting" /\ con.cbs = "connect"
               /\ \E what \in {"connected", "refused", "timeout", "other"}, luck \in Lucks :
                    /\ what = "other" /\ Careful => ~con.closedetect
                    /\ Becomes(evhttp_connection_cb(With(luck), what))

Head1(body, close) == [t |-> "head", body |-> body, close |-> close]
P(t) == [t |-> t, body |-> "none", close |-> FALSE]
Rest(body) == CASE body = "length" -> <<P("data"), P("data")>>
                [] body = "chunked" -> <<P("chunk"), P("last"), P("trailer")>>
                [] body = "close" -> <<P("data")>>
                [] OTHER -> <<>>
Answers == {<<P("junk")>>} \cup {<<P("line"), Head1(b, c)>> \o Rest(b) : b \in Bodies, c \in BOOLEAN}
Continue == <<P("line"), Head1("continue", FALSE)>>

Written == /\ Quiet /\ con.wr /\ con.out > 0 /\ con.fd = "up"
           /\ \E answer \in IF con.sending \o con.input # <<>> THEN {con.sending}
                            ELSE IF Head(con.requests) \in Expecting /\ ~con.continued
                            THEN {Continue} \cup {Continue \o a : a \in Answers} \cup Answers ELSE Answers :
                LET w == [Now EXCEPT !.c.out = 0, !.c.sending = answer,
                                     !.c.continued = answer = Continue]
                IN Becomes(IF con.cbs \in {"write", "read"} THEN evhttp_write_connectioncb(w) ELSE w)

\* Some of the response arrives; the read callback runs if it is set.
Arrives == /\ Quiet /\ con.rd /\ con.fd = "up" /\ con.sending # <<>>
           /\ \E k \in 1..Len(con.sending), luck \in Lucks, refuse \in BOOLEAN :
                LET w == [With(luck) EXCEPT !.c.input = @ \o SubSeq(con.sending, 1, k),
                                            !.c.sending = SubSeq(@, k + 1, Len(@)), !.refuse = refuse]
                IN Becomes(IF con.cbs = "read" THEN evhttp_read_cb(w) ELSE w)

\* The peer of an idle connection sends something.
Stray == /\ Quiet /\ con.rd /\ con.fd = "up" /\ con.state = "IDLE"
         /\ Becomes(evhttp_read_cb([Now EXCEPT !.c.input = <<P("junk")>>]))

\* The connection ends or times out in a direction that is enabled.  Careful:
\* not in the turn of the loop that scheduled the deferred read.
Ends == /\ Quiet /\ con.fd = "up" /\ (Careful => ~con.deferred)
        /\ \E what \in {"eof", "reading", "writing", "timeout"}, luck \in Lucks :
             /\ what \in {"eof", "reading"} => con.rd
             /\ what = "writing" => con.wr
             /\ what = "timeout" => con.rd \/ con.wr
             /\ what = "eof" => con.sending = <<>>
             /\ Becomes(evhttp_error_cb([With(luck) EXCEPT !.c.rd = @ /\ what = "writing", !.c.wr = @ /\ what \in {"eof", "reading"},
                                                           !.c.sending = <<>>], what))

evhttp_connection_retry == /\ Quiet /\ con.retry
                           /\ \E luck \in Lucks :
                                Becomes(evhttp_connection_connect_([With(luck) EXCEPT !.c.retry = FALSE, !.c.state = "DISCONNECTED"]))

evhttp_deferred_read_cb == /\ Quiet /\ con.deferred
                           /\ \E luck \in Lucks, refuse \in BOOLEAN :
                                Becomes(evhttp_read_cb([With(luck) EXCEPT !.refuse = refuse]))

\* A callback of the program returns to the function that called it: what
\* that function, and those it returns to, have left to do with frame f.
done_returns(w, f) ==
    LET w1 == evhttp_request_free_auto(w, f.r)
    IN IF ~f.free THEN w1
       ELSE IF w.c.freed THEN Die(w1, "freed connection used")
       ELSE IF Queue(w1) = <<>> THEN evhttp_connection_free(w1) ELSE w1
cleanup_returns(w, f) ==
    LET w1 == evhttp_request_free_auto(w, f.r)
    IN IF f.list = <<>> THEN w1
       ELSE push([w1 EXCEPT !.q[Head(f.list)].evcon = FALSE], Frame("cleanup", Head(f.list), FALSE, Tail(f.list), FALSE))
chunk_returns(w, f) ==
    LET w1 == [w EXCEPT !.q[f.r].defer_free = FALSE]
    IN IF w1.q[f.r].needs_free THEN evhttp_request_free_auto(w1, f.r)
       ELSE IF w.c.freed THEN Die(w1, "freed connection used")
       ELSE IF ~w.c.chunked THEN finish_body(w1)
       ELSE IF Queue(w1) = <<>> THEN w1 ELSE evhttp_read_chunks(w1)
callback_returns ==
    /\ con.fatal = "none" /\ stack # <<>>
    /\ \E luck \in Lucks :
        LET f == Head(stack)
            w == [With(luck) EXCEPT !.s = Tail(@)]
        IN Becomes(CASE f.k = "failed"  -> w
                     [] f.k = "done"    -> done_returns(w, f)
                     [] f.k = "cleanup" -> cleanup_returns(w, f)
                     [] f.k = "chunk"   -> chunk_returns(w, f))

-----------------------------------------------------------------------------
(* The program. *)

\* Careful: no request is made while the connection waits to retry.
evhttp_make_request(r) ==
    /\ Alive /\ req[r].fate = "new" /\ (Careful => ~con.retry)
    /\ \E luck \in Lucks :
        LET w == [With(luck) EXCEPT !.c.requests = Append(@, r), !.q[r].evcon = TRUE, !.q[r].fate = "asked"]
            w1 == evhttp_connection_connect_(w)
            first == Head(Queue(w)) = r
        IN Becomes(IF ~evhttp_connected(w)
                   THEN (IF luck = "bind" /\ con.state # "CONNECTING"
                         THEN [w1 EXCEPT !.c.requests = SubSeq(@, 1, Len(@) - 1), !.q[r].fate = "failed"] ELSE w1)
                   ELSE IF first THEN evhttp_request_dispatch(w) ELSE w)

\* A request the program may still name.
Known(r) == /\ req[r].fate = "asked" /\ req[r].freed = 0
            /\ ~\E i \in DOMAIN stack : stack[i].r = r /\ stack[i].k # "chunk"

\* Careful: neither while the connection waits to retry, nor a request of a
\* failed connection whose turn has not come, nor an owned one from its own
\* chunk callback, nor one whose response waits for the deferred callback.
evhttp_cancel_request(r) ==
    /\ con.fatal = "none" /\ Known(r)
    /\ Careful => /\ r \in {con.requests[i] : i \in DOMAIN con.requests}
                  /\ ~con.deferred /\ ~con.retry
                  /\ r \in Owned => ~\E i \in DOMAIN stack : stack[i].k = "chunk"
    /\ \E luck \in Lucks :
        LET w == With(luck)
        IN Becomes(IF req[r].evcon /\ Queue(w) # <<>> /\ Head(Queue(w)) = r THEN evhttp_connection_fail_(w, TRUE)
                   ELSE evhttp_request_free_([w EXCEPT !.q[r].fate = "dropped"], r))

\* The program frees the connection, outside of its callbacks.
free_connection == Quiet /\ ~con.autofree /\ Becomes(evhttp_connection_free(Now))

evhttp_connection_free_on_completion == Alive /\ ~con.autofree /\ Becomes([Now EXCEPT !.c.autofree = TRUE])

evhttp_connection_base_bufferevent_new ==
    /\ con = [state |-> "DISCONNECTED", fd |-> "none", rd |-> FALSE, wr |-> FALSE, cbs |-> "read", out |-> 0, input |-> <<>>,
              sending |-> <<>>, requests |-> <<>>, retry |-> FALSE, retry_cnt |-> 0, closedetect |-> FALSE,
              reading_error |-> FALSE, deferred |-> FALSE, closing |-> FALSE, chunked |-> FALSE, ntoread |-> -1,
              continued |-> FALSE, autofree |-> FALSE, freed |-> FALSE, fatal |-> "none"]
    /\ req = [r \in Reqs |-> [fate |-> "new", evcon |-> FALSE, sent |-> 0, calls |-> 0, freed |-> 0,
                              defer_free |-> FALSE, needs_free |-> FALSE]]
    /\ stack = <<>>

HttpNext == \/ ConnectEnds \/ Written \/ Arrives \/ Stray \/ Ends
            \/ evhttp_connection_retry \/ evhttp_deferred_read_cb \/ callback_returns
            \/ \E r \in Reqs : evhttp_make_request(r) \/ evhttp_cancel_request(r)
            \/ free_connection \/ evhttp_connection_free_on_completion

-----------------------------------------------------------------------------
(* Properties. *)

\* None of the code's assertions and fatal errors is reached: no read callback
\* in a state that does not read, no failure and no end of a response without
\* a request, no retry event assigned while it is pending, no connection used
\* after it was freed.
NeverFatal == con.fatal = "none"

\* The fate of a request, with a second callback counted as one of its own.
Fates == [r \in Reqs |-> IF req[r].calls > 1 THEN "twice" ELSE req[r].fate]

Promise == INSTANCE HttpRequests WITH Reqs <- Reqs, fate <- Fates

\* Every request ends once: its callback runs once, or it was cancelled and
\* never runs, through failures, retries and callbacks that make or cancel
\* other requests (evhttp_connection_done, _fail_, _cb_cleanup).
EndsOnce == Promise!Spec

\* Requests are freed once, and no request in the queue was freed.
FreedOnce == /\ \A r \in Reqs : req[r].freed <= 1
             /\ \A i \in DOMAIN con.requests : req[con.requests[i]].freed = 0

\* While requests wait, something is under way that will serve them: a
\* connect, a retry, or the first request being written or answered.
QueueServed == con.requests # <<>> /\ ~con.freed /\ stack = <<>> =>
                  \/ con.retry
                  \/ con.state = "CONNECTING" /\ con.wr /\ con.cbs = "connect"
                  \/ con.state = "WRITING" /\ con.wr /\ con.out > 0 /\ con.cbs = "write"
                  \/ con.state \in {"READING_FIRSTLINE", "READING_HEADERS", "READING_BODY", "READING_TRAILER"}
                     /\ con.rd /\ con.cbs = "read"

\* A request goes out once: retries repeat the connect, never a request the
\* peer may have acted on.
SentOnce == \A r \in Reqs : req[r].sent <= 1

\* An outgoing connection reaches no assertion, frees each request once,
\* sends it once, and always has something under way for those that wait.
ClientSound == NeverFatal /\ FreedOnce /\ QueueServed /\ SentOnce
=============================================================================
