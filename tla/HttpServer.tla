----------------------------- MODULE HttpServer -----------------------------
(***************************************************************************)
(* An incoming connection of http.c and the requests the program answers.  *)
(* As in HttpClient the bufferevent is what the code asks of it, and the   *)
(* bytes of a request are a sequence of parts.  A server connection has at *)
(* most one request in its queue, `cur'.                                   *)
(***************************************************************************)
EXTENDS Integers, Sequences

CONSTANTS SReqs,      \* request objects; evhttp_request_new fails when none is left
          NoReq,
          Lingering,  \* EVHTTP_SERVER_LINGERING_CLOSE
          Incoming,   \* what a peer may ask: subset of {"get", "post", "chunked", "expect", "other", "huge", "bad", "junk"}
          MaxInput,   \* bound: parts of requests in the input buffer
          Tidy        \* TRUE: the program and the peer keep clear of the uses marked Tidy

ASSUME HttpServerAssumption ==
    /\ NoReq \notin SReqs /\ Lingering \in BOOLEAN /\ MaxInput \in Nat
    /\ Incoming \subseteq {"get", "post", "chunked", "expect", "other", "huge", "bad", "junk"}

VARIABLES srv, sreq

srvVars == <<srv, sreq>>

\* Counts are kept up to 2, enough to tell once from twice.
Up(x) == IF x < 2 THEN x + 1 ELSE x
Halt(w, why) == [w EXCEPT !.c.fatal = IF @ = "none" THEN why ELSE @]

-----------------------------------------------------------------------------
(* The connection. *)

request_free(w, r) == [w EXCEPT !.q[r].freed = Up(@)]

server_connection_free(w) ==
    LET w1 == [w EXCEPT !.c = [w.c EXCEPT !.alive = FALSE, !.cur = NoReq, !.rd = FALSE, !.wr = FALSE,
                                        !.deferred = FALSE, !.out = 0, !.input = <<>>, !.sending = <<>>,
                                        !.cb = "none", !.state = "DISCONNECTED"]]
    IN IF w.c.cur = NoReq THEN w1 ELSE request_free(w1, w.c.cur)

server_write_buffer(w, cb) == [w EXCEPT !.c = [w.c EXCEPT !.cb = cb, !.cbs = "write", !.wr = TRUE]]

server_start_read_(w) ==
    [w EXCEPT !.c = [w.c EXCEPT !.wr = FALSE, !.rd = TRUE, !.state = "READING_FIRSTLINE", !.cbs = "read",
                              !.deferred = @ \/ w.c.input # <<>>]]

\* The request is not the program's yet: userdone is set.
evhttp_associate_new_request_with_connection(w) ==
    LET unused == {r \in SReqs : ~w.q[r].live /\ w.q[r].freed = 0}
        r == CHOOSE x \in unused : TRUE
    IN IF unused = {} THEN server_connection_free(w)
       ELSE server_start_read_([w EXCEPT !.c.cur = r,
                                         !.q[r] = [w.q[r] EXCEPT !.live = TRUE, !.evcon = TRUE, !.userdone = TRUE]])

evhttp_send(w, r, close) ==
    LET m == [w.q[r] EXCEPT !.userdone = TRUE, !.replied = TRUE, !.close = @ \/ close, !.held = FALSE]
        w1 == [w EXCEPT !.c.out = Up(@), !.q[r] = m]
    IN IF ~w.q[r].evcon THEN request_free([w EXCEPT !.q[r].held = FALSE], r)
       ELSE server_write_buffer(IF w.c.cur = r THEN w1 ELSE Halt(w1, "reply is not to the first request"), "send_done")

evhttp_send_done(w) ==
    LET r == w.c.cur
        w1 == request_free([w EXCEPT !.c.cur = NoReq], r)
    IN IF r = NoReq THEN Halt(w, "sent without request")
       ELSE IF w.q[r].close THEN server_connection_free(w1) ELSE evhttp_associate_new_request_with_connection(w1)

\* The request goes to the program, or is answered with an error page.
evhttp_handle_request(w, bad) ==
    LET r == w.c.cur
    IN IF bad \/ w.unrouted THEN evhttp_send([w EXCEPT !.q[r].userdone = FALSE], r, TRUE)
       ELSE [w EXCEPT !.q[r] = [w.q[r] EXCEPT !.userdone = FALSE, !.held = TRUE]]

\* evhttp_connection_fail_ and evhttp_connection_incoming_fail.  A request
\* that is the program's loses its connection, which is freed; other errors
\* are answered.
evhttp_connection_incoming_fail(w, network) ==
    LET r == w.c.cur
        w1 == [w EXCEPT !.c = [w.c EXCEPT !.rd = FALSE, !.wr = FALSE]]
    IN IF r = NoReq THEN Halt(w, "fail without request")
       ELSE IF network
       THEN server_connection_free(IF w.q[r].userdone THEN w1 ELSE [w1 EXCEPT !.c.cur = NoReq, !.q[r].evcon = FALSE])
       ELSE evhttp_handle_request(w1, TRUE)

server_connection_done(w) == evhttp_handle_request([w EXCEPT !.c.state = "WRITING"], FALSE)

-----------------------------------------------------------------------------
(* Reading a request. *)

token(w) == Head(w.c.input).t
next(w) == [w EXCEPT !.c.input = Tail(@)]

server_read_trailer(w) ==
    IF w.c.input = <<>> THEN w
    ELSE IF token(w) = "trailer" THEN server_connection_done([next(w) EXCEPT !.c.rd = FALSE])
    ELSE evhttp_connection_incoming_fail(w, FALSE)

evhttp_handle_chunked_read(w) ==
    LET chunks == {i \in 0..Len(w.c.input) : \A j \in 1..i : w.c.input[j].t = "chunk"}
        n == CHOOSE i \in chunks : \A j \in chunks : j <= i
        w1 == [w EXCEPT !.c.input = SubSeq(@, n + 1, Len(@))]
    IN IF w1.c.input = <<>> THEN w1
       ELSE IF token(w1) = "last" THEN server_read_trailer([next(w1) EXCEPT !.c.state = "READING_TRAILER"])
       ELSE evhttp_connection_incoming_fail(w1, FALSE)

\* A body that is longer than allowed is read to its end first when lingering.
evhttp_lingering_fail(w) ==
    LET n == IF Len(w.c.input) < w.c.ntoread THEN Len(w.c.input) ELSE w.c.ntoread
        w1 == [w EXCEPT !.c = [w.c EXCEPT !.ntoread = @ - n, !.input = SubSeq(@, n + 1, Len(@))]]
    IN IF ~Lingering THEN evhttp_connection_incoming_fail(w, FALSE)
       ELSE IF w1.c.ntoread = 0 THEN evhttp_connection_incoming_fail(w1, FALSE) ELSE w1

server_read_body(w) ==
    LET all == Len(w.c.input) >= w.c.ntoread
        w1 == [w EXCEPT !.c = [w.c EXCEPT !.input = SubSeq(@, w.c.ntoread + 1, Len(@)), !.ntoread = 0, !.rd = FALSE]]
    IN IF w.c.chunked THEN evhttp_handle_chunked_read(w)
       ELSE IF w.c.huge THEN evhttp_lingering_fail(w)
       ELSE IF all THEN server_connection_done(w1) ELSE w

evhttp_send_continue(w) ==
    [w EXCEPT !.c = [w.c EXCEPT !.wr = TRUE, !.out = Up(@), !.cb = "continue_done", !.cbs = "read"]]

server_get_body(w, kind) ==
    LET w1 == [w EXCEPT !.c = [w.c EXCEPT !.state = "READING_BODY", !.chunked = kind = "chunked", !.huge = kind = "huge",
                                        !.ntoread = IF kind = "chunked" THEN -1 ELSE 2]]
    IN CASE kind = "get" -> server_connection_done(w)
         [] kind = "bad" -> evhttp_connection_incoming_fail(w1, FALSE)
         [] kind = "expect" -> server_read_body(IF w1.c.input = <<>> THEN evhttp_send_continue(w1) ELSE w1)
         [] kind = "other" -> evhttp_send(w1, w.c.cur, TRUE)
         [] OTHER -> server_read_body(w1)

server_read_header(w) ==
    LET head == Head(w.c.input)
    IN IF w.c.input = <<>> THEN w
       ELSE IF head.t # "head" THEN evhttp_connection_incoming_fail(w, FALSE)
       ELSE server_get_body([next(w) EXCEPT !.q[w.c.cur].close = head.close], head.kind)

server_read_firstline(w) ==
    IF w.c.input = <<>> THEN w
    ELSE IF token(w) # "line" THEN evhttp_connection_incoming_fail(w, FALSE)
    ELSE server_read_header([next(w) EXCEPT !.c.state = "READING_HEADERS"])

server_read_cb(w) ==
    LET w1 == [w EXCEPT !.c.deferred = FALSE]
    IN CASE w.c.state = "READING_FIRSTLINE" -> server_read_firstline(w1)
         [] w.c.state = "READING_HEADERS" -> server_read_header(w1)
         [] w.c.state = "READING_BODY" -> server_read_body(w1)
         [] w.c.state = "READING_TRAILER" -> server_read_trailer(w1)
         [] OTHER -> Halt(w1, "illegal connection state")

-----------------------------------------------------------------------------
(* Steps. *)

State == [c |-> srv, q |-> sreq, unrouted |-> FALSE]
Turns(w) == srv' = w.c /\ sreq' = w.q
Serving == srv.alive /\ srv.fatal = "none"

evhttp_get_request ==
    /\ ~srv.accepted
    /\ Turns(evhttp_associate_new_request_with_connection(
                [State EXCEPT !.c = [srv EXCEPT !.accepted = TRUE, !.alive = TRUE, !.state = "READING_FIRSTLINE",
                                              !.rd = TRUE]]))

\* The peer asks for something more.
Q(t, kind, close) == [t |-> t, kind |-> kind, close |-> close]
Body(kind) == CASE kind \in {"get", "other", "bad"} -> <<>>
                [] kind = "chunked" -> <<Q("chunk", "", FALSE), Q("last", "", FALSE), Q("trailer", "", FALSE)>>
                [] OTHER -> <<Q("data", "", FALSE), Q("data", "", FALSE)>>
Ask(kind, close) == IF kind = "junk" THEN <<Q("junk", "", FALSE)>>
                    ELSE <<Q("line", "", FALSE), Q("head", kind, close)>> \o Body(kind)
PeerAsks == /\ Serving /\ srv.sending = <<>> /\ Len(srv.input) < MaxInput
            /\ \E kind \in Incoming, close \in BOOLEAN : Turns([State EXCEPT !.c.sending = Ask(kind, close)])

\* Tidy: nothing arrives while the program prepares the reply to a request
\* without a body.
Received ==
    /\ Serving /\ srv.rd /\ srv.sending # <<>> /\ Len(srv.input) < MaxInput
    /\ Tidy => ~(srv.state = "WRITING" /\ srv.cbs = "read")
    /\ \E k \in 1..Len(srv.sending), unrouted \in BOOLEAN :
        LET w == [State EXCEPT !.c = [srv EXCEPT !.input = @ \o SubSeq(srv.sending, 1, k),
                                               !.sending = SubSeq(@, k + 1, Len(@))],
                               !.unrouted = unrouted]
        IN Turns(IF srv.cbs = "read" THEN server_read_cb(w) ELSE w)

server_deferred_read_cb == /\ Serving /\ srv.deferred
                           /\ \E unrouted \in BOOLEAN : Turns(server_read_cb([State EXCEPT !.unrouted = unrouted]))

\* The output is written: evhttp_write_cb calls evcon->cb.
evhttp_write_cb == /\ Serving /\ srv.wr /\ srv.out > 0
                   /\ LET w == [State EXCEPT !.c.out = 0]
                      IN Turns(CASE srv.cb = "send_done" -> evhttp_send_done(w)
                                 [] srv.cb = "continue_done" -> [w EXCEPT !.c.wr = FALSE]
                                 [] OTHER -> w)

server_error_cb == /\ Serving /\ (srv.rd \/ srv.wr)
                   /\ Turns(evhttp_connection_incoming_fail(State, TRUE))

\* The program answers a request it holds.
evhttp_send_reply(r) == sreq[r].held /\ ~sreq[r].started /\ Turns(evhttp_send(State, r, FALSE))
evhttp_send_error(r) == sreq[r].held /\ ~sreq[r].started /\ Turns(evhttp_send(State, r, TRUE))

\* Tidy: not after the connection of the request has ended.
evhttp_send_reply_start(r) ==
    /\ sreq[r].held /\ ~sreq[r].started /\ (Tidy => sreq[r].evcon)
    /\ \E chunked \in BOOLEAN :
        LET w == [State EXCEPT !.q[r] = [sreq[r] EXCEPT !.started = TRUE, !.chunked = chunked], !.c.out = Up(@)]
        IN Turns(IF sreq[r].evcon THEN server_write_buffer(w, "none") ELSE Halt(w, "reply starts without connection"))

evhttp_send_reply_chunk_with_cb(r) ==
    /\ sreq[r].held /\ sreq[r].started /\ sreq[r].evcon
    /\ Turns(server_write_buffer([State EXCEPT !.c.out = Up(@)], "none"))

\* Mutant: the end of a reply that is all written is left to the next write.
end_waits(r) ==
    /\ sreq[r].held /\ sreq[r].started
    /\ LET w == [State EXCEPT !.q[r].held = FALSE]
           w1 == [State EXCEPT !.q[r] = [sreq[r] EXCEPT !.held = FALSE, !.userdone = TRUE, !.replied = TRUE]]
       IN Turns(IF ~sreq[r].evcon THEN request_free(w, r)
                ELSE IF sreq[r].chunked THEN server_write_buffer([w1 EXCEPT !.c.out = Up(@)], "send_done")
                ELSE [w1 EXCEPT !.c.cb = "send_done"])

evhttp_send_reply_end(r) ==
    /\ sreq[r].held /\ sreq[r].started
    /\ LET w == [State EXCEPT !.q[r].held = FALSE]
           w1 == [State EXCEPT !.q[r] = [sreq[r] EXCEPT !.held = FALSE, !.userdone = TRUE, !.replied = TRUE]]
       IN Turns(IF ~sreq[r].evcon THEN request_free(w, r)
                ELSE IF sreq[r].chunked THEN server_write_buffer([w1 EXCEPT !.c.out = Up(@)], "send_done")
                ELSE IF srv.out = 0 THEN evhttp_send_done(w1)
                ELSE [w1 EXCEPT !.c.cb = "send_done"])

\* evhttp_free frees its connections.  Tidy: "Works only if no requests are
\* currently being served" (event2/http.h).
evhttp_free == /\ Serving /\ (Tidy => \A r \in SReqs : ~sreq[r].held)
               /\ Turns(server_connection_free(State))

SrvInit ==
    /\ srv = [accepted |-> FALSE, alive |-> FALSE, state |-> "DISCONNECTED", rd |-> FALSE, wr |-> FALSE, cbs |-> "read", cb |-> "none",
              out |-> 0, input |-> <<>>, sending |-> <<>>, cur |-> NoReq, deferred |-> FALSE, chunked |-> FALSE, huge |-> FALSE,
              ntoread |-> -1, fatal |-> "none"]
    /\ sreq = [r \in SReqs |-> [live |-> FALSE, evcon |-> FALSE, userdone |-> FALSE, held |-> FALSE, replied |-> FALSE,
                                started |-> FALSE, chunked |-> FALSE, close |-> FALSE, freed |-> 0]]

SrvNext == \/ evhttp_get_request \/ PeerAsks \/ Received \/ server_deferred_read_cb \/ evhttp_write_cb \/ server_error_cb \/ evhttp_free
           \/ \E r \in SReqs : \/ evhttp_send_reply(r) \/ evhttp_send_error(r)
                               \/ evhttp_send_reply_start(r) \/ evhttp_send_reply_chunk_with_cb(r) \/ evhttp_send_reply_end(r)

SrvSpec == SrvInit /\ [][SrvNext]_srvVars

-----------------------------------------------------------------------------
(* Properties. *)

\* No assertion or fatal error of the server side is reached: a reply is to
\* the first request of its connection, failures and ends of replies find
\* their request, and bytes are read only in the states that read.
ServerNeverFatal == srv.fatal = "none"

\* A request is freed once, and always by someone: until then it is in the
\* queue of a living connection or held by the program, and one that the
\* program holds is not freed and knows whether its connection still is.
RequestsHeld ==
    \A r \in SReqs :
       /\ sreq[r].freed <= 1
       /\ sreq[r].live /\ sreq[r].freed = 0 => srv.cur = r \/ sreq[r].held
       /\ sreq[r].held => sreq[r].freed = 0 /\ (sreq[r].evcon <=> srv.cur = r)
       /\ srv.cur = r => srv.alive

\* A finished reply is on its way out and will be noticed when it is written,
\* however the program put it together and whatever came before it.
RepliesLeave ==
    srv.cur # NoReq /\ sreq[srv.cur].replied => srv.wr /\ srv.out > 0 /\ srv.cb = "send_done"

\* A connection whose request nobody answers yet reads on.
ReadsRequests ==
    srv.cur # NoReq /\ ~sreq[srv.cur].replied /\ ~sreq[srv.cur].held =>
        srv.rd /\ srv.cbs = "read" /\ srv.state \notin {"WRITING", "IDLE"} /\ (srv.state = "READING_FIRSTLINE" /\ srv.input # <<>> => srv.deferred)

\* An incoming connection reaches no assertion, keeps each request for its
\* holder, sees every reply out, and reads on while it owes none.
ServerSound == ServerNeverFatal /\ RequestsHeld /\ RepliesLeave /\ ReadsRequests
=============================================================================
