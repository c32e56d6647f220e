----------------------------- MODULE ServerProofs -----------------------------
(***************************************************************************)
(* The two ends of an incoming connection: the listener that accepts it    *)
(* (Listener) and the HTTP server that serves it (HttpServer).             *)
(***************************************************************************)
EXTENDS Listener, HttpServer, WellFoundedInduction, TLAPS

-----------------------------------------------------------------------------
(* The listener.                                                           *)

\* The program's callback runs, or has just returned.
InCallback == reading.pc \in {"cb", "errorcb", "relock", "errorlock"}

Listeners == [cb: BOOLEAN, errorcb: BOOLEAN, enabled: BOOLEAN, added: BOOLEAN,
              refcnt: Int, held: BOOLEAN, freed: BOOLEAN]

LevType ==
    /\ lev \in Listeners
    /\ holder \in {Nobody, "loop", "other"}
    /\ reading \in [pc: {"out", "lock", "accept", "cb", "errorcb", "relock", "errorlock"},
                    c: Conns \cup {NoConn}]
    /\ other \in {"out", "disable", "free"}

\* The lock is the loop's while listener_read_cb
\* accepts and the other thread's while its event_del waits; the references are
\* the program's one and the callback's one; a listener the program has freed
\* lives on for the callback, or for the event_del of the thread that frees it.
LevInv ==
    /\ LevType
    /\ holder = "loop" <=> reading.pc = "accept"
    /\ holder = "other" <=> other # "out"
    /\ lev.refcnt = (IF lev.held THEN 1 ELSE 0) + (IF InCallback THEN 1 ELSE 0)
    /\ reading = Resting \/ reading.pc # "out"
    /\ other = "disable" => lev.held /\ ~lev.enabled
    /\ other = "free" => ~lev.held /\ ~lev.freed
    /\ lev.freed => ~lev.held /\ ~Running /\ other = "out" /\ ~lev.added
    /\ ~lev.held /\ ~lev.freed => InCallback \/ other = "free"
    /\ lev.held /\ lev.enabled /\ lev.cb => lev.added

\* listener_decref_and_unlock frees the listener with the last reference.
LEMMA Dropped ==
    ASSUME NEW l \in Listeners
    PROVE  /\ decref(l) \in Listeners
           /\ decref(l).refcnt = l.refcnt - 1
           /\ l.refcnt = 1 => decref(l).freed /\ ~decref(l).added
           /\ l.refcnt # 1 => decref(l).freed = l.freed /\ decref(l).added = l.added
           /\ decref(l).held = l.held /\ decref(l).cb = l.cb
           /\ decref(l).enabled = l.enabled
<1>1. CASE l.refcnt = 1
    <2> DEFINE r == [l EXCEPT !.refcnt = 0, !.added = FALSE, !.freed = TRUE]
    <2>1. decref(l) = r
        BY <1>1 DEF decref
    <2>2. 0 \in Int
        OBVIOUS
    <2>5. r \in Listeners /\ r.refcnt = 0
        BY <2>2, Zenon DEF Listeners
    <2>3. r.freed /\ ~r.added
        BY Zenon DEF Listeners
    <2>4. r.held = l.held /\ r.cb = l.cb /\ r.enabled = l.enabled
        BY DEF Listeners
    <2> HIDE DEF r
    <2> QED BY <1>1, <2>1, <2>5, <2>3, <2>4 DEF Listeners
<1>2. CASE l.refcnt # 1
    BY <1>2 DEF decref, Listeners
<1> QED BY <1>1, <1>2

\* The invariant holds when the listener is made.
LEMMA LevInit == evconnlistener_new => LevInv
BY DEF evconnlistener_new, LevInv, LevType, Listeners, InCallback, Running, Resting, At, Nobody

\* Every step of listener_read_cb preserves it.
LEMMA ReadStep == LevInv /\ listener_read_cb => LevInv'
<1> SUFFICES ASSUME LevInv, listener_read_cb PROVE LevInv'
    OBVIOUS
<1> USE DEF LevInv, LevType, Listeners, InCallback, Running, Resting, At, Nobody, Lock, Unlock
<1>1. CASE Start \/ EnterAccept
    BY <1>1 DEF Start, EnterAccept
<1>2. CASE AcceptEnds \/ AcceptFails
    BY <1>2 DEF AcceptEnds, AcceptFails
<1>3. ASSUME NEW c \in Conns, AcceptNameless(c) PROVE LevInv'
    BY <1>3 DEF AcceptNameless
<1>4. ASSUME NEW c \in Conns, Accepts(c) PROVE LevInv'
    BY <1>4 DEF Accepts
<1>5. CASE CallbackReturns
    BY <1>5 DEF CallbackReturns
<1>6. CASE AfterCallback
    <2>1. CASE lev.refcnt = 1
        BY <1>6, <2>1, Dropped DEF AfterCallback
    <2>2. CASE lev.refcnt # 1
        BY <1>6, <2>2 DEF AfterCallback
    <2> QED BY <2>1, <2>2
<1>7. CASE AfterErrorcb
    BY <1>7, Dropped DEF AfterErrorcb
<1> QED BY <1>1, <1>2, <1>3, <1>4, <1>5, <1>6, <1>7 DEF listener_read_cb

\* So does every call of the program, from the loop's thread or another.
LEMMA ProgramStep ==
    ASSUME LevInv, NEW t \in {"loop", "other"},
           \/ evconnlistener_enable(t) \/ evconnlistener_disable(t) \/ evconnlistener_free(t)
           \/ \E on \in BOOLEAN : evconnlistener_set_cb(t, on) \/ evconnlistener_set_error_cb(t, on)
    PROVE  LevInv'
<1> USE DEF LevInv, LevType, Listeners, InCallback, Running, Resting, At, Nobody, Lock, Unlock,
            MayCall
<1>1. CASE evconnlistener_enable(t)
    BY <1>1 DEF evconnlistener_enable
<1>2. CASE evconnlistener_disable(t)
    BY <1>2 DEF evconnlistener_disable
<1>3. CASE evconnlistener_free(t)
    <2> DEFINE l == [lev EXCEPT !.cb = FALSE, !.errorcb = FALSE, !.held = FALSE]
    <2>1. /\ l \in Listeners /\ ~l.cb /\ ~l.held
          /\ l.refcnt = lev.refcnt /\ l.freed = lev.freed /\ l.added = lev.added
        OBVIOUS
    <2>2. CASE t = "loop" \/ lev.refcnt > 1
        <3>1. lev' = decref(l) /\ UNCHANGED <<holder, other, reading>>
            BY <1>3, <2>2 DEF evconnlistener_free
        <3> HIDE DEF l
        <3> QED BY <1>3, <2>1, <2>2, <3>1, Dropped DEF evconnlistener_free
    <2>3. CASE ~(t = "loop" \/ lev.refcnt > 1)
        <3>1. /\ lev' = [l EXCEPT !.refcnt = 0] /\ UNCHANGED reading
              /\ holder = Nobody /\ holder' = "other" /\ other' = "free" /\ t = "other"
            BY <1>3, <2>3 DEF evconnlistener_free
        <3>2. lev.refcnt = 1 /\ ~InCallback
            BY <1>3, <2>3 DEF evconnlistener_free
        <3> HIDE DEF l
        <3>3. /\ lev' \in Listeners /\ ~lev'.cb /\ ~lev'.held /\ lev'.refcnt = 0
              /\ lev'.freed = lev.freed
            BY <2>1, <3>1
        <3> QED BY <1>3, <3>1, <3>2, <3>3 DEF evconnlistener_free
    <2> QED BY <2>2, <2>3
<1>4. ASSUME NEW on \in BOOLEAN, evconnlistener_set_cb(t, on) \/ evconnlistener_set_error_cb(t, on)
      PROVE LevInv'
    BY <1>4 DEF evconnlistener_set_cb, evconnlistener_set_error_cb
<1> QED BY <1>1, <1>2, <1>3, <1>4

\* Whatever the two threads do and whenever connections come, the listener lives
\* as long as listener_read_cb or a waiting event_del uses it, and listens
\* whenever it is enabled and has a callback (ListenerSafe), for every number of
\* connections.
THEOREM ListenerCorrect == LevSpec => []ListenerSafe
<1>1. LevInv /\ [LevNext]_levVars => LevInv'
    <2> SUFFICES ASSUME LevInv, [LevNext]_levVars PROVE LevInv'
        OBVIOUS
    <2>1. CASE event_del_returns
        BY <2>1 DEF event_del_returns, LevInv, LevType, Listeners, InCallback, Running, Resting, At,
           Nobody, Unlock
    <2>2. CASE UNCHANGED levVars
        BY <2>2 DEF levVars, LevInv, LevType, Listeners, InCallback, Running, Resting, At
    <2> QED BY <2>1, <2>2, ReadStep, ProgramStep DEF LevNext
<1>2. LevInv => ListenerSafe
    BY DEF LevInv, LevType, ListenerSafe, ListenerLives, ListenerListens, Running, Nobody, InCallback
<1> QED BY <1>1, <1>2, LevInit, PTL DEF LevSpec

-----------------------------------------------------------------------------
(***************************************************************************)
(* What the server's steps preserve.                                       *)
(*                                                                         *)
(* The request at the head of the connection's queue is in one of three    *)
(* situations, each of which fixes what the connection does.  Every other  *)
(* request is apart from the connection: it has not come yet, it is over,  *)
(* or the program holds it after the connection went away.                 *)
(***************************************************************************)

ReadingStates == {"READING_FIRSTLINE", "READING_HEADERS", "READING_BODY", "READING_TRAILER"}

\* The types of what a callback works on.
Tokens == [t: {"line", "head", "data", "chunk", "last", "trailer", "junk"},
           kind: Incoming \cup {""}, close: BOOLEAN]
Links == [accepted: BOOLEAN, alive: BOOLEAN, state: ReadingStates \cup {"DISCONNECTED", "WRITING"},
          rd: BOOLEAN, wr: BOOLEAN, cbs: {"read", "write"},
          cb: {"none", "send_done", "continue_done"},
          out: 0..2, input: Seq(Tokens), sending: Seq(Tokens), cur: SReqs \cup {NoReq},
          deferred: BOOLEAN, chunked: BOOLEAN, huge: BOOLEAN, ntoread: -1..2, fatal: {"none"}]
Requests == [live: BOOLEAN, evcon: BOOLEAN, userdone: BOOLEAN, held: BOOLEAN, replied: BOOLEAN,
             started: BOOLEAN, chunked: BOOLEAN, close: BOOLEAN, freed: 0..2]
Worlds == [c: Links, q: [SReqs -> Requests], unrouted: BOOLEAN]

\* A request that is not on the connection's queue.
Apart(m) == /\ m.freed <= 1
            /\ m.held => m.live /\ m.freed = 0 /\ ~m.evcon
            /\ m.live /\ ~m.held => m.freed = 1
            /\ ~m.live => ~m.held /\ ~m.replied /\ ~m.started

\* A request that is on it.
Queued(m) == m.live /\ m.evcon /\ m.freed = 0

\* Nobody waits for the end of a reply that still has to be written.
Unheard(c) == c.cb = "send_done" => c.out = 0

\* A body of a known length is no longer than the model's bound.
Sized(c) == c.state = "READING_BODY" /\ ~c.chunked => c.ntoread \in 0..2

\* The request is being read: nobody has been given it.
Asked(m) == m.userdone /\ ~m.held /\ ~m.replied /\ ~m.started
Reading(c, m) ==
    /\ Asked(m) /\ c.rd /\ c.cbs = "read" /\ Unheard(c) /\ Sized(c) /\ c.state \in ReadingStates
    /\ c.deferred => c.state = "READING_FIRSTLINE"
    /\ c.state = "READING_FIRSTLINE" /\ c.input # <<>> => c.deferred

\* The program has it and has not finished its reply.
Answering(c, m) ==
    /\ m.held /\ ~m.replied /\ ~m.userdone /\ c.state = "WRITING" /\ ~c.deferred
    /\ IF m.started THEN c.wr /\ c.cbs = "write" /\ c.cb = "none"
       ELSE c.cbs = "read" /\ Unheard(c)

\* The reply is being written; evhttp_send_done follows.
Answered(c, m) ==
    /\ m.replied /\ ~m.held /\ m.userdone /\ ~c.deferred
    /\ c.wr /\ c.out > 0 /\ c.cb = "send_done" /\ c.cbs = "write"

Others(w) == \A s \in SReqs : s # w.c.cur => Apart(w.q[s])
Fine(w) == w \in Worlds /\ w.c.fatal = "none" /\ Others(w) /\ (w.c.alive => w.c.accepted)

Sound(w) ==
    /\ Fine(w)
    /\ w.c.alive <=> w.c.cur # NoReq
    /\ ~w.c.alive => Unheard(w.c)
    /\ w.c.alive => LET m == w.q[w.c.cur]
                    IN /\ Queued(m)
                       /\ Reading(w.c, m) \/ Answering(w.c, m) \/ Answered(w.c, m)

\* The inductive invariant.
SrvInv == Sound(State)

-----------------------------------------------------------------------------
(* Freeing, replying and reading the next request.                         *)

\* The parts of what a callback works on.
LEMMA Fields ==
    ASSUME NEW w \in Worlds
    PROVE  /\ w.c \in Links /\ w.q \in [SReqs -> Requests] /\ w.unrouted \in BOOLEAN
           /\ \A r \in SReqs : w.q[r] \in Requests
BY DEF Worlds

\* What adding output does to the bounded amount of it.
LEMMA Ups == \A n \in 0..2 : Up(n) \in 1..2 /\ Up(n) > 0 /\ (n = 0 => Up(n) = 1)
BY DEF Up

\* evhttp_request_free counts and touches nothing else.
LEMMA FreedRequest ==
    ASSUME NEW w \in Worlds, NEW r \in SReqs, NEW v, v = request_free(w, r)
    PROVE  /\ v \in Worlds /\ v.c = w.c /\ v.unrouted = w.unrouted
           /\ \A s \in SReqs : s # r => v.q[s] = w.q[s]
           /\ v.q[r].live = w.q[r].live /\ v.q[r].held = w.q[r].held
           /\ w.q[r].freed = 0 => v.q[r].freed = 1
<1> DEFINE m == [w.q[r] EXCEPT !.freed = Up(@)]
           q == [w.q EXCEPT ![r] = m]
<1>1. w.q[r] \in Requests /\ w.q[r].freed \in 0..2
    BY Fields DEF Requests
<1>2. Up(w.q[r].freed) \in 0..2 /\ (w.q[r].freed = 0 => Up(w.q[r].freed) = 1)
    BY <1>1, Ups
<1>3. m \in Requests
    BY <1>1, <1>2, Zenon DEF Requests
<1>4. m.live = w.q[r].live /\ m.held = w.q[r].held /\ m.freed = Up(w.q[r].freed)
    BY <1>1, Zenon DEF Requests
<1>5. v = [w EXCEPT !.q = q]
    BY Zenon DEF request_free
<1> HIDE DEF m
<1>6. q \in [SReqs -> Requests] /\ q[r] = m /\ \A s \in SReqs : s # r => q[s] = w.q[s]
    BY <1>3, Fields
<1> HIDE DEF q
<1>7. v \in Worlds /\ v.c = w.c /\ v.q = q /\ v.unrouted = w.unrouted
    BY <1>5, <1>6 DEF Worlds
<1> QED BY <1>2, <1>4, <1>6, <1>7, Zenon

\* evhttp_connection_free leaves a sound server, whatever the connection was
\* in the middle of, unless the program still has its request.
LEMMA FreedConnection ==
    ASSUME NEW w, Fine(w), NEW v, v = server_connection_free(w),
           w.c.cur # NoReq => w.q[w.c.cur].live /\ ~w.q[w.c.cur].held /\ w.q[w.c.cur].freed = 0
    PROVE  Sound(v)
<1> DEFINE c == [w.c EXCEPT !.alive = FALSE, !.cur = NoReq, !.rd = FALSE, !.wr = FALSE,
                             !.deferred = FALSE, !.out = 0, !.input = <<>>, !.sending = <<>>,
                             !.cb = "none", !.state = "DISCONNECTED"]
           u == [w EXCEPT !.c = c]
<1>1. w \in Worlds /\ w.c \in Links /\ w.c.fatal = "none"
    BY Fields DEF Fine
<1>2. /\ 0 \in 0..2 /\ <<>> \in Seq(Tokens) /\ NoReq \in SReqs \cup {NoReq}
      /\ "none" \in {"none", "send_done", "continue_done"}
      /\ "DISCONNECTED" \in ReadingStates \cup {"DISCONNECTED", "WRITING"}
    OBVIOUS
<1>3. c \in Links
    BY <1>1, <1>2, Zenon DEF Links
<1>4. ~c.alive /\ c.cur = NoReq /\ c.fatal = "none" /\ c.out = 0
    BY <1>1, Zenon DEF Links
<1>5. v = IF w.c.cur = NoReq THEN u ELSE request_free(u, w.c.cur)
    BY Zenon DEF server_connection_free
<1> HIDE DEF c
<1>6. u \in Worlds /\ u.c = c /\ u.q = w.q
    BY <1>1, <1>3 DEF Worlds
<1> HIDE DEF u
<1>7. w.c.cur \in SReqs \cup {NoReq}
    BY <1>1 DEF Links
<1>8. v \in Worlds /\ v.c = c /\ \A s \in SReqs : Apart(v.q[s])
    <2>1. CASE w.c.cur = NoReq
        BY <2>1, <1>5, <1>6, HttpServerAssumption, Zenon DEF Fine, Others
    <2>2. CASE w.c.cur # NoReq
        <3> DEFINE r == w.c.cur
        <3>1. r \in SReqs /\ v = request_free(u, r)
            BY <2>2, <1>5, <1>7
        <3> HIDE DEF r
        <3>2. /\ v \in Worlds /\ v.c = c
              /\ \A s \in SReqs : s # r => v.q[s] = w.q[s]
              /\ v.q[r].live = w.q[r].live /\ v.q[r].held = w.q[r].held
              /\ w.q[r].freed = 0 => v.q[r].freed = 1
            BY <3>1, <1>6, FreedRequest
        <3>3. \A s \in SReqs : s # r => Apart(v.q[s])
            BY <3>2, Zenon DEF Fine, Others, r
        <3>4. Apart(v.q[r])
            BY <3>2, <2>2 DEF Apart, r
        <3> QED BY <3>2, <3>3, <3>4, Zenon
    <2> QED BY <2>1, <2>2
<1> QED BY <1>4, <1>8, Zenon DEF Sound, Fine, Others, Unheard

\* The connection goes on with a new request, or is freed if there is none.
LEMMA Associated ==
    ASSUME NEW w, Fine(w), w.c.alive, w.c.cur = NoReq, Unheard(w.c),
           NEW v, v = evhttp_associate_new_request_with_connection(w)
    PROVE  Sound(v)
<1> DEFINE unused == {r \in SReqs : ~w.q[r].live /\ w.q[r].freed = 0}
           r == CHOOSE x \in unused : TRUE
           m == [w.q[r] EXCEPT !.live = TRUE, !.evcon = TRUE, !.userdone = TRUE]
           q == [w.q EXCEPT ![r] = m]
           c == [w.c EXCEPT !.cur = r]
           d == [c EXCEPT !.wr = FALSE, !.rd = TRUE, !.state = "READING_FIRSTLINE", !.cbs = "read",
                          !.deferred = @ \/ c.input # <<>>]
           u == [w EXCEPT !.c = c, !.q = q]
<1>1. /\ w \in Worlds /\ w.c \in Links /\ w.c.fatal = "none" /\ w.c.accepted
      /\ \A s \in SReqs : Apart(w.q[s])
    BY Fields, HttpServerAssumption DEF Fine, Others
<1>2. CASE unused = {}
    <2>1. v = server_connection_free(w)
        BY <1>2, Zenon DEF evhttp_associate_new_request_with_connection
    <2> QED BY <2>1, FreedConnection
<1>3. CASE unused # {}
    <2>1. r \in SReqs /\ ~w.q[r].live /\ w.q[r].freed = 0
        BY <1>3
    <2>2. v = server_start_read_(u)
        BY <1>3, Zenon DEF evhttp_associate_new_request_with_connection
    <2> HIDE DEF r
    <2>3. w.q[r] \in Requests /\ ~w.q[r].held /\ ~w.q[r].replied /\ ~w.q[r].started
        BY <1>1, <2>1, Fields DEF Apart
    <2>4. m \in Requests
        BY <2>3, Zenon DEF Requests
    <2>5. Queued(m) /\ Asked(m)
        BY <2>1, <2>3, Zenon DEF Requests, Queued, Asked
    <2> HIDE DEF m
    <2>6. q \in [SReqs -> Requests] /\ q[r] = m /\ \A s \in SReqs : s # r => q[s] = w.q[s]
        BY <1>1, <2>1, <2>4, Fields
    <2> HIDE DEF q
    <2>7. c \in Links
        BY <1>1, <2>1, Zenon DEF Links
    <2>8. c.cur = r /\ c.alive /\ c.accepted /\ c.fatal = "none" /\ c.cb = w.c.cb /\ c.out = w.c.out
        BY <1>1 DEF Links
    <2>9. u \in Worlds /\ u.c = c /\ u.q = q
        <3> HIDE DEF c
        <3> QED BY <1>1, <2>6, <2>7 DEF Worlds
    <2> HIDE DEF c, u
    <2>10. v = [u EXCEPT !.c = d]
        BY <2>2, <2>9 DEF server_start_read_
    <2>11. /\ (c.input # <<>>) \in BOOLEAN
           /\ "READING_FIRSTLINE" \in ReadingStates \cup {"DISCONNECTED", "WRITING"}
           /\ "read" \in {"read", "write"} /\ (c.deferred \/ c.input # <<>>) \in BOOLEAN
        BY DEF ReadingStates
    <2>12. d \in Links
        BY <2>7, <2>11, Zenon DEF Links
    <2>13. /\ d.cur = r /\ d.alive /\ d.accepted /\ d.fatal = "none" /\ d.cb = w.c.cb
           /\ d.out = w.c.out /\ d.rd
           /\ d.state = "READING_FIRSTLINE" /\ d.cbs = "read" /\ d.input = c.input
           /\ (d.deferred <=> c.deferred \/ c.input # <<>>)
        BY <2>7, <2>8, Zenon DEF Links
    <2> HIDE DEF d
    <2>14. v \in Worlds /\ v.c = d /\ v.q = q
        BY <2>9, <2>10, <2>12 DEF Worlds
    <2>15. Reading(v.c, v.q[r])
        BY <2>5, <2>6, <2>13, <2>14 DEF Reading, ReadingStates, Unheard, Sized
    <2>16. Others(v)
        BY <1>1, <2>6, <2>13, <2>14, Zenon DEF Others
    <2> QED BY <2>1, <2>5, <2>6, <2>13, <2>14, <2>15, <2>16, HttpServerAssumption, Zenon
               DEF Sound, Fine
<1> QED BY <1>2, <1>3

\* A world in which the connection has a request at the head of its queue.
AtHand(w) == Fine(w) /\ w.c.alive /\ w.c.cur \in SReqs /\ Queued(w.q[w.c.cur])

\* evhttp_send of the request at the head of the queue: the connection writes,
\* and evhttp_send_done follows.
LEMMA Sent ==
    ASSUME NEW w, AtHand(w), ~w.c.deferred, NEW close \in BOOLEAN,
           NEW v, v = evhttp_send(w, w.c.cur, close)
    PROVE  Sound(v)
<1> DEFINE r == w.c.cur
           m == [w.q[r] EXCEPT !.userdone = TRUE, !.replied = TRUE, !.close = @ \/ close,
                               !.held = FALSE]
           q == [w.q EXCEPT ![r] = m]
           c == [w.c EXCEPT !.out = Up(@)]
           d == [c EXCEPT !.cb = "send_done", !.cbs = "write", !.wr = TRUE]
           u == [w EXCEPT !.c = c, !.q = q]
<1>1. /\ w \in Worlds /\ w.c \in Links /\ w.c.fatal = "none" /\ w.c.accepted /\ r \in SReqs
      /\ w.c.alive
      /\ w.q[r] \in Requests /\ w.q[r].live /\ w.q[r].evcon /\ w.q[r].freed = 0
    BY Fields DEF Fine, AtHand, Queued
<1>2. v = server_write_buffer(u, "send_done")
    BY <1>1 DEF evhttp_send
<1>3. (w.q[r].close \/ close) \in BOOLEAN
    OBVIOUS
<1>4. m \in Requests
    BY <1>1, <1>3, Zenon DEF Requests
<1>5. Queued(m) /\ m.userdone /\ m.replied /\ ~m.held
    BY <1>1, Zenon DEF Requests, Queued
<1>6. w.c.out \in 0..2
    BY <1>1 DEF Links
<1>7. Up(w.c.out) \in 0..2 /\ Up(w.c.out) > 0
    BY <1>6, Ups
<1>8. c \in Links
    BY <1>1, <1>7, Zenon DEF Links
<1>9. c.cur = r /\ c.alive /\ c.accepted /\ c.fatal = "none" /\ ~c.deferred /\ c.out = Up(w.c.out)
    BY <1>1, Zenon DEF Links
<1> HIDE DEF m
<1>10. q \in [SReqs -> Requests] /\ q[r] = m /\ \A s \in SReqs : s # r => q[s] = w.q[s]
    BY <1>1, <1>4, Fields
<1> HIDE DEF q, c
<1>11. u \in Worlds /\ u.c = c /\ u.q = q
    BY <1>1, <1>8, <1>10 DEF Worlds
<1>12. v = [u EXCEPT !.c = d]
    BY <1>2, <1>11, Zenon DEF server_write_buffer
<1>13. "send_done" \in {"none", "send_done", "continue_done"} /\ "write" \in {"read", "write"}
    OBVIOUS
<1>14. d \in Links
    BY <1>8, <1>13, Zenon DEF Links
<1>15. /\ d.cur = r /\ d.alive /\ d.accepted /\ d.fatal = "none" /\ ~d.deferred
       /\ d.out = Up(w.c.out)
       /\ d.cb = "send_done" /\ d.cbs = "write" /\ d.wr
    BY <1>8, <1>9, Zenon DEF Links
<1> HIDE DEF d, u
<1>16. v \in Worlds /\ v.c = d /\ v.q = q
    BY <1>11, <1>12, <1>14 DEF Worlds
<1>17. Answered(v.c, v.q[r])
    BY <1>5, <1>7, <1>10, <1>15, <1>16, Zenon DEF Answered
<1>18. Others(v)
    BY <1>10, <1>15, <1>16, Zenon DEF Others, AtHand, Fine
<1> HIDE DEF r
<1> QED BY <1>1, <1>5, <1>10, <1>15, <1>16, <1>17, <1>18, HttpServerAssumption, Zenon
           DEF Sound, Fine

\* evhttp_send for a request whose connection is gone frees the request.
LEMMA Detached ==
    ASSUME NEW w, Sound(w), NEW r \in SReqs, w.q[r].held, ~w.q[r].evcon,
           NEW u, u = [w EXCEPT !.q[r].held = FALSE], NEW v, v = request_free(u, r)
    PROVE  Sound(v)
<1> DEFINE m == [w.q[r] EXCEPT !.held = FALSE]
           q == [w.q EXCEPT ![r] = m]
<1>1. w \in Worlds /\ w.c \in Links /\ w.q[r] \in Requests /\ w.c.cur \in SReqs \cup {NoReq}
    BY Fields DEF Sound, Fine, Links
<1>2. w.c.cur # r
    BY HttpServerAssumption, Zenon DEF Sound, Queued
<1>3. w.q[r].live /\ w.q[r].freed = 0
    BY <1>2, Zenon DEF Sound, Fine, Others, Apart
<1>4. m \in Requests
    BY <1>1, Zenon DEF Requests
<1>5. m.live /\ m.freed = 0 /\ ~m.held
    BY <1>1, <1>3, Zenon DEF Requests
<1>6. u = [w EXCEPT !.q = q]
    BY Zenon
<1> HIDE DEF m
<1>7. q \in [SReqs -> Requests] /\ q[r] = m /\ \A s \in SReqs : s # r => q[s] = w.q[s]
    BY <1>1, <1>4, Fields
<1> HIDE DEF q
<1>8. u \in Worlds /\ u.c = w.c /\ u.q = q
    BY <1>1, <1>6, <1>7 DEF Worlds
<1>9. /\ v \in Worlds /\ v.c = w.c
      /\ \A s \in SReqs : s # r => v.q[s] = q[s]
      /\ v.q[r].live /\ ~v.q[r].held /\ v.q[r].freed = 1
    <2>1. /\ v \in Worlds /\ v.c = u.c
          /\ \A s \in SReqs : s # r => v.q[s] = u.q[s]
          /\ v.q[r].live = u.q[r].live /\ v.q[r].held = u.q[r].held
          /\ u.q[r].freed = 0 => v.q[r].freed = 1
        <3>1. v = request_free(u, r) /\ u \in Worlds
            BY <1>8
        <3> QED BY ONLY <3>1, r \in SReqs, FreedRequest
    <2> QED BY <2>1, <1>5, <1>7, <1>8, Zenon
<1>10. Apart(v.q[r])
    BY <1>9 DEF Apart
<1>11. \A s \in SReqs : s # r => v.q[s] = w.q[s]
    BY <1>7, <1>9, Zenon
<1>12. Others(v)
    BY <1>9, <1>10, <1>11, Zenon DEF Sound, Fine, Others
<1>13. w.c.alive => v.q[w.c.cur] = w.q[w.c.cur]
    BY <1>1, <1>2, <1>11, Zenon DEF Sound
<1> QED BY <1>9, <1>12, <1>13, Zenon DEF Sound, Fine

\* evhttp_send_done frees the request once and goes on, or closes.
LEMMA SendDone ==
    ASSUME NEW w, AtHand(w), ~w.q[w.c.cur].held, Unheard(w.c), NEW v, v = evhttp_send_done(w)
    PROVE  Sound(v)
<1> DEFINE r == w.c.cur
           c == [w.c EXCEPT !.cur = NoReq]
           u == [w EXCEPT !.c = c]
           x == request_free(u, r)
<1>1. /\ w \in Worlds /\ w.c \in Links /\ w.c.fatal = "none" /\ w.c.accepted /\ r \in SReqs
      /\ w.c.alive
      /\ w.q[r].live /\ w.q[r].freed = 0 /\ r # NoReq
      /\ \A s \in SReqs : s # r => Apart(w.q[s])
    BY Fields, HttpServerAssumption DEF Fine, AtHand, Queued, Others
<1>2. v = IF w.q[r].close THEN server_connection_free(x)
          ELSE evhttp_associate_new_request_with_connection(x)
    BY <1>1, Zenon DEF evhttp_send_done
<1>3. c \in Links
    BY <1>1, Zenon DEF Links
<1>4. c.cur = NoReq /\ c.alive /\ c.accepted /\ c.fatal = "none" /\ c.cb = w.c.cb /\ c.out = w.c.out
    BY <1>1, Zenon DEF Links
<1> HIDE DEF c
<1>5. u \in Worlds /\ u.c = c /\ u.q = w.q
    BY <1>1, <1>3 DEF Worlds
<1>6. /\ x \in Worlds /\ x.c = u.c
      /\ \A s \in SReqs : s # r => x.q[s] = u.q[s]
      /\ x.q[r].live = u.q[r].live /\ x.q[r].held = u.q[r].held
      /\ u.q[r].freed = 0 => x.q[r].freed = 1
    <2> HIDE DEF u, r
    <2>1. u \in Worlds /\ r \in SReqs
        BY <1>1, <1>5
    <2> QED BY ONLY <2>1, FreedRequest
<1> HIDE DEF u, x
<1>7. Apart(x.q[r])
    BY <1>1, <1>5, <1>6 DEF Apart
<1>8. Fine(x)
    BY <1>1, <1>4, <1>5, <1>6, <1>7, Zenon DEF Fine, Others
<1>9. x.c.alive /\ x.c.cur = NoReq /\ Unheard(x.c)
    BY <1>4, <1>5, <1>6 DEF Unheard
<1> HIDE DEF r
<1>10. CASE w.q[r].close
    <2>1. v = server_connection_free(x)
        BY <1>2, <1>10, Zenon
    <2> QED BY ONLY <2>1, <1>8, <1>9, FreedConnection
<1>11. CASE ~w.q[r].close
    <2>1. v = evhttp_associate_new_request_with_connection(x)
        BY <1>2, <1>11, Zenon
    <2> QED BY ONLY <2>1, <1>8, <1>9, Associated
<1> QED BY <1>10, <1>11

\* ... that nobody has been given yet.
Ready(w) == AtHand(w) /\ Asked(w.q[w.c.cur]) /\ ~w.c.deferred

\* Changing the request at the head of the queue leaves the rest alone.
LEMMA Marked ==
    ASSUME NEW w, AtHand(w), NEW m \in Requests, Queued(m), 
           NEW q, q = [w.q EXCEPT ![w.c.cur] = m], NEW v, v = [w EXCEPT !.q = q]
    PROVE  AtHand(v) /\ v.c = w.c /\ v.q[v.c.cur] = m /\ v.unrouted = w.unrouted
<1> DEFINE r == w.c.cur
<1>1. w \in Worlds /\ r \in SReqs
    BY DEF AtHand, Fine
<1>2. q \in [SReqs -> Requests] /\ q[r] = m /\ \A s \in SReqs : s # r => q[s] = w.q[s]
    BY <1>1, Fields
<1>3. v \in Worlds /\ v.c = w.c /\ v.q = q /\ v.unrouted = w.unrouted
    BY <1>1, <1>2 DEF Worlds
<1>4. AtHand(w) /\ Queued(m)
    OBVIOUS
<1> QED BY ONLY <1>2, <1>3, <1>4, Zenon DEF AtHand, Fine, Others

\* evhttp_handle_request gives a request to the program or answers it itself.
LEMMA Handled ==
    ASSUME NEW w, Ready(w), NEW bad \in BOOLEAN,
           ~bad => w.c.state = "WRITING" /\ w.c.cbs = "read" /\ Unheard(w.c),
           NEW v, v = evhttp_handle_request(w, bad)
    PROVE  Sound(v)
<1> DEFINE r == w.c.cur
           m == [w.q[r] EXCEPT !.userdone = FALSE]
           p == [w.q EXCEPT ![w.c.cur] = m]
           u == [w EXCEPT !.q = p]
           n == [w.q[r] EXCEPT !.userdone = FALSE, !.held = TRUE]
           q == [w.q EXCEPT ![w.c.cur] = n]
           x == [w EXCEPT !.q = q]
<1>1. /\ AtHand(w) /\ ~w.c.deferred /\ w.q[r] \in Requests /\ Queued(w.q[r])
      /\ ~w.q[r].held /\ ~w.q[r].replied /\ ~w.q[r].started
    BY Fields DEF Ready, AtHand, Fine, Asked
<1>2. m \in Requests
    BY <1>1, Zenon DEF Requests
<1>3. Queued(m) /\ ~m.held /\ ~m.replied /\ ~m.started /\ ~m.userdone
    BY <1>1, Zenon DEF Requests, Queued
<1>4. v = IF bad \/ w.unrouted THEN evhttp_send(u, r, TRUE) ELSE x
    BY Zenon DEF evhttp_handle_request
<1> HIDE DEF m
<1>5. AtHand(u) /\ u.c = w.c /\ u.q[u.c.cur] = m
    <2>1. p = [w.q EXCEPT ![w.c.cur] = m] /\ u = [w EXCEPT !.q = p]
        OBVIOUS
    <2> HIDE DEF p, u
    <2> QED BY ONLY <2>1, <1>1, <1>2, <1>3, Marked
<1> HIDE DEF u
<1>6. CASE bad \/ w.unrouted
    <2>1. v = evhttp_send(u, u.c.cur, TRUE) /\ ~u.c.deferred /\ AtHand(u)
        BY <1>1, <1>4, <1>5, <1>6, Zenon
    <2> QED BY ONLY <2>1, Sent
<1>7. CASE ~bad /\ ~w.unrouted
    <2>1. v = x
        BY <1>4, <1>7, Zenon
    <2>2. n \in Requests
        BY <1>1, Zenon DEF Requests
    <2>3. Queued(n) /\ n.held /\ ~n.replied /\ ~n.started /\ ~n.userdone
        BY <1>1, Zenon DEF Requests, Queued
    <2> HIDE DEF n
    <2>4. AtHand(x) /\ x.c = w.c /\ x.q[x.c.cur] = n
        <3>1. q = [w.q EXCEPT ![w.c.cur] = n] /\ x = [w EXCEPT !.q = q]
            OBVIOUS
        <3> HIDE DEF q, x
        <3> QED BY ONLY <3>1, <1>1, <2>2, <2>3, Marked
    <2> HIDE DEF x
    <2>5. Answering(x.c, n)
        BY <1>1, <1>7, <2>3, <2>4, Zenon DEF Answering
    <2> QED BY <2>1, <2>3, <2>4, <2>5, HttpServerAssumption DEF Sound, AtHand
<1> QED BY <1>6, <1>7

\* Changing the connection leaves the requests alone.
LEMMA Relinked ==
    ASSUME NEW w, AtHand(w), NEW c \in Links, c.accepted = w.c.accepted, c.alive = w.c.alive,
           c.cur = w.c.cur, c.fatal = w.c.fatal, NEW v, v = [w EXCEPT !.c = c]
    PROVE  AtHand(v) /\ v.c = c /\ v.q = w.q /\ v.unrouted = w.unrouted
<1>1. w \in Worlds
    BY DEF AtHand, Fine
<1>2. v \in Worlds /\ v.c = c /\ v.q = w.q /\ v.unrouted = w.unrouted
    BY <1>1 DEF Worlds
<1> QED BY <1>2, Zenon DEF AtHand, Fine, Others

\* A request that is refused is answered by the server.
LEMMA Refused ==
    ASSUME NEW w, Ready(w), NEW v, v = evhttp_connection_incoming_fail(w, FALSE)
    PROVE  Sound(v)
<1> DEFINE c == [w.c EXCEPT !.rd = FALSE, !.wr = FALSE]
           u == [w EXCEPT !.c = c]
<1>1. AtHand(w) /\ ~w.c.deferred /\ w.c \in Links /\ w.c.cur # NoReq
    BY Fields, HttpServerAssumption DEF Ready, AtHand, Fine
<1>2. v = evhttp_handle_request(u, TRUE)
    BY <1>1, Zenon DEF evhttp_connection_incoming_fail
<1>3. c \in Links
    BY <1>1, Zenon DEF Links
<1>4. /\ c.accepted = w.c.accepted /\ c.alive = w.c.alive /\ c.cur = w.c.cur /\ c.fatal = w.c.fatal
      /\ c.deferred = w.c.deferred
    BY <1>1, Zenon DEF Links
<1> HIDE DEF c
<1>5. AtHand(u) /\ u.c = c /\ u.q = w.q
    BY <1>1, <1>3, <1>4, Relinked
<1> HIDE DEF u
<1>6. Ready(u)
    BY <1>1, <1>4, <1>5, Zenon DEF Ready
<1> QED BY ONLY <1>2, <1>6, Handled

-----------------------------------------------------------------------------
(* The parsers.                                                            *)

\* ... and that a parser is working on; the second while more may be read.
Parsed(w) == Ready(w) /\ w.c.cbs = "read" /\ Unheard(w.c) /\ Sized(w.c) /\ w.c.state \in ReadingStates
Parsing(w) == Parsed(w) /\ w.c.rd

\* The connection changed, but not its request nor who may read.
Unmoved(w, c) == /\ c \in Links /\ c.accepted = w.c.accepted /\ c.alive = w.c.alive
                 /\ c.cur = w.c.cur /\ c.fatal = w.c.fatal /\ c.deferred = w.c.deferred

\* A change of the connection that keeps its request leaves it ready.
LEMMA Reparsed ==
    ASSUME NEW w, Ready(w), NEW c, Unmoved(w, c), NEW v, v = [w EXCEPT !.c = c]
    PROVE  /\ Ready(v) /\ v.c = c /\ v.q = w.q
           /\ c.cbs = "read" /\ Unheard(c) /\ Sized(c) /\ c.state \in ReadingStates
                => Parsed(v) /\ (c.rd => Parsing(v))
<1>1. AtHand(v) /\ v.c = c /\ v.q = w.q
    BY Relinked DEF Ready, Unmoved
<1> QED BY <1>1, Zenon DEF Ready, Unmoved, Parsed, Parsing

\* A parser that has used up the input may wait for more.
LEMMA Waits ==
    ASSUME NEW w, Parsing(w), w.c.state = "READING_FIRSTLINE" => w.c.input = <<>>
    PROVE  Sound(w)
<1>1. Reading(w.c, w.q[w.c.cur])
    BY DEF Parsing, Parsed, Ready, Reading
<1> QED BY <1>1, HttpServerAssumption DEF Parsing, Parsed, Ready, AtHand, Sound

\* A request that was read completely is handled.
LEMMA ConnectionDone ==
    ASSUME NEW w, Parsed(w), NEW v, v = server_connection_done(w)
    PROVE  Sound(v)
<1> DEFINE c == [w.c EXCEPT !.state = "WRITING"]
           u == [w EXCEPT !.c = c]
<1>1. Ready(w) /\ w.c \in Links /\ w.c.cbs = "read" /\ Unheard(w.c)
    BY Fields DEF Parsed, Ready, AtHand, Fine
<1>2. v = evhttp_handle_request(u, FALSE)
    BY Zenon DEF server_connection_done
<1>3. "WRITING" \in ReadingStates \cup {"DISCONNECTED", "WRITING"}
    OBVIOUS
<1>4. c \in Links
    BY <1>1, <1>3, Zenon DEF Links
<1>5. Unmoved(w, c) /\ c.state = "WRITING" /\ c.cbs = w.c.cbs /\ c.cb = w.c.cb /\ c.out = w.c.out
    BY <1>1, <1>4, Zenon DEF Links, Unmoved
<1> HIDE DEF c
<1>6. Ready(u) /\ u.c = c
    BY ONLY <1>1, <1>5, Reparsed
<1> HIDE DEF u
<1>7. u.c.state = "WRITING" /\ u.c.cbs = "read" /\ Unheard(u.c)
    BY <1>1, <1>5, <1>6 DEF Unheard
<1> QED BY ONLY <1>2, <1>6, <1>7, Handled

\* What a parser knows.
LEMMA ParsingFacts ==
    ASSUME NEW w, Parsing(w)
    PROVE  /\ Ready(w) /\ w.c \in Links /\ w.c.rd /\ w.c.cbs = "read" /\ Unheard(w.c) /\ Sized(w.c)
           /\ w.c.state \in ReadingStates /\ w.c.input \in Seq(Tokens) /\ w.c.ntoread \in -1..2
           /\ w.c.out \in 0..2 /\ w.c.cur \in SReqs /\ w.q[w.c.cur] \in Requests
<1>1. w.c \in Links /\ w.c.cur \in SReqs /\ w.q[w.c.cur] \in Requests
    BY Fields DEF Parsing, Parsed, Ready, AtHand, Fine
<1>2. w.c.input \in Seq(Tokens) /\ w.c.ntoread \in -1..2 /\ w.c.out \in 0..2
    BY <1>1 DEF Links
<1> QED BY <1>1, <1>2 DEF Parsing, Parsed

\* What a parser may change: the reading flag, the state and the input.
LEMMA Reparse ==
    ASSUME NEW w, Parsing(w)
    PROVE  /\ \A rd \in BOOLEAN : Parsed([w EXCEPT !.c.rd = rd])
           /\ \A state \in ReadingStates \ {"READING_BODY"} :
                LET v == [w EXCEPT !.c.state = state]
                IN Parsing(v) /\ v.c.state = state /\ v.c.input = w.c.input
           /\ \A input \in Seq(Tokens) :
                LET v == [w EXCEPT !.c.input = input]
                IN Parsing(v) /\ v.c.state = w.c.state /\ v.c.input = input /\ v.c.cur = w.c.cur
<1>1. /\ Ready(w) /\ w.c \in Links /\ w.c.rd /\ w.c.cbs = "read" /\ Unheard(w.c) /\ Sized(w.c)
      /\ w.c.state \in ReadingStates
    BY ParsingFacts
<1>2. ASSUME NEW rd \in BOOLEAN PROVE Parsed([w EXCEPT !.c.rd = rd])
    <2> DEFINE c == [w.c EXCEPT !.rd = rd]
               v == [w EXCEPT !.c = c]
    <2>1. c \in Links
        BY <1>1, Zenon DEF Links
    <2>2. /\ Unmoved(w, c) /\ c.state = w.c.state /\ c.cbs = w.c.cbs /\ c.cb = w.c.cb
          /\ c.out = w.c.out
          /\ c.chunked = w.c.chunked /\ c.ntoread = w.c.ntoread
        BY <1>1, <2>1, Zenon DEF Links, Unmoved
    <2> HIDE DEF c
    <2>3. c.cbs = "read" /\ Unheard(c) /\ Sized(c) /\ c.state \in ReadingStates
        BY <1>1, <2>2, Zenon DEF Unheard, Sized
    <2>4. Parsed(v)
        BY ONLY <1>1, <2>2, <2>3, Reparsed
    <2> QED BY <2>4, Zenon DEF c
<1>3. ASSUME NEW state \in ReadingStates \ {"READING_BODY"}
      PROVE  LET v == [w EXCEPT !.c.state = state]
             IN Parsing(v) /\ v.c.state = state /\ v.c.input = w.c.input
    <2> DEFINE c == [w.c EXCEPT !.state = state]
               v == [w EXCEPT !.c = c]
    <2>1. c \in Links
        BY <1>1, Zenon DEF Links
    <2>2. /\ Unmoved(w, c) /\ c.state = state /\ c.cbs = w.c.cbs /\ c.cb = w.c.cb
          /\ c.out = w.c.out /\ c.rd = w.c.rd
          /\ c.input = w.c.input
        BY <1>1, <2>1, Zenon DEF Links, Unmoved
    <2> HIDE DEF c
    <2>3. c.cbs = "read" /\ Unheard(c) /\ Sized(c) /\ c.state \in ReadingStates /\ c.rd
        BY <1>1, <2>2, Zenon DEF Unheard, Sized
    <2>4. Parsing(v) /\ v.c = c
        BY ONLY <1>1, <2>2, <2>3, Reparsed
    <2> HIDE DEF v
    <2>5. Parsing(v) /\ v.c.state = state /\ v.c.input = w.c.input
        BY <2>2, <2>4, Zenon
    <2> QED BY <2>5, Zenon DEF c, v
<1>4. ASSUME NEW input \in Seq(Tokens)
      PROVE  LET v == [w EXCEPT !.c.input = input]
             IN Parsing(v) /\ v.c.state = w.c.state /\ v.c.input = input /\ v.c.cur = w.c.cur
    <2> DEFINE c == [w.c EXCEPT !.input = input]
               v == [w EXCEPT !.c = c]
    <2>1. c \in Links
        BY <1>1, Zenon DEF Links
    <2>2. /\ Unmoved(w, c) /\ c.state = w.c.state /\ c.cbs = w.c.cbs /\ c.cb = w.c.cb
          /\ c.out = w.c.out /\ c.rd = w.c.rd
          /\ c.input = input /\ c.chunked = w.c.chunked /\ c.ntoread = w.c.ntoread
          /\ c.cur = w.c.cur
        BY <1>1, <2>1, Zenon DEF Links, Unmoved
    <2> HIDE DEF c
    <2>3. c.cbs = "read" /\ Unheard(c) /\ Sized(c) /\ c.state \in ReadingStates /\ c.rd
        BY <1>1, <2>2, Zenon DEF Unheard, Sized
    <2>4. Parsing(v) /\ v.c = c
        BY ONLY <1>1, <2>2, <2>3, Reparsed
    <2> HIDE DEF v
    <2>5. Parsing(v) /\ v.c.state = w.c.state /\ v.c.input = input /\ v.c.cur = w.c.cur
        BY <2>2, <2>4, Zenon
    <2> QED BY <2>5, Zenon DEF c, v
<1> QED BY <1>2, <1>3, <1>4

\* Taking one part of the input.
LEMMA NextPart ==
    ASSUME NEW w, Parsing(w), w.c.input # <<>>, NEW v, v = next(w)
    PROVE  Parsing(v) /\ v.c.state = w.c.state /\ v.c.cur = w.c.cur
<1>1. Tail(w.c.input) \in Seq(Tokens)
    BY ParsingFacts
<1> QED BY <1>1, Reparse, Zenon DEF next

\* evhttp_read_trailer.
LEMMA ReadTrailer ==
    ASSUME NEW w, Parsing(w), w.c.state # "READING_FIRSTLINE", NEW v, v = server_read_trailer(w)
    PROVE  Sound(v)
<1> DEFINE u == next(w)
           x == [u EXCEPT !.c.rd = FALSE]
<1>1. CASE w.c.input = <<>>
    <2>1. v = w
        BY <1>1, Zenon DEF server_read_trailer
    <2> QED BY <2>1, Waits
<1>2. CASE w.c.input # <<>> /\ token(w) = "trailer"
    <2>1. v = server_connection_done(x)
        BY <1>2, Zenon DEF server_read_trailer
    <2>2. Parsing(u)
        BY <1>2, NextPart
    <2> HIDE DEF u
    <2>3. Parsed(x)
        BY <2>2, Reparse
    <2> HIDE DEF x
    <2> QED BY ONLY <2>1, <2>3, ConnectionDone
<1>3. CASE w.c.input # <<>> /\ token(w) # "trailer"
    <2>1. v = evhttp_connection_incoming_fail(w, FALSE)
        BY <1>3, Zenon DEF server_read_trailer
    <2>2. Ready(w)
        BY DEF Parsing, Parsed
    <2> QED BY ONLY <2>1, <2>2, Refused
<1> QED BY <1>1, <1>2, <1>3

\* Every nonempty set of natural numbers has a least element.
LEMMA Least ==
    ASSUME NEW S \in SUBSET Nat, S # {}
    PROVE  \E n \in S : \A m \in S : n <= m
<1> DEFINE R == OpToRel(<, Nat)
<1>1. IsWellFoundedOn(R, Nat)
    BY NatLessThanWellFounded, Zenon
<1>2. \A x, y \in Nat : x < y => <<x, y>> \in R
    BY DEF OpToRel
<1>3. \E x \in S : \A y \in S : ~(<<y, x>> \in R)
    BY <1>1, WFMin, Zenon
<1> HIDE DEF R
<1>4. PICK x \in S : \A y \in S : ~(<<y, x>> \in R)
    BY <1>3, Zenon
<1>5. ASSUME NEW m \in S PROVE x <= m
    <2>1. ~(<<m, x>> \in R)
        BY <1>4, Zenon
    <2>2. ~(m < x)
        BY <2>1, <1>2, Zenon
    <2> QED BY <2>2
<1> QED BY <1>5, Zenon

\* A sequence has a longest run of chunks at its front.
LEMMA Leading ==
    ASSUME NEW s \in Seq(Tokens), NEW chunks,
           chunks = {i \in 0..Len(s) : \A j \in 1..i : s[j].t = "chunk"}
    PROVE  \E i \in chunks : \A j \in chunks : j <= i
<1> DEFINE S == {j \in 1..(Len(s) + 1) : j <= Len(s) => s[j].t # "chunk"}
<1>1. Len(s) \in Nat
    OBVIOUS
<1>2. S \in SUBSET Nat /\ Len(s) + 1 \in S
    BY <1>1
<1>3. PICK n \in S : \A m \in S : n <= m
    BY <1>2, Least
<1>4. n - 1 \in 0..Len(s)
    BY <1>1, <1>3
<1>5. ASSUME NEW j \in 1..(n - 1) PROVE s[j].t = "chunk"
    BY <1>1, <1>3, <1>4
<1>6. n - 1 \in chunks
    BY <1>4, <1>5
<1>7. ASSUME NEW j \in chunks PROVE j <= n - 1
    <2>1. j \in 0..Len(s) /\ \A k \in 1..j : s[k].t = "chunk"
        OBVIOUS
    <2>2. n <= Len(s) => s[n].t # "chunk"
        BY <1>3
    <2> QED BY <2>1, <2>2, <1>1, <1>3
<1> QED BY <1>6, <1>7

\* The rest of a sequence is a sequence.
LEMMA Shorter ==
    ASSUME NEW s \in Seq(Tokens), NEW n \in Nat
    PROVE  SubSeq(s, n + 1, Len(s)) \in Seq(Tokens)
OBVIOUS

\* evhttp_handle_chunked_read takes the chunks that are there, all at once.
LEMMA ChunkedRead ==
    ASSUME NEW w, Parsing(w), w.c.state # "READING_FIRSTLINE",
           NEW v, v = evhttp_handle_chunked_read(w)
    PROVE  Sound(v)
<1> DEFINE chunks == {i \in 0..Len(w.c.input) : \A j \in 1..i : w.c.input[j].t = "chunk"}
           n == CHOOSE i \in chunks : \A j \in chunks : j <= i
           rest == SubSeq(w.c.input, n + 1, Len(w.c.input))
           u == [w EXCEPT !.c.input = rest]
           x == next(u)
           y == [x EXCEPT !.c.state = "READING_TRAILER"]
<1>1. w.c.input \in Seq(Tokens)
    BY ParsingFacts
<1>2. v = IF u.c.input = <<>> THEN u
          ELSE IF token(u) = "last" THEN server_read_trailer(y)
          ELSE evhttp_connection_incoming_fail(u, FALSE)
    BY Zenon DEF evhttp_handle_chunked_read
<1>3. n \in chunks
    <2>1. \E i \in chunks : \A j \in chunks : j <= i
        BY <1>1, Leading
    <2> HIDE DEF chunks
    <2> QED BY <2>1
<1>4. n \in Nat
    BY <1>1, <1>3
<1> HIDE DEF n
<1>5. rest \in Seq(Tokens)
    BY <1>1, <1>4, Shorter
<1> HIDE DEF rest
<1>6. Parsing(u) /\ u.c.state # "READING_FIRSTLINE"
    BY <1>5, Reparse, Zenon
<1> HIDE DEF u
<1>7. CASE u.c.input = <<>>
    <2>1. v = u
        BY <1>2, <1>7, Zenon
    <2> QED BY ONLY <2>1, <1>6, Waits
<1>8. CASE u.c.input # <<>> /\ token(u) = "last"
    <2>1. v = server_read_trailer(y)
        BY <1>2, <1>8, Zenon
    <2>2. Parsing(x)
        BY <1>6, <1>8, NextPart
    <2> HIDE DEF x
    <2>3. "READING_TRAILER" \in ReadingStates \ {"READING_BODY"}
        BY DEF ReadingStates
    <2>4. Parsing(y) /\ y.c.state = "READING_TRAILER"
        BY <2>2, <2>3, Reparse, Zenon
    <2> HIDE DEF y
    <2>5. y.c.state # "READING_FIRSTLINE"
        BY <2>4
    <2> QED BY ONLY <2>1, <2>4, <2>5, ReadTrailer
<1>9. CASE u.c.input # <<>> /\ token(u) # "last"
    <2>1. v = evhttp_connection_incoming_fail(u, FALSE)
        BY <1>2, <1>9, Zenon
    <2>2. Ready(u)
        BY <1>6 DEF Parsing, Parsed
    <2> QED BY ONLY <2>1, <2>2, Refused
<1> QED BY <1>7, <1>8, <1>9

\* evhttp_lingering_fail throws a body that is too large away, as far as it is
\* there, and then answers.
LEMMA LingeringFail ==
    ASSUME NEW w, Parsing(w), w.c.state = "READING_BODY", ~w.c.chunked,
           NEW v, v = evhttp_lingering_fail(w)
    PROVE  Sound(v)
<1> DEFINE n == IF Len(w.c.input) < w.c.ntoread THEN Len(w.c.input) ELSE w.c.ntoread
           c == [w.c EXCEPT !.ntoread = @ - n, !.input = SubSeq(@, n + 1, Len(@))]
           u == [w EXCEPT !.c = c]
<1>1. /\ Ready(w) /\ w.c \in Links /\ w.c.rd /\ w.c.cbs = "read" /\ Unheard(w.c)
      /\ w.c.state \in ReadingStates /\ w.c.input \in Seq(Tokens)
    BY ParsingFacts
<1>2. w.c.ntoread \in 0..2
    BY ParsingFacts DEF Sized
<1>3. n \in Nat /\ w.c.ntoread - n \in -1..2 /\ w.c.ntoread - n \in 0..2
    BY <1>1, <1>2
<1>4. v = IF ~Lingering THEN evhttp_connection_incoming_fail(w, FALSE)
          ELSE IF u.c.ntoread = 0 THEN evhttp_connection_incoming_fail(u, FALSE) ELSE u
    BY Zenon DEF evhttp_lingering_fail
<1> HIDE DEF n
<1>5. SubSeq(w.c.input, n + 1, Len(w.c.input)) \in Seq(Tokens)
    BY <1>1, <1>3, Shorter
<1>6. c \in Links
    BY <1>1, <1>3, <1>5, Zenon DEF Links
<1>7. /\ Unmoved(w, c) /\ c.state = w.c.state /\ c.cbs = w.c.cbs /\ c.cb = w.c.cb
      /\ c.out = w.c.out /\ c.rd = w.c.rd
      /\ c.ntoread = w.c.ntoread - n
    BY <1>1, <1>6, Zenon DEF Links, Unmoved
<1> HIDE DEF c
<1>8. c.cbs = "read" /\ Unheard(c) /\ Sized(c) /\ c.state \in ReadingStates /\ c.rd
    BY <1>1, <1>3, <1>7, Zenon DEF Unheard, Sized
<1>9. Ready(u) /\ Parsing(u) /\ u.c = c
    BY ONLY <1>1, <1>7, <1>8, Reparsed
<1> HIDE DEF u
<1>10. u.c.state # "READING_FIRSTLINE"
    BY <1>7, <1>9
<1>11. CASE ~Lingering
    <2>1. v = evhttp_connection_incoming_fail(w, FALSE)
        BY <1>4, <1>11, Zenon
    <2> QED BY ONLY <2>1, <1>1, Refused
<1>12. CASE Lingering /\ u.c.ntoread = 0
    <2>1. v = evhttp_connection_incoming_fail(u, FALSE)
        BY <1>4, <1>12, Zenon
    <2> QED BY ONLY <2>1, <1>9, Refused
<1>13. CASE Lingering /\ u.c.ntoread # 0
    <2>1. v = u
        BY <1>4, <1>13, Zenon
    <2> QED BY ONLY <2>1, <1>9, <1>10, Waits
<1> QED BY <1>11, <1>12, <1>13

\* evhttp_read_body.
LEMMA ReadBody ==
    ASSUME NEW w, Parsing(w), w.c.state = "READING_BODY", NEW v, v = server_read_body(w)
    PROVE  Sound(v)
<1> DEFINE all == Len(w.c.input) >= w.c.ntoread
           c == [w.c EXCEPT !.input = SubSeq(@, w.c.ntoread + 1, Len(@)), !.ntoread = 0, !.rd = FALSE]
           u == [w EXCEPT !.c = c]
<1>1. /\ Ready(w) /\ w.c \in Links /\ w.c.cbs = "read" /\ Unheard(w.c)
      /\ w.c.state \in ReadingStates /\ w.c.input \in Seq(Tokens)
    BY ParsingFacts
<1>2. w.c.state # "READING_FIRSTLINE"
    OBVIOUS
<1>3. v = IF w.c.chunked THEN evhttp_handle_chunked_read(w)
          ELSE IF w.c.huge THEN evhttp_lingering_fail(w)
          ELSE IF all THEN server_connection_done(u) ELSE w
    BY Zenon DEF server_read_body
<1>4. CASE w.c.chunked
    <2>1. v = evhttp_handle_chunked_read(w) /\ Parsing(w)
        BY <1>3, <1>4, Zenon
    <2> QED BY ONLY <2>1, <1>2, ChunkedRead
<1>5. CASE ~w.c.chunked /\ w.c.huge
    <2>1. v = evhttp_lingering_fail(w) /\ Parsing(w) /\ w.c.state = "READING_BODY" /\ ~w.c.chunked
        BY <1>3, <1>5, Zenon
    <2> QED BY ONLY <2>1, LingeringFail
<1>6. CASE ~w.c.chunked /\ ~w.c.huge /\ ~all
    <2>1. v = w /\ Parsing(w)
        BY <1>3, <1>6, Zenon
    <2> QED BY ONLY <2>1, <1>2, Waits
<1>7. CASE ~w.c.chunked /\ ~w.c.huge /\ all
    <2>1. v = server_connection_done(u)
        BY <1>3, <1>7, Zenon
    <2>2. w.c.ntoread \in Nat
        BY <1>7, ParsingFacts DEF Sized
    <2>3. /\ SubSeq(w.c.input, w.c.ntoread + 1, Len(w.c.input)) \in Seq(Tokens)
          /\ 0 \in -1..2 /\ 0 \in 0..2
        BY <1>1, <2>2, Shorter
    <2>4. c \in Links
        BY <1>1, <2>3, Zenon DEF Links
    <2>5. /\ Unmoved(w, c) /\ c.state = w.c.state /\ c.cbs = w.c.cbs /\ c.cb = w.c.cb
          /\ c.out = w.c.out
          /\ c.ntoread = 0
        BY <1>1, <2>4, Zenon DEF Links, Unmoved
    <2> HIDE DEF c
    <2>6. c.cbs = "read" /\ Unheard(c) /\ Sized(c) /\ c.state \in ReadingStates
        BY <1>1, <2>3, <2>5, Zenon DEF Unheard, Sized
    <2>7. Parsed(u)
        BY ONLY <1>1, <2>5, <2>6, Reparsed
    <2> HIDE DEF u
    <2> QED BY ONLY <2>1, <2>7, ConnectionDone
<1> QED BY <1>4, <1>5, <1>6, <1>7

\* evhttp_send_continue writes while the body is awaited.
LEMMA Continued ==
    ASSUME NEW w, Parsing(w), NEW v, v = evhttp_send_continue(w)
    PROVE  Parsing(v) /\ v.c.state = w.c.state
<1> DEFINE c == [w.c EXCEPT !.wr = TRUE, !.out = Up(@), !.cb = "continue_done", !.cbs = "read"]
<1>1. /\ Ready(w) /\ w.c \in Links /\ w.c.rd /\ Sized(w.c) /\ w.c.out \in 0..2
      /\ w.c.state \in ReadingStates
    BY ParsingFacts
<1>2. /\ Up(w.c.out) \in 0..2 /\ "continue_done" \in {"none", "send_done", "continue_done"}
      /\ "read" \in {"read", "write"}
    BY <1>1, Ups
<1>3. c \in Links
    BY <1>1, <1>2, Zenon DEF Links
<1>4. /\ Unmoved(w, c) /\ c.state = w.c.state /\ c.cbs = "read" /\ c.cb = "continue_done"
      /\ c.rd = w.c.rd
      /\ c.chunked = w.c.chunked /\ c.ntoread = w.c.ntoread
    BY <1>1, <1>3, Zenon DEF Links, Unmoved
<1>5. v = [w EXCEPT !.c = c]
    BY Zenon DEF evhttp_send_continue
<1> HIDE DEF c
<1>6. Unheard(c)
    BY <1>4 DEF Unheard
<1>7. c.cbs = "read" /\ Unheard(c) /\ Sized(c) /\ c.state \in ReadingStates /\ c.rd
    BY <1>1, <1>4, <1>6, Zenon DEF Sized
<1>8. Parsing(v) /\ v.c = c
    BY ONLY <1>1, <1>4, <1>5, <1>7, Reparsed
<1> QED BY <1>4, <1>8, Zenon

\* evhttp_get_body.
LEMMA GetBody ==
    ASSUME NEW w, Parsing(w), NEW kind, NEW v, v = server_get_body(w, kind)
    PROVE  Sound(v)
<1> DEFINE k == IF kind = "chunked" THEN -1 ELSE 2
           c == [w.c EXCEPT !.state = "READING_BODY", !.chunked = kind = "chunked",
                            !.huge = kind = "huge", !.ntoread = k]
           u == [w EXCEPT !.c = c]
           x == evhttp_send_continue(u)
           y == IF u.c.input = <<>> THEN x ELSE u
<1>1. /\ Ready(w) /\ Parsed(w) /\ w.c \in Links /\ w.c.cbs = "read" /\ Unheard(w.c) /\ w.c.rd
    BY ParsingFacts DEF Parsing
<1>2. /\ "READING_BODY" \in ReadingStates \cup {"DISCONNECTED", "WRITING"}
      /\ "READING_BODY" \in ReadingStates
      /\ k \in -1..2 /\ (kind = "chunked") \in BOOLEAN /\ (kind = "huge") \in BOOLEAN
      /\ (kind # "chunked" => k \in 0..2)
    BY DEF ReadingStates
<1>5. v = CASE kind = "get" -> server_connection_done(w)
            [] kind = "bad" -> evhttp_connection_incoming_fail(u, FALSE)
            [] kind = "expect" -> server_read_body(y)
            [] kind = "other" -> evhttp_send(u, w.c.cur, TRUE)
            [] OTHER -> server_read_body(u)
    BY Zenon DEF server_get_body
<1> HIDE DEF k
<1>3. c \in Links
    BY <1>1, <1>2, Zenon DEF Links
<1>4. /\ Unmoved(w, c) /\ c.state = "READING_BODY" /\ c.cbs = w.c.cbs /\ c.cb = w.c.cb
      /\ c.out = w.c.out /\ c.rd = w.c.rd
      /\ (c.chunked <=> kind = "chunked") /\ c.ntoread = k
    <2>1. /\ c.state = "READING_BODY" /\ c.cbs = w.c.cbs /\ c.cb = w.c.cb
          /\ c.out = w.c.out /\ c.rd = w.c.rd
        BY <1>1, Zenon DEF Links
    <2>a. /\ c.accepted = w.c.accepted /\ c.alive = w.c.alive /\ c.cur = w.c.cur
          /\ c.fatal = w.c.fatal
          /\ c.deferred = w.c.deferred
        BY <1>1, Zenon DEF Links
    <2>b. Unmoved(w, c)
        <3> HIDE DEF c
        <3> QED BY <2>a, <1>3, Zenon DEF Unmoved
    <2>2. c.ntoread = k
        BY <1>1, Zenon DEF Links
    <2>3. c.chunked = (kind = "chunked")
        BY <1>1, Zenon DEF Links
    <2> QED BY <2>1, <2>b, <2>2, <2>3, Zenon
<1> HIDE DEF c
<1>6. c.cbs = "read" /\ Unheard(c) /\ Sized(c) /\ c.state \in ReadingStates /\ c.rd
    BY <1>1, <1>2, <1>4, Zenon DEF Unheard, Sized
<1>7. Ready(u) /\ Parsing(u) /\ u.c = c
    BY ONLY <1>1, <1>4, <1>6, Reparsed
<1> HIDE DEF u
<1>8. u.c.state = "READING_BODY" /\ u.c.cur = w.c.cur
    BY <1>4, <1>7, Zenon DEF Unmoved
<1>9. Parsing(y) /\ y.c.state = "READING_BODY"
    BY <1>7, <1>8, Continued
<1> HIDE DEF y
<1>10. CASE kind = "get"
    <2>1. v = server_connection_done(w)
        BY <1>5, <1>10
    <2> QED BY ONLY <2>1, <1>1, ConnectionDone
<1>11. CASE kind = "bad"
    <2>1. v = evhttp_connection_incoming_fail(u, FALSE)
        BY <1>5, <1>11
    <2> QED BY ONLY <2>1, <1>7, Refused
<1>12. CASE kind = "expect"
    <2>1. v = server_read_body(y)
        BY <1>5, <1>12
    <2> QED BY ONLY <2>1, <1>9, ReadBody
<1>13. CASE kind = "other"
    <2>1. v = evhttp_send(u, u.c.cur, TRUE)
        BY <1>5, <1>8, <1>13
    <2>2. AtHand(u) /\ ~u.c.deferred
        BY <1>7 DEF Ready
    <2> QED BY ONLY <2>1, <2>2, Sent
<1>14. CASE kind \notin {"get", "bad", "expect", "other"}
    <2>1. v = server_read_body(u)
        BY <1>5, <1>14
    <2> QED BY ONLY <2>1, <1>7, <1>8, ReadBody
<1> QED BY <1>10, <1>11, <1>12, <1>13, <1>14

\* Noting that the peer wants the connection closed.
LEMMA Closes ==
    ASSUME NEW w, Parsing(w), NEW r, r = w.c.cur
    PROVE  \A close \in BOOLEAN : LET v == [w EXCEPT !.q[r].close = close]
                                  IN Parsing(v) /\ v.c.state = w.c.state
<1>1. ASSUME NEW close \in BOOLEAN, NEW v, v = [w EXCEPT !.q[r].close = close]
      PROVE  Parsing(v) /\ v.c.state = w.c.state
    <2> DEFINE m == [w.q[w.c.cur] EXCEPT !.close = close]
               q == [w.q EXCEPT ![w.c.cur] = m]
    <2>1. AtHand(w) /\ Asked(w.q[w.c.cur]) /\ w.q[w.c.cur] \in Requests /\ Queued(w.q[w.c.cur])
        BY ParsingFacts DEF Ready, AtHand
    <2>2. m \in Requests
        BY <2>1, Zenon DEF Requests
    <2>3. Queued(m) /\ Asked(m)
        BY <2>1, Zenon DEF Requests, Queued, Asked
    <2>4. q = [w.q EXCEPT ![w.c.cur] = m] /\ v = [w EXCEPT !.q = q]
        BY <1>1, Zenon
    <2> HIDE DEF m, q
    <2>5. AtHand(v) /\ v.c = w.c /\ v.q[v.c.cur] = m
        BY ONLY <2>1, <2>2, <2>3, <2>4, Marked
    <2> QED BY <2>3, <2>5, Zenon DEF Parsing, Parsed, Ready
<1> QED BY <1>1, Zenon

\* evhttp_read_header.
LEMMA ReadHeader ==
    ASSUME NEW w, Parsing(w), w.c.state # "READING_FIRSTLINE", NEW v, v = server_read_header(w)
    PROVE  Sound(v)
<1> DEFINE head == Head(w.c.input)
           u == next(w)
           x == [u EXCEPT !.q[w.c.cur].close = head.close]
<1>1. Ready(w) /\ w.c.input \in Seq(Tokens)
    BY ParsingFacts
<1>2. v = IF w.c.input = <<>> THEN w
          ELSE IF head.t # "head" THEN evhttp_connection_incoming_fail(w, FALSE)
          ELSE server_get_body(x, head.kind)
    BY Zenon DEF server_read_header
<1>3. CASE w.c.input = <<>>
    <2>1. v = w
        BY <1>2, <1>3, Zenon
    <2> QED BY <2>1, Waits
<1>4. CASE w.c.input # <<>> /\ head.t # "head"
    <2>1. v = evhttp_connection_incoming_fail(w, FALSE)
        BY <1>2, <1>4, Zenon
    <2> QED BY ONLY <2>1, <1>1, Refused
<1>5. CASE w.c.input # <<>> /\ head.t = "head"
    <2>1. v = server_get_body(x, head.kind)
        BY <1>2, <1>5, Zenon
    <2>2. head \in Tokens
        BY <1>1, <1>5
    <2>3. head.close \in BOOLEAN
        BY <2>2 DEF Tokens
    <2> HIDE DEF head
    <2>4. Parsing(u) /\ u.c.cur = w.c.cur
        BY <1>5, NextPart
    <2> HIDE DEF u
    <2>5. Parsing(x)
        BY <2>3, <2>4, Closes, Zenon
    <2> HIDE DEF x
    <2> QED BY ONLY <2>1, <2>5, GetBody
<1> QED BY <1>3, <1>4, <1>5

\* evhttp_read_firstline.
LEMMA ReadFirstline ==
    ASSUME NEW w, Parsing(w), NEW v, v = server_read_firstline(w)
    PROVE  Sound(v)
<1> DEFINE u == next(w)
           x == [u EXCEPT !.c.state = "READING_HEADERS"]
<1>1. v = IF w.c.input = <<>> THEN w
          ELSE IF token(w) # "line" THEN evhttp_connection_incoming_fail(w, FALSE)
          ELSE server_read_header(x)
    BY Zenon DEF server_read_firstline
<1>2. CASE w.c.input = <<>>
    <2>1. v = w
        BY <1>1, <1>2, Zenon
    <2> QED BY <2>1, <1>2, Waits
<1>3. CASE w.c.input # <<>> /\ token(w) # "line"
    <2>1. v = evhttp_connection_incoming_fail(w, FALSE) /\ Ready(w)
        BY <1>1, <1>3, Zenon DEF Parsing, Parsed
    <2> QED BY ONLY <2>1, Refused
<1>4. CASE w.c.input # <<>> /\ token(w) = "line"
    <2>1. v = server_read_header(x)
        BY <1>1, <1>4, Zenon
    <2>2. Parsing(u)
        BY <1>4, NextPart
    <2> HIDE DEF u
    <2>3. "READING_HEADERS" \in ReadingStates \ {"READING_BODY"}
        BY DEF ReadingStates
    <2>4. Parsing(x) /\ x.c.state = "READING_HEADERS"
        BY <2>2, <2>3, Reparse, Zenon
    <2> HIDE DEF x
    <2>5. x.c.state # "READING_FIRSTLINE"
        BY <2>4
    <2> QED BY ONLY <2>1, <2>4, <2>5, ReadHeader
<1> QED BY <1>2, <1>3, <1>4

\* evhttp_read_cb, called for new input or deferred, leaves a sound server.
LEMMA ReadCb ==
    ASSUME NEW w, Fine(w), w.c.alive, w.c.cur \in SReqs, Queued(w.q[w.c.cur]),
           Asked(w.q[w.c.cur]), w.c.rd, w.c.cbs = "read", Unheard(w.c), Sized(w.c),
           w.c.state \in ReadingStates, NEW v, v = server_read_cb(w)
    PROVE  Sound(v)
<1> DEFINE c == [w.c EXCEPT !.deferred = FALSE]
           u == [w EXCEPT !.c = c]
<1>1. AtHand(w) /\ w.c \in Links
    BY Fields DEF AtHand, Fine
<1>2. v = CASE w.c.state = "READING_FIRSTLINE" -> server_read_firstline(u)
            [] w.c.state = "READING_HEADERS" -> server_read_header(u)
            [] w.c.state = "READING_BODY" -> server_read_body(u)
            [] w.c.state = "READING_TRAILER" -> server_read_trailer(u)
            [] OTHER -> Halt(u, "illegal connection state")
    BY Zenon DEF server_read_cb
<1>3. c \in Links
    BY <1>1, Zenon DEF Links
<1>4. /\ c.accepted = w.c.accepted /\ c.alive = w.c.alive /\ c.cur = w.c.cur /\ c.fatal = w.c.fatal
      /\ ~c.deferred /\ c.state = w.c.state /\ c.cbs = w.c.cbs /\ c.cb = w.c.cb
      /\ c.out = w.c.out /\ c.rd = w.c.rd
      /\ c.chunked = w.c.chunked /\ c.ntoread = w.c.ntoread
    BY <1>1, <1>3, Zenon DEF Links
<1> HIDE DEF c
<1>5. AtHand(u) /\ u.c = c /\ u.q = w.q
    BY ONLY <1>1, <1>3, <1>4, Relinked
<1> HIDE DEF u
<1>6. Parsing(u) /\ u.c.state = w.c.state
    BY <1>4, <1>5, Zenon DEF Parsing, Parsed, Ready, Unheard, Sized
<1>7. CASE w.c.state = "READING_FIRSTLINE"
    <2>1. v = server_read_firstline(u)
        BY <1>2, <1>7
    <2> QED BY ONLY <2>1, <1>6, ReadFirstline
<1>8. CASE w.c.state = "READING_HEADERS"
    <2>1. v = server_read_header(u) /\ u.c.state # "READING_FIRSTLINE"
        BY <1>2, <1>6, <1>8
    <2> QED BY ONLY <2>1, <1>6, ReadHeader
<1>9. CASE w.c.state = "READING_BODY"
    <2>1. v = server_read_body(u) /\ u.c.state = "READING_BODY"
        BY <1>2, <1>6, <1>9
    <2> QED BY ONLY <2>1, <1>6, ReadBody
<1>10. CASE w.c.state = "READING_TRAILER"
    <2>1. v = server_read_trailer(u) /\ u.c.state # "READING_FIRSTLINE"
        BY <1>2, <1>6, <1>10
    <2> QED BY ONLY <2>1, <1>6, ReadTrailer
<1> QED BY <1>7, <1>8, <1>9, <1>10 DEF ReadingStates

-----------------------------------------------------------------------------
(* The steps.                                                              *)

\* A callback that ends in a sound world preserves the invariant.
LEMMA Turned ==
    ASSUME NEW v, Sound(v), Turns(v)
    PROVE  SrvInv'
<1> DEFINE x == [c |-> srv', q |-> sreq', unrouted |-> FALSE]
<1>1. srv' = v.c /\ sreq' = v.q /\ v \in Worlds
    BY DEF Turns, Sound, Fine
<1>2. x.c = v.c /\ x.q = v.q /\ x \in Worlds
    BY <1>1 DEF Worlds
<1>3. Sound(x)
    <2> HIDE DEF x
    <2> QED BY <1>2, Zenon DEF Sound, Fine, Others
<1> QED BY <1>3, Zenon DEF SrvInv, State

\* The invariant, part by part.
LEMMA Stated ==
    ASSUME SrvInv
    PROVE  /\ State \in Worlds /\ State.c = srv /\ State.q = sreq
           /\ srv \in Links /\ sreq \in [SReqs -> Requests]
           /\ srv.cur \in SReqs \cup {NoReq} /\ srv.fatal = "none" /\ srv.out \in 0..2
           /\ srv.input \in Seq(Tokens) /\ srv.sending \in Seq(Tokens)
           /\ srv.cb \in {"none", "send_done", "continue_done"}
           /\ srv.cbs \in {"read", "write"}
           /\ \A s \in SReqs : s # srv.cur => Apart(sreq[s])
           /\ srv.alive <=> srv.cur # NoReq
           /\ srv.alive => srv.accepted
           /\ ~srv.alive => Unheard(srv)
           /\ srv.alive => /\ AtHand(State) /\ srv.cur \in SReqs
                           /\ Queued(sreq[srv.cur]) /\ sreq[srv.cur] \in Requests
                           /\ \/ Reading(srv, sreq[srv.cur])
                              \/ Answering(srv, sreq[srv.cur])
                              \/ Answered(srv, sreq[srv.cur])
<1>1. State.c = srv /\ State.q = sreq
    BY DEF State
<1>2. Sound(State)
    BY DEF SrvInv
<1> HIDE DEF State
<1>3. State \in Worlds
    BY <1>2 DEF Sound, Fine
<1>4. srv \in Links /\ sreq \in [SReqs -> Requests]
    BY <1>1, <1>3, Fields
<1>5. /\ srv.cur \in SReqs \cup {NoReq} /\ srv.out \in 0..2 /\ srv.input \in Seq(Tokens)
      /\ srv.sending \in Seq(Tokens)
      /\ srv.cb \in {"none", "send_done", "continue_done"} /\ srv.cbs \in {"read", "write"}
    BY <1>4 DEF Links
<1>6. /\ srv.fatal = "none"
      /\ \A s \in SReqs : s # srv.cur => Apart(sreq[s])
      /\ srv.alive <=> srv.cur # NoReq
      /\ srv.alive => srv.accepted
      /\ ~srv.alive => Unheard(srv)
      /\ srv.alive => /\ Queued(sreq[srv.cur])
                      /\ \/ Reading(srv, sreq[srv.cur])
                         \/ Answering(srv, sreq[srv.cur])
                         \/ Answered(srv, sreq[srv.cur])
    BY <1>1, <1>2, Zenon DEF Sound, Fine, Others
<1>7. srv.alive => AtHand(State) /\ srv.cur \in SReqs /\ sreq[srv.cur] \in Requests
    BY <1>1, <1>2, <1>4, <1>5, <1>6 DEF AtHand, Sound
<1> QED BY <1>1, <1>3, <1>4, <1>5, <1>6, <1>7

\* The invariant holds at the start.
LEMMA InitSound == SrvInit => SrvInv
<1> SUFFICES ASSUME SrvInit PROVE SrvInv
    OBVIOUS
<1>1. srv \in Links
    <2>1. /\ 0 \in 0..2 /\ -1 \in -1..2 /\ <<>> \in Seq(Tokens)
          /\ "DISCONNECTED" \in ReadingStates \cup {"DISCONNECTED", "WRITING"}
        OBVIOUS
    <2>2. /\ "read" \in {"read", "write"} /\ "none" \in {"none", "send_done", "continue_done"}
          /\ NoReq \in SReqs \cup {NoReq}
          /\ "none" \in {"none"} /\ FALSE \in BOOLEAN
        OBVIOUS
    <2> QED BY <2>1, <2>2, Zenon DEF SrvInit, Links
<1>2. sreq \in [SReqs -> Requests]
    BY DEF SrvInit, Requests
<1>3. State \in Worlds /\ State.c = srv /\ State.q = sreq
    BY <1>1, <1>2 DEF State, Worlds
<1> HIDE DEF State
<1>4. ASSUME NEW s \in SReqs PROVE Apart(sreq[s])
    BY DEF SrvInit, Apart
<1>5. ~srv.alive /\ srv.cur = NoReq /\ srv.fatal = "none" /\ srv.out = 0
    BY DEF SrvInit
<1> QED BY <1>3, <1>4, <1>5, Zenon DEF SrvInv, Sound, Fine, Others, Unheard

\* A connection is accepted.
LEMMA GetRequestStep == ASSUME SrvInv, evhttp_get_request PROVE SrvInv'
<1> DEFINE c == [srv EXCEPT !.accepted = TRUE, !.alive = TRUE,
                            !.state = "READING_FIRSTLINE", !.rd = TRUE]
           u == [State EXCEPT !.c = c]
           v == evhttp_associate_new_request_with_connection(u)
<1>1. /\ State \in Worlds /\ State.q = sreq /\ srv \in Links /\ srv.fatal = "none"
      /\ srv.cur = NoReq
      /\ Unheard(srv) /\ \A s \in SReqs : s # srv.cur => Apart(sreq[s])
    BY Stated, Zenon DEF evhttp_get_request
<1>2. Turns(v)
    BY Zenon DEF evhttp_get_request
<1> HIDE DEF State
<1>3. "READING_FIRSTLINE" \in ReadingStates \cup {"DISCONNECTED", "WRITING"}
    BY DEF ReadingStates
<1>4. c \in Links
    BY <1>1, <1>3, Zenon DEF Links
<1>5. /\ c.alive /\ c.accepted /\ c.cur = srv.cur /\ c.fatal = srv.fatal
      /\ c.cb = srv.cb /\ c.out = srv.out
    BY <1>1, Zenon DEF Links
<1> HIDE DEF c
<1>6. u \in Worlds /\ u.c = c /\ u.q = sreq
    BY <1>1, <1>4 DEF Worlds
<1> HIDE DEF u
<1>7. Fine(u) /\ u.c.alive /\ u.c.cur = NoReq /\ Unheard(u.c)
    BY <1>1, <1>5, <1>6, Zenon DEF Fine, Others, Unheard
<1>8. Sound(v)
    <2> HIDE DEF v
    <2>1. v = evhttp_associate_new_request_with_connection(u)
        BY DEF v
    <2> QED BY ONLY <2>1, <1>7, Associated
<1> QED BY <1>2, <1>8, Turned, Zenon

\* New input, or the next request of the peer, disturbs only who reads it.
LEMMA Fed ==
    ASSUME SrvInv, NEW c \in Links, NEW unrouted \in BOOLEAN,
           c.accepted = srv.accepted, c.alive = srv.alive, c.state = srv.state, c.rd = srv.rd,
           c.wr = srv.wr, c.cbs = srv.cbs, c.cb = srv.cb, c.out = srv.out, c.cur = srv.cur,
           c.deferred = srv.deferred, c.chunked = srv.chunked, c.ntoread = srv.ntoread,
           c.fatal = srv.fatal,
           NEW w, w = [State EXCEPT !.c = c, !.unrouted = unrouted]
    PROVE  /\ Fine(w) /\ w.c = c /\ w.q = sreq
           /\ c.input = srv.input \/ c.cbs = "write" => Sound(w)
<1>1. State \in Worlds /\ State.q = sreq
    BY Stated
<1> HIDE DEF State
<1>2. w \in Worlds /\ w.c = c /\ w.q = sreq
    BY <1>1 DEF Worlds
<1>3. /\ srv.fatal = "none"
      /\ \A s \in SReqs : s # srv.cur => Apart(sreq[s])
      /\ srv.alive <=> srv.cur # NoReq
      /\ srv.alive => srv.accepted
      /\ ~srv.alive => Unheard(srv)
      /\ srv.alive => /\ Queued(sreq[srv.cur])
                      /\ \/ Reading(srv, sreq[srv.cur])
                         \/ Answering(srv, sreq[srv.cur])
                         \/ Answered(srv, sreq[srv.cur])
    BY Stated, Zenon
<1>4. Fine(w)
    BY <1>2, <1>3, Zenon DEF Fine, Others
<1>5. ASSUME c.input = srv.input \/ c.cbs = "write", NEW m
      PROVE  /\ Reading(srv, m) => Reading(c, m)
             /\ Answering(srv, m) => Answering(c, m)
             /\ Answered(srv, m) => Answered(c, m)
    <2>1. Unheard(srv) => Unheard(c)
        BY DEF Unheard
    <2>2. Sized(srv) => Sized(c)
        BY DEF Sized
    <2>3. Reading(srv, m) => Reading(c, m)
        BY <1>5, <2>1, <2>2 DEF Reading
    <2>4. Answering(srv, m) => Answering(c, m)
        BY <2>1 DEF Answering
    <2>5. Answered(srv, m) => Answered(c, m)
        BY DEF Answered
    <2> QED BY <2>3, <2>4, <2>5
<1>6. ~c.alive => Unheard(c)
    BY <1>3 DEF Unheard
<1>7. ASSUME c.input = srv.input \/ c.cbs = "write" PROVE Sound(w)
    BY <1>2, <1>3, <1>4, <1>5, <1>6, <1>7, Zenon DEF Sound
<1> QED BY <1>2, <1>4, <1>7

\* What the peer sends is made of tokens.
LEMMA AskTyped ==
    ASSUME NEW kind \in Incoming, NEW close \in BOOLEAN
    PROVE  Ask(kind, close) \in Seq(Tokens)
<1>1. /\ \A a \in Tokens : <<a>> \in Seq(Tokens)
      /\ \A a, b \in Tokens : <<a, b>> \in Seq(Tokens)
      /\ \A a, b, c \in Tokens : <<a, b, c>> \in Seq(Tokens)
      /\ \A s, t \in Seq(Tokens) : s \o t \in Seq(Tokens)
      /\ <<>> \in Seq(Tokens)
    OBVIOUS
<1>2. /\ \A t \in {"line", "head", "data", "chunk", "last", "trailer", "junk"} :
            Q(t, "", FALSE) \in Tokens
      /\ Q("head", kind, close) \in Tokens
    BY Zenon DEF Q, Tokens
<1>3. /\ "line" \in {"line", "head", "data", "chunk", "last", "trailer", "junk"}
      /\ "data" \in {"line", "head", "data", "chunk", "last", "trailer", "junk"}
      /\ "chunk" \in {"line", "head", "data", "chunk", "last", "trailer", "junk"}
      /\ "last" \in {"line", "head", "data", "chunk", "last", "trailer", "junk"}
      /\ "trailer" \in {"line", "head", "data", "chunk", "last", "trailer", "junk"}
      /\ "junk" \in {"line", "head", "data", "chunk", "last", "trailer", "junk"}
    OBVIOUS
<1>4. /\ Q("junk", "", FALSE) \in Tokens /\ Q("line", "", FALSE) \in Tokens
      /\ Q("chunk", "", FALSE) \in Tokens /\ Q("last", "", FALSE) \in Tokens
      /\ Q("trailer", "", FALSE) \in Tokens
      /\ Q("data", "", FALSE) \in Tokens
    BY <1>2, <1>3, Zenon
<1>5. Body(kind) \in Seq(Tokens)
    <2>1. CASE kind \in {"get", "other", "bad"}
        BY <1>1, <2>1, Zenon DEF Body
    <2>2. CASE kind \notin {"get", "other", "bad"} /\ kind = "chunked"
        BY <1>1, <1>4, <2>2, Zenon DEF Body
    <2>3. CASE kind \notin {"get", "other", "bad"} /\ kind # "chunked"
        BY <1>1, <1>4, <2>3, Zenon DEF Body
    <2> QED BY <2>1, <2>2, <2>3
<1> QED BY <1>1, <1>2, <1>4, <1>5, Zenon DEF Ask

\* The peer sends another request.
LEMMA PeerAsksStep == ASSUME SrvInv, PeerAsks PROVE SrvInv'
<1>1. PICK kind \in Incoming, close \in BOOLEAN : Turns([State EXCEPT !.c.sending = Ask(kind, close)])
    BY Zenon DEF PeerAsks
<1> DEFINE ask == Ask(kind, close)
           c == [srv EXCEPT !.sending = ask]
           w == [State EXCEPT !.c = c, !.unrouted = FALSE]
<1>2. srv \in Links /\ State \in Worlds /\ State.c = srv
    BY Stated
<1>3. ask \in Seq(Tokens)
    BY AskTyped
<1>4. Turns([State EXCEPT !.c = c])
    BY <1>1, <1>2, Zenon
<1> HIDE DEF ask
<1>5. c \in Links
    BY <1>2, <1>3, Zenon DEF Links
<1>6. /\ c.accepted = srv.accepted /\ c.alive = srv.alive /\ c.state = srv.state
      /\ c.rd = srv.rd /\ c.wr = srv.wr
      /\ c.cbs = srv.cbs /\ c.cb = srv.cb /\ c.out = srv.out /\ c.cur = srv.cur
      /\ c.deferred = srv.deferred
      /\ c.chunked = srv.chunked /\ c.ntoread = srv.ntoread /\ c.fatal = srv.fatal
      /\ c.input = srv.input
    BY <1>2, Zenon DEF Links
<1> HIDE DEF c
<1>7. Sound(w)
    <2> HIDE DEF w
    <2>1. w = [State EXCEPT !.c = c, !.unrouted = FALSE] /\ SrvInv
        BY DEF w
    <2> QED BY ONLY <2>1, <1>5, <1>6, Fed
<1>8. Turns(w)
    <2> HIDE DEF State
    <2> QED BY <1>2, <1>4, <1>5 DEF Turns, Worlds
<1> HIDE DEF w
<1> QED BY ONLY <1>7, <1>8, Turned

\* A connection that reads runs evhttp_read_cb.
LEMMA ReadsStep ==
    ASSUME NEW w, Fine(w), w.c.alive, w.c.cur \in SReqs, Queued(w.q[w.c.cur]),
           NEW c, Reading(c, w.q[w.c.cur]),
           w.c.rd = c.rd, w.c.cbs = c.cbs, w.c.cb = c.cb, w.c.out = c.out, w.c.state = c.state,
           w.c.chunked = c.chunked, w.c.ntoread = c.ntoread,
           NEW v, v = server_read_cb(w), Turns(v)
    PROVE  SrvInv'
<1>1. /\ Asked(w.q[w.c.cur]) /\ w.c.rd /\ w.c.cbs = "read" /\ Unheard(w.c) /\ Sized(w.c)
      /\ w.c.state \in ReadingStates
    BY Zenon DEF Reading, Unheard, Sized
<1>2. Sound(v)
    BY <1>1, ReadCb
<1> QED BY <1>2, Turned

\* Bytes arrive, in any portion.
LEMMA ReceivedStep == ASSUME SrvInv, Tidy, Received PROVE SrvInv'
<1>1. PICK k \in 1..Len(srv.sending), unrouted \in BOOLEAN :
          LET w == [State EXCEPT !.c = [srv EXCEPT !.input = @ \o SubSeq(srv.sending, 1, k),
                                                  !.sending = SubSeq(@, k + 1, Len(@))],
                                 !.unrouted = unrouted]
          IN Turns(IF srv.cbs = "read" THEN server_read_cb(w) ELSE w)
    BY Zenon DEF Received
<1> DEFINE input == srv.input \o SubSeq(srv.sending, 1, k)
           sending == SubSeq(srv.sending, k + 1, Len(srv.sending))
           c == [srv EXCEPT !.input = input, !.sending = sending]
           w == [State EXCEPT !.c = c, !.unrouted = unrouted]
<1>2. /\ srv \in Links /\ State \in Worlds /\ State.c = srv /\ srv.alive
      /\ srv.input \in Seq(Tokens) /\ srv.sending \in Seq(Tokens) /\ srv.cbs \in {"read", "write"}
      /\ srv.cur \in SReqs /\ Queued(sreq[srv.cur]) /\ SrvInv
    BY Stated, Zenon DEF Received, Serving
<1>3. ~(srv.state = "WRITING" /\ srv.cbs = "read")
    BY Zenon DEF Received
<1>4. k \in Nat
    BY <1>2
<1>5. Turns(IF srv.cbs = "read" THEN server_read_cb(w) ELSE w)
    BY <1>1, Zenon
<1>6. SubSeq(srv.sending, 1, k) \in Seq(Tokens) /\ sending \in Seq(Tokens)
    BY <1>2, <1>4, Shorter
<1>7. input \in Seq(Tokens)
    BY <1>2, <1>6
<1> HIDE DEF input, sending
<1>8. c \in Links
    BY <1>2, <1>6, <1>7, Zenon DEF Links
<1>9. /\ c.accepted = srv.accepted /\ c.alive = srv.alive /\ c.state = srv.state
      /\ c.rd = srv.rd /\ c.wr = srv.wr
      /\ c.cbs = srv.cbs /\ c.cb = srv.cb /\ c.out = srv.out /\ c.cur = srv.cur
      /\ c.deferred = srv.deferred
      /\ c.chunked = srv.chunked /\ c.ntoread = srv.ntoread /\ c.fatal = srv.fatal
    BY <1>2, Zenon DEF Links
<1> HIDE DEF c
<1>10. Fine(w) /\ w.c = c /\ w.q = sreq /\ (c.input = srv.input \/ c.cbs = "write" => Sound(w))
    <2> HIDE DEF w
    <2>1. w = [State EXCEPT !.c = c, !.unrouted = unrouted]
        BY DEF w
    <2> QED BY ONLY <2>1, <1>2, <1>8, <1>9, Fed
<1> HIDE DEF w
<1>11. CASE srv.cbs = "write"
    <2>1. Sound(w) /\ Turns(w)
        BY <1>5, <1>9, <1>10, <1>11
    <2> QED BY ONLY <2>1, Turned
<1>12. CASE srv.cbs = "read"
    <2> DEFINE v == server_read_cb(w)
    <2>1. Turns(v)
        BY <1>5, <1>12, Zenon
    <2>2. Reading(srv, sreq[srv.cur])
        BY <1>2, <1>3, <1>12, Stated DEF Answering, Answered
    <2>3. /\ Fine(w) /\ w.c.alive /\ w.c.cur \in SReqs /\ Queued(w.q[w.c.cur])
          /\ Reading(srv, w.q[w.c.cur])
          /\ w.c.rd = srv.rd /\ w.c.cbs = srv.cbs /\ w.c.cb = srv.cb /\ w.c.out = srv.out
          /\ w.c.state = srv.state
          /\ w.c.chunked = srv.chunked /\ w.c.ntoread = srv.ntoread
        BY <1>2, <1>9, <1>10, <2>2, Zenon
    <2>4. v = server_read_cb(w)
        OBVIOUS
    <2> HIDE DEF v
    <2> QED BY ONLY <2>1, <2>3, <2>4, ReadsStep
<1> QED BY <1>2, <1>11, <1>12

\* The deferred read runs.
LEMMA DeferredStep == ASSUME SrvInv, server_deferred_read_cb PROVE SrvInv'
<1>1. PICK unrouted \in BOOLEAN : Turns(server_read_cb([State EXCEPT !.unrouted = unrouted]))
    BY Zenon DEF server_deferred_read_cb
<1> DEFINE w == [State EXCEPT !.unrouted = unrouted]
           v == server_read_cb(w)
<1>2. /\ State \in Worlds /\ State.c = srv /\ State.q = sreq /\ srv.alive /\ AtHand(State)
      /\ srv.cur \in SReqs /\ Queued(sreq[srv.cur])
    BY Stated, Zenon DEF server_deferred_read_cb, Serving
<1>3. Reading(srv, sreq[srv.cur])
    BY <1>2, Stated DEF server_deferred_read_cb, Answering, Answered
<1>4. Turns(v)
    BY <1>1, Zenon
<1>5. w \in Worlds /\ w.c = srv /\ w.q = sreq
    <2> HIDE DEF State
    <2> QED BY <1>2 DEF Worlds
<1> HIDE DEF w
<1>6. Fine(w)
    BY <1>2, <1>5, Zenon DEF AtHand, Fine, Others
<1>7. /\ Fine(w) /\ w.c.alive /\ w.c.cur \in SReqs /\ Queued(w.q[w.c.cur])
      /\ Reading(srv, w.q[w.c.cur])
      /\ w.c.rd = srv.rd /\ w.c.cbs = srv.cbs /\ w.c.cb = srv.cb /\ w.c.out = srv.out
      /\ w.c.state = srv.state
      /\ w.c.chunked = srv.chunked /\ w.c.ntoread = srv.ntoread
    BY <1>2, <1>3, <1>5, <1>6, Zenon
<1>8. v = server_read_cb(w)
    OBVIOUS
<1> HIDE DEF v
<1> QED BY ONLY <1>4, <1>7, <1>8, ReadsStep

\* Everything was written: evhttp_write_cb and the callback it makes.
LEMMA WrittenStep == ASSUME SrvInv, evhttp_write_cb PROVE SrvInv'
<1> DEFINE c == [srv EXCEPT !.out = 0]
           w == [State EXCEPT !.c = c]
           d == [c EXCEPT !.wr = FALSE]
           x == [w EXCEPT !.c = d]
           m == sreq[srv.cur]
<1>1. /\ srv \in Links /\ State.c = srv /\ State.q = sreq /\ AtHand(State) /\ srv.alive
      /\ srv.out > 0
      /\ srv.cb \in {"none", "send_done", "continue_done"} /\ srv.cur \in SReqs
      /\ Reading(srv, m) \/ Answering(srv, m) \/ Answered(srv, m)
    BY Stated, Zenon DEF evhttp_write_cb, Serving
<1>2. Turns(CASE srv.cb = "send_done" -> evhttp_send_done(w)
              [] srv.cb = "continue_done" -> [w EXCEPT !.c.wr = FALSE]
              [] OTHER -> w)
    BY <1>1, Zenon DEF evhttp_write_cb
<1>3. 0 \in 0..2
    OBVIOUS
<1>4. c \in Links
    BY <1>1, <1>3, Zenon DEF Links
<1>5. /\ c.accepted = srv.accepted /\ c.alive = srv.alive /\ c.state = srv.state
      /\ c.rd = srv.rd /\ c.wr = srv.wr
      /\ c.cbs = srv.cbs /\ c.cb = srv.cb /\ c.out = 0 /\ c.cur = srv.cur
      /\ c.deferred = srv.deferred
      /\ c.chunked = srv.chunked /\ c.ntoread = srv.ntoread /\ c.fatal = srv.fatal
      /\ c.input = srv.input
    BY <1>1, Zenon DEF Links
<1> HIDE DEF c, State
<1>6. AtHand(w) /\ w.c = c /\ w.q = sreq
    <2> HIDE DEF w
    <2>1. w = [State EXCEPT !.c = c]
        BY DEF w
    <2>2. /\ AtHand(State) /\ c.accepted = State.c.accepted /\ c.alive = State.c.alive
          /\ c.cur = State.c.cur /\ c.fatal = State.c.fatal
        BY <1>1, <1>5, Zenon
    <2>3. AtHand(w) /\ w.c = c /\ w.q = State.q
        BY ONLY <1>4, <2>1, <2>2, Relinked
    <2> QED BY <1>1, <2>3, Zenon
<1> HIDE DEF w
<1>7. Unheard(c) /\ (Sized(srv) => Sized(c))
    BY <1>5, Zenon DEF Unheard, Sized
<1>8. srv.cb # "send_done" => Reading(c, m) \/ Answering(c, m)
    <2>1. Reading(srv, m) => Reading(c, m)
        BY <1>5, <1>7, Zenon DEF Reading
    <2>2. Answering(srv, m) => Answering(c, m)
        BY <1>5, <1>7, Zenon DEF Answering
    <2>3. srv.cb # "send_done" => ~Answered(srv, m)
        BY Zenon DEF Answered
    <2> QED BY <1>1, <2>1, <2>2, <2>3, Zenon
<1>9. CASE srv.cb = "send_done"
    <2> DEFINE v == evhttp_send_done(w)
    <2>1. Turns(v)
        BY <1>2, <1>9
    <2>2. Answered(srv, m)
        BY <1>1, <1>9 DEF Reading, Answering, Unheard
    <2>3. ~w.q[w.c.cur].held /\ Unheard(w.c)
        BY <1>5, <1>6, <1>7, <2>2, Zenon DEF Answered
    <2>4. v = evhttp_send_done(w)
        OBVIOUS
    <2> HIDE DEF v
    <2>5. Sound(v)
        BY ONLY <1>6, <2>3, <2>4, SendDone
    <2> QED BY ONLY <2>1, <2>5, Turned
<1>10. CASE srv.cb = "continue_done"
    <2>1. Turns(x)
        <3>1. Turns([w EXCEPT !.c.wr = FALSE])
            BY <1>2, <1>10
        <3> QED BY <1>6, <3>1, Zenon
    <2>2. d \in Links
        BY <1>4, Zenon DEF Links
    <2>3. /\ d.accepted = c.accepted /\ d.alive = c.alive /\ d.state = c.state /\ d.rd = c.rd
          /\ d.cbs = c.cbs /\ d.cb = c.cb /\ d.out = c.out /\ d.cur = c.cur
          /\ d.deferred = c.deferred
          /\ d.chunked = c.chunked /\ d.ntoread = c.ntoread /\ d.fatal = c.fatal
          /\ d.input = c.input
        BY <1>4, Zenon DEF Links
    <2> HIDE DEF d
    <2>4. AtHand(x) /\ x.c = d /\ x.q = sreq
        <3> HIDE DEF x
        <3>1. x = [w EXCEPT !.c = d]
            BY DEF x
        <3>2. AtHand(x) /\ x.c = d /\ x.q = w.q
            BY <1>6, <2>2, <2>3, <3>1, Relinked
        <3> QED BY <1>6, <3>2, Zenon
    <2> HIDE DEF x
    <2>5. Reading(c, m) => Reading(d, m)
        BY <2>3, Zenon DEF Reading, Unheard, Sized
    <2>6. Answering(c, m) => Answering(d, m)
        <3>1. Answering(c, m) => ~m.started
            BY <1>5, <1>10 DEF Answering
        <3> QED BY <2>3, <3>1, Zenon DEF Answering, Unheard
    <2>7. Sound(x)
        BY <1>5, <1>8, <1>10, <2>3, <2>4, <2>5, <2>6, HttpServerAssumption DEF Sound, AtHand
    <2> QED BY ONLY <2>1, <2>7, Turned
<1>11. CASE srv.cb \notin {"send_done", "continue_done"}
    <2>1. Turns(w)
        BY <1>2, <1>11
    <2>2. Sound(w)
        BY <1>5, <1>6, <1>8, <1>11, HttpServerAssumption DEF Sound, AtHand
    <2> QED BY ONLY <2>1, <2>2, Turned
<1> QED BY <1>1, <1>9, <1>10, <1>11

\* evhttp_free on a server whose program holds no request.
LEMMA FreeStep == ASSUME SrvInv, Tidy, evhttp_free PROVE SrvInv'
<1> DEFINE v == server_connection_free(State)
<1>1. /\ State.c = srv /\ State.q = sreq /\ AtHand(State) /\ srv.cur \in SReqs
      /\ Queued(sreq[srv.cur])
      /\ ~sreq[srv.cur].held /\ Turns(v)
    BY Stated, Zenon DEF evhttp_free, Serving
<1>2. /\ Fine(State)
      /\ State.c.cur # NoReq =>
            State.q[State.c.cur].live /\ ~State.q[State.c.cur].held /\ State.q[State.c.cur].freed = 0
    BY <1>1, Zenon DEF AtHand, Queued
<1>3. v = server_connection_free(State)
    OBVIOUS
<1> HIDE DEF v, State
<1>4. Sound(v)
    BY ONLY <1>2, <1>3, FreedConnection
<1> QED BY ONLY <1>1, <1>4, Turned

\* The connection breaks: the program keeps the request it has.
LEMMA ErrorStep == ASSUME SrvInv, server_error_cb PROVE SrvInv'
<1> DEFINE r == srv.cur
           c == [srv EXCEPT !.rd = FALSE, !.wr = FALSE]
           w == [State EXCEPT !.c = c]
           d == [c EXCEPT !.cur = NoReq]
           m == [sreq[r] EXCEPT !.evcon = FALSE]
           q == [sreq EXCEPT ![r] = m]
           x == [w EXCEPT !.c = d, !.q = q]
<1>1. /\ srv \in Links /\ State.c = srv /\ State.q = sreq /\ AtHand(State) /\ srv.alive
      /\ srv.cur \in SReqs
      /\ Reading(srv, sreq[r]) \/ Answering(srv, sreq[r]) \/ Answered(srv, sreq[r])
      /\ sreq[r] \in Requests /\ Queued(sreq[r]) /\ sreq \in [SReqs -> Requests]
      /\ srv.cur # NoReq /\ srv.fatal = "none" /\ srv.accepted
      /\ \A s \in SReqs : s # srv.cur => Apart(sreq[s])
    BY Stated, Zenon DEF server_error_cb, Serving
<1>2. Turns(evhttp_connection_incoming_fail(State, TRUE))
    BY Zenon DEF server_error_cb
<1>3. c \in Links
    BY <1>1, Zenon DEF Links
<1>4. c.accepted = srv.accepted /\ c.alive = srv.alive /\ c.cur = srv.cur /\ c.fatal = srv.fatal
    BY <1>1, Zenon DEF Links
<1> HIDE DEF State
<1>5. AtHand(w) /\ w.c = c /\ w.q = sreq
    <2> HIDE DEF c, w
    <2>1. w = [State EXCEPT !.c = c]
        BY DEF w
    <2>2. /\ AtHand(State) /\ c.accepted = State.c.accepted /\ c.alive = State.c.alive
          /\ c.cur = State.c.cur /\ c.fatal = State.c.fatal
        BY <1>1, <1>4, Zenon
    <2>3. AtHand(w) /\ w.c = c /\ w.q = State.q
        BY ONLY <1>3, <2>1, <2>2, Relinked
    <2> QED BY <1>1, <2>3, Zenon
<1>6. evhttp_connection_incoming_fail(State, TRUE)
      = server_connection_free(IF sreq[r].userdone THEN w
                               ELSE [w EXCEPT !.c.cur = NoReq, !.q[r].evcon = FALSE])
    BY <1>1, Zenon DEF evhttp_connection_incoming_fail
<1> HIDE DEF c, w
<1>7. CASE sreq[r].userdone
    <2> DEFINE v == server_connection_free(w)
    <2>1. Turns(v)
        BY <1>2, <1>6, <1>7, Zenon
    <2>2. ~sreq[r].held
        BY <1>1, <1>7, Zenon DEF Reading, Asked, Answering, Answered
    <2>3. /\ Fine(w)
          /\ w.c.cur # NoReq => w.q[w.c.cur].live /\ ~w.q[w.c.cur].held /\ w.q[w.c.cur].freed = 0
        BY <1>1, <1>4, <1>5, <2>2, Zenon DEF AtHand, Queued
    <2>4. v = server_connection_free(w)
        OBVIOUS
    <2> HIDE DEF v
    <2>5. Sound(v)
        BY ONLY <2>3, <2>4, FreedConnection
    <2> QED BY ONLY <2>1, <2>5, Turned
<1>8. CASE ~sreq[r].userdone
    <2> DEFINE v == server_connection_free(x)
    <2>1. w \in Worlds
        BY <1>5 DEF AtHand, Fine
    <2>2. m \in Requests
        BY <1>1, Zenon DEF Requests
    <2>3. m.live /\ m.freed = 0 /\ ~m.evcon /\ m.held
        <3>1. sreq[r].held /\ sreq[r].live /\ sreq[r].freed = 0
            BY <1>1, <1>8, Zenon DEF Reading, Asked, Answering, Answered, Queued
        <3> QED BY <1>1, <3>1, Zenon DEF Requests
    <2>4. Turns(v)
        <3>1. Turns(server_connection_free([w EXCEPT !.c.cur = NoReq, !.q[r].evcon = FALSE]))
            BY <1>2, <1>6, <1>8, Zenon
        <3>2. [w EXCEPT !.c.cur = NoReq, !.q[r].evcon = FALSE] = x
            BY <1>1, <1>5, <2>1 DEF Worlds
        <3> QED BY <3>1, <3>2, Zenon
    <2> HIDE DEF m
    <2>5. q \in [SReqs -> Requests] /\ q[r] = m /\ \A s \in SReqs : s # r => q[s] = sreq[s]
        BY <1>1, <2>2
    <2>6. NoReq \in SReqs \cup {NoReq}
        OBVIOUS
    <2>7. d \in Links
        BY <1>3, <2>6, Zenon DEF Links
    <2>8. d.accepted = c.accepted /\ d.alive = c.alive /\ d.cur = NoReq /\ d.fatal = c.fatal
        BY <1>3, Zenon DEF Links
    <2> HIDE DEF q, d
    <2>9. x \in Worlds /\ x.c = d /\ x.q = q
        BY <2>1, <2>5, <2>7 DEF Worlds
    <2> HIDE DEF x
    <2>10. Apart(m)
        BY <2>3 DEF Apart
    <2>11. Others(x)
        BY <1>1, <2>5, <2>8, <2>9, <2>10, Zenon DEF Others
    <2>12. Fine(x) /\ x.c.cur = NoReq
        BY <1>1, <1>4, <2>8, <2>9, <2>11, Zenon DEF Fine
    <2>13. v = server_connection_free(x)
        OBVIOUS
    <2> HIDE DEF v
    <2>14. Sound(v)
        BY ONLY <2>12, <2>13, FreedConnection
    <2> QED BY ONLY <2>4, <2>14, Turned
<1> QED BY <1>7, <1>8

\* v is w with m for the request r.
Differs(w, v, r, m) == AtHand(v) /\ v.c = w.c /\ v.q[r] = m

\* The request at the head of the queue is replaced.
LEMMA MarkedAs ==
    ASSUME NEW w, AtHand(w), NEW r, r = w.c.cur, NEW m \in Requests, Queued(m)
    PROVE  Differs(w, [w EXCEPT !.q[r] = m], r, m)
<1> DEFINE q == [w.q EXCEPT ![r] = m]
           v == [w EXCEPT !.q = q]
<1>1. w \in Worlds /\ r \in SReqs
    BY DEF AtHand, Fine
<1>2. q \in [SReqs -> Requests] /\ q[r] = m /\ \A s \in SReqs : s # r => q[s] = w.q[s]
    BY <1>1, Fields
<1> HIDE DEF q
<1>3. v \in Worlds /\ v.c = w.c /\ v.q = q
    BY <1>1, <1>2 DEF Worlds
<1> HIDE DEF v
<1>4. Differs(w, v, r, m)
    BY <1>2, <1>3, Zenon DEF AtHand, Fine, Others, Differs
<1> QED BY <1>4, Zenon DEF q, v

\* evhttp_write_buffer adds output and sets the callback.
LEMMA WriteBuffer ==
    ASSUME NEW w, AtHand(w), NEW cb \in {"none", "send_done", "continue_done"}
    PROVE  LET v == server_write_buffer([w EXCEPT !.c.out = Up(@)], cb)
           IN /\ AtHand(v) /\ v.q = w.q /\ v.c.cur = w.c.cur /\ v.c.cb = cb
              /\ v.c.cbs = "write" /\ v.c.wr /\ v.c.out > 0
              /\ v.c.state = w.c.state /\ v.c.deferred = w.c.deferred
<1> DEFINE c == [w.c EXCEPT !.out = Up(@)]
           u == [w EXCEPT !.c = c]
           v == server_write_buffer(u, cb)
           d == [c EXCEPT !.cb = cb, !.cbs = "write", !.wr = TRUE]
<1>1. AtHand(w) /\ w.c \in Links
    BY Fields DEF AtHand, Fine
<1>2. Up(w.c.out) \in 0..2 /\ Up(w.c.out) > 0 /\ "write" \in {"read", "write"}
    <2>1. w.c.out \in 0..2
        BY <1>1 DEF Links
    <2> QED BY <2>1, Ups
<1>3. c \in Links
    BY <1>1, <1>2, Zenon DEF Links
<1>4. /\ c.accepted = w.c.accepted /\ c.alive = w.c.alive /\ c.cur = w.c.cur /\ c.fatal = w.c.fatal
      /\ c.out = Up(w.c.out) /\ c.state = w.c.state /\ c.deferred = w.c.deferred
    BY <1>1, Zenon DEF Links
<1> HIDE DEF c
<1>6. AtHand(u) /\ u.c = c /\ u.q = w.q
    <2> HIDE DEF u
    <2>1. u = [w EXCEPT !.c = c]
        BY DEF u
    <2> QED BY ONLY <1>1, <1>3, <1>4, <2>1, Relinked
<1> HIDE DEF u
<1>7. v = [u EXCEPT !.c = d]
    BY <1>6, Zenon DEF server_write_buffer
<1>8. d \in Links
    BY <1>2, <1>3, Zenon DEF Links
<1>9. /\ d.accepted = c.accepted /\ d.alive = c.alive /\ d.cur = c.cur /\ d.fatal = c.fatal
      /\ d.out = c.out /\ d.state = c.state /\ d.deferred = c.deferred /\ d.cb = cb
      /\ d.cbs = "write" /\ d.wr
    BY <1>3, Zenon DEF Links
<1> HIDE DEF d, v
<1>10. AtHand(v) /\ v.c = d /\ v.q = u.q
    <2>1. /\ AtHand(u) /\ d.accepted = u.c.accepted /\ d.alive = u.c.alive /\ d.cur = u.c.cur
          /\ d.fatal = u.c.fatal
        BY <1>6, <1>9, Zenon
    <2> QED BY ONLY <1>7, <1>8, <2>1, Relinked
<1>11. /\ AtHand(v) /\ v.q = w.q /\ v.c.cur = w.c.cur /\ v.c.cb = cb /\ v.c.cbs = "write"
       /\ v.c.wr /\ v.c.out > 0
       /\ v.c.state = w.c.state /\ v.c.deferred = w.c.deferred
    BY <1>2, <1>4, <1>6, <1>9, <1>10, Zenon
<1> QED BY <1>11, Zenon DEF v, u, c

\* A request the program holds is at the head of the queue, or its connection is
\* gone.
LEMMA HeldFacts ==
    ASSUME SrvInv, NEW r \in SReqs, sreq[r].held
    PROVE  /\ Sound(State) /\ State.c = srv /\ State.q = sreq /\ sreq[r] \in Requests
           /\ sreq[r].evcon => /\ AtHand(State) /\ srv.alive /\ r = srv.cur
                               /\ Answering(srv, sreq[r]) /\ Queued(sreq[r])
<1>1. sreq[r] \in Requests
    BY Stated
<1>2. ASSUME sreq[r].evcon
      PROVE  /\ AtHand(State) /\ srv.alive /\ r = srv.cur
             /\ Answering(srv, sreq[r]) /\ Queued(sreq[r])
    <2>1. r = srv.cur
        BY <1>2, Stated DEF Apart
    <2>2. srv.alive
        BY <2>1, Stated, HttpServerAssumption
    <2> QED BY <2>1, <2>2, Stated, Zenon DEF Reading, Asked, Answered
<1> QED BY <1>1, <1>2, Stated, Zenon DEF SrvInv

\* The program answers a request whose connection is gone.
LEMMA LeavesStep ==
    ASSUME SrvInv, NEW r \in SReqs, sreq[r].held, ~sreq[r].evcon,
           Turns(request_free([State EXCEPT !.q[r].held = FALSE], r))
    PROVE  SrvInv'
<1> DEFINE u == [State EXCEPT !.q[r].held = FALSE]
           v == request_free(u, r)
<1>1. Sound(State) /\ State.q[r].held /\ ~State.q[r].evcon
    BY HeldFacts, Zenon
<1>2. Turns(v)
    BY Zenon
<1> HIDE DEF State
<1>3. u = [State EXCEPT !.q[r].held = FALSE] /\ v = request_free(u, r)
    OBVIOUS
<1> HIDE DEF u, v
<1>4. Sound(v)
    BY ONLY <1>1, <1>3, r \in SReqs, Detached
<1> QED BY ONLY <1>2, <1>4, Turned

\* evhttp_send_reply and evhttp_send_error.
LEMMA ReplyStep ==
    ASSUME SrvInv, NEW r \in SReqs, NEW close \in BOOLEAN, sreq[r].held,
           Turns(evhttp_send(State, r, close))
    PROVE  SrvInv'
<1>1. State.q = sreq /\ State.c = srv
    BY HeldFacts, Zenon
<1>2. CASE sreq[r].evcon
    <2> DEFINE v == evhttp_send(State, r, close)
    <2>1. AtHand(State) /\ ~State.c.deferred /\ r = State.c.cur
        BY <1>1, <1>2, HeldFacts, Zenon DEF Answering
    <2> HIDE DEF State
    <2>2. v = evhttp_send(State, State.c.cur, close)
        BY <2>1, Zenon
    <2>3. Turns(v)
        OBVIOUS
    <2> HIDE DEF v
    <2>4. Sound(v)
        BY ONLY <2>1, <2>2, close \in BOOLEAN, Sent
    <2> QED BY ONLY <2>3, <2>4, Turned
<1>3. CASE ~sreq[r].evcon
    <2>1. Turns(request_free([State EXCEPT !.q[r].held = FALSE], r))
        BY <1>1, <1>3, Zenon DEF evhttp_send
    <2> QED BY <2>1, <1>3, LeavesStep
<1> QED BY <1>2, <1>3

\* evhttp_send_reply_start.
LEMMA StartStep == ASSUME SrvInv, Tidy, NEW r \in SReqs, evhttp_send_reply_start(r) PROVE SrvInv'
<1>1. PICK chunked \in BOOLEAN :
        LET w == [State EXCEPT !.q[r] = [sreq[r] EXCEPT !.started = TRUE, !.chunked = chunked],
                               !.c.out = Up(@)]
        IN Turns(IF sreq[r].evcon THEN server_write_buffer(w, "none")
                 ELSE Halt(w, "reply starts without connection"))
    BY Zenon DEF evhttp_send_reply_start
<1> DEFINE m == [sreq[r] EXCEPT !.started = TRUE, !.chunked = chunked]
           u == [State EXCEPT !.q[r] = m]
           v == server_write_buffer([u EXCEPT !.c.out = Up(@)], "none")
<1>2. sreq[r].evcon /\ sreq[r].held
    BY Zenon DEF evhttp_send_reply_start
<1>3. /\ AtHand(State) /\ State.c = srv /\ State.q = sreq /\ r = srv.cur /\ srv.alive
      /\ sreq[r] \in Requests
      /\ Answering(srv, sreq[r]) /\ Queued(sreq[r])
    BY <1>2, HeldFacts, Zenon
<1>4. Turns(v)
    BY <1>1, <1>2, Zenon
<1>5. m \in Requests
    BY <1>3, Zenon DEF Requests
<1>6. Queued(m) /\ m.held /\ ~m.replied /\ ~m.userdone /\ m.started
    BY <1>2, <1>3, Zenon DEF Requests, Queued, Answering
<1> HIDE DEF m, State
<1>7. AtHand(u) /\ u.c = State.c /\ u.q[r] = m
    <2>1. r = State.c.cur /\ AtHand(State)
        BY <1>3, Zenon
    <2>2. Differs(State, u, r, m)
        BY <2>1, <1>5, <1>6, MarkedAs, Zenon
    <2> HIDE DEF u
    <2> QED BY <2>2, Zenon DEF Differs
<1> HIDE DEF u
<1>8. /\ "none" \in {"none", "send_done", "continue_done"}
      /\ v = server_write_buffer([u EXCEPT !.c.out = Up(@)], "none")
    OBVIOUS
<1> HIDE DEF v
<1>9. /\ AtHand(v) /\ v.q = u.q /\ v.c.cur = u.c.cur /\ v.c.cb = "none" /\ v.c.cbs = "write"
      /\ v.c.wr
      /\ v.c.state = u.c.state /\ v.c.deferred = u.c.deferred
    BY <1>7, <1>8, WriteBuffer, Zenon
<1>10. Answering(v.c, v.q[v.c.cur])
    BY <1>3, <1>6, <1>7, <1>9, Zenon DEF Answering
<1>11. Sound(v)
    BY <1>9, <1>10, HttpServerAssumption DEF Sound, AtHand
<1> QED BY ONLY <1>4, <1>11, Turned

\* evhttp_send_reply_chunk_with_cb.
LEMMA ChunkStep == ASSUME SrvInv, NEW r \in SReqs, evhttp_send_reply_chunk_with_cb(r) PROVE SrvInv'
<1> DEFINE v == server_write_buffer([State EXCEPT !.c.out = Up(@)], "none")
<1>1. Turns(v) /\ sreq[r].held /\ sreq[r].evcon /\ sreq[r].started
    BY Zenon DEF evhttp_send_reply_chunk_with_cb
<1>2. AtHand(State) /\ State.c = srv /\ State.q = sreq /\ r = srv.cur /\ Answering(srv, sreq[r])
    BY <1>1, HeldFacts, Zenon
<1> HIDE DEF State
<1>3. /\ "none" \in {"none", "send_done", "continue_done"}
      /\ v = server_write_buffer([State EXCEPT !.c.out = Up(@)], "none")
    OBVIOUS
<1> HIDE DEF v
<1>4. /\ AtHand(v) /\ v.q = State.q /\ v.c.cur = State.c.cur /\ v.c.cb = "none"
      /\ v.c.cbs = "write" /\ v.c.wr
      /\ v.c.state = State.c.state /\ v.c.deferred = State.c.deferred
    BY <1>2, <1>3, WriteBuffer, Zenon
<1>5. Answering(v.c, v.q[v.c.cur])
    BY <1>1, <1>2, <1>4, Zenon DEF Answering
<1>6. Sound(v)
    BY <1>4, <1>5, HttpServerAssumption DEF Sound, AtHand
<1> QED BY ONLY <1>1, <1>6, Turned

\* evhttp_send_reply_end, with all of the reply written or not.
LEMMA EndStep == ASSUME SrvInv, NEW r \in SReqs, evhttp_send_reply_end(r) PROVE SrvInv'
<1> DEFINE m == [sreq[r] EXCEPT !.held = FALSE, !.userdone = TRUE, !.replied = TRUE]
           w == [State EXCEPT !.q[r] = m]
<1>1. sreq[r].held /\ sreq[r].started
    BY Zenon DEF evhttp_send_reply_end
<1>2. Turns(IF ~sreq[r].evcon THEN request_free([State EXCEPT !.q[r].held = FALSE], r)
            ELSE IF sreq[r].chunked THEN server_write_buffer([w EXCEPT !.c.out = Up(@)], "send_done")
            ELSE IF srv.out = 0 THEN evhttp_send_done(w)
            ELSE [w EXCEPT !.c.cb = "send_done"])
    BY Zenon DEF evhttp_send_reply_end
<1>3. CASE ~sreq[r].evcon
    <2>1. Turns(request_free([State EXCEPT !.q[r].held = FALSE], r))
        BY <1>2, <1>3, Zenon
    <2> QED BY <1>1, <1>3, <2>1, LeavesStep
<1>4. CASE sreq[r].evcon
    <2>1. /\ AtHand(State) /\ State.c = srv /\ State.q = sreq /\ r = srv.cur /\ srv.alive
          /\ sreq[r] \in Requests
          /\ Answering(srv, sreq[r]) /\ Queued(sreq[r])
        BY <1>1, <1>4, HeldFacts, Zenon
    <2>2. m \in Requests
        BY <2>1, Zenon DEF Requests
    <2>3. Queued(m) /\ ~m.held /\ m.replied /\ m.userdone
        BY <2>1, Zenon DEF Requests, Queued
    <2> HIDE DEF m, State
    <2>4. AtHand(w) /\ w.c = State.c /\ w.q[r] = m
        <3>1. r = State.c.cur /\ AtHand(State)
            BY <2>1, Zenon
        <3>2. Differs(State, w, r, m)
            BY <3>1, <2>2, <2>3, MarkedAs, Zenon
        <3> HIDE DEF w
        <3> QED BY <3>2, Zenon DEF Differs
    <2> HIDE DEF w
    <2>5. srv.wr /\ srv.cbs = "write" /\ ~srv.deferred
        BY <1>1, <2>1, Zenon DEF Answering
    <2>6. CASE sreq[r].chunked
        <3> DEFINE v == server_write_buffer([w EXCEPT !.c.out = Up(@)], "send_done")
        <3>1. Turns(v)
            BY <1>2, <1>4, <2>6, Zenon
        <3>2. /\ "send_done" \in {"none", "send_done", "continue_done"}
              /\ v = server_write_buffer([w EXCEPT !.c.out = Up(@)], "send_done")
            OBVIOUS
        <3> HIDE DEF v
        <3>3. /\ AtHand(v) /\ v.q = w.q /\ v.c.cur = w.c.cur /\ v.c.cb = "send_done"
              /\ v.c.cbs = "write" /\ v.c.wr
              /\ v.c.out > 0 /\ v.c.deferred = w.c.deferred
            BY <2>4, <3>2, WriteBuffer, Zenon
        <3>4. Answered(v.c, v.q[v.c.cur])
            BY <2>1, <2>3, <2>4, <2>5, <3>3, Zenon DEF Answered
        <3>5. Sound(v)
            BY <3>3, <3>4, HttpServerAssumption DEF Sound, AtHand
        <3> QED BY ONLY <3>1, <3>5, Turned
    <2>7. CASE ~sreq[r].chunked /\ srv.out = 0
        <3> DEFINE v == evhttp_send_done(w)
        <3>1. Turns(v)
            BY <1>2, <1>4, <2>7, Zenon
        <3>2. v = evhttp_send_done(w)
            OBVIOUS
        <3> HIDE DEF v
        <3>3. ~w.q[w.c.cur].held /\ Unheard(w.c)
            BY <2>1, <2>3, <2>4, <2>7, Zenon DEF Unheard
        <3>4. Sound(v)
            BY ONLY <2>4, <3>2, <3>3, SendDone
        <3> QED BY ONLY <3>1, <3>4, Turned
    <2>8. CASE ~sreq[r].chunked /\ srv.out # 0
        <3> DEFINE c == [w.c EXCEPT !.cb = "send_done"]
                   v == [w EXCEPT !.c = c]
        <3>1. Turns(v)
            BY <1>2, <1>4, <2>8, Zenon
        <3>2. srv \in Links /\ srv.out > 0
            BY <2>8, Stated
        <3>3. "send_done" \in {"none", "send_done", "continue_done"} /\ w.c = srv
            BY <2>1, <2>4, Zenon
        <3>4. c \in Links
            BY <3>2, <3>3, Zenon DEF Links
        <3>5. /\ c.accepted = w.c.accepted /\ c.alive = w.c.alive /\ c.cur = w.c.cur
              /\ c.fatal = w.c.fatal
              /\ c.wr = srv.wr /\ c.cbs = srv.cbs /\ c.deferred = srv.deferred
              /\ c.out = srv.out /\ c.cb = "send_done"
            BY <3>2, <3>3, Zenon DEF Links
        <3> HIDE DEF c
        <3>6. v = [w EXCEPT !.c = c] /\ AtHand(w)
            BY <2>4
        <3> HIDE DEF v
        <3>7. AtHand(v) /\ v.c = c /\ v.q = w.q
            BY ONLY <3>4, <3>5, <3>6, Relinked
        <3>8. Answered(v.c, v.q[v.c.cur])
            BY <2>1, <2>3, <2>4, <2>5, <3>2, <3>3, <3>5, <3>7, Zenon DEF Answered
        <3>9. Sound(v)
            BY <3>7, <3>8, HttpServerAssumption DEF Sound, AtHand
        <3> QED BY ONLY <3>1, <3>9, Turned
    <2> QED BY <2>6, <2>7, <2>8
<1> QED BY <1>3, <1>4

\* The invariant implies what the run checks.
LEMMA InvSound == SrvInv => ServerSound
<1> SUFFICES ASSUME SrvInv PROVE ServerSound
    OBVIOUS
<1>1. ServerNeverFatal
    BY Stated DEF ServerNeverFatal
<1>2. RequestsHeld
    <2> SUFFICES ASSUME NEW r \in SReqs
                 PROVE  /\ sreq[r].freed <= 1
                        /\ sreq[r].live /\ sreq[r].freed = 0 => srv.cur = r \/ sreq[r].held
                        /\ sreq[r].held => sreq[r].freed = 0 /\ (sreq[r].evcon <=> srv.cur = r)
                        /\ srv.cur = r => srv.alive
        BY DEF RequestsHeld
    <2>1. CASE srv.cur = r
        <3>1. srv.alive /\ Queued(sreq[r])
            BY <2>1, Stated, HttpServerAssumption
        <3> QED BY <2>1, <3>1 DEF Queued
    <2>2. CASE srv.cur # r
        <3>1. Apart(sreq[r])
            BY <2>2, Stated
        <3> QED BY <2>2, <3>1 DEF Apart
    <2> QED BY <2>1, <2>2
<1>3. RepliesLeave
    BY Stated DEF RepliesLeave, Reading, Asked, Answering, Answered
<1>4. ReadsRequests
    BY Stated DEF ReadsRequests, Reading, Answering, Answered, ReadingStates
<1> QED BY <1>1, <1>2, <1>3, <1>4 DEF ServerSound

\* Every step of the server preserves the invariant.
LEMMA StepSound == ASSUME SrvInv, Tidy, [SrvNext]_srvVars PROVE SrvInv'
<1>1. CASE UNCHANGED srvVars
    BY <1>1, Zenon DEF SrvInv, State, srvVars
<1>2. CASE \E r \in SReqs : evhttp_send_reply(r) \/ evhttp_send_error(r)
    <2>1. PICK r \in SReqs : evhttp_send_reply(r) \/ evhttp_send_error(r)
        BY <1>2
    <2>2. sreq[r].held /\ \E close \in BOOLEAN : Turns(evhttp_send(State, r, close))
        BY <2>1, Zenon DEF evhttp_send_reply, evhttp_send_error
    <2> QED BY <2>2, ReplyStep, Zenon
<1> QED BY <1>1, <1>2, GetRequestStep, PeerAsksStep, ReceivedStep, DeferredStep, WrittenStep,
           ErrorStep, FreeStep,
           StartStep, ChunkStep, EndStep, Zenon DEF SrvNext

\* Whatever the peer sends and in whatever portions, whenever the connection
\* breaks and however the program answers, the server never runs into one of its
\* assertions, never frees a request twice or while the program has it, sees
\* every reply out, and reads on while it owes none (ServerSound), for every
\* number of requests and length of input.  The program and the peer keep clear
\* of the uses marked Tidy: nothing arrives while the program prepares the reply
\* to a request without a body, no reply is started on a request whose connection
\* has ended, and no server is freed that serves.
THEOREM ServerCorrect == ASSUME Tidy PROVE SrvSpec => []ServerSound
<1>1. SrvInit => SrvInv
    BY InitSound
<1>2. SrvInv /\ [SrvNext]_srvVars => SrvInv'
    BY StepSound
<1>3. SrvInv => ServerSound
    BY InvSound
<1> QED BY <1>1, <1>2, <1>3, PTL DEF SrvSpec
===============================================================================
