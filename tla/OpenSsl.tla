------------------------------ MODULE OpenSsl -------------------------------
(***************************************************************************)
(* The TLS bufferevent of bufferevent_openssl.c, over a socket or over     *)
(* another bufferevent (`filter').  The TLS engine is external: it has     *)
(* records to read (`wire', and `rest' of a record already taken from the  *)
(* network), room to write, and at times a `need': the read side has to    *)
(* send first, or the write side has to receive first.                     *)
(*                                                                         *)
(* The functions of the code are operators on the state s of the           *)
(* bufferevent.  In a filter, `ev' holds "R" while the underlying          *)
(* bufferevent is not suspended by BEV_SUSPEND_FILT_READ, `wire' is what   *)
(* its input holds and `room' what its write high-water mark leaves; its   *)
(* callbacks run as data arrives and as its output drains, and not again.  *)
(***************************************************************************)
EXTENDS Naturals

CONSTANTS Kinds,      \* of "socket" and "filter"
          MaxQueued,  \* records on the wire, in the input and in the output
          BigRecords, \* TRUE: a record may exceed what one SSL_read takes
          Steady      \* TRUE: the program keeps clear of the uses marked Steady

VARIABLE tls

filter(s) == s.kind = "filter"
suspended_read(s) == s.wm \/ s.bw_r
suspended_write(s) == s.bw_w
Spins(s) == [s EXCEPT !.spins = TRUE]

-----------------------------------------------------------------------------
(* Waiting for the network. *)

start_reading(s) ==
    [s EXCEPT !.ev = @ \cup {"R"} \cup IF s.rbow /\ ~filter(s) THEN {"W"} ELSE {}]
start_writing(s) ==
    IF filter(s) THEN [s EXCEPT !.ev = @ \cup IF s.wbor THEN {"R"} ELSE {}]
    ELSE [s EXCEPT !.ev = @ \cup {"W"} \cup IF s.wbor THEN {"R"} ELSE {}]

\* Mutant: reading stops even though a write waits for it.
stop_reading_always(s) == [s EXCEPT !.ev = @ \ {"R"}]

stop_reading(s) == IF s.wbor THEN s ELSE [s EXCEPT !.ev = @ \ {"R"}]
stop_writing(s) == IF s.rbow THEN s
                   ELSE IF filter(s) THEN [s EXCEPT !.ev = @ \cup {"R"}]
                   ELSE [s EXCEPT !.ev = @ \ {"W"}]

set_rbow(s) == start_writing([IF filter(s) THEN s ELSE stop_reading(s) EXCEPT !.rbow = TRUE])
set_wbor(s) == start_reading([IF filter(s) THEN s ELSE stop_writing(s) EXCEPT !.wbor = TRUE])

resumes_reading(s) == IF "R" \in s.enabled THEN start_reading(s) ELSE s
resumes_writing(s) == IF "W" \in s.enabled THEN start_writing(s) ELSE s
clear_rbow(s) ==
    LET s1 == [s EXCEPT !.rbow = FALSE]
    IN resumes_reading(IF "W" \in s.enabled THEN s1 ELSE stop_writing(s1))
clear_wbor(s) ==
    LET s1 == [s EXCEPT !.wbor = FALSE]
    IN resumes_writing(IF "R" \in s.enabled THEN s1 ELSE stop_reading(s1))

conn_closed(s) == [stop_writing(stop_reading(s)) EXCEPT !.ends = IF @ < 2 THEN @ + 1 ELSE @]

-----------------------------------------------------------------------------
(* The TLS engine: what SSL_read, SSL_write and SSL_do_handshake answer. *)

\* During a handshake neither reading nor writing gets further.
SSL_read(s) == IF s.state = "connecting" THEN IF s.room = 0 THEN "want_write" ELSE "want_read"
               ELSE IF s.need = "send" /\ s.room = 0 THEN "want_write"
               ELSE IF s.rest > 0 \/ s.wire > 0 THEN "data"
               ELSE IF s.eof THEN "closed" ELSE "want_read"
\* The record is taken; a big one leaves a rest.  Only whether there is input
\* matters, and whether it reaches the high-water mark of one.
took(s) == LET s1 == [IF s.need = "send" THEN [s EXCEPT !.need = "none", !.room = 0] ELSE s EXCEPT !.in = 1]
           IN IF s.rest > 0 THEN [s1 EXCEPT !.rest = @ - 1]
              ELSE [s1 EXCEPT !.wire = @ - 1, !.rest = IF BigRecords THEN 1 ELSE 0]

SSL_write(s) == IF s.state = "connecting" THEN IF s.room = 0 THEN "want_write" ELSE "want_read"
                ELSE IF s.need = "receive" /\ s.wire = 0 THEN IF s.eof THEN "closed" ELSE "want_read"
                ELSE IF s.room = 0 THEN "want_write" ELSE "sent"
sent(s) == [s EXCEPT !.room = 0, !.out = @ - 1, !.wire = IF s.need = "receive" THEN @ - 1 ELSE @,
                     !.need = IF @ = "receive" THEN "none" ELSE @]

-----------------------------------------------------------------------------
(* Input and output.  The result flags of do_read and do_write are left in  *)
(* `flags'.                                                                *)

\* bufferevent_inbuf_wm_cb: the read high-water mark.
wm_cb(s) == IF s.high > 0 /\ s.in >= s.high /\ ~s.wm
            THEN [IF s.bw_r THEN s ELSE stop_reading(s) EXCEPT !.wm = TRUE] ELSE s

\* decrement_buckets: `brake' holds the buckets that this step empties, of
\* those that the operation has moved bytes for.
slow_read(s) == IF "R" \notin s.brake \/ s.bw_r THEN s
                ELSE [IF s.wm THEN s ELSE stop_reading(s) EXCEPT !.bw_r = TRUE]
slow_write(s) == IF "W" \notin s.brake \/ s.bw_w THEN s ELSE [stop_writing(s) EXCEPT !.bw_w = TRUE]
decrement_buckets(s, both, d) ==
    IF both THEN slow_read(slow_write(s)) ELSE IF d = "R" THEN slow_read(s) ELSE slow_write(s)

unblock_read(s) == IF s.rbow THEN clear_rbow(s) ELSE s
unblock_write(s) == IF s.wbor THEN clear_wbor(s) ELSE s
blocked(s) == [s EXCEPT !.flags = @ \cup {"blocked"}]
progress(s) == [s EXCEPT !.flags = @ \cup {"progress"}]
unmoved(s) == [s EXCEPT !.flags = {}]

\* One SSL_read, into one piece of the space reserved.
read_once(s) ==
    CASE SSL_read(s) = "data" -> decrement_buckets(unblock_read(progress(took(s))), s.need = "send", "R")
      [] SSL_read(s) = "want_read" -> unblock_read(blocked(s))
      [] SSL_read(s) = "want_write" -> IF s.rbow THEN blocked(s) ELSE set_rbow(blocked(s))
      [] OTHER -> conn_closed(blocked(s))
\* The space is in one piece or (`split') in two; what was read is committed
\* at the end.
read_rest(s) == IF s.split /\ "blocked" \notin s.flags /\ ~suspended_read(s) THEN read_once(s) ELSE s
committed(s) == IF "progress" \in s.flags THEN wm_cb(s) ELSE s
do_read(s) == IF suspended_read(s) THEN unmoved(s) ELSE committed(read_rest(read_once(unmoved(s))))

\* One SSL_write, of one piece of the output.
write_once(s) ==
    CASE SSL_write(s) = "sent" -> decrement_buckets(unblock_write(progress(sent(s))), s.need = "receive", "W")
      [] SSL_write(s) = "want_write" -> unblock_write(blocked(s))
      [] SSL_write(s) = "want_read" -> IF s.wbor THEN blocked(s) ELSE set_wbor(blocked(s))
      [] OTHER -> conn_closed(blocked(s))
write_rest(s) == IF s.split /\ s.out > 0 /\ "blocked" \notin s.flags /\ ~suspended_write(s) THEN write_once(s) ELSE s
do_write(s) == IF suspended_write(s) \/ s.out = 0 THEN unmoved(s) ELSE write_rest(write_once(unmoved(s)))

may_read(s) == ~s.wbor /\ "R" \in s.enabled /\ ~suspended_read(s) /\ (s.high = 0 \/ s.in < s.high)

\* The loops of consider_reading and consider_writing; an attempt that neither
\* moves nor blocks is made again for ever.
RECURSIVE write_till_unblocked(_), read_records(_), read_till_unblocked(_), write_records(_)
keep_unblocking(s) == IF s.flags = {} THEN Spins(s) ELSE IF "blocked" \in s.flags THEN s ELSE write_till_unblocked(s)
write_till_unblocked(s) == IF ~s.wbor THEN s ELSE keep_unblocking(do_write(s))

keep_reading(s) ==
    IF "blocked" \in s.flags \/ suspended_read(s) THEN s
    ELSE IF s.rest > 0 \/ (filter(s) /\ may_read(s)) THEN read_records(s) ELSE s
read_records(s) == keep_reading(do_read(s))

reading_idle(s) ==
    IF ~filter(s) /\ (suspended_read(s) \/ "R" \notin s.enabled) THEN [s EXCEPT !.ev = @ \ {"R"}] ELSE s
reading_considered(s) ==
    IF s.wbor \/ s.spins THEN s ELSE reading_idle(IF may_read(s) THEN read_records(s) ELSE s)
consider_reading(s) == reading_considered(write_till_unblocked(s))

keep_unblocking_read(s) == IF s.flags = {} THEN Spins(s) ELSE IF "blocked" \in s.flags THEN s ELSE read_till_unblocked(s)
read_till_unblocked(s) == IF ~s.rbow THEN s ELSE keep_unblocking_read(do_read(s))

keep_writing(s) == IF s.flags = {} THEN Spins(s) ELSE IF "blocked" \in s.flags THEN s ELSE write_records(s)
write_records(s) ==
    IF "W" \notin s.enabled \/ suspended_write(s) \/ s.out = 0 \/ (filter(s) /\ s.room = 0) THEN s
    ELSE keep_writing(do_write(s))

writing_idle(s) ==
    IF ~filter(s) /\ (s.out = 0 \/ suspended_write(s) \/ "W" \notin s.enabled) THEN [s EXCEPT !.ev = @ \ {"W"}] ELSE s
writing_considered(s) == IF s.rbow \/ s.spins THEN s ELSE writing_idle(write_records(s))
consider_writing(s) == writing_considered(read_till_unblocked(s))

-----------------------------------------------------------------------------
(* Operations of the bufferevent. *)

read_started(s, events) == IF "R" \in events THEN start_reading(s) ELSE s
write_started(s, events) == IF "W" \in events THEN start_writing(s) ELSE s
read_tried(s, events) == IF "R" \in events THEN consider_reading(s) ELSE s
write_tried(s, events) == IF "W" \in events THEN consider_writing(s) ELSE s
\* Only over another bufferevent does it read and write at once.
started(s, events) == IF filter(s) THEN write_tried(read_tried(s, events), events) ELSE s
be_openssl_enable(s, events) == started(write_started(read_started(s, events), events), events)

read_stopped(s, events) == IF "R" \in events THEN stop_reading(s) ELSE s
be_openssl_disable(s, events) ==
    IF "W" \in events THEN stop_writing(read_stopped(s, events)) ELSE read_stopped(s, events)

\* bufferevent_enable: what is suspended is enabled later.
bev_enable(s, events) ==
    be_openssl_enable([s EXCEPT !.enabled = @ \cup events],
                      {e \in events : (e = "R" => ~suspended_read(s)) /\ (e = "W" => ~suspended_write(s))})

\* do_handshake, given what SSL_do_handshake answers.
do_handshake(s, r) ==
    CASE r = "done" -> bev_enable([s EXCEPT !.state = "open", !.shake = "any"], s.enabled)
      [] r = "want_write" -> start_writing(stop_reading([s EXCEPT !.shake = "W"]))
      [] r = "want_read" -> start_reading(stop_writing([s EXCEPT !.shake = "R"]))
      [] OTHER -> conn_closed(s)

set_handshake_callbacks(s) == IF filter(s) THEN s ELSE bev_enable([s EXCEPT !.ev = {}], s.enabled)

Usable_tls == tls.ends = 0 /\ ~tls.spins
TlsStep(s) == tls' = [s EXCEPT !.flags = {}, !.brake = {}, !.split = FALSE]
\* A step that reads or writes may empty a bucket and find its buffer in
\* pieces.  Steady: no bucket in a handshake.
Braked == {[tls EXCEPT !.brake = b, !.split = two] :
              b \in IF Steady /\ tls.state = "connecting" THEN {{}} ELSE SUBSET {"R", "W"}, two \in BOOLEAN}
Answers == {"done", "want_read", "want_write", "error"}

-----------------------------------------------------------------------------
(* Steps. *)

\* The network: over a socket records and room come, and the peer closes or
\* begins to renegotiate.  Steady: under a filter no read has to send first
\* (consider_writing ends such a read after one record and leaves the rest of
\* the underlying input for when more arrives).
WireMoves == /\ Usable_tls
             /\ \/ tls.wire < MaxQueued /\ ~tls.eof /\ ~filter(tls) /\ TlsStep([tls EXCEPT !.wire = @ + 1])
                \/ tls.room = 0 /\ ~filter(tls) /\ TlsStep([tls EXCEPT !.room = 1])
                \/ ~tls.eof /\ ~filter(tls) /\ TlsStep([tls EXCEPT !.eof = TRUE])
                \/ /\ tls.need = "none" /\ tls.state = "open"
                   /\ \E need \in {"send", "receive"} : (Steady /\ filter(tls) => need # "send") /\ TlsStep([tls EXCEPT !.need = need])

readable == ~filter(tls) /\ "R" \in tls.ev /\ (tls.wire > 0 \/ tls.eof)
writable == ~filter(tls) /\ "W" \in tls.ev /\ tls.room > 0

be_openssl_readeventcb == /\ Usable_tls /\ tls.state = "open" /\ readable
                          /\ \E s \in Braked : TlsStep(consider_reading(s))
be_openssl_writeeventcb == /\ Usable_tls /\ tls.state = "open" /\ writable
                           /\ \E s \in Braked : TlsStep(consider_writing(s))
be_openssl_handshakeeventcb == /\ Usable_tls /\ tls.state = "connecting" /\ (readable \/ writable)
                               /\ \E s \in Braked, r \in Answers : TlsStep(do_handshake(s, r))

\* The underlying bufferevent has read, or has written its output.
arrives(s) == [s EXCEPT !.wire = @ + 1]
drains(s) == [s EXCEPT !.room = 1]
be_openssl_readcb == /\ Usable_tls /\ filter(tls) /\ tls.state = "open" /\ "R" \in tls.ev /\ tls.wire < MaxQueued
                     /\ \E s \in Braked : TlsStep(consider_reading(arrives(s)))
be_openssl_writecb == /\ Usable_tls /\ filter(tls) /\ tls.state = "open" /\ tls.room = 0
                      /\ \E s \in Braked : TlsStep(consider_writing(drains(s)))
be_openssl_handshakecb ==
    /\ Usable_tls /\ filter(tls) /\ tls.state = "connecting"
    /\ \E s \in Braked, r \in Answers :
       \E moved \in (IF "R" \in s.ev /\ s.wire < MaxQueued THEN {arrives(s)} ELSE {})
                    \cup (IF s.room = 0 THEN {drains(s)} ELSE {}) : TlsStep(do_handshake(moved, r))
be_openssl_eventcb == Usable_tls /\ filter(tls) /\ "R" \in tls.ev /\ TlsStep([tls EXCEPT !.ends = 1])

be_openssl_outbuf_cb ==
    /\ Usable_tls /\ tls.out < MaxQueued
    /\ LET s == [tls EXCEPT !.out = @ + 1]
           s1 == IF tls.out = 0 /\ ~filter(s) THEN [s EXCEPT !.ev = @ \cup {"W"}] ELSE s
       IN \E s2 \in Braked :
            TlsStep(IF s.state # "open" THEN s
                    ELSE IF filter(s) THEN consider_writing([s1 EXCEPT !.brake = s2.brake, !.split = s2.split]) ELSE s1)

\* The program takes the input, which may lift the read high-water mark.
bufferevent_read ==
    /\ Usable_tls /\ tls.in > 0
    /\ LET s == [tls EXCEPT !.in = 0, !.wm = FALSE]
       IN TlsStep(IF tls.wm /\ ~suspended_read(s) /\ "R" \in s.enabled THEN be_openssl_enable(s, {"R"}) ELSE s)

tls_enable(e) == /\ Usable_tls /\ e \notin tls.enabled /\ TlsStep(bev_enable(tls, {e}))
\* Steady: not while a handshake needs the event.
tls_disable(e) == /\ Usable_tls /\ e \in tls.enabled /\ (Steady => tls.state = "open")
                  /\ TlsStep(be_openssl_disable([tls EXCEPT !.enabled = @ \ {e}], {e}))

\* Rate limiting suspends and resumes.  Steady: not during a handshake, not
\* reading while it waits to write, and not writing while it waits to read.
rate_limit_read == /\ Usable_tls /\ ~tls.bw_r /\ (Steady => tls.state = "open" /\ ~tls.rbow)
                   /\ TlsStep(IF tls.wm THEN [tls EXCEPT !.bw_r = TRUE] ELSE be_openssl_disable([tls EXCEPT !.bw_r = TRUE], {"R"}))
rate_limit_write == /\ Usable_tls /\ ~tls.bw_w /\ (Steady => tls.state = "open" /\ ~tls.wbor)
                    /\ TlsStep(be_openssl_disable([tls EXCEPT !.bw_w = TRUE], {"W"}))
refill_read == /\ Usable_tls /\ tls.bw_r
               /\ LET s == [tls EXCEPT !.bw_r = FALSE]
                  IN TlsStep(IF ~suspended_read(s) /\ "R" \in s.enabled THEN be_openssl_enable(s, {"R"}) ELSE s)
refill_write == /\ Usable_tls /\ tls.bw_w
                /\ LET s == [tls EXCEPT !.bw_w = FALSE]
                   IN TlsStep(IF "W" \in s.enabled THEN be_openssl_enable(s, {"W"}) ELSE s)

\* Steady: once, from an open connection on which nothing is blocked.
bufferevent_ssl_renegotiate ==
    /\ Usable_tls /\ tls.state = "open" /\ (Steady => ~tls.rbow /\ ~tls.wbor /\ tls.need = "none" /\ ~tls.bw_r /\ ~tls.bw_w)
    /\ \E r \in {"done", "want_read", "want_write", "error"} :
         TlsStep(IF filter(tls) THEN [tls EXCEPT !.state = "connecting", !.shake = "any"]
                 ELSE do_handshake(set_handshake_callbacks([tls EXCEPT !.state = "connecting"]), r))

\* BEV_CTRL_SET_FD over a socket: a new connection, from the state the
\* bufferevent was made in.  Steady: nothing is left blocked on the old one,
\* and the bufferevent was made to connect or accept (an open one keeps only
\* the events it has, which after an end are none).
be_openssl_ctrl_setfd ==
    /\ ~filter(tls) /\ ~tls.spins /\ tls.eof /\ (Steady => ~tls.rbow /\ ~tls.wbor /\ tls.old_state = "connecting")
    /\ LET s == [tls EXCEPT !.state = tls.old_state, !.wire = 0, !.rest = 0, !.room = 1, !.eof = FALSE, !.need = "none",
                            !.shake = "any", !.ends = 0]
       IN TlsStep(IF s.state = "connecting" THEN set_handshake_callbacks(s) ELSE s)

\* bufferevent_openssl_new_impl: writing is enabled, and over a socket it is
\* the write event that starts the handshake; an open filter begins suspended.
TlsInit ==
    \E kind \in Kinds, state \in {"connecting", "open"}, high \in 0..1 :
        tls = [kind |-> kind, state |-> state, old_state |-> state, high |-> high, rbow |-> FALSE, wbor |-> FALSE, enabled |-> {"W"},
               ev |-> IF kind = "socket" THEN IF state = "open" THEN {} ELSE {"W"} ELSE IF state = "open" THEN {} ELSE {"R"},
               in |-> 0, out |-> 0, wm |-> FALSE, bw_r |-> FALSE, bw_w |-> FALSE, wire |-> 0, rest |-> 0, room |-> 1,
               eof |-> FALSE, need |-> "none", shake |-> "any", ends |-> 0, flags |-> {}, brake |-> {}, split |-> FALSE, spins |-> FALSE]

TlsNext == \/ WireMoves \/ be_openssl_readeventcb \/ be_openssl_writeeventcb \/ be_openssl_handshakeeventcb
           \/ be_openssl_readcb \/ be_openssl_writecb \/ be_openssl_handshakecb \/ be_openssl_eventcb
           \/ be_openssl_ctrl_setfd \/ be_openssl_outbuf_cb \/ bufferevent_read
           \/ \E e \in {"R", "W"} : tls_enable(e) \/ tls_disable(e)
           \/ rate_limit_read \/ rate_limit_write \/ refill_read \/ refill_write \/ bufferevent_ssl_renegotiate

-----------------------------------------------------------------------------
(* Properties. *)

\* On an open connection every operation that could go on has the event that
\* lets it: a blocked read waits for room and a blocked write for data, and
\* otherwise reading waits for data and pending output for room.
BlockedAwaited ==
    Usable_tls /\ tls.state = "open" =>
      /\ tls.wbor => "R" \in tls.ev
      /\ tls.rbow /\ ~filter(tls) => "W" \in tls.ev
      /\ ~tls.rbow /\ ~tls.wbor /\ "R" \in tls.enabled /\ ~suspended_read(tls) => "R" \in tls.ev
      /\ ~tls.rbow /\ ~tls.wbor /\ "W" \in tls.enabled /\ ~suspended_write(tls) /\ tls.out > 0 /\ ~filter(tls) => "W" \in tls.ev

\* Nothing of a filter waits for a callback that already came: its input is
\* read to the end ("If we didn't do this, then we would potentially not read
\* any more from bev_ssl->underlying until more data arrived there, which
\* could lead to us waiting forever."), its output stays back only while the
\* underlying buffer is full, and what is blocked has what it waits for.
FilterCaughtUp ==
    Usable_tls /\ tls.state = "open" /\ filter(tls) =>
      /\ tls.rbow => tls.room = 0
      /\ tls.wbor => tls.wire = 0
      /\ ~tls.rbow /\ ~tls.wbor /\ "R" \in tls.enabled /\ ~suspended_read(tls) => tls.wire = 0
      /\ ~tls.rbow /\ ~tls.wbor /\ "W" \in tls.enabled /\ ~suspended_write(tls) /\ tls.out > 0 => tls.room = 0

\* Over a socket, a handshake that has begun waits for what it asked for, and
\* one that has not begins with the first event the program enables.
HandshakeAwaited ==
    Usable_tls /\ tls.state = "connecting" /\ ~filter(tls) =>
      /\ tls.shake # "any" => tls.shake \in tls.ev
      /\ "R" \in tls.enabled /\ ~suspended_read(tls) /\ tls.shake = "any" => "R" \in tls.ev
      /\ "W" \in tls.enabled /\ ~suspended_write(tls) /\ tls.shake = "any" => "W" \in tls.ev

\* "Read all pending data.  This won't hit the network again, and will (most
\* importantly) put us in a state where we don't need to read anything else
\* until the socket is readable again."
PendingRead ==
    Usable_tls /\ tls.state = "open" /\ "R" \in tls.enabled /\ ~suspended_read(tls) /\ ~tls.rbow /\ ~tls.wbor => tls.rest = 0

\* The loops that finish a blocked operation end.
NeverSpins == ~tls.spins

\* Whatever a TLS bufferevent is blocked on, in the handshake or after it, it
\* has the event that will let it go on, and it does not spin meanwhile.
TlsAwaits == BlockedAwaited /\ FilterCaughtUp /\ HandshakeAwaited /\ NeverSpins
=============================================================================
