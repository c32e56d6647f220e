------------------------------- MODULE EvDns --------------------------------
(***************************************************************************)
(* The resolver of evdns.c: nameservers in a ring, requests in flight in   *)
(* buckets by transaction id, and a queue of requests that wait.  A lookup *)
(* is named by its handle, a probe of a nameserver by the nameserver; each *)
(* has at most one request at a time.  Names, packets and answers are left *)
(* out: a reply is one of the classes reply_handle tells apart.  Instead   *)
(* of its transaction id a request has the nameservers it was sent to      *)
(* under the present id (`sent'): those may answer, at any later time.     *)
(*                                                                         *)
(* The functions of the code are operators on the resolver's state d.  The *)
(* outcome of sendto (`luck') is chosen once per step, among those of the  *)
(* network at hand (`lucks': "sent", "again", "dead").                     *)
(***************************************************************************)
EXTENDS Integers, Sequences

CONSTANTS Handles,        \* lookups of the program
          Servers,        \* nameservers
          NoServer,
          MaxInflight,    \* global_max_requests_inflight
          MaxTimeouts,    \* global_max_nameserver_timeout
          Domains,        \* number of search domains
          Searching,      \* lookups made without DNS_QUERY_NO_SEARCH
          Second,         \* requests whose transaction ids fall in the second bucket
          Orderly         \* TRUE: the program keeps clear of the uses marked Orderly

VARIABLE dns

All == Handles \cup Servers
Buckets == 0..1
bucket(h) == IF h \in Second THEN 1 ELSE 0

in_flight(d) == d.heads[0] \o d.heads[1]
without(s, x) == SelectSeq(s, LAMBDA y : y # x)
Break(d, why) == [d EXCEPT !.fatal = IF @ = "none" THEN why ELSE @]

-----------------------------------------------------------------------------
(* Nameservers. *)

rotate(ring, n) == SubSeq(ring, n + 1, Len(ring)) \o SubSeq(ring, 1, n)

\* The answer is left in `picked'.
nameserver_pick(d) ==
    LET good == {i \in DOMAIN d.ring : d.ns[d.ring[i]].state}
        first == CHOOSE i \in good : \A j \in good : i <= j
        next == rotate(d.ring, 1)
    IN IF d.ring = <<>> THEN [d EXCEPT !.picked = NoServer]
       ELSE IF d.good = 0 THEN [d EXCEPT !.ring = next, !.picked = Head(next)]
       ELSE IF good = {} THEN Break(d, "good nameservers miscounted")
       ELSE [d EXCEPT !.ring = rotate(@, first), !.picked = d.ring[first]]

request_swap_ns(d, h) ==
    LET old == d.req[h].ns
    IN IF d.picked \in {NoServer, old} THEN d
       ELSE [d EXCEPT !.ns[old].inflight = @ - 1, !.ns[d.picked].inflight = @ + 1, !.req[h].ns = d.picked]

RECURSIVE move_unsent(_, _, _)
move_unsent(d, s, list) ==
    IF list = <<>> THEN d
    ELSE LET h == Head(list)
         IN move_unsent(IF d.req[h].tx_count = 0 /\ d.req[h].ns = s THEN request_swap_ns(nameserver_pick(d), h) ELSE d,
                        s, Tail(list))

nameserver_failed(d, s) ==
    IF ~d.ns[s].state THEN d
    ELSE LET d1 == [d EXCEPT !.good = @ - 1, !.ns[s].state = FALSE, !.ns[s].timer = TRUE]
         IN IF d1.good = 0 THEN d1 ELSE move_unsent(d1, s, in_flight(d1))

-----------------------------------------------------------------------------
(* Requests. *)

\* Only the callback of a probe looks at its result.
reply_schedule_callback(d, h, result) == [d EXCEPT !.hnd[h].pending = IF h \in Servers THEN result ELSE "some"]

\* The event of a nameserver is assigned and added again.
nameserver_write_waiting(d, s, waiting) ==
    IF d.ns[s].write_waiting = waiting THEN d
    ELSE [d EXCEPT !.ns[s].write_waiting = waiting, !.ns[s].listening = TRUE]

\* With evdns_request_transmit_to.
evdns_request_transmit(d, h) ==
    LET s == d.req[h].ns
        woken == s # NoServer /\ d.inactive /\ ~d.ns[s].choked /\ d.ns[s].inflight = 1
        d0 == IF woken THEN [d EXCEPT !.ns[s].listening = TRUE] ELSE d
        d1 == [d0 EXCEPT !.req[h].transmit_me = TRUE]
        d2 == IF d.luck = "dead" THEN nameserver_failed(d1, s) ELSE d1
    IN IF s = NoServer \/ d.ns[s].choked THEN d1
       ELSE IF d.luck = "again" THEN [nameserver_write_waiting(d1, s, TRUE) EXCEPT !.ns[s].choked = TRUE]
       ELSE [d2 EXCEPT !.req[h].timer = TRUE, !.req[h].tx_count = @ + 1, !.req[h].transmit_me = FALSE,
                       !.req[h].sent = IF d.luck = "sent" THEN @ \cup {s} ELSE @]

RECURSIVE transmit_list(_, _)
transmit_list(d, list) ==
    IF list = <<>> THEN d
    ELSE transmit_list(IF d.req[Head(list)].transmit_me THEN evdns_request_transmit(d, Head(list)) ELSE d, Tail(list))
evdns_transmit(d) == transmit_list(d, in_flight(d))

insert(d, h) == [d EXCEPT !.heads[bucket(h)] = Append(@, h)]

RECURSIVE evdns_requests_pump_waiting_queue(_)
evdns_requests_pump_waiting_queue(d) ==
    IF d.inflight >= MaxInflight \/ d.waiting = 0 THEN d
    ELSE LET h == Head(d.wq)
             d1 == nameserver_pick(d)
             s == d1.picked
             d2 == insert([d1 EXCEPT !.req[h].ns = s, !.ns[s].inflight = @ + 1, !.wq = Tail(@),
                                     !.waiting = @ - 1, !.inflight = @ + 1], h)
         IN IF s = NoServer THEN d1
            ELSE evdns_requests_pump_waiting_queue(evdns_transmit(evdns_request_transmit(d2, h)))

NoRequest == [ns |-> NoServer, tx_count |-> 0, reissue_count |-> 0, transmit_me |-> FALSE, timer |-> FALSE,
              sent |-> {}]

\* EVDNS_BASE_DISABLE_WHEN_INACTIVE: a nameserver without requests neither
\* listens nor is probed.
idle(d, s) == IF d.inactive /\ s # NoServer /\ d.ns[s].inflight = 0
              THEN [d EXCEPT !.ns[s].listening = FALSE, !.ns[s].timer = FALSE] ELSE d

request_finished(d, h, queued, free) ==
    LET s == d.req[h].ns
        d1 == IF queued THEN [d EXCEPT !.wq = without(@, h), !.waiting = @ - 1]
              ELSE [d EXCEPT !.heads[bucket(h)] = without(@, h), !.inflight = @ - 1, !.ns[s].inflight = @ - 1]
        d2 == [idle(d1, s) EXCEPT !.req[h] = NoRequest, !.hnd[h].cur = FALSE, !.hnd[h].left = IF free THEN 0 ELSE @]
    IN evdns_requests_pump_waiting_queue(d2)

evdns_cancel_request_(d, h) ==
    IF ~d.hnd[h].cur \/ d.hnd[h].pending # "none" THEN d
    ELSE request_finished(reply_schedule_callback(d, h, "cancel"), h, d.req[h].ns = NoServer, TRUE)

nameserver_up(d, s) ==
    IF d.ns[s].state THEN d
    ELSE LET d1 == [d EXCEPT !.ns[s].timer = FALSE]
             d2 == IF d.ns[s].probe THEN [evdns_cancel_request_(d1, s) EXCEPT !.ns[s].probe = FALSE] ELSE d1
         IN [d2 EXCEPT !.ns[s].state = TRUE, !.ns[s].timedout = 0, !.good = @ + 1]

\* request_new: a nameserver is picked now, when there is room in flight.
choose(d) == IF d.inflight < MaxInflight THEN nameserver_pick(d) ELSE [d EXCEPT !.picked = NoServer]

request_submit(d, h, s) ==
    LET d1 == [d EXCEPT !.req[h] = [NoRequest EXCEPT !.ns = s], !.hnd[h].cur = TRUE]
    IN IF s = NoServer THEN [d1 EXCEPT !.wq = Append(@, h), !.waiting = @ + 1]
       ELSE evdns_request_transmit(insert([d1 EXCEPT !.inflight = @ + 1, !.ns[s].inflight = @ + 1], h), h)

nameserver_send_probe(d, s) == request_submit([choose(d) EXCEPT !.ns[s].probe = TRUE], s, s)

request_reissue(d, h) ==
    LET d1 == request_swap_ns(nameserver_pick(d), h)
    IN IF d1.req[h].ns = d.req[h].ns THEN d1
       ELSE [d1 EXCEPT !.req[h].reissue_count = @ + 1, !.req[h].tx_count = 0, !.req[h].transmit_me = TRUE]

\* The next name of a search: its nameserver is picked before the request it
\* replaces has made room.
search_try_next(d, h) ==
    LET d1 == choose(d)
        s == d1.picked
    IN request_submit(request_finished([d1 EXCEPT !.hnd[h].left = @ - 1], h, FALSE, FALSE), h, s)

timeout_gives_up(d, h) ==
    LET s == d.req[h].ns
    IN nameserver_failed(request_finished(reply_schedule_callback(d, h, "timeout"), h, FALSE, TRUE), s)

\* Mutant: a request that is sent again keeps no timer when it cannot go out.
timeout_stops(d, h) ==
    IF d.req[h].tx_count >= d.max_retransmits THEN timeout_gives_up(d, h)
    ELSE request_swap_ns(nameserver_pick([d EXCEPT !.req[h].timer = FALSE]), h)

evdns_request_timeout_callback_(d, h) ==
    IF d.req[h].tx_count >= d.max_retransmits THEN timeout_gives_up(d, h)
    ELSE LET d1 == evdns_request_transmit(request_swap_ns(nameserver_pick([d EXCEPT !.req[h].timer = FALSE]), h), h)
             s == d1.req[h].ns
         IN IF d1.ns[s].timedout + 1 > MaxTimeouts THEN nameserver_failed([d1 EXCEPT !.ns[s].timedout = 0], s)
            ELSE [d1 EXCEPT !.ns[s].timedout = @ + 1]

\* The reply was an answer: the nameserver is up, its own probe excepted.
answered(d, h) ==
    LET s == d.req[h].ns IN nameserver_up([d EXCEPT !.ns[s].probe = @ /\ h # s], s)

\* Mutant: the program is told before the search has ended.
tell_and_search(d, h, result) ==
    IF d.hnd[h].left > 0 THEN search_try_next(reply_schedule_callback(d, h, result), h)
    ELSE request_finished(reply_schedule_callback(d, h, result), h, FALSE, TRUE)

pass_up(d, h, result) ==
    IF d.hnd[h].left > 0 THEN search_try_next(d, h)
    ELSE request_finished(reply_schedule_callback(d, h, result), h, FALSE, TRUE)

reply_handle(d, h, result) ==
    LET d1 == nameserver_failed(d, d.req[h].ns)
        d2 == request_reissue(d1, h)
    IN CASE result = "servfail" -> evdns_request_timeout_callback_(d, h)
         [] result = "refused" -> IF d.req[h].reissue_count >= d.max_reissues THEN pass_up(d, h, result)
                                  ELSE IF d2.req[h].ns # d.req[h].ns THEN d2 ELSE pass_up(d2, h, result)
         [] result \in {"nxdomain", "error"} -> pass_up(answered(d, h), h, result)
         [] OTHER -> request_finished(answered(reply_schedule_callback(d, h, result), h), h, FALSE, TRUE)

-----------------------------------------------------------------------------
(* Steps: what the event loop runs and what the program calls. *)

Usable == dns.fatal = "none" /\ ~dns.freed
Step(d) == dns' = [d EXCEPT !.luck = "sent", !.picked = NoServer]
Live(s) == \E i \in DOMAIN dns.ring : dns.ring[i] = s
Flight(h) == \E b \in Buckets : \E i \in DOMAIN dns.heads[b] : dns.heads[b][i] = h
AnyTry == {[dns EXCEPT !.luck = luck] : luck \in dns.lucks}

\* evdns_base_resolve_ipv4 and its sisters, with search_request_new.
resolve(h) == /\ Usable /\ dns.hnd[h].fate = "new"
              /\ \E d \in AnyTry :
                   LET d1 == choose([d EXCEPT !.hnd[h].fate = "asked", !.hnd[h].left = IF h \in Searching THEN Domains ELSE 0])
                   IN Step(request_submit(d1, h, d1.picked))

\* nameserver_read and reply_parse: a reply to a request that was sent to s
\* is matched by its id alone, wherever the request is by now.  "error" is
\* any other error, with the replies that cannot be parsed.
nameserver_read(h) == /\ Usable /\ Flight(h)
                      /\ \E d \in AnyTry, result \in {"ok", "nxdomain", "refused", "servfail", "error"}, s \in dns.req[h].sent :
                           /\ dns.ns[s].listening
                           /\ Step(reply_handle([d EXCEPT !.ns[s].timedout = 0], h, result))
\* A reply to a request that has ended.
nameserver_read_stray(s) == /\ Usable /\ Live(s) /\ dns.ns[s].listening /\ dns.ns[s].timedout > 0
                            /\ Step([dns EXCEPT !.ns[s].timedout = 0])

evdns_request_timeout_callback(h) == /\ Usable /\ Flight(h) /\ dns.req[h].timer
                                     /\ \E d \in AnyTry : Step(evdns_request_timeout_callback_(d, h))

\* The socket of a nameserver fails, or can be written to again.
nameserver_dies(s) == /\ Usable /\ "dead" \in dns.lucks /\ Live(s) /\ dns.ns[s].listening
                      /\ Step(nameserver_failed(dns, s))
nameserver_ready_callback(s) ==
    /\ Usable /\ dns.ns[s].write_waiting /\ dns.ns[s].listening
    /\ \E d \in AnyTry :
        LET d1 == [d EXCEPT !.ns[s].choked = FALSE]
            tried == \E i \in DOMAIN in_flight(d1) : d1.req[in_flight(d1)[i]].transmit_me
        IN Step(IF tried THEN evdns_transmit(d1) ELSE nameserver_write_waiting(d1, s, FALSE))

\* The probe timer; deferred callbacks have run by then.
nameserver_prod_callback(s) == /\ Usable /\ dns.ns[s].timer /\ dns.hnd[s].pending = "none"
                               /\ \E d \in AnyTry : Step(nameserver_send_probe([d EXCEPT !.ns[s].timer = FALSE], s))

nameserver_probe_failed(d, s) == [d EXCEPT !.ns[s].timer = ~d.ns[s].state]

nameserver_probe_callback(d, s, result) ==
    LET d1 == [d EXCEPT !.ns[s].probe = FALSE]
    IN IF result = "cancel" THEN d
       ELSE IF ~\E i \in DOMAIN d.ring : d.ring[i] = s THEN Break(d, "probe of a freed nameserver")
       ELSE IF result \in {"ok", "nxdomain"} THEN nameserver_up(d1, s) ELSE nameserver_probe_failed(d1, s)

reply_run_callback(h) ==
    /\ dns.fatal = "none" /\ dns.hnd[h].pending # "none"
    /\ \E d \in AnyTry :
        LET d1 == [d EXCEPT !.hnd[h].pending = "none", !.hnd[h].told = IF @ < 2 THEN @ + 1 ELSE @]
        IN Step(IF h \in Servers THEN nameserver_probe_callback([d1 EXCEPT !.hnd[h].told = 0], h, dns.hnd[h].pending) ELSE d1)

evdns_cancel_request(h) == /\ Usable /\ dns.hnd[h].cur
                           /\ \E d \in AnyTry : Step(evdns_cancel_request_(d, h))

\* The nameservers are freed one by one, from the head on; each cancels its
\* probe, whose request may be with one of the nameservers already freed
\* (gone), and whose end looks for a nameserver for a request that waits.
RECURSIVE free_servers(_, _, _)
free_servers(d, list, gone) ==
    IF list = <<>> THEN d
    ELSE LET s == Head(list)
             d1 == IF d.ns[s].probe THEN evdns_cancel_request_(d, s) ELSE d
             d2 == IF d.ns[s].probe /\ d.hnd[s].cur /\ d.req[s].ns \in gone THEN Break(d1, "finished on a freed nameserver")
                   ELSE IF gone # {} /\ d.wq # d1.wq THEN Break(d1, "picked a freed nameserver")
                   ELSE d1
         IN free_servers(d2, Tail(list), gone \cup {s})
Told_of_probe == \E s \in Servers : dns.hnd[s].pending \notin {"none", "cancel"}
Probe_moved == \E s \in Servers : dns.hnd[s].cur /\ dns.req[s].ns # s
NewServer(inactive) == [state |-> TRUE, timedout |-> 0, choked |-> FALSE, write_waiting |-> FALSE, probe |-> FALSE,
                        timer |-> FALSE, inflight |-> 0, listening |-> ~inactive]
\* The requests go back to the front of the queue.  Orderly: no request
\* waits, no probe is about to be told, and none was moved to another
\* nameserver.
evdns_base_clear_nameservers_and_suspend ==
    /\ Usable /\ dns.ring # <<>> /\ (Orderly => dns.wq = <<>> /\ ~Told_of_probe /\ ~Probe_moved)
    /\ \E d \in AnyTry :
        LET d1 == free_servers(d, dns.ring, {})
            moved == in_flight(d1)
            back == [i \in DOMAIN moved |-> moved[Len(moved) + 1 - i]]
        IN Step([d1 EXCEPT !.suspended = TRUE, !.ring = <<>>, !.good = 0, !.ns = [s \in Servers |-> NewServer(d.inactive)],
                           !.req = [h \in All |-> IF h \in {moved[i] : i \in DOMAIN moved} THEN NoRequest ELSE @[h]],
                           !.wq = back \o @, !.waiting = @ + Len(moved),
                           !.heads = [b \in Buckets |-> <<>>], !.inflight = 0])

\* A nameserver is linked in behind the head.
evdns_nameserver_add_impl_(s) ==
    /\ Usable /\ ~\E i \in DOMAIN dns.ring : dns.ring[i] = s
    /\ dns.hnd[s].pending = "none"
    /\ Step([dns EXCEPT !.ring = IF @ = <<>> THEN <<s>> ELSE <<Head(@), s>> \o Tail(@), !.ns[s] = NewServer(dns.inactive), !.good = @ + 1])

evdns_base_resume == /\ Usable /\ dns.suspended
                     /\ \E d \in AnyTry : Step(evdns_requests_pump_waiting_queue([d EXCEPT !.suspended = dns.ring = <<>>]))

\* evdns_base_free.  The requests of each bucket are finished in turn; each
\* makes room for one that waits.
RECURSIVE finish_bucket(_, _, _)
finish_bucket(d, b, fail) ==
    IF d.heads[b] = <<>> THEN d
    ELSE LET h == Head(d.heads[b])
             d1 == IF fail THEN reply_schedule_callback(d, h, "shutdown") ELSE [d EXCEPT !.hnd[h].fate = "dropped"]
         IN finish_bucket(request_finished(d1, h, FALSE, TRUE), b, fail)

RECURSIVE finish_buckets(_, _, _)
finish_buckets(d, b, fail) == IF b \notin Buckets THEN d ELSE finish_buckets(finish_bucket(d, b, fail), b + 1, fail)
RECURSIVE finish_waiting(_, _)
finish_waiting(d, fail) ==
    IF d.wq = <<>> THEN d
    ELSE LET h == Head(d.wq)
             d1 == IF fail THEN reply_schedule_callback(d, h, "shutdown") ELSE [d EXCEPT !.hnd[h].fate = "dropped"]
         IN finish_waiting(request_finished(d1, h, TRUE, TRUE), fail)

\* Orderly: no request waits, and no probe is told of the end.
evdns_base_free(fail) ==
    /\ Usable
    /\ Orderly => /\ dns.wq = <<>> /\ ~Told_of_probe
                  /\ fail => \A s \in Servers : ~dns.hnd[s].cur
    /\ \E d \in AnyTry :
        Step([finish_waiting(finish_buckets(d, 0, fail), fail) EXCEPT !.freed = TRUE, !.ring = <<>>, !.good = 0])

\* What evdns_base_new and evdns_base_set_option leave: the limits on sending
\* a request again, the option, and the network at hand.
DnsInit(lucks, retransmits, reissues, inactive) ==
    \E ring \in {r \in [1..2 -> Servers] : r[1] # r[2]} :
        dns = [ring |-> ring, good |-> 2, lucks |-> lucks, max_retransmits |-> retransmits, max_reissues |-> reissues, inactive |-> inactive,
               ns |-> [s \in Servers |-> NewServer(inactive)], wq |-> <<>>, waiting |-> 0,
               heads |-> [b \in Buckets |-> <<>>], inflight |-> 0, req |-> [h \in All |-> NoRequest],
               hnd |-> [h \in All |-> [cur |-> FALSE, pending |-> "none", left |-> 0, fate |-> "new", told |-> 0]],
               picked |-> NoServer, luck |-> "sent", suspended |-> FALSE, freed |-> FALSE, fatal |-> "none"]

DnsLoop == \/ \E h \in All : nameserver_read(h) \/ evdns_request_timeout_callback(h) \/ reply_run_callback(h)
           \/ \E s \in Servers : nameserver_read_stray(s) \/ nameserver_dies(s) \/ nameserver_ready_callback(s) \/ nameserver_prod_callback(s)
DnsLookups(asked) == \E h \in asked : resolve(h) \/ evdns_cancel_request(h)
DnsSetup   == \/ evdns_base_clear_nameservers_and_suspend \/ \E s \in Servers : evdns_nameserver_add_impl_(s)
              \/ evdns_base_resume \/ \E fail \in BOOLEAN : evdns_base_free(fail)
DnsNext == DnsLoop \/ DnsLookups(Handles) \/ DnsSetup

-----------------------------------------------------------------------------
(* Properties. *)

\* The counters the code decides by are exact: requests in flight, in all and
\* per nameserver, requests that wait, and good nameservers; so
\* nameserver_pick never fails its assertion.
DnsCounts ==
    ~dns.freed =>
      /\ dns.fatal # "good nameservers miscounted"
      /\ dns.inflight = Len(in_flight(dns)) /\ dns.waiting = Len(dns.wq)
      /\ \A s \in Servers : dns.ns[s].inflight = Len(SelectSeq(in_flight(dns), LAMBDA h : dns.req[h].ns = s))
      /\ dns.good = Len(SelectSeq(dns.ring, LAMBDA s : dns.ns[s].state))

\* A request in flight is never left alone: its timer runs, or it waits to go
\* out and some nameserver waits to become writable (without
\* EVDNS_BASE_DISABLE_WHEN_INACTIVE, which stops that wait).
RequestsDriven ==
    ~dns.freed /\ ~dns.inactive => \A h \in All : Flight(h) =>
                     dns.req[h].timer \/ (dns.req[h].transmit_me /\ \E s \in Servers : dns.ns[s].write_waiting)

\* Requests wait only while others are in flight, whose end lets them go, or
\* until the program calls evdns_base_resume.
WaitingServed == ~dns.freed /\ ~dns.suspended /\ dns.wq # <<>> => dns.inflight > 0

\* A nameserver that failed is tried again: its probe timer runs, or a probe
\* is out or about to be told (without EVDNS_BASE_DISABLE_WHEN_INACTIVE,
\* which stops the timer).
DownProbed ==
    \A s \in Servers : ~dns.freed /\ ~dns.inactive /\ Live(s) /\ ~dns.ns[s].state =>
        dns.ns[s].timer \/ (dns.ns[s].probe /\ (dns.hnd[s].cur \/ dns.hnd[s].pending # "none"))

\* No more than one probe of a nameserver, and none of a good one.
OneProbe ==
    \A s \in Servers : ~dns.freed /\ Live(s) =>
        /\ dns.hnd[s].cur => ~dns.ns[s].timer /\ ~dns.ns[s].state
        /\ dns.ns[s].state => ~dns.ns[s].timer

\* The callback of a probe finds its nameserver, and no request is given to,
\* or ends on, a nameserver that was freed.
ProbesLand == dns.fatal \notin {"probe of a freed nameserver", "picked a freed nameserver", "finished on a freed nameserver"}

\* After evdns_base_free no request is left whose timer could run.
ShutdownEndsAll == dns.freed => \A h \in All : ~dns.hnd[h].cur

Told == [h \in Handles |-> IF dns.hnd[h].told > 1 THEN "twice" ELSE IF dns.hnd[h].told = 1 THEN "told" ELSE dns.hnd[h].fate]

Promised == INSTANCE Lookups WITH Handles <- Handles, told <- Told

\* No lookup is told its result twice, nor once the base has dropped it,
\* whatever replies, time-outs, retries on other nameservers, searches and
\* cancels it goes through.  That one in flight ends is up to ResolverSound.
LookupsToldOnce == Promised!Spec

\* Nothing the resolver has taken on is forgotten: its counts are exact,
\* requests are driven or served in turn, nameservers that are down are
\* probed, one probe at a time, and freeing the base leaves nothing behind.
ResolverSound == /\ DnsCounts /\ RequestsDriven /\ WaitingServed
                 /\ DownProbed /\ OneProbe /\ ProbesLand /\ ShutdownEndsAll
=============================================================================
