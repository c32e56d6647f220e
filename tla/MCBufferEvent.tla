--------------------------- MODULE MCBufferEvent ----------------------------
(***************************************************************************)
(* Small instances of BufferEvent, one per part: a socket with a connect,  *)
(* deferred callbacks and timeouts; two sockets under rate limits; a pair; *)
(* a filter over a socket.                                                 *)
(***************************************************************************)
EXTENDS BufferEvent

CONSTANTS sk, sd, pa, pb, un, fi, Parts

VARIABLE part

mcVars == <<part, bev, grp, finals, calling>>

MCBevs == {sk, sd, pa, pb, un, fi}
MCKinds == [b \in MCBevs |-> CASE b \in {sk, sd, un} -> "socket" [] b \in {pa, pb} -> "pair" [] OTHER -> "filter"]
MCOthers == [b \in MCBevs |-> CASE b = pa -> pb [] b = pb -> pa [] b = fi -> un [] OTHER -> b]

MCInit == /\ part \in Parts
          /\ CASE part = "connect" -> \E b \in {sk, sd} : BevInit({b}, "none", "program", b)
               [] part = "socket" -> \E b \in {sk, sd} : BevInit({b}, "up", "program", b)
               [] part = "bucket" -> BevInit({sk}, "up", "program", sk)
               [] part = "group" -> BevInit({sk, un}, "up", "none", sk)
               [] part = "pair" -> BevInit({pa, pb}, "none", "program", pa)
               [] part = "filter" -> BevInit({un, fi}, "up", "program", un)

\* The directions that the program enables and disables.
Dirs(b) == CASE part = "connect" -> {{W}} [] part = "socket" -> Directions [] OTHER -> {{R}}
Switches(b) == CASE b = pa -> {W} [] b = pb -> {R}

Program(b) ==
    \/ part \in {"connect", "socket", "bucket", "filter"} /\ b # un /\ Using(b, {1}, Dirs(b))
    \/ (part \in {"socket", "bucket"} \/ b \in {pb, fi}) /\ Marking(b)
    \/ (part = "connect" \/ (part = "socket" /\ b = sk)) /\ Timing(b)
    \/ part = "socket" /\ b = sd /\ Holding(b)
    \/ part = "connect" /\ Connecting(b)
    \/ part = "bucket" /\ Limiting(b)
    \/ part = "group" /\ (Grouping(b) \/ bufferevent_read(b, 1) \/ bufferevent_enable(b, {R}))
    \/ part = "pair" /\ b \in {pa, pb} /\ (bufferevent_enable(b, Switches(b)) \/ bufferevent_disable(b, Switches(b)))
    \/ b = pa /\ bufferevent_write(b, 1)
    \/ b = pb /\ (bufferevent_read(b, 1) \/ bufferevent_set_timeouts(b, TRUE, FALSE))
    \/ b \in {pa, pb} /\ bufferevent_free(b)
    \/ b \in {pa, fi} /\ Flushing(b)
    \/ part = "filter" /\ b = un /\ set_write_high(b, 1)

MCNext == UNCHANGED part /\ (Loop \/ (part = "group" /\ GroupSpending) \/ \E b \in MCBevs : Program(b))

MCSpec == MCInit /\ [][MCNext]_mcVars
=============================================================================
