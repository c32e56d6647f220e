------------------------------- MODULE MCHttp -------------------------------
(***************************************************************************)
(* HTTP and what goes with it, each in behaviours of its own: the          *)
(* connection listener, an outgoing and an incoming HTTP connection, the   *)
(* TLS bufferevent a connection may run over, RPC over HTTP and the tagged *)
(* records it carries, and the message classes of the servers' framework.  *)
(* `part' says which one a behaviour runs.                                 *)
(***************************************************************************)
EXTENDS Listener, HttpClient, HttpServer

CONSTANTS Parts, TlsKinds, MaxQueued, BigRecords, Steady, Calls, Pool, Asks, Polite,
          Tags, Kind, Numbers, Longs, Payloads, MaxSent, Patient, MaxCalls

VARIABLES part, tls, pool, rpcs, tagged, class, types, default, msg, calls

Tls == INSTANCE OpenSsl WITH Kinds <- TlsKinds
Rpcs == INSTANCE Rpc WITH Conns <- Pool
Tagged == INSTANCE Tagging
Messages == INSTANCE Protobuf

connVars == <<levVars, httpVars, srvVars>>
messageVars == <<class, types, default, msg, calls>>
otherVars == <<tls, pool, rpcs, tagged, messageVars>>
mcVars == <<part, connVars, otherVars>>

MCInit == /\ part \in Parts
          /\ evconnlistener_new /\ evhttp_connection_base_bufferevent_new /\ SrvInit
          /\ Rpcs!RpcInit /\ Tagged!TagInit /\ Tls!TlsInit
          /\ part # "tls" => tls.kind = "socket" /\ tls.state = "open" /\ tls.high = 0
          /\ part # "pool" => pool.timeout
          /\ IF part = "messages" THEN Messages!PbInit
             ELSE class = "none" /\ types = <<>> /\ default = <<>> /\ msg = <<>> /\ calls = 0

MCNext == /\ UNCHANGED part
          /\ \/ part = "listener" /\ LevNext /\ UNCHANGED <<httpVars, srvVars, otherVars>>
             \/ part = "client" /\ HttpNext /\ UNCHANGED <<levVars, srvVars, otherVars>>
             \/ part = "server" /\ SrvNext /\ UNCHANGED <<levVars, httpVars, otherVars>>
             \/ part = "tls" /\ Tls!TlsNext /\ UNCHANGED <<connVars, pool, rpcs, tagged, messageVars>>
             \/ part = "pool" /\ Rpcs!PoolNext /\ UNCHANGED <<connVars, tls, tagged, messageVars>>
             \/ part = "rpcs" /\ Rpcs!RpcServerNext /\ UNCHANGED <<connVars, tls, tagged, messageVars>>
             \/ part = "tagged" /\ Tagged!TagNext /\ UNCHANGED <<connVars, tls, pool, rpcs, messageVars>>
             \/ part = "messages" /\ Messages!PbNext /\ UNCHANGED <<connVars, tls, pool, rpcs, tagged>>

MCSpec == MCInit /\ [][MCNext]_mcVars

\* Tags of one, two and five groups; integers of no, two, eight and sixteen
\* nibbles; payloads whose length takes one nibble and two.
MCKind == [t \in Tags |-> CASE t = <<0>> -> "int" [] t = <<1>> -> "unknown" [] t = <<3>> -> "int64"
                            [] t = <<4>> -> "fixed" [] t = <<5>> -> "string"
                            [] t = <<102, 2>> -> "data" [] OTHER -> "timeval"]
MCTags == {<<0>>, <<1>>, <<3>>, <<4>>, <<5>>, <<102, 2>>, <<127, 127, 127, 127, 15>>}
MCNumbers == {<<>>, <<0, 1>>, [i \in 1..8 |-> 15]}
MCLongs == {<<0, 1>>, [i \in 1..16 |-> 15]}
MCPayloads == {<<>>, <<128>>, [i \in 1..16 |-> 7]}

\* Properties stated in OpenSsl, Rpc, Tagging and Protobuf.
\* Whatever blocks a TLS bufferevent is waited for.
TlsAwaits == Tls!TlsAwaits
\* No part of a record stays in the TLS engine while only the socket is
\* waited for.
PendingRead == Tls!PendingRead
\* Remote calls are timed, served and answered once.
RpcsServed == Rpcs!RpcsServed
\* A patient reader receives the records that were sent, as announced.
RecordsRead == Tagged!RecordsRead
\* A member of a message without its bit in _has_bits_ shows its default.
FieldsKept == part = "messages" => Messages!FieldsKept
\* A message is as it was when it was written and read, copied or merged.
MessagesKept == part = "messages" => Messages!MessagesKept
\* Tags are written with their highest group first, as the wire format says.
TagsBigEndian == Tagged!TagsBigEndian
=============================================================================
