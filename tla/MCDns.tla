------------------------------- MODULE MCDns --------------------------------
(***************************************************************************)
(* The resolver for TLC, in parts: a lookup while sockets fill up          *)
(* (`filling'), the same with nameservers that are disabled when inactive  *)
(* (`idle'); one with a search while sockets fail (`failing'), the same    *)
(* while requests move between nameservers that the program changes        *)
(* (`moving'); and two lookups on a network that only loses packets while  *)
(* the program changes the nameservers and frees the base (`setup').  In   *)
(* every part the probes of the two nameservers are requests too, and late *)
(* replies arrive.  The other parts are evdns_getaddrinfo over the         *)
(* resolver's promise, a server port, and the names of a message.          *)
(***************************************************************************)
EXTENDS EvDns, GetAddrInfo, DnsServer, TLC

CONSTANT DnsParts
VARIABLE part

Parts == {"filling", "failing", "setup", "moving", "idle"}
Sends == [filling |-> {"sent", "again"}, failing |-> {"sent", "dead"}, setup |-> {"sent"}, moving |-> {"sent", "dead"},
          idle |-> {"sent", "again"}]
Retransmits == [filling |-> 2, failing |-> 2, setup |-> 2, moving |-> 1, idle |-> 2]
Reissues == [filling |-> 0, failing |-> 0, setup |-> 0, moving |-> 1, idle |-> 0]
Asks == [filling |-> Handles \ Searching, failing |-> Searching, setup |-> Handles, moving |-> Searching,
         idle |-> Handles \ Searching]

MCInit == /\ part \in DnsParts /\ GaiInit /\ evdns_add_server_port /\ NewMessage
          /\ IF part \in Parts THEN DnsInit(Sends[part], Retransmits[part], Reissues[part], part = "idle")
             ELSE DnsInit({}, 1, 0, FALSE)
MCNext == /\ UNCHANGED part
          /\ \/ /\ part \in Parts /\ UNCHANGED <<gai, port, message>>
                /\ DnsLoop \/ DnsLookups(Asks[part]) \/ (part \in {"setup", "moving"} /\ DnsSetup)
             \/ part = "addrinfo" /\ UNCHANGED <<dns, port, message>> /\ GaiNext
             \/ part = "server" /\ UNCHANGED <<dns, gai>> /\ PortNext
             \/ part = "names" /\ UNCHANGED <<dns, gai>> /\ AddName
MCSpec == MCInit /\ [][MCNext]_<<part, dns, gai, port, message>>

\* Labels of one and two bytes, and one that is too long.
MCLabels == {<<1>>, <<2>>, <<1, 2>>, <<1, 1, 1>>}
Sym == Permutations(Servers)
=============================================================================
