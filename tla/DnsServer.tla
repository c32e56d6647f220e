----------------------------- MODULE DnsServer ------------------------------
(***************************************************************************)
(* The DNS server port of evdns.c: queries are read and given to the       *)
(* program, which answers or drops each one; answers the socket refuses    *)
(* wait in pending_replies for the port's event.  The second half is the   *)
(* encoding of names in a message, with compression, and their parsing.    *)
(***************************************************************************)
EXTENDS Integers, Sequences, FiniteSets, SequencesExt

CONSTANTS Queries,   \* the requests that reach the port
          Labels,    \* labels, as sequences of characters
          MaxNames,  \* names in a message
          MaxLabels, \* MAX_LABELS
          BufLen,    \* buf_len, the bytes of a message
          MaxLabel,  \* 63, the characters of a label
          MaxName,   \* 255, the characters of a name
          Closable   \* TRUE: the program keeps clear of the uses marked Closable

VARIABLES port, message

-----------------------------------------------------------------------------
(* The port.  fatal: the port is used after it was freed.  reading: the     *)
(* program's callback runs inside server_port_read, which goes on with the  *)
(* port when it returns.                                                   *)

live == ~port.freed /\ ~port.fatal
Is(q, st) == port.req[q] = st

server_port_free(p) == [p EXCEPT !.freed = TRUE, !.ev = {}, !.fatal = p.reading]

server_request_free(p, q) ==
    LET p1 == [p EXCEPT !.refcnt = @ - 1, !.req[q] = "freed", !.pending = SelectSeq(@, LAMBDA r : r # q)]
    IN IF p1.refcnt = 0 THEN server_port_free(p1) ELSE p1

\* server_port_flush, where the socket takes the first n answers (or refuses
\* them for good, which drops them).
RECURSIVE server_port_flush(_, _)
server_port_flush(p, n) ==
    IF p.pending = <<>> THEN [p EXCEPT !.ev = {"R"}]
    ELSE IF n = 0 THEN p
    ELSE LET p1 == server_request_free(p, Head(p.pending))
         IN IF p1.freed THEN p1 ELSE server_port_flush(p1, n - 1)

\* Mutant: the request takes no reference to the port.
parsed_unheld(p, q) == [p EXCEPT !.req[q] = "held", !.reading = TRUE]

\* request_parse hands a query to the program.
request_parse(p, q) == [p EXCEPT !.req[q] = "held", !.refcnt = @ + 1, !.reading = TRUE]

\* The callback goes on to read, and to unlock the port, even if flushing
\* released it.
server_port_ready_callback ==
    /\ live /\ ~port.reading /\ "W" \in port.ev
    /\ \E n \in 0..Len(port.pending) :
         LET p == server_port_flush(port, n) IN port' = [p EXCEPT !.fatal = p.freed]
    /\ UNCHANGED message
\* The first query, or the next one in the loop.
server_port_read ==
    /\ live /\ (port.reading \/ "R" \in port.ev)
    /\ \E q \in Queries : Is(q, "new") /\ port' = request_parse(port, q)
    /\ UNCHANGED message
server_port_read_ends == live /\ port.reading /\ port' = [port EXCEPT !.reading = FALSE] /\ UNCHANGED message

\* An answer the socket refuses for good waits, the first one for the port to
\* become writable.
queued(p, q) ==
    IF p.pending # <<>> THEN [p EXCEPT !.req[q] = "queued", !.pending = Append(@, q)]
    ELSE [p EXCEPT !.req[q] = "queued", !.pending = <<q>>, !.ev = (IF p.closing THEN {} ELSE {"R"}) \cup {"W"}]

\* A retriable error leaves the request with the program, to respond again,
\* and so does an answer that cannot be formatted.  Closable: a port that is
\* closed is not answered from any more; the end of the last answer frees it
\* and the function, or the one that flushes the queue, then unlocks it.
evdns_server_request_respond(q) ==
    /\ live /\ Is(q, "held") /\ (Closable => ~port.closing)
    /\ \/ port' = port
       \/ port' = queued(port, q)
       \/ LET p == server_request_free(port, q)
          IN IF p.freed THEN port' = [p EXCEPT !.fatal = TRUE]
             ELSE IF p.pending = <<>> THEN port' = p
             ELSE \E n \in 0..Len(p.pending) :
                    LET p1 == server_port_flush(p, n) IN port' = [p1 EXCEPT !.fatal = p1.freed]
    /\ UNCHANGED message
\* Closable: not the last use of a closed port, while server_port_read has it.
evdns_server_request_drop(q) ==
    /\ live /\ Is(q, "held") /\ (Closable => ~(port.reading /\ port.refcnt = 1))
    /\ port' = server_request_free(port, q)
    /\ UNCHANGED message

\* The lock is not released when there are requests: only one thread can go
\* on using the port.  Closable: no answer waits to be sent, and the port is
\* not closed without a request while server_port_read has it.
evdns_close_server_port ==
    /\ live /\ ~port.closing
    /\ Closable => port.pending = <<>> /\ ~(port.reading /\ port.refcnt = 1)
    /\ LET p == [port EXCEPT !.refcnt = @ - 1]
       IN port' = IF p.refcnt = 0 THEN server_port_free(p) ELSE [p EXCEPT !.closing = TRUE]
    /\ UNCHANGED message

evdns_add_server_port ==
    port = [refcnt |-> 1, closing |-> FALSE, freed |-> FALSE, fatal |-> FALSE, reading |-> FALSE,
            pending |-> <<>>, ev |-> {"R"},
            req |-> [q \in Queries |-> "new"]]

PortNext == \/ server_port_ready_callback \/ server_port_read \/ server_port_read_ends \/ evdns_close_server_port
            \/ \E q \in Queries : evdns_server_request_respond(q) \/ evdns_server_request_drop(q)

-----------------------------------------------------------------------------
(* Names in a message.  A name is the sequence of its labels; the string    *)
(* may end in a dot, which is an empty last label.  message.buf holds the   *)
(* bytes; positions count from 0.                                          *)

suffix(name, i) == SubSeq(name, i, Len(name))
get_pos(table, name) == {table[i].pos : i \in {i \in DOMAIN table : table[i].v = name}}
\* Mutant: the position of the first character is remembered, not of the length.
table_add_past(table, name, pos) ==
    IF Len(table) = MaxLabels THEN table ELSE Append(table, [v |-> name, pos |-> pos + 1])
dnslabel_table_add(table, name, pos) ==
    IF Len(table) = MaxLabels THEN table ELSE Append(table, [v |-> name, pos |-> pos])

strlen(name) == FoldLeft(LAMBDA n, label : n + Len(label), 0, name) + Len(name) - 1

\* dnsname_to_labels from the i-th label on: m with the name appended, or
\* m.failed.  The zero at the end is put without a look at the room.
RECURSIVE put_labels(_, _, _)
put_labels(m, name, i) ==
    LET ref == get_pos(m.table, suffix(name, i))
        pos == CHOOSE p \in ref : TRUE
        label == [m EXCEPT !.table = dnslabel_table_add(@, suffix(name, i), Len(m.buf)),
                           !.buf = @ \o <<Len(name[i])>> \o name[i]]
    IN IF ref # {} /\ Len(m.buf) + 2 > BufLen THEN [m EXCEPT !.failed = TRUE]
       ELSE IF ref # {} THEN [m EXCEPT !.buf = @ \o <<192 + pos \div 256, pos % 256>>]
       ELSE IF Len(name[i]) > MaxLabel \/ Len(label.buf) > BufLen THEN [m EXCEPT !.failed = TRUE]
       ELSE IF i < Len(name) THEN put_labels(label, name, i + 1)
       ELSE IF label.buf[Len(label.buf)] # 0 THEN [label EXCEPT !.buf = Append(@, 0)] ELSE label
dnsname_to_labels(m, name) == IF strlen(name) > MaxName THEN [m EXCEPT !.failed = TRUE] ELSE put_labels(m, name, 1)

\* name_parse from position j: the labels, and the position after the name.
RECURSIVE name_parse(_, _, _, _, _)
name_parse(packet, j, labels, name_end, ptr_count) ==
    LET length == Len(packet)
        label_len == packet[j + 1]
        end == IF name_end < length + 1 THEN name_end ELSE j + 2
        to == (label_len % 64) * 256 + packet[j + 2]
    IN IF j >= length THEN [ok |-> FALSE]
       ELSE IF label_len = 0 THEN [ok |-> TRUE, name |-> labels, idx |-> IF name_end < length + 1 THEN name_end ELSE j + 1]
       ELSE IF label_len >= 64
            THEN IF j + 1 >= length \/ to >= length \/ ptr_count + 1 > length THEN [ok |-> FALSE]
                 ELSE name_parse(packet, to, labels, end, ptr_count + 1)
       ELSE IF strlen(labels) + 1 + label_len > MaxName \/ j + 1 + label_len > length THEN [ok |-> FALSE]
       ELSE name_parse(packet, j + 1 + label_len, Append(labels, SubSeq(packet, j + 2, j + 1 + label_len)), name_end, ptr_count)
parsed(packet, j) == name_parse(packet, j, <<>>, Len(packet) + 1, 0)

Names == {<<>>} \cup UNION {[1..n -> Labels] : n \in 1..2}
\* A name as the string the program passes: "" and "a.b" and "a.b.".
Strings == {IF name = <<>> THEN <<<<>>>> ELSE name : name \in Names} \cup {Append(name, <<>>) : name \in Names \ {<<>>}}
plain(name) == SelectSeq(name, LAMBDA l : l # <<>>)

AddName ==
    /\ Len(message.names) < MaxNames /\ ~message.failed
    /\ \E name \in Strings :
         LET m == dnsname_to_labels(message, name)
         IN message' = IF m.failed THEN [message EXCEPT !.failed = TRUE]
                       ELSE [m EXCEPT !.names = Append(@, name), !.at = Append(@, Len(message.buf))]
    /\ UNCHANGED port

\* The header, and no name yet.  A name that cannot be put ends the message.
NewMessage == message = [buf |-> [i \in 1..12 |-> 0], table |-> <<>>, names |-> <<>>, at |-> <<>>, failed |-> FALSE]

-----------------------------------------------------------------------------
(* Properties. *)

\* The port holds one reference for itself until it is closed and one for each
\* request the program has or that waits to be sent; it is freed with the
\* last of them, not before, and not used afterwards.
PortCounted == /\ ~port.fatal
               /\ port.freed <=> port.refcnt = 0
               /\ port.refcnt = (IF port.closing \/ port.freed THEN 0 ELSE 1)
                                 + Cardinality({q \in Queries : Is(q, "held") \/ Is(q, "queued")})
\* The queue holds the answers the socket refused for good, each once; while
\* there is one the port waits to write, and otherwise to read.
RepliesFlushed == ~port.freed => /\ Range(port.pending) = {q \in Queries : Is(q, "queued")}
                                 /\ IsInjective(port.pending)
                                 /\ port.pending # <<>> => "W" \in port.ev
                                 /\ port.pending = <<>> => port.ev = {"R"}
\* Every name put into a message is read back from it, where it was put and up
\* to where the next one begins, whatever was shared with earlier names, up
\* to the limits on labels, names and the message; of these the message is
\* exceeded by no more than the zero that ends its last name.
NamesReadBack ==
    /\ Len(message.buf) <= BufLen + 1
    /\ \A i \in DOMAIN message.names :
        LET r == parsed(message.buf, message.at[i])
        IN IF r.ok THEN /\ r.name = plain(message.names[i])
                        /\ r.idx = IF i = Len(message.names) THEN Len(message.buf) ELSE message.at[i + 1]
           ELSE FALSE

\* A server port lives exactly as long as it or one of its requests is in use,
\* also when it is closed before they end, and the answers it keeps go out.
PortServes == PortCounted /\ RepliesFlushed
=============================================================================
