------------------------------ MODULE Tagging -------------------------------
(***************************************************************************)
(* The tagged records of event_tagging.c, written by one side and read by  *)
(* the other as the bytes arrive.  A number is the sequence of its digits, *)
(* lowest first, without zeros at the end: groups of seven bits for a tag  *)
(* (32 bits are five groups, the last of at most four bits), nibbles for   *)
(* an integer (eight of them).                                             *)
(***************************************************************************)
EXTENDS Naturals, Sequences, SequencesExt, FiniteSetsExt

CONSTANTS Tags,     \* tags, as groups; the kind of record goes with the tag
          Kind,     \* a tag's kind: "data", "fixed", "string", "int", "int64",
                    \* "timeval", or "unknown" to the reader
          Numbers,  \* integers of 32 bits, as nibbles
          Longs,    \* integers of 64 bits
          Payloads, \* sequences of bytes
          MaxSent,  \* records the writer sends
          Patient   \* TRUE: the reader waits until evtag_peek_length is there

VARIABLE tagged

Failed == [ok |-> FALSE]
drain(buf, n) == SubSeq(buf, n + 1, Len(buf))
trimmed(digits) == SubSeq(digits, 1, Max({0} \cup {i \in DOMAIN digits : digits[i] # 0}))
\* Lengths, which are below 256, as nibbles and back.
nibbles_of(n) == trimmed(<<n % 16, n \div 16>>)
length_of(nibbles) == FoldRight(LAMBDA d, n : d + 16 * n, nibbles, 0)

-----------------------------------------------------------------------------
(* Encoding. *)

\* ENCODE_INT_INTERNAL: the count less one (none for zero) and the nibbles,
\* two to a byte, with a zero to fill the last.
encode_int_internal(number) ==
    LET count == IF Len(number) > 1 THEN Len(number) - 1 ELSE 0
        all == <<count>> \o number \o <<0>>
    IN [i \in 1..(Len(number) + 2) \div 2 |-> 16 * all[2 * i - 1] + all[2 * i]]

evtag_encode_tag(tag) == [i \in DOMAIN tag |-> tag[i] + IF i < Len(tag) THEN 128 ELSE 0]
evtag_encode_int(number) == encode_int_internal(number)

evtag_marshal(tag, data) == evtag_encode_tag(tag) \o evtag_encode_int(nibbles_of(Len(data))) \o data
evtag_marshal_int(tag, number) ==
    LET data == encode_int_internal(number)
    IN evtag_encode_tag(tag) \o evtag_encode_int(nibbles_of(Len(data))) \o data
evtag_marshal_timeval(tag, tv) == evtag_marshal(tag, encode_int_internal(tv[1]) \o encode_int_internal(tv[2]))

-----------------------------------------------------------------------------
(* Decoding: a failure, or what was read and how many bytes it took. *)

decode_tag_internal(buf) ==
    LET ends == {i \in DOMAIN buf : buf[i] < 128 /\ \A j \in 1..i - 1 : buf[j] >= 128}
        n == Min(ends)
    IN IF ends = {} \/ n > 5 \/ (n = 5 /\ buf[5] % 128 > 15) THEN Failed
       ELSE [ok |-> TRUE, value |-> [i \in 1..n |-> buf[i] % 128], len |-> n]

decode_int_internal(buf, offset, maxnibbles) ==
    LET len == Len(buf) - offset
        nibbles == buf[offset + 1] \div 16 + 1
        size == nibbles \div 2 + 1
        nibble(k) == LET byte == buf[offset + k \div 2 + 1] IN IF k % 2 = 1 THEN byte % 16 ELSE byte \div 16
    IN IF len <= 0 THEN Failed
       ELSE IF nibbles > maxnibbles \/ size > len THEN Failed
       ELSE [ok |-> TRUE, value |-> trimmed([k \in 1..nibbles |-> nibble(k)]), len |-> size]

evtag_peek(buf) == decode_tag_internal(buf)
length_after(buf, tag) == IF tag.ok THEN decode_int_internal(buf, tag.len, 8) ELSE Failed
whole_length(tag, length) ==
    IF length.ok THEN [ok |-> TRUE, value |-> length_of(length.value) + length.len + tag.len] ELSE Failed
payload_length(length) == IF length.ok THEN [ok |-> TRUE, value |-> length_of(length.value)] ELSE Failed
evtag_peek_length(buf) ==
    LET tag == decode_tag_internal(buf) IN whole_length(tag, length_after(buf, tag))
evtag_payload_length(buf) == payload_length(length_after(buf, decode_tag_internal(buf)))

(* The functions below also drain the buffer: `rest' is what is left. *)

fails(rest) == [ok |-> FALSE, rest |-> rest]
drained(buf, r) == IF r.ok THEN [ok |-> TRUE, value |-> r.value, rest |-> drain(buf, r.len)] ELSE fails(buf)
evtag_decode_int(buf) == drained(buf, decode_int_internal(buf, 0, 8))

\* The header, given its tag and then its length.
header(tag, length, len) ==
    IF ~length.ok \/ Len(length.rest) < len THEN fails(length.rest)
    ELSE [ok |-> TRUE, tag |-> tag, len |-> len, rest |-> length.rest]
header_length(tag, length) == header(tag, length, IF length.ok THEN length_of(length.value) ELSE 0)
after_tag(buf, tag) == IF tag.ok THEN header_length(tag.value, evtag_decode_int(drain(buf, tag.len))) ELSE fails(buf)
evtag_unmarshal_header(buf) == after_tag(buf, decode_tag_internal(buf))

skip(h) == IF h.ok THEN [ok |-> TRUE, rest |-> drain(h.rest, h.len)] ELSE h
evtag_consume(buf) == skip(evtag_unmarshal_header(buf))

payload(h) == IF h.ok THEN [ok |-> TRUE, tag |-> h.tag, value |-> SubSeq(h.rest, 1, h.len), rest |-> drain(h.rest, h.len)]
              ELSE h
evtag_unmarshal(buf) == payload(evtag_unmarshal_header(buf))

\* evtag_unmarshal_fixed and evtag_unmarshal_string: when the record is not the
\* one expected, its header is gone and its payload stays.
expected(h, right) == IF ~h.ok THEN h ELSE IF right THEN payload(h) ELSE fails(h.rest)
fixed(h, need_tag, len) == expected(h, IF h.ok THEN h.tag = need_tag /\ h.len = len ELSE FALSE)
evtag_unmarshal_fixed(buf, need_tag, len) == fixed(evtag_unmarshal_header(buf), need_tag, len)
string(h, need_tag) == expected(h, IF h.ok THEN h.tag = need_tag ELSE FALSE)
evtag_unmarshal_string(buf, need_tag) == string(evtag_unmarshal_header(buf), need_tag)

\* evtag_unmarshal_int and evtag_unmarshal_int64, which check the tag before
\* they read the length.
numbered(h, number) ==
    IF ~number.ok THEN fails(drain(h.rest, h.len))
    ELSE IF number.len > h.len THEN fails(drain(h.rest, h.len))
    ELSE [ok |-> TRUE, tag |-> h.tag, value |-> number.value, rest |-> drain(h.rest, h.len)]
integer(h, maxnibbles) == IF h.ok THEN numbered(h, decode_int_internal(h.rest, 0, maxnibbles)) ELSE h
tag_checked(buf, tag, need_tag) ==
    IF tag.ok /\ tag.value # need_tag THEN fails(drain(buf, tag.len)) ELSE after_tag(buf, tag)
evtag_unmarshal_int(buf, need_tag, maxnibbles) ==
    integer(tag_checked(buf, decode_tag_internal(buf), need_tag), maxnibbles)

\* Mutant: the microseconds are read where the seconds are.
timed_from_start(h, sec) ==
    IF ~h.ok THEN h
    ELSE [ok |-> TRUE, tag |-> h.tag, value |-> <<sec.value, sec.value>>, rest |-> drain(h.rest, h.len)]
\* Mutant: the same, with the header read.
timeval_from_start(h, need_tag) == timed_from_start(h, decode_int_internal(h.rest, 0, 8))

timed(h, sec, usec) ==
    IF ~usec.ok THEN fails(drain(h.rest, h.len))
    ELSE IF sec.len + usec.len > h.len THEN fails(drain(h.rest, h.len))
    ELSE [ok |-> TRUE, tag |-> h.tag, value |-> <<sec.value, usec.value>>, rest |-> drain(h.rest, h.len)]
seconds_read(h, sec) ==
    IF ~sec.ok THEN fails(drain(h.rest, h.len)) ELSE timed(h, sec, decode_int_internal(h.rest, sec.len, 8))
timeval_of(h, need_tag) ==
    IF ~h.ok THEN h
    ELSE IF h.tag # need_tag THEN fails(drain(h.rest, h.len))
    ELSE seconds_read(h, decode_int_internal(h.rest, 0, 8))
evtag_unmarshal_timeval(buf, need_tag) == timeval_of(evtag_unmarshal_header(buf), need_tag)

-----------------------------------------------------------------------------
(* A writer, and a reader that skips the records it does not know.         *)

\* What both sides know to be the length of a fixed record.
FixedLen == Max({Len(p) : p \in Payloads})
Values(tag) == CASE Kind[tag] = "int" -> Numbers
                 [] Kind[tag] = "fixed" -> {p \in Payloads : Len(p) = FixedLen}
                 [] Kind[tag] = "int64" -> Longs
                 [] Kind[tag] = "timeval" -> Numbers \X Numbers
                 [] OTHER -> Payloads
marshalled(r) == CASE Kind[r.tag] \in {"int", "int64"} -> evtag_marshal_int(r.tag, r.value)
                   [] Kind[r.tag] = "timeval" -> evtag_marshal_timeval(r.tag, r.value)
                   [] OTHER -> evtag_marshal(r.tag, r.value)
unmarshalled(buf, tag) == CASE Kind[tag] = "int" -> evtag_unmarshal_int(buf, tag, 8)
                            [] Kind[tag] = "int64" -> evtag_unmarshal_int(buf, tag, 16)
                            [] Kind[tag] = "timeval" -> evtag_unmarshal_timeval(buf, tag)
                            [] Kind[tag] = "fixed" -> evtag_unmarshal_fixed(buf, tag, FixedLen)
                            [] Kind[tag] = "string" -> evtag_unmarshal_string(buf, tag)
                            [] OTHER -> evtag_unmarshal(buf)

Send == /\ Len(tagged.sent) < MaxSent
        /\ \E tag \in Tags : \E v \in Values(tag) :
             LET r == [tag |-> tag, value |-> v]
             IN tagged' = [tagged EXCEPT !.sent = Append(@, r), !.wire = @ \o marshalled(r)]
Deliver == \E n \in {1, Len(tagged.wire)} :
             /\ tagged.wire # <<>>
             /\ tagged' = [tagged EXCEPT !.buf = @ \o SubSeq(tagged.wire, 1, n), !.wire = drain(@, n)]
fits(l, buf) == IF l.ok THEN l.value <= Len(buf) ELSE FALSE
ready(buf) == fits(evtag_peek_length(buf), buf)
take(t, r) == IF r.ok THEN [t EXCEPT !.got = Append(@, [tag |-> r.tag, value |-> r.value]), !.buf = r.rest, !.read = @ + 1]
              ELSE [t EXCEPT !.buf = r.rest, !.looked = r.rest]
read(t, tag) ==
    IF Kind[tag] = "unknown" THEN [t EXCEPT !.buf = evtag_consume(t.buf).rest, !.read = @ + 1]
    ELSE take(t, unmarshalled(t.buf, tag))
Receive == /\ tagged.buf # <<>> /\ tagged.looked # tagged.buf
           /\ \E tag \in {evtag_peek(tagged.buf)} :
                tagged' = IF (Patient /\ ~ready(tagged.buf)) \/ ~tag.ok THEN [tagged EXCEPT !.looked = tagged.buf]
                          ELSE read(tagged, tag.value)

TagInit == tagged = [sent |-> <<>>, wire |-> <<>>, buf |-> <<>>, got |-> <<>>, read |-> 0, looked |-> <<>>]
TagNext == Send \/ Deliver \/ Receive

-----------------------------------------------------------------------------
(* Properties. *)

\* A reader that waits for evtag_peek_length receives the records that were
\* sent and whose tags it knows, in order, however the bytes are split, and keeps none back.
RecordsArrive ==
    LET known == SelectSeq(tagged.sent, LAMBDA r : Kind[r.tag] # "unknown")
    IN /\ IsPrefix(tagged.got, known)
       /\ tagged.wire = <<>> /\ tagged.looked = tagged.buf => tagged.got = known
\* What evtag_peek, evtag_peek_length and evtag_payload_length announce is what
\* the next record turns out to be.
PeeksAgree ==
    tagged.buf # <<>> /\ tagged.read < Len(tagged.sent) =>
        LET next == tagged.sent[tagged.read + 1]
            length == evtag_peek_length(tagged.buf)
        IN /\ evtag_peek(tagged.buf).ok => evtag_peek(tagged.buf).value = next.tag
           /\ length.ok => length.value = Len(marshalled(next))
           /\ length.ok => length.value - evtag_payload_length(tagged.buf).value <= Len(tagged.buf)

\* "the tag 0x66 is encoded as [66], whereas the tag 0x166 is encoded as
\* [82 66]": the highest group comes first.
TagsBigEndian == \A r \in Range(tagged.sent) :
                   evtag_encode_tag(r.tag) = [i \in DOMAIN r.tag |-> Reverse(r.tag)[i] + IF i < Len(r.tag) THEN 128 ELSE 0]

\* A patient reader receives the records sent, each as peeking announced it.
RecordsRead == RecordsArrive /\ PeeksAgree
=============================================================================
