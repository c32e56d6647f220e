---------------------------- MODULE ByteStreams ----------------------------
(***************************************************************************)
(* What an evbuffer promises, whatever it does with its chains: it is a    *)
(* sequence of bytes that grows at either end, shrinks at the front, and   *)
(* hands bytes over to another buffer in order.                            *)
(***************************************************************************)
EXTENDS Naturals, Sequences

CONSTANTS Bufs,      \* the buffers
          Chunks     \* the byte strings a program adds

VARIABLE bytes       \* bytes[b]: what buffer b holds

LOCAL Drop(s, n) == SubSeq(s, n + 1, Len(s))
LOCAL Take(s, n) == SubSeq(s, 1, n)

Init == bytes = [b \in Bufs |-> <<>>]

Grow(b) == \E s \in Chunks \cup {p \o q : p, q \in Chunks} :
    bytes' = [bytes EXCEPT ![b] = @ \o s] \/ bytes' = [bytes EXCEPT ![b] = s \o @]

Drain(b) == \E n \in 1..Len(bytes[b]) : bytes' = [bytes EXCEPT ![b] = Drop(@, n)]

Move(src, dst) == \E n \in 1..Len(bytes[src]) :
    bytes' = [bytes EXCEPT ![src] = Drop(@, n), ![dst] = @ \o Take(bytes[src], n)]

MoveToFront(src, dst) ==
    bytes' = [bytes EXCEPT ![src] = <<>>, ![dst] = bytes[src] \o @]

Copy(src, dst) == bytes' = [bytes EXCEPT ![dst] = @ \o bytes[src]]

Next == \E b \in Bufs :
    \/ Grow(b)
    \/ Drain(b)
    \/ \E c \in Bufs \ {b} : Move(b, c) \/ MoveToFront(b, c) \/ Copy(b, c)

Spec == Init /\ [][Next]_bytes
=============================================================================
