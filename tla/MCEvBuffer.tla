----------------------------- MODULE MCEvBuffer -----------------------------
(***************************************************************************)
(* EvBuffer for TLC.  A behaviour concentrates on one kind of call: one    *)
(* buffer grown and shaped in every way; two buffers moving chains; two    *)
(* buffers sharing chains; buffers frozen at times.                        *)
(***************************************************************************)
EXTENDS EvBufferSearch

CONSTANTS A, B,                     \* model values
          Parts,
          PairBytes, PairChains     \* bounds of the pair part
MCChunks == {<<0>>, <<1, 2>>}
MCNeedles == {<<1>>, <<0, 1>>, <<0, 0>>, <<1, 2, 0>>}
Twins == Permutations({A, B})

VARIABLE part

\* at most m bytes in n chains after the step
Few(m, n) == /\ Sum([b \in Bufs |-> buf'[b].tot]) <= m
             /\ Sum([b \in Bufs |-> Len(buf'[b].ch)]) <= n
Adds(b) == \E s \in Chunks, oom \in OOM : evbuffer_add(b, s, oom)

Init == BufInit /\ part \in Parts
Alone == \E b \in Bufs :
    (\A c \in Bufs \ {b} : buf[c] = NewBuf) /\ (Growing(b) \/ Shaping(b))

Pair == \E b, c \in Bufs :
    \/ Adds(b) \/ Shaping(b) \/ Moving(b, c)
    \/ \E s \in Chunks : evbuffer_prepend(b, s, FALSE)

Shared == \E b, c \in Bufs :
    \/ evbuffer_add(b, <<0>>, FALSE) \/ evbuffer_add_reference(b, <<0>>)
    \/ evbuffer_add_buffer_reference(b, c)
    \/ evbuffer_drain(b, 1) \/ evbuffer_pullup(b, 2, FALSE)
    \/ evbuffer_add_buffer(b, c) \/ evbuffer_remove_buffer(b, c, 1, FALSE)
    \/ Lifetimes(b)

Files == \E b, c \in Bufs :
    \/ Sharing(b, c) \/ evbuffer_drain(b, 1) \/ evbuffer_add_buffer(b, c)
    \/ Lifetimes(b) \/ Segments

Frozen == \E b, c \in Bufs :
    \/ \E s \in Chunks : evbuffer_add(b, s, FALSE)
    \/ evbuffer_prepend(b, <<0>>, FALSE)
    \/ evbuffer_read(b, 1, <<0>>, FALSE) \/ reserve_commit_one(b, 1, <<0>>)
    \/ evbuffer_add_vprintf(b, <<0>>) \/ evbuffer_add_iovec(b, <<0>>, <<0>>)
    \/ evbuffer_drain(b, 1) \/ Moving(b, c) \/ Freezing(b)

Next == /\ part' = part
        /\ \/ part = "alone" /\ Alone
           \/ part = "pair" /\ Pair /\ Few(PairBytes, PairChains)
           \/ part = "shared" /\ Shared /\ Few(4, 3)
           \/ part = "files" /\ Files /\ Few(3, 3)
           \/ part = "frozen" /\ Frozen /\ Few(2, 2)
Spec == Init /\ [][Next]_<<part, bufVars>>
=============================================================================
