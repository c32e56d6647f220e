------------------------------ MODULE EvBuffer ------------------------------
(***************************************************************************)
(* The chains of libevent's evbuffers (buffer.c).  A buffer is a list of   *)
(* chains; a chain is a block of memory, `len' bytes long, whose bytes     *)
(* from `mis' on are data.  last_with_datap addresses the link to the last *)
(* chain with data: it is modelled by the position of that chain, so 1 is  *)
(* &buf->first and i + 1 is &chain->next of the i-th chain.  Chains with a *)
(* nonzero `id' can be reached from elsewhere: a chain another buffer      *)
(* refers to, user memory, a file segment; the others are private.         *)
(*                                                                         *)
(* Every operation holds the buffers' locks from its first line to its     *)
(* last, so each is one action, callbacks included.  `bad' records that an *)
(* EVUTIL_ASSERT failed or freed memory was used.  Read-pinned chains      *)
(* exist only with IOCP and are left out.                                  *)
(***************************************************************************)
EXTENDS Integers, SequencesExt, FiniteSetsExt

CONSTANTS Bufs,         \* the buffers
          Chunks,       \* the byte strings a program adds
          Ids,          \* identities of blocks that can be shared (0 is none)
          MinChain,     \* MIN_BUFFER_SIZE, a power of two
          MaxAuto,      \* EVBUFFER_CHAIN_MAX_AUTO_SIZE
          MaxCopy,      \* MAX_TO_COPY_IN_EXPAND
          MaxRealign,   \* MAX_TO_REALIGN_IN_EXPAND
          MaxBytes,     \* bound: bytes in all buffers together
          MaxChains,    \* bound: a call that may add chains finds fewer than these
          Sizes,        \* the sizes a program asks for
          Freezers,     \* the buffers that are ever frozen
          OOM,          \* {FALSE}, or {FALSE, TRUE} if allocations may fail
          Careful,      \* the program keeps off the uses marked Careful below, for
                        \* which the code does not keep its promises
          Segment,      \* the id of the file segment
          NoBuf         \* a model value

ASSUME EvBufferConstants ==
    /\ 0 \notin Ids /\ Ids \subseteq Nat
    /\ MinChain > 0 /\ \A s \in Chunks : Len(s) > 0

VARIABLES buf,          \* buf[b]: the chains of a buffer, and its counters
          frozen,       \* frozen[b] \subseteq {"start", "end"}
          refcnt,       \* refcnt[b]: references to struct evbuffer
          owned,        \* the buffers, and the segment, the program has not freed
          shared,       \* shared[i]: the references to block i
          miscounted,   \* buffers whose callbacks were told a wrong old size
          spoiled       \* buffers whose bytes a failing call changed

bufVars == <<buf, frozen, refcnt, owned, shared, miscounted, spoiled>>
-----------------------------------------------------------------------------
Drop(s, n) == SubSeq(s, n + 1, Len(s))
Take(s, n) == SubSeq(s, 1, n)

off(c) == Len(c.data)
RECURSIVE Bytes(_)
Bytes(ch) == IF ch = <<>> THEN <<>> ELSE Head(ch).data \o Bytes(Tail(ch))
AllEmpty(ch) == \A i \in 1..Len(ch) : off(ch[i]) = 0
Contents(b) == Bytes(buf[b].ch)

\* CHAIN_SPACE_LEN: the room behind the data of a chain
space(c) == IF c.imm THEN 0 ELSE c.len - (c.mis + off(c))

\* evbuffer_chain_new: the smallest doubling of MinChain that holds size bytes
RECURSIVE doubled(_, _)
doubled(to_alloc, size) == IF to_alloc < size THEN doubled(2 * to_alloc, size) ELSE to_alloc
chain_len(size) == doubled(MinChain, size)
chain_new(size) == [id |-> 0, kind |-> "own", imm |-> FALSE, len |-> chain_len(size),
                    mis |-> 0, data |-> <<>>, src |-> NoBuf]

\* ZERO_CHAIN, and a buffer as evbuffer_new leaves it
zero_chain(u) == [u EXCEPT !.ch = <<>>, !.lwd = 1, !.tot = 0]
NewBuf == [ch |-> <<>>, lwd |-> 1, tot |-> 0, add |-> 0, del |-> 0, fr |-> <<>>, bad |-> FALSE]

\* evbuffer_free_all_chains: the freed chains are noted in fr and let go by Release
freeing(u, ch) == [u EXCEPT !.fr = @ \o SelectSeq(ch, LAMBDA c : c.id # 0)]
Require(u, holds) == [u EXCEPT !.bad = @ \/ ~holds]

\* evbuffer_free_trailing_empty_chains
free_trailing(u) ==
    LET from == {i \in u.lwd..Len(u.ch) : off(u.ch[i]) = 0}
        n    == IF from = {} THEN Len(u.ch) ELSE Min(from) - 1
        tail == Drop(u.ch, n)
    IN  [freeing(Require(u, AllEmpty(tail)), tail) EXCEPT !.ch = Take(@, n)]

\* evbuffer_chain_insert
chain_insert(u, c) ==
    IF u.lwd > Len(u.ch)
      THEN [Require(u, u.lwd = 1 /\ u.ch = <<>>) EXCEPT !.ch = Append(@, c), !.tot = @ + off(c)]
      ELSE LET v == free_trailing(u)
           IN  [v EXCEPT !.ch = Append(@, c), !.tot = @ + off(c),
                         !.lwd = IF off(c) > 0 THEN Len(v.ch) + 1 ELSE @]

\* advance_last_with_data, as it is: it stops at the first chain without data
RECURSIVE advance_last_with_data(_)
advance_last_with_data(u) ==
    IF u.lwd < Len(u.ch) /\ off(u.ch[u.lwd + 1]) > 0
      THEN advance_last_with_data([u EXCEPT !.lwd = @ + 1])
      ELSE u

\* Mutant of push: n_add_for_cb is forgotten
push_uncounted(u, i, s) == [u EXCEPT !.ch[i].data = @ \o s, !.tot = @ + Len(s)]

\* bytes put behind the data of the i-th chain
push(u, i, s) == [u EXCEPT !.ch[i].data = @ \o s, !.tot = @ + Len(s), !.add = @ + Len(s)]

should_realign(c, n) == c.len - off(c) >= n /\ off(c) < c.len \div 2 /\ off(c) <= MaxRealign
-----------------------------------------------------------------------------
(* Operations on one buffer, as functions from a buffer to a buffer.       *)

\* evbuffer_add to the k-th chain c, or to a new chain behind it
chain_behind(c, s) == chain_new(Max({Len(s), IF 2 * c.len <= MaxAuto THEN 2 * c.len ELSE c.len}))
add_split(u, k, s, room) ==
    [chain_insert(push(u, k, Take(s, room)), [chain_behind(u.ch[k], s) EXCEPT !.data = Drop(s, room)])
        EXCEPT !.add = @ + Len(s) - room]
add_at(u, k, c, s) ==
    IF ~c.imm /\ space(c) >= Len(s) THEN push(u, k, s)
    ELSE IF ~c.imm /\ should_realign(c, Len(s)) THEN push([u EXCEPT !.ch[k].mis = 0], k, s)
    ELSE add_split(u, k, s, space(c))
add_to_last(u, k, s) == add_at(u, k, u.ch[k], s)

evbuffer_add_(u, s) ==
    IF u.ch = <<>> THEN add_to_last(chain_insert(u, chain_new(Len(s))), 1, s)
    ELSE add_to_last(u, IF u.lwd > Len(u.ch) THEN Len(u.ch) ELSE u.lwd, s)

\* whether evbuffer_add_ calls evbuffer_chain_new
add_allocates(u, s) ==
    LET last == IF u.lwd > Len(u.ch) THEN Len(u.ch) ELSE u.lwd
    IN  \/ last = 0
        \/ u.ch[last].imm
        \/ space(u.ch[last]) < Len(s) /\ ~should_realign(u.ch[last], Len(s))

\* what of s goes into the room before the data of the first chain, whose data
\* would start at mis, and a new chain in front for what is left
first_mis(c) == IF off(c) = 0 THEN c.len ELSE c.mis
room_before(c, s) == IF c.imm THEN 0 ELSE Min({first_mis(c), Len(s)})
put_before(u, mis, top) ==
    [u EXCEPT !.ch[1].mis = mis - Len(top), !.ch[1].data = top \o @, !.tot = @ + Len(top), !.add = @ + Len(top)]
chain_before(u, s) ==
    LET n == Len(s)
    IN  IF n = 0 THEN u
        ELSE [u EXCEPT !.ch = <<[chain_new(n) EXCEPT !.mis = @ + chain_len(n) - n, !.data = s]>> \o @,
                       !.lwd = @ + 1, !.tot = @ + n, !.add = @ + n]
filled_before(u, top) == IF u.ch[1].imm THEN u ELSE put_before(u, first_mis(u.ch[1]), top)

\* Mutant: the head of the data goes into the room before the first chain
prepend_head_first(u, s, fit, oom) ==
    IF oom THEN filled_before(u, Take(s, fit)) ELSE chain_before(filled_before(u, Take(s, fit)), Drop(s, fit))

\* evbuffer_prepend to a buffer with a chain; with oom its last
\* evbuffer_chain_new returns NULL
prepend_split(u, s, fit, oom) ==
    LET top == Drop(s, Len(s) - fit)
    IN  IF oom THEN filled_before(u, top) ELSE chain_before(filled_before(u, top), Take(s, Len(s) - fit))
prepend_to(u, s, oom) == prepend_split(u, s, room_before(u.ch[1], s), oom)
evbuffer_prepend_(u, s, oom) ==
    prepend_to(IF u.ch = <<>> THEN chain_insert(u, chain_new(Len(s))) ELSE u, s, oom)

\* the first chain that holds the byte after the first n
chain_after(ch, n) == Min({i \in 1..Len(ch) : Len(Bytes(Take(ch, i))) > n})

\* Mutant: last_with_datap is not led back to the first chain
drain_keeps_datap(u, n) ==
    IF n >= u.tot
      THEN [zero_chain(freeing(u, u.ch)) EXCEPT !.del = @ + u.tot]
      ELSE LET k    == chain_after(u.ch, n)
               rest == n - Len(Bytes(Take(u.ch, k - 1)))
           IN  [freeing(u, Take(u.ch, k - 1)) EXCEPT
                   !.ch = [Drop(@, k - 1) EXCEPT ![1].mis = @ + rest, ![1].data = Drop(@, rest)],
                   !.tot = @ - n, !.del = @ + n]

evbuffer_drain_(u, n) ==
    IF n >= u.tot
      THEN [zero_chain(freeing(u, u.ch)) EXCEPT !.del = @ + u.tot]
      ELSE LET k    == chain_after(u.ch, n)
               rest == n - Len(Bytes(Take(u.ch, k - 1)))
           IN  [freeing(u, Take(u.ch, k - 1)) EXCEPT
                   !.ch = [Drop(@, k - 1) EXCEPT ![1].mis = @ + rest, ![1].data = Drop(@, rest)],
                   !.lwd = IF @ <= k THEN 1 ELSE @ - (k - 1),
                   !.tot = @ - n, !.del = @ + n]

\* evbuffer_pullup, when the first chain has fewer than n bytes
evbuffer_pullup_(u, n) ==
    LET c       == u.ch[1]
        inplace == c.len - c.mis >= n
        from    == IF inplace THEN 2 ELSE 1          \* the first chain copied
        after   == {i \in from..Len(u.ch) : Len(Bytes(Take(u.ch, i))) > n}
        k       == IF after = {} THEN Len(u.ch) + 1 ELSE Min(after)
        rest    == n - Len(Bytes(Take(u.ch, k - 1)))
        tmp     == [IF inplace THEN c ELSE chain_new(n) EXCEPT !.data = Take(Bytes(u.ch), n)]
        left    == IF after = {} THEN <<>>
                   ELSE [Drop(u.ch, k - 1) EXCEPT ![1].mis = @ + rest, ![1].data = Drop(@, rest)]
        lwdGone  == u.lwd \in from..(k - 1) /\ (inplace \/ u.lwd # 1)
        linkGone == u.lwd - 1 \in from..(k - 1)
    IN  [freeing(u, SubSeq(u.ch, from, k - 1)) EXCEPT
            !.ch = <<tmp>> \o left,
            !.lwd = IF lwdGone THEN 1
                    ELSE IF linkGone THEN IF left # <<>> /\ off(left[1]) > 0 THEN 2 ELSE 1
                    ELSE IF @ = 1 THEN 1 ELSE @ - k + 2]

\* evbuffer_expand_singlechain: [u: the buffer, k: the chain with n bytes of room]
expand_insert(u) == [u |-> u, k |-> Len(u.ch)]
expand_chain(u, n, k) ==
    LET c == u.ch[k]
    IN  IF space(c) >= n THEN [u |-> u, k |-> k]
        ELSE IF should_realign(c, n) THEN [u |-> [u EXCEPT !.ch[k].mis = 0], k |-> k]
        ELSE IF (space(c) < c.len \div 8 \/ off(c) > MaxCopy)
          THEN [u |-> u, k |-> k + 1]                 \* the next one, which has room
        ELSE [u |-> [freeing(u, <<c>>) EXCEPT !.ch[k] = [chain_new(off(c) + n) EXCEPT !.data = c.data]], k |-> k]
\* whether a new chain is needed: no chain, an immutable or an empty one that
\* is too small, or one too full to copy before one without room
expand_needs_chain(u, n, k) ==
    \/ k > Len(u.ch)
    \/ u.ch[k].imm
    \/ space(u.ch[k]) < n /\ off(u.ch[k]) = 0
    \/ /\ space(u.ch[k]) < n /\ ~should_realign(u.ch[k], n)
       /\ space(u.ch[k]) < u.ch[k].len \div 8 \/ off(u.ch[k]) > MaxCopy
       /\ ~(k < Len(u.ch) /\ space(u.ch[k + 1]) >= n)
expand_from(u, n, k) ==
    IF expand_needs_chain(u, n, k) THEN expand_insert(chain_insert(u, chain_new(n))) ELSE expand_chain(u, n, k)
expand_singlechain(u, n) ==
    expand_from(u, n, IF u.lwd <= Len(u.ch) /\ space(u.ch[u.lwd]) = 0 THEN u.lwd + 1 ELSE u.lwd)

\* evbuffer_expand_fast_: n bytes of room in the last nv chains
RECURSIVE expand_scan(_, _, _, _, _, _, _)
\* rmv_all or not: the chains from the keep-th on give way to one new one
expand_replace(u, n, oom, keep) ==
    LET room == IF keep = 0 THEN 0 ELSE space(u.ch[keep])
    IN  [freeing(Require(u, AllEmpty(Drop(u.ch, keep)) /\ (keep = 0 => u.lwd = 1)), Drop(u.ch, keep))
            EXCEPT !.ch = Take(@, keep) \o (IF oom THEN <<>> ELSE <<chain_new(n - room)>>)]
expand_seen(u, i) ==
    Require([u EXCEPT !.ch[i].mis = IF off(u.ch[i]) = 0 THEN 0 ELSE @], off(u.ch[i]) > 0 => i = u.lwd)
expand_scan(u, n, nv, oom, i, avail, used) ==
    LET c    == u.ch[i]
        has  == IF off(c) > 0 THEN space(c) ELSE c.len
        use  == used + (IF off(c) = 0 \/ space(c) > 0 THEN 1 ELSE 0)
    IN  IF i > Len(u.ch)
          THEN IF oom THEN u ELSE [u EXCEPT !.ch = Append(@, chain_new(n - avail))]
        ELSE IF avail + has >= n THEN expand_seen(u, i)
        ELSE IF use < nv THEN expand_scan(expand_seen(u, i), n, nv, oom, i + 1, avail + has, use)
        ELSE expand_replace(expand_seen(u, i), n, oom, IF off(u.ch[u.lwd]) = 0 THEN 0 ELSE u.lwd)

evbuffer_expand_fast_(u, n, nv, oom) ==
    IF u.ch = <<>> \/ u.ch[Len(u.ch)].imm
      THEN IF oom THEN u ELSE chain_insert(u, chain_new(n))
      ELSE expand_scan(u, n, nv, oom, u.lwd, 0, 0)

\* the room in the chains from the k-th on
room_from(u, k) == FoldLeft(LAMBDA sum, c : sum + space(c), 0, Drop(u.ch, k - 1))

\* the first chain with room, as evbuffer_read_setup_vecs_ and
\* evbuffer_commit_space look for it
first_room(u) == IF space(u.ch[u.lwd]) = 0 THEN u.lwd + 1 ELSE u.lwd

\* evbuffer_read's commit: s goes into the chains from the k-th on
RECURSIVE fill(_, _, _)
fill(u, k, s) ==
    IF k > Len(u.ch) THEN Require(u, FALSE)
    ELSE LET room == space(u.ch[k])
         IN  IF room < Len(s) THEN fill(push(u, k, Take(s, room)), k + 1, Drop(s, room))
             ELSE [push(u, k, s) EXCEPT !.lwd = k]

\* evbuffer_read: v has room for n bytes (evbuffer_read_setup_vecs_), s arrived
read_into(v, n, s) ==
    fill(Require(v, room_from(v, first_room(v)) >= n), first_room(v), s)

\* evbuffer_commit_space for the single chain evbuffer_reserve_space handed out
commit_one(u, k, s) ==
    LET v == push(u, k, s)
    IN  IF k = Len(u.ch) THEN advance_last_with_data(v)
        ELSE IF k = first_room(u) THEN [v EXCEPT !.lwd = k]
        ELSE u                                        \* refused: -1

\* evbuffer_reserve_space and evbuffer_commit_space with two vectors, of which
\* the program fills p and q bytes
commit_two(u, p, q) ==
    LET k == first_room(u)
        v == push(push(u, k, p), k + 1, q)
    IN  [v EXCEPT !.lwd = IF q # <<>> THEN k + 1 ELSE IF p # <<>> THEN k ELSE @]
-----------------------------------------------------------------------------
(* Operations on two buffers.                                              *)

\* APPEND_CHAIN, PREPEND_CHAIN, COPY_CHAIN: dst takes over the chains of src
append_chain(dst, src) ==
    LET v == free_trailing(dst)
    IN  [v EXCEPT !.ch = @ \o src.ch, !.lwd = Len(v.ch) + src.lwd, !.tot = @ + src.tot]
prepend_chain(dst, src) ==
    [dst EXCEPT !.ch = src.ch \o @, !.tot = @ + src.tot,
                !.lwd = IF @ > Len(dst.ch) THEN src.lwd ELSE Len(src.ch) + @]
copy_chain(dst, src) ==
    [freeing(dst, dst.ch) EXCEPT !.ch = src.ch, !.lwd = src.lwd, !.tot = src.tot]

\* evbuffer_remove_buffer, for n < src.tot: the chains before the k-th go to
\* dst, and the rest is copied from the k-th
remove_chains(dst, src, k, nread) ==
    IF nread = 0 THEN dst
    ELSE [advance_last_with_data([free_trailing(dst) EXCEPT !.ch = @ \o Take(src.ch, k - 1)])
             EXCEPT !.tot = @ + nread, !.add = @ + nread]
remove_rest(e, bytes, oom) == IF oom /\ add_allocates(e, bytes) THEN e ELSE evbuffer_add_(e, bytes)
removed_to(dst, src, k, nread, n, oom) ==
    remove_rest(remove_chains(dst, src, k, nread), Take(src.ch[k].data, n - nread), oom)
removed_from(src, k, nread, n) ==
    LET c == [src.ch[k] EXCEPT !.mis = @ + (n - nread), !.data = Drop(@, n - nread)]
    IN  [Require(src, src.lwd = 1 => k = 1) EXCEPT
            !.ch = IF nread = 0 THEN [@ EXCEPT ![k] = c] ELSE <<c>> \o Drop(@, k),
            !.lwd = IF @ <= k THEN 1 ELSE IF nread = 0 THEN @ ELSE @ - (k - 1),
            !.tot = @ - n, !.del = @ + n]
-----------------------------------------------------------------------------
(* Letting go of chains, and the callbacks.                                *)

\* Mutant: the buffer a multicast chain refers to is not let go
release_chain_only(h, chains) ==
    IF chains = <<>> THEN h ELSE [h EXCEPT !.shared[Head(chains).id] = @ - 1]

\* evbuffer_chain_free on each of the chains, and evbuffer_decref_and_unlock_
\* on the buffers that multicast chains refer to
RECURSIVE Release(_, _)
Release(h, chains) ==
    IF chains = <<>> THEN h
    ELSE LET c == Head(chains)
             g == [h EXCEPT !.shared[c.id] = @ - 1]
             b == c.src
         IN  IF c.kind # "multicast" THEN Release(g, Tail(chains))
             ELSE IF g.refcnt[b] > 1
               THEN Release([g EXCEPT !.refcnt[b] = @ - 1], Tail(chains))
             ELSE Release([g EXCEPT !.refcnt[b] = @ - 1, !.buf[b] = NewBuf],
                          Tail(chains) \o freeing(NewBuf, g.buf[b].ch).fr)

\* evbuffer_invoke_callbacks_: the size before, as the callbacks are told it
orig_size(u) == u.tot + u.del - u.add

\* the end of a call that leaves the buffers as in new, counts the references
\* as in sh and rc, and returns r
Settle(new, sh, rc, r) ==
    LET fr    == IF \A b \in Bufs : new[b].fr = <<>> THEN <<>>
                 ELSE FoldFunctionOnSet(LAMBDA x, y : x \o y, <<>>, [b \in Bufs |-> new[b].fr], Bufs)
        clean == [b \in Bufs |-> IF r = -1 THEN [new[b] EXCEPT !.fr = <<>>]
                                 ELSE [new[b] EXCEPT !.fr = <<>>, !.add = 0, !.del = 0]]
        h     == Release([refcnt |-> rc, shared |-> sh, buf |-> clean], fr)
    IN  /\ buf' = h.buf /\ refcnt' = h.refcnt /\ shared' = h.shared
        /\ miscounted' = miscounted \cup {b \in Bufs : orig_size(new[b]) # orig_size(buf[b])}
        /\ spoiled' = spoiled \cup {b \in Bufs : r = -1 /\ Bytes(new[b].ch) # Contents(b)}
        /\ UNCHANGED <<frozen, owned>>

Finish(new, r) == Settle(new, shared, refcnt, r)
Becomes(b, u, r) == Finish([buf EXCEPT ![b] = u], r)
Refused == UNCHANGED bufVars          \* returned -1, nothing done

Sum(f) == FoldFunctionOnSet(LAMBDA x, y : x + y, 0, f, Bufs)
Room(n) == Sum([b \in Bufs |-> buf[b].tot]) + n <= MaxBytes
Usable(b) == b \in owned /\ Sum([c \in Bufs |-> Len(buf[c].ch)]) < MaxChains
-----------------------------------------------------------------------------
(* The calls a program makes.                                              *)

evbuffer_add(b, s, oom) ==
    /\ Usable(b) /\ Room(Len(s))
    /\ IF "end" \in frozen[b] \/ (oom /\ add_allocates(buf[b], s)) THEN Refused
       ELSE Becomes(b, evbuffer_add_(buf[b], s), 0)

evbuffer_prepend(b, s, oom) ==
    /\ Usable(b) /\ Room(Len(s))
    /\ IF "start" \in frozen[b] \/ (oom /\ buf[b].ch = <<>>) THEN Refused
       ELSE \E u \in {evbuffer_prepend_(buf[b], s, oom)} :
              \E r \in {IF u.tot < buf[b].tot + Len(s) THEN -1 ELSE 0} :    \* out of memory half way
                (Careful => r = 0) /\ Becomes(b, u, r)

\* evbuffer_drain, evbuffer_remove, evbuffer_write_atmost
evbuffer_drain(b, n) ==
    /\ b \in owned /\ buf[b].tot > 0
    /\ IF "start" \in frozen[b] THEN Refused ELSE Becomes(b, evbuffer_drain_(buf[b], n), 0)

evbuffer_expand(b, n, oom) ==
    /\ Usable(b)
    /\ \E e \in {expand_singlechain(buf[b], n)} :
         IF oom /\ e.u.ch # buf[b].ch THEN Refused ELSE Becomes(b, e.u, 0)

\* evbuffer_add_vprintf: s is the formatted text
print_fits(e, s) == IF Len(s) < space(e.u.ch[e.k]) THEN e ELSE expand_singlechain(e.u, Len(s) + 1)
printed(e, s) == advance_last_with_data(push(e.u, e.k, s))
evbuffer_add_vprintf(b, s) ==
    /\ Usable(b) /\ Room(Len(s))
    /\ IF "end" \in frozen[b] THEN Refused
       ELSE Becomes(b, printed(print_fits(expand_singlechain(buf[b], 1), s), s), 0)

\* evbuffer_add_iovec with two vectors
evbuffer_add_iovec(b, s, t) ==
    /\ Usable(b) /\ Room(Len(s) + Len(t))
    /\ \E v \in {evbuffer_expand_fast_(buf[b], Len(s) + Len(t), 2, FALSE)} :
         IF "end" \in frozen[b] THEN Becomes(b, v, -1)
         ELSE Becomes(b, evbuffer_add_(evbuffer_add_(v, s), t), 0)

\* evbuffer_read: up to n bytes wanted, s arrived
evbuffer_read(b, n, s, oom) ==
    /\ Usable(b) /\ Room(Len(s)) /\ Len(s) <= n
    /\ IF "end" \in frozen[b] THEN Refused
       ELSE \E v \in {evbuffer_expand_fast_(buf[b], n, 4, oom)} :
              IF v.ch = <<>> \/ (oom /\ room_from(v, first_room(v)) < n) THEN Becomes(b, v, -1)
              ELSE Becomes(b, read_into(v, n, s), 0)

\* evbuffer_reserve_space for one vector, and evbuffer_commit_space
reserve_commit_one(b, n, s) ==
    /\ Usable(b) /\ Room(Len(s)) /\ Len(s) <= n
    /\ IF "end" \in frozen[b] THEN Refused
       ELSE \E e \in {expand_singlechain(buf[b], n)} :
            \E v \in {commit_one(e.u, e.k, s)} : Becomes(b, v, IF v = e.u THEN -1 ELSE 0)

\* the same for two vectors
reserve_commit_two(b, n, p, q) ==
    /\ Usable(b) /\ Room(Len(p) + Len(q)) /\ "end" \notin frozen[b]
    /\ \E v \in {evbuffer_expand_fast_(buf[b], n, 2, FALSE)} :
       \E k \in {first_room(v)} :
           /\ space(v.ch[k]) < n /\ k < Len(v.ch)          \* it took both
           /\ Len(p) <= space(v.ch[k]) /\ Len(q) <= space(v.ch[k + 1])
           /\ Careful => p # <<>>
           /\ Becomes(b, commit_two(v, p, q), 0)

\* evbuffer_pullup; a first chain with room is filled in place, even a shared one
evbuffer_pullup(b, n, oom) ==
    LET u     == buf[b]
        c     == u.ch[1]
        from  == c.mis + off(c)                      \* where the copy starts
        moved == SubSeq(Bytes(u.ch), off(c) + 1, n)
        seen(d) == [d EXCEPT !.data =
            [i \in DOMAIN @ |-> LET at == d.mis + i - from
                                IN  IF at \in DOMAIN moved THEN moved[at] ELSE @[i]]]
        new   == [buf EXCEPT ![b] = evbuffer_pullup_(u, n)]
    IN  /\ Usable(b) /\ n <= u.tot /\ off(c) < n
        /\ Careful => c.id = 0
        /\ IF oom /\ c.len - c.mis < n THEN Refused
           ELSE IF c.id = 0 \/ c.len - c.mis < n THEN Finish(new, 0)
           ELSE Finish([x \in Bufs |-> [new[x] EXCEPT !.ch =
                           [i \in DOMAIN @ |-> IF @[i].id = c.id THEN seen(@[i]) ELSE @[i]]]], 0)

evbuffer_add_buffer(dst, src) ==
    /\ {dst, src} \subseteq owned /\ dst # src /\ buf[src].tot > 0
    /\ LET d == IF buf[dst].tot = 0 THEN copy_chain(buf[dst], buf[src])
                ELSE append_chain(buf[dst], buf[src])
           n == buf[src].tot
       IN  IF "end" \in frozen[dst] \/ "start" \in frozen[src] THEN Refused
           ELSE Finish([buf EXCEPT ![dst] = [d EXCEPT !.add = @ + n],
                                   ![src] = [zero_chain(@) EXCEPT !.del = @ + n]], 0)

\* Mutant: the freeze of the destination is not looked at
prepend_buffer_unchecked(dst, src) ==
    /\ {dst, src} \subseteq owned /\ dst # src /\ buf[src].tot > 0
    /\ Careful => buf[src].lwd = Len(buf[src].ch)
    /\ LET d == IF buf[dst].tot = 0 THEN copy_chain(buf[dst], buf[src])
                ELSE prepend_chain(buf[dst], buf[src])
           n == buf[src].tot
       IN  IF "start" \in frozen[src] THEN Refused
           ELSE Finish([buf EXCEPT ![dst] = [d EXCEPT !.add = @ + n],
                                   ![src] = [zero_chain(@) EXCEPT !.del = @ + n]], 0)

evbuffer_prepend_buffer(dst, src) ==
    /\ {dst, src} \subseteq owned /\ dst # src /\ buf[src].tot > 0
    /\ Careful => buf[src].lwd = Len(buf[src].ch)
    /\ LET d == IF buf[dst].tot = 0 THEN copy_chain(buf[dst], buf[src])
                ELSE prepend_chain(buf[dst], buf[src])
           n == buf[src].tot
       IN  IF "start" \in frozen[dst] \/ "start" \in frozen[src] THEN Refused
           ELSE Finish([buf EXCEPT ![dst] = [d EXCEPT !.add = @ + n],
                                   ![src] = [zero_chain(@) EXCEPT !.del = @ + n]], 0)

\* evbuffer_remove_buffer of fewer bytes than src has (otherwise it is
\* evbuffer_add_buffer); when its evbuffer_add fails the bytes are gone
evbuffer_remove_buffer(src, dst, n, oom) ==
    /\ {dst, src} \subseteq owned /\ dst # src /\ n < buf[src].tot
    /\ IF "end" \in frozen[dst] \/ "start" \in frozen[src] THEN Refused
       ELSE \E k \in {chain_after(buf[src].ch, n)} :
            \E nread \in {Len(Bytes(Take(buf[src].ch, k - 1)))} :
            \E d \in {removed_to(buf[dst], buf[src], k, nread, n, oom)} :
              /\ Careful => d.tot = buf[dst].tot + n
              /\ Finish([buf EXCEPT ![dst] = d, ![src] = removed_from(@, k, nread, n)], 0)

FreeIds == {i \in Ids \ {Segment} : shared[i] = 0}

\* evbuffer_add_reference, evbuffer_add_file_segment: a chain on memory that is not its own
foreign(kind, id, s) ==
    [id |-> id, kind |-> kind, imm |-> TRUE, len |-> Len(s), mis |-> 0, data |-> s, src |-> NoBuf]

evbuffer_add_reference(b, s) ==
    /\ Usable(b) /\ Room(Len(s)) /\ FreeIds # {}
    /\ LET i == Min(FreeIds)
           u == chain_insert(buf[b], foreign("reference", i, s))
       IN  IF "end" \in frozen[b] THEN Refused
           ELSE Settle([buf EXCEPT ![b] = [u EXCEPT !.add = @ + Len(s)]],
                       [shared EXCEPT ![i] = 1], refcnt, 0)

evbuffer_add_file_segment(b, s) ==
    /\ Usable(b) /\ Room(Len(s)) /\ "segment" \in owned
    /\ LET u == chain_insert(buf[b], foreign("segment", Segment, s))
       IN  IF "end" \in frozen[b] THEN Refused
           ELSE Settle([buf EXCEPT ![b] = [u EXCEPT !.add = @ + Len(s)]],
                       [shared EXCEPT ![Segment] = @ + 1], refcnt, 0)

\* APPEND_CHAIN_MULTICAST: one chain of dst for every chain of src with data
RECURSIVE multicast(_, _, _)
multicast(d, src, chs) ==
    IF chs = <<>> THEN d
    ELSE multicast(IF off(Head(chs)) = 0 THEN d
                   ELSE chain_insert(d, [Head(chs) EXCEPT !.kind = "multicast", !.src = src]),
                   src, Tail(chs))

evbuffer_add_buffer_reference(dst, src) ==
    LET u     == buf[src]
        full  == {i \in DOMAIN u.ch : off(u.ch[i]) > 0}
        new   == {i \in full : u.ch[i].id = 0}
        ids   == CHOOSE f \in [new -> FreeIds] : \A i, j \in new : i # j => f[i] # f[j]
        tag(i) == IF i \in new THEN [u.ch[i] EXCEPT !.id = ids[i], !.imm = TRUE]
                  ELSE [u.ch[i] EXCEPT !.imm = @ \/ i \in full]
        chs   == [i \in DOMAIN u.ch |-> tag(i)]
        cnt(j) == IF \E i \in new : ids[i] = j THEN 2
                  ELSE shared[j] + Cardinality({i \in full : u.ch[i].id = j})
    IN  /\ {dst, src} \subseteq owned /\ dst # src /\ u.tot > 0 /\ Room(u.tot)
        /\ Usable(dst) /\ Cardinality(new) <= Cardinality(FreeIds)
        /\ Careful => (buf[dst].tot = 0 => buf[dst].ch = <<>>)
        /\ IF "end" \in frozen[dst] \/ \E i \in DOMAIN u.ch : u.ch[i].kind \in {"multicast", "segment"}
             THEN Refused
             ELSE Settle([buf EXCEPT
                              ![src].ch = chs,
                              ![dst] = [multicast(Require(@, @.tot = 0 => @.ch = <<>>), src, chs)
                                           EXCEPT !.add = @ + u.tot]],
                         [j \in Ids |-> cnt(j)],
                         [refcnt EXCEPT ![src] = @ + Cardinality(full)], 0)

\* evbuffer_file_segment_free by the program, and a segment made again
evbuffer_file_segment_free ==
    /\ "segment" \in owned
    /\ owned' = owned \ {"segment"} /\ shared' = [shared EXCEPT ![Segment] = @ - 1]
    /\ UNCHANGED <<buf, frozen, refcnt, miscounted, spoiled>>

evbuffer_file_segment_new ==
    /\ shared[Segment] = 0
    /\ owned' = owned \cup {"segment"} /\ shared' = [shared EXCEPT ![Segment] = 1]
    /\ UNCHANGED <<buf, frozen, refcnt, miscounted, spoiled>>

\* evbuffer_free: evbuffer_decref_and_unlock_
evbuffer_free(b) ==
    /\ b \in owned /\ owned' = owned \ {b}
    /\ LET h == IF refcnt[b] > 1
                THEN [refcnt |-> [refcnt EXCEPT ![b] = @ - 1], shared |-> shared, buf |-> buf]
                ELSE Release([refcnt |-> [refcnt EXCEPT ![b] = 0], shared |-> shared,
                              buf |-> [buf EXCEPT ![b] = NewBuf]],
                             freeing(NewBuf, buf[b].ch).fr)
       IN  buf' = h.buf /\ refcnt' = h.refcnt /\ shared' = h.shared
    /\ frozen' = [frozen EXCEPT ![b] = {}]
    /\ UNCHANGED <<miscounted, spoiled>>

evbuffer_new(b) ==
    /\ refcnt[b] = 0
    /\ owned' = owned \cup {b} /\ refcnt' = [refcnt EXCEPT ![b] = 1]
    /\ UNCHANGED <<buf, frozen, shared, miscounted, spoiled>>

evbuffer_freeze(b) == \E at \in {"start", "end"} :
    /\ b \in owned \cap Freezers /\ at \notin frozen[b]
    /\ frozen' = [frozen EXCEPT ![b] = @ \cup {at}]
    /\ UNCHANGED <<buf, refcnt, owned, shared, miscounted, spoiled>>

evbuffer_unfreeze(b) == \E at \in frozen[b] :
    /\ b \in owned /\ frozen' = [frozen EXCEPT ![b] = @ \ {at}]
    /\ UNCHANGED <<buf, refcnt, owned, shared, miscounted, spoiled>>
-----------------------------------------------------------------------------
BufInit ==
    /\ buf = [b \in Bufs |-> NewBuf] /\ frozen = [b \in Bufs |-> {}]
    /\ refcnt = [b \in Bufs |-> 1] /\ owned = Bufs
    /\ shared = [i \in Ids |-> 0]
    /\ miscounted = {} /\ spoiled = {}

Growing(b) ==
    \/ \E s \in Chunks, oom \in OOM : evbuffer_add(b, s, oom) \/ evbuffer_prepend(b, s, oom)
    \/ \E s \in Chunks, n \in Sizes, oom \in OOM : evbuffer_read(b, n, s, oom)
    \/ \E s \in Chunks, n \in Sizes : reserve_commit_one(b, n, s)
    \/ \E p, q \in Chunks \cup {<<>>}, n \in Sizes : reserve_commit_two(b, n, p, q)
    \/ \E s \in Chunks : evbuffer_add_vprintf(b, s)
    \/ \E s, t \in Chunks : evbuffer_add_iovec(b, s, t)

Shaping(b) ==
    \/ \E n \in 1..MaxBytes : evbuffer_drain(b, n)
    \/ \E n \in 1..MaxBytes, oom \in OOM : evbuffer_pullup(b, n, oom)
    \/ \E n \in Sizes, oom \in OOM : evbuffer_expand(b, n, oom)

Moving(b, c) ==
    \/ evbuffer_add_buffer(b, c)
    \/ evbuffer_prepend_buffer(b, c)
    \/ \E n \in 1..MaxBytes, oom \in OOM : evbuffer_remove_buffer(c, b, n, oom)

Sharing(b, c) ==
    \/ \E s \in Chunks : evbuffer_add_reference(b, s) \/ evbuffer_add_file_segment(b, s)
    \/ evbuffer_add_buffer_reference(b, c)

Lifetimes(b) == evbuffer_free(b) \/ evbuffer_new(b)
Segments == evbuffer_file_segment_new \/ evbuffer_file_segment_free

Freezing(b) == evbuffer_freeze(b) \/ evbuffer_unfreeze(b)

BufNext == \E b, c \in Bufs :
    \/ Growing(b) \/ Shaping(b) \/ Moving(b, c) \/ Sharing(b, c)
    \/ Lifetimes(b) \/ Segments \/ Freezing(b)

BufSpec == BufInit /\ [][BufNext]_bufVars
-----------------------------------------------------------------------------
(* Layout.  In every buffer total_len is the number of bytes in its        *)
(* chains, last_with_datap leads to the last chain with data (the first    *)
(* when there is none), data lies inside its block, and no EVUTIL_ASSERT   *)
(* of buffer.c failed.  struct evbuffer says so: "The last_with_data chain  *)
(* is the last chain that has any data in it.  If all chains in the buffer  *)
(* are empty, it is the first chain."                                       *)
LayoutOK == \A b \in Bufs :
    LET u    == buf[b]
        full == {i \in DOMAIN u.ch : off(u.ch[i]) > 0}
    IN  /\ ~u.bad
        /\ u.tot = Len(Bytes(u.ch))
        /\ u.lwd = (IF full = {} THEN 1 ELSE Max(full))
        /\ \A i \in DOMAIN u.ch : u.ch[i].mis + off(u.ch[i]) <= u.ch[i].len

(* References.  A block that several chains look at is counted once for    *)
(* each of them, and a buffer once for its owner and once for every chain  *)
(* that refers into it: nothing is released while it can be read, and      *)
(* nothing outlives its last reader.                                       *)
RefcountsExact ==
    LET all == {<<b, i>> : b \in Bufs, i \in 1..(2 * MaxChains)}
        here(p) == p[2] \in DOMAIN buf[p[1]].ch
        chain(p) == buf[p[1]].ch[p[2]]
    IN  /\ \A j \in Ids : shared[j] = Cardinality({p \in all : here(p) /\ chain(p).id = j})
                                     + (IF j = Segment /\ "segment" \in owned THEN 1 ELSE 0)
        /\ \A b \in Bufs : refcnt[b] = Cardinality({p \in all : here(p) /\ chain(p).src = b})
                                       + (IF b \in owned THEN 1 ELSE 0)

(* Every callback is told the size its buffer had when callbacks last ran: *)
(* evbuffer_run_callbacks computes orig_size from n_add_for_cb and         *)
(* n_del_for_cb, which every operation has to keep up.                     *)
CallbacksToldTrue == miscounted = {}

(* evbuffer_freeze.  While the front of a buffer is frozen nothing is      *)
(* taken from or put before its bytes; while its end is frozen nothing is  *)
(* added behind them.                                                      *)
FreezeHolds == [][\A b \in Bufs :
    LET s == Contents(b)
        t == Bytes(buf'[b].ch)
    IN  b \in owned' => /\ "start" \in frozen[b] => IsPrefix(s, t)
                        /\ "end" \in frozen[b] => IsSuffix(s, t) \/ IsSuffix(t, s)]_bufVars

(* A call that returns -1 leaves the bytes of every buffer as they were.   *)
FailuresHarmless == spoiled = {}

\* The bytes of the buffers the program holds.
Streams == INSTANCE ByteStreams WITH
    bytes <- [b \in Bufs |-> IF b \in owned THEN Contents(b) ELSE <<>>]
(* Whatever the chains look like, a buffer is the byte stream its user     *)
(* sees: nothing is lost, doubled or reordered by growing in place,        *)
(* realigning, replacing, splitting, moving or sharing chains.             *)
KeepsBytes == Streams!Spec

\* What the program is told is true: callbacks hear the sizes there were
\* (evbuffer_run_callbacks), and a call that returned -1 changed no bytes.
ToldTrue == CallbacksToldTrue /\ FailuresHarmless
=============================================================================
