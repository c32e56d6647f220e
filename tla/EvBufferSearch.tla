--------------------------- MODULE EvBufferSearch ---------------------------
(***************************************************************************)
(* The functions of buffer.c that look into a buffer without changing it:  *)
(* they walk the chains with an evbuffer_ptr, which is [pos: the offset in *)
(* the buffer, c: the chain (one past the last is NULL), i: the offset in  *)
(* the chain].  Each is compared with its meaning on the flat bytes.       *)
(***************************************************************************)
EXTENDS EvBuffer

CONSTANTS CR, LF,       \* the bytes that end lines
          Needles       \* the byte strings searched for

NotFound == [pos |-> -1, c |-> 0, i |-> 0]
First == [pos |-> 0, c |-> 1, i |-> 0]
next_chain(p, n) == [pos |-> p.pos + n, c |-> p.c + 1, i |-> 0]
ahead(p, n) == [p EXCEPT !.pos = @ + n, !.i = @ + n]

\* evbuffer_ptr_set with EVBUFFER_PTR_SET (from First) or EVBUFFER_PTR_ADD (from p)
RECURSIVE ptr_walk(_, _, _, _)
ptr_walk(ch, c, i, left) ==
    IF c <= Len(ch) /\ i + left >= off(ch[c])
      THEN ptr_walk(ch, c + 1, 0, left - (off(ch[c]) - i))
      ELSE [c |-> c, i |-> i + left, left |-> left]
evbuffer_ptr_set(ch, p, n) ==
    LET w == ptr_walk(ch, p.c, p.i, n)
    IN  IF w.c <= Len(ch) THEN [pos |-> p.pos + n, c |-> w.c, i |-> w.i]
        ELSE IF w.left = 0 THEN [pos |-> p.pos + n, c |-> Len(ch) + 1, i |-> 0]
        ELSE NotFound

evbuffer_ptr_subtract(ch, p, n) ==
    IF n > p.pos THEN NotFound
    ELSE IF p.c <= Len(ch) /\ n <= p.i THEN ahead(p, -n)
    ELSE evbuffer_ptr_set(ch, First, p.pos - n)

\* evbuffer_ptr_memcmp: whether the bytes at p are w
RECURSIVE same_from(_, _, _, _)
same_from(ch, c, i, w) ==
    IF w = <<>> \/ c > Len(ch) THEN TRUE
    ELSE LET n == IF Len(w) + i > off(ch[c]) THEN off(ch[c]) - i ELSE Len(w)
         IN  /\ SubSeq(ch[c].data, i + 1, i + n) = Take(w, n)
             /\ same_from(ch, c + 1, 0, Drop(w, n))
\* Mutant: what lies in the next chain is not compared.
memcmp_in_chain(ch, p, w) ==
    /\ p.pos + Len(w) <= Len(Bytes(ch))
    /\ IsPrefix(SubSeq(ch[p.c].data, p.i + 1, Min({off(ch[p.c]), p.i + Len(w)})), w)

evbuffer_ptr_memcmp(ch, p, w) ==
    p.pos + Len(w) <= Len(Bytes(ch)) /\ same_from(ch, p.c, p.i, w)

\* memchr for a set of bytes in a chain, from offset i on: an offset, or -1
find_in(c, i, set) ==
    LET at == {j \in i..(off(c) - 1) : c.data[j + 1] \in set}
    IN  IF at = {} THEN -1 ELSE Min(at)

\* evbuffer_search_range; end = NotFound stands for no end
RECURSIVE evbuffer_search_range(_, _, _, _)
evbuffer_search_range(ch, w, p, end) ==
    IF p.c > Len(ch) THEN NotFound
    ELSE LET j == find_in(ch[p.c], p.i, {w[1]})
             q == ahead(p, j - p.i)
             r == ahead(q, 1)
         IN  IF j = -1
               THEN IF p.c = end.c THEN NotFound
                    ELSE evbuffer_search_range(ch, w, next_chain(p, off(ch[p.c]) - p.i), end)
             ELSE IF evbuffer_ptr_memcmp(ch, q, w)
               THEN IF end # NotFound /\ q.pos + Len(w) > end.pos THEN NotFound ELSE q
             ELSE evbuffer_search_range(ch, w, IF r.i = off(ch[r.c]) THEN next_chain(r, 0) ELSE r, end)

\* evbuffer_strchr and evbuffer_find_eol_char: the first byte of a set
RECURSIVE find_any(_, _, _)
find_any(ch, p, set) ==
    IF p.c > Len(ch) THEN NotFound
    ELSE LET j == find_in(ch[p.c], p.i, set)
         IN  IF j # -1 THEN ahead(p, j - p.i)
             ELSE find_any(ch, next_chain(p, off(ch[p.c]) - p.i), set)

\* evbuffer_strspn: how many bytes of a set follow
RECURSIVE evbuffer_strspn(_, _, _)
evbuffer_strspn(ch, p, set) ==
    IF p.c > Len(ch) THEN 0
    ELSE IF p.i >= off(ch[p.c]) THEN evbuffer_strspn(ch, next_chain(p, 0), set)
    ELSE IF ch[p.c].data[p.i + 1] \in set THEN 1 + evbuffer_strspn(ch, ahead(p, 1), set)
    ELSE 0

\* evbuffer_getchr
getchr(ch, p) == IF p.c > Len(ch) \/ p.c = 0 THEN -1 ELSE ch[p.c].data[p.i + 1]

\* evbuffer_search_eol: where the line ends and how long its terminator is
Eol(p, n) == [pos |-> p.pos, len |-> IF p = NotFound THEN 0 ELSE n]
evbuffer_search_eol(ch, p, style) ==
    LET any  == find_any(ch, p, {CR, LF})
        lf   == find_any(ch, p, {LF})
        back == evbuffer_ptr_subtract(ch, lf, 1)
    IN  CASE style = "ANY" -> Eol(any, IF any = NotFound THEN 0 ELSE evbuffer_strspn(ch, any, {CR, LF}))
          [] style = "CRLF_STRICT" -> Eol(evbuffer_search_range(ch, <<CR, LF>>, p, NotFound), 2)
          [] style = "CRLF" -> IF lf # NotFound /\ lf.pos # p.pos /\ getchr(ch, back) = CR
                                 THEN Eol(back, 2) ELSE Eol(lf, 1)
          [] style = "LF" -> Eol(lf, 1)

\* evbuffer_copyout_from, n bytes from p on
RECURSIVE copy_from(_, _, _, _)
copy_from(ch, c, i, n) ==
    IF n = 0 THEN <<>>
    ELSE LET have == off(ch[c]) - i
         IN  IF n >= have THEN SubSeq(ch[c].data, i + 1, off(ch[c])) \o copy_from(ch, c + 1, 0, n - have)
             ELSE SubSeq(ch[c].data, i + 1, i + n)
evbuffer_copyout_from(ch, p, n) ==
    LET left == Len(Bytes(ch)) - p.pos IN copy_from(ch, p.c, p.i, IF n > left THEN left ELSE n)

\* evbuffer_peek without start: how many vectors hold the first n bytes
evbuffer_peek(ch, n) ==
    LET enough == {k \in 0..Len(ch) : Len(Bytes(Take(ch, k))) >= n}
    IN  IF enough = {} THEN Len(ch) ELSE Min(enough)
-----------------------------------------------------------------------------
(* The same on the flat bytes of a buffer.                                 *)
Matches(s, w, from, to) == {n \in from..(to - Len(w)) : SubSeq(s, n + 1, n + Len(w)) = w}
FirstOf(set) == IF set = {} THEN -1 ELSE Min(set)
Positions(s, from, set) == {n \in from..(Len(s) - 1) : s[n + 1] \in set}

EolAt(s, from, style) ==
    LET any == FirstOf(Positions(s, from, {CR, LF}))
        lf  == FirstOf(Positions(s, from, {LF}))
        str == FirstOf(Matches(s, <<CR, LF>>, from, Len(s)))
        run == Min({n \in any..Len(s) : n = Len(s) \/ s[n + 1] \notin {CR, LF}})
    IN  CASE style = "ANY" -> IF any = -1 THEN [pos |-> -1, len |-> 0] ELSE [pos |-> any, len |-> run - any]
          [] style = "CRLF_STRICT" -> [pos |-> str, len |-> IF str = -1 THEN 0 ELSE 2]
          [] style = "CRLF" -> IF lf > from /\ s[lf] = CR THEN [pos |-> lf - 1, len |-> 2]
                               ELSE [pos |-> lf, len |-> IF lf = -1 THEN 0 ELSE 1]
          [] style = "LF" -> [pos |-> lf, len |-> IF lf = -1 THEN 0 ELSE 1]

(* On every layout of chains a buffer can have, from every start position: *)
(* evbuffer_search_range finds the first occurrence of a string that lies  *)
(* before the end it is given, across chain boundaries and empty chains;   *)
(* evbuffer_copyout_from copies the bytes that are there; evbuffer_peek    *)
(* counts the vectors they fill.                                           *)
SearchFinds == \A b \in Bufs :
    LET ch == buf[b].ch
        s  == Bytes(ch)
        at(n) == evbuffer_ptr_set(ch, First, n)
    IN  \A from \in 0..Len(s) :
          /\ \A n \in 0..(Len(s) - from) :
                 /\ evbuffer_ptr_set(ch, at(from), n) = at(from + n)
                 /\ evbuffer_copyout_from(ch, at(from), n) = SubSeq(s, from + 1, from + n)
          /\ LET k == evbuffer_peek(ch, from)
             IN  IsPrefix(Take(s, from), Bytes(Take(ch, k)))
                    /\ (k > 0 => Len(Bytes(Take(ch, k - 1))) < from)
          /\ \A w \in Needles :
                 /\ evbuffer_search_range(ch, w, at(from), NotFound).pos
                        = FirstOf(Matches(s, w, from, Len(s)))
                 /\ \A to \in from..Len(s) :
                        evbuffer_search_range(ch, w, at(from), at(to)).pos
                            = FirstOf(Matches(s, w, from, to))

(* evbuffer_search_eol finds the end of the line evbuffer_readln returns,  *)
(* and how many bytes to drain after it, for every style of line ending,   *)
(* wherever the chains break a CR LF apart.                                *)
EolFinds == \A b \in Bufs :
    LET ch == buf[b].ch
        s  == Bytes(ch)
    IN  \A from \in 0..Len(s), style \in {"ANY", "CRLF_STRICT", "CRLF", "LF"} :
            evbuffer_search_eol(ch, evbuffer_ptr_set(ch, First, from), style) = EolAt(s, from, style)

\* Strings and ends of lines are found as their definitions on the bytes say.
SearchesFind == SearchFinds /\ EolFinds
=============================================================================
