------------------------- MODULE TokenBucketProofs --------------------------
(***************************************************************************)
(* What the overflow-safe update of a token bucket leaves, for every width *)
(* of the integers, every configuration that ev_token_bucket_cfg_new       *)
(* accepts and every value the signed type of a bucket can have.           *)
(***************************************************************************)
EXTENDS TokenBuckets, TLAPS

\* The unsigned difference of the two tick counters counts the ticks that
\* passed, wherever the counter wraps.
LEMMA TicksCounted ==
    ASSUME NEW last \in 0..TickMod - 1, NEW n \in 0..INT_MAX
    PROVE n_ticks((last + n) % TickMod, last) = n
<1>1. n < TickMod /\ n <= INT_MAX /\ n \in Nat /\ last \in Nat /\ TickMod \in Nat \ {0}
    BY ModAssumption DEF INT_MAX
<1>2. CASE last + n < TickMod
    <2>1. (last + n) % TickMod = last + n
        BY <1>1, <1>2
    <2>2. (last + n - last) % TickMod = n
        BY <1>1
    <2> QED BY <1>1, <2>1, <2>2 DEF n_ticks, INT_MAX
<1>3. CASE last + n >= TickMod
    <2>1. (last + n) % TickMod = last + n - TickMod
        BY <1>1, <1>3
    <2>2. (last + n - TickMod - last) % TickMod = n
        BY <1>1
    <2> QED BY <1>1, <2>1, <2>2 DEF n_ticks, INT_MAX
<1> QED BY <1>1, <1>2, <1>3

\* One direction of the update: a quotient below the rate means that the
\* naive sum passes the maximum, any other that it does not.
LEMMA QuotientDecides ==
    ASSUME NEW gap \in Nat, NEW n \in Nat \ {0}, NEW rate \in Nat
    PROVE gap \div n < rate <=> n * rate > gap
<1> DEFINE q == gap \div n
<1>1. q \in Nat /\ q * n <= gap /\ gap < (q + 1) * n
    OBVIOUS
<1>2. ASSUME q < rate PROVE n * rate > gap
    <2>1. q + 1 <= rate
        BY <1>1, <1>2
    <2>2. (q + 1) * n <= rate * n
        BY <1>1, <2>1
    <2> QED BY <1>1, <2>2
<1>3. ASSUME ~(q < rate) PROVE ~(n * rate > gap)
    <2>1. rate * n <= q * n
        BY <1>1, <1>3
    <2> QED BY <1>1, <2>1
<1> QED BY <1>2, <1>3

\* A sum that fits ev_ssize_t is kept as it is.
LEMMA SumKept ==
    ASSUME NEW x \in Int, -(SizeMod \div 2) <= x, x < SizeMod \div 2
    PROVE ssize(x) = x
<1> DEFINE half == SizeMod \div 2
<1>1. half \in Nat /\ 2 * half <= SizeMod /\ SizeMod \in Nat \ {0}
    BY ModAssumption
<1>2. x + half \in Nat /\ x + half < SizeMod
    BY <1>1
<1>3. (x + half) % SizeMod = x + half
    BY <1>1, <1>2
<1> QED BY <1>1, <1>3 DEF ssize

\* For every configuration and every value of the bucket, after any number of
\* ticks that the counter can tell apart: ev_token_bucket_update_ leaves the
\* naive sum, cut at the maximum, in a bucket at or below its maximum.  In one
\* that bufferevent_decrement_read_limit and its kin have refilled above the
\* maximum it leaves the uncut sum, until that passes the width of size_t.
THEOREM UpdateExact ==
    ASSUME NEW limit \in -(SizeMod \div 2)..((SizeMod \div 2) - 1), NEW rate \in Nat, NEW maximum \in Nat,
           ev_token_bucket_cfg_new(rate, maximum)
    PROVE Exact(limit, rate, maximum)
<1> SUFFICES ASSUME NEW last \in 0..TickMod - 1, NEW n \in 0..INT_MAX
             PROVE ev_token_bucket_update_(limit, n, rate, maximum)
                       = IF limit <= maximum THEN Naive(limit, n, rate, maximum)
                         ELSE IF n = 0 THEN limit ELSE Unbounded(limit, n, rate, maximum)
    BY TicksCounted DEF Exact
<1> DEFINE half == SizeMod \div 2
<1>1. n \in Nat
    BY ModAssumption DEF INT_MAX
<1>2. half \in Nat /\ 2 * half <= SizeMod /\ SizeMod \in Nat \ {0} /\ limit \in Int
    BY ModAssumption
<1>3. limit >= -half /\ limit < half /\ maximum < half
    BY <1>2 DEF ev_token_bucket_cfg_new
<1>4. n * rate \in Nat
    BY <1>1
<1>5. CASE n = 0
    BY <1>2, <1>5 DEF ev_token_bucket_update_, Naive
<1>6. CASE n # 0 /\ limit <= maximum
    <2>1. maximum - limit \in Nat /\ maximum - limit < SizeMod
        BY <1>2, <1>3, <1>6
    <2>2. (maximum - limit) % SizeMod = maximum - limit
        BY <1>2, <2>1
    <2>3. (maximum - limit) \div n < rate <=> n * rate > maximum - limit
        BY <1>1, <1>6, <2>1, QuotientDecides
    <2>4. n * rate > maximum - limit <=> limit + n * rate > maximum
        BY <1>2, <1>4
    <2>5. CASE n * rate > maximum - limit
        <3>1. ev_token_bucket_update_(limit, n, rate, maximum) = maximum
            BY <1>6, <2>2, <2>3, <2>5 DEF ev_token_bucket_update_
        <3> QED BY <1>6, <2>4, <2>5, <3>1 DEF Naive
    <2>6. CASE ~(n * rate > maximum - limit)
        <3>1. limit + n * rate \in Int /\ -half <= limit + n * rate /\ limit + n * rate < half
            BY <1>2, <1>3, <1>4, <2>4, <2>6
        <3>2. ssize(limit + n * rate) = limit + n * rate
            BY <3>1, SumKept
        <3>3. ev_token_bucket_update_(limit, n, rate, maximum) = limit + n * rate
            BY <1>6, <2>2, <2>3, <2>6, <3>2 DEF ev_token_bucket_update_
        <3> QED BY <1>6, <2>4, <2>6, <3>3 DEF Naive
    <2> QED BY <2>5, <2>6
<1>7. CASE n # 0 /\ ~(limit <= maximum)
    <2> DEFINE gap == SizeMod - (limit - maximum)
    <2>1. gap \in Nat /\ gap < SizeMod /\ maximum - limit = gap - SizeMod
        BY <1>2, <1>3, <1>7
    <2>2. (maximum - limit) % SizeMod = gap
        BY <1>2, <2>1
    <2>3. gap \div n < rate <=> n * rate > gap
        BY <1>1, <1>7, <2>1, QuotientDecides
    <2> QED BY <1>7, <2>2, <2>3 DEF ev_token_bucket_update_, Unbounded
<1> QED BY <1>5, <1>6, <1>7
=============================================================================
