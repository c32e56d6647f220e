---------------------------- MODULE TokenBuckets ----------------------------
(***************************************************************************)
(* The token buckets of bufferevent_ratelim.c.  A bucket holds a signed    *)
(* number of bytes; each tick adds `rate' to it, up to `maximum'.  The C   *)
(* code computes in unsigned arithmetic of a fixed width: SizeMod is 2^64  *)
(* for size_t and TickMod is 2^32 for the tick counter.                    *)
(***************************************************************************)
EXTENDS Integers

CONSTANTS SizeMod, TickMod

ASSUME ModAssumption == SizeMod \in Nat \ {0} /\ TickMod \in Nat \ {0}

INT_MAX == TickMod \div 2 - 1

\* ev_token_bucket_cfg_new accepts these rates and bursts only.
ev_token_bucket_cfg_new(rate, burst) == rate <= burst /\ rate >= 1 /\ burst < SizeMod \div 2

\* Ticks since the last update, by unsigned subtraction; a clock that went
\* back gives more than INT_MAX and counts for nothing.
n_ticks(current_tick, last_updated) ==
    LET n == (current_tick - last_updated) % TickMod
    IN IF n > INT_MAX THEN 0 ELSE n

\* A value of ev_ssize_t: what is left of a sum computed in size_t.
ssize(x) == ((x + SizeMod \div 2) % SizeMod) - (SizeMod \div 2)

\* One direction of ev_token_bucket_update_.  The difference is unsigned, and
\* large when the program has refilled the bucket above its maximum.
ev_token_bucket_update_(limit, n, rate, maximum) ==
    IF n = 0 THEN limit
    ELSE IF ((maximum - limit) % SizeMod) \div n < rate THEN maximum ELSE ssize(limit + n * rate)

\* One direction of ev_token_bucket_init_.
ev_token_bucket_init_(limit, rate, maximum, reinitialize) ==
    IF ~reinitialize THEN rate ELSE IF limit > maximum THEN maximum ELSE limit

\* What the comment in ev_token_bucket_update_ calls the naive update.
Naive(limit, n, rate, maximum) ==
    IF limit + n * rate > maximum THEN maximum ELSE limit + n * rate

\* What the update leaves of a bucket above its maximum: it goes on adding,
\* until the sum passes the width of size_t.
Unbounded(limit, n, rate, maximum) ==
    IF n * rate > SizeMod - (limit - maximum) THEN maximum ELSE ssize(limit + n * rate)

\* After n ticks from any tick on, also when the tick counter wraps in
\* between, the update leaves what the naive one would in a bucket at or
\* below its maximum, and the unbounded sum in one above it.
Exact(limit, rate, maximum) ==
    \A last \in 0..TickMod - 1, n \in 0..INT_MAX :
        ev_token_bucket_update_(limit, n_ticks((last + n) % TickMod, last), rate, maximum)
            = IF limit <= maximum THEN Naive(limit, n, rate, maximum)
              ELSE IF n = 0 THEN limit ELSE Unbounded(limit, n, rate, maximum)

\* bufferevent_rate_limit_group_set_min_share: no more than one tick's rate.
min_share(configured, rate) == IF configured > rate THEN rate ELSE configured

=============================================================================
