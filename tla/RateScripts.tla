---------------------------- MODULE RateScripts ----------------------------
(***************************************************************************)
(* The built-in Lua scripts of ngx_http_ratelimit_script.c, each an atomic *)
(* read-modify-write of one key in Redis, under a clock.  The locations    *)
(* that apply a zone share its key and may override its burst.             *)
(*                                                                         *)
(* Time is counted in ticks, TPS of them a second.  Fractions are kept     *)
(* exact by scaling: tokens are held in 1/Unit of a token, GCRA's arrival  *)
(* time in 1/requests of a tick; the scripts' own rounding to whole        *)
(* seconds and tokens is kept, their rounding to six decimals is not.      *)
(*                                                                         *)
(* An operator named Mutant... is the definition below it with a plausible *)
(* mistake, kept to see that the properties notice.                        *)
(***************************************************************************)
EXTENDS Integers

CONSTANTS
    Zones,      \* the zones a behaviour may be about
    TPS,        \* ticks per second
    MaxTime     \* bound on the clock, in ticks

Algos == {"fixed_window", "token_bucket", "gcra", "sliding_window"}

\* bursts: the zone's own and those of its locations; quantities likewise.
Zone == [algo: Algos, requests: Nat \ {0}, period: Nat \ {0},
         bursts: SUBSET Nat, quantities: SUBSET Nat]

ASSUME ZonesAssumption == Zones \subseteq Zone
ASSUME TimeAssumption  == TPS \in Nat \ {0} /\ MaxTime \in Nat

\* A zone is applied by finitely many locations, so one burst is the greatest.
ASSUME BurstsAssumption ==
    \A z \in Zones : \E b \in z.bursts : \A c \in z.bursts : c <= b

VARIABLES
    zone,       \* the zone
    now,        \* Redis's clock
    key,        \* the key: whether it is set, its time to live, its value
    admitted    \* history: the quantity admitted up to the end of each tick

vars == <<zone, now, key, admitted>>

\* val is <<count>>, <<tokens, ts>>, <<tat>> or <<c, w, p>>, filled with 0.
Key   == [set: BOOLEAN, ttl: Nat, val: Nat \X Nat \X Nat]
NoKey == [set |-> FALSE, ttl |-> 0, val |-> <<0, 0, 0>>]

\* The time to live and the values the scripts store never leave the naturals.
TypeOK == /\ zone \in Zones /\ now \in 0..MaxTime /\ key \in Key
          /\ admitted \in [0..MaxTime -> Nat]

Init == /\ zone \in Zones /\ now = 0 /\ key = NoKey
        /\ admitted = [t \in 0..MaxTime |-> 0]

-----------------------------------------------------------------------------
(* What the scripts share.                                                 *)

\* The period in ticks.
Unit == zone.period * TPS

MutantCeil(a, b) == a \div b

Ceil(a, b) == -((-a) \div b)                \* math.ceil(a / b)

MutantNonNeg(x) == x

NonNeg(x)     == IF x < 0 THEN 0 ELSE x     \* if x < 0 then x = 0
AtLeastOne(x) == IF x < 1 THEN 1 ELSE x
Least(a, b)   == IF a <= b THEN a ELSE b
Most(a, b)    == IF a >= b THEN a ELSE b

\* Redis's TTL in seconds, rounded to the nearest; -2 without a key.
TTL(k) == IF k.set THEN (k.ttl + TPS \div 2) \div TPS ELSE -2

\* The key set to v with EXPIRE s.
Store(v, s) == [set |-> TRUE, ttl |-> s * TPS, val |-> v]

\* What a call returns and the key it leaves.
Admit(limit, remaining, reset, k) ==
    [status |-> 0, limit |-> limit, remaining |-> remaining,
     retry_after |-> -1, reset |-> reset, key |-> k]
Limit(limit, remaining, retry, reset, k) ==
    [status |-> 1, limit |-> limit, remaining |-> remaining,
     retry_after |-> AtLeastOne(retry), reset |-> reset, key |-> k]
Peek(exhausted, limit, remaining, reset, k) ==
    [status |-> IF exhausted THEN 1 ELSE 0, limit |-> limit,
     remaining |-> remaining, retry_after |-> -1, reset |-> reset, key |-> k]

-----------------------------------------------------------------------------
(* The scripts, called at time t by a location with this burst, for q      *)
(* units, or for a peek.                                                   *)

MutantSpent(current, limit) == current > limit

Spent(current, limit) == current >= limit

FixedWindow(k, t, burst, q) ==
    LET limit   == zone.requests + burst
        current == k.val[1]
        newval  == current + q
        ttl     == IF TTL(k) < 0 THEN zone.period ELSE TTL(k)
    IN  IF q = 0
        THEN Peek(Spent(current, limit), limit, NonNeg(limit - current),
                  NonNeg(TTL(k)), k)
        ELSE IF newval > limit
        THEN Limit(limit, NonNeg(limit - current), ttl, ttl, k)
        ELSE Admit(limit, NonNeg(limit - newval), ttl,
                   IF newval = q THEN Store(<<q, 0, 0>>, zone.period)
                                 ELSE [k EXCEPT !.val[1] = newval])

\* A bucket that never overflows.
MutantRefilled(k, t, capacity) ==
    IF k.set THEN k.val[1] + (t - k.val[2]) * zone.requests ELSE capacity

\* The tokens at time t; an overfull bucket is cut back when time has passed.
Refilled(k, t, capacity) ==
    LET elapsed == t - k.val[2]
    IN  IF ~k.set THEN capacity
        ELSE IF elapsed > 0
        THEN Least(capacity, k.val[1] + elapsed * zone.requests)
        ELSE k.val[1]

\* The time to fill a bucket of the sustained requests only.
MutantBucketTTL(burst) == AtLeastOne(zone.period)

BucketTTL(burst) ==
    AtLeastOne(Ceil((zone.requests + burst) * zone.period, zone.requests))

\* Any token left is enough.
MutantAffords(tokens, q) == tokens > 0

Affords(tokens, q) == tokens >= q * Unit

TokenBucket(k, t, burst, q) ==
    LET limit    == zone.requests + burst
        capacity == limit * Unit
        tokens   == Refilled(k, t, capacity)
        after    == tokens - q * Unit
        ttl      == BucketTTL(burst)
        Reset(x) == NonNeg(Ceil(capacity - x, zone.requests * TPS))
    IN  IF q = 0
        THEN Peek(tokens < Unit, limit, tokens \div Unit, Reset(tokens), k)
        ELSE IF Affords(tokens, q)
        THEN Admit(limit, after \div Unit, Reset(after),
                   Store(<<after, t, 0>>, ttl))
        ELSE Limit(limit, tokens \div Unit, Ceil(-after, zone.requests * TPS),
                   Reset(tokens), Store(<<tokens, t, 0>>, ttl))

\* The emission interval is Unit in GCRA's scaled time.
Gcra(k, t, burst, q) ==
    LET limit      == burst + 1
        at         == t * zone.requests
        tat        == Most(k.val[1], at)
        horizon    == limit * Unit
        new_tat    == tat + q * Unit
        diff       == at - (new_tat - horizon)
        Seconds(x) == Ceil(x, zone.requests * TPS)
        avail      == Least(diff \div Unit, limit)
    IN  IF q = 0
        THEN Peek(avail < 1, limit, avail, NonNeg(Seconds(tat - at)), k)
        ELSE IF diff < 0
        THEN Limit(limit, 0, Seconds(-diff), NonNeg(Seconds(tat - at)), k)
        ELSE Admit(limit, diff \div Unit, NonNeg(Seconds(new_tat - at)),
                   Store(<<new_tat, 0, 0>>, AtLeastOne(Seconds(new_tat - at))))

\* The counts <<current, previous>> as of window win.
Rolled(k, win) ==
    LET c == k.val[1]
        w == k.val[2]
        p == k.val[3]
    IN  IF k.set /\ w = win THEN <<c, p>>
        ELSE IF k.set /\ w = win - 1 THEN <<0, c>>
        ELSE <<0, 0>>

SlidingWindow(k, t, burst, q) ==
    LET limit   == zone.requests + burst
        win     == t \div Unit
        left    == Unit - (t % Unit)
        c       == Rolled(k, win)[1]
        p       == Rolled(k, win)[2]
        Est(n)  == p * left + n * Unit              \* scaled by Unit
        Room(n) == NonNeg((limit * Unit - Est(n)) \div Unit)
        rest    == NonNeg(Ceil(left, TPS))
        headroom == limit - q - c
        retry   == IF p > 0 /\ headroom >= 0
                   THEN Ceil(left * p - headroom * Unit, p * TPS) ELSE rest
    IN  IF q = 0
        THEN Peek(Est(c) >= limit * Unit, limit, Room(c),
                  IF c > 0 \/ p > 0 THEN rest ELSE 0, k)
        ELSE IF Est(c + q) > limit * Unit
        THEN Limit(limit, Room(c), retry, rest, k)
        ELSE Admit(limit, Room(c + q), rest,
                   Store(<<c + q, win, p>>, 2 * zone.period))

Script(k, t, burst, q) ==
    CASE zone.algo = "fixed_window"   -> FixedWindow(k, t, burst, q)
      [] zone.algo = "token_bucket"   -> TokenBucket(k, t, burst, q)
      [] zone.algo = "gcra"           -> Gcra(k, t, burst, q)
      [] zone.algo = "sliding_window" -> SlidingWindow(k, t, burst, q)

-----------------------------------------------------------------------------
\* A location asks; Redis runs the script atomically.
Check(burst, q) ==
    LET result == Script(key, now, burst, q)
    IN  /\ key' = result.key
        /\ admitted' = [admitted EXCEPT
                          ![now] = @ + (IF result.status = 0 THEN q ELSE 0)]
        /\ UNCHANGED <<zone, now>>

\* A key whose time is up is gone within the tick; a call may still be first.
Expire == /\ key.set /\ key.ttl = 0
          /\ key' = NoKey
          /\ UNCHANGED <<zone, now, admitted>>

Tick == /\ now < MaxTime
        /\ key.set => key.ttl > 0
        /\ now' = now + 1
        /\ key' = [key EXCEPT !.ttl = IF key.set THEN @ - 1 ELSE 0]
        /\ admitted' = [admitted EXCEPT ![now + 1] = admitted[now]]
        /\ UNCHANGED zone

Next == \/ \E burst \in zone.bursts, q \in zone.quantities : Check(burst, q)
        \/ Expire
        \/ Tick

Spec == Init /\ [][Next]_vars

-----------------------------------------------------------------------------
(* Properties.                                                             *)

Burst == CHOOSE b \in zone.bursts : \A c \in zone.bursts : c <= b

\* What was admitted since the beginning of tick t, and in the last n + 1 ticks.
Since(t) == admitted[now] - (IF t = 0 THEN 0 ELSE admitted[t - 1])
Spend(n) == Since(now - n)

\* docs/DIRECTIVES.md:212-222: within any period the fixed window admits no
\* more than twice its limit and the sliding window less than that; over any
\* time the bucket and GCRA admit no more than their capacity and what the
\* sustained rate adds (script.c:23-253).
WithinEnvelope ==
    \A n \in 0..now :
        LET limit == zone.requests + Burst
        IN  /\ zone.algo = "fixed_window" /\ n < Unit => Spend(n) <= 2 * limit
            /\ zone.algo = "sliding_window" /\ n < Unit => Spend(n) < 2 * limit
            /\ zone.algo = "token_bucket" =>
                 Spend(n) * Unit <= limit * Unit + n * zone.requests
            /\ zone.algo = "gcra" =>
                 Spend(n) * Unit <= (Burst + 1) * Unit + n * zone.requests

\* v is no more than some location may use up by time t.
Within(v, t) ==
    \E burst \in zone.bursts :
        /\ zone.algo \in {"fixed_window", "sliding_window"} =>
             v <= zone.requests + burst
        /\ zone.algo = "token_bucket" => v <= (zone.requests + burst) * Unit
        /\ zone.algo = "gcra" => v <= t * zone.requests + (burst + 1) * Unit

\* What Redis keeps between two calls is within the limit of some location:
\* no order of calls by different locations, no passing of time and no expiry
\* drives a count over its limit, a bucket over its capacity or an arrival
\* time beyond its horizon (script.c:37, 95, 164, 236).
StoredWithinLimits == key.set => Within(key.val[1], now)

\* script.c:4-11: whatever a location asks, the five integers are ones
\* reply.c takes, a denial says when to come back, and nobody is told that
\* more is left than the limit.
RepliesInContract ==
    \A burst \in zone.bursts, q \in zone.quantities :
        LET r == Script(key, now, burst, q)
        IN  /\ r.limit >= 0 /\ r.remaining >= 0 /\ r.reset >= 0
            /\ IF r.status = 1 /\ q > 0 THEN r.retry_after >= 1
                                        ELSE r.retry_after = -1
            /\ r.status = 0 /\ q > 0 => r.remaining + q <= r.limit

\* CHANGELOG.md:179: a peek says "limited" only when one unit would be refused,
\* and always then; except that the sliding window, which peeks at whole units
\* (script.c:231), may say "allowed" of a fraction of one.
PeekAgrees ==
    \A burst \in zone.bursts :
        LET peek == Script(key, now, burst, 0).status
            one  == Script(key, now, burst, 1).status
        IN  /\ peek = 1 => one = 1
            /\ one = 1 => peek = 1 \/ zone.algo = "sliding_window"

\* The key after d more ticks of quiet; both outcomes if it just runs out.
After(k, d) ==
    (IF k.set /\ k.ttl >= d THEN {[k EXCEPT !.ttl = @ - d]} ELSE {})
    \cup (IF ~k.set \/ k.ttl <= d THEN {NoKey} ELSE {})

\* docs/DIRECTIVES.md:241: who is refused by the bucket or by
\* GCRA and waits for Retry-After seconds is admitted, if nobody else came
\* in between and the quantity can ever be admitted.
RetryAfterSuffices ==
    \A burst \in zone.bursts, q \in zone.quantities :
        LET r == Script(key, now, burst, q)
            d == r.retry_after * TPS
        IN  zone.algo \in {"token_bucket", "gcra"} /\ r.status = 1
              /\ 0 < q /\ q <= r.limit =>
                \A k \in After(r.key, d) :
                    Script(k, now + d, burst, q).status = 0

\* How near the windows come to that: the fixed window's Retry-After, Redis's
\* rounded TTL, is short by less than a second, and the sliding window's
\* suffices if the wait ends in the window in which it was advised
\* (script.c:42, 238-243).
WindowRetrySuffices ==
    \A burst \in zone.bursts, q \in zone.quantities :
        LET r == Script(key, now, burst, q)
            wait == r.retry_after * TPS
            Admits(d) == \A k \in After(r.key, d) :
                             Script(k, now + d, burst, q).status = 0
        IN  r.status = 1 /\ 0 < q /\ q <= r.limit =>
                /\ zone.algo = "fixed_window" => Admits(wait + TPS)
                /\ zone.algo = "sliding_window"
                     /\ (now + wait) \div Unit = now \div Unit => Admits(wait)

\* Apart from the fixed window, whose rollover it is, the expiry of a key
\* changes no verdict: EXPIRE never forgets what still counts
\* (script.c:98, 175, 249).
ExpiryForgetsNothing ==
    key.set /\ key.ttl = 0 /\ zone.algo # "fixed_window" =>
        \A burst \in zone.bursts, q \in zone.quantities :
            Script(key, now, burst, q).status = Script(NoKey, now, burst, q).status

\* docs/CUSTOM_SCRIPT.md:43, the contract shared with the built-in scripts:
\* `remaining' is a natural number.
RemainingIsNatural ==
    \A burst \in zone.bursts, q \in zone.quantities :
        Script(key, now, burst, q).remaining >= 0

\* docs/DIRECTIVES.md:215-216: a bucket refills at requests / period tokens a
\* second, so what it admits is bounded by its capacity and that rate.
BucketRefillsAtRate ==
    \A n \in 0..now : zone.algo = "token_bucket" =>
        Spend(n) * Unit <= (zone.requests + Burst) * Unit + n * zone.requests
=============================================================================
