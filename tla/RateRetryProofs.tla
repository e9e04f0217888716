--------------------------- MODULE RateRetryProofs ---------------------------
(***************************************************************************)
(* What a peek and a Retry-After of the scripts of RateScripts are worth,  *)
(* for every zone, every burst, every quantity and every granularity of    *)
(* the clock.  Both hold of every state of the right type: they are about  *)
(* two calls, and need no account of how the first found the key.          *)
(***************************************************************************)
EXTENDS RateEnvelopeProofs

-----------------------------------------------------------------------------
(* A peek and a call for one unit.                                         *)

\* One whole unit is left exactly when the quotient says so.
LEMMA WholeUnit ==
    ASSUME NEW a \in Int, NEW u \in Nat \ {0}
    PROVE  a \div u < 1 <=> a < u
<1> DEFINE d == a \div u
           m == d * u
<1>1. d \in Int /\ m \in Int /\ m <= a /\ a < m + u
  BY DivBounds
<1> HIDE DEF d
<1>2. d <= 0 => m <= 0
  <2>1. 0 * u = 0
    OBVIOUS
  <2> QED
    BY <1>1, <2>1, Monotone
<1>3. 1 <= d => u <= m
  <2>1. 1 * u = u
    OBVIOUS
  <2> QED
    BY <1>1, <2>1, Monotone
<1> HIDE DEF m
<1>4. d < 1 <=> a < u
  BY <1>1, <1>2, <1>3
<1> QED
  BY <1>4 DEF d

LEMMA FixedWindowPeek ==
    ASSUME TypeOK, zone.algo = "fixed_window", NEW burst \in zone.bursts
    PROVE  FixedWindow(key, now, burst, 0).status = 1
             <=> FixedWindow(key, now, burst, 1).status = 1
<1> DEFINE limit == zone.requests + burst
           current == key.val[1]
<1>1. limit \in Nat /\ current \in Nat
  BY StateFacts, BurstFacts
<1>2. FixedWindow(key, now, burst, 0).status
        = IF current >= limit THEN 1 ELSE 0
  BY DEF FixedWindow, Peek, Spent
<1>3. FixedWindow(key, now, burst, 1).status
        = IF current + 1 > limit THEN 1 ELSE 0
  BY DEF FixedWindow, Limit, Admit
<1> QED
  BY <1>1, <1>2, <1>3

LEMMA BucketPeek ==
    ASSUME TypeOK, zone.algo = "token_bucket", NEW burst \in zone.bursts
    PROVE  TokenBucket(key, now, burst, 0).status = 1
             <=> TokenBucket(key, now, burst, 1).status = 1
<1> DEFINE tokens == Refilled(key, now, (zone.requests + burst) * Unit)
<1>1. Unit \in Nat /\ 1 * Unit = Unit
  BY StateFacts
<1>2. tokens \in Int
  <2>1. /\ zone.requests \in Nat /\ burst \in Nat /\ now \in Nat
        /\ key.val[1] \in Nat /\ key.val[2] \in Nat
    BY StateFacts, BurstFacts
  <2> DEFINE x == (zone.requests + burst) * Unit
             y == key.val[1] + (now - key.val[2]) * zone.requests
  <2>2. x \in Int /\ y \in Int
    BY <1>1, <2>1
  <2>3. tokens = IF ~key.set THEN x ELSE IF now - key.val[2] > 0
                 THEN Least(x, y) ELSE key.val[1]
    BY DEF Refilled
  <2> HIDE DEF x, y
  <2> QED
    BY <2>1, <2>2, <2>3 DEF Least
<1>3. TokenBucket(key, now, burst, 0).status = IF tokens < Unit THEN 1 ELSE 0
  BY DEF TokenBucket, Peek
<1>4. TokenBucket(key, now, burst, 1).status = IF tokens >= Unit THEN 0 ELSE 1
  BY <1>1 DEF TokenBucket, Affords, Limit, Admit
<1> HIDE DEF tokens
<1> QED
  BY <1>1, <1>2, <1>3, <1>4

LEMMA GcraPeek ==
    ASSUME TypeOK, zone.algo = "gcra", NEW burst \in zone.bursts
    PROVE  Gcra(key, now, burst, 0).status = 1
             <=> Gcra(key, now, burst, 1).status = 1
<1> DEFINE limit == burst + 1
           at == now * zone.requests
           tat == Most(key.val[1], at)
           horizon == limit * Unit
           diff == at - (tat - horizon)
           avail == Least(diff \div Unit, limit)
<1>1. /\ limit \in Nat /\ limit >= 1 /\ Unit \in Nat \ {0} /\ now \in Nat
      /\ key.val[1] \in Nat /\ zone.requests \in Nat
  BY StateFacts, BurstFacts
<1>2. at \in Nat /\ horizon \in Nat
  BY <1>1, ProductFacts
<1>3. tat \in Nat
  <2> HIDE DEF at
  <2> QED
    BY <1>1, <1>2 DEF Most
<1>4. /\ 0 * Unit = 0 /\ 1 * Unit = Unit
      /\ tat + 0 = tat
  BY <1>1, <1>3
<1>5. Gcra(key, now, burst, 0).status = IF avail < 1 THEN 1 ELSE 0
  BY <1>4 DEF Gcra, Peek
<1>6. Gcra(key, now, burst, 1).status
        = IF at - ((tat + Unit) - horizon) < 0 THEN 1 ELSE 0
  BY <1>4 DEF Gcra, Limit, Admit
<1> HIDE DEF at, tat, horizon
<1>7. diff \in Int /\ (at - ((tat + Unit) - horizon) < 0 <=> diff < Unit)
  BY <1>1, <1>2, <1>3
<1> HIDE DEF diff
<1>8. diff \div Unit \in Int /\ (diff \div Unit < 1 <=> diff < Unit)
  BY <1>1, <1>7, DivBounds, WholeUnit
<1>9. avail < 1 <=> diff \div Unit < 1
  BY <1>1, <1>8 DEF Least
<1> QED
  BY <1>5, <1>6, <1>7, <1>8, <1>9

LEMMA SlidingPeek ==
    ASSUME TypeOK, zone.algo = "sliding_window", NEW burst \in zone.bursts
    PROVE  SlidingWindow(key, now, burst, 0).status = 1
             => SlidingWindow(key, now, burst, 1).status = 1
<1> DEFINE limit == zone.requests + burst
           win == now \div Unit
           left == Unit - (now % Unit)
           c == Rolled(key, win)[1]
           p == Rolled(key, win)[2]
           x == p * left
           y == c * Unit
           z == limit * Unit
<1>1. /\ limit \in Nat /\ Unit \in Nat \ {0} /\ now \in Nat
  BY StateFacts, BurstFacts
<1>2. win \in Nat /\ left \in 1..Unit
  BY <1>1, WindowFacts
<1>3. c \in Nat /\ p \in Nat
  <2> HIDE DEF win
  <2> QED
    BY <1>2, RolledType
<1>4. (c + 1) * Unit = y + Unit
  <2> HIDE DEF c
  <2>1. (c + 1) * Unit = c * Unit + 1 * Unit /\ 1 * Unit = Unit
    BY <1>1, <1>3, Distribute
  <2> QED
    BY <2>1
<1>5. SlidingWindow(key, now, burst, 0).status = IF x + y >= z THEN 1 ELSE 0
  BY DEF SlidingWindow, Peek
<1>6. SlidingWindow(key, now, burst, 1).status
        = IF x + (c + 1) * Unit > z THEN 1 ELSE 0
  BY DEF SlidingWindow, Limit, Admit
<1>7. x \in Nat /\ y \in Nat /\ z \in Nat
  <2> HIDE DEF left, c, p, limit
  <2> QED
    BY <1>1, <1>2, <1>3, ProductFacts
<1> HIDE DEF x, y, z
<1>8. x + y >= z => x + (y + Unit) > z
  BY <1>1, <1>7
<1> QED
  BY <1>4, <1>5, <1>6, <1>8

\* CHANGELOG.md:179: a peek says "limited" only when a call for one unit would
\* be refused, and always then, save that the sliding window may say "allowed"
\* of a fraction of a unit: whatever is stored, whichever location asks
\* (script.c:44, 104, 169, 231).
THEOREM PeekTellsTheVerdict == Spec => []PeekAgrees
<1>1. TypeOK => PeekAgrees
  <2> SUFFICES ASSUME TypeOK, NEW burst \in zone.bursts
               PROVE  LET peek == Script(key, now, burst, 0).status
                          one  == Script(key, now, burst, 1).status
                      IN  /\ peek = 1 => one = 1
                          /\ one = 1
                               => peek = 1 \/ zone.algo = "sliding_window"
    BY DEF PeekAgrees
  <2>1. zone.algo \in Algos
    BY ZonesAssumption DEF TypeOK, Zone
  <2>2. CASE zone.algo = "fixed_window"
    BY <2>2, FixedWindowPeek DEF Script
  <2>3. CASE zone.algo = "token_bucket"
    BY <2>3, BucketPeek DEF Script
  <2>4. CASE zone.algo = "gcra"
    BY <2>4, GcraPeek DEF Script
  <2>5. CASE zone.algo = "sliding_window"
    BY <2>5, SlidingPeek DEF Script
  <2> QED
    BY <2>1, <2>2, <2>3, <2>4, <2>5 DEF Algos
<1> QED
  BY <1>1, ScriptsTypeCorrect, PTL

-----------------------------------------------------------------------------
(* A Retry-After and the call made after it.                               *)

\* A key left alone either keeps what it holds or is gone.
LEMMA AfterFacts ==
    ASSUME NEW k \in Key, NEW d \in Nat, NEW later \in After(k, d)
    PROVE  \/ later = NoKey
           \/ /\ k.set /\ later.set /\ later.val = k.val
              /\ k.ttl >= d
<1>1. CASE later = NoKey
  BY <1>1
<1>2. CASE later # NoKey
  <2>1. k.set /\ k.ttl >= d /\ later = [k EXCEPT !.ttl = k.ttl - d]
    BY <1>2 DEF After
  <2> QED
    BY <2>1 DEF Key
<1> QED
  BY <1>1, <1>2

\* Advised seconds, in ticks.
LEMMA WaitType ==
    ASSUME TypeOK, NEW x \in Int
    PROVE  /\ AtLeastOne(x) \in Nat \ {0} /\ x <= AtLeastOne(x)
           /\ AtLeastOne(x) * TPS \in Nat \ {0}
<1>1. AtLeastOne(x) \in Nat \ {0} /\ x <= AtLeastOne(x)
  BY DEF AtLeastOne
<1>2. TPS \in Nat \ {0}
  BY StateFacts
<1>3. ASSUME NEW a \in Nat \ {0}, NEW b \in Nat \ {0}
      PROVE  a * b \in Nat \ {0}
  BY <1>3
<1> QED
  BY <1>1, <1>2, <1>3

\* Waiting for the advised seconds earns what was missing: in scaled units, a
\* wait earns requests for each of its ticks.
LEMMA WaitEarns ==
    ASSUME TypeOK, NEW missing \in Int
    PROVE  LET wait == AtLeastOne(Ceil(missing, zone.requests * TPS)) * TPS
           IN  wait \in Nat \ {0} /\ wait * zone.requests \in Nat
                 /\ missing <= wait * zone.requests
<1> DEFINE second == zone.requests * TPS
           up == Ceil(missing, second)
           retry == AtLeastOne(up)
           wait == retry * TPS
<1>1. zone.requests \in Nat \ {0} /\ TPS \in Nat \ {0}
  BY StateFacts
<1>2. second \in Nat \ {0}
  <2>1. second \in Nat /\ second # 0
    BY <1>1
  <2> QED
    BY <2>1
<1>3. up \in Int /\ missing <= up * second
  <2> HIDE DEF second
  <2> QED
    BY <1>2, CeilCovers
<1> HIDE DEF up
<1>4. retry \in Nat \ {0} /\ up <= retry /\ wait \in Nat \ {0}
  BY <1>3, WaitType
<1> HIDE DEF retry
<1>5. up * second <= retry * second
  <2> HIDE DEF second
  <2> QED
    BY <1>2, <1>3, <1>4, Monotone
<1>6. retry * second = wait * zone.requests
  BY <1>1, <1>4
<1>7. missing <= wait * zone.requests
  <2> DEFINE x == up * second
             y == retry * second
  <2>1. x \in Int /\ y \in Int /\ missing <= x /\ x <= y
    <3> HIDE DEF second
    <3> QED
      BY <1>2, <1>3, <1>4, <1>5
  <2> HIDE DEF x, y
  <2>2. missing <= y
    BY <2>1
  <2> QED
    BY <1>6, <2>2 DEF y
<1>8. wait * zone.requests \in Nat
  <2> HIDE DEF wait
  <2> QED
    BY <1>1, <1>4, ProductFacts
<1> QED
  BY <1>4, <1>7, <1>8 DEF retry, up

LEMMA BucketRetry ==
    ASSUME IInv, zone.algo = "token_bucket", NEW burst, NEW q, Call(burst, q),
           0 < q, q <= zone.requests + burst,
           TokenBucket(key, now, burst, q).status = 1
    PROVE  LET r == TokenBucket(key, now, burst, q)
               wait == r.retry_after * TPS
           IN  /\ wait \in Nat
               /\ \A k \in After(r.key, wait) :
                    TokenBucket(k, now + wait, burst, q).status = 0
<1> DEFINE limit == zone.requests + burst
           capacity == limit * Unit
           tokens == Refilled(key, now, capacity)
           cost == q * Unit
           after == tokens - cost
           second == zone.requests * TPS
           ttl == BucketTTL(burst)
           r == TokenBucket(key, now, burst, q)
           wait == r.retry_after * TPS
           gain == wait * zone.requests
<1>1. /\ TypeOK /\ limit \in Nat /\ q \in Nat /\ Unit \in Nat \ {0}
      /\ now \in Nat /\ zone.requests \in Nat
  BY ZoneFacts DEF IInv
<1>2. capacity \in Nat /\ cost \in Nat /\ cost <= capacity
  <2> HIDE DEF limit
  <2> QED
    BY <1>1, ProductFacts, Monotone DEF limit
<1>3. tokens \in Nat
  BY RefilledFacts
<1>4. ~(tokens >= cost)
  <2> SUFFICES ASSUME tokens >= cost PROVE FALSE
    OBVIOUS
  <2>1. r.status = 0
    BY DEF TokenBucket, Affords, Admit
  <2> QED
    BY <2>1
<1>5. /\ r.retry_after = AtLeastOne(Ceil(-after, second))
      /\ r.key = Store(<<tokens, now, 0>>, ttl)
  <2>1. q # 0
    OBVIOUS
  <2>2. r = Limit(limit, tokens \div Unit, Ceil(-after, second),
                  NonNeg(Ceil(capacity - tokens, second)),
                  Store(<<tokens, now, 0>>, ttl))
    BY <1>4, <2>1 DEF TokenBucket, Affords
  <2> HIDE DEF r, limit, tokens, second, ttl, after
  <2> QED
    BY <2>2 DEF Limit
<1>6. wait \in Nat \ {0} /\ gain \in Nat /\ -after <= gain
  <2> DEFINE missing == -after
  <2>1. missing \in Int
    BY <1>2, <1>3
  <2>2. wait = AtLeastOne(Ceil(missing, second)) * TPS
    BY <1>5
  <2> HIDE DEF wait, missing
  <2>3. wait \in Nat \ {0} /\ gain \in Nat /\ missing <= gain
    BY <1>1, <2>1, <2>2, WaitEarns
  <2> QED
    BY <2>3 DEF missing
<1> HIDE DEF wait
<1>7. ASSUME NEW k \in After(r.key, wait)
      PROVE  Refilled(k, now + wait, capacity) >= cost
  <2> DEFINE stored == r.key
             later == now + wait
  <2>1. stored \in Key
    <3>1. ttl \in Nat
      <4>1. /\ zone.requests \in Nat \ {0}
            /\ (zone.requests + burst) * zone.period \in Int
        BY ZoneFacts DEF IInv
      <4> QED
        BY <4>1, DivFacts DEF BucketTTL
    <3>2. TPS \in Nat \ {0}
      BY <1>1, StateFacts
    <3> HIDE DEF tokens, ttl, r
    <3> QED
      BY <1>1, <1>3, <1>5, <3>1, <3>2, StoreFacts
  <2>2. stored.val[1] = tokens /\ stored.val[2] = now
    <3> HIDE DEF tokens, ttl, r
    <3> QED
      BY <1>5 DEF Store
  <2> HIDE DEF stored
  <2>3. \/ k = NoKey
        \/ k.set /\ k.val[1] = tokens /\ k.val[2] = now
    BY <1>6, <2>1, <2>2, AfterFacts DEF stored
  <2>4. CASE k = NoKey
    <3>1. Refilled(k, later, capacity) = capacity
      BY <2>4 DEF Refilled, NoKey
    <3> QED
      BY <1>2, <3>1
  <2>5. CASE k.set /\ k.val[1] = tokens /\ k.val[2] = now
    <3>1. later - k.val[2] = wait /\ later - k.val[2] > 0
      BY <1>1, <1>6, <2>5
    <3> HIDE DEF later, tokens, capacity
    <3>2. Refilled(k, later, capacity) = Least(capacity, tokens + gain)
      BY <2>5, <3>1 DEF Refilled
    <3> HIDE DEF gain, cost
    <3>3. cost <= tokens + gain
      BY <1>2, <1>3, <1>6
    <3>4. Least(capacity, tokens + gain) >= cost
      BY <1>2, <3>3 DEF Least
    <3> QED
      BY <3>2, <3>4 DEF later
  <2> QED
    BY <2>3, <2>4, <2>5
<1>8. ASSUME NEW k \in After(r.key, wait)
      PROVE  TokenBucket(k, now + wait, burst, q).status = 0
  <2>1. Refilled(k, now + wait, capacity) >= cost /\ q # 0
    BY <1>7
  <2> QED
    BY <2>1 DEF TokenBucket, Affords, Admit
<1> QED
  BY <1>6, <1>8 DEF wait

LEMMA GcraRetry ==
    ASSUME IInv, zone.algo = "gcra", NEW burst, NEW q, Call(burst, q),
           0 < q, q <= burst + 1, Gcra(key, now, burst, q).status = 1
    PROVE  LET r == Gcra(key, now, burst, q)
               wait == r.retry_after * TPS
           IN  /\ wait \in Nat
               /\ \A k \in After(r.key, wait) :
                    Gcra(k, now + wait, burst, q).status = 0
<1> DEFINE limit == burst + 1
           at == now * zone.requests
           tat == Most(key.val[1], at)
           horizon == limit * Unit
           cost == q * Unit
           diff == at - ((tat + cost) - horizon)
           second == zone.requests * TPS
           r == Gcra(key, now, burst, q)
           wait == r.retry_after * TPS
           gain == wait * zone.requests
<1>1. /\ TypeOK /\ limit \in Nat /\ q \in Nat /\ Unit \in Nat \ {0}
      /\ now \in Nat /\ zone.requests \in Nat /\ key.val[1] \in Nat
  BY ZoneFacts DEF IInv
<1>2. at \in Nat /\ horizon \in Nat /\ cost \in Nat /\ cost <= horizon
  <2> HIDE DEF limit
  <2> QED
    BY <1>1, ProductFacts, Monotone DEF limit
<1>3. tat \in Nat
  <2> HIDE DEF at
  <2> QED
    BY <1>1, <1>2 DEF Most
<1>4. diff \in Int /\ diff < 0
  <2>1. diff \in Int
    <3> HIDE DEF at, tat, cost, horizon
    <3> QED
      BY <1>2, <1>3
  <2>2. ~(diff < 0) => r.status = 0
    BY DEF Gcra, Admit
  <2> QED
    BY <2>1, <2>2
<1>5. r.retry_after = AtLeastOne(Ceil(-diff, second)) /\ r.key = key
  <2>1. q # 0
    OBVIOUS
  <2>2. r = Limit(limit, 0, Ceil(-diff, second),
                  NonNeg(Ceil(tat - at, second)), key)
    BY <1>4, <2>1 DEF Gcra
  <2> HIDE DEF r, limit, tat, at, diff, second
  <2> QED
    BY <2>2 DEF Limit
<1>6. wait \in Nat \ {0} /\ gain \in Nat /\ -diff <= gain
  <2> DEFINE missing == -diff
  <2>1. missing \in Int
    BY <1>4
  <2>2. wait = AtLeastOne(Ceil(missing, second)) * TPS
    BY <1>5
  <2> HIDE DEF wait, missing
  <2>3. wait \in Nat \ {0} /\ gain \in Nat /\ missing <= gain
    BY <1>1, <2>1, <2>2, WaitEarns
  <2> QED
    BY <2>3 DEF missing
<1> HIDE DEF wait
<1>7. ASSUME NEW k \in After(key, wait)
      PROVE  Gcra(k, now + wait, burst, q).status = 0
  <2> DEFINE then == (now + wait) * zone.requests
             arrival == Most(k.val[1], then)
             room == then - ((arrival + cost) - horizon)
  <2>1. then = at + gain
    BY <1>1, <1>6, Distribute
  <2>2. k.val[1] = 0 \/ k.val[1] = key.val[1]
    <3>1. k = NoKey \/ k.val = key.val
      BY <1>1, <1>6, AfterFacts DEF TypeOK
    <3> QED
      BY <3>1 DEF NoKey
  <2>3. room >= 0
    <3> DEFINE seen == k.val[1]
               held == key.val[1]
    <3>1. /\ seen = 0 \/ seen = held
          /\ held \in Nat /\ tat = Most(held, at) /\ arrival = Most(seen, then)
      BY <1>1, <2>2
    <3> HIDE DEF seen, held, then, gain, at, horizon, cost, tat, arrival
    <3>2. then \in Nat /\ at <= then /\ arrival \in Nat
      BY <1>2, <1>6, <2>1, <3>1 DEF Most
    <3>3. CASE arrival = then
      BY <1>2, <3>2, <3>3
    <3>4. CASE arrival # then
      <4>1. arrival = held /\ held > at /\ tat = held
        BY <1>2, <3>1, <3>2, <3>4 DEF Most
      <4> QED
        BY <1>2, <1>3, <1>6, <2>1, <3>1, <3>2, <4>1
    <3> QED
      BY <3>3, <3>4
  <2>4. q # 0 /\ room \in Int /\ ~(room < 0)
    <3>1. then \in Int /\ arrival \in Int
      <4>1. then \in Nat
        <5> HIDE DEF gain, at, then
        <5> QED
          BY <1>2, <1>6, <2>1
      <4>2. k.val[1] \in Nat
        BY <1>1, <2>2
      <4> HIDE DEF then
      <4> QED
        BY <4>1, <4>2 DEF Most
    <3> HIDE DEF then, arrival, cost, horizon
    <3>2. room \in Int
      BY <1>2, <3>1
    <3> HIDE DEF room
    <3> QED
      BY <2>3, <3>2
  <2>5. Gcra(k, now + wait, burst, q)
          = Admit(limit, room \div Unit,
                  NonNeg(Ceil((arrival + cost) - then, second)),
                  Store(<<arrival + cost, 0, 0>>,
                        AtLeastOne(Ceil((arrival + cost) - then, second))))
    BY <2>4 DEF Gcra
  <2> QED
    BY <2>5 DEF Admit
<1> QED
  BY <1>5, <1>6, <1>7 DEF wait

\* docs/DIRECTIVES.md:241: who is refused by the bucket or by GCRA and waits
\* for Retry-After seconds is admitted, if nobody else came in between and the
\* quantity fits the limit; also when the key runs out of time while he waits,
\* or just as he calls (script.c:107-118, 171-177).
THEOREM RetryAfterIsEnough == Spec => []RetryAfterSuffices
<1>1. IInv => RetryAfterSuffices
  <2> SUFFICES ASSUME IInv, NEW burst \in zone.bursts,
                      NEW q \in zone.quantities,
                      zone.algo \in {"token_bucket", "gcra"},
                      Script(key, now, burst, q).status = 1,
                      0 < q, q <= Script(key, now, burst, q).limit
               PROVE  LET r == Script(key, now, burst, q)
                          d == r.retry_after * TPS
                      IN  \A k \in After(r.key, d) :
                            Script(k, now + d, burst, q).status = 0
    BY DEF RetryAfterSuffices
  <2>1. Call(burst, q) /\ q # 0
    BY ZoneFacts DEF Call, IInv
  <2>2. CASE zone.algo = "token_bucket"
    <3>1. \A k, t : Script(k, t, burst, q) = TokenBucket(k, t, burst, q)
      BY <2>2 DEF Script
    <3>2. TokenBucket(key, now, burst, q).limit = zone.requests + burst
      BY DEF TokenBucket, Peek, Admit, Limit
    <3> QED
      BY <2>1, <2>2, <3>1, <3>2, BucketRetry
  <2>3. CASE zone.algo = "gcra"
    <3>1. \A k, t : Script(k, t, burst, q) = Gcra(k, t, burst, q)
      BY <2>3 DEF Script
    <3>2. Gcra(key, now, burst, q).limit = burst + 1
      BY DEF Gcra, Peek, Admit, Limit
    <3> QED
      BY <2>1, <2>3, <3>1, <3>2, GcraRetry
  <2> QED
    BY <2>2, <2>3
<1> QED
  BY <1>1, Inductive, PTL

\* A second more than Redis's rounded TTL outlives the key.
LEMMA SecondMore ==
    ASSUME NEW s \in Nat, NEW u \in Nat \ {0}, NEW retry \in Nat,
           (s + u \div 2) \div u <= retry
    PROVE  s < retry * u + u
<1> DEFINE half == u \div 2
           total == s + half
           d == total \div u
<1>1. half \in Nat
  BY DivNat
<1> HIDE DEF half
<1>2. total \in Nat
  BY <1>1
<1>3. s <= total
  BY <1>1
<1> HIDE DEF total
<1>4. d \in Int /\ total < d * u + u
  BY <1>2, DivBounds
<1>5. d <= retry
  BY DEF total, half
<1> HIDE DEF d
<1>6. d * u <= retry * u
  BY <1>4, <1>5, Monotone
<1> DEFINE x == d * u
           y == retry * u
<1>7. x \in Int /\ y \in Int
  BY <1>4
<1> HIDE DEF x, y
<1>8. total < x + u /\ x <= y
  BY <1>4, <1>6 DEF x, y
<1>9. s < y + u
  BY <1>2, <1>3, <1>7, <1>8
<1> QED
  BY <1>9 DEF y

LEMMA FixedWindowRetry ==
    ASSUME IInv, zone.algo = "fixed_window", NEW burst, NEW q, Call(burst, q),
           0 < q, q <= zone.requests + burst,
           FixedWindow(key, now, burst, q).status = 1
    PROVE  LET r == FixedWindow(key, now, burst, q)
               wait == r.retry_after * TPS + TPS
           IN  \A k \in After(r.key, wait) :
                    FixedWindow(k, now + wait, burst, q).status = 0
<1> DEFINE limit == zone.requests + burst
           current == key.val[1]
           ttl == IF TTL(key) < 0 THEN zone.period ELSE TTL(key)
           r == FixedWindow(key, now, burst, q)
           wait == r.retry_after * TPS + TPS
<1>1. /\ TypeOK /\ limit \in Nat /\ q \in Nat /\ current \in Nat
      /\ TPS \in Nat \ {0} /\ zone.period \in Nat /\ key.ttl \in Nat
  BY ZoneFacts DEF IInv
<1>2. r.retry_after = AtLeastOne(ttl) /\ r.key = key
  <2>1. current + q > limit
    <3> SUFFICES ASSUME ~(current + q > limit) PROVE FALSE
      OBVIOUS
    <3>1. r.status = 0
      BY DEF FixedWindow, Admit
    <3> QED
      BY <3>1
  <2>2. q # 0
    OBVIOUS
  <2>3. r = Limit(limit, NonNeg(limit - current), ttl, ttl, key)
    BY <2>1, <2>2 DEF FixedWindow
  <2> HIDE DEF r, limit, current, ttl
  <2> QED
    BY <2>3 DEF Limit
<1>3. ttl \in Int
  BY <1>1, TTLType
<1>4. AtLeastOne(ttl) \in Nat \ {0} /\ ttl <= AtLeastOne(ttl)
  <2> HIDE DEF ttl
  <2> QED
    BY <1>1, <1>3, WaitType
<1>5. wait \in Nat
  <2> DEFINE retry == AtLeastOne(ttl)
  <2>1. retry \in Nat /\ wait = retry * TPS + TPS
    BY <1>2, <1>4
  <2> HIDE DEF retry, wait
  <2>2. retry * TPS \in Nat
    BY <1>1, <2>1, ProductFacts
  <2> QED
    BY <1>1, <2>1, <2>2
<1>6. key.set => key.ttl < wait
  <2> SUFFICES ASSUME key.set PROVE key.ttl < wait
    OBVIOUS
  <2> DEFINE retry == AtLeastOne(ttl)
             rounded == (key.ttl + TPS \div 2) \div TPS
  <2>1. TTL(key) = rounded
    BY DEF TTL
  <2>2. rounded <= retry
    <3>1. TTL(key) \in Int
      BY <1>1, TTLType
    <3>2. rounded >= 0
      <4>1. TPS \div 2 \in Nat
        BY <1>1, DivNat
      <4> DEFINE total == key.ttl + TPS \div 2
      <4>2. total \in Nat
        <5> DEFINE half == TPS \div 2
        <5>1. half \in Nat
          BY <4>1
        <5> HIDE DEF half
        <5>2. key.ttl + half \in Nat
          BY <1>1, <5>1
        <5> QED
          BY <5>2 DEF half
      <4> HIDE DEF total
      <4>3. total \div TPS \in Nat
        BY <1>1, <4>2, DivNat
      <4>4. total \div TPS >= 0
        BY <4>3
      <4> QED
        BY <4>4 DEF total
    <3> HIDE DEF rounded
    <3>3. ttl = rounded
      BY <2>1, <3>1, <3>2
    <3> QED
      BY <1>4, <3>3
  <2>3. retry \in Nat /\ wait = retry * TPS + TPS
    BY <1>2, <1>4
  <2> HIDE DEF retry, wait
  <2>4. key.ttl < retry * TPS + TPS
    BY <1>1, <2>2, <2>3, SecondMore
  <2> QED
    BY <2>3, <2>4
<1> HIDE DEF wait
<1>7. ASSUME NEW k \in After(key, wait)
      PROVE  FixedWindow(k, now + wait, burst, q).status = 0
  <2>1. k = NoKey
    <3>1. k = NoKey \/ (key.set /\ key.ttl >= wait)
      BY <1>1, <1>5, AfterFacts DEF TypeOK
    <3> QED
      BY <1>1, <1>5, <1>6, <3>1
  <2>2. k.val[1] = 0
    BY <2>1 DEF NoKey
  <2>3. ~(k.val[1] + q > limit) /\ q # 0
    BY <1>1, <2>2
  <2> QED
    BY <2>3 DEF FixedWindow, Admit
<1> QED
  BY <1>2, <1>7 DEF wait

\* Within one window, what is left of it shrinks as time passes; and time that
\* does not shrink it to nothing stays in the window.
LEMMA SameWindow ==
    ASSUME NEW n \in Nat, NEW u \in Nat \ {0}, NEW wait \in Nat,
           (n + wait) \div u = n \div u
    PROVE  /\ u - ((n + wait) % u) = (u - (n % u)) - wait
           /\ wait < u - (n % u)
<1> DEFINE m == n + wait
<1>1. m \in Nat
  OBVIOUS
<1>2. \A x \in Nat : /\ x % u \in 0..(u - 1)
                     /\ x = (x \div u) * u + (x % u)
                     /\ (x \div u) * u \in Int
  OBVIOUS
<1>3. /\ m \div u = n \div u
      /\ m % u \in 0..(u - 1) /\ m = (m \div u) * u + (m % u)
      /\ n % u \in 0..(u - 1) /\ n = (n \div u) * u + (n % u)
      /\ (n \div u) * u \in Int
  BY <1>1, <1>2
<1>4. m % u = (n % u) + wait
  <2> DEFINE start == (n \div u) * u
             x == m % u
             y == n % u
  <2>1. /\ start \in Int /\ x \in Int /\ y \in Int
        /\ n + wait = start + x /\ n = start + y
    BY <1>3
  <2> HIDE DEF start, x, y
  <2>2. x = y + wait
    BY <2>1
  <2> QED
    BY <2>2 DEF x, y
<1> DEFINE x == m % u
           y == n % u
<1>5. x = y + wait /\ x \in 0..(u - 1) /\ y \in Int
  BY <1>3, <1>4
<1> HIDE DEF x, y
<1>6. u - x = (u - y) - wait /\ wait < u - y
  BY <1>5
<1> QED
  BY <1>6 DEF x, y

LEMMA SlidingRetry ==
    ASSUME IInv, zone.algo = "sliding_window", NEW burst, NEW q,
           Call(burst, q), 0 < q, q <= zone.requests + burst,
           SlidingWindow(key, now, burst, q).status = 1,
           (now + SlidingWindow(key, now, burst, q).retry_after * TPS) \div Unit
             = now \div Unit
    PROVE  LET r == SlidingWindow(key, now, burst, q)
               wait == r.retry_after * TPS
           IN  \A k \in After(r.key, wait) :
                    SlidingWindow(k, now + wait, burst, q).status = 0
<1> DEFINE limit == zone.requests + burst
           win == now \div Unit
           left == Unit - (now % Unit)
           c == Rolled(key, win)[1]
           p == Rolled(key, win)[2]
           Est(n) == p * left + n * Unit
           Room(n) == NonNeg((limit * Unit - Est(n)) \div Unit)
           rest == NonNeg(Ceil(left, TPS))
           headroom == limit - q - c
           missing == left * p - headroom * Unit
           advised == IF p > 0 /\ headroom >= 0
                      THEN Ceil(missing, p * TPS) ELSE rest
           retry == AtLeastOne(advised)
           r == SlidingWindow(key, now, burst, q)
           wait == r.retry_after * TPS
           then == now + wait
<1>1. /\ TypeOK /\ limit \in Nat /\ q \in Nat /\ Unit \in Nat \ {0}
      /\ now \in Nat /\ TPS \in Nat \ {0}
  BY ZoneFacts DEF IInv
<1>2. win \in Nat /\ left \in 1..Unit
  BY <1>1, WindowFacts
<1>3. c \in Nat /\ p \in Nat
  <2> HIDE DEF win
  <2> QED
    BY <1>1, <1>2, RolledType
<1>4. rest \in Nat /\ Ceil(left, TPS) \in Int /\ left <= Ceil(left, TPS) * TPS
  <2>1. left \in Int
    <3> HIDE DEF left
    <3> QED
      BY <1>1, <1>2
  <2> HIDE DEF left
  <2>2. Ceil(left, TPS) \in Int /\ left <= Ceil(left, TPS) * TPS
    BY <1>1, <2>1, CeilCovers
  <2> QED
    BY <2>2, NonNegNat
<1>5. q # 0 /\ Est(c + q) > limit * Unit
  <2> SUFFICES ASSUME ~(Est(c + q) > limit * Unit) PROVE FALSE
    OBVIOUS
  <2>1. r.status = 0
    BY DEF SlidingWindow, Admit
  <2> QED
    BY <2>1
<1>6. r.retry_after = retry /\ r.key = key
  <2>1. r = Limit(limit, Room(c), advised, rest, key)
    BY <1>5 DEF SlidingWindow
  <2> HIDE DEF r, limit, Room, c, advised, rest
  <2> QED
    BY <2>1 DEF Limit
<1>7. p > 0 /\ headroom >= 0 =>
        /\ p * TPS \in Nat \ {0} /\ missing \in Int
        /\ Ceil(missing, p * TPS) \in Int
        /\ missing <= Ceil(missing, p * TPS) * (p * TPS)
  <2> SUFFICES ASSUME p > 0, headroom >= 0
               PROVE  /\ p * TPS \in Nat \ {0} /\ missing \in Int
                      /\ Ceil(missing, p * TPS) \in Int
                      /\ missing <= Ceil(missing, p * TPS) * (p * TPS)
    OBVIOUS
  <2> HIDE DEF left, c, p, limit
  <2>1. p * TPS \in Nat /\ p * TPS # 0 /\ missing \in Int
    BY <1>1, <1>2, <1>3
  <2> DEFINE pace == p * TPS
  <2>2. pace \in Nat \ {0}
    BY <2>1
  <2> HIDE DEF pace, missing
  <2>3. Ceil(missing, pace) \in Int /\ missing <= Ceil(missing, pace) * pace
    BY <2>1, <2>2, CeilCovers
  <2> QED
    BY <2>1, <2>2, <2>3 DEF pace
<1>8. advised \in Int
  <2> HIDE DEF rest, missing, p, headroom
  <2> QED
    BY <1>4, <1>7
<1>9. retry \in Nat \ {0} /\ advised <= retry /\ retry * TPS \in Nat
  <2> HIDE DEF advised
  <2> QED
    BY <1>1, <1>8, WaitType
<1>10. wait = retry * TPS /\ wait \in Nat
  <2> HIDE DEF retry
  <2> QED
    BY <1>6, <1>9
<1>11. then \div Unit = win
  OBVIOUS
<1>12. Unit - (then % Unit) = left - wait /\ wait < left
  <2> HIDE DEF wait, r, c, p, limit, rest, missing, headroom, advised, retry
  <2>1. then = now + wait /\ (now + wait) \div Unit = now \div Unit
    BY <1>11
  <2>2. /\ Unit - ((now + wait) % Unit) = (Unit - (now % Unit)) - wait
        /\ wait < Unit - (now % Unit)
    BY <1>1, <1>10, <2>1, SameWindow
  <2> QED
    BY <2>1, <2>2
<1>13. p > 0 /\ headroom >= 0
  <2> SUFFICES ASSUME ~(p > 0 /\ headroom >= 0) PROVE FALSE
    OBVIOUS
  <2> HIDE DEF left, p, headroom, retry, wait
  <2>1. advised = rest
    OBVIOUS
  <2>2. Ceil(left, TPS) <= retry
    <3> DEFINE up == Ceil(left, TPS)
    <3>1. up \in Int /\ rest = NonNeg(up) /\ rest <= retry /\ retry \in Nat
      BY <1>4, <1>9, <2>1
    <3> HIDE DEF up, rest
    <3>2. up <= retry
      BY <1>4, <3>1 DEF NonNeg
    <3> QED
      BY <3>2 DEF up
  <2>3. Ceil(left, TPS) * TPS <= retry * TPS
    BY <1>1, <1>4, <1>9, <2>2, Monotone
  <2> DEFINE x == Ceil(left, TPS) * TPS
             y == retry * TPS
  <2>4. x \in Int /\ y \in Int
    BY <1>1, <1>4, <1>9
  <2> HIDE DEF x, y
  <2>5. left <= x /\ x <= y /\ wait = y
    BY <1>4, <1>10, <2>3 DEF x, y
  <2> QED
    BY <1>2, <1>12, <2>4, <2>5
<1>14. p * (left - wait) + (c + q) * Unit <= limit * Unit
  <2> DEFINE pace == p * TPS
             up == Ceil(missing, pace)
  <2>1. /\ pace \in Nat \ {0} /\ missing \in Int /\ up \in Int
        /\ missing <= up * pace /\ up <= retry
    <3> HIDE DEF missing, p, headroom, retry
    <3> QED
      BY <1>7, <1>9, <1>13
  <2>2. up * pace <= retry * pace
    <3> HIDE DEF up, pace, retry
    <3> QED
      BY <1>9, <2>1, Monotone
  <2>3. missing <= retry * pace
    <3> DEFINE x == up * pace
               y == retry * pace
    <3>1. x \in Int /\ y \in Int /\ missing <= x /\ x <= y
      <4> HIDE DEF up, pace, retry, missing
      <4> QED
        BY <1>9, <2>1, <2>2
    <3> HIDE DEF x, y, missing
    <3>2. missing <= y
      BY <2>1, <3>1
    <3> QED
      BY <3>2 DEF y
  <2>4. retry * pace = p * wait
    <3> HIDE DEF retry, p
    <3>1. retry * (p * TPS) = p * (retry * TPS)
      BY <1>1, <1>3, <1>9
    <3> QED
      BY <1>10, <3>1
  <2>5. p * (left - wait) = p * left - p * wait
    <3> HIDE DEF p, left, wait
    <3> QED
      BY <1>2, <1>3, <1>10
  <2>6. headroom * Unit = limit * Unit - (c + q) * Unit
    <3> HIDE DEF limit, c
    <3>1. headroom = limit - (c + q)
      BY <1>1, <1>3
    <3> QED
      BY <1>1, <1>3, <3>1, Distribute
  <2>7. left * p = p * left
    <3> HIDE DEF left, p
    <3> QED
      BY <1>2, <1>3
  <2> DEFINE x == p * left
             y == p * wait
             z == (c + q) * Unit
             l == limit * Unit
  <2>8. x \in Int /\ y \in Int /\ z \in Int /\ l \in Int
    <3> HIDE DEF left, p, c, limit, wait
    <3> QED
      BY <1>1, <1>2, <1>3, <1>10
  <2>9. missing = x - (l - z) /\ missing <= y
    BY <2>3, <2>4, <2>6, <2>7
  <2> HIDE DEF x, y, z, l, missing
  <2>10. (x - y) + z <= l
    BY <2>8, <2>9
  <2> QED
    BY <2>5, <2>10 DEF x, y, z, l
<1> HIDE DEF wait
<1>15. ASSUME NEW k \in After(key, wait)
       PROVE  SlidingWindow(k, then, burst, q).status = 0
  <2> DEFINE d == Rolled(k, win)[1]
             o == Rolled(k, win)[2]
             ahead == Unit - (then % Unit)
  <2>1. k = NoKey \/ (key.set /\ k.set /\ k.val = key.val)
    BY <1>1, <1>10, AfterFacts DEF TypeOK
  <2>2. o * ahead + (d + q) * Unit <= limit * Unit
    <3>1. CASE k = NoKey
      <4>1. d = 0 /\ o = 0
        BY <3>1 DEF Rolled, NoKey
      <4>2. ahead \in Int
        <5> HIDE DEF left
        <5> QED
          BY <1>2, <1>10, <1>12
      <4>3. q * Unit <= limit * Unit
        <5>1. q <= limit
          OBVIOUS
        <5> HIDE DEF limit
        <5> QED
          BY <1>1, <5>1, Monotone
      <4>4. 0 * ahead = 0 /\ 0 + q = q /\ 0 + q * Unit = q * Unit
        <5> HIDE DEF ahead
        <5> QED
          BY <1>1, <4>2
      <4> HIDE DEF d, o, ahead, limit
      <4> QED
        BY <4>1, <4>3, <4>4
    <3>2. CASE key.set /\ k.set /\ k.val = key.val
      <4>1. d = c /\ o = p
        BY <3>2 DEF Rolled
      <4> QED
        BY <1>12, <1>14, <4>1
    <3> QED
      BY <2>1, <3>1, <3>2
  <2>3. ~(o * ahead + (d + q) * Unit > limit * Unit)
    <3>1. o \in Int /\ d \in Int /\ ahead \in Int
      <4>1. CASE k = NoKey
        <5>1. d = 0 /\ o = 0
          BY <4>1 DEF Rolled, NoKey
        <5>2. ahead \in Int
          <6> HIDE DEF left
          <6> QED
            BY <1>2, <1>10, <1>12
        <5> QED
          BY <5>1, <5>2
      <4>2. CASE key.set /\ k.set /\ k.val = key.val
        <5>1. d = c /\ o = p
          BY <4>2 DEF Rolled
        <5>2. ahead \in Int
          <6> HIDE DEF left
          <6> QED
            BY <1>2, <1>10, <1>12
        <5> QED
          BY <1>3, <5>1, <5>2
      <4> QED
        BY <2>1, <4>1, <4>2
    <3> DEFINE e == o * ahead + (d + q) * Unit
               l == limit * Unit
    <3>2. e \in Int /\ l \in Int
      <4> HIDE DEF o, d, ahead, limit
      <4> QED
        BY <1>1, <3>1
    <3>3. e <= l
      BY <2>2
    <3> HIDE DEF e, l
    <3>4. ~(e > l)
      BY <3>2, <3>3
    <3> QED
      BY <3>4 DEF e, l
  <2> QED
    BY <1>5, <1>11, <2>3 DEF SlidingWindow, Admit
<1> QED
  BY <1>6, <1>15 DEF wait

\* How near the windows come to an honest Retry-After: who waits one second
\* longer than the fixed window says is admitted, its time to live being
\* Redis's rounded one; and who waits as long as the sliding window says is
\* admitted if the wait ends in the window in which it was advised, if nobody
\* else came in between and the quantity fits the limit (script.c:42, 238-243).
THEOREM WindowRetryIsEnough == Spec => []WindowRetrySuffices
<1>1. IInv => WindowRetrySuffices
  <2> SUFFICES ASSUME IInv, NEW burst \in zone.bursts,
                      NEW q \in zone.quantities,
                      Script(key, now, burst, q).status = 1,
                      0 < q, q <= Script(key, now, burst, q).limit
               PROVE  LET r == Script(key, now, burst, q)
                          wait == r.retry_after * TPS
                          Admits(d) == \A k \in After(r.key, d) :
                                   Script(k, now + d, burst, q).status = 0
                      IN  /\ zone.algo = "fixed_window" => Admits(wait + TPS)
                          /\ zone.algo = "sliding_window"
                               /\ (now + wait) \div Unit = now \div Unit =>
                                    Admits(wait)
    BY DEF WindowRetrySuffices
  <2>1. Call(burst, q)
    BY DEF Call
  <2>2. CASE zone.algo = "fixed_window"
    <3>1. \A k, t : Script(k, t, burst, q) = FixedWindow(k, t, burst, q)
      BY <2>2 DEF Script
    <3>2. FixedWindow(key, now, burst, q).limit = zone.requests + burst
      BY DEF FixedWindow, Peek, Admit, Limit
    <3> QED
      BY <2>1, <2>2, <3>1, <3>2, FixedWindowRetry
  <2>3. CASE zone.algo = "sliding_window"
    <3>1. \A k, t : Script(k, t, burst, q) = SlidingWindow(k, t, burst, q)
      BY <2>3 DEF Script
    <3>2. SlidingWindow(key, now, burst, q).limit = zone.requests + burst
      BY DEF SlidingWindow, Peek, Admit, Limit
    <3> QED
      BY <2>1, <2>3, <3>1, <3>2, SlidingRetry
  <2> QED
    BY <2>2, <2>3
<1> QED
  BY <1>1, Inductive, PTL
=============================================================================
