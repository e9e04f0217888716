------------------------- MODULE RateScriptsProofs -------------------------
(***************************************************************************)
(* Proofs about RateScripts for every zone, every set of bursts and        *)
(* quantities and every granularity of the clock.  TypeOK and              *)
(* StoredWithinLimits together are inductive.                              *)
(***************************************************************************)
EXTENDS RateScripts, TLAPS

IInv == TypeOK /\ StoredWithinLimits

\* A call by a location of the zone.
Call(burst, q) == burst \in zone.bursts /\ q \in zone.quantities

\* What the parts of the configuration are.
LEMMA ZoneFacts ==
    ASSUME TypeOK, NEW burst, NEW q, Call(burst, q)
    PROVE  /\ zone.requests \in Nat \ {0} /\ zone.period \in Nat \ {0}
           /\ zone.algo \in Algos /\ burst \in Nat /\ q \in Nat
           /\ TPS \in Nat \ {0} /\ Unit \in Nat \ {0}
           /\ now \in Nat /\ key.ttl \in Nat /\ key.set \in BOOLEAN
           /\ key.val[1] \in Nat /\ key.val[2] \in Nat /\ key.val[3] \in Nat
<1>1. zone \in Zone
  BY ZonesAssumption DEF TypeOK
<1>2. /\ zone.requests \in Nat \ {0} /\ zone.period \in Nat \ {0}
      /\ zone.algo \in Algos /\ burst \in Nat /\ q \in Nat
  BY <1>1 DEF Zone, Call
<1>3. TPS \in Nat \ {0}
  BY TimeAssumption
<1>4. ASSUME NEW a \in Nat \ {0}, NEW b \in Nat \ {0}
      PROVE  a * b \in Nat \ {0}
  BY <1>4
<1>5. Unit \in Nat \ {0}
  BY <1>2, <1>3, <1>4 DEF Unit
<1> QED
  BY <1>2, <1>3, <1>5, TimeAssumption DEF TypeOK, Key

LEMMA DivFacts ==
    ASSUME NEW a \in Int, NEW b \in Nat \ {0}
    PROVE  /\ a \div b \in Int /\ Ceil(a, b) \in Int
           /\ AtLeastOne(Ceil(a, b)) \in Nat
  BY DEF Ceil, AtLeastOne

LEMMA ProductFacts ==
    ASSUME NEW a \in Nat, NEW b \in Nat
    PROVE  a * b \in Nat
  OBVIOUS

LEMMA StoreFacts ==
    ASSUME NEW a \in Nat, NEW b \in Nat, NEW c \in Nat, NEW s \in Nat,
           TPS \in Nat \ {0}
    PROVE  /\ Store(<<a, b, c>>, s) \in Key
           /\ Store(<<a, b, c>>, s).val[1] = a
<1>1. s * TPS \in Nat
  BY ProductFacts
<1> QED
  BY <1>1 DEF Store, Key

\* What a call may leave behind: the key as it was, or one within the limits.
Leaves(r) == /\ r.status \in {0, 1}
             /\ \/ r.key = key
                \/ r.key \in Key /\ Within(r.key.val[1], now)

\* Counting up to the limit (script.c:37-60).
LEMMA FixedWindowFacts ==
    ASSUME IInv, NEW burst, NEW q, Call(burst, q), zone.algo = "fixed_window"
    PROVE  Leaves(FixedWindow(key, now, burst, q))
<1> DEFINE limit == zone.requests + burst
           newval == key.val[1] + q
           r == FixedWindow(key, now, burst, q)
<1>1. /\ zone.requests \in Nat /\ burst \in Nat /\ q \in Nat /\ zone.period \in Nat
      /\ key.val[1] \in Nat /\ TPS \in Nat \ {0} /\ key \in Key
      /\ burst \in zone.bursts
  BY ZoneFacts DEF IInv, TypeOK, Call
<1>2. r.status \in {0, 1}
  BY DEF FixedWindow, Peek, Limit, Admit
<1>3. CASE q = 0 \/ newval > limit
  <2>1. r.key = key
    BY <1>3 DEF FixedWindow, Peek, Limit
  <2> QED
    BY <1>2, <2>1 DEF Leaves
<1>4. CASE q # 0 /\ ~(newval > limit)
  <2>1. newval <= limit /\ newval \in Nat
    BY <1>1, <1>4
  <2>2. Within(newval, now)
    BY <1>1, <2>1 DEF Within
  <2>3. r.key = IF newval = q THEN Store(<<q, 0, 0>>, zone.period)
                              ELSE [key EXCEPT !.val[1] = newval]
    BY <1>4 DEF FixedWindow, Admit
  <2>4. CASE newval = q
    <3>1. /\ Store(<<q, 0, 0>>, zone.period) \in Key
          /\ Store(<<q, 0, 0>>, zone.period).val[1] = q
      BY <1>1, StoreFacts
    <3> QED
      BY <1>2, <2>2, <2>3, <2>4, <3>1 DEF Leaves
  <2>5. CASE newval # q
    <3>1. /\ [key EXCEPT !.val[1] = newval] \in Key
          /\ [key EXCEPT !.val[1] = newval].val[1] = newval
      BY <1>1, <2>1 DEF Key
    <3> QED
      BY <1>2, <2>2, <2>3, <2>5, <3>1 DEF Leaves
  <2> QED
    BY <2>4, <2>5
<1> QED
  BY <1>3, <1>4

\* Less of what is within the limits is within them.
LEMMA WithinLess ==
    ASSUME TypeOK, NEW t \in Nat, NEW u \in Nat, NEW v \in Nat, u <= v,
           Within(v, t)
    PROVE  Within(u, t)
<1>1. PICK burst \in zone.bursts :
        /\ zone.algo \in {"fixed_window", "sliding_window"} =>
             v <= zone.requests + burst
        /\ zone.algo = "token_bucket" => v <= (zone.requests + burst) * Unit
        /\ zone.algo = "gcra" => v <= t * zone.requests + (burst + 1) * Unit
  BY DEF Within
<1>2. zone \in Zone
  BY ZonesAssumption DEF TypeOK
<1>3. zone.requests \in Nat /\ zone.period \in Nat /\ burst \in Nat /\ TPS \in Nat
  BY <1>2, TimeAssumption DEF Zone
<1>4. /\ Unit \in Nat /\ (zone.requests + burst) * Unit \in Nat
      /\ t * zone.requests \in Nat /\ (burst + 1) * Unit \in Nat
  BY <1>3, ProductFacts DEF Unit
<1> QED
  <2> DEFINE a == zone.requests + burst
             b == (zone.requests + burst) * Unit
             c == t * zone.requests
             d == (burst + 1) * Unit
  <2>1. a \in Nat /\ b \in Nat /\ c \in Nat /\ d \in Nat
    BY <1>3, <1>4
  <2>2. /\ v <= a => u <= a
        /\ v <= b => u <= b
        /\ v <= c + d => u <= c + d
    <3> HIDE DEF a, b, c, d
    <3> QED
      BY <2>1
  <2> QED
    BY <1>1, <2>2 DEF Within

\* A refill stops at the capacity, and an overfull bucket is one some other
\* location was entitled to (script.c:85-97).
LEMMA RefilledFacts ==
    ASSUME IInv, NEW burst, NEW q, Call(burst, q), zone.algo = "token_bucket"
    PROVE  LET tokens == Refilled(key, now, (zone.requests + burst) * Unit)
           IN  tokens \in Nat /\ Within(tokens, now)
<1> DEFINE capacity == (zone.requests + burst) * Unit
           gained == (now - key.val[2]) * zone.requests
           tokens == Refilled(key, now, capacity)
<1> SUFFICES tokens \in Nat /\ Within(tokens, now)
  OBVIOUS
<1>1. /\ zone.requests \in Nat /\ burst \in Nat /\ Unit \in Nat /\ now \in Nat
      /\ key.val[1] \in Nat /\ key.val[2] \in Nat /\ key.set \in BOOLEAN
      /\ burst \in zone.bursts
  BY ZoneFacts DEF IInv, Call
<1>2. capacity \in Nat
  BY <1>1, ProductFacts
<1>3. \A v \in Nat : v <= capacity => Within(v, now)
  BY <1>1 DEF Within
<1>4. tokens = IF ~key.set THEN capacity
               ELSE IF now - key.val[2] > 0
               THEN Least(capacity, key.val[1] + gained) ELSE key.val[1]
  BY DEF Refilled
<1>5. now - key.val[2] > 0 => gained \in Nat
  <2>1. now - key.val[2] > 0 => now - key.val[2] \in Nat
    BY <1>1
  <2> QED
    BY <1>1, <2>1, ProductFacts
<1>6. key.set => Within(key.val[1], now)
  BY DEF IInv, StoredWithinLimits
<1> HIDE DEF capacity, gained, tokens
<1>7. CASE key.set /\ ~(now - key.val[2] > 0)
  BY <1>1, <1>4, <1>6, <1>7
<1>8. CASE ~(key.set /\ ~(now - key.val[2] > 0))
  <2>1. tokens \in Nat /\ tokens <= capacity
    BY <1>1, <1>2, <1>4, <1>5, <1>8 DEF Least
  <2> QED
    BY <1>3, <2>1
<1> QED
  BY <1>7, <1>8

\* Refilling up to the capacity and taking what is there (script.c:85-121).
LEMMA TokenBucketFacts ==
    ASSUME IInv, NEW burst, NEW q, Call(burst, q), zone.algo = "token_bucket"
    PROVE  Leaves(TokenBucket(key, now, burst, q))
<1> DEFINE tokens == Refilled(key, now, (zone.requests + burst) * Unit)
           cost == q * Unit
           ttl == BucketTTL(burst)
           r == TokenBucket(key, now, burst, q)
<1> SUFFICES Leaves(r)
  OBVIOUS
<1>1. /\ zone.requests \in Nat \ {0} /\ zone.period \in Nat /\ burst \in Nat
      /\ q \in Nat /\ Unit \in Nat /\ TPS \in Nat \ {0} /\ now \in Nat
  BY ZoneFacts DEF IInv
<1>2. tokens \in Nat /\ Within(tokens, now)
  BY RefilledFacts
<1>3. cost \in Nat
  BY <1>1, ProductFacts
<1>4. ttl \in Nat
  <2>1. (zone.requests + burst) * zone.period \in Nat
    BY <1>1, ProductFacts
  <2>2. ttl = AtLeastOne(Ceil((zone.requests + burst) * zone.period, zone.requests))
    BY DEF BucketTTL
  <2> HIDE DEF ttl
  <2>3. (zone.requests + burst) * zone.period \in Int
    BY <2>1
  <2> QED
    BY <1>1, <2>2, <2>3, DivFacts
<1>5. r.status \in {0, 1}
  BY DEF TokenBucket, Peek, Limit, Admit
<1>6. r.key = IF q = 0 THEN key
              ELSE IF tokens >= cost THEN Store(<<tokens - cost, now, 0>>, ttl)
              ELSE Store(<<tokens, now, 0>>, ttl)
  BY DEF TokenBucket, Peek, Limit, Admit, Affords
<1> HIDE DEF tokens, cost, ttl, r
<1>7. CASE q = 0
  BY <1>5, <1>6, <1>7 DEF Leaves
<1>8. CASE q # 0 /\ tokens >= cost
  <2>1. tokens - cost \in Nat /\ tokens - cost <= tokens
    BY <1>2, <1>3, <1>8
  <2>2. Within(tokens - cost, now)
    BY <1>1, <1>2, <2>1, WithinLess DEF IInv
  <2>3. r.key = Store(<<tokens - cost, now, 0>>, ttl)
    BY <1>6, <1>8
  <2> QED
    BY <1>1, <1>4, <1>5, <2>1, <2>2, <2>3, StoreFacts DEF Leaves
<1>9. CASE q # 0 /\ ~(tokens >= cost)
  <2>1. r.key = Store(<<tokens, now, 0>>, ttl)
    BY <1>6, <1>9
  <2> QED
    BY <1>1, <1>2, <1>4, <1>5, <2>1, StoreFacts DEF Leaves
<1> QED
  BY <1>7, <1>8, <1>9

\* Advancing the arrival time up to the horizon (script.c:145-178).
LEMMA GcraFacts ==
    ASSUME IInv, NEW burst, NEW q, Call(burst, q), zone.algo = "gcra"
    PROVE  Leaves(Gcra(key, now, burst, q))
<1> DEFINE at == now * zone.requests
           cost == q * Unit
           horizon == (burst + 1) * Unit
           new_tat == Most(key.val[1], at) + cost
           ttl == AtLeastOne(Ceil(new_tat - at, zone.requests * TPS))
           r == Gcra(key, now, burst, q)
<1> SUFFICES Leaves(r)
  OBVIOUS
<1>1. /\ zone.requests \in Nat \ {0} /\ burst \in Nat /\ q \in Nat
      /\ Unit \in Nat /\ TPS \in Nat \ {0} /\ now \in Nat
      /\ key.val[1] \in Nat /\ burst \in zone.bursts
  BY ZoneFacts DEF IInv, Call
<1>2. at \in Nat /\ cost \in Nat /\ horizon \in Nat
  BY <1>1, ProductFacts
<1>3. zone.requests * TPS \in Nat \ {0}
  <2>1. ASSUME NEW a \in Nat \ {0}, NEW b \in Nat \ {0}
        PROVE  a * b \in Nat \ {0}
    BY <2>1
  <2> QED
    BY <1>1, <2>1
<1>4. r.status \in {0, 1}
  BY DEF Gcra, Peek, Limit, Admit
<1>5. r.key = IF q = 0 \/ at - (new_tat - horizon) < 0 THEN key
              ELSE Store(<<new_tat, 0, 0>>, ttl)
  BY DEF Gcra, Peek, Limit, Admit
<1>6. new_tat = Most(key.val[1], at) + cost
  OBVIOUS
<1>7. ttl = AtLeastOne(Ceil(new_tat - at, zone.requests * TPS))
  OBVIOUS
<1>8. \A v \in Nat : v <= at + horizon => Within(v, now)
  BY <1>1 DEF Within
<1> HIDE DEF at, cost, horizon, new_tat, ttl, r
<1>9. new_tat \in Nat
  BY <1>1, <1>2, <1>6 DEF Most
<1>10. ttl \in Nat
  <2>1. new_tat - at \in Int
    BY <1>2, <1>9
  <2> QED
    BY <1>3, <1>7, <2>1, DivFacts
<1>11. CASE q = 0 \/ at - (new_tat - horizon) < 0
  BY <1>4, <1>5, <1>11 DEF Leaves
<1>12. CASE ~(q = 0 \/ at - (new_tat - horizon) < 0)
  <2>1. new_tat <= at + horizon
    BY <1>2, <1>9, <1>12
  <2>2. Within(new_tat, now)
    BY <1>8, <1>9, <2>1
  <2>3. r.key = Store(<<new_tat, 0, 0>>, ttl)
    BY <1>5, <1>12
  <2> QED
    BY <1>1, <1>4, <1>9, <1>10, <2>2, <2>3, StoreFacts DEF Leaves
<1> QED
  BY <1>11, <1>12

\* The current window's count alone stays within the limit, whatever the
\* previous window adds to the estimate (script.c:203-253).
LEMMA SlidingWindowFacts ==
    ASSUME IInv, NEW burst, NEW q, Call(burst, q),
           zone.algo = "sliding_window"
    PROVE  Leaves(SlidingWindow(key, now, burst, q))
<1> DEFINE limit == zone.requests + burst
           win == now \div Unit
           left == Unit - (now % Unit)
           c == Rolled(key, win)[1]
           p == Rolled(key, win)[2]
           r == SlidingWindow(key, now, burst, q)
<1> SUFFICES Leaves(r)
  OBVIOUS
<1>1. /\ zone.requests \in Nat \ {0} /\ zone.period \in Nat /\ burst \in Nat
      /\ q \in Nat /\ Unit \in Nat \ {0} /\ TPS \in Nat \ {0} /\ now \in Nat
      /\ key.val[1] \in Nat /\ key.val[3] \in Nat /\ burst \in zone.bursts
  BY ZoneFacts DEF IInv, Call
<1>2. c \in Nat /\ p \in Nat
  BY <1>1 DEF Rolled
<1>3. win \in Nat /\ left \in Nat
  <2>1. ASSUME NEW n \in Nat, NEW u \in Nat \ {0}
        PROVE  n \div u \in Nat /\ u - (n % u) \in Nat
    BY <2>1
  <2> QED
    BY <1>1, <2>1
<1>4. r.status \in {0, 1}
  BY DEF SlidingWindow, Peek, Limit, Admit
<1>5. r.key = IF q = 0 \/ p * left + (c + q) * Unit > limit * Unit THEN key
              ELSE Store(<<c + q, win, p>>, 2 * zone.period)
  BY DEF SlidingWindow, Peek, Limit, Admit
<1>6. \A v \in Nat : v <= limit => Within(v, now)
  BY <1>1 DEF Within
<1>7. limit \in Nat
  BY <1>1
<1> HIDE DEF limit, win, left, c, p, r
<1>8. CASE q = 0 \/ p * left + (c + q) * Unit > limit * Unit
  BY <1>4, <1>5, <1>8 DEF Leaves
<1>9. CASE ~(q = 0 \/ p * left + (c + q) * Unit > limit * Unit)
  <2>1. c + q \in Nat /\ 2 * zone.period \in Nat
    BY <1>1, <1>2
  <2>2. c + q <= limit
    <3>1. ASSUME NEW a \in Nat, NEW n \in Nat, NEW m \in Nat,
                 NEW u \in Nat \ {0}, ~(a + n * u > m * u)
          PROVE  n <= m
      <4>1. n * u <= m * u
        <5>1. n * u \in Nat /\ m * u \in Nat
          BY ProductFacts
        <5> QED
          BY <3>1, <5>1
      <4> QED
        BY <4>1
    <3>2. p * left \in Nat
      BY <1>2, <1>3, ProductFacts
    <3> QED
      BY <1>1, <1>7, <1>9, <2>1, <3>1, <3>2
  <2>3. Within(c + q, now)
    BY <1>6, <2>1, <2>2
  <2>4. r.key = Store(<<c + q, win, p>>, 2 * zone.period)
    BY <1>5, <1>9
  <2> QED
    BY <1>1, <1>2, <1>3, <1>4, <2>1, <2>3, <2>4, StoreFacts DEF Leaves
<1> QED
  BY <1>8, <1>9

\* Whichever script it is, a call leaves what is allowed.
LEMMA ScriptFacts ==
    ASSUME IInv, NEW burst, NEW q, Call(burst, q)
    PROVE  Leaves(Script(key, now, burst, q))
<1>1. zone.algo \in Algos
  BY ZoneFacts DEF IInv
<1>2. CASE zone.algo = "fixed_window"
  <2>1. Script(key, now, burst, q) = FixedWindow(key, now, burst, q)
    BY <1>2 DEF Script
  <2> QED
    BY <1>2, <2>1, FixedWindowFacts
<1>3. CASE zone.algo = "token_bucket"
  <2>1. Script(key, now, burst, q) = TokenBucket(key, now, burst, q)
    BY <1>3 DEF Script
  <2> QED
    BY <1>3, <2>1, TokenBucketFacts
<1>4. CASE zone.algo = "gcra"
  <2>1. Script(key, now, burst, q) = Gcra(key, now, burst, q)
    BY <1>4 DEF Script
  <2> QED
    BY <1>4, <2>1, GcraFacts
<1>5. CASE zone.algo = "sliding_window"
  <2>1. Script(key, now, burst, q) = SlidingWindow(key, now, burst, q)
    BY <1>5 DEF Script
  <2> QED
    BY <1>5, <2>1, SlidingWindowFacts
<1> QED
  BY <1>1, <1>2, <1>3, <1>4, <1>5 DEF Algos

\* Time only raises what GCRA lets an arrival time be.
LEMMA WithinLater ==
    ASSUME TypeOK, NEW t \in Nat, NEW v \in Nat, Within(v, t)
    PROVE  Within(v, t + 1)
<1>1. PICK burst \in zone.bursts :
        /\ zone.algo \in {"fixed_window", "sliding_window"} =>
             v <= zone.requests + burst
        /\ zone.algo = "token_bucket" => v <= (zone.requests + burst) * Unit
        /\ zone.algo = "gcra" => v <= t * zone.requests + (burst + 1) * Unit
  BY DEF Within
<1>2. zone \in Zone
  BY ZonesAssumption DEF TypeOK
<1>3. zone.requests \in Nat /\ zone.period \in Nat /\ burst \in Nat /\ TPS \in Nat
  BY <1>2, TimeAssumption DEF Zone
<1>4. Unit \in Nat /\ (burst + 1) * Unit \in Nat
  BY <1>3, ProductFacts DEF Unit
<1>5. ASSUME NEW a \in Nat, NEW m \in Nat, v <= t * m + a
      PROVE  v <= (t + 1) * m + a
  <2>1. (t + 1) * m = t * m + m
    BY <1>5
  <2>2. t * m \in Nat
    BY <1>5, ProductFacts
  <2> QED
    BY <1>5, <2>1, <2>2
<1>6. zone.algo = "gcra" => v <= (t + 1) * zone.requests + (burst + 1) * Unit
  BY <1>1, <1>3, <1>4, <1>5
<1> QED
  BY <1>1, <1>6 DEF Within

\* A call keeps the invariant: what it leaves is typed and within the limits,
\* and what it admits is a natural.
LEMMA CheckKeeps ==
    ASSUME IInv, NEW burst, NEW q, Call(burst, q), Check(burst, q)
    PROVE  IInv'
<1> DEFINE result == Script(key, now, burst, q)
<1>1. Leaves(result)
  BY ScriptFacts
<1>2. /\ key' = result.key /\ zone' = zone /\ now' = now
      /\ admitted' = [admitted EXCEPT
                        ![now] = @ + (IF result.status = 0 THEN q ELSE 0)]
  BY DEF Check
<1>3. q \in Nat
  BY ZoneFacts DEF IInv
<1> HIDE DEF result
<1>4. TypeOK'
  <2>1. key' \in Key
    BY <1>1, <1>2 DEF Leaves, IInv, TypeOK
  <2>2. admitted' \in [0..MaxTime -> Nat]
    <3> DEFINE n == IF result.status = 0 THEN q ELSE 0
    <3>1. n \in Nat
      BY <1>3
    <3>2. admitted \in [0..MaxTime -> Nat] /\ now \in 0..MaxTime
      BY DEF IInv, TypeOK
    <3>3. admitted[now] + n \in Nat
      BY <3>1, <3>2
    <3>4. admitted' = [admitted EXCEPT ![now] = admitted[now] + n]
      BY <1>2, <3>2
    <3> HIDE DEF n
    <3> QED
      BY <3>2, <3>3, <3>4
  <2> QED
    BY <1>2, <2>1, <2>2 DEF IInv, TypeOK
<1>5. StoredWithinLimits'
  <2>1. CASE key' = key
    BY <1>2, <2>1 DEF IInv, StoredWithinLimits, Within, Unit
  <2>2. CASE key' # key
    <3>1. Within(key'.val[1], now)
      BY <1>1, <1>2, <2>2 DEF Leaves
    <3> QED
      BY <1>2, <3>1 DEF StoredWithinLimits, Within, Unit
  <2> QED
    BY <2>1, <2>2
<1> QED
  BY <1>4, <1>5 DEF IInv

\* The invariant holds initially and every step keeps it.
LEMMA Inductive == Spec => []IInv
<1>1. Init => IInv
  <2> SUFFICES ASSUME Init PROVE IInv
    OBVIOUS
  <2>1. NoKey \in Key /\ ~NoKey.set
    BY DEF NoKey, Key
  <2>2. [t \in 0..MaxTime |-> 0] \in [0..MaxTime -> Nat]
    OBVIOUS
  <2> QED
    BY <2>1, <2>2, TimeAssumption DEF Init, IInv, TypeOK, StoredWithinLimits
<1>2. IInv /\ [Next]_vars => IInv'
  <2> SUFFICES ASSUME IInv, [Next]_vars PROVE IInv'
    OBVIOUS
  <2>1. ASSUME NEW burst \in zone.bursts, NEW q \in zone.quantities,
               Check(burst, q)
        PROVE  IInv'
    BY <2>1, CheckKeeps DEF Call
  <2>2. CASE Expire
    <3>1. NoKey \in Key /\ ~NoKey.set
      BY DEF NoKey, Key
    <3> QED
      BY <2>2, <3>1 DEF Expire, IInv, TypeOK, StoredWithinLimits
  <2>3. CASE Tick
    <3>1. now \in Nat /\ MaxTime \in Nat /\ now' = now + 1 /\ zone' = zone
      BY <2>3, TimeAssumption DEF Tick, IInv, TypeOK
    <3>2. key' \in Key /\ key'.val = key.val /\ key'.set = key.set
      BY <2>3 DEF Tick, IInv, TypeOK, Key
    <3>3. TypeOK'
      <4>1. now \in 0..MaxTime /\ now + 1 \in 0..MaxTime
        BY <2>3, <3>1 DEF Tick, IInv, TypeOK
      <4>2. admitted' = [admitted EXCEPT ![now + 1] = admitted[now]]
        BY <2>3 DEF Tick
      <4>3. admitted' \in [0..MaxTime -> Nat]
        BY <4>1, <4>2 DEF IInv, TypeOK
      <4> QED
        BY <3>1, <3>2, <4>1, <4>3 DEF IInv, TypeOK
    <3>4. StoredWithinLimits'
      <4> SUFFICES ASSUME key.set PROVE Within(key.val[1], now)'
        BY <3>2 DEF StoredWithinLimits
      <4>1. key.val[1] \in Nat
        BY DEF IInv, TypeOK, Key
      <4>2. Within(key.val[1], now + 1)
        BY <3>1, <4>1, WithinLater DEF IInv, StoredWithinLimits
      <4> QED
        BY <3>1, <3>2, <4>2 DEF Within, Unit
    <3> QED
      BY <3>3, <3>4 DEF IInv
  <2>4. CASE UNCHANGED vars
    BY <2>4 DEF vars, IInv, TypeOK, StoredWithinLimits, Within, Unit
  <2> QED
    BY <2>1, <2>2, <2>3, <2>4 DEF Next
<1> QED
  BY <1>1, <1>2, PTL DEF Spec

\* Whatever the zone, what the scripts keep in Redis are naturals and their
\* times to live are too: no EXPIRE is ever negative, which Redis would take
\* as a deletion (script.c:49, 98-118, 175-177, 248-249).
THEOREM ScriptsTypeCorrect == Spec => []TypeOK
  BY Inductive, PTL DEF IInv

\* Whatever the zone, the bursts of its locations and the quantities asked,
\* no order of calls, expiries and ticks drives a stored count over its limit,
\* a bucket over its capacity or an arrival time beyond its horizon
\* (script.c:37, 95, 107, 164, 236).
THEOREM StoredNeverOverdrawn == Spec => []StoredWithinLimits
  BY Inductive, PTL DEF IInv
=============================================================================
