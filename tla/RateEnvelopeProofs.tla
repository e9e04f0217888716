------------------------- MODULE RateEnvelopeProofs -------------------------
(***************************************************************************)
(* What the scripts of RateScripts admit, answer and forget, for every     *)
(* zone, every set of bursts and quantities and every granularity of the   *)
(* clock.  The inductive invariant is an account: it relates what is       *)
(* stored in Redis, and how long it will be, to what has been admitted     *)
(* since each tick of the past.                                            *)
(***************************************************************************)
EXTENDS RateScriptsProofs

-----------------------------------------------------------------------------
(* Arithmetic.                                                             *)

\* Division rounds down.
LEMMA DivBounds ==
    ASSUME NEW a \in Int, NEW b \in Nat \ {0}
    PROVE  /\ a \div b \in Int
           /\ (a \div b) * b <= a
           /\ a < (a \div b) * b + b
  OBVIOUS

\* Rounding up to whole seconds never comes out short.
LEMMA CeilCovers ==
    ASSUME NEW a \in Int, NEW b \in Nat \ {0}
    PROVE  Ceil(a, b) \in Int /\ a <= Ceil(a, b) * b
<1>1. -a \in Int
  OBVIOUS
<1>2. (-a) \div b \in Int /\ ((-a) \div b) * b <= -a
  BY <1>1, DivBounds
<1>3. \A x \in Int : (-x) * b = -(x * b)
  OBVIOUS
<1> QED
  BY <1>2, <1>3 DEF Ceil

LEMMA Distribute ==
    ASSUME NEW a \in Int, NEW b \in Int, NEW c \in Int
    PROVE  /\ (a + b) * c = a * c + b * c
           /\ (a - b) * c = a * c - b * c
           /\ a * c \in Int
  OBVIOUS

LEMMA Monotone ==
    ASSUME NEW a \in Int, NEW b \in Int, NEW c \in Nat, a <= b
    PROVE  a * c <= b * c
  OBVIOUS

-----------------------------------------------------------------------------
(* The bursts of a zone and its history.                                   *)

LEMMA BurstFacts ==
    ASSUME TypeOK
    PROVE  /\ Burst \in zone.bursts /\ Burst \in Nat
           /\ \A c \in zone.bursts : c \in Nat /\ c <= Burst
<1>1. zone \in Zone /\ \E b \in zone.bursts : \A c \in zone.bursts : c <= b
  BY ZonesAssumption, BurstsAssumption DEF TypeOK
<1>2. Burst \in zone.bursts /\ \A c \in zone.bursts : c <= Burst
  BY <1>1 DEF Burst
<1> QED
  BY <1>1, <1>2 DEF Zone

\* The parts of a state the account speaks of.
LEMMA StateFacts ==
    ASSUME TypeOK
    PROVE  /\ zone.requests \in Nat \ {0} /\ zone.period \in Nat \ {0}
           /\ Burst \in Nat /\ TPS \in Nat \ {0} /\ Unit \in Nat \ {0}
           /\ now \in Nat /\ now \in 0..MaxTime /\ MaxTime \in Nat
           /\ key.ttl \in Nat /\ key.set \in BOOLEAN
           /\ key.val[1] \in Nat /\ key.val[2] \in Nat /\ key.val[3] \in Nat
           /\ admitted \in [0..MaxTime -> Nat]
<1>1. zone \in Zone
  BY ZonesAssumption DEF TypeOK
<1>2. ASSUME NEW a \in Nat \ {0}, NEW b \in Nat \ {0}
      PROVE  a * b \in Nat \ {0}
  BY <1>2
<1>3. /\ zone.requests \in Nat \ {0} /\ zone.period \in Nat \ {0}
      /\ TPS \in Nat \ {0}
  BY <1>1, TimeAssumption DEF Zone
<1>4. Unit \in Nat \ {0}
  BY <1>2, <1>3 DEF Unit
<1> QED
  BY <1>3, <1>4, BurstFacts, TimeAssumption DEF TypeOK, Key

LEMMA SinceType ==
    ASSUME TypeOK, NEW t \in 0..now
    PROVE  Since(t) \in Int
<1>1. t # 0 => t - 1 \in 0..MaxTime
  BY StateFacts
<1>2. admitted[now] \in Nat /\ (t # 0 => admitted[t - 1] \in Nat)
  BY <1>1, StateFacts
<1> QED
  BY <1>2 DEF Since

\* A call adds what it admits to every stretch of time that reaches the present.
LEMMA SinceCheck ==
    ASSUME TypeOK, NEW burst, NEW q \in Nat, Check(burst, q), NEW t \in 0..now
    PROVE  Since(t)' = Since(t) + (IF Script(key, now, burst, q).status = 0
                                   THEN q ELSE 0)
<1> DEFINE n == IF Script(key, now, burst, q).status = 0 THEN q ELSE 0
<1>1. /\ now' = now /\ n \in Nat
      /\ admitted' = [admitted EXCEPT ![now] = admitted[now] + n]
  BY StateFacts DEF Check
<1>2. t # 0 => t - 1 \in 0..MaxTime /\ t - 1 # now
  BY StateFacts
<1> HIDE DEF n
<1>3. admitted'[now] = admitted[now] + n
  BY <1>1, StateFacts
<1>4. t # 0 => /\ admitted'[t - 1] = admitted[t - 1]
               /\ admitted[t - 1] \in Nat
  BY <1>1, <1>2, StateFacts
<1>5. admitted[now] \in Nat
  BY StateFacts
<1>6. Since(t)' = Since(t) + n
  BY <1>1, <1>3, <1>4, <1>5 DEF Since
<1> QED
  BY <1>6 DEF n

\* Time adds nothing.
LEMMA SinceTick ==
    ASSUME TypeOK, Tick, NEW t \in 0..(now + 1)
    PROVE  Since(t)' = IF t = now + 1 THEN 0 ELSE Since(t)
<1>1. /\ now' = now + 1 /\ now + 1 \in 0..MaxTime
      /\ admitted' = [admitted EXCEPT ![now + 1] = admitted[now]]
  BY StateFacts DEF Tick
<1>2. t # 0 => t - 1 \in 0..MaxTime /\ t - 1 # now + 1
  BY StateFacts
<1>3. admitted'[now + 1] = admitted[now]
  BY <1>1, StateFacts
<1>4. t # 0 => admitted'[t - 1] = admitted[t - 1]
  BY <1>1, <1>2, StateFacts
<1>5. t = now + 1 => t # 0 /\ t - 1 = now
  BY StateFacts
<1> QED
  BY <1>1, <1>3, <1>4, <1>5, StateFacts DEF Since

\* What is within the limit of some location is within the greatest.
LEMMA WithinBurst ==
    ASSUME TypeOK, NEW v \in Nat, NEW t \in Nat, Within(v, t)
    PROVE  /\ zone.algo \in {"fixed_window", "sliding_window"} =>
                v <= zone.requests + Burst
           /\ zone.algo = "gcra" => v <= t * zone.requests + (Burst + 1) * Unit
<1>1. PICK burst \in zone.bursts :
        /\ zone.algo \in {"fixed_window", "sliding_window"} =>
             v <= zone.requests + burst
        /\ zone.algo = "token_bucket" => v <= (zone.requests + burst) * Unit
        /\ zone.algo = "gcra" => v <= t * zone.requests + (burst + 1) * Unit
  BY DEF Within
<1>2. burst \in Nat /\ burst <= Burst /\ Burst \in Nat
  BY BurstFacts
<1>3. zone.requests \in Nat /\ Unit \in Nat
  BY StateFacts
<1>4. /\ (burst + 1) * Unit \in Nat /\ (Burst + 1) * Unit \in Nat
      /\ t * zone.requests \in Nat
  BY <1>2, <1>3, ProductFacts
<1>5. (burst + 1) * Unit <= (Burst + 1) * Unit
  BY <1>2, <1>3, Monotone
<1>6. zone.algo = "gcra" => v <= t * zone.requests + (Burst + 1) * Unit
  <2> DEFINE x == (burst + 1) * Unit
             y == (Burst + 1) * Unit
             z == t * zone.requests
  <2> HIDE DEF x, y, z
  <2>1. x \in Nat /\ y \in Nat /\ z \in Nat /\ x <= y
    BY <1>4, <1>5 DEF x, y, z
  <2>2. v <= z + x => v <= z + y
    BY <2>1
  <2> QED
    BY <1>1, <2>2 DEF x, y, z
<1> QED
  BY <1>1, <1>2, <1>3, <1>6

-----------------------------------------------------------------------------
(* The account, script by script.                                          *)

\* The key counts what was admitted since it was set, and lives one period
\* from then; what was admitted in the same period before that fits the limit
\* once more (script.c:42-58).
AccountFixed ==
    LET limit == zone.requests + Burst
    IN  /\ key.set =>
             /\ key.val[1] > 0 /\ key.ttl <= Unit
             /\ \A t \in 0..now :
                  t > now + key.ttl - Unit => Since(t) <= key.val[1]
             /\ \A t \in 0..now :
                  t > now - Unit => Since(t) <= limit + key.val[1]
        /\ ~key.set => \A t \in 0..now : t > now - Unit => Since(t) <= limit

\* Tokens and what was admitted add up to the capacity and the refill; the key
\* lives until the bucket would be full (script.c:85-118).
Capacity == (zone.requests + Burst) * Unit

AccountBucket ==
    /\ key.set => /\ key.val[2] <= now /\ key.val[1] <= Capacity
                  /\ now + key.ttl = key.val[2] + BucketTTL(Burst) * TPS
    /\ \A t \in 0..now :
         Since(t) * Unit + Refilled(key, now, Capacity)
           <= Capacity + (now - t) * zone.requests

\* The arrival time is an emission interval further for all that was admitted,
\* and the key lives until it has passed (script.c:158-177).
AccountGcra ==
    /\ key.val[1] <= (now + key.ttl) * zone.requests
    /\ \A t \in 0..now :
         Since(t) * Unit + t * zone.requests
           <= Most(key.val[1], now * zone.requests)

\* The two counts are those of the current and the previous window, the
\* current one leaving room for any of the previous; the key lives until
\* neither counts (script.c:213-249).
AccountSliding ==
    LET limit == zone.requests + Burst
        win   == now \div Unit
        c     == Rolled(key, win)[1]
        p     == Rolled(key, win)[2]
    IN  /\ key.set => /\ key.val[2] <= win
                      /\ (key.val[2] + 2) * Unit <= now + key.ttl
        /\ c <= limit /\ p <= limit /\ (p > 0 => c < limit)
        /\ \A t \in 0..now : /\ win * Unit <= t => Since(t) <= c
                             /\ (win - 1) * Unit <= t => Since(t) <= c + p

\* Locations that share a bucket agree on its burst.
OneBurst == zone.algo = "token_bucket" => \A b, c \in zone.bursts : b = c

Account ==
    /\ ~key.set => key = NoKey
    /\ zone.algo = "fixed_window" => AccountFixed
    /\ zone.algo = "token_bucket" /\ OneBurst => AccountBucket
    /\ zone.algo = "gcra" => AccountGcra
    /\ zone.algo = "sliding_window" => AccountSliding

\* A step that leaves zone, clock, key and history alone leaves the account.
LEMMA AccountSame ==
    ASSUME TypeOK, Account, zone' = zone, now' = now, key' = key,
           \A t \in 0..now : Since(t)' = Since(t)
    PROVE  Account'
<1>1. Burst' = Burst /\ Unit' = Unit
  BY DEF Burst, Unit
<1>2. ~key'.set => key' = NoKey
  BY DEF Account
<1>3. zone'.algo = "fixed_window" => AccountFixed'
  BY <1>1 DEF Account, AccountFixed
<1>4. OneBurst' = OneBurst
  BY DEF OneBurst
<1>5. zone'.algo = "token_bucket" /\ OneBurst' => AccountBucket'
  BY <1>1, <1>4 DEF Account, AccountBucket, Capacity, BucketTTL, Refilled
<1>6. zone'.algo = "gcra" => AccountGcra'
  BY <1>1 DEF Account, AccountGcra
<1>7. zone'.algo = "sliding_window" => AccountSliding'
  BY <1>1 DEF Account, AccountSliding, Rolled
<1> QED
  BY <1>2, <1>3, <1>5, <1>6, <1>7 DEF Account

-----------------------------------------------------------------------------
(* The fixed window.                                                       *)

LEMMA FixedWindowCheck ==
    ASSUME IInv, Account, zone.algo = "fixed_window",
           NEW burst, NEW q, Call(burst, q), Check(burst, q)
    PROVE  Account'
<1> DEFINE limit == zone.requests + Burst
           newval == key.val[1] + q
           r == FixedWindow(key, now, burst, q)
<1>1. /\ TypeOK /\ burst \in zone.bursts /\ burst \in Nat /\ q \in Nat
      /\ burst <= Burst
  BY ZoneFacts, BurstFacts DEF IInv, Call
<1>2. /\ key' = r.key /\ zone' = zone /\ now' = now
      /\ Script(key, now, burst, q) = r
  BY DEF Check, Script
<1>3. \A t \in 0..now :
        Since(t)' = Since(t) + (IF r.status = 0 THEN q ELSE 0)
  BY <1>1, <1>2, SinceCheck
<1>4. \A t \in 0..now : Since(t) \in Int
  BY <1>1, SinceType
<1>5. Burst' = Burst /\ Unit' = Unit
  BY <1>2 DEF Burst, Unit
<1>6. CASE q = 0 \/ newval > zone.requests + burst
  <2>1. r.key = key /\ (r.status = 0 => q = 0)
    BY <1>6 DEF FixedWindow, Peek, Limit
  <2>2. \A t \in 0..now : Since(t)' = Since(t)
    BY <1>3, <1>4, <2>1
  <2> QED
    BY <1>1, <1>2, <2>1, <2>2, AccountSame
<1>7. CASE q # 0 /\ ~(newval > zone.requests + burst)
  <2>1. /\ r.status = 0
        /\ r.key = IF newval = q THEN Store(<<q, 0, 0>>, zone.period)
                                 ELSE [key EXCEPT !.val[1] = newval]
    BY <1>7 DEF FixedWindow, Admit
  <2>2. \A t \in 0..now : Since(t)' = Since(t) + q
    BY <1>3, <2>1
  <2>3. AccountFixed /\ (~key.set => key = NoKey)
    BY DEF Account
  <2>4. key.val[1] \in Nat /\ key.set \in BOOLEAN /\ key.ttl \in Nat
    BY <1>1, StateFacts
  <2>5. now \in Nat /\ Unit \in Nat /\ limit \in Nat
    BY <1>1, StateFacts
  <2>6. CASE newval = q
    <3>1. ~key.set
      BY <2>3, <2>4, <2>6, <1>1 DEF AccountFixed
    <3>2. /\ key'.set /\ key'.ttl = Unit /\ key'.val[1] = q
      BY <1>2, <2>1, <2>6 DEF Store, Unit
    <3>3. \A t \in 0..now : t > now - Unit => Since(t)' <= limit + q
      BY <1>1, <1>4, <2>2, <2>3, <2>5, <3>1 DEF AccountFixed
    <3>4. \A t \in 0..now : ~(t > now + Unit - Unit)
      BY <2>5
    <3>5. AccountFixed'
      BY <1>1, <1>2, <1>5, <1>7, <2>5, <3>2, <3>3, <3>4 DEF AccountFixed
    <3> QED
      BY <1>2, <3>2, <3>5 DEF Account
  <2>7. CASE newval # q
    <3>1. key.set
      BY <2>3, <2>4, <2>7, <1>1 DEF NoKey
    <3>2. /\ key'.set /\ key'.ttl = key.ttl /\ key'.val[1] = newval
      BY <1>1, <1>2, <2>1, <2>7, <3>1 DEF TypeOK, Key
    <3>3. \A t \in 0..now : t > now + key.ttl - Unit => Since(t)' <= newval
      BY <1>1, <1>4, <2>2, <2>3, <2>4, <2>5, <3>1 DEF AccountFixed
    <3>4. \A t \in 0..now : t > now - Unit => Since(t)' <= limit + newval
      BY <1>1, <1>4, <2>2, <2>3, <2>4, <2>5, <3>1 DEF AccountFixed
    <3>5. newval > 0 /\ key.ttl <= Unit
      BY <1>1, <1>7, <2>3, <2>4, <3>1 DEF AccountFixed
    <3>6. AccountFixed'
      BY <1>2, <1>5, <3>2, <3>3, <3>4, <3>5 DEF AccountFixed
    <3> QED
      BY <1>2, <3>2, <3>6 DEF Account
  <2> QED
    BY <2>6, <2>7
<1> QED
  BY <1>6, <1>7

\* What a tick of the clock and the expiry of a key do, whatever the script.
LEMMA TickFacts ==
    ASSUME TypeOK, Account, Tick
    PROVE  /\ zone' = zone /\ now' = now + 1 /\ Burst' = Burst /\ Unit' = Unit
           /\ key'.set = key.set /\ key'.val = key.val
           /\ key.set => key.ttl > 0 /\ key'.ttl = key.ttl - 1
           /\ ~key.set => key = NoKey /\ key' = NoKey
<1>1. zone' = zone /\ now' = now + 1
  BY DEF Tick
<1>2. Burst' = Burst /\ Unit' = Unit
  BY <1>1 DEF Burst, Unit
<1>3. /\ key \in Key /\ (key.set => key.ttl > 0)
      /\ key' = [key EXCEPT !.ttl = IF key.set THEN key.ttl - 1 ELSE 0]
  BY DEF Tick, TypeOK, Key
<1>4. /\ key'.set = key.set /\ key'.val = key.val
      /\ key'.ttl = IF key.set THEN key.ttl - 1 ELSE 0
  BY <1>3 DEF Key
<1>5. ~key.set => key = NoKey
  BY DEF Account
<1>6. ~key.set => key' = NoKey
  <2>1. [NoKey EXCEPT !.ttl = 0] = NoKey
    BY DEF NoKey
  <2>2. ~key.set => key' = [key EXCEPT !.ttl = 0]
    BY <1>3
  <2> QED
    BY <1>5, <2>1, <2>2
<1> QED
  BY <1>1, <1>2, <1>3, <1>4, <1>5, <1>6

LEMMA ExpireFacts ==
    ASSUME TypeOK, Expire
    PROVE  /\ zone' = zone /\ now' = now /\ Burst' = Burst /\ Unit' = Unit
           /\ key.set /\ key.ttl = 0 /\ key' = NoKey
           /\ \A t \in 0..now : Since(t)' = Since(t)
  BY DEF Expire, Burst, Unit, Since

LEMMA FixedWindowTick ==
    ASSUME IInv, Account, zone.algo = "fixed_window", Tick
    PROVE  Account'
<1> DEFINE limit == zone.requests + Burst
<1>1. TypeOK /\ AccountFixed
  BY DEF IInv, Account
<1>2. /\ now \in Nat /\ Unit \in Nat \ {0} /\ limit \in Nat /\ key.ttl \in Nat
      /\ key.val[1] \in Nat /\ key.set \in BOOLEAN
  BY <1>1, StateFacts
<1>3. /\ zone' = zone /\ now' = now + 1 /\ Burst' = Burst /\ Unit' = Unit
      /\ key'.set = key.set /\ key'.val = key.val
      /\ key.set => key.ttl > 0 /\ key'.ttl = key.ttl - 1
      /\ ~key.set => key' = NoKey
  BY <1>1, TickFacts
<1>4. \A t \in 0..(now + 1) :
        Since(t)' = IF t = now + 1 THEN 0 ELSE Since(t)
  BY <1>1, SinceTick
<1>5. \A t \in 0..(now + 1) : t # now + 1 => t \in 0..now
  BY <1>2
<1>6. zone'.requests + Burst' = limit
  BY <1>3
<1>7. CASE key.set
  <2>1. key'.val[1] > 0 /\ key'.ttl <= Unit
    BY <1>1, <1>2, <1>3, <1>7 DEF AccountFixed
  <2>2. ASSUME NEW t \in 0..(now + 1), t > now + 1 + (key.ttl - 1) - Unit
        PROVE  Since(t)' <= key.val[1]
    BY <1>1, <1>2, <1>4, <1>5, <1>7, <2>2 DEF AccountFixed
  <2>3. ASSUME NEW t \in 0..(now + 1), t > now + 1 - Unit
        PROVE  Since(t)' <= limit + key.val[1]
    BY <1>1, <1>2, <1>4, <1>5, <1>7, <2>3 DEF AccountFixed
  <2>4. \A t \in 0..now' :
          t > now' + key'.ttl - Unit' => Since(t)' <= key'.val[1]
    BY <1>3, <1>7, <2>2
  <2>5. \A t \in 0..now' :
          t > now' - Unit' => Since(t)' <= limit + key'.val[1]
    BY <1>2, <1>3, <2>3
  <2>6. AccountFixed'
    BY <1>3, <1>7, <1>6, <2>1, <2>4, <2>5 DEF AccountFixed
  <2> QED
    BY <1>3, <1>7, <2>6 DEF Account
<1>8. CASE ~key.set
  <2>1. ASSUME NEW t \in 0..(now + 1), t > now + 1 - Unit
        PROVE  Since(t)' <= limit
    BY <1>1, <1>2, <1>4, <1>5, <1>8, <2>1 DEF AccountFixed
  <2>2. \A t \in 0..now' : t > now' - Unit' => Since(t)' <= limit
    BY <1>2, <1>3, <2>1
  <2>3. AccountFixed'
    BY <1>3, <1>8, <1>6, <2>2 DEF AccountFixed
  <2> QED
    BY <1>3, <1>8, <2>3 DEF Account
<1> QED
  BY <1>7, <1>8

LEMMA FixedWindowExpire ==
    ASSUME IInv, Account, zone.algo = "fixed_window", Expire
    PROVE  Account'
<1> DEFINE limit == zone.requests + Burst
<1>1. TypeOK /\ AccountFixed
  BY DEF IInv, Account
<1>2. /\ now \in Nat /\ Unit \in Nat \ {0} /\ limit \in Nat /\ key.ttl \in Nat
      /\ key.val[1] \in Nat
  BY <1>1, StateFacts
<1>3. /\ zone' = zone /\ now' = now /\ Burst' = Burst /\ Unit' = Unit
      /\ key.set /\ key.ttl = 0 /\ key' = NoKey
      /\ \A t \in 0..now : Since(t)' = Since(t)
  BY <1>1, ExpireFacts
<1>4. key.val[1] <= limit
  <2>1. Within(key.val[1], now)
    BY <1>3 DEF IInv, StoredWithinLimits
  <2> QED
    BY <1>1, <1>2, <2>1, WithinBurst
<1>5. ASSUME NEW t \in 0..now, t > now - Unit
      PROVE  Since(t) <= limit
  <2>1. Since(t) <= key.val[1]
    BY <1>1, <1>2, <1>3, <1>5 DEF AccountFixed
  <2> QED
    BY <1>1, <1>2, <1>4, <2>1, SinceType
<1>6. ~NoKey.set
  BY DEF NoKey
<1> QED
  BY <1>3, <1>5, <1>6 DEF Account, AccountFixed

-----------------------------------------------------------------------------
(* The token bucket.                                                       *)

\* The time to live is the time in which an empty bucket fills.
LEMMA BucketTTLCovers ==
    ASSUME TypeOK
    PROVE  /\ BucketTTL(Burst) \in Nat \ {0}
           /\ BucketTTL(Burst) * TPS \in Nat \ {0}
           /\ Capacity <= (BucketTTL(Burst) * TPS) * zone.requests
<1> DEFINE n == zone.requests + Burst
           ttl == BucketTTL(Burst)
           total == n * zone.period
           up == Ceil(total, zone.requests)
<1>1. /\ zone.requests \in Nat \ {0} /\ zone.period \in Nat \ {0} /\ n \in Nat
      /\ TPS \in Nat \ {0} /\ Burst \in Nat
  BY StateFacts
<1>2. total \in Nat
  BY <1>1, ProductFacts
<1>4. ttl = AtLeastOne(up)
  BY DEF BucketTTL
<1> HIDE DEF n, total, up, ttl
<1>3. up \in Int /\ total <= up * zone.requests
  <2>1. total \in Int
    BY <1>2
  <2> QED
    BY <1>1, <2>1, CeilCovers DEF up
<1>5. ttl \in Nat \ {0} /\ up <= ttl
  BY <1>3, <1>4 DEF AtLeastOne
<1>6. up * zone.requests <= ttl * zone.requests
  BY <1>1, <1>3, <1>5, Monotone
<1>7. total <= ttl * zone.requests
  <2>1. up * zone.requests \in Int /\ ttl * zone.requests \in Int
    BY <1>1, <1>3, <1>5, Distribute
  <2> QED
    BY <1>2, <1>3, <1>6, <2>1
<1>8. total * TPS <= (ttl * zone.requests) * TPS
  <2>1. ttl * zone.requests \in Int
    BY <1>1, <1>5, Distribute
  <2> QED
    BY <1>1, <1>2, <1>7, <2>1, Monotone
<1>9. ASSUME NEW a \in Nat, NEW b \in Nat, NEW c \in Nat
      PROVE  (a * b) * c = a * (b * c) /\ (a * b) * c = (a * c) * b
  BY <1>9
<1>10. /\ total * TPS = n * Unit
       /\ (ttl * zone.requests) * TPS = (ttl * TPS) * zone.requests
  BY <1>1, <1>5, <1>9 DEF Unit, total
<1>11. ASSUME NEW a \in Nat \ {0}, NEW b \in Nat \ {0}
       PROVE  a * b \in Nat \ {0}
  BY <1>11
<1>12. ttl * TPS \in Nat \ {0}
  BY <1>1, <1>5, <1>11
<1>13. n * Unit <= (ttl * TPS) * zone.requests
  BY <1>8, <1>10
<1> QED
  BY <1>5, <1>12, <1>13 DEF n, ttl, Capacity

LEMMA CapacityType ==
    ASSUME TypeOK
    PROVE  Capacity \in Nat
<1>1. zone.requests + Burst \in Nat /\ Unit \in Nat
  BY StateFacts
<1> QED
  BY <1>1, ProductFacts DEF Capacity

\* The tokens never exceed the capacity, and a tick adds the refill of one.
LEMMA RefilledBounds ==
    ASSUME TypeOK, NEW t \in Nat,
           key.set => key.val[2] <= t /\ key.val[1] <= Capacity
    PROVE  /\ Refilled(key, t, Capacity) \in 0..Capacity
           /\ Refilled(key, t + 1, Capacity) \in Nat
           /\ Refilled(key, t + 1, Capacity)
                <= Refilled(key, t, Capacity) + zone.requests
<1> DEFINE elapsed == t - key.val[2]
           gain == elapsed * zone.requests
           more == (elapsed + 1) * zone.requests
<1>1. /\ zone.requests \in Nat /\ key.val[1] \in Nat /\ key.val[2] \in Nat
      /\ key.set \in BOOLEAN /\ Capacity \in Nat
  BY StateFacts, CapacityType
<1>2. /\ elapsed \in Int
      /\ (elapsed + 1) * zone.requests = elapsed * zone.requests + 1 * zone.requests
  <2>1. elapsed \in Int
    BY <1>1
  <2> QED
    BY <1>1, <2>1, Distribute
<1>3. 1 * zone.requests = zone.requests
  BY <1>1
<1>4. (t + 1) - key.val[2] = elapsed + 1
  BY <1>1
<1>5. Refilled(key, t, Capacity) =
        IF ~key.set THEN Capacity
        ELSE IF elapsed > 0 THEN Least(Capacity, key.val[1] + gain)
        ELSE key.val[1]
  BY DEF Refilled
<1>6. Refilled(key, t + 1, Capacity) =
        IF ~key.set THEN Capacity
        ELSE IF elapsed + 1 > 0 THEN Least(Capacity, key.val[1] + more)
        ELSE key.val[1]
  <2> DEFINE u == t + 1
  <2> HIDE DEF u
  <2>1. Refilled(key, u, Capacity) =
          IF ~key.set THEN Capacity
          ELSE IF u - key.val[2] > 0
          THEN Least(Capacity, key.val[1] + (u - key.val[2]) * zone.requests)
          ELSE key.val[1]
    BY DEF Refilled
  <2>2. u - key.val[2] = elapsed + 1
    BY <1>4 DEF u
  <2> HIDE DEF elapsed
  <2>3. Refilled(key, u, Capacity) =
          IF ~key.set THEN Capacity
          ELSE IF elapsed + 1 > 0
          THEN Least(Capacity, key.val[1] + (elapsed + 1) * zone.requests)
          ELSE key.val[1]
    BY <2>1, <2>2
  <2> QED
    BY <2>3 DEF u
<1>7. more = gain + zone.requests /\ gain \in Int
  BY <1>1, <1>2, <1>3, Distribute
<1>8. key.set => elapsed >= 0
  BY <1>1
<1>9. elapsed >= 0 => gain >= 0 /\ (elapsed = 0 => gain = 0)
  BY <1>1, <1>2
<1> HIDE DEF elapsed, gain, more
<1>10. CASE ~key.set
  <2>1. /\ Refilled(key, t, Capacity) = Capacity
        /\ Refilled(key, t + 1, Capacity) = Capacity
    BY <1>5, <1>6, <1>10
  <2> QED
    BY <1>1, <2>1
<1>11. CASE key.set
  <2>1. /\ Refilled(key, t, Capacity) =
             IF elapsed > 0 THEN Least(Capacity, key.val[1] + gain) ELSE key.val[1]
        /\ Refilled(key, t + 1, Capacity) = Least(Capacity, key.val[1] + more)
    <3>1. elapsed + 1 > 0
      BY <1>2, <1>8, <1>11
    <3> QED
      BY <1>5, <1>6, <1>11, <3>1
  <2>2. /\ elapsed \in Nat /\ gain \in Nat /\ (elapsed = 0 => gain = 0)
        /\ more = gain + zone.requests /\ key.val[1] <= Capacity
    BY <1>2, <1>7, <1>8, <1>9, <1>11
  <2> QED
    BY <1>1, <2>1, <2>2 DEF Least
<1> QED
  BY <1>1, <1>10, <1>11

\* What a call of the script makes of the bucket.
LEMMA BucketCheck ==
    ASSUME IInv, Account, zone.algo = "token_bucket", OneBurst,
           NEW burst, NEW q, Call(burst, q), Check(burst, q)
    PROVE  Account'
<1> DEFINE tokens == Refilled(key, now, Capacity)
           cost == q * Unit
           rate(t) == (now - t) * zone.requests
           r == TokenBucket(key, now, burst, q)
<1>1. /\ TypeOK /\ burst = Burst /\ burst \in Nat /\ q \in Nat /\ AccountBucket
  BY ZoneFacts, BurstFacts DEF IInv, Call, OneBurst, Account
<1>2. /\ key' = r.key /\ zone' = zone /\ now' = now
      /\ Script(key, now, burst, q) = r
  BY DEF Check, Script
<1>3. \A t \in 0..now :
        Since(t)' = Since(t) + (IF r.status = 0 THEN q ELSE 0)
  BY <1>1, <1>2, SinceCheck
<1>4. \A t \in 0..now : Since(t) \in Int
  BY <1>1, SinceType
<1>5. /\ Burst' = Burst /\ Unit' = Unit /\ Capacity' = Capacity
      /\ BucketTTL(Burst)' = BucketTTL(Burst)
  BY <1>2 DEF Burst, Unit, Capacity, BucketTTL
<1>6. /\ now \in Nat /\ Unit \in Nat \ {0} /\ Capacity \in Nat
      /\ zone.requests \in Nat \ {0} /\ BucketTTL(Burst) * TPS \in Nat
  BY <1>1, StateFacts, CapacityType, BucketTTLCovers
<1>7. tokens \in 0..Capacity
  BY <1>1, <1>6, RefilledBounds DEF AccountBucket
<1>8. cost \in Nat
  BY <1>1, <1>6, ProductFacts
<1>9. /\ r.status = IF q = 0 THEN r.status ELSE IF tokens >= cost THEN 0 ELSE 1
      /\ r.key = IF q = 0 THEN key
                 ELSE IF tokens >= cost
                 THEN Store(<<tokens - cost, now, 0>>, BucketTTL(Burst))
                 ELSE Store(<<tokens, now, 0>>, BucketTTL(Burst))
  BY <1>1 DEF TokenBucket, Peek, Limit, Admit, Affords, Capacity
<1>10. \A t \in 0..now : Since(t) * Unit + tokens <= Capacity + rate(t)
  BY <1>1 DEF AccountBucket
<1>11. CASE q = 0
  <2>1. r.key = key
    BY <1>9, <1>11
  <2>2. \A t \in 0..now : Since(t)' = Since(t)
    BY <1>3, <1>4, <1>11
  <2> QED
    BY <1>1, <1>2, <2>1, <2>2, AccountSame
<1>12. ASSUME NEW left \in 0..Capacity, NEW n \in Nat,
              key' = Store(<<left, now, 0>>, BucketTTL(Burst)),
              \A t \in 0..now : Since(t)' = Since(t) + n,
              left + n * Unit = tokens
       PROVE  Account'
  <2>1. /\ key'.set /\ key'.val[1] = left /\ key'.val[2] = now
        /\ key'.ttl = BucketTTL(Burst) * TPS
    BY <1>12 DEF Store
  <2>2. Refilled(key', now, Capacity) = left
    BY <1>6, <2>1 DEF Refilled
  <2>3. ASSUME NEW t \in 0..now
        PROVE  Since(t)' * Unit + left <= Capacity + rate(t)
    <3> DEFINE s == Since(t)
               u == s * Unit
               v == n * Unit
               w == rate(t)
    <3>1. Since(t)' * Unit = u + v /\ u \in Int /\ v \in Int
      <4>1. s \in Int /\ Since(t)' = s + n
        BY <1>4, <1>12
      <4> QED
        BY <1>6, <1>12, <4>1, Distribute
    <3>2. u + tokens <= Capacity + w
      BY <1>10
    <3>3. left + v = tokens
      BY <1>12
    <3> HIDE DEF tokens, u, v, w
    <3>4. u + v + left = u + tokens
      BY <1>7, <3>1, <3>3
    <3>5. Since(t)' * Unit + left <= Capacity + w
      BY <3>1, <3>2, <3>4
    <3> QED
      BY <3>5 DEF w
  <2>4. \A t \in 0..now : Since(t)' * Unit + Refilled(key', now, Capacity)
                            <= Capacity + (now - t) * zone.requests
    BY <2>2, <2>3
  <2>5. Refilled(key, now, Capacity)' = Refilled(key', now, Capacity)
    BY <1>2, <1>5 DEF Refilled
  <2>6. AccountBucket'
    BY <1>2, <1>5, <1>6, <2>1, <2>4, <2>5 DEF AccountBucket
  <2> QED
    BY <1>2, <2>1, <2>6 DEF Account
<1>13. CASE q # 0 /\ tokens >= cost
  <2>1. /\ r.status = 0
        /\ r.key = Store(<<tokens - cost, now, 0>>, BucketTTL(Burst))
    BY <1>9, <1>13
  <2>2. tokens - cost \in 0..Capacity /\ (tokens - cost) + q * Unit = tokens
    <3> HIDE DEF tokens
    <3>1. tokens - cost \in 0..Capacity /\ (tokens - cost) + cost = tokens
      <4> HIDE DEF cost
      <4> QED BY <1>6, <1>7, <1>8, <1>13
    <3> QED
      BY <3>1
  <2>3. \A t \in 0..now : Since(t)' = Since(t) + q
    BY <1>3, <2>1
  <2> HIDE DEF tokens, cost
  <2> QED
    BY <1>1, <1>2, <1>12, <2>1, <2>2, <2>3
<1>14. CASE q # 0 /\ ~(tokens >= cost)
  <2>1. /\ r.status = 1
        /\ r.key = Store(<<tokens, now, 0>>, BucketTTL(Burst))
    BY <1>9, <1>14
  <2>2. tokens + 0 * Unit = tokens
    BY <1>6, <1>7
  <2>3. \A t \in 0..now : Since(t)' = Since(t) + 0
    BY <1>3, <2>1
  <2> HIDE DEF tokens, cost
  <2> QED
    BY <1>2, <1>7, <1>12, <2>1, <2>2, <2>3
<1> QED
  BY <1>11, <1>13, <1>14

LEMMA BucketTick ==
    ASSUME IInv, Account, zone.algo = "token_bucket", OneBurst, Tick
    PROVE  Account'
<1> DEFINE before == Refilled(key, now, Capacity)
           after == Refilled(key, now + 1, Capacity)
<1>1. TypeOK /\ AccountBucket
  BY DEF IInv, Account
<1>2. /\ now \in Nat /\ Unit \in Nat /\ zone.requests \in Nat /\ Capacity \in Nat
      /\ key.ttl \in Nat /\ key.val[1] \in Nat /\ key.val[2] \in Nat
      /\ key.set \in BOOLEAN /\ BucketTTL(Burst) * TPS \in Nat
  BY <1>1, StateFacts, CapacityType, BucketTTLCovers
<1>3. /\ zone' = zone /\ now' = now + 1 /\ Burst' = Burst /\ Unit' = Unit
      /\ key'.set = key.set /\ key'.val = key.val
      /\ key.set => key.ttl > 0 /\ key'.ttl = key.ttl - 1
      /\ ~key.set => key' = NoKey
  BY <1>1, TickFacts
<1>4. /\ Capacity' = Capacity /\ BucketTTL(Burst)' = BucketTTL(Burst)
  BY <1>3 DEF Capacity, BucketTTL
<1>5. \A t \in 0..(now + 1) :
        Since(t)' = IF t = now + 1 THEN 0 ELSE Since(t)
  BY <1>1, SinceTick
<1>6. /\ before \in 0..Capacity /\ after \in Nat /\ after <= before + zone.requests
  BY <1>1, <1>2, RefilledBounds DEF AccountBucket
<1>7. after <= Capacity
  <2>1. key.set => key.val[2] <= now + 1 /\ key.val[1] <= Capacity
    BY <1>1, <1>2 DEF AccountBucket
  <2>2. now + 1 \in Nat
    BY <1>2
  <2> QED
    BY <1>1, <1>2, <2>1, <2>2, RefilledBounds
<1>8. \A t \in 0..now : Since(t) * Unit + before
                          <= Capacity + (now - t) * zone.requests
  BY <1>1 DEF AccountBucket
<1>9. Refilled(key', now + 1, Capacity) = after
  BY <1>3 DEF Refilled
<1>10. ASSUME NEW t \in 0..(now + 1)
       PROVE  Since(t)' * Unit + after
                <= Capacity + ((now + 1) - t) * zone.requests
  <2> HIDE DEF before, after
  <2>1. CASE t = now + 1
    <3>1. Since(t)' = 0 /\ (now + 1) - t = 0
      BY <1>2, <1>5, <2>1
    <3>2. 0 * Unit = 0 /\ 0 * zone.requests = 0
      BY <1>2
    <3> QED
      BY <1>2, <1>6, <1>7, <3>1, <3>2
  <2>2. CASE t # now + 1
    <3>1. t \in 0..now /\ Since(t)' = Since(t) /\ Since(t) \in Int
      BY <1>1, <1>2, <1>5, <2>2, SinceType
    <3>2. (now + 1) - t = (now - t) + 1 /\ now - t \in Int
      BY <1>2, <3>1
    <3>3. ((now + 1) - t) * zone.requests = (now - t) * zone.requests + zone.requests
      <4>1. 1 * zone.requests = zone.requests
        BY <1>2
      <4> QED
        BY <1>2, <3>2, <4>1, Distribute
    <3> DEFINE u == Since(t) * Unit
               w == (now - t) * zone.requests
    <3>4. u \in Int /\ w \in Int
      BY <1>2, <3>1, <3>2, Distribute
    <3>5. u + before <= Capacity + w
      BY <1>8, <3>1
    <3>6. u + after <= Capacity + (w + zone.requests)
      <4> HIDE DEF u, w
      <4> QED
        BY <1>2, <1>6, <3>4, <3>5
    <3> QED
      BY <3>1, <3>3, <3>6
  <2> QED
    BY <2>1, <2>2
<1>11. \A t \in 0..now' : Since(t)' * Unit' + Refilled(key', now', Capacity')
                            <= Capacity' + (now' - t) * zone'.requests
  BY <1>3, <1>4, <1>9, <1>10
<1>12. key'.set => /\ key'.val[2] <= now' /\ key'.val[1] <= Capacity
                   /\ now' + key'.ttl = key'.val[2] + BucketTTL(Burst) * TPS
  BY <1>1, <1>2, <1>3 DEF AccountBucket
<1>13. Refilled(key, now, Capacity)' = Refilled(key', now', Capacity')
  BY <1>3 DEF Refilled
<1>14. AccountBucket'
  BY <1>4, <1>11, <1>12, <1>13 DEF AccountBucket
<1> QED
  BY <1>3, <1>14 DEF Account

\* A key that is gone was that of a full bucket.
LEMMA BucketFull ==
    ASSUME TypeOK, AccountBucket, key.set, key.ttl = 0
    PROVE  Refilled(key, now, Capacity) = Capacity
<1> DEFINE life == BucketTTL(Burst) * TPS
           gain == life * zone.requests
<1>1. /\ now \in Nat /\ zone.requests \in Nat /\ Capacity \in Nat
      /\ key.val[1] \in Nat /\ key.val[2] \in Nat
      /\ life \in Nat \ {0} /\ Capacity <= gain
  BY StateFacts, CapacityType, BucketTTLCovers
<1>2. now - key.val[2] = life
  <2> HIDE DEF life
  <2>1. now + key.ttl = key.val[2] + life
    BY DEF AccountBucket, life
  <2> QED
    BY <1>1, <2>1
<1>3. Refilled(key, now, Capacity) =
        IF now - key.val[2] > 0
        THEN Least(Capacity, key.val[1] + (now - key.val[2]) * zone.requests)
        ELSE key.val[1]
  BY DEF Refilled
<1>4. gain \in Nat
  BY <1>1, ProductFacts
<1>5. Refilled(key, now, Capacity) = Least(Capacity, key.val[1] + gain)
  <2> HIDE DEF life
  <2> QED
    BY <1>1, <1>2, <1>3
<1> HIDE DEF gain, life
<1> QED
  BY <1>1, <1>4, <1>5 DEF Least

LEMMA BucketExpire ==
    ASSUME IInv, Account, zone.algo = "token_bucket", OneBurst, Expire
    PROVE  Account'
<1>1. TypeOK /\ AccountBucket
  BY DEF IInv, Account
<1>2. /\ zone' = zone /\ now' = now /\ Burst' = Burst /\ Unit' = Unit
      /\ key.set /\ key.ttl = 0 /\ key' = NoKey
      /\ \A t \in 0..now : Since(t)' = Since(t)
  BY <1>1, ExpireFacts
<1>3. Capacity' = Capacity
  BY <1>2 DEF Capacity
<1>4. ~NoKey.set
  BY DEF NoKey
<1>5. Refilled(key, now, Capacity)' = Refilled(key, now, Capacity)
  <2>1. Refilled(key, now, Capacity)' = Capacity
    BY <1>2, <1>3, <1>4 DEF Refilled
  <2> QED
    BY <1>1, <1>2, <2>1, BucketFull
<1>6. AccountBucket'
  BY <1>1, <1>2, <1>3, <1>4, <1>5 DEF AccountBucket
<1> QED
  BY <1>2, <1>6 DEF Account

-----------------------------------------------------------------------------
(* GCRA.                                                                   *)

LEMMA GcraCheck ==
    ASSUME IInv, Account, zone.algo = "gcra",
           NEW burst, NEW q, Call(burst, q), Check(burst, q)
    PROVE  Account'
<1> DEFINE at == now * zone.requests
           cost == q * Unit
           tat == Most(key.val[1], at)
           new_tat == tat + cost
           second == zone.requests * TPS
           up == Ceil(new_tat - at, second)
           ttl == AtLeastOne(up)
           admits == ~(q = 0 \/ at - (new_tat - (burst + 1) * Unit) < 0)
           r == Gcra(key, now, burst, q)
<1>1. TypeOK /\ AccountGcra /\ burst \in Nat /\ q \in Nat
  BY ZoneFacts DEF IInv, Account
<1>2. /\ key' = r.key /\ zone' = zone /\ now' = now
      /\ Script(key, now, burst, q) = r
  BY DEF Check, Script
<1>3. \A t \in 0..now :
        Since(t)' = Since(t) + (IF r.status = 0 THEN q ELSE 0)
  BY <1>1, <1>2, SinceCheck
<1>4. \A t \in 0..now : Since(t) \in Int
  BY <1>1, SinceType
<1>5. /\ now \in Nat /\ zone.requests \in Nat \ {0} /\ Unit \in Nat
      /\ TPS \in Nat \ {0} /\ key.val[1] \in Nat
  BY <1>1, StateFacts
<1>6. at \in Nat /\ cost \in Nat /\ second \in Nat \ {0}
  <2>1. ASSUME NEW a \in Nat \ {0}, NEW b \in Nat \ {0}
        PROVE  a * b \in Nat \ {0}
    BY <2>1
  <2> QED
    BY <1>1, <1>5, <2>1, ProductFacts
<1>7. /\ r.key = IF admits THEN Store(<<new_tat, 0, 0>>, ttl) ELSE key
      /\ ~admits => (r.status = 0 => q = 0)
      /\ admits => r.status = 0
  BY DEF Gcra, Peek, Limit, Admit
<1> HIDE DEF admits
<1>8. CASE ~admits
  <2>1. r.key = key /\ (r.status = 0 => q = 0)
    BY <1>7, <1>8
  <2>2. \A t \in 0..now : Since(t)' = Since(t)
    BY <1>3, <1>4, <2>1
  <2> QED
    BY <1>1, <1>2, <2>1, <2>2, AccountSame
<1>9. CASE admits
  <2>1. key' = Store(<<new_tat, 0, 0>>, ttl) /\ r.status = 0
    BY <1>2, <1>7, <1>9
  <2>2. \A t \in 0..now : Since(t)' = Since(t) + q
    BY <1>3, <2>1
  <2>3. /\ key'.set /\ key'.val[1] = new_tat /\ key'.ttl = ttl * TPS
    BY <2>1 DEF Store
  <2>4. /\ tat \in Nat /\ at <= tat /\ new_tat \in Nat /\ at <= new_tat
        /\ Most(new_tat, at) = new_tat
    <3> HIDE DEF at, cost
    <3> QED
      BY <1>5, <1>6 DEF Most
  <2>5. ttl \in Nat /\ new_tat <= (now + ttl * TPS) * zone.requests
    <3> HIDE DEF at, new_tat, second
    <3>1. new_tat - at \in Int
      BY <1>6, <2>4
    <3>2. up \in Int /\ new_tat - at <= up * second
      BY <1>6, <3>1, CeilCovers
    <3>3. ttl \in Nat /\ up <= ttl
      <4> HIDE DEF up
      <4> QED
        BY <3>2 DEF AtLeastOne
    <3> HIDE DEF ttl, up
    <3>4. up * second <= ttl * second /\ up * second \in Int /\ ttl * second \in Int
      BY <1>6, <3>2, <3>3, Monotone, Distribute
    <3>5. new_tat <= at + ttl * second
      BY <1>6, <2>4, <3>2, <3>4
    <3>6. ASSUME NEW a \in Nat, NEW b \in Nat, NEW c \in Nat
          PROVE  a * (b * c) = (a * c) * b
      BY <3>6
    <3>7. ttl * second = (ttl * TPS) * zone.requests
      BY <1>5, <3>3, <3>6 DEF second
    <3>8. ttl * TPS \in Nat
      BY <1>5, <3>3, ProductFacts
    <3>9. (now + ttl * TPS) * zone.requests
            = at + (ttl * TPS) * zone.requests
      BY <1>5, <3>8, Distribute DEF at
    <3> QED
      BY <3>3, <3>5, <3>7, <3>9
  <2>6. ASSUME NEW t \in 0..now
        PROVE  Since(t)' * Unit + t * zone.requests <= Most(new_tat, at)
    <3> DEFINE u == Since(t) * Unit
               w == t * zone.requests
    <3>1. Since(t)' * Unit = u + cost /\ u \in Int /\ w \in Int
      <4>1. Since(t) \in Int /\ Since(t)' = Since(t) + q
        BY <1>4, <2>2
      <4> QED
        BY <1>1, <1>5, <4>1, Distribute
    <3>2. u + w <= tat
      BY <1>1 DEF AccountGcra
    <3>3. u + cost + w <= new_tat
      <4>1. new_tat = tat + cost
        OBVIOUS
      <4> HIDE DEF u, w, cost, tat, new_tat
      <4> QED
        BY <1>6, <2>4, <3>1, <3>2, <4>1
    <3> QED
      BY <2>4, <3>1, <3>3
  <2>7. AccountGcra'
    <3>1. Burst' = Burst /\ Unit' = Unit
      BY <1>2 DEF Burst, Unit
    <3> HIDE DEF new_tat, ttl
    <3> QED
      BY <1>2, <2>3, <2>5, <2>6, <3>1 DEF AccountGcra
  <2> QED
    BY <1>2, <2>3, <2>7 DEF Account
<1> QED
  BY <1>8, <1>9

LEMMA GcraTick ==
    ASSUME IInv, Account, zone.algo = "gcra", Tick
    PROVE  Account'
<1> DEFINE at == now * zone.requests
           next == (now + 1) * zone.requests
<1>1. TypeOK /\ AccountGcra
  BY DEF IInv, Account
<1>2. /\ now \in Nat /\ Unit \in Nat /\ zone.requests \in Nat
      /\ key.ttl \in Nat /\ key.val[1] \in Nat /\ key.set \in BOOLEAN
  BY <1>1, StateFacts
<1>3. /\ zone' = zone /\ now' = now + 1 /\ Burst' = Burst /\ Unit' = Unit
      /\ key'.set = key.set /\ key'.val = key.val
      /\ key.set => key.ttl > 0 /\ key'.ttl = key.ttl - 1
      /\ ~key.set => key = NoKey /\ key' = NoKey
  BY <1>1, TickFacts
<1>4. \A t \in 0..(now + 1) :
        Since(t)' = IF t = now + 1 THEN 0 ELSE Since(t)
  BY <1>1, SinceTick
<1>5. at \in Nat /\ next \in Nat /\ at <= next
  <2>1. now + 1 \in Nat /\ now <= now + 1
    BY <1>2
  <2> QED
    BY <1>2, <2>1, ProductFacts, Monotone
<1>6. key.val[1] <= (now' + key'.ttl) * zone.requests
  <2>1. CASE key.set
    <3>1. now' + key'.ttl = now + key.ttl
      BY <1>2, <1>3, <2>1
    <3> QED
      BY <1>1, <3>1 DEF AccountGcra
  <2>2. CASE ~key.set
    <3>1. key.val[1] = 0 /\ now' + key'.ttl \in Nat
      BY <1>2, <1>3, <2>2 DEF NoKey
    <3> QED
      BY <1>2, <3>1, ProductFacts
  <2> QED
    BY <1>2, <2>1, <2>2
<1>7. ASSUME NEW t \in 0..(now + 1)
      PROVE  Since(t)' * Unit + t * zone.requests <= Most(key.val[1], next)
  <2>1. CASE t = now + 1
    <3>1. Since(t)' = 0 /\ 0 * Unit = 0
      BY <1>2, <1>4, <2>1
    <3>2. Since(t)' * Unit + t * zone.requests = 0 + next
      BY <2>1, <3>1
    <3> HIDE DEF next
    <3> QED
      BY <1>2, <1>5, <3>2 DEF Most
  <2>2. CASE t # now + 1
    <3>1. t \in 0..now /\ Since(t)' = Since(t) /\ Since(t) \in Int
      BY <1>1, <1>2, <1>4, <2>2, SinceType
    <3> DEFINE u == Since(t) * Unit + t * zone.requests
    <3>2. u \in Int
      BY <1>2, <3>1, Distribute
    <3>3. u <= Most(key.val[1], at)
      BY <1>1, <3>1 DEF AccountGcra
    <3>4. u <= Most(key.val[1], next)
      <4> HIDE DEF u, at, next
      <4> QED
        BY <1>2, <1>5, <3>2, <3>3 DEF Most
    <3> QED
      BY <3>1, <3>4
  <2> QED
    BY <2>1, <2>2
<1>8. AccountGcra'
  BY <1>3, <1>6, <1>7 DEF AccountGcra
<1> QED
  BY <1>3, <1>8 DEF Account

LEMMA GcraExpire ==
    ASSUME IInv, Account, zone.algo = "gcra", Expire
    PROVE  Account'
<1> DEFINE at == now * zone.requests
<1>1. TypeOK /\ AccountGcra
  BY DEF IInv, Account
<1>2. /\ now \in Nat /\ zone.requests \in Nat /\ key.val[1] \in Nat
  BY <1>1, StateFacts
<1>3. /\ zone' = zone /\ now' = now /\ Burst' = Burst /\ Unit' = Unit
      /\ key.set /\ key.ttl = 0 /\ key' = NoKey
      /\ \A t \in 0..now : Since(t)' = Since(t)
  BY <1>1, ExpireFacts
<1>4. /\ NoKey.val[1] = 0 /\ ~NoKey.set /\ NoKey.ttl = 0
  BY DEF NoKey
<1>5. at \in Nat
  BY <1>2, ProductFacts
<1>6. key.val[1] <= at
  <2>1. now + key.ttl = now
    BY <1>2, <1>3
  <2> QED
    BY <1>1, <2>1 DEF AccountGcra
<1>7. Most(key.val[1], at) = at /\ Most(0, at) = at /\ 0 <= (now + 0) * zone.requests
  <2>1. now + 0 = now
    BY <1>2
  <2> HIDE DEF at
  <2>2. Most(key.val[1], at) = at /\ Most(0, at) = at
    BY <1>2, <1>5, <1>6 DEF Most
  <2> QED
    BY <1>5, <2>1, <2>2 DEF at
<1>8. AccountGcra'
  BY <1>1, <1>3, <1>4, <1>7 DEF AccountGcra
<1> QED
  BY <1>3, <1>4, <1>8 DEF Account

-----------------------------------------------------------------------------
(* The sliding window.                                                     *)

\* Windows follow one another, each one unit long.
LEMMA WindowFacts ==
    ASSUME NEW n \in Nat, NEW u \in Nat \ {0}
    PROVE  /\ n \div u \in Nat /\ (n \div u) * u <= n /\ n < (n \div u + 1) * u
           /\ u - (n % u) \in 1..u
           /\ \/ (n + 1) \div u = n \div u
              \/ /\ (n + 1) \div u = n \div u + 1
                 /\ (n \div u + 1) * u = n + 1
<1> DEFINE w == n \div u
           v == (n + 1) \div u
<1>1. /\ w \in Nat /\ w * u <= n /\ n < w * u + u /\ u - (n % u) \in 1..u
  OBVIOUS
<1>2. /\ v \in Nat /\ v * u <= n + 1 /\ n + 1 < v * u + u
  <2> DEFINE m == n + 1
  <2>1. m \in Nat
    OBVIOUS
  <2> HIDE DEF m
  <2>2. m \div u \in Nat /\ (m \div u) * u <= m /\ m < (m \div u) * u + u
    BY <2>1
  <2> QED
    BY <2>2 DEF m
<1> HIDE DEF w, v
<1>3. (w + 1) * u = w * u + u /\ (w + 2) * u = w * u + 2 * u
  BY <1>1
<1>4. ~(v < w)
  <2> SUFFICES ASSUME v + 1 <= w PROVE FALSE
    BY <1>1, <1>2
  <2>1. (v + 1) * u <= w * u
    BY <1>1, <1>2, Monotone
  <2>2. (v + 1) * u = v * u + u
    BY <1>2
  <2>3. v * u \in Nat /\ w * u \in Nat
    BY <1>1, <1>2, ProductFacts
  <2> QED
    BY <1>1, <1>2, <2>1, <2>2, <2>3
<1>5. ~(v > w + 1)
  <2> SUFFICES ASSUME w + 2 <= v PROVE FALSE
    BY <1>1, <1>2
  <2>1. (w + 2) * u <= v * u
    BY <1>1, <1>2, Monotone
  <2>2. v * u \in Nat /\ w * u \in Nat /\ 2 * u = u + u
    BY <1>1, <1>2, ProductFacts
  <2> QED
    BY <1>1, <1>2, <1>3, <2>1, <2>2
<1>6. v = w \/ v = w + 1
  BY <1>1, <1>2, <1>4, <1>5
<1>7. v = w + 1 => (w + 1) * u = n + 1
  <2>1. w * u \in Nat
    BY <1>1, ProductFacts
  <2> QED
    BY <1>1, <1>2, <1>3, <2>1
<1>8. /\ w \in Nat /\ w * u <= n /\ n < (w + 1) * u /\ u - (n % u) \in 1..u
  BY <1>1, <1>3
<1> QED
  BY <1>6, <1>7, <1>8 DEF w, v

LEMMA RolledType ==
    ASSUME TypeOK, NEW win \in Nat
    PROVE  /\ Rolled(key, win)[1] \in Nat /\ Rolled(key, win)[2] \in Nat
<1>1. key.val[1] \in Nat /\ key.val[3] \in Nat
  BY StateFacts
<1> QED
  BY <1>1 DEF Rolled

LEMMA SlidingCheck ==
    ASSUME IInv, Account, zone.algo = "sliding_window",
           NEW burst, NEW q, Call(burst, q), Check(burst, q)
    PROVE  Account'
<1> DEFINE limit == zone.requests + burst
           greatest == zone.requests + Burst
           win == now \div Unit
           left == Unit - (now % Unit)
           c == Rolled(key, win)[1]
           p == Rolled(key, win)[2]
           admits == ~(q = 0 \/ p * left + (c + q) * Unit > limit * Unit)
           r == SlidingWindow(key, now, burst, q)
<1>1. /\ TypeOK /\ AccountSliding /\ burst \in Nat /\ q \in Nat
      /\ burst <= Burst
  BY ZoneFacts, BurstFacts DEF IInv, Account, Call
<1>2. /\ key' = r.key /\ zone' = zone /\ now' = now
      /\ Script(key, now, burst, q) = r
  BY DEF Check, Script
<1>3. \A t \in 0..now :
        Since(t)' = Since(t) + (IF r.status = 0 THEN q ELSE 0)
  BY <1>1, <1>2, SinceCheck
<1>4. \A t \in 0..now : Since(t) \in Int
  BY <1>1, SinceType
<1>5. /\ now \in Nat /\ zone.requests \in Nat \ {0} /\ Unit \in Nat \ {0}
      /\ zone.period \in Nat /\ TPS \in Nat /\ Burst \in Nat
      /\ limit \in Nat /\ limit <= greatest /\ greatest \in Nat
  <2>1. /\ now \in Nat /\ zone.requests \in Nat \ {0} /\ Unit \in Nat \ {0}
        /\ zone.period \in Nat /\ TPS \in Nat /\ Burst \in Nat
    BY <1>1, StateFacts
  <2> QED
    BY <1>1, <2>1
<1>6. win \in Nat /\ win * Unit <= now /\ left \in 1..Unit
  BY <1>5, WindowFacts
<1>7. c \in Nat /\ p \in Nat
  BY <1>1, <1>6, RolledType
<1>8. Burst' = Burst /\ Unit' = Unit
  BY <1>2 DEF Burst, Unit
<1>9. /\ r.key = IF admits THEN Store(<<c + q, win, p>>, 2 * zone.period) ELSE key
      /\ ~admits => (r.status = 0 => q = 0)
      /\ admits => r.status = 0
  BY DEF SlidingWindow, Peek, Limit, Admit
<1>10. /\ c <= greatest /\ p <= greatest
       /\ \A t \in 0..now : /\ win * Unit <= t => Since(t) <= c
                            /\ (win - 1) * Unit <= t => Since(t) <= c + p
  BY <1>1 DEF AccountSliding
<1>11. CASE ~admits
  <2>1. r.key = key /\ (r.status = 0 => q = 0)
    BY <1>9, <1>11
  <2>2. \A t \in 0..now : Since(t)' = Since(t)
    BY <1>3, <1>4, <2>1
  <2> QED
    BY <1>1, <1>2, <2>1, <2>2, AccountSame
<1>12. CASE admits
  <2>1. key' = Store(<<c + q, win, p>>, 2 * zone.period) /\ r.status = 0
    BY <1>2, <1>9, <1>12
  <2>2. \A t \in 0..now : Since(t)' = Since(t) + q
    BY <1>3, <2>1
  <2>3. p * left + (c + q) * Unit <= limit * Unit
    <3>1. p * left \in Nat /\ (c + q) * Unit \in Nat /\ limit * Unit \in Nat
      <4>1. c + q \in Nat /\ left \in Nat
        BY <1>1, <1>6, <1>7
      <4> QED
        BY <1>5, <1>7, <4>1, ProductFacts
    <3> QED
      BY <1>12, <3>1
  <2> HIDE DEF win, left, c, p, admits, limit, greatest
  <2>4. c + q <= limit /\ (p > 0 => c + q < limit)
    <3>1. ASSUME NEW a \in Nat, NEW n \in Nat, NEW m \in Nat, NEW u \in Nat \ {0},
                 a + n * u <= m * u
          PROVE  n <= m /\ (a > 0 => n < m)
      <4>1. n * u \in Nat /\ m * u \in Nat
        BY ProductFacts
      <4>2. ~(m < n)
        <5> SUFFICES ASSUME m + 1 <= n PROVE FALSE
          OBVIOUS
        <5>1. (m + 1) * u <= n * u
          BY Monotone
        <5>2. (m + 1) * u = m * u + u
          OBVIOUS
        <5> QED
          BY <3>1, <4>1, <5>1, <5>2
      <4>3. n = m => ~(a > 0)
        BY <3>1, <4>1
      <4> QED
        BY <4>2, <4>3
    <3>2. p * left \in Nat /\ (p > 0 => p * left > 0)
      <4>1. ASSUME NEW x \in Nat, NEW y \in Nat \ {0}
            PROVE  x * y \in Nat /\ (x > 0 => x * y > 0)
        BY <4>1
      <4>2. left \in Nat \ {0}
        BY <1>5, <1>6
      <4> QED
        BY <1>7, <4>1, <4>2
    <3>3. c + q \in Nat
      BY <1>1, <1>7
    <3> QED
      BY <1>5, <2>3, <3>1, <3>2, <3>3
  <2>5. /\ key'.set /\ key'.val[1] = c + q /\ key'.val[2] = win /\ key'.val[3] = p
        /\ key'.ttl = (2 * zone.period) * TPS
    BY <2>1 DEF Store
  <2>6. Rolled(key', win)[1] = c + q /\ Rolled(key', win)[2] = p
    BY <2>5 DEF Rolled
  <2>7. (win + 2) * Unit <= now + key'.ttl
    <3>1. (2 * zone.period) * TPS = 2 * Unit
      <4>1. ASSUME NEW a \in Nat, NEW b \in Nat
            PROVE  (2 * a) * b = 2 * (a * b)
        BY <4>1
      <4> QED
        BY <1>5, <4>1 DEF Unit
    <3>2. (win + 2) * Unit = win * Unit + 2 * Unit /\ win * Unit \in Int
      BY <1>5, <1>6, Distribute
    <3> QED
      BY <1>5, <1>6, <2>5, <3>1, <3>2
  <2>8. \A t \in 0..now : /\ win * Unit <= t => Since(t)' <= c + q
                          /\ (win - 1) * Unit <= t => Since(t)' <= (c + q) + p
    BY <1>1, <1>4, <1>7, <1>10, <2>2
  <2>9. /\ c + q <= greatest /\ p <= greatest /\ (p > 0 => c + q < greatest)
    BY <1>1, <1>5, <1>7, <1>10, <2>4
  <2>10. now' \div Unit' = win
    BY <1>2, <1>8 DEF win
  <2>11. zone'.requests + Burst' = greatest
    BY <1>2, <1>8 DEF greatest
  <2>12. win <= win
    BY <1>6
  <2>13. AccountSliding'
    BY <1>2, <1>8, <2>5, <2>6, <2>7, <2>8, <2>9, <2>10, <2>11, <2>12
       DEF AccountSliding
  <2> QED
    BY <1>2, <2>5, <2>13 DEF Account
<1> QED
  BY <1>11, <1>12

LEMMA SlidingTick ==
    ASSUME IInv, Account, zone.algo = "sliding_window", Tick
    PROVE  Account'
<1> DEFINE greatest == zone.requests + Burst
           win == now \div Unit
           next == (now + 1) \div Unit
           c == Rolled(key, win)[1]
           p == Rolled(key, win)[2]
           d == Rolled(key, next)[1]
           o == Rolled(key, next)[2]
<1>1. TypeOK /\ AccountSliding
  BY DEF IInv, Account
<1>2. /\ now \in Nat /\ Unit \in Nat \ {0} /\ zone.requests \in Nat \ {0}
      /\ Burst \in Nat /\ key.ttl \in Nat /\ key.set \in BOOLEAN
      /\ key.val[1] \in Nat /\ key.val[2] \in Nat /\ key.val[3] \in Nat
  BY <1>1, StateFacts
<1>3. /\ zone' = zone /\ now' = now + 1 /\ Burst' = Burst /\ Unit' = Unit
      /\ key'.set = key.set /\ key'.val = key.val
      /\ key.set => key.ttl > 0 /\ key'.ttl = key.ttl - 1
      /\ ~key.set => key' = NoKey
  BY <1>1, TickFacts
<1>4. \A t \in 0..(now + 1) :
        Since(t)' = IF t = now + 1 THEN 0 ELSE Since(t)
  BY <1>1, SinceTick
<1>5. /\ win \in Nat
      /\ \/ next = win
         \/ next = win + 1 /\ (win + 1) * Unit = now + 1
  <2> DEFINE unit == Unit
  <2>1. now \in Nat /\ unit \in Nat \ {0}
    BY <1>2
  <2> HIDE DEF unit
  <2>2. /\ now \div unit \in Nat
        /\ \/ (now + 1) \div unit = now \div unit
           \/ /\ (now + 1) \div unit = (now \div unit) + 1
              /\ ((now \div unit) + 1) * unit = now + 1
    BY <2>1, WindowFacts
  <2> QED
    BY <2>2 DEF unit
<1>6. c \in Nat /\ p \in Nat /\ greatest \in Nat /\ greatest > 0
  <2>1. c \in Nat /\ p \in Nat
    <3> HIDE DEF win
    <3> QED
      BY <1>1, <1>5, RolledType
  <2>2. greatest \in Nat /\ greatest > 0
    BY <1>2
  <2> QED
    BY <2>1, <2>2
<1>7. /\ key.set => /\ key.val[2] <= win
                    /\ (key.val[2] + 2) * Unit <= now + key.ttl
      /\ c <= greatest /\ p <= greatest /\ (p > 0 => c < greatest)
      /\ \A t \in 0..now : /\ win * Unit <= t => Since(t) <= c
                           /\ (win - 1) * Unit <= t => Since(t) <= c + p
  BY <1>1 DEF AccountSliding
<1>8. /\ next = win => d = c /\ o = p
      /\ next = win + 1 => d = 0 /\ o = c
  <2> HIDE DEF win, next
  <2>1. next = win => d = c /\ o = p
    OBVIOUS
  <2>2. ASSUME next = win + 1
        PROVE  d = 0 /\ o = c
    <3>1. CASE ~key.set
      BY <3>1 DEF Rolled
    <3>2. CASE key.set /\ key.val[2] = win
      <4>1. key.val[2] # next /\ key.val[2] = next - 1
        BY <1>2, <1>5, <2>2, <3>2
      <4> QED
        BY <3>2, <4>1 DEF Rolled
    <3>3. CASE key.set /\ key.val[2] # win
      <4>1. key.val[2] # next /\ key.val[2] # next - 1
        BY <1>2, <1>5, <1>7, <2>2, <3>3
      <4>2. c = 0
        BY <3>3 DEF Rolled
      <4> QED
        BY <3>3, <4>1, <4>2 DEF Rolled
    <3> QED
      BY <3>1, <3>2, <3>3
  <2> QED
    BY <2>1, <2>2
<1> HIDE DEF greatest, win, next, c, p, d, o
<1>9. d <= greatest /\ o <= greatest /\ (o > 0 => d < greatest)
  BY <1>5, <1>6, <1>7, <1>8
<1>10. ASSUME NEW t \in 0..(now + 1)
       PROVE  /\ next * Unit <= t => Since(t)' <= d
              /\ (next - 1) * Unit <= t => Since(t)' <= d + o
  <2>1. CASE t = now + 1
    <3>1. Since(t)' = 0
      BY <1>4, <2>1
    <3> QED
      BY <1>5, <1>6, <1>8, <3>1
  <2>2. CASE t # now + 1
    <3>1. t \in 0..now /\ Since(t)' = Since(t) /\ Since(t) \in Int
      BY <1>1, <1>2, <1>4, <2>2, SinceType
    <3>2. CASE next = win
      BY <1>7, <1>8, <3>1, <3>2
    <3>3. CASE next = win + 1
      <4>1. next * Unit = now + 1
        BY <1>2, <1>5, <3>3
      <4>2. ~(next * Unit <= t)
        BY <1>2, <3>1, <4>1
      <4>3. next - 1 = win
        BY <1>5, <3>3
      <4>4. d + o = c
        BY <1>6, <1>8, <3>3
      <4>5. win * Unit <= t => Since(t) <= c
        BY <1>7, <3>1
      <4> QED
        BY <3>1, <4>2, <4>3, <4>4, <4>5
    <3> QED
      BY <1>5, <3>2, <3>3
  <2> QED
    BY <2>1, <2>2
<1>11. key'.set => /\ key'.val[2] <= next
                   /\ (key'.val[2] + 2) * Unit <= now' + key'.ttl
  <2>1. key.set => now' + key'.ttl = now + key.ttl
    BY <1>2, <1>3
  <2>2. key.set => key.val[2] <= next
    BY <1>2, <1>5, <1>7
  <2> QED
    BY <1>3, <1>7, <2>1, <2>2
<1>12. /\ now' \div Unit' = next /\ zone'.requests + Burst' = greatest
       /\ Rolled(key', next)[1] = d /\ Rolled(key', next)[2] = o
  BY <1>3 DEF next, greatest, d, o, Rolled
<1>13. \A t \in 0..now' : /\ next * Unit' <= t => Since(t)' <= d
                          /\ (next - 1) * Unit' <= t => Since(t)' <= d + o
  BY <1>3, <1>10
<1>14. key'.set => /\ key'.val[2] <= next
                   /\ (key'.val[2] + 2) * Unit' <= now' + key'.ttl
  BY <1>3, <1>11
<1>15. AccountSliding'
  BY <1>9, <1>12, <1>13, <1>14 DEF AccountSliding
<1> QED
  BY <1>3, <1>15 DEF Account

\* A key that is gone was of a window that no longer counts.
LEMMA SlidingOver ==
    ASSUME TypeOK, AccountSliding, key.set, key.ttl = 0
    PROVE  Rolled(key, now \div Unit) = <<0, 0>>
<1> DEFINE win == now \div Unit
           w == key.val[2]
<1>1. now \in Nat /\ Unit \in Nat \ {0} /\ w \in Nat
  BY StateFacts
<1>2. win \in Nat /\ now < (win + 1) * Unit
  BY <1>1, WindowFacts
<1>3. (w + 2) * Unit <= now
  <2>1. (w + 2) * Unit <= now + key.ttl
    BY DEF AccountSliding
  <2> QED
    BY <1>1, <2>1
<1> HIDE DEF win, w
<1>4. ~(w >= win - 1)
  <2> SUFFICES ASSUME w >= win - 1 PROVE FALSE
    OBVIOUS
  <2>1. win + 1 <= w + 2
    BY <1>1, <1>2
  <2>2. (win + 1) * Unit <= (w + 2) * Unit
    BY <1>1, <1>2, <2>1, Monotone
  <2>3. (win + 1) * Unit \in Int /\ (w + 2) * Unit \in Int
    BY <1>1, <1>2, Distribute
  <2> QED
    BY <1>1, <1>2, <1>3, <2>2, <2>3
<1>5. w # win /\ w # win - 1
  BY <1>1, <1>2, <1>4
<1> QED
  BY <1>5 DEF w, win, Rolled

LEMMA SlidingExpire ==
    ASSUME IInv, Account, zone.algo = "sliding_window", Expire
    PROVE  Account'
<1>1. TypeOK /\ AccountSliding
  BY DEF IInv, Account
<1>2. /\ zone' = zone /\ now' = now /\ Burst' = Burst /\ Unit' = Unit
      /\ key.set /\ key.ttl = 0 /\ key' = NoKey
      /\ \A t \in 0..now : Since(t)' = Since(t)
  BY <1>1, ExpireFacts
<1>3. ~NoKey.set
  BY DEF NoKey
<1>4. Rolled(NoKey, now \div Unit) = Rolled(key, now \div Unit)
  <2>1. Rolled(NoKey, now \div Unit) = <<0, 0>>
    BY <1>3 DEF Rolled
  <2> QED
    BY <1>1, <1>2, <2>1, SlidingOver
<1>5. AccountSliding'
  BY <1>1, <1>2, <1>3, <1>4 DEF AccountSliding
<1> QED
  BY <1>2, <1>3, <1>5 DEF Account

-----------------------------------------------------------------------------
(* The account is kept.                                                    *)

\* A bucket whose locations disagree keeps no account; what is left says no
\* more than that an unset key is empty.
LEMMA SeveralBursts ==
    ASSUME IInv, Account, zone.algo = "token_bucket", ~OneBurst, Next
    PROVE  Account'
<1>1. TypeOK /\ (~key.set => key = NoKey)
  BY DEF IInv, Account
<1>2. ~key'.set => key' = NoKey
  <2>1. ASSUME NEW burst \in zone.bursts, NEW q \in zone.quantities,
               Check(burst, q)
        PROVE  ~key'.set => key' = NoKey
    <3>1. key' = TokenBucket(key, now, burst, q).key
      BY <2>1 DEF Check, Script
    <3>2. key' = key \/ key'.set
      BY <3>1 DEF TokenBucket, Peek, Admit, Limit, Store
    <3> QED
      BY <1>1, <3>2
  <2>2. CASE Expire
    BY <2>2 DEF Expire
  <2>3. CASE Tick
    BY <1>1, <2>3, TickFacts
  <2> QED
    BY <2>1, <2>2, <2>3 DEF Next
<1>3. zone' = zone
  BY DEF Next, Check, Expire, Tick
<1>4. ~OneBurst' /\ zone'.algo = "token_bucket"
  BY <1>3 DEF OneBurst
<1> QED
  BY <1>2, <1>4 DEF Account

LEMMA AccountInitially ==
    ASSUME Init
    PROVE  Account
<1>1. TypeOK /\ now = 0 /\ key = NoKey /\ 0..now = {0}
  <2>1. NoKey \in Key
    BY DEF NoKey, Key
  <2>2. [t \in 0..MaxTime |-> 0] \in [0..MaxTime -> Nat]
    OBVIOUS
  <2> QED
    BY <2>1, <2>2, TimeAssumption DEF Init, TypeOK
<1>2. /\ ~key.set /\ key.ttl = 0
      /\ key.val[1] = 0 /\ key.val[2] = 0 /\ key.val[3] = 0
  BY <1>1 DEF NoKey
<1>3. \A t \in 0..now : t = 0 /\ Since(t) = 0
  BY <1>1, TimeAssumption DEF Init, Since
<1>4. /\ zone.requests \in Nat \ {0} /\ Burst \in Nat /\ Unit \in Nat \ {0}
  BY <1>1, StateFacts
<1>5. AccountFixed
  BY <1>2, <1>3, <1>4 DEF AccountFixed
<1>6. AccountBucket
  <2>1. Refilled(key, now, Capacity) = Capacity /\ Capacity \in Nat
    BY <1>1, <1>2, CapacityType DEF Refilled
  <2>2. 0 * Unit = 0 /\ (0 - 0) * zone.requests = 0
    BY <1>4
  <2> QED
    BY <1>1, <1>2, <1>3, <2>1, <2>2 DEF AccountBucket
<1>7. AccountGcra
  <2>1. 0 * Unit = 0 /\ 0 * zone.requests = 0
    BY <1>4
  <2> QED
    BY <1>1, <1>2, <1>3, <2>1 DEF AccountGcra, Most
<1>8. AccountSliding
  <2>1. Rolled(key, now \div Unit)[1] = 0 /\ Rolled(key, now \div Unit)[2] = 0
    BY <1>2 DEF Rolled
  <2> QED
    BY <1>2, <1>3, <1>4, <2>1 DEF AccountSliding
<1> QED
  BY <1>1, <1>5, <1>6, <1>7, <1>8 DEF Account

LEMMA AccountKept ==
    ASSUME IInv, Account, [Next]_vars
    PROVE  Account'
<1>1. TypeOK /\ zone.algo \in Algos
  BY ZonesAssumption DEF IInv, TypeOK, Zone
<1>2. ASSUME NEW burst \in zone.bursts, NEW q \in zone.quantities,
             Check(burst, q)
      PROVE  Account'
  <2>1. Call(burst, q) /\ Next
    BY <1>2 DEF Call, Next
  <2>2. zone.algo = "fixed_window" => Account'
    BY <1>2, <2>1, FixedWindowCheck
  <2>3. zone.algo = "token_bucket" => Account'
    BY <1>2, <2>1, BucketCheck, SeveralBursts
  <2>4. zone.algo = "gcra" => Account'
    BY <1>2, <2>1, GcraCheck
  <2>5. zone.algo = "sliding_window" => Account'
    BY <1>2, <2>1, SlidingCheck
  <2> QED
    BY <1>1, <2>2, <2>3, <2>4, <2>5 DEF Algos
<1>3. CASE Expire
  <2>1. Next
    BY <1>3 DEF Next
  <2> QED
    BY <1>1, <1>3, <2>1, FixedWindowExpire, BucketExpire, SeveralBursts,
       GcraExpire, SlidingExpire DEF Algos
<1>4. CASE Tick
  <2>1. Next
    BY <1>4 DEF Next
  <2> QED
    BY <1>1, <1>4, <2>1, FixedWindowTick, BucketTick, SeveralBursts,
       GcraTick, SlidingTick DEF Algos
<1>5. CASE UNCHANGED vars
  <2>1. /\ zone' = zone /\ now' = now /\ key' = key
        /\ \A t \in 0..now : Since(t)' = Since(t)
    BY <1>5 DEF vars, Since
  <2> QED
    BY <1>1, <2>1, AccountSame
<1> QED
  BY <1>2, <1>3, <1>4, <1>5 DEF Next

\* The account together with the invariant of the stored values is inductive.
LEMMA AccountInductive == Spec => [](IInv /\ Account)
<1>1. Init => Account
  BY AccountInitially
<1>2. IInv /\ Account /\ [Next]_vars => Account'
  BY AccountKept
<1> QED
  BY <1>1, <1>2, Inductive, PTL DEF Spec

-----------------------------------------------------------------------------
(* What the account says of the envelope.                                  *)

LEMMA EnvelopeFixed ==
    ASSUME IInv, Account, zone.algo = "fixed_window",
           NEW n \in 0..now, n < Unit
    PROVE  Spend(n) <= 2 * (zone.requests + Burst)
<1> DEFINE limit == zone.requests + Burst
           t == now - n
<1>1. TypeOK /\ AccountFixed
  BY DEF IInv, Account
<1>2. /\ now \in Nat /\ Unit \in Nat \ {0} /\ limit \in Nat
      /\ key.val[1] \in Nat
  BY <1>1, StateFacts
<1>3. t \in 0..now /\ t > now - Unit
  BY <1>2
<1>4. Since(t) \in Int
  BY <1>1, <1>3, SinceType
<1>5. key.set => key.val[1] <= limit
  BY <1>1, <1>2, WithinBurst DEF IInv, StoredWithinLimits
<1>6. Since(t) <= limit + limit
  BY <1>1, <1>2, <1>3, <1>4, <1>5 DEF AccountFixed
<1> QED
  BY <1>2, <1>6 DEF Spend

LEMMA EnvelopeSliding ==
    ASSUME IInv, Account, zone.algo = "sliding_window",
           NEW n \in 0..now, n < Unit
    PROVE  Spend(n) < 2 * (zone.requests + Burst)
<1> DEFINE limit == zone.requests + Burst
           t == now - n
           win == now \div Unit
           before == (win - 1) * Unit
           c == Rolled(key, win)[1]
           p == Rolled(key, win)[2]
<1>1. TypeOK /\ AccountSliding
  BY DEF IInv, Account
<1>2. /\ now \in Nat /\ Unit \in Nat \ {0} /\ limit \in Nat \ {0}
  <2> HIDE DEF t, win, before, c, p
  <2>1. /\ now \in Nat /\ Unit \in Nat \ {0}
        /\ zone.requests \in Nat \ {0} /\ Burst \in Nat
    BY <1>1, StateFacts, Zenon
  <2> QED
    BY <2>1
<1>3. t \in 0..now
  BY <1>2
<1>4. win \in Nat /\ win * Unit <= now
  BY <1>2, WindowFacts
<1>5. before = win * Unit - Unit /\ before \in Int
  <2> HIDE DEF win
  <2>1. before = win * Unit - 1 * Unit /\ 1 * Unit = Unit
    BY <1>2, <1>4, Distribute
  <2>2. before \in Int
    BY <1>2, <1>4
  <2> QED
    BY <2>1, <2>2
<1>6. before <= t
  <2> DEFINE start == win * Unit
  <2>1. start \in Int /\ start <= now /\ before = start - Unit
    BY <1>2, <1>4, <1>5
  <2> HIDE DEF start, before
  <2> QED
    BY <1>2, <2>1
<1>7. c \in Nat /\ p \in Nat
  <2> HIDE DEF win
  <2> QED
    BY <1>1, <1>4, RolledType
<1>8. /\ c <= limit /\ p <= limit /\ (p > 0 => c < limit)
      /\ Since(t) <= c + p
  BY <1>1, <1>3, <1>6 DEF AccountSliding
<1>9. Since(t) \in Int
  BY <1>1, <1>3, SinceType
<1> HIDE DEF limit, c, p, t
<1>10. Since(t) < 2 * limit
  BY <1>2, <1>7, <1>8, <1>9
<1> QED
  BY <1>10 DEF Spend, limit, t

LEMMA EnvelopeBucket ==
    ASSUME IInv, Account, zone.algo = "token_bucket", OneBurst,
           NEW n \in 0..now
    PROVE  Spend(n) * Unit
             <= (zone.requests + Burst) * Unit + n * zone.requests
<1> DEFINE t == now - n
           spent == Since(t) * Unit
           gain == n * zone.requests
<1>1. TypeOK /\ AccountBucket
  BY DEF IInv, Account
<1>2. now \in Nat /\ Unit \in Nat \ {0} /\ zone.requests \in Nat
  BY <1>1, StateFacts
<1>3. t \in 0..now /\ now - t = n
  BY <1>2
<1>4. Since(t) \in Int
  BY <1>1, <1>3, SinceType
<1>5. spent \in Int /\ gain \in Int /\ Capacity \in Nat
  BY <1>1, <1>2, <1>4, CapacityType
<1>6. Refilled(key, now, Capacity) \in Nat
  BY <1>1, <1>2, RefilledBounds DEF AccountBucket
<1>7. spent + Refilled(key, now, Capacity) <= Capacity + gain
  BY <1>1, <1>3 DEF AccountBucket
<1>8. spent <= Capacity + gain
  <2> HIDE DEF spent, gain
  <2> QED
    BY <1>5, <1>6, <1>7
<1> QED
  BY <1>8 DEF Spend, Capacity

LEMMA EnvelopeGcra ==
    ASSUME IInv, Account, zone.algo = "gcra", NEW n \in 0..now
    PROVE  Spend(n) * Unit <= (Burst + 1) * Unit + n * zone.requests
<1> DEFINE t == now - n
           spent == Since(t) * Unit
           gain == n * zone.requests
           start == t * zone.requests
           at == now * zone.requests
           horizon == (Burst + 1) * Unit
<1>1. TypeOK /\ AccountGcra /\ (~key.set => key = NoKey)
  BY DEF IInv, Account
<1>2. /\ now \in Nat /\ Unit \in Nat \ {0} /\ zone.requests \in Nat
      /\ Burst \in Nat /\ key.val[1] \in Nat
  BY <1>1, StateFacts
<1>3. t \in 0..now
  BY <1>2
<1>4. Since(t) \in Int
  BY <1>1, <1>3, SinceType
<1>5. /\ spent \in Int /\ gain \in Int /\ start \in Int /\ at \in Nat
      /\ horizon \in Nat
  BY <1>2, <1>4, ProductFacts
<1>6. start = at - gain
  BY <1>2, Distribute
<1>7. spent + start <= Most(key.val[1], at)
  BY <1>1, <1>3 DEF AccountGcra
<1>8. key.val[1] <= at + horizon
  <2>1. CASE key.set
    BY <1>1, <1>2, <2>1, WithinBurst DEF IInv, StoredWithinLimits
  <2>2. CASE ~key.set
    <3>1. key.val[1] = 0
      BY <1>1, <2>2 DEF NoKey
    <3> HIDE DEF at, horizon
    <3> QED
      BY <1>5, <3>1
  <2> QED
    BY <2>1, <2>2
<1> HIDE DEF spent, gain, start, at, horizon
<1>9. spent <= horizon + gain
  BY <1>2, <1>5, <1>6, <1>7, <1>8 DEF Most
<1> QED
  BY <1>9 DEF Spend, spent, gain, horizon, t

\* docs/DIRECTIVES.md:212-222: within any period the fixed window admits no
\* more than twice its limit and the sliding window less than that; over any
\* stretch of time the bucket and GCRA admit no more than their capacity and
\* what the sustained rate adds, whatever the locations, the quantities and the
\* times of the calls (script.c:23-253).  Of a bucket it is claimed only if the
\* locations that share it agree on its burst: one with a greater burst lets
\* the key of one with a smaller burst expire too early.
THEOREM AdmissionsWithinEnvelope == Spec => [](OneBurst => WithinEnvelope)
<1>1. IInv /\ Account => (OneBurst => WithinEnvelope)
  <2> SUFFICES ASSUME IInv, Account, OneBurst PROVE WithinEnvelope
    OBVIOUS
  <2> QED
    BY EnvelopeFixed, EnvelopeSliding, EnvelopeBucket, EnvelopeGcra
    DEF WithinEnvelope
<1> QED
  BY <1>1, AccountInductive, PTL

-----------------------------------------------------------------------------
(* What the account says of the expiry of a key.                           *)

LEMMA BucketForgets ==
    ASSUME IInv, Account, zone.algo = "token_bucket", OneBurst,
           NEW burst, NEW q, Call(burst, q), key.set, key.ttl = 0
    PROVE  TokenBucket(key, now, burst, q).status
             = TokenBucket(NoKey, now, burst, q).status
<1>1. TypeOK /\ AccountBucket
  BY DEF IInv, Account
<1>2. burst = Burst
  BY <1>1, BurstFacts DEF OneBurst, Call
<1>3. Refilled(key, now, Capacity) = Capacity
  BY <1>1, BucketFull
<1>4. Refilled(NoKey, now, Capacity) = Capacity
  BY DEF Refilled, NoKey
<1>5. Refilled(key, now, (zone.requests + burst) * Unit)
        = Refilled(NoKey, now, (zone.requests + burst) * Unit)
  BY <1>2, <1>3, <1>4 DEF Capacity
<1> QED
  BY <1>5 DEF TokenBucket, Peek, Admit, Limit

LEMMA GcraForgets ==
    ASSUME IInv, Account, zone.algo = "gcra",
           NEW burst, NEW q, key.set, key.ttl = 0
    PROVE  Gcra(key, now, burst, q).status = Gcra(NoKey, now, burst, q).status
<1> DEFINE at == now * zone.requests
<1>1. TypeOK /\ AccountGcra
  BY DEF IInv, Account
<1>2. now \in Nat /\ zone.requests \in Nat /\ key.val[1] \in Nat
  BY <1>1, StateFacts
<1>3. at \in Nat
  BY <1>2, ProductFacts
<1>4. key.val[1] <= at
  <2>1. now + key.ttl = now
    BY <1>2
  <2> QED
    BY <1>1, <2>1 DEF AccountGcra
<1>5. NoKey.val[1] = 0
  BY DEF NoKey
<1>6. Most(key.val[1], at) = at /\ Most(NoKey.val[1], at) = at
  <2> HIDE DEF at
  <2> QED
    BY <1>2, <1>3, <1>4, <1>5 DEF Most
<1> QED
  BY <1>6 DEF Gcra, Peek, Admit, Limit

LEMMA SlidingForgets ==
    ASSUME IInv, Account, zone.algo = "sliding_window",
           NEW burst, NEW q, key.set, key.ttl = 0
    PROVE  SlidingWindow(key, now, burst, q).status
             = SlidingWindow(NoKey, now, burst, q).status
<1>1. Rolled(key, now \div Unit) = <<0, 0>>
  BY SlidingOver DEF IInv, Account
<1>2. Rolled(NoKey, now \div Unit) = <<0, 0>>
  BY DEF Rolled, NoKey
<1> QED
  BY <1>1, <1>2 DEF SlidingWindow, Peek, Admit, Limit

\* When a bucket, an arrival time or a pair of windows runs out of time in
\* Redis, it has nothing left to say: a call just before the expiry and one
\* just after it get the same verdict (script.c:98, 175, 249).
THEOREM ExpiryIsHarmless == Spec => [](OneBurst => ExpiryForgetsNothing)
<1>1. IInv /\ Account => (OneBurst => ExpiryForgetsNothing)
  <2> SUFFICES ASSUME IInv, Account, OneBurst, key.set, key.ttl = 0,
                      zone.algo # "fixed_window",
                      NEW burst \in zone.bursts, NEW q \in zone.quantities
               PROVE  Script(key, now, burst, q).status
                        = Script(NoKey, now, burst, q).status
    BY DEF ExpiryForgetsNothing
  <2>1. Call(burst, q) /\ zone.algo \in Algos
    BY ZoneFacts DEF Call, IInv
  <2>2. CASE zone.algo = "token_bucket"
    BY <2>1, <2>2, BucketForgets DEF Script
  <2>3. CASE zone.algo = "gcra"
    BY <2>3, GcraForgets DEF Script
  <2>4. CASE zone.algo = "sliding_window"
    BY <2>4, SlidingForgets DEF Script
  <2> QED
    BY <2>1, <2>2, <2>3, <2>4 DEF Algos
<1> QED
  BY <1>1, AccountInductive, PTL

-----------------------------------------------------------------------------
(* The replies.                                                            *)

\* What RepliesInContract asks of the reply r to a call for q.
Contract(r, q) ==
    /\ r.limit >= 0 /\ r.remaining >= 0 /\ r.reset >= 0
    /\ IF r.status = 1 /\ q > 0 THEN r.retry_after >= 1 ELSE r.retry_after = -1
    /\ r.status = 0 /\ q > 0 => r.remaining + q <= r.limit

LEMMA AdmitInContract ==
    ASSUME NEW q \in Nat, NEW limit \in Nat, NEW remaining \in Nat,
           NEW reset \in Nat, NEW k, remaining + q <= limit
    PROVE  Contract(Admit(limit, remaining, reset, k), q)
  BY DEF Contract, Admit

LEMMA LimitInContract ==
    ASSUME NEW q \in Nat \ {0}, NEW limit \in Nat, NEW remaining \in Nat,
           NEW retry \in Int, NEW reset \in Nat, NEW k
    PROVE  Contract(Limit(limit, remaining, retry, reset, k), q)
<1>1. AtLeastOne(retry) >= 1
  BY DEF AtLeastOne
<1> QED
  BY <1>1 DEF Contract, Limit

LEMMA PeekInContract ==
    ASSUME NEW exhausted, NEW limit \in Nat, NEW remaining \in Nat,
           NEW reset \in Nat, NEW k
    PROVE  Contract(Peek(exhausted, limit, remaining, reset, k), 0)
  BY DEF Contract, Peek

LEMMA NonNegNat ==
    ASSUME NEW x \in Int
    PROVE  NonNeg(x) \in Nat /\ (x >= 0 => NonNeg(x) = x)
  BY DEF NonNeg

\* Rounded down to whole units, what is left of a limit fits it.
LEMMA Fits ==
    ASSUME NEW a \in Int, NEW u \in Nat \ {0}, NEW q \in Nat, NEW limit \in Nat,
           a + q * u <= limit * u
    PROVE  a \div u + q <= limit
<1> DEFINE d == a \div u
<1>1. d \in Int /\ d * u <= a
  BY DivBounds
<1> HIDE DEF d
<1>2. (d + q) * u = d * u + q * u
  BY <1>1, Distribute
<1>3. (d + q) * u <= limit * u
  <2> DEFINE x == d * u
             y == q * u
             z == limit * u
  <2>1. x \in Int /\ y \in Int /\ z \in Int
    BY <1>1
  <2> HIDE DEF x, y, z
  <2>2. x + y <= z
    <3>1. x <= a /\ a + y <= z
      BY <1>1 DEF x, y, z
    <3> QED
      BY <2>1, <3>1
  <2> QED
    BY <1>2, <2>2 DEF x, y, z
<1>4. ~(limit + 1 <= d + q)
  <2> SUFFICES ASSUME limit + 1 <= d + q PROVE FALSE
    OBVIOUS
  <2> DEFINE e == d + q
  <2>1. e \in Int
    BY <1>1
  <2> HIDE DEF e
  <2>2. (limit + 1) * u <= e * u
    BY <2>1, Monotone DEF e
  <2>3. (limit + 1) * u = limit * u + u
    <3>1. (limit + 1) * u = limit * u + 1 * u /\ 1 * u = u
      BY Distribute
    <3> QED
      BY <3>1
  <2>4. e * u <= limit * u
    BY <1>3 DEF e
  <2> DEFINE x == limit * u
             y == e * u
  <2>5. x \in Int /\ y \in Int
    BY <2>1
  <2> HIDE DEF x, y
  <2> QED
    BY <2>2, <2>3, <2>4, <2>5 DEF x, y
<1>5. d + q <= limit
  BY <1>1, <1>4
<1> QED
  BY <1>5 DEF d

LEMMA DivNat ==
    ASSUME NEW a \in Nat, NEW b \in Nat \ {0}
    PROVE  a \div b \in Nat
  OBVIOUS

\* Redis answers -2 or a number of seconds.
LEMMA TTLType ==
    ASSUME TypeOK
    PROVE  TTL(key) \in Int /\ (TTL(key) < 0 \/ TTL(key) \in Nat)
<1>1. TPS \in Nat \ {0} /\ key.ttl \in Nat
  BY StateFacts
<1>2. TPS \div 2 \in Nat
  BY <1>1, DivNat
<1>3. (key.ttl + TPS \div 2) \div TPS \in Nat
  <2> DEFINE half == TPS \div 2
             total == key.ttl + half
  <2>1. total \in Nat
    <3> HIDE DEF half
    <3>1. half \in Nat
      BY <1>2 DEF half
    <3> QED
      BY <1>1, <3>1
  <2> HIDE DEF total
  <2>2. total \div TPS \in Nat
    BY <1>1, <2>1, DivNat
  <2> QED
    BY <2>2 DEF total
<1> QED
  BY <1>3 DEF TTL

LEMMA FixedWindowReplies ==
    ASSUME IInv, zone.algo = "fixed_window", NEW burst, NEW q, Call(burst, q)
    PROVE  Contract(FixedWindow(key, now, burst, q), q)
<1> DEFINE limit == zone.requests + burst
           current == key.val[1]
           newval == current + q
           ttl == IF TTL(key) < 0 THEN zone.period ELSE TTL(key)
           r == FixedWindow(key, now, burst, q)
<1>1. /\ limit \in Nat /\ q \in Nat /\ current \in Nat /\ newval \in Nat
      /\ zone.period \in Nat
  BY ZoneFacts DEF IInv
<1>2. ttl \in Nat /\ TTL(key) \in Int
  BY <1>1, TTLType DEF IInv
<1>3. NonNeg(limit - current) \in Nat /\ NonNeg(TTL(key)) \in Nat
  BY <1>1, <1>2, NonNegNat
<1>4. CASE q = 0
  <2>1. r = Peek(Spent(current, limit), limit, NonNeg(limit - current),
                 NonNeg(TTL(key)), key)
    BY <1>4 DEF FixedWindow
  <2> HIDE DEF limit, current, newval, ttl
  <2> QED
    BY <1>1, <1>3, <1>4, <2>1, PeekInContract
<1>5. CASE q # 0 /\ newval > limit
  <2>1. r = Limit(limit, NonNeg(limit - current), ttl, ttl, key)
    BY <1>5 DEF FixedWindow
  <2> HIDE DEF limit, current, newval, ttl
  <2> QED
    BY <1>1, <1>2, <1>3, <1>5, <2>1, LimitInContract
<1>6. CASE q # 0 /\ ~(newval > limit)
  <2>1. /\ NonNeg(limit - newval) = limit - newval
        /\ NonNeg(limit - newval) \in Nat
    BY <1>1, <1>6, NonNegNat
  <2>2. NonNeg(limit - newval) + q <= limit
    BY <1>1, <2>1
  <2>3. PICK k : r = Admit(limit, NonNeg(limit - newval), ttl, k)
    BY <1>6 DEF FixedWindow
  <2> HIDE DEF limit, current, newval, ttl
  <2> QED
    BY <1>1, <1>2, <2>1, <2>2, <2>3, AdmitInContract
<1> QED
  BY <1>4, <1>5, <1>6

LEMMA BucketReplies ==
    ASSUME IInv, Account, zone.algo = "token_bucket",
           \A b, c \in zone.bursts : b = c,
           NEW burst, NEW q, Call(burst, q)
    PROVE  Contract(TokenBucket(key, now, burst, q), q)
<1> DEFINE limit == zone.requests + burst
           tokens == Refilled(key, now, Capacity)
           cost == q * Unit
           after == tokens - cost
           second == zone.requests * TPS
           Reset(x) == NonNeg(Ceil(Capacity - x, second))
           r == TokenBucket(key, now, burst, q)
<1>1. TypeOK /\ AccountBucket
  BY DEF IInv, Account, OneBurst
<1>2. /\ limit \in Nat /\ q \in Nat /\ Unit \in Nat \ {0} /\ now \in Nat
      /\ second \in Nat \ {0}
  <2>1. /\ zone.requests \in Nat \ {0} /\ TPS \in Nat \ {0}
        /\ limit \in Nat /\ q \in Nat /\ Unit \in Nat \ {0} /\ now \in Nat
    BY <1>1, ZoneFacts
  <2>2. second \in Nat /\ second # 0
    BY <2>1
  <2> QED
    BY <2>1, <2>2
<1>3. Capacity = limit * Unit /\ Capacity \in Nat
  BY <1>1, BurstFacts, CapacityType DEF Call, Capacity
<1>4. tokens \in 0..Capacity
  BY <1>1, <1>2, RefilledBounds DEF AccountBucket
<1>5. cost \in Nat
  BY <1>2, ProductFacts
<1>6. ASSUME NEW x \in Int
      PROVE  Reset(x) \in Nat
  <2>1. Ceil(Capacity - x, second) \in Int
    BY <1>2, <1>3, CeilCovers
  <2> QED
    BY <2>1, NonNegNat
<1>7. tokens \div Unit \in Nat
  BY <1>2, <1>4, DivNat
<1>8. r = IF q = 0
          THEN Peek(tokens < Unit, limit, tokens \div Unit, Reset(tokens), key)
          ELSE IF tokens >= cost
          THEN Admit(limit, after \div Unit, Reset(after),
                     Store(<<after, now, 0>>, BucketTTL(burst)))
          ELSE Limit(limit, tokens \div Unit, Ceil(-after, second),
                     Reset(tokens), Store(<<tokens, now, 0>>, BucketTTL(burst)))
  BY <1>3 DEF TokenBucket, Affords
<1> HIDE DEF limit, tokens, cost, second, Reset
<1>9. CASE q = 0
  BY <1>2, <1>4, <1>6, <1>7, <1>8, <1>9, PeekInContract
<1>10. CASE q # 0 /\ tokens >= cost
  <2>1. after \in Nat /\ after \div Unit \in Nat
    BY <1>2, <1>4, <1>5, <1>10, DivNat
  <2>2. after + q * Unit <= limit * Unit
    <3>1. after + cost <= Capacity
      BY <1>3, <1>4, <1>5
    <3> QED
      BY <1>3, <3>1 DEF cost
  <2>3. after \div Unit + q <= limit
    BY <1>2, <2>1, <2>2, Fits
  <2>4. Reset(after) \in Nat
    BY <1>6, <2>1
  <2>5. r = Admit(limit, after \div Unit, Reset(after),
                  Store(<<after, now, 0>>, BucketTTL(burst)))
    BY <1>8, <1>10
  <2> HIDE DEF after
  <2> QED
    BY <1>2, <2>1, <2>3, <2>4, <2>5, AdmitInContract
<1>11. CASE q # 0 /\ ~(tokens >= cost)
  <2>1. Ceil(-after, second) \in Int
    BY <1>2, <1>4, <1>5, CeilCovers
  <2>2. Reset(tokens) \in Nat
    BY <1>3, <1>4, <1>6
  <2>3. r = Limit(limit, tokens \div Unit, Ceil(-after, second), Reset(tokens),
                  Store(<<tokens, now, 0>>, BucketTTL(burst)))
    BY <1>8, <1>11
  <2> HIDE DEF after
  <2> QED
    BY <1>2, <1>7, <1>11, <2>1, <2>2, <2>3, LimitInContract
<1> QED
  BY <1>9, <1>10, <1>11

LEMMA GcraReplies ==
    ASSUME IInv, Account, zone.algo = "gcra",
           \A b, c \in zone.bursts : b = c,
           NEW burst, NEW q, Call(burst, q)
    PROVE  Contract(Gcra(key, now, burst, q), q)
<1> DEFINE limit == burst + 1
           at == now * zone.requests
           tat == Most(key.val[1], at)
           horizon == limit * Unit
           cost == q * Unit
           new_tat == tat + cost
           diff == at - (new_tat - horizon)
           second == zone.requests * TPS
           Seconds(x) == Ceil(x, second)
           avail == Least(diff \div Unit, limit)
           r == Gcra(key, now, burst, q)
<1>1. TypeOK /\ (~key.set => key = NoKey)
  BY DEF IInv, Account
<1>2. /\ limit \in Nat /\ q \in Nat /\ Unit \in Nat \ {0} /\ now \in Nat
      /\ second \in Nat \ {0} /\ key.val[1] \in Nat /\ zone.requests \in Nat
  <2>1. /\ zone.requests \in Nat \ {0} /\ TPS \in Nat \ {0}
        /\ limit \in Nat /\ q \in Nat /\ Unit \in Nat \ {0} /\ now \in Nat
        /\ key.val[1] \in Nat
    BY <1>1, ZoneFacts
  <2>2. second \in Nat /\ second # 0
    BY <2>1
  <2> QED
    BY <2>1, <2>2
<1>3. at \in Nat /\ horizon \in Nat /\ cost \in Nat
  BY <1>2, ProductFacts
<1>4. key.val[1] <= at + horizon
  <2>1. CASE key.set
    <3>1. burst = Burst
      BY <1>1, BurstFacts DEF Call
    <3> QED
      BY <1>1, <1>2, <2>1, <3>1, WithinBurst DEF IInv, StoredWithinLimits
  <2>2. CASE ~key.set
    <3>1. key.val[1] = 0
      BY <1>1, <2>2 DEF NoKey
    <3> HIDE DEF at, horizon
    <3> QED
      BY <1>3, <3>1
  <2> QED
    BY <2>1, <2>2
<1>5. tat \in Nat /\ at <= tat /\ tat <= at + horizon
  <2> HIDE DEF at, horizon
  <2> QED
    BY <1>2, <1>3, <1>4 DEF Most
<1>6. r = IF q = 0
          THEN Peek(avail < 1, limit, avail, NonNeg(Seconds(tat - at)), key)
          ELSE IF diff < 0
          THEN Limit(limit, 0, Seconds(-diff), NonNeg(Seconds(tat - at)), key)
          ELSE Admit(limit, diff \div Unit, NonNeg(Seconds(new_tat - at)),
                     Store(<<new_tat, 0, 0>>, AtLeastOne(Seconds(new_tat - at))))
  BY DEF Gcra
<1>7. ASSUME NEW x \in Int
      PROVE  Seconds(x) \in Int /\ NonNeg(Seconds(x)) \in Nat
  BY <1>2, CeilCovers, NonNegNat
<1>8. /\ new_tat \in Nat /\ diff \in Int /\ tat - at \in Int
      /\ new_tat - at \in Int /\ -diff \in Int
      /\ diff + cost <= horizon /\ (q = 0 => diff >= 0)
  <2>1. q = 0 => cost = 0
    BY <1>2
  <2> HIDE DEF at, horizon, tat, cost
  <2> QED
    BY <1>3, <1>5, <2>1
<1>9. diff + q * Unit <= limit * Unit
  BY <1>8
<1> HIDE DEF limit, at, tat, horizon, cost, new_tat, diff, second, Seconds
<1>10. CASE q = 0
  <2>1. diff \div Unit \in Nat
    BY <1>2, <1>8, <1>10, DivNat
  <2>2. avail \in Nat
    BY <1>2, <2>1 DEF Least
  <2> HIDE DEF avail
  <2> QED
    BY <1>2, <1>6, <1>7, <1>8, <1>10, <2>2, PeekInContract
<1>11. CASE q # 0 /\ diff < 0
  <2>1. Seconds(-diff) \in Int /\ NonNeg(Seconds(tat - at)) \in Nat
    BY <1>7, <1>8
  <2> QED
    BY <1>2, <1>6, <1>11, <2>1, LimitInContract
<1>12. CASE q # 0 /\ ~(diff < 0)
  <2>1. diff \in Nat /\ diff \div Unit \in Nat
    BY <1>2, <1>8, <1>12, DivNat
  <2>2. diff \div Unit + q <= limit
    BY <1>2, <1>8, <1>9, Fits
  <2>3. NonNeg(Seconds(new_tat - at)) \in Nat
    BY <1>7, <1>8
  <2> QED
    BY <1>2, <1>6, <1>12, <2>1, <2>2, <2>3, AdmitInContract
<1> QED
  BY <1>10, <1>11, <1>12

LEMMA SlidingReplies ==
    ASSUME IInv, zone.algo = "sliding_window", NEW burst, NEW q, Call(burst, q)
    PROVE  Contract(SlidingWindow(key, now, burst, q), q)
<1> DEFINE limit == zone.requests + burst
           win == now \div Unit
           left == Unit - (now % Unit)
           c == Rolled(key, win)[1]
           p == Rolled(key, win)[2]
           Est(n) == p * left + n * Unit
           Room(n) == NonNeg((limit * Unit - Est(n)) \div Unit)
           rest == NonNeg(Ceil(left, TPS))
           headroom == limit - q - c
           retry == IF p > 0 /\ headroom >= 0
                    THEN Ceil(left * p - headroom * Unit, p * TPS) ELSE rest
           r == SlidingWindow(key, now, burst, q)
<1>1. TypeOK
  BY DEF IInv
<1>2. /\ limit \in Nat /\ q \in Nat /\ Unit \in Nat \ {0} /\ now \in Nat
      /\ TPS \in Nat \ {0}
  BY <1>1, ZoneFacts
<1>3. win \in Nat /\ left \in 1..Unit
  BY <1>2, WindowFacts
<1>4. c \in Nat /\ p \in Nat
  <2> HIDE DEF win
  <2> QED
    BY <1>1, <1>3, RolledType
<1>5. rest \in Nat
  <2> HIDE DEF left
  <2> QED
    BY <1>2, <1>3, CeilCovers, NonNegNat
<1>6. retry \in Int
  <2> HIDE DEF left, c, p, rest
  <2>1. CASE p > 0 /\ headroom >= 0
    <3>1. p * TPS \in Nat \ {0}
      <4>1. p * TPS \in Nat /\ p * TPS # 0
        BY <1>2, <1>4, <2>1
      <4> QED
        BY <4>1
    <3>2. left * p - headroom * Unit \in Int
      BY <1>2, <1>3, <1>4
    <3> QED
      BY <2>1, <3>1, <3>2, CeilCovers
  <2> QED
    BY <1>5, <2>1
<1>7. ASSUME NEW n \in Nat
      PROVE  /\ Est(n) \in Nat /\ (limit * Unit - Est(n)) \div Unit \in Int
             /\ Room(n) \in Nat
  <2> HIDE DEF left, p
  <2>1. p * left \in Nat /\ n * Unit \in Nat /\ limit * Unit \in Nat
    BY <1>2, <1>3, <1>4, ProductFacts
  <2>2. Est(n) \in Nat
    BY <2>1
  <2>3. limit * Unit - Est(n) \in Int
    BY <2>1, <2>2
  <2> HIDE DEF Est
  <2>4. (limit * Unit - Est(n)) \div Unit \in Int
    BY <1>2, <2>3, DivBounds
  <2> QED
    BY <2>2, <2>4, NonNegNat
<1>8. r = IF q = 0
          THEN Peek(Est(c) >= limit * Unit, limit, Room(c),
                    IF c > 0 \/ p > 0 THEN rest ELSE 0, key)
          ELSE IF Est(c + q) > limit * Unit
          THEN Limit(limit, Room(c), retry, rest, key)
          ELSE Admit(limit, Room(c + q), rest,
                     Store(<<c + q, win, p>>, 2 * zone.period))
  BY DEF SlidingWindow
<1>9. ASSUME ~(Est(c + q) > limit * Unit)
      PROVE  Room(c + q) + q <= limit
  <2> DEFINE a == limit * Unit - Est(c + q)
             all == (c + q) * Unit
  <2> HIDE DEF left, c, p
  <2>1. all = c * Unit + q * Unit
    BY <1>2, <1>4, Distribute
  <2>2. /\ p * left \in Nat /\ c * Unit \in Nat /\ q * Unit \in Nat
        /\ limit * Unit \in Nat
    BY <1>2, <1>3, <1>4, ProductFacts
  <2>3. a \in Nat /\ a + q * Unit <= limit * Unit
    <3> DEFINE x == p * left
               y == c * Unit
               z == q * Unit
               l == limit * Unit
    <3>1. /\ x \in Nat /\ y \in Nat /\ z \in Nat /\ l \in Nat
          /\ a = l - (x + (y + z)) /\ ~(x + (y + z) > l)
      BY <1>9, <2>1, <2>2
    <3> HIDE DEF x, y, z, l, a
    <3>2. a \in Nat /\ a + z <= l
      BY <3>1
    <3> QED
      BY <3>2 DEF z, l
  <2> HIDE DEF a, limit
  <2>4. a \div Unit + q <= limit
    BY <1>2, <2>3, Fits
  <2>5. NonNeg(a \div Unit) = a \div Unit
    BY <1>2, <2>3, DivNat, NonNegNat
  <2> QED
    BY <2>4, <2>5 DEF a, limit
<1>10. c + q \in Nat
  BY <1>2, <1>4
<1> HIDE DEF limit, left, c, p, Est, Room, rest, retry
<1>11. CASE q = 0
  BY <1>2, <1>4, <1>5, <1>7, <1>8, <1>11, PeekInContract
<1>12. CASE q # 0 /\ Est(c + q) > limit * Unit
  <2>1. Room(c) \in Nat
    BY <1>4, <1>7
  <2> QED
    BY <1>2, <1>5, <1>6, <1>8, <1>12, <2>1, LimitInContract
<1>13. CASE q # 0 /\ ~(Est(c + q) > limit * Unit)
  <2>1. Room(c + q) \in Nat /\ Room(c + q) + q <= limit
    BY <1>7, <1>9, <1>10, <1>13
  <2> QED
    BY <1>2, <1>5, <1>8, <1>13, <2>1, AdmitInContract
<1> QED
  BY <1>11, <1>12, <1>13

\* Locations that share a bucket or an arrival time agree on its burst.
BurstsAgree ==
    zone.algo \in {"token_bucket", "gcra"} => \A b, c \in zone.bursts : b = c

\* script.c:4-11: whatever a location asks of whatever state the calls, the
\* clock and the expiries have left, the five integers are ones reply.c takes,
\* a denial says when to come back, and nobody is told that more is left than
\* the limit.  Of a bucket or an arrival time this is claimed only if the
\* locations that share it agree on its burst: a peek of GCRA by a location
\* with a smaller one answers a negative remainder, and a bucket filled by a
\* location with a greater one holds more than the limit.
THEOREM RepliesKeepContract == Spec => [](BurstsAgree => RepliesInContract)
<1>1. IInv /\ Account => (BurstsAgree => RepliesInContract)
  <2> SUFFICES ASSUME IInv, Account, BurstsAgree,
                      NEW burst \in zone.bursts, NEW q \in zone.quantities
               PROVE  Contract(Script(key, now, burst, q), q)
    BY DEF RepliesInContract, Contract
  <2>1. Call(burst, q) /\ zone.algo \in Algos
    BY ZoneFacts DEF Call, IInv
  <2>2. CASE zone.algo = "fixed_window"
    BY <2>1, <2>2, FixedWindowReplies DEF Script
  <2>3. CASE zone.algo = "token_bucket"
    BY <2>1, <2>3, BucketReplies DEF Script, BurstsAgree
  <2>4. CASE zone.algo = "gcra"
    BY <2>1, <2>4, GcraReplies DEF Script, BurstsAgree
  <2>5. CASE zone.algo = "sliding_window"
    BY <2>1, <2>5, SlidingReplies DEF Script
  <2> QED
    BY <2>1, <2>2, <2>3, <2>4, <2>5 DEF Algos
<1> QED
  BY <1>1, AccountInductive, PTL
=============================================================================
