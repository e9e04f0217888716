----------------------- MODULE RatelimitConfigProofs -----------------------
(***************************************************************************)
(* What the directives and the merge leave in a served location, proved    *)
(* for any depth of nesting, any arguments and any number of directives.   *)
(* Only Merge makes a level a served one, so each property is proved there *)
(* and is kept by every other step.                                        *)
(***************************************************************************)
EXTENDS RatelimitConfig, TLAPS

\* Levels that no merge has touched: http, and those still to come.
Raw(l) == l = 1 \/ l > merged

\* A zone is resolved by the merge alone.
ZoneInv ==
    /\ stage = "parsing" => merged = 1
    /\ \A l \in Levels : Raw(l) => conf[l].zone = None

\* What ratelimit_zone checks of requests and burst.
SumInv == \A n \in DOMAIN zones : zones[n].requests + zones[n].burst <= MaxSafe

\* One level has at most one ratelimit_pass of its own.
PassInv == \A l \in Levels :
    Raw(l) => conf[l].upstream = None \/ conf[l].complex_target = None

\* Up to its merge a level is as its directives left it.
OwnInv == stage \in {"merging", "ready"} =>
    \A l \in Levels : Raw(l) => conf[l] = own.conf[l] /\ slot[l] = own.slot[l]

\* What holds of the levels that have been merged.
MergedInv == ActiveHasTarget /\ LimitExact /\ TargetInForce

IInv == TypeOK /\ ZoneInv /\ SumInv /\ PassInv /\ OwnInv /\ MergedInv

-----------------------------------------------------------------------------
\* The initial configuration: no zone, no level given anything.
LEMMA InitIInv == Init => IInv
<1> SUFFICES ASSUME Init PROVE IInv
  OBVIOUS
<1> USE ConfigAssumption, SlotAssumption DEF Init
<1>1. TypeOK
  BY DEF TypeOK, FreshConf, LocConf, Levels, Unset
<1>2. ZoneInv /\ SumInv /\ PassInv /\ OwnInv
  BY DEF ZoneInv, SumInv, PassInv, OwnInv, Raw, FreshConf, Levels
<1>3. Served = {}
  BY DEF Served
<1>4. MergedInv
  BY <1>3 DEF MergedInv, ActiveHasTarget, LimitExact, TargetInForce
<1> QED
  BY <1>1, <1>2, <1>4 DEF IInv

\* While directives are read, nothing is served (module.c:402-769).
LEMMA ParsingServes ==
  ASSUME IInv, stage' \in {"parsing", "rejected"}, stage' = "parsing" => merged' = 1
  PROVE  MergedInv'
<1>1. Served' = {}
  BY DEF Served
<1> QED
  BY <1>1 DEF MergedInv, ActiveHasTarget, LimitExact, TargetInForce

\* A refused directive changes nothing but the stage.
LEMMA RejectIInv ==
  ASSUME IInv, Reject, merged' = merged, sha' = sha, own' = own,
         count' \in 0..MaxDirectives
  PROVE  IInv'
<1> USE DEF IInv, Reject
<1>1. TypeOK'
  BY DEF TypeOK
<1>2. ZoneInv' /\ SumInv' /\ PassInv' /\ OwnInv'
  BY DEF ZoneInv, SumInv, PassInv, OwnInv, Raw
<1>3. MergedInv'
  BY ParsingServes
<1> QED
  BY <1>1, <1>2, <1>3

LEMMA CountStep ==
  ASSUME IInv, Directive PROVE count' \in 0..MaxDirectives
BY ConfigAssumption DEF IInv, TypeOK, Directive

\* An accepted ratelimit_zone has numbers the scripts can compute with
\* (module.c:402-645).
LEMMA ZoneArgsFacts ==
  ASSUME NEW a \in ZoneArgs, ZoneArgsOK(a)
  PROVE  /\ Requests(a) \in Nat \ {0} /\ Period(a) \in Nat \ {0}
         /\ Burst(a) \in Nat /\ a.name \in Names /\ a.algo \in Algos
         /\ Requests(a) + Burst(a) <= MaxSafe
<1>1. a \in ZoneArg
  BY ConfigAssumption
<1>2. /\ a.requests \in Number /\ a.period \in Number /\ a.burst \in Number
      /\ a.name \in Names /\ a.algo \in Algos
  BY <1>1 DEF ZoneArg
<1>3. Burst(a) \in Nat
  BY <1>2 DEF ZoneArgsOK, Burst, Given, Number
<1>4. Requests(a) \in Nat \ {0} /\ Period(a) \in Nat \ {0}
  <2>1. CASE Given(a.rate)
    <3>1. RateValid(a.rate)
      BY <2>1 DEF ZoneArgsOK
    <3>2. RatePeriod(a.rate) \in Nat \ {0}
      BY <3>1 DEF RateValid, RatePeriod
    <3> QED
      BY <2>1, <3>1, <3>2 DEF RateValid, Requests, Period
  <2>2. CASE ~Given(a.rate)
    BY <1>2, <2>2 DEF ZoneArgsOK, Positive, Given, Number, Requests, Period, Unset
  <2> QED
    BY <2>1, <2>2
<1>5. Requests(a) + Burst(a) <= MaxSafe
  <2>1. Requests(a) <= MaxSafe - Burst(a)
    BY DEF ZoneArgsOK, SumSafe
  <2>2. MaxSafe \in Nat
    BY ConfigAssumption
  <2> QED
    BY <1>3, <1>4, <2>1, <2>2
<1> QED
  BY <1>2, <1>3, <1>4, <1>5

LEMMA RatelimitZoneIInv ==
  ASSUME IInv, NEW a \in ZoneArgs, RatelimitZone(a) PROVE IInv'
<1>1. CASE Reject
  BY <1>1, CountStep, RejectIInv DEF RatelimitZone, Directive
<1>2. CASE ~Reject
  <2> DEFINE new == [requests |-> Requests(a), period |-> Period(a),
                     burst |-> Burst(a), algo |-> a.algo]
  <2>1. /\ stage = "parsing" /\ a.name \notin DOMAIN zones /\ ZoneArgsOK(a)
        /\ zones' = [n \in DOMAIN zones \cup {a.name} |->
                       IF n \in DOMAIN zones THEN zones[n] ELSE new]
        /\ UNCHANGED <<stage, conf, slot, merged, sha, own>>
    BY <1>2 DEF RatelimitZone, Directive
  <2>2. new \in Zone /\ a.name \in Names /\ new.requests + new.burst <= MaxSafe
    BY <2>1, ZoneArgsFacts DEF Zone
  <2>3. DOMAIN zones' = DOMAIN zones \cup {a.name}
    BY <2>1
  <2>4. \A n \in DOMAIN zones' : zones'[n] = IF n \in DOMAIN zones THEN zones[n] ELSE new
    BY <2>1
  <2> HIDE DEF new
  <2>5. TypeOK'
    BY <2>1, <2>2, <2>3, <2>4, CountStep DEF IInv, TypeOK, RatelimitZone
  <2>6. ZoneInv' /\ PassInv' /\ OwnInv'
    BY <2>1 DEF IInv, ZoneInv, PassInv, OwnInv, Raw
  <2>7. SumInv'
    BY <2>2, <2>3, <2>4 DEF IInv, SumInv
  <2>8. MergedInv'
    BY <2>1, ParsingServes DEF IInv, ZoneInv
  <2> QED
    BY <2>5, <2>6, <2>7, <2>8 DEF IInv
<1> QED
  BY <1>1, <1>2

\* A directive of a level: the new conf is typed, the level still has no zone
\* and at most one target.
LEMMA LevelIInv ==
  ASSUME IInv, Directive, stage' = stage, zones' = zones, NEW l \in Levels,
         NEW c \in LocConf, c.zone = None,
         c.upstream = None \/ c.complex_target = None,
         conf' = [conf EXCEPT ![l] = c],
         DOMAIN slot' = Levels, \A k \in Levels : DOMAIN slot'[k] = Slots
  PROVE  IInv'
<1> USE DEF IInv
<1>1. /\ stage = "parsing" /\ stage' = "parsing" /\ merged' = merged
      /\ own' = own /\ sha' = sha
  BY DEF Directive
<1>2. conf' \in [Levels -> LocConf] /\ \A k \in Levels : conf'[k] = IF k = l THEN c ELSE conf[k]
  BY DEF TypeOK
<1>3. TypeOK'
  BY <1>1, <1>2, CountStep DEF TypeOK
<1>4. ZoneInv' /\ SumInv' /\ PassInv' /\ OwnInv'
  BY <1>1, <1>2 DEF ZoneInv, SumInv, PassInv, OwnInv, Raw
<1>5. MergedInv'
  BY <1>1, ParsingServes DEF ZoneInv
<1> QED
  BY <1>3, <1>4, <1>5

\* While directives are read, every level is raw.
LEMMA ParsingLevel ==
  ASSUME IInv, stage = "parsing", NEW l \in Levels
  PROVE  /\ conf[l] \in LocConf /\ conf[l].zone = None
         /\ conf[l].upstream = None \/ conf[l].complex_target = None
BY DEF IInv, TypeOK, ZoneInv, PassInv, Raw, Levels

LEMMA RatelimitIInv ==
  ASSUME IInv, NEW l \in Levels, NEW a \in ApplyArgs, Ratelimit(l, a) PROVE IInv'
<1>1. CASE Reject
  BY <1>1, CountStep, RejectIInv DEF Ratelimit, Directive
<1>2. CASE ~Reject
  <2> DEFINE c == [conf[l] EXCEPT
                     !.zone_name = a.zone,
                     !.burst = IF Given(a.burst) THEN a.burst ELSE @,
                     !.quantity = IF Given(a.quantity) THEN a.quantity ELSE @]
  <2>1. /\ Directive /\ stage = "parsing" /\ Given(a.zone)
        /\ a.burst # Unset /\ a.quantity # Unset
        /\ conf' = [conf EXCEPT ![l] = c]
        /\ UNCHANGED <<stage, zones, slot>>
    BY <1>2 DEF Ratelimit, Directive
  <2>2. a \in ApplyArg
    BY ConfigAssumption
  <2>3. /\ a.zone \in Names
        /\ Given(a.burst) => a.burst \in Nat
        /\ Given(a.quantity) => a.quantity \in Nat
    BY <2>1, <2>2 DEF ApplyArg, Given, Number
  <2>4. /\ conf[l] \in LocConf /\ conf[l].zone = None
        /\ conf[l].upstream = None \/ conf[l].complex_target = None
    BY <2>1, ParsingLevel
  <2>5. /\ c \in LocConf /\ c.zone = None
        /\ c.upstream = None \/ c.complex_target = None
    <3>1. /\ c.zone = conf[l].zone /\ c.upstream = conf[l].upstream
          /\ c.complex_target = conf[l].complex_target
      BY <2>4 DEF LocConf
    <3>2. c \in LocConf
      <4> DEFINE given == IF Given(a.burst) THEN a.burst ELSE conf[l].burst
                 cost == IF Given(a.quantity) THEN a.quantity ELSE conf[l].quantity
      <4>1. given \in Nat \cup {Unset} /\ cost \in Nat \cup {Unset}
        BY <2>3, <2>4 DEF LocConf
      <4>2. c = [conf[l] EXCEPT !.zone_name = a.zone, !.burst = given,
                                !.quantity = cost]
        OBVIOUS
      <4> HIDE DEF c, given, cost
      <4> QED
        BY <2>3, <2>4, <4>1, <4>2 DEF LocConf
    <3> HIDE DEF c
    <3> QED
      BY <2>4, <3>1, <3>2
  <2>6. DOMAIN slot' = Levels /\ \A k \in Levels : DOMAIN slot'[k] = Slots
    BY <2>1 DEF IInv, TypeOK
  <2> QED
    BY <2>1, <2>5, <2>6, LevelIInv
<1> QED
  BY <1>1, <1>2

LEMMA RatelimitQuantityIInv ==
  ASSUME IInv, NEW l \in Levels, NEW q \in Quantities, RatelimitQuantity(l, q)
  PROVE  IInv'
<1>1. CASE Reject
  BY <1>1, CountStep, RejectIInv DEF RatelimitQuantity, Directive
<1>2. CASE ~Reject
  <2> DEFINE c == [conf[l] EXCEPT !.quantity = q]
  <2>1. /\ Directive /\ stage = "parsing" /\ q # Unset
        /\ conf' = [conf EXCEPT ![l] = c]
        /\ UNCHANGED <<stage, zones, slot>>
    BY <1>2 DEF RatelimitQuantity, Directive
  <2>2. q \in Nat
    BY <2>1, ConfigAssumption
  <2>3. /\ conf[l] \in LocConf /\ conf[l].zone = None
        /\ conf[l].upstream = None \/ conf[l].complex_target = None
    BY <2>1, ParsingLevel
  <2>4. /\ c \in LocConf /\ c.zone = None
        /\ c.upstream = None \/ c.complex_target = None
    BY <2>2, <2>3 DEF LocConf
  <2>5. DOMAIN slot' = Levels /\ \A k \in Levels : DOMAIN slot'[k] = Slots
    BY <2>1 DEF IInv, TypeOK
  <2> QED
    BY <2>1, <2>4, <2>5, LevelIInv
<1> QED
  BY <1>1, <1>2

LEMMA RatelimitPassIInv ==
  ASSUME IInv, NEW l \in Levels, NEW t \in Targets \cup Variables,
         RatelimitPass(l, t)
  PROVE  IInv'
<1>1. CASE Reject
  BY <1>1, CountStep, RejectIInv DEF RatelimitPass, Directive
<1>2. CASE ~Reject
  <2> DEFINE c == IF t \in Variables THEN [conf[l] EXCEPT !.complex_target = t]
                                     ELSE [conf[l] EXCEPT !.upstream = t]
  <2>1. /\ Directive /\ stage = "parsing"
        /\ conf[l].upstream = None /\ conf[l].complex_target = None
        /\ conf' = [conf EXCEPT ![l] = c]
        /\ UNCHANGED <<stage, zones, slot>>
    BY <1>2 DEF RatelimitPass, Directive
  <2>2. conf[l] \in LocConf /\ conf[l].zone = None
    BY <2>1, ParsingLevel
  <2>3. /\ c \in LocConf /\ c.zone = None
        /\ c.upstream = None \/ c.complex_target = None
    BY <2>1, <2>2 DEF LocConf
  <2>4. DOMAIN slot' = Levels /\ \A k \in Levels : DOMAIN slot'[k] = Slots
    BY <2>1 DEF IInv, TypeOK
  <2> QED
    BY <2>1, <2>3, <2>4, LevelIInv
<1> QED
  BY <1>1, <1>2

LEMMA RatelimitSlotIInv ==
  ASSUME IInv, NEW l \in Levels, NEW s \in Slots, NEW v \in Values[s],
         RatelimitSlot(l, s, v)
  PROVE  IInv'
<1>1. CASE Reject
  BY <1>1, CountStep, RejectIInv DEF RatelimitSlot, Directive
<1>2. CASE ~Reject
  <2>1. /\ Directive /\ stage = "parsing"
        /\ slot' = [slot EXCEPT ![l][s] = v]
        /\ UNCHANGED <<stage, zones, conf>>
    BY <1>2 DEF RatelimitSlot, Directive
  <2>2. conf \in [Levels -> LocConf] /\ conf' = [conf EXCEPT ![l] = conf[l]]
    BY <2>1 DEF IInv, TypeOK
  <2>3. /\ conf[l] \in LocConf /\ conf[l].zone = None
        /\ conf[l].upstream = None \/ conf[l].complex_target = None
    BY <2>1, ParsingLevel
  <2>4. DOMAIN slot' = Levels /\ \A k \in Levels : DOMAIN slot'[k] = Slots
    BY <2>1 DEF IInv, TypeOK
  <2> QED
    BY <2>1, <2>2, <2>3, <2>4, LevelIInv
<1> QED
  BY <1>1, <1>2

LEMMA EndOfHttpIInv ==
  ASSUME IInv, EndOfHttp PROVE IInv'
<1> USE DEF IInv, EndOfHttp
<1>1. TypeOK'
  BY DEF TypeOK
<1>2. ZoneInv' /\ SumInv' /\ PassInv' /\ merged' = 1
  BY DEF ZoneInv, SumInv, PassInv, Raw
<1>3. OwnInv'
  BY DEF OwnInv
<1>4. Served' = {}
  BY <1>2 DEF Served
<1>5. MergedInv'
  BY <1>4 DEF MergedInv, ActiveHasTarget, LimitExact, TargetInForce
<1> QED
  BY <1>1, <1>2, <1>3, <1>5

\* What a merge makes of a raw level c under its parent prev
\* (module.c:237-335).
LEMMA MergedConfFacts ==
  ASSUME NEW prev \in LocConf, NEW c \in LocConf,
         DOMAIN zones \subseteq Names, prev.zone \in DOMAIN zones \cup {None},
         c.zone = None
  PROVE  /\ MergedConf(prev, c) \in LocConf
         /\ MergedConf(prev, c).zone \in DOMAIN zones \cup {None}
<1>1. MergedZone(prev, c) \in DOMAIN zones \cup {None}
  BY DEF MergedZone
<1>2. MergedZone(prev, c) \in Names \cup {None}
  BY <1>1
<1>3. MergedConf(prev, c) \in LocConf
  BY <1>2 DEF MergedConf, LocConf, Or
<1>4. MergedConf(prev, c).zone = MergedZone(prev, c)
  BY DEF MergedConf
<1> QED
  BY <1>1, <1>3, <1>4

\* The merge of one level serves it, with a target and an exact limit.
LEMMA MergeIInv ==
  ASSUME IInv, Merge PROVE IInv'
<1> DEFINE l == merged + 1
           c == MergedConf(conf[merged], conf[l])
<1>1. merged \in Nat \ {0} /\ merged \in Levels /\ l \in Levels /\ Depth \in Nat
  BY ConfigAssumption DEF IInv, TypeOK, Merge, Levels
<1>2. CASE ~MergeOK(c, conf[l])
  <2>1. Reject /\ UNCHANGED <<merged, sha, count, own>>
    BY <1>2 DEF Merge
  <2>2. count \in 0..MaxDirectives
    BY DEF IInv, TypeOK
  <2> QED
    BY <2>1, <2>2, RejectIInv
<1>3. CASE MergeOK(c, conf[l])
  <2>1. /\ stage = "merging" /\ merged < Depth
        /\ conf' = [conf EXCEPT ![l] = c]
        /\ slot' = [slot EXCEPT ![l] = MergedSlot(slot[merged], slot[l])]
        /\ merged' = l
        /\ UNCHANGED <<stage, zones, sha, count, own>>
    BY <1>3 DEF Merge
  <2>2. /\ conf \in [Levels -> LocConf] /\ DOMAIN zones \subseteq Names
        /\ conf[merged].zone \in DOMAIN zones \cup {None}
        /\ conf[l] = own.conf[l] /\ slot[l] = own.slot[l]
        /\ conf[l].zone = None
        /\ conf[l].upstream = None \/ conf[l].complex_target = None
    BY <1>1, <2>1 DEF IInv, TypeOK, ZoneInv, PassInv, OwnInv, Raw
  <2>3. c \in LocConf /\ c.zone \in DOMAIN zones \cup {None}
    BY <1>1, <2>2, MergedConfFacts
  <2>4. /\ conf' \in [Levels -> LocConf]
        /\ \A k \in Levels : conf'[k] = IF k = l THEN c ELSE conf[k]
    BY <2>1, <2>2, <2>3
  <2>5. DOMAIN slot' = Levels /\ \A k \in Levels : DOMAIN slot'[k] = Slots
    BY <2>1 DEF IInv, TypeOK, MergedSlot
  <2>6. c.zone = MergedZone(conf[merged], conf[l])
        /\ c.upstream = Or(conf[l].upstream, None, conf[merged].upstream)
        /\ c.complex_target =
             Or(conf[l].complex_target, None, conf[merged].complex_target)
    BY DEF MergedConf
  <2>7. c.zone # None => c.upstream # None \/ c.complex_target # None
    BY <1>3 DEF MergeOK
  <2>8. c.zone # None /\ c.burst # Unset =>
          zones[c.zone].requests <= MaxSafe - c.burst
    BY <1>3 DEF MergeOK, SumSafe
  <2> HIDE DEF c
  <2>9. TypeOK'
    BY <1>1, <2>1, <2>3, <2>4, <2>5 DEF IInv, TypeOK
  <2>10. ZoneInv' /\ PassInv' /\ SumInv'
    BY <1>1, <2>1, <2>4 DEF IInv, ZoneInv, PassInv, SumInv, Raw, Levels
  <2>11. OwnInv'
    <3>1. \A k \in Levels : (k = 1 \/ k > l) => Raw(k) /\ k # l
      BY <1>1 DEF Raw, Levels
    <3>2. \A k \in Levels : k # l => slot'[k] = slot[k]
      BY <2>1
    <3> QED
      BY <2>1, <2>4, <3>1, <3>2 DEF IInv, OwnInv, Raw
  <2>12. Served = 2..merged /\ Served' = 2..l
    BY <2>1 DEF Served
  <2>13. \A k \in Served' : k \in Levels /\ k - 1 \in Levels /\ k - 1 # l
                           /\ (k = l \/ (k \in Served /\ k # l))
    BY <1>1, <2>12 DEF Levels
  <2>14. ActiveHasTarget'
    <3>1. \A k \in Served : conf[k].zone # None => TargetOf(k) # None
      BY DEF IInv, MergedInv, ActiveHasTarget
    <3> QED
      BY <2>4, <2>7, <2>13, <3>1 DEF ActiveHasTarget, TargetOf, Or
  <2>15. LimitExact'
    <3>1. \A k \in Served : conf[k].zone # None =>
            zones[conf[k].zone].requests + BurstOf(k) <= MaxSafe
      BY DEF IInv, MergedInv, LimitExact
    <3>2. ASSUME c.zone # None
          PROVE  zones[c.zone].requests + Or(c.burst, Unset, zones[c.zone].burst)
                 <= MaxSafe
      <4>1. c.zone \in DOMAIN zones
        BY <2>3, <3>2
      <4>2. zones[c.zone].requests \in Nat /\ c.burst \in Nat \cup {Unset}
            /\ MaxSafe \in Nat
        BY <2>3, <4>1, ConfigAssumption DEF IInv, TypeOK, Zone, LocConf
      <4>3. zones[c.zone].requests + zones[c.zone].burst <= MaxSafe
        BY <4>1 DEF IInv, SumInv
      <4> QED
        BY <2>8, <3>2, <4>2, <4>3 DEF Or, Unset
    <3>3. SUFFICES ASSUME NEW k \in Served', conf'[k].zone # None
                   PROVE  zones[conf'[k].zone].requests
                          + Or(conf'[k].burst, Unset, zones[conf'[k].zone].burst)
                          <= MaxSafe
      BY <2>1 DEF LimitExact, BurstOf
    <3> QED
      BY <2>4, <2>13, <3>1, <3>2, <3>3 DEF BurstOf
  <2>16. TargetInForce'
    <3>1. SUFFICES ASSUME NEW k \in Served'
                   PROVE LET mine == Or(own.conf[k].complex_target, None, own.conf[k].upstream)
                             parent == Or(conf'[k - 1].complex_target, None, conf'[k - 1].upstream)
                         IN  Or(conf'[k].complex_target, None, conf'[k].upstream) =
                             IF mine = None \/ (mine \in Targets /\ parent \in Variables)
                             THEN parent ELSE mine
      BY <2>1 DEF TargetInForce, TargetOf
    <3>2. conf'[k - 1] = conf[k - 1]
      BY <2>4, <2>13
    <3>3. CASE k = l
      <4>1. conf'[k] = c /\ conf'[k - 1] = conf[merged] /\ own.conf[k] = conf[l]
        BY <1>1, <2>2, <2>4, <3>2, <3>3
      <4>2. /\ conf[l].upstream \in Targets \cup {None}
            /\ conf[l].complex_target \in Variables \cup {None}
            /\ conf[merged].upstream \in Targets \cup {None}
            /\ conf[merged].complex_target \in Variables \cup {None}
        BY <1>1, <2>2 DEF LocConf
      <4> QED
        BY <2>2, <2>6, <4>1, <4>2, ConfigAssumption DEF Or
    <3>4. CASE k # l
      <4>1. k \in Served /\ conf'[k] = conf[k]
        BY <2>4, <2>13, <3>4
      <4> QED
        BY <3>2, <4>1 DEF IInv, MergedInv, TargetInForce, TargetOf
    <3> QED
      BY <3>3, <3>4
  <2> QED
    BY <2>9, <2>10, <2>11, <2>14, <2>15, <2>16 DEF IInv, MergedInv
<1> QED
  BY <1>2, <1>3

LEMMA PostconfigurationIInv ==
  ASSUME IInv, Postconfiguration PROVE IInv'
<1> USE DEF IInv, Postconfiguration
<1>1. TypeOK'
  BY DEF TypeOK
<1>2. ZoneInv' /\ SumInv' /\ PassInv' /\ OwnInv'
  BY DEF ZoneInv, SumInv, PassInv, OwnInv, Raw
<1>3. Served' = Served
  BY DEF Served
<1>4. MergedInv'
  BY <1>3 DEF MergedInv, ActiveHasTarget, LimitExact, TargetInForce, TargetOf, BurstOf
<1> QED
  BY <1>1, <1>2, <1>4

LEMMA StutterIInv == ASSUME IInv, UNCHANGED vars PROVE IInv'
<1> USE DEF IInv, vars
<1>1. TypeOK' /\ ZoneInv' /\ SumInv' /\ PassInv' /\ OwnInv'
  BY DEF TypeOK, ZoneInv, SumInv, PassInv, OwnInv, Raw
<1>2. Served' = Served
  BY DEF Served
<1>3. MergedInv'
  BY <1>2 DEF MergedInv, ActiveHasTarget, LimitExact, TargetInForce, TargetOf, BurstOf
<1> QED
  BY <1>1, <1>3

LEMMA NextIInv == IInv /\ [Next]_vars => IInv'
<1> SUFFICES ASSUME IInv, [Next]_vars PROVE IInv'
  OBVIOUS
<1>1. ASSUME NEW a \in ZoneArgs, RatelimitZone(a) PROVE IInv'
  BY <1>1, RatelimitZoneIInv
<1>2. ASSUME NEW l \in Levels, NEW a \in ApplyArgs, Ratelimit(l, a) PROVE IInv'
  BY <1>2, RatelimitIInv
<1>3. ASSUME NEW l \in Levels, NEW q \in Quantities, RatelimitQuantity(l, q) PROVE IInv'
  BY <1>3, RatelimitQuantityIInv
<1>4. ASSUME NEW l \in Levels, NEW t \in Targets \cup Variables, RatelimitPass(l, t)
      PROVE  IInv'
  BY <1>4, RatelimitPassIInv
<1>5. ASSUME NEW l \in Levels, NEW s \in Slots, NEW v \in Values[s], RatelimitSlot(l, s, v)
      PROVE  IInv'
  BY <1>5, RatelimitSlotIInv
<1>6. CASE BadDirective
  BY <1>6, CountStep, RejectIInv DEF BadDirective, Directive
<1>7. CASE EndOfHttp
  BY <1>7, EndOfHttpIInv
<1>8. CASE Merge
  BY <1>8, MergeIInv
<1>9. CASE Postconfiguration
  BY <1>9, PostconfigurationIInv
<1>10. CASE UNCHANGED vars
  BY <1>10, StutterIInv
<1> QED
  BY <1>1, <1>2, <1>3, <1>4, <1>5, <1>6, <1>7, <1>8, <1>9, <1>10 DEF Next, Finished

LEMMA Invariance == Spec => []IInv
BY InitIInv, NextIInv, PTL DEF Spec

-----------------------------------------------------------------------------
(* Inheritance over any number of levels.                                  *)

\* One more level: its own word, or what was the nearest so far.
LEMMA NearestStep ==
  ASSUME NEW f, NEW unset, NEW l \in Nat
  PROVE  Nearest(f, unset, l + 1) = Or(f[l + 1], unset, Nearest(f, unset, l))
<1> DEFINE S == Givers(f, unset, l + 1)
<1>1. CASE f[l + 1] = unset
  <2>1. S = Givers(f, unset, l)
    BY <1>1 DEF Givers
  <2> QED
    BY <1>1, <2>1 DEF Nearest, Or
<1>2. CASE f[l + 1] # unset
  <2>1. l + 1 \in S /\ \A j \in S : j \in Int /\ j <= l + 1
    BY <1>2 DEF Givers
  <2>2. Last(S) \in S /\ \A j \in S : j <= Last(S)
    BY <2>1 DEF Last
  <2>3. Last(S) = l + 1
    BY <2>1, <2>2
  <2> QED
    BY <1>2, <2>1, <2>3 DEF Nearest, Or
<1> QED
  BY <1>1, <1>2

\* Above the first level there is nothing.
LEMMA NearestFirst ==
  ASSUME NEW f, NEW unset PROVE Nearest(f, unset, 1) = f[1]
<1>1. Givers(f, unset, 0) = {}
  BY DEF Givers
<1>2. Nearest(f, unset, 0) = unset
  BY <1>1 DEF Nearest
<1>3. Nearest(f, unset, 0 + 1) = Or(f[0 + 1], unset, unset)
  BY <1>2, NearestStep
<1> QED
  BY <1>3 DEF Or

\* One level has what was given on it and above; on http, which is never
\* merged, there are no defaults and no zone.
NearAt(l) ==
    /\ conf[l].zone_name = Nearest(NamesGiven, None, l)
    /\ conf[l].burst = Nearest(BurstsGiven, Unset, l)
    /\ conf[l].quantity = LET q == Nearest(QuantitiesGiven, Unset, l)
                          IN  IF l = 1 THEN q ELSE Or(q, Unset, 1)
    /\ l # 1 => conf[l].zone = conf[l].zone_name
    /\ \A s \in Slots :
          slot[l][s] = LET v == Nearest(ValuesGiven(s), None, l)
                       IN  IF l = 1 THEN v ELSE Or(v, None, Default[s])

NearInv == stage \in {"merging", "ready"} => \A l \in 1..merged : NearAt(l)

LEMMA InitNear == Init => NearInv
BY DEF Init, NearInv

LEMMA EndOfHttpNear ==
  ASSUME IInv, EndOfHttp PROVE NearInv'
<1>1. /\ merged' = 1 /\ 1 \in Levels
      /\ own' = [conf |-> conf, slot |-> slot] /\ UNCHANGED <<conf, slot>>
  BY ConfigAssumption DEF IInv, TypeOK, ZoneInv, EndOfHttp, Levels
<1>2. /\ NamesGiven'[1] = conf[1].zone_name /\ BurstsGiven'[1] = conf[1].burst
      /\ QuantitiesGiven'[1] = conf[1].quantity
      /\ \A s : ValuesGiven(s)'[1] = slot[1][s]
  BY <1>1 DEF NamesGiven, BurstsGiven, QuantitiesGiven, ValuesGiven
<1>3. NearAt(1)'
  BY <1>1, <1>2, NearestFirst DEF NearAt
<1> QED
  BY <1>1, <1>3 DEF NearInv

\* The merge of one level on top of those merged already (module.c:243-349).
LEMMA MergeNear ==
  ASSUME IInv, NearInv, Merge PROVE NearInv'
<1>0. PICK l \in Levels : l = merged + 1
  BY ConfigAssumption DEF IInv, TypeOK, Merge, Levels
<1> DEFINE p == conf[merged]
           c == MergedConf(p, conf[l])
<1>1. merged \in Nat \ {0} /\ merged \in Levels /\ l \in Nat /\ l = merged + 1
  BY <1>0, ConfigAssumption DEF IInv, TypeOK, Levels
<1>2. CASE ~MergeOK(c, conf[l])
  BY <1>1, <1>2 DEF Merge, Reject, NearInv
<1>3. CASE MergeOK(c, conf[l])
  <2>1. /\ stage = "merging"
        /\ conf' = [conf EXCEPT ![l] = c]
        /\ slot' = [slot EXCEPT ![l] = MergedSlot(slot[merged], slot[l])]
        /\ merged' = l
        /\ UNCHANGED <<stage, zones, own>>
    BY <1>1, <1>3 DEF Merge
  <2>2. /\ conf \in [Levels -> LocConf] /\ DOMAIN zones \subseteq Names
        /\ conf[l] = own.conf[l] /\ slot[l] = own.slot[l] /\ conf[l].zone = None
        /\ merged = 1 => p.zone = None
    BY <1>1, <2>1 DEF IInv, TypeOK, ZoneInv, OwnInv, Raw
  <2>3. conf'[l] = c /\ \A k \in Levels : k # l => conf'[k] = conf[k]
    BY <1>1, <2>1, <2>2
  <2>4. slot'[l] = MergedSlot(slot[merged], slot[l])
        /\ \A k \in Levels : k # l => slot'[k] = slot[k]
    BY <1>1, <2>1 DEF IInv, TypeOK
  <2>5. NamesGiven' = NamesGiven /\ BurstsGiven' = BurstsGiven
        /\ QuantitiesGiven' = QuantitiesGiven
        /\ \A s : ValuesGiven(s)' = ValuesGiven(s)
    BY <2>1 DEF NamesGiven, BurstsGiven, QuantitiesGiven, ValuesGiven
  <2>6. /\ NamesGiven[l] = conf[l].zone_name /\ BurstsGiven[l] = conf[l].burst
        /\ QuantitiesGiven[l] = conf[l].quantity
        /\ \A s : ValuesGiven(s)[l] = slot[l][s]
    BY <1>1, <2>2 DEF NamesGiven, BurstsGiven, QuantitiesGiven, ValuesGiven
  <2>7. NearAt(merged)
    BY <1>1, <2>1 DEF NearInv
  <2>8. NearAt(l)'
    <3>1. c.zone_name = Nearest(NamesGiven, None, l)
      BY <1>1, <2>6, <2>7, NearestStep DEF NearAt, MergedConf
    <3>2. c.burst = Nearest(BurstsGiven, Unset, l)
      BY <1>1, <2>6, <2>7, NearestStep DEF NearAt, MergedConf
    <3>3. c.quantity = Or(Nearest(QuantitiesGiven, Unset, l), Unset, 1)
      <4>1. c.quantity = Or(conf[l].quantity, Unset, Or(p.quantity, Unset, 1))
        BY DEF MergedConf
      <4>2. Or(p.quantity, Unset, 1) = Or(Nearest(QuantitiesGiven, Unset, merged), Unset, 1)
        BY <2>7 DEF NearAt, Or, Unset
      <4>3. Nearest(QuantitiesGiven, Unset, l) =
              Or(conf[l].quantity, Unset, Nearest(QuantitiesGiven, Unset, merged))
        BY <1>1, <2>6, NearestStep
      <4> QED
        BY <4>1, <4>2, <4>3 DEF Or
    <3>4. c.zone = c.zone_name
      <4>1. /\ c.zone_name = Or(conf[l].zone_name, None, p.zone_name)
            /\ c.zone = MergedZone(p, conf[l])
        BY DEF MergedConf
      <4>2. c.zone_name # None => c.zone # None
        BY <1>3 DEF MergeOK
      <4>3. p.zone = None \/ p.zone = p.zone_name
        BY <2>2, <2>7 DEF NearAt
      <4>4. None \notin DOMAIN zones
        BY <2>2, ConfigAssumption
      <4> QED
        BY <2>2, <4>1, <4>2, <4>3, <4>4 DEF MergedZone, Or
    <3>5. \A s \in Slots : MergedSlot(slot[merged], slot[l])[s] =
                           Or(Nearest(ValuesGiven(s), None, l), None, Default[s])
      <4> SUFFICES ASSUME NEW s \in Slots
                   PROVE  MergedSlot(slot[merged], slot[l])[s] =
                          Or(Nearest(ValuesGiven(s), None, l), None, Default[s])
        OBVIOUS
      <4>1. MergedSlot(slot[merged], slot[l])[s] =
              Or(slot[l][s], None, Or(slot[merged][s], None, Default[s]))
        BY DEF MergedSlot
      <4>2. Or(slot[merged][s], None, Default[s]) =
              Or(Nearest(ValuesGiven(s), None, merged), None, Default[s])
        BY <2>7 DEF NearAt, Or
      <4>3. Nearest(ValuesGiven(s), None, l) =
              Or(slot[l][s], None, Nearest(ValuesGiven(s), None, merged))
        BY <1>1, <2>6, NearestStep
      <4> QED
        BY <4>1, <4>2, <4>3 DEF Or
    <3>6. l # 1
      BY <1>1
    <3> HIDE DEF c
    <3> QED
      BY <2>1, <2>3, <2>4, <2>5, <3>1, <3>2, <3>3, <3>4, <3>5, <3>6 DEF NearAt
  <2>9. \A k \in 1..merged : NearAt(k)'
    <3>1. SUFFICES ASSUME NEW k \in 1..merged PROVE NearAt(k)'
      OBVIOUS
    <3>2. conf'[k] = conf[k] /\ slot'[k] = slot[k] /\ NearAt(k)
      BY <1>1, <2>1, <2>3, <2>4 DEF NearInv, Levels
    <3> QED
      BY <2>5, <3>2 DEF NearAt
  <2>10. \A k \in 1..l : k = l \/ k \in 1..merged
    BY <1>1
  <2> HIDE DEF c
  <2> QED
    BY <2>1, <2>8, <2>9, <2>10 DEF NearInv
<1> QED
  BY <1>2, <1>3

\* Nothing but the merge and its start touches a level that counts.
LEMMA QuietNear ==
  ASSUME NearInv, UNCHANGED <<conf, slot, own, merged>>,
         stage' = stage \/ (stage = "merging" /\ stage' = "ready")
  PROVE  NearInv'
<1>1. /\ NamesGiven' = NamesGiven /\ BurstsGiven' = BurstsGiven
      /\ QuantitiesGiven' = QuantitiesGiven
      /\ \A s : ValuesGiven(s)' = ValuesGiven(s)
  BY DEF NamesGiven, BurstsGiven, QuantitiesGiven, ValuesGiven
<1>2. \A l : NearAt(l) => NearAt(l)'
  BY <1>1 DEF NearAt
<1> QED
  BY <1>2 DEF NearInv

LEMMA NextNear == IInv /\ NearInv /\ [Next]_vars => NearInv'
<1> SUFFICES ASSUME IInv, NearInv, [Next]_vars PROVE NearInv'
  OBVIOUS
<1>1. ASSUME Directive, Reject \/ stage' = stage PROVE NearInv'
  BY <1>1 DEF Directive, Reject, NearInv
<1>2. ASSUME NEW a \in ZoneArgs, RatelimitZone(a) PROVE NearInv'
  BY <1>1, <1>2 DEF RatelimitZone
<1>3. ASSUME NEW l \in Levels, NEW a \in ApplyArgs, Ratelimit(l, a) PROVE NearInv'
  BY <1>1, <1>3 DEF Ratelimit
<1>4. ASSUME NEW l \in Levels, NEW q \in Quantities, RatelimitQuantity(l, q) PROVE NearInv'
  BY <1>1, <1>4 DEF RatelimitQuantity
<1>5. ASSUME NEW l \in Levels, NEW t \in Targets \cup Variables, RatelimitPass(l, t)
      PROVE  NearInv'
  BY <1>1, <1>5 DEF RatelimitPass
<1>6. ASSUME NEW l \in Levels, NEW s \in Slots, NEW v \in Values[s], RatelimitSlot(l, s, v)
      PROVE  NearInv'
  BY <1>1, <1>6 DEF RatelimitSlot
<1>7. CASE BadDirective
  BY <1>1, <1>7 DEF BadDirective
<1>8. CASE EndOfHttp
  BY <1>8, EndOfHttpNear
<1>9. CASE Merge
  BY <1>9, MergeNear
<1>10. CASE Postconfiguration
  BY <1>10, QuietNear DEF Postconfiguration
<1>11. CASE UNCHANGED vars
  BY <1>11, QuietNear DEF vars
<1> QED
  BY <1>2, <1>3, <1>4, <1>5, <1>6, <1>7, <1>8, <1>9, <1>10, <1>11 DEF Next, Finished

LEMMA NearInvariance == Spec => [](IInv /\ NearInv)
<1>1. Init => IInv /\ NearInv
  BY InitIInv, InitNear
<1>2. (IInv /\ NearInv) /\ [Next]_vars => (IInv /\ NearInv)'
  BY NextIInv, NextNear
<1> QED
  BY <1>1, <1>2, PTL DEF Spec

\* What the parts of NearInv say of the levels that are served.
LEMMA ServedNear ==
  ASSUME IInv, NearInv, NEW l \in Served PROVE l # 1 /\ NearAt(l)
<1>1. merged \in Nat /\ stage # "rejected" /\ l \in 2..merged
  BY ConfigAssumption DEF IInv, TypeOK, Levels, Served
<1>2. stage # "parsing"
  BY <1>1 DEF IInv, ZoneInv
<1> QED
  BY <1>1, <1>2 DEF IInv, TypeOK, NearInv

-----------------------------------------------------------------------------
\* Whatever the directives, their order and their nesting, the registry and
\* the levels keep their types: no zone the scripts would divide by zero with,
\* no location with a zone that is not registered, no custom zone served
\* without its script's hash (module.c:402-829).
THEOREM TypeCorrect == Spec => []TypeOK
<1>1. IInv => TypeOK
  BY DEF IInv
<1> QED
  BY <1>1, Invariance, PTL

\* No served location with a zone lacks a Redis to ask, on any depth of
\* nesting: the handler never reads through a NULL upstream (module.c:323-335).
THEOREM NoNullTarget == Spec => []ActiveHasTarget
<1>1. IInv => ActiveHasTarget
  BY DEF IInv, MergedInv
<1> QED
  BY <1>1, Invariance, PTL

\* requests + burst stays exact in Lua whichever zone meets whichever burst=
\* through the merge (module.c:280-296, 627-638).
THEOREM LimitsAreExact == Spec => []LimitExact
<1>1. IInv => LimitExact
  BY DEF IInv, MergedInv
<1> QED
  BY <1>1, Invariance, PTL

\* Which Redis a location asks is decided by its own ratelimit_pass and the
\* one in force above it, in the order module.c:311-321 and handler.c:205 say.
THEOREM TargetDecided == Spec => []TargetInForce
<1>1. IInv => TargetInForce
  BY DEF IInv, MergedInv
<1> QED
  BY <1>1, Invariance, PTL

\* Inheritance is transitive over any number of levels, and nothing that was
\* said is taken for unsaid (module.c:298-312, 337-349).
THEOREM NearestDirectiveWins == Spec => []NearestWins
<1>1. IInv /\ NearInv => NearestWins
  BY ServedNear DEF NearestWins, NearAt
<1> QED
  BY <1>1, NearInvariance, PTL

\* The zone in force is the one named nearest, and so is the burst=, each by
\* itself (module.c:243-278).
THEOREM ZoneIsNearest == Spec => []ZoneOfName
<1>1. IInv /\ NearInv => ZoneOfName
  BY ServedNear DEF ZoneOfName, NearAt
<1> QED
  BY <1>1, NearInvariance, PTL
=============================================================================
