-------------------------- MODULE RatelimitConfig --------------------------
(***************************************************************************)
(* Reading and merging the module's configuration: ratelimit_zone and its  *)
(* rate, ratelimit, ratelimit_pass and the directives that fill one slot,  *)
(* in any order and on any level of a chain http, server, location, ...;   *)
(* then the merge of each level with its parent's, and postconfiguration.  *)
(* The http level itself is a parent only: nginx never merges it.          *)
(*                                                                         *)
(* An operator named Mutant... is the definition below it with a plausible *)
(* mistake, kept to see that the properties notice.                        *)
(***************************************************************************)
EXTENDS Integers, Sequences, FiniteSets

CONSTANTS
    Depth,          \* levels, 1 being http
    None,           \* not given, NULL
    Names,          \* zone names
    ZoneArgs, ApplyArgs,    \* arguments of ratelimit_zone and ratelimit
    Quantities,     \* arguments of ratelimit_quantity
    Targets,        \* ratelimit_pass: upstreams
    Variables,      \* ratelimit_pass: variables
    Slots, Values,  \* one-slot directives, and the values each may be given
    Default,        \* what the merge puts into a slot nobody has filled
    MaxSafe,        \* NGX_HTTP_RATELIMIT_LUA_MAX_SAFE_INT
    MaxDirectives   \* bound on the directives of a configuration

Levels == 1..Depth
Unset  == -1        \* NGX_CONF_UNSET, and NGX_ERROR of ngx_atoi
Number == Nat \cup {Unset, None}

Algos == {"fixed_window", "token_bucket", "gcra", "sliding_window", "custom"}

\* Arguments as they were split: None is one not given, Unset a number that
\* ngx_atoi or ngx_parse_time refuses, rate the bytes behind "rate=".
ZoneArg == [name: Names, key: BOOLEAN, rate: Seq(Nat) \cup {None},
            requests: Number, period: Number, burst: Number, algo: Algos,
            script: {"none", "readable", "unreadable"}]
ApplyArg == [zone: Names \cup {None}, burst: Number, quantity: Number]

ASSUME ConfigAssumption ==
    /\ Depth \in Nat \ {0} /\ MaxSafe \in Nat /\ MaxDirectives \in Nat
    /\ ZoneArgs \subseteq ZoneArg /\ ApplyArgs \subseteq ApplyArg
    /\ Quantities \subseteq Nat \cup {Unset}
    /\ None \notin Names \cup Targets \cup Variables
    /\ Targets \cap Variables = {}

ASSUME SlotAssumption ==
    /\ DOMAIN Values = Slots /\ DOMAIN Default = Slots
    /\ \A s \in Slots : None \notin Values[s]

VARIABLES
    stage,      \* "parsing", "merging", "rejected" or "ready"
    zones,      \* the registry: name to zone
    conf,       \* ngx_http_ratelimit_loc_conf_t, per level
    slot,       \* its plain slots, per level
    merged,     \* the last level that has been merged
    sha,        \* custom zones whose script has been hashed
    count,      \* directives so far
    own         \* history: conf and slot as the directives left them

vars == <<stage, zones, conf, slot, merged, sha, count, own>>

Zone == [requests: Nat \ {0}, period: Nat \ {0}, burst: Nat, algo: Algos]

LocConf == [zone_name: Names \cup {None}, zone: Names \cup {None},
            burst: Nat \cup {Unset}, quantity: Nat \cup {Unset},
            upstream: Targets \cup {None},
            complex_target: Variables \cup {None}]

\* Zones are what the scripts compute with (requests and period are never 0,
\* so dividing by either is safe), a location's zone is a registered one, and
\* a custom zone that is served has its script's hash.
TypeOK ==
    /\ stage \in {"parsing", "merging", "rejected", "ready"}
    /\ DOMAIN zones \subseteq Names
    /\ \A n \in DOMAIN zones : zones[n] \in Zone
    /\ conf \in [Levels -> LocConf]
    /\ \A l \in Levels : conf[l].zone \in DOMAIN zones \cup {None}
    /\ DOMAIN slot = Levels /\ \A l \in Levels : DOMAIN slot[l] = Slots
    /\ merged \in Levels /\ count \in 0..MaxDirectives
    /\ stage = "ready" =>
         sha = {n \in DOMAIN zones : zones[n].algo = "custom"}

\* ngx_http_ratelimit_create_loc_conf
FreshConf == [zone_name |-> None, zone |-> None, burst |-> Unset,
              quantity |-> Unset, upstream |-> None, complex_target |-> None]

Init == /\ stage = "parsing" /\ zones = [n \in {} |-> None]
        /\ conf = [l \in Levels |-> FreshConf]
        /\ slot = [l \in Levels |-> [s \in Slots |-> None]]
        /\ merged = 1 /\ sha = {} /\ count = 0
        /\ own = [conf |-> conf, slot |-> slot]

-----------------------------------------------------------------------------
(* ratelimit_zone.                                                         *)

Digits == 48..57

\* ngx_atoi; what it refuses as too large for an ngx_int_t, SumSafe refuses.
Atoi(t) == LET value[i \in 0..Len(t)] ==
                   IF i = 0 THEN 0 ELSE 10 * value[i - 1] + (t[i] - 48)
           IN  IF t = <<>> THEN Unset ELSE value[Len(t)]

\* How many digits t begins with.
Prefix(t) == CHOOSE n \in 0..Len(t) :
                 /\ \A i \in 1..n : t[i] \in Digits
                 /\ n = Len(t) \/ t[n + 1] \notin Digits

\* ngx_http_ratelimit_parse_rate: digits, "r/", and one of "s", "m", "h".
RateRequests(t) == Atoi(SubSeq(t, 1, Prefix(t)))
RatePeriod(t)   == LET unit == t[Len(t)]
                   IN  CASE unit = 115 -> 1
                         [] unit = 109 -> 60
                         [] unit = 104 -> 3600
                         [] OTHER -> Unset
RateValid(t) ==
    /\ RateRequests(t) \in Nat \ {0}
    /\ Len(t) = Prefix(t) + 3 /\ t[Len(t) - 2] = 114 /\ t[Len(t) - 1] = 47
    /\ RatePeriod(t) # Unset

Given(x) == x # None
Positive(x) == Given(x) => x # Unset /\ x > 0

Requests(a) == IF Given(a.rate) THEN RateRequests(a.rate) ELSE a.requests
Period(a)   == IF Given(a.rate) THEN RatePeriod(a.rate) ELSE a.period
Burst(a)    == IF Given(a.burst) THEN a.burst ELSE 0

\* The sum let through when only a part of it is safe.
MutantSumSafe(requests, burst) == requests <= MaxSafe /\ burst <= MaxSafe

\* "requests" + "burst" is exact in Redis's Lua.
SumSafe(requests, burst) == requests <= MaxSafe - burst

\* Only a rate looked at for being positive.
MutantZoneArgsOK(a) ==
    /\ a.key
    /\ Given(a.rate) => RateValid(a.rate) /\ ~Given(a.requests) /\ ~Given(a.period)
    /\ ~Given(a.rate) => Given(a.requests) /\ Given(a.period)
    /\ Burst(a) # Unset
    /\ a.algo = "custom" <=> a.script # "none"
    /\ a.script # "unreadable"
    /\ SumSafe(Requests(a), Burst(a))

\* The checks of ngx_http_ratelimit_zone, the script file's included.
ZoneArgsOK(a) ==
    /\ a.key
    /\ Given(a.rate) => RateValid(a.rate) /\ ~Given(a.requests) /\ ~Given(a.period)
    /\ ~Given(a.rate) => Given(a.requests) /\ Given(a.period)
    /\ Positive(a.requests) /\ Positive(a.period) /\ Burst(a) # Unset
    /\ a.algo = "custom" <=> a.script # "none"
    /\ a.script # "unreadable"
    /\ SumSafe(Requests(a), Burst(a))

Directive == /\ stage = "parsing" /\ count < MaxDirectives
             /\ count' = count + 1
             /\ UNCHANGED <<merged, sha, own>>

\* NGX_CONF_ERROR: nginx does not start, or goes on with what it had.
Reject == stage' = "rejected" /\ UNCHANGED <<zones, conf, slot>>

RatelimitZone(a) ==
    /\ Directive
    /\ IF a.name \notin DOMAIN zones /\ ZoneArgsOK(a)
       THEN /\ zones' = [n \in DOMAIN zones \cup {a.name} |->
                           IF n \in DOMAIN zones THEN zones[n]
                           ELSE [requests |-> Requests(a), period |-> Period(a),
                                 burst |-> Burst(a), algo |-> a.algo]]
            /\ UNCHANGED <<stage, conf, slot>>
       ELSE Reject

-----------------------------------------------------------------------------
(* The directives of a level.                                              *)

\* ngx_http_ratelimit: burst= and quantity= fill slots of their own.
Ratelimit(l, a) ==
    /\ Directive
    /\ IF /\ conf[l].zone_name = None /\ Given(a.zone)
          /\ a.burst # Unset /\ a.quantity # Unset
       THEN /\ conf' = [conf EXCEPT
                 ![l].zone_name = a.zone,
                 ![l].burst = IF Given(a.burst) THEN a.burst ELSE @,
                 ![l].quantity = IF Given(a.quantity) THEN a.quantity ELSE @]
            /\ UNCHANGED <<stage, zones, slot>>
       ELSE Reject

\* ngx_conf_set_num_slot, on the slot that quantity= may have filled.
RatelimitQuantity(l, q) ==
    /\ Directive
    /\ IF conf[l].quantity = Unset /\ q # Unset
       THEN /\ conf' = [conf EXCEPT ![l].quantity = q]
            /\ UNCHANGED <<stage, zones, slot>>
       ELSE Reject

\* ngx_http_ratelimit_pass; ngx_http_upstream_add may not like the address.
RatelimitPass(l, t) ==
    /\ Directive
    /\ IF conf[l].upstream = None /\ conf[l].complex_target = None
       THEN /\ conf' = IF t \in Variables
                       THEN [conf EXCEPT ![l].complex_target = t]
                       ELSE [conf EXCEPT ![l].upstream = t]
            /\ UNCHANGED <<stage, zones, slot>>
       ELSE Reject

\* ratelimit_prefix, _password, _database, _headers, _log_level, _status,
\* _on_error, _buffer_size, _connect_timeout, _send_timeout, _read_timeout.
RatelimitSlot(l, s, v) ==
    /\ Directive
    /\ IF slot[l][s] = None /\ v \in Values[s]
       THEN /\ slot' = [slot EXCEPT ![l][s] = v]
            /\ UNCHANGED <<stage, zones, conf>>
       ELSE Reject

BadDirective == Directive /\ Reject

-----------------------------------------------------------------------------
(* The merge.                                                              *)

\* The end of http{}: only now are the levels merged.
EndOfHttp == /\ stage = "parsing"
             /\ stage' = "merging"
             /\ own' = [conf |-> conf, slot |-> slot]
             /\ UNCHANGED <<zones, conf, slot, merged, sha, count>>

Or(x, unset, y) == IF x # unset THEN x ELSE y

\* The parent's zone kept under a child that names another.
MutantMergedZone(prev, c) ==
    LET name == Or(c.zone_name, None, prev.zone_name)
    IN  IF prev.zone # None THEN prev.zone
        ELSE IF name \in DOMAIN zones THEN name ELSE None

\* The zone: taken over from the parent, or resolved by its name; None when
\* the name is unknown.
MergedZone(prev, c) ==
    LET name == Or(c.zone_name, None, prev.zone_name)
        zone == IF c.zone_name = None THEN prev.zone ELSE c.zone
    IN  IF zone # None THEN zone
        ELSE IF name \in DOMAIN zones THEN name ELSE None

\* A child that forgets one of its parent's targets.
MutantMergedConf(prev, c) ==
    [zone_name |-> Or(c.zone_name, None, prev.zone_name),
     zone |-> MergedZone(prev, c),
     burst |-> Or(c.burst, Unset, prev.burst),
     quantity |-> Or(c.quantity, Unset, Or(prev.quantity, Unset, 1)),
     upstream |-> Or(c.upstream, None, prev.upstream),
     complex_target |-> c.complex_target]

\* ngx_http_ratelimit_merge_loc_conf on the fields that have rules.
MergedConf(prev, c) ==
    [zone_name |-> Or(c.zone_name, None, prev.zone_name),
     zone |-> MergedZone(prev, c),
     burst |-> Or(c.burst, Unset, prev.burst),
     quantity |-> Or(c.quantity, Unset, Or(prev.quantity, Unset, 1)),
     upstream |-> Or(c.upstream, None, prev.upstream),
     complex_target |-> Or(c.complex_target, None, prev.complex_target)]

\* The default taken for what the parent has.
MutantMergedSlot(prev, c) == [s \in Slots |-> Or(c[s], None, Default[s])]

\* ngx_conf_merge_value and its kin, on the others.
MergedSlot(prev, c) ==
    [s \in Slots |-> Or(c[s], None, Or(prev[s], None, Default[s]))]

\* An inherited override not checked against the zone it now meets.
MutantMergeOK(c, before) ==
    /\ c.zone_name # None => c.zone # None
    /\ c.zone # None => /\ before.burst # Unset =>
                             SumSafe(zones[c.zone].requests, before.burst)
                        /\ c.upstream # None \/ c.complex_target # None

\* A target asked for only where the zone is given.
MutantTargetOK(c, before) ==
    /\ c.zone_name # None => c.zone # None
    /\ c.zone # None /\ c.burst # Unset =>
           SumSafe(zones[c.zone].requests, c.burst)
    /\ before.zone_name # None => c.upstream # None \/ c.complex_target # None

\* What the merge insists on: the zone exists, a burst override is safe with
\* its zone's requests, and an active zone has a Redis to ask.
MergeOK(c, before) ==
    /\ c.zone_name # None => c.zone # None
    /\ c.zone # None => /\ c.burst # Unset =>
                             SumSafe(zones[c.zone].requests, c.burst)
                        /\ c.upstream # None \/ c.complex_target # None

Merge ==
    /\ stage = "merging" /\ merged < Depth
    /\ LET l == merged + 1
           c == MergedConf(conf[merged], conf[l])
       IN  IF MergeOK(c, conf[l])
           THEN /\ conf' = [conf EXCEPT ![l] = c]
                /\ slot' = [slot EXCEPT ![l] = MergedSlot(slot[merged], slot[l])]
                /\ merged' = l
                /\ UNCHANGED <<stage, zones>>
           ELSE Reject /\ UNCHANGED merged
    /\ UNCHANGED <<sha, count, own>>

\* ngx_http_ratelimit_init
Postconfiguration ==
    /\ stage = "merging" /\ merged = Depth
    /\ stage' = "ready"
    /\ sha' = {n \in DOMAIN zones : zones[n].algo = "custom"}
    /\ UNCHANGED <<zones, conf, slot, merged, count, own>>

Finished == stage \in {"rejected", "ready"} /\ UNCHANGED vars

Next ==
    \/ \E a \in ZoneArgs : RatelimitZone(a)
    \/ \E l \in Levels :
         \/ \E a \in ApplyArgs : Ratelimit(l, a)
         \/ \E q \in Quantities : RatelimitQuantity(l, q)
         \/ \E t \in Targets \cup Variables : RatelimitPass(l, t)
         \/ \E s \in Slots : \E v \in Values[s] : RatelimitSlot(l, s, v)
    \/ BadDirective \/ EndOfHttp \/ Merge \/ Postconfiguration \/ Finished

Spec == Init /\ [][Next]_vars

-----------------------------------------------------------------------------
(* What the request handler makes of a merged level.                       *)

\* create_request: the burst in force.
BurstOf(l) == Or(conf[l].burst, Unset, zones[conf[l].zone].burst)

\* The handler: a variable target comes before a static one.
TargetOf(l) == Or(conf[l].complex_target, None, conf[l].upstream)

-----------------------------------------------------------------------------
(* Properties.  Requests are served by merged levels, from 2 on.           *)

Served == IF stage = "rejected" THEN {} ELSE 2..merged

\* A level with a zone has a Redis to ask, so the handler never goes through
\* a NULL upstream (module.c:323-335, handler.c:205-238).
ActiveHasTarget ==
    \A l \in Served : conf[l].zone # None => TargetOf(l) # None

\* What a script gets as its limit is exact in Lua, also where an inherited
\* burst= meets another zone than the one it was given for (module.c:280-296,
\* 627-638).
LimitExact ==
    \A l \in Served :
        conf[l].zone # None => zones[conf[l].zone].requests + BurstOf(l) <= MaxSafe

\* What the nearest level at or above l gave, f holding what each level gave.
Last(S) == CHOOSE k \in S : \A j \in S : j <= k
Givers(f, unset, l)  == {k \in 1..l : f[k] # unset}
Nearest(f, unset, l) == IF Givers(f, unset, l) = {} THEN unset
                        ELSE f[Last(Givers(f, unset, l))]

NamesGiven      == [k \in Levels |-> own.conf[k].zone_name]
BurstsGiven     == [k \in Levels |-> own.conf[k].burst]
QuantitiesGiven == [k \in Levels |-> own.conf[k].quantity]
ValuesGiven(s)  == [k \in Levels |-> own.slot[k][s]]

\* A merged level has, slot by slot, what the nearest directive above or on
\* it said, however many levels lie between, and the default if none did;
\* values that look like an absence (an empty password, database 0, quantity
\* 0) are values (module.c:337-349).
NearestWins ==
    \A l \in Served :
        /\ \A s \in Slots :
              slot[l][s] = Or(Nearest(ValuesGiven(s), None, l), None, Default[s])
        /\ conf[l].quantity = Or(Nearest(QuantitiesGiven, Unset, l), Unset, 1)

\* A merged level checks the zone that the nearest ratelimit directive names,
\* wherever that zone was defined, and no zone only where nobody names one.
\* An override of the burst comes from the nearest burst=, even if that was
\* said for another zone (module.c:247-278).
ZoneOfName ==
    \A l \in Served :
        /\ conf[l].zone = Nearest(NamesGiven, None, l)
        /\ conf[l].burst = Nearest(BurstsGiven, Unset, l)

\* A level's own ratelimit_pass is the one in force, and a level without any
\* asks the Redis its parent asks; but a variable target from above stays in
\* force over a static one (module.c:311-321, handler.c:205).
TargetInForce ==
    \A l \in Served :
        LET mine == Or(own.conf[l].complex_target, None, own.conf[l].upstream)
            parent == TargetOf(l - 1)
        IN  TargetOf(l) = IF mine = None \/ (mine \in Targets /\ parent \in Variables)
                          THEN parent ELSE mine

\* module.c:315-318: a parent's variable target "still applies to a child that
\* only adds ratelimit zone="; a child with a ratelimit_pass uses its own.
OwnTargetWins ==
    \A l \in Served :
        LET mine == Or(own.conf[l].complex_target, None, own.conf[l].upstream)
        IN  mine # None => TargetOf(l) = mine
=============================================================================
