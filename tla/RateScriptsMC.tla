--------------------------- MODULE RateScriptsMC ---------------------------
(* Instances of RateScripts for TLC.                                       *)
EXTENDS RateScripts

ZoneOf(algo, bursts) ==
    [algo |-> algo, requests |-> 2, period |-> 1, bursts |-> bursts,
     quantities |-> {0, 1, 2}]

\* Two tokens or requests a second.  Where the script supports it, two
\* locations with different bursts share the key.  In the last zone a wait of
\* a whole second may end in the window it began in.
MCZones == {ZoneOf("fixed_window", {0, 1}),
            [ZoneOf("token_bucket", {1}) EXCEPT !.quantities = {0, 1, 3}],
            ZoneOf("gcra", {1}),
            ZoneOf("sliding_window", {0, 1}),
            [ZoneOf("sliding_window", {1}) EXCEPT !.period = 2]}

\* Locations with different bursts on one bucket, and on one arrival time.
MCSharedBucket == {ZoneOf("token_bucket", {0, 4})}
MCSharedGcra   == {ZoneOf("gcra", {0, 2})}
=============================================================================
