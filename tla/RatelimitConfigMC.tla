------------------------- MODULE RatelimitConfigMC -------------------------
(* Instances of RatelimitConfig for TLC.                                   *)
EXTENDS RatelimitConfig, TLC

CONSTANTS z1, z2, redisA, redisB, variable,
          database, db0, db1, noDatabase

\* "10r/m", "05r/h" and rates that are none: no digits, 0, no unit, an
\* unknown one, "p" for "r", a byte too many.
Good == {<<49, 48, 114, 47, 109>>, <<48, 53, 114, 47, 104>>}
Bad  == {<<>>, <<114, 47, 115>>, <<48, 114, 47, 115>>, <<53, 114, 47>>,
         <<53, 114, 47, 100>>, <<53, 112, 47, 115>>,
         <<53, 114, 47, 115, 115>>}

Plain == [name |-> z1, key |-> TRUE, rate |-> None, requests |-> 4,
          period |-> 1, burst |-> 8, algo |-> "gcra", script |-> "none"]
Rated == [Plain EXCEPT !.rate = <<50, 114, 47, 115>>, !.requests = None,
                       !.period = None, !.burst = None]

\* Two names: the first with little room for a burst below MaxSafe, the
\* second with much, or of a custom script; and what is refused.
MCZoneArgs ==
    {Plain,
     [Rated EXCEPT !.name = z2],
     [Plain EXCEPT !.name = z2, !.requests = 1, !.algo = "custom",
                   !.script = "readable"]}
    \cup {[Rated EXCEPT !.rate = t] : t \in Good \cup Bad}
    \cup {[Plain EXCEPT !.key = FALSE], [Plain EXCEPT !.requests = 0],
          [Plain EXCEPT !.period = Unset], [Plain EXCEPT !.period = None],
          [Plain EXCEPT !.burst = 9], [Plain EXCEPT !.burst = Unset],
          [Plain EXCEPT !.algo = "custom"],
          [Plain EXCEPT !.script = "readable"],
          [Plain EXCEPT !.algo = "custom", !.script = "unreadable"],
          [Rated EXCEPT !.requests = 4]}

Apply == [zone |-> z1, burst |-> None, quantity |-> None]
MCApplyArgs ==
    {Apply, [Apply EXCEPT !.zone = z2],
     [Apply EXCEPT !.zone = z2, !.burst = 10],
     [Apply EXCEPT !.zone = z2, !.burst = 0, !.quantity = 0],
     [Apply EXCEPT !.zone = None], [Apply EXCEPT !.burst = Unset]}

MCNames     == {z1, z2}
MCTargets   == {redisA, redisB}
MCVariables == {variable}
MCSlots     == {database}
MCValues    == database :> {db0, db1}
MCDefault   == database :> noDatabase
=============================================================================
