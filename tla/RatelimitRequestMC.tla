------------------------ MODULE RatelimitRequestMC ------------------------
(* Instances of RatelimitRequest for TLC.                                  *)
EXTENDS RatelimitRequest

Location == [zone |-> TRUE, key |-> "fits", target |-> TRUE,
             password |-> FALSE, database |-> FALSE,
             allow |-> FALSE, enable_headers |-> FALSE]

\* A guarded location with a full prelude, one that fails open and announces
\* its counters, and one without a zone, with an empty key, with a bad key
\* and with a target that cannot be resolved: enough to redirect between.
MCConfs == {[Location EXCEPT !.password = TRUE, !.database = TRUE],
            [Location EXCEPT !.allow = TRUE, !.enable_headers = TRUE],
            [Location EXCEPT !.zone = FALSE],
            [Location EXCEPT !.key = "empty"],
            [Location EXCEPT !.key = "bad"],
            [Location EXCEPT !.password = TRUE, !.target = FALSE]}

\* Two locations that do check, for runs that need no redirect.
MCTwoConfs == {[Location EXCEPT !.password = TRUE],
               [Location EXCEPT !.allow = TRUE, !.enable_headers = TRUE]}

\* The location of the documented fail-open case.
MCOpenConfs == {[Location EXCEPT !.allow = TRUE]}
=============================================================================
