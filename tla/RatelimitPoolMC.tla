-------------------------- MODULE RatelimitPoolMC --------------------------
(* Instances of RatelimitPool for TLC.                                     *)
EXTENDS RatelimitPool, TLC

CONSTANTS r1, r2, r3, c1, c2, guarded, plain, variable,
          redisA, redisB, secret, nameA, NAMEA, nameB, other

MCRequests    == {r1, r2, r3}
MCConnections == {c1, c2}
MCServers     == {redisA, redisB}
MCHosts       == {nameA, NAMEA, nameB, other}

\* A location with password and database, one with neither on the same
\* server, and one whose target is a variable.
MCLocations == {guarded, plain, variable}
MCTarget    == guarded :> redisA @@ plain :> redisA @@ variable :> "variable"
MCPassword  == guarded :> secret @@ plain :> None @@ variable :> None
MCDatabase  == guarded :> 1 @@ plain :> 0 @@ variable :> 2

\* Two upstream blocks, and one that a static address has made.
MCUpstreams == <<[host |-> nameA, port |-> 6379, server |-> redisB],
                 [host |-> nameA, port |-> 0, server |-> redisA],
                 [host |-> nameB, port |-> 0, server |-> redisB]>>
MCLower == nameA :> nameA @@ NAMEA :> nameA @@ nameB :> nameB @@ other :> other

Symmetric == Permutations(MCRequests) \cup Permutations(MCConnections)
=============================================================================
