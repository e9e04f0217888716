------------------------- MODULE RatelimitContract -------------------------
(***************************************************************************)
(* What the limiter promises for one main request, without connections,    *)
(* buffers or timers.  The request commits to one check (the `done'        *)
(* marker), Redis rules at most once, and the limiter answers once: it     *)
(* admits on an "allow" ruling or, when the location fails open, on a      *)
(* transport outage; it rejects on a "limit" ruling or on any trouble.     *)
(* RatelimitRequest implements this specification.                         *)
(***************************************************************************)
VARIABLES
    asked,      \* the one-shot marker of the main request is set
    open,       \* "ratelimit_on_error allow" held in the asking location
    ruling,     \* what the script decided in Redis
    outage,     \* the worker saw a transport failure
    broken,     \* a faulty reply was sent, or the worker met an internal fault
    answer      \* what the limiter told the phase engine

vars == <<asked, open, ruling, outage, broken, answer>>

TypeOK ==
    /\ asked \in BOOLEAN /\ open \in BOOLEAN
    /\ ruling \in {"none", "allow", "limit"}
    /\ outage \in BOOLEAN /\ broken \in BOOLEAN
    /\ answer \in {"none", "pass", "reject"}

Init ==
    /\ asked = FALSE /\ open = FALSE
    /\ ruling = "none"
    /\ outage = FALSE /\ broken = FALSE
    /\ answer = "none"

\* Trouble is never forgotten.
Worsen == /\ outage' \in {outage, TRUE}
          /\ broken' \in {broken, TRUE}

MayPass   == ruling = "allow" \/ (open /\ outage)
MayReject == ruling = "limit" \/ outage \/ broken

\* The request commits to its check; if the setup fails it is rejected at once.
Ask ==
    /\ ~asked
    /\ asked' = TRUE
    /\ open' \in BOOLEAN
    /\ Worsen
    /\ \/ answer' = answer
       \/ answer' = "reject" /\ (outage' \/ broken')
    /\ UNCHANGED ruling

\* Redis runs the script, possibly after the worker has given up on it.
Rule ==
    /\ asked /\ ruling = "none"
    /\ ruling' \in {"allow", "limit"}
    /\ broken' \in {broken, TRUE}
    /\ UNCHANGED <<asked, open, outage, answer>>

Disturb == asked /\ Worsen /\ UNCHANGED <<asked, open, ruling, answer>>

Decide ==
    /\ asked /\ answer = "none"
    /\ Worsen
    /\ \/ answer' = "pass"   /\ MayPass'
       \/ answer' = "reject" /\ MayReject'
    /\ UNCHANGED <<asked, open, ruling>>

Next == Ask \/ Rule \/ Disturb \/ Decide

Spec == Init /\ [][Next]_vars
=============================================================================
