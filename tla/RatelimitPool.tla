--------------------------- MODULE RatelimitPool ---------------------------
(***************************************************************************)
(* Several requests of a worker in flight at once, over connections that   *)
(* nginx's keepalive pool hands from one to the next.  A connection keeps  *)
(* what its last user left in Redis: an identity and a selected database.  *)
(* The pool looks at the server only.  A location whose ratelimit_pass is  *)
(* a variable keeps the upstream it resolved in its configuration, which   *)
(* all its requests share.                                                 *)
(*                                                                         *)
(* One round trip is coarser here than in RatelimitRequest: a pipeline is  *)
(* sent in one step and replies are read one at a time.                    *)
(*                                                                         *)
(* An operator named Mutant... is the definition below it with a plausible *)
(* mistake, kept to see that the properties notice.                        *)
(***************************************************************************)
EXTENDS Integers, Sequences

CONSTANTS
    Requests, Connections, Locations, Servers, Hosts,
    None,           \* no request, server, location, ...; the default user
    Target,         \* per location: a server, or "variable"
    Password,       \* per location: ratelimit_password, None when empty
    Database,       \* per location: ratelimit_database
    Upstreams,      \* umcf->upstreams: host, port and the server behind it
    Lower           \* a host's name in lower case

ASSUME NoneAssumption ==
    None \notin Requests \cup Connections \cup Locations \cup Servers \cup Hosts

ASSUME ConfsAssumption ==
    /\ Target \in [Locations -> Servers \cup {"variable"}]
    /\ "variable" \notin Servers
    /\ Database \in [Locations -> Nat]
    /\ DOMAIN Password = Locations
    /\ Upstreams \in Seq([host: Hosts, port: Nat, server: Servers])
    /\ DOMAIN Lower = Hosts

VARIABLES
    slot,           \* rlcf->upstream.upstream, per location
    \* per request
    phase, loc, host,
    conn,           \* the connection it holds
    due,            \* prelude_replies
    fallback,       \* eval_fallback
    verdict,        \* history: whose ruling was taken for its own
    refused,        \* history: the prelude commands Redis refused it
    \* per connection
    link,           \* "unused", "busy", "idle" in the pool, or "closed"
    server, identity, database,
    inbox,          \* commands Redis has not served yet
    outbox,         \* replies the worker has not read yet
    charged         \* history: the script's runs

reqVars  == <<phase, loc, host, conn, due, fallback, verdict>>
connVars == <<link, server, identity, database, inbox, outbox>>
vars == <<slot, reqVars, refused, connVars, charged>>

Command == [cmd: {"AUTH", "SELECT", "EVALSHA", "EVAL"}, by: Requests]
Reply   == [kind: {"ok", "error", "noscript", "ruling"}, of: Requests]

\* Requests, connections and the shared slot hold what their C counterparts
\* do; a waiting request holds a connection, and no two the same one.
TypeOK ==
    /\ slot \in [Locations -> Servers \cup {None}]
    /\ phase \in [Requests -> {"new", "waiting", "decided", "failed"}]
    /\ loc \in [Requests -> Locations \cup {None}]
    /\ host \in [Requests -> Hosts \cup {None}]
    /\ conn \in [Requests -> Connections \cup {None}]
    /\ due \in [Requests -> 0..2] /\ fallback \in [Requests -> BOOLEAN]
    /\ verdict \in [Requests -> Requests \cup {None}]
    /\ refused \in [Requests -> SUBSET {"AUTH", "SELECT"}]
    /\ link \in [Connections -> {"unused", "busy", "idle", "closed"}]
    /\ server \in [Connections -> Servers \cup {None}]
    /\ inbox \in [Connections -> Seq(Command)]
    /\ outbox \in [Connections -> Seq(Reply)]
    /\ DOMAIN identity = Connections /\ database \in [Connections -> Nat]
    /\ \A r \in Requests : phase[r] = "waiting" =>
           /\ loc[r] \in Locations /\ conn[r] \in Connections
           /\ link[conn[r]] = "busy"
    /\ \A r, s \in Requests :
           phase[r] = "waiting" /\ phase[s] = "waiting" /\ conn[r] = conn[s]
           => r = s

Init ==
    /\ slot = [l \in Locations |->
                 IF Target[l] = "variable" THEN None ELSE Target[l]]
    /\ phase = [r \in Requests |-> "new"]
    /\ loc = [r \in Requests |-> None] /\ host = [r \in Requests |-> None]
    /\ conn = [r \in Requests |-> None] /\ due = [r \in Requests |-> 0]
    /\ fallback = [r \in Requests |-> FALSE]
    /\ verdict = [r \in Requests |-> None] /\ refused = [r \in Requests |-> {}]
    /\ link = [c \in Connections |-> "unused"]
    /\ server = [c \in Connections |-> None]
    /\ identity = [c \in Connections |-> None]
    /\ database = [c \in Connections |-> 0]
    /\ inbox = [c \in Connections |-> <<>>]
    /\ outbox = [c \in Connections |-> <<>>]
    /\ charged = {}

-----------------------------------------------------------------------------
(* The handler.                                                            *)

\* A variable's value is a bare name: its port is 0.
Matches(u, h) == Lower[u.host] = Lower[h] /\ u.port = 0

\* ngx_http_ratelimit_upstream_add: the first upstream of that name.
Lookup(h) ==
    IF \E i \in DOMAIN Upstreams : Matches(Upstreams[i], h)
    THEN Upstreams[CHOOSE i \in DOMAIN Upstreams :
                       /\ Matches(Upstreams[i], h)
                       /\ \A j \in 1..(i - 1) : ~Matches(Upstreams[j], h)].server
    ELSE None

\* The target looked up once and kept.
MutantResolve(l, h) == IF slot[l] = None THEN Lookup(h) ELSE slot[l]

\* What the handler leaves in rlcf->upstream.upstream.
Resolve(l, h) == IF Target[l] = "variable" THEN Lookup(h) ELSE slot[l]

Cmd(name, r) == [cmd |-> name, by |-> r]

\* The prelude sent when a connection is opened, as it once was.
MutantPrelude(r, l, c) ==
    IF link[c] = "idle" THEN <<>> ELSE
    (IF Password[l] # None THEN <<Cmd("AUTH", r)>> ELSE <<>>)
    \o (IF Database[l] > 0 THEN <<Cmd("SELECT", r)>> ELSE <<>>)

\* ngx_http_ratelimit_build_prelude looks at the location alone.
Prelude(r, l, c) ==
    (IF Password[l] # None THEN <<Cmd("AUTH", r)>> ELSE <<>>)
    \o (IF Database[l] > 0 THEN <<Cmd("SELECT", r)>> ELSE <<>>)

\* The target does not name an upstream.
Unresolved(r, l, h) ==
    /\ phase[r] = "new" /\ Resolve(l, h) = None
    /\ slot' = [slot EXCEPT ![l] = None]
    /\ phase' = [phase EXCEPT ![r] = "failed"]
    /\ loc' = [loc EXCEPT ![r] = l] /\ host' = [host EXCEPT ![r] = h]
    /\ UNCHANGED <<conn, due, fallback, verdict, refused, connVars, charged>>

\* nginx's upstream reads the slot in the same turn of the handler, takes an
\* idle connection to that server or opens one, and sends the pipeline.
Begin(r, l, h, c) ==
    /\ phase[r] = "new" /\ Resolve(l, h) # None
    /\ slot' = [slot EXCEPT ![l] = Resolve(l, h)]
    /\ \/ link[c] = "unused"
       \/ link[c] = "idle" /\ server[c] = slot'[l]
    /\ link' = [link EXCEPT ![c] = "busy"]
    /\ server' = [server EXCEPT ![c] = slot'[l]]
    /\ inbox' = [inbox EXCEPT ![c] = Prelude(r, l, c) \o <<Cmd("EVALSHA", r)>>]
    /\ due' = [due EXCEPT ![r] = Len(Prelude(r, l, c))]
    /\ phase' = [phase EXCEPT ![r] = "waiting"]
    /\ loc' = [loc EXCEPT ![r] = l] /\ host' = [host EXCEPT ![r] = h]
    /\ conn' = [conn EXCEPT ![r] = c]
    /\ UNCHANGED <<fallback, verdict, refused, identity, database, outbox, charged>>

\* A failed exchange that gives its connection back.
MutantClose(c) ==
    /\ link' = [link EXCEPT ![c] = "idle"]
    /\ UNCHANGED <<outbox, inbox>>

\* peer.free does not keep a connection whose reply was not parsed to its
\* end.  What Redis has received of its commands it may still serve.
Close(c) ==
    /\ link' = [link EXCEPT ![c] = "closed"]
    /\ outbox' = [outbox EXCEPT ![c] = <<>>]
    /\ inbox' \in {inbox, [inbox EXCEPT ![c] = <<>>]}

\* A parsed reply, the pool being full, disabled or not.
Keep(c) == /\ \E l \in {"idle", "closed"} : link' = [link EXCEPT ![c] = l]
           /\ UNCHANGED inbox

\* The connection closed under a request that goes on waiting.
MutantFails(r) ==
    /\ Close(conn[r])
    /\ UNCHANGED <<slot, reqVars, refused, server, identity, database, charged>>

\* A failed exchange tried once more on a fresh connection, as nginx's own
\* upstream does for an idempotent request when next_upstream lets it.
MutantRetries(r) ==
    \E c \in Connections :
        /\ link[c] = "unused"
        /\ link' = [link EXCEPT ![conn[r]] = "closed", ![c] = "busy"]
        /\ server' = [server EXCEPT ![c] = server[conn[r]]]
        /\ inbox' = [inbox EXCEPT ![c] =
                        Prelude(r, loc[r], c) \o <<Cmd("EVALSHA", r)>>]
        /\ outbox' = [outbox EXCEPT ![conn[r]] = <<>>]
        /\ conn' = [conn EXCEPT ![r] = c]
        /\ due' = [due EXCEPT ![r] = Len(Prelude(r, loc[r], c))]
        /\ fallback' = [fallback EXCEPT ![r] = FALSE]
        /\ UNCHANGED <<slot, phase, loc, host, verdict, refused, identity,
                       database, charged>>

\* ngx_http_ratelimit_finalize_upstream_request
Fails(r) == /\ phase' = [phase EXCEPT ![r] = "failed"]
            /\ conn' = [conn EXCEPT ![r] = None]
            /\ Close(conn[r])
            /\ UNCHANGED <<slot, loc, host, due, fallback, verdict,
                           refused, server, identity, database, charged>>

\* The head of what the worker can read, and what is left when it is read.
Has(r, kind) == /\ phase[r] = "waiting" /\ outbox[conn[r]] # <<>>
                /\ Head(outbox[conn[r]]).kind = kind
Consume(r) == outbox' = [outbox EXCEPT ![conn[r]] = Tail(outbox[conn[r]])]

\* Any line taken for an acceptance.
MutantReadPrelude(r) ==
    /\ Has(r, "ok") \/ Has(r, "error")
    /\ due[r] > 0
    /\ due' = [due EXCEPT ![r] = due[r] - 1]
    /\ Consume(r)
    /\ UNCHANGED <<slot, phase, loc, host, conn, fallback, verdict, refused,
                   link, server, identity, database, inbox, charged>>

\* ngx_http_ratelimit_consume_prelude_reply
ReadPrelude(r) ==
    /\ Has(r, "ok") /\ due[r] > 0
    /\ due' = [due EXCEPT ![r] = due[r] - 1]
    /\ Consume(r)
    /\ UNCHANGED <<slot, phase, loc, host, conn, fallback, verdict, refused,
                   link, server, identity, database, inbox, charged>>

\* The whole reply parsed: the verdict, and the connection may be kept.
ReadRuling(r) ==
    /\ Has(r, "ruling") /\ due[r] = 0
    /\ phase' = [phase EXCEPT ![r] = "decided"]
    /\ verdict' = [verdict EXCEPT ![r] = Head(outbox[conn[r]]).of]
    /\ conn' = [conn EXCEPT ![r] = None]
    /\ Consume(r) /\ Keep(conn[r])
    /\ UNCHANGED <<slot, loc, host, due, fallback, refused, server,
                   identity, database, charged>>

\* EVAL follows on the same connection, without the prelude.
ReadNoscript(r) ==
    /\ Has(r, "noscript") /\ due[r] = 0 /\ ~fallback[r]
    /\ fallback' = [fallback EXCEPT ![r] = TRUE]
    /\ inbox' = [inbox EXCEPT ![conn[r]] = Append(@, Cmd("EVAL", r))]
    /\ Consume(r)
    /\ UNCHANGED <<slot, phase, loc, host, conn, due, verdict, refused,
                   link, server, identity, database, charged>>

\* An error reply, or one that is not due.
ReadFault(r) ==
    /\ \/ Has(r, "error")
       \/ Has(r, "ok") /\ due[r] = 0
       \/ Has(r, "ruling") /\ due[r] > 0
       \/ Has(r, "noscript") /\ (due[r] > 0 \/ fallback[r])
    /\ Fails(r)

\* A timeout, the end of the stream (also on a connection that Redis closed
\* while it was idle and that was reused before nginx noticed), a failure.
Abandon(r) == phase[r] = "waiting" /\ Fails(r)

-----------------------------------------------------------------------------
(* Redis, and the pool.                                                    *)

Due(c, names) == inbox[c] # <<>> /\ Head(inbox[c]).cmd \in names
By(c) == Head(inbox[c]).by

\* The next command of c is served; a closed connection gets no reply.
Serve(c, kind) ==
    /\ inbox' = [inbox EXCEPT ![c] = Tail(@)]
    /\ outbox' = IF link[c] = "closed" THEN outbox
                 ELSE [outbox EXCEPT ![c] = Append(@, [kind |-> kind, of |-> By(c)])]
    /\ UNCHANGED <<slot, reqVars, link, server>>

Accept(c) ==
    /\ Due(c, {"AUTH", "SELECT"})
    /\ IF Head(inbox[c]).cmd = "AUTH"
       THEN /\ identity' = [identity EXCEPT ![c] = Password[loc[By(c)]]]
            /\ UNCHANGED database
       ELSE /\ database' = [database EXCEPT ![c] = Database[loc[By(c)]]]
            /\ UNCHANGED identity
    /\ Serve(c, "ok")
    /\ UNCHANGED <<refused, charged>>

\* A wrong password, an index out of range: identity and database stay.
Decline(c) ==
    /\ Due(c, {"AUTH", "SELECT"})
    /\ refused' = [refused EXCEPT ![By(c)] = @ \cup {Head(inbox[c]).cmd}]
    /\ Serve(c, "error")
    /\ UNCHANGED <<identity, database, charged>>

Run(c) ==
    /\ Due(c, {"EVALSHA", "EVAL"})
    /\ charged' = charged \cup {[by |-> By(c), server |-> server[c],
                                 identity |-> identity[c], database |-> database[c]]}
    /\ Serve(c, "ruling")
    /\ UNCHANGED <<refused, identity, database>>

\* NOSCRIPT, or an error of the script or of the identity's permissions.
RunFails(c) ==
    /\ \/ Due(c, {"EVALSHA"}) /\ Serve(c, "noscript")
       \/ Due(c, {"EVALSHA", "EVAL"}) /\ Serve(c, "error")
    /\ UNCHANGED <<refused, identity, database, charged>>

\* The pool's timeout, its limit, or Redis ends an idle connection.
Expire(c) ==
    /\ link[c] = "idle"
    /\ link' = [link EXCEPT ![c] = "closed"]
    /\ outbox' = [outbox EXCEPT ![c] = <<>>]
    /\ UNCHANGED <<slot, reqVars, refused, server, identity, database, inbox, charged>>

\* Nobody waits; there may be no connection left of those the model has.
Finished == /\ \A r \in Requests : phase[r] # "waiting"
            /\ UNCHANGED vars

RequestStep(r) ==
    \/ \E l \in Locations :
          \E h \in IF Target[l] = "variable" THEN Hosts ELSE {None} :
             Unresolved(r, l, h) \/ \E c \in Connections : Begin(r, l, h, c)
    \/ ReadPrelude(r) \/ ReadRuling(r) \/ ReadNoscript(r) \/ ReadFault(r)
    \/ Abandon(r)

ConnectionStep(c) ==
    Accept(c) \/ Decline(c) \/ Run(c) \/ RunFails(c) \/ Expire(c)

Next == \/ \E r \in Requests : RequestStep(r)
        \/ \E c \in Connections : ConnectionStep(c)
        \/ Finished

Spec == Init /\ [][Next]_vars

-----------------------------------------------------------------------------
(* Properties.                                                             *)

\* The ruling a request acts on is that of its own script run, however many
\* requests the connection has served, however they ended (reply.c:280-289,
\* upstream.c:47-63).
OwnVerdict == \A r \in Requests : phase[r] = "decided" => verdict[r] = r

\* A request's commands go to the upstream its own value of the variable
\* names, whatever other requests of the location write to the shared slot
\* (handler.c:205-238, util.c:16-45).
OwnServer ==
    \A r \in Requests : phase[r] = "waiting" =>
        LET to == server[conn[r]]
        IN  IF Target[loc[r]] = "variable"
            THEN \E i \in DOMAIN Upstreams :
                    Matches(Upstreams[i], host[r]) /\ Upstreams[i].server = to
            ELSE to = Target[loc[r]]

\* A location that has a password or a database is charged under that user
\* and in that database, on a new connection and on any reused one, in the
\* EVALSHA and in the EVAL without prelude (handler.c:385-398) - unless
\* Redis refused the AUTH or SELECT the script was pipelined behind.
PreludeGoverns ==
    \A ch \in charged :
        /\ Database[loc[ch.by]] > 0 /\ "SELECT" \notin refused[ch.by]
           => ch.database = Database[loc[ch.by]]
        /\ Password[loc[ch.by]] # None /\ "AUTH" \notin refused[ch.by]
           => ch.identity = Password[loc[ch.by]]

\* A request whose AUTH or SELECT was refused is never decided by the ruling
\* of the script that ran behind it all the same (handler.c:561-606).
RefusedNeverDecides ==
    \A r \in Requests : phase[r] = "decided" => refused[r] = {}

\* A request is charged once.  When its script has run, nothing of it is left
\* to be served on any connection, and nothing will be: the EVAL follows only
\* an EVALSHA that did not run, and a request whose connection fails - one the
\* pool handed over while Redis was closing it, too - is not tried again, for
\* what it sent may have run (upstream.c:440-454, 590-629; next_upstream is 0,
\* module.c:197).  And only a charged request is decided (reply.c:264-290).
RunsOnce ==
    /\ \A ch \in charged : \A c \in Connections :
           \A i \in 1..Len(inbox[c]) : inbox[c][i].by # ch.by
    /\ \A r \in Requests :
           phase[r] = "decided" => \E ch \in charged : ch.by = r

\* docs/DIRECTIVES.md:115-122: counts are isolated per database, also on a
\* reused connection, and no ratelimit_database means database 0.
CountsIsolated ==
    \A ch \in charged :
        "SELECT" \notin refused[ch.by] => ch.database = Database[loc[ch.by]]
=============================================================================
