# A verification of nginx-ratelimit

`ngx_http_ratelimit_module` asks Redis, in nginx's PREACCESS phase, whether a
request may go on. This directory holds TLA+ models of that program, the TLC
configurations that check them and TLAPS proofs about them.

Files of the program are named by their last word: `handler.c` is
`src/src/ngx_http_ratelimit_handler.c`, likewise `upstream.c`, `reply.c`,
`script.c`, `util.c` and `module.c`.

## The system

| component | state it keeps | operations | how it interacts |
|---|---|---|---|
| PREACCESS handler, `handler.c:28-261` | the `done` marker variable of the main request, `ngx_http_ratelimit_ctx_t` | first entry: checks, key, prelude, upstream set-up; re-entry: verdict | called by the phase engine, starts the upstream, is called again by `ngx_http_core_run_phases` |
| request building, `handler.c:282-515`, `util.c:53-123` | request buffers, the AUTH buffer | prelude (AUTH, SELECT), EVALSHA or EVAL | handed to nginx's upstream for writing |
| upstream round trip, `upstream.c` | read/write handler pointers, reply buffer, timers, `u->state->status` | header read, body read, EVAL resend, write handler, finalization | driven by socket events and timers; calls the parser and the finalize callback |
| reply header and parser, `handler.c:561-716`, `reply.c` | `prelude_replies`, `state`, counters | consume prelude lines, dispatch on the reply type, parse five integers | sets the status, marks the connection for keepalive |
| finalize callback, `handler.c:740-813` | `finalized`, response headers | push headers, wipe the password | called by both finalizers; pool cleanup as the backstop |
| built-in scripts, `script.c:4-253` | keys in Redis | fixed window, token bucket, GCRA, sliding window | run atomically by Redis |
| script loading, `script.c:255-414` | bodies and SHA1s | read file, hash | configuration time only |
| configuration, `module.c` | zones, location records | directives, rate parsing, inheritance | its result is read-only at run time, but for `handler.c:225` |
| nginx core | phase engine, reference count, connection, keepalive pool | write path, finalization, redirects | external |
| Redis, network | script cache, session, keys | serves a connection's commands in order | external |

What is hard here: the worker is single-threaded, but a request lives across many
events, whose order the peer and the network choose. The status that becomes the
verdict is written in four places and read in another handler call; replies
arrive in any pieces and behind those of the prelude; the exchange can restart
in the middle (NOSCRIPT); failures are finalized by two different pieces of code
(the module's and nginx's own); the same client request may pass through PREACCESS
several times. `PROJECT.json` lists each hazard with its line and the properties
aimed at it.

What makes each part correct:

* handler: an admission is backed by a ruling or by a tolerated outage; one check per client request;
* round trip: always woken, always ended, one reference, one response;
* parser: what it accepts is the whole reply, as it was sent, however it was cut;
* connections: a pooled one serves each request with its own verdict, user and database, and charges it once;
* finalize callback: headers with real counters only, no password left in memory;
* scripts: no more admitted than limit and rate allow, replies within the contract, nothing that counts forgotten;
* configuration: what is accepted can be computed with and asked for, and every level has what the nearest directive gave.

## Modules

| module | what it is |
|---|---|
| `RatelimitContract` | abstract specification: what the limiter promises for one client request |
| `RatelimitRequest` | one request through handler, round trip, parser and finalizers, with nginx, network and Redis around it |
| `RateScripts` | the four built-in scripts on one key in Redis, with clock and key expiry |
| `ReplyParser` | `reply.c` byte by byte, over replies of any content in any pieces |
| `RatelimitPool` | several requests over connections that the keepalive pool hands on |
| `RatelimitConfig` | directives, rates, inheritance on a chain of levels, postconfiguration |
| `...MC` | the instances of each for TLC |
| `...Proofs` | the inductive invariant and the theorems of each |
| `RateEnvelopeProofs`, `RateRetryProofs` | what the scripts admit, answer and forget; what a peek and a `Retry-After` are worth |
| `RatelimitStreamProofs` | what the replies on their way look like, and the refinement of `RatelimitContract` |

How they meet. What `RatelimitRequest` calls a ruling (`RedisRuns`) is one step of
`RateScripts` (`Check`): the first does not look at the values, the second not at
how the answer travels. The five steps of a reply in `RatelimitRequest` (`pstate`
and `Expected`: the length, the status and the counters) are the states of
`ReplyParser`, each standing for the bytes of one element; `ReplyParser` shows that a
cut inside an element does not show. `RatelimitPool` has many requests where
`RatelimitRequest` has one, and takes its round trips coarser: a pipeline is sent
in one step, replies are read one at a time, and every failure is one action
(`Abandon`, `ReadFault`); that a connection offered to the pool has nothing left on
it is `PooledClean` there and what `Close` and `Keep` assume here. The flags of a
location in `RatelimitRequest` (`Conf`) and the locations of `RatelimitPool` are what
`RatelimitConfig` makes of the directives.

### RatelimitRequest

State. `conf` is the merged configuration of the location in force
(`module.h:75-93`), reduced to what the control flow looks at: whether there is a
zone, whether the key is empty, fits or is refused, whether the target resolves,
password, database, `on_error`, `ratelimit_headers`. `engine` is where the phase
engine stands; `refs` is `r->main->count`; `done` is the marker variable. `ctx`,
`auth_buf`, `eval_fallback`, `prelude_replies` and `pstate` are fields of
`ngx_http_ratelimit_ctx_t` (`pstate = 3` is `reply_parsed`). `status`,
`read_handler`, `write_handler`, `buf` and `used` belong to `ngx_http_upstream_t`.
`rd` says what the worker is doing with the read side: nothing (`quiet`), an event
is due (`event`), or it is inside a read handler that has entered its loop
(`enter`, `loop`). `unsent`, `inbox`, `inflight` and `sock` are the four places a
command or reply can be. The last group (`open`, `outage`, `broken`, `answer`,
`headers`) is history that the properties speak of.

Tokens. A reply is a sequence of tokens (see the head of the module); reads may
cut it between any two. `recv` takes as much as is there and fits, as the code
does; the pieces come from `Arrive`.

Actions and code.

| action | code |
|---|---|
| `HandlerDeclines`, `HandlerRefuses` | `handler.c:41-45, 128-181` |
| `SetupFails` | `handler.c:190-233`, errors after the marker is set |
| `HandlerBegins`, `HandlerBeginsInVain` | `handler.c:190-261`; the second when `ngx_http_upstream_init` fails before it returns |
| `Verdict` (part of every finalization) | `handler.c:60-126`, the re-entry by `ngx_http_core_run_phases` |
| `ReadHeader` and its five cases | one turn of the loop in `upstream.c:425-477` with `process_header`, and what follows it |
| `ReadHeaderAgain`, `ReadHeaderEof` | `upstream.c:429-454` |
| `ReadBody`, `ReadBodyAgain`, `ReadBodyEof`, `ReadBodyFull` | one turn of the loop in `upstream.c:151-257` |
| `HandlerFault` | a failed allocation, event registration, `tcp_nodelay` or flush in a read handler |
| `EvalWrite`, `EvalWriteFails`, `EvalWriteTimeout` | `upstream.c:509-588` |
| `ConnectRefused` | `upstream.c:401-405` |
| `ReadTimeout` | `upstream.c:395-399, 273-278` |
| `FinalizeUpstream` | `upstream.c:9-97`, the callback, the release of the connection, the first finalize and the re-entry in one step, as the code does it without returning to the event loop |

Between two turns of a read loop other actors may move (data may arrive, the peer
may go); the worker itself may not (`WorkerFree`), since it is inside the handler.

What is assumed of nginx, since its code is not in the repository:

* `ngx_http_upstream_init` and the upstream write handler connect and send. Their
  own failures (connect timeout, send timeout, write error, no live peer, a
  connect that fails at once, no socket) go to `ngx_http_upstream_next`, which does
  not retry because the module leaves `next_upstream` at 0, and from there to
  nginx's `ngx_http_upstream_finalize_request`. That calls the module's callback
  and then `ngx_http_finalize_request` with the status. `StockFinalize`.
* A refused TCP connect raises a read event; the module's read handler tests the
  socket first and answers 503. `ConnectRefused`.
* The read timer is armed once, when the last byte of the first request is sent.
* `ngx_http_finalize_request(NGX_DONE)` gives back a reference and sends nothing.
* A client event during the round trip re-enters the handler, which answers
  `NGX_AGAIN`: a stutter. `ignore_client_abort` is on.
* An internal redirect wipes `r->ctx` and keeps the main request's variables.
* A connection offered to the keepalive pool may be kept or closed.

Left out of this module: the counters' values, the numeric arguments of the
command, log lines, byte counts and times in `u->state`, `clean-up` of a request
the client's own connection loses (`ignore_client_abort`), and the branch
`u->cleanup == NULL` of the finalizer, which no path of the module reaches twice.

The operators named `Mutant...` are not part of the specification. Each is the
definition below it with a plausible mistake (a dropped guard, a missing reset, a
swapped status); `PROJECT.json` pairs each with the property that notices it.

### RatelimitContract

Six variables: the request has asked, it may fail open, what the script ruled,
whether there was an outage or a fault, what was answered. `RatelimitRequest`
implements it with `asked` mapped to `done` and the others to the variables of
the same name (`ContractSpec`, checked and proved). It allows Redis to rule after the answer (a late
execution) and allows nothing else that is not a verdict.

### RateScripts

State. `zone` (chosen once) is the rate definition of `module.h:48-66` with the set
of bursts and the set of quantities its locations may ask with: `ratelimit burst=`
overrides the zone's burst per location (`handler.c:304-306`) while the key stays
the same. `key` is the key in Redis: whether it exists, its time to live, its
value. `now` is Redis's clock. `admitted`, history, is how much was granted up to the
end of each tick; `Since(t)` is what was granted since tick `t` began. Nothing here knows about workers: Redis runs a script atomically, so calls
by any number of workers are calls in some order.

| action | code |
|---|---|
| `Check(burst, q)` | one script call with the arguments of `handler.c:326-366`, a peek when `q = 0`; the script is `FixedWindow` (`script.c:23-60`), `TokenBucket` (`76-121`), `Gcra` (`137-178`) or `SlidingWindow` (`197-253`) |
| `Expire` | Redis drops a key whose time is up |
| `Tick` | time passes |

Arithmetic. The scripts compute with floating point and store six decimals. Here
tokens are counted in `1/Unit` of a token (`Unit` = period in ticks) and GCRA's
times in `1/requests` of a tick, so that refill and emission interval are whole
numbers and nothing is rounded but where the script rounds: `math.ceil` and
`math.floor` to seconds, tokens and requests. `TTL` rounds to the nearest second,
as Redis does. Not modelled: the six decimals and the binary fractions, which may
shift a comparison by a millionth.

Expiry. A key with time to live 0 may be dropped before or after the calls of the
same tick, and time does not go on before it is: Redis never serves an expired
key, but which side of the instant a call falls on is open.

### ReplyParser

State. `wire` is what Redis sends behind the `*` for what the script returned
(`reply`), which need not be within the contract: any number of elements, each an
integer or something else. `arrived` is `b->last`, `pos` is `p`; `state` and `saved`
are the local variable and `ctx->state`. `Call` is `ngx_http_ratelimit_filter` with
the bytes of one read, as many as there may be; every other action but `Return` is
one byte and one `case` of the switch. `Fits` is the guard of
`ngx_http_ratelimit_accum_digit`, with `MaxInt` for `NGX_MAX_INT_T_VALUE`. That
replies are sequences of such elements (`RepliesAssumption`) is what Redis makes of a
Lua table; what is no array never reaches the parser (`Malformed` in
`RatelimitRequest`).

`AcceptedAsSent` says how lax the parser may be: of all the replies Redis can make,
those it accepts have five integers, with the values it then reports. The one
exception is the fourth element, where `-11` or `-111` pass for `-1`
(`reply.c:220-224`). The contract in `docs/CUSTOM_SCRIPT.md` knows -1 only, so a
script that returns -11 breaks it already; the code forgives.

### RatelimitPool

State. `slot` is `rlcf->upstream.upstream`, shared by the requests of a location;
per request its phase, location, host (the value of the variable), connection,
`prelude_replies` (`due`) and `eval_fallback`; per connection whether it is in use,
its server, and the session Redis keeps for it (`identity`, `database`), with the
commands not served and the replies not read. `verdict`, `refused` and `charged` are
history: whose ruling a request acted on, which of its prelude commands were
refused, and every run of the script with the session it ran in.

| action | code |
|---|---|
| `Begin` | `handler.c:190-261` with `build_prelude`, `create_request` and the choice of a connection by nginx: an idle one to the server in the slot, or a new one |
| `Unresolved` | `handler.c:205-233`, the target names no upstream |
| `ReadPrelude`, `ReadRuling`, `ReadNoscript`, `ReadFault` | one reply: `handler.c:561-716`, `reply.c:264-290`, `upstream.c:590-629` |
| `Abandon`, `Fails`, `Close` | timeouts, ends of stream and faults; `upstream.c:9-97`: a connection whose reply was not parsed is closed |
| `Keep`, `Expire` | nginx's pool: kept or not, later dropped |
| `Accept`, `Decline`, `Run`, `RunFails` | Redis, one command |

A closed connection's commands may still be served: what Redis has received it
executes, though nobody reads the reply.

### RatelimitConfig

State. `zones` is the registry of `ratelimit_zone`; `conf` is, for each level of one
chain (http, server, location, nested location, ...), the fields of
`ngx_http_ratelimit_loc_conf_t` with rules of their own; `slot` is the others, which
`ngx_conf_set_*_slot` fills and `ngx_conf_merge_*` merges alike. Directives come in
any order on any level; nginx merges when the http block ends, from the top down,
and never the http level itself. `own` is history: what the directives left before
the merge.

| action | code |
|---|---|
| `RatelimitZone` | `module.c:402-645`, with `parse_rate` (`354-400`) |
| `Ratelimit`, `RatelimitQuantity`, `RatelimitPass`, `RatelimitSlot` | `module.c:647-716`, `57-61`, `718-769`, `51-130` |
| `Merge` | `module.c:237-352` for one level |
| `Postconfiguration` | `module.c:771-829`, the hashes of custom scripts |
| `BadDirective` | what nginx itself refuses |

A rate is bytes; other arguments come split and converted, with `Unset` for a number
`ngx_atoi` refuses. A refused directive ends the configuration (`Reject`), so what it
leaves half-written does not matter.

## Runs

| run | instance | shows |
|---|---|---|
| `request_main` | six locations, `BufSize` 6, two redirects, `FairSpec` | the eleven invariants, the refinement and the two liveness properties |
| `scripts` | five zones, one per script and a second sliding window; 4 ticks a second, 10 ticks | eight invariants |
| `parser` | three replies within the contract and all those one element away, `MaxInt` 27 | four invariants |
| `pool` | three requests, two connections, three locations, two servers | six invariants |
| `config` | three levels, five directives, two zones, two upstreams and a variable | six invariants |
| `bug_connect_timeout` | one fail-open location | violates `OutageFailsOpen` |
| `bug_reference_leak` | two locations | violates `ReferenceReleased` |
| `bug_buffer_stall` | `BufSize` 3, `FairSpec` | violates `KeepsReading` |
| `bug_pool_database` | as `pool` | violates `CountsIsolated` |
| `bug_config_target` | as `config`, four directives | violates `OwnTargetWins` |
| `bug_bucket_expiry` | a bucket shared by bursts 0 and 4, 6 ticks of a second | violates `BucketRefillsAtRate` |
| `bug_gcra_negative` | an arrival time shared by bursts 0 and 2, 4 ticks | violates `RemainingIsNatural` |

Bounds and why they are enough.

The request. The longest exchange is two prelude lines, a NOSCRIPT line and a reply
of four tokens. A buffer of 6 is filled by the location with a full prelude, in the
header phase and behind a header (two lines of two tokens and part of a reply), and
by no other: so the full buffer and the buffer that never fills, as a page does in
practice, are both in the run. Where it fills, the code can stall (finding 3), so
`EventuallyResponded` and `BodyIsRead` except a request behind a full buffer and
nothing else. Two redirects are enough for check, unchecked location, check
again; the marker makes any further pass decline. The six locations are: full
prelude and fail closed; fail open with headers; no zone; empty key; bad key;
target that does not resolve. Commands in flight are bounded by the protocol, one
pipeline and one EVAL, not by the model. `Finished` lets the answered request
stutter, so deadlock checking stays on: nothing else may stop.

The parser. With `MaxInt` 27 the cap is met in every way: 27 fits, 28 fails on its
last digit, 30 on its first pair, 270 on its third digit. Each of the five elements
takes each odd value in turn, and the array each length up to six, and fifty, whose
notation begins like that of five. The parser has no
memory but its state, the counters and the status, so two odd elements at once add
nothing.

The pool. Three requests over two connections are enough for one connection to be
used twice while the other is in use, and for a third request behind a failed one.
The locations are one with password and database, one with neither on the same
server, and one whose target is a variable, with a host that matches one upstream in
another case, one that differs in port only, and one that matches none. Requests and
connections are symmetric. A request whose connection fails is not tried again
(`next_upstream` is 0, `module.c:197`), for what it sent may still run; with two
connections a retry would have a fresh one to go to, and `RunsOnce` would fail.

The configuration. Five directives on three levels: a zone, its use, its target,
and two more on other levels to override and be inherited. `MaxSafe` 12 leaves one
zone little room for a burst and the other much, and the arguments hold one zone for
each check of `ratelimit_zone` that may refuse it. Sums compare as they do at 2^53.

For the scripts: two requests a second with a burst of one, so that a period is
four ticks, an emission interval two, and fractions of a token, of an interval and
of a window all occur; ten ticks cover two and a half periods, that is a full
window between two others, the whole life of a bucket's key (two seconds, eight
ticks) and a sliding window's previous count fading out. Quantities 0 (peek), 1 and
2, for the bucket 3, so that a call may ask for more than one and for the whole
limit. The window scripts run with bursts 0 and 1 on one key; one more sliding window
has a period of two seconds, so that a wait may end in the window it began in. Bucket and GCRA run
with one burst in the passing run because with two their properties fail: the two
`bug` runs show how. What the run says of the scripts:

* `WithinEnvelope`: over every stretch of time the admitted sum is at most what
  the algorithm promises: twice the limit per period for the fixed window, less
  for the sliding window, capacity plus refill for the bucket and for GCRA.
* `StoredWithinLimits`: what is stored never exceeds limit, capacity or horizon.
* `RepliesInContract`: every reply to every possible next call keeps
  `script.c:4-11`, and what remains after an admission and what it took are not
  more than the limit.
* `PeekAgrees`: a peek says "limited" only when a call for one unit would be, and
  always then (but for the sliding window, whose peek compares the estimate with the
  whole limit and so says "allowed" up to one unit too long).
* `RetryAfterSuffices`: after waiting `Retry-After` alone, a refused call of the
  bucket or GCRA is admitted, also if the key expires at that instant. It does
  not hold of the windows: the sliding window's estimate looks no further than the
  end of the current window, and the fixed window's is a TTL rounded to the nearest
  second, which may be up to half a second short.
* `WindowRetrySuffices`: how near the windows come. A second more than the fixed
  window's `Retry-After` suffices, and the sliding window's does if the wait ends in
  the window it began in.
* `ExpiryForgetsNothing`: when a key of the three other scripts expires, every
  call is answered as it would have been with the key.

In the scripts' cfgs time stops at `MaxTime`, but calls go on, so there is no
deadlock to exempt.

Fairness. `FairSpec` asks for weak fairness of the handler, of the read handlers,
of the timers and of the later phases: the worker's event loop runs whatever is
due, and timers expire. Nothing is asked of Redis, of the network or of writes.
So `EventuallyResponded` says that timers alone bring every request to an end, and
`BodyIsRead` that the bytes of a reply, once there, are read or the request ends.
`WF(ReadEvent)` is justified because a read handler runs to its end or returns
to an event loop that calls it again only for a new event (`rd = "event"`);
`WF(Timeout)` because a timer once armed stays armed until it fires or its
handler deletes it. Timeouts are not ordered against data: any may come first.

## What the runs that fail show

1. `OutageFailsOpen`. `docs/DIRECTIVES.md:154-161` promises that `allow` lets a
   request through when Redis cannot be reached or times out. That holds for
   failures the module's own handlers see. Until the first request is fully sent
   nginx's own code is in charge (`handler.c:255`), and a connect timeout ends in a
   504 for the client.
2. `ReferenceReleased`. On that path the reference taken at `handler.c:252` is not
   given back; `upstream.c:74-77` counts on the module's finalizer to do it.
3. `KeepsReading` with a buffer of 3. If the header read fills the buffer to the
   last byte and the reply is not complete, the body handler finds `size = 0`, does
   not read, and deletes the read timer because the socket is ready
   (`upstream.c:217-256`). `upstream.c:338-345` says it keeps reading.
4. `CountsIsolated`. `docs/DIRECTIVES.md:115-122` gives database 0 as the default
   and says counts stay isolated on reused connections. SELECT is sent only when
   `database > 0` (`handler.c:491`): a location without one, or with 0, that is handed
   a connection on which another location selected database 1 counts there. AUTH is
   the same for a location without a password.
   `PreludeGoverns` is what does hold: a location that has a database is counted in
   it. (When Redis refuses a SELECT, the EVALSHA pipelined behind it runs all the
   same in the database the connection was in; `RefusedNeverDecides` says that its
   ruling at least is not used.)
5. `BucketRefillsAtRate`. `docs/DIRECTIVES.md:215-216` describes a bucket that
   refills at `requests / period`. The key's TTL is the fill time of the caller's
   capacity (`script.c:98`). A location with burst 0 that calls right after one with
   burst 4 has drained the bucket cuts the TTL to one period; the key expires with
   the larger bucket half empty and comes back full.
6. `RemainingIsNatural`. `script.c:7-9` calls `remaining` non-negative. The GCRA
   peek caps it from above only (`script.c:153-154`); when a location with a larger
   burst has moved the arrival time beyond the horizon of the peeking one, it is
   negative, the parser refuses it and the client of a mere peek gets a 500. The
   consuming branch returns 0 in that state.
7. `OwnTargetWins`. `module.c:315-318` inherits a variable `ratelimit_pass` so that it
   "still applies to a child that only adds" a zone. It applies as well to a child
   that has a static `ratelimit_pass` of its own, and the handler prefers it
   (`handler.c:205`), so the child asks its parent's Redis. `TargetInForce` is the
   rule as the code has it.

## Proofs

`RatelimitRequestProofs` proves, for every set of locations, every positive buffer
size and every bound on redirects (`ConfsAssumption`, `BufSizeAssumption`,
`RedirectsAssumption`), that `IInv` is inductive, and from it: `TypeOK`,
`AdmitSound`, `ChargedOnce`, `WakeupOrFull`, `HeldWhileAwaiting`, `SingleResponse`,
`PasswordWiped`.

None of these is inductive by itself; the parts of `IInv` say why they hold:

* `RefsInv`: a waiting request is a committed one with two references, and a
  request that has not committed has touched nothing. `ChargedOnce` over redirects
  and `SingleResponse` need it.
* `QueueInv`: the script command is the last one of its pipeline, and as long as
  one is pending nothing of a script's reply is on its way. So Redis rules at most
  once per pipeline.
* `NoscriptInv`: a NOSCRIPT on its way means no ruling yet, and nothing follows
  it but the end of its line. So when EVAL is sent, no earlier ruling exists and
  the discarded bytes held nothing else.
* `VerdictInv`: a status digit anywhere between Redis and the parser, or already
  in `u->state->status`, is the one the script returned. `AdmitSound` follows at
  the finalization.
* `TimerInv`: which timer is armed in which phase. `WakeupOrFull` follows.

The proof has one lemma per action, or per family of actions that finalize in the
same way, and puts them together in `NextIInv`. The lemmas on sequences at the
start (`PrefixFacts`, `SuffixFacts`, `SendFacts`, `RecvFacts`, `RestFacts`,
`AnswerFacts`) say what a partial write, a read and a reply do to a queue.

`RatelimitStreamProofs` goes on from there and proves `FaultFailsClosed`, `RejectSound`,
`HeadersReal`, `PooledClean` and that every step is a step of `RatelimitContract`
(`ContractSpec`), for the same constants. For these it does not suffice to know where a
token may be: one has to know what follows it. `Stream` is everything Redis has
answered and the parser has not consumed, whatever part of it is in the buffer, the
socket or the network, and `Base` the place in the dialogue at which it begins, so that
a partial `recv` changes neither (`ArriveR`), and what the parser consumes moves both
by the same number (`CutFacts`). The parts of its invariant `RInv`:

* `GrammarInv`: place by place, `Stream` is a piece of prelude replies followed by one
  script reply. What `process_header` and `process_reply` accept at a place and what
  Redis may send there are then compared once, in `RejectedIsBroken` and `ReplyPlaces`.
* `CountInv`: as long as the peer is there and the script has not answered, what is on
  its way and what is still to be answered make up exactly the dialogue. So a new
  reply continues the stream at its right place (`AnswersR`).
* `FaultInv`: `broken` holds exactly if something the parser will refuse is on its way,
  unless the peer went away and took it along. That a fault is still on its way gives
  `FaultFailsClosed`; that nothing else is refused gives `RejectSound`.
* `LinkInv`: a connection that is not up has answered nothing, the buffer is empty in
  the body phase, and EVAL is on its way only after the fallback.
* `SettledInv`: the properties themselves, with what makes them stay true after the
  answer, when Redis may still serve late commands.

The refinement uses both invariants: a finalization is the contract's `Decide` because
`AdmitSound` and `RejectSound` hold after it, and Redis rules only on a committed
request without a ruling (`QueueInv`).

`RateScriptsProofs` proves `TypeOK` and `StoredWithinLimits` of `RateScripts` for
every set of zones, so for every rate, period, burst and quantity, every mixture of
bursts on one key, and every granularity and length of time (`ZonesAssumption`,
`TimeAssumption`). The two are inductive together: that a level stays within the
capacity needs that what was stored is a natural, and that what is stored is a
natural needs the comparison against the level (`script.c:107`). Each script has
one lemma saying what it may leave in the key (`Leaves`), and only there is its
arithmetic opened; `WithinLess` and `WithinLater` say that taking from a bucket and
the passing of time keep within the limits. This covers the mixtures of bursts that
the failing runs are about: what these break is not the stored value.

`RateEnvelopeProofs` goes on to what was admitted and proves `WithinEnvelope`,
`ExpiryForgetsNothing` and `RepliesInContract`, for the same constants; that the
bursts of a zone have a greatest (`BurstsAssumption`) is because locations are
finitely many. `WithinEnvelope` sums over every stretch of the past, and nothing in
it says why the next call is refused. Its inductive invariant is an `Account` for
each script, which ties what is stored, and how long it will be, to what was
admitted since each tick:

* fixed window (`AccountFixed`): the count is what was admitted since the key was
  set, whose age is the period less the time to live; what one period holds before
  that is a limit at most. Two windows, twice the limit.
* bucket (`AccountBucket`): tokens and what was admitted since `t` are at most the
  capacity and the refill since `t`. That an expired key is a full bucket
  (`BucketFull`) needs the time to live to cover the fill time (`BucketTTLCovers`).
* GCRA (`AccountGcra`): the arrival time is an emission interval past `t` for each
  unit admitted since `t`, and the key lives until it has come.
* sliding window (`AccountSliding`): what was admitted since the window began is at
  most the current count, since the one before began at most both; a previous count
  above zero leaves the current one short of the limit, for some of the previous
  window is always still in sight. Hence less than twice the limit.

TLC checked `Account` before it was proved. There is a lemma per script for a call,
a tick and an expiry; `AccountKept` puts them together. For a bucket the account is
kept, and `WithinEnvelope` and `ExpiryForgetsNothing` are claimed, only if the
locations that share the zone agree on its burst (`OneBurst`), and
`RepliesInContract` only if those of a bucket or of an arrival time do
(`BurstsAgree`). That is not for the proof's convenience: `bug_bucket_expiry` and
`bug_gcra_negative` show both failing without. The windows need no such hypothesis,
nor does the envelope of GCRA.

`RateRetryProofs` proves `PeekAgrees`, `RetryAfterSuffices` and `WindowRetrySuffices`
for every mixture of bursts. These compare two calls on one key and hold of every state
of the right type (`RetryAfterSuffices` needs `StoredWithinLimits` for the key it
leaves). `WaitEarns` is the heart of it: rounded up to whole seconds and multiplied out
again, a wait earns at least what was missing (`CeilCovers`); `SameWindow` is the same
for the shrinking rest of a window, and `SecondMore` for Redis's rounded TTL.

`ReplyParserProofs` proves the four invariants of `ReplyParser` for every set of
replies, of any length and with integers of any size, every cut into reads, and every
`MaxInt` from 9 (`RepliesAssumption`, `MaxIntAssumption`). `TypeOK` is inductive as it
stands, thanks to `GuardIsExact`: the guard, whose division rounds, lets a digit in
exactly when the result fits a signed word.

The others need `ParseInv`, which TLC checked before it was proved. It says for each
state of the switch which byte of the reply comes next (`Place`), that the elements
before it have been read as they were sent (`Settled`) and the counters behind it are
untouched, and that the counter of an element in progress is what the digits so far
are worth (`InDigits`). Hence a byte that has no case, or a digit that does not fit,
can only come from a reply outside the contract (`Goes`); the last LF can only end the
fifth element (`EndStep`); and in every state of a call that goes on there is another
byte (`PlaceInside`), which is `Decides`. There are two lemmas for each place: which
byte stands there, and what the parser does with it.

That rests on what decimal notation is worth: read from the left, the digits of a
number add up to it and to less on the way (`WorthExists`), for every number. It is an
induction over numbers, as is what `Decimal` and `FlattenSeq` compute
(`DecimalEquation`, `FlattenFacts`). The library's induction theorems cannot be
instantiated by these provers; the well-foundedness of the finite sets can be cited,
and gives every set of naturals a least element (`LeastNatural`), from which each of
these inductions follows on a set of its own (`SetInduction`).

`RatelimitPoolProofs` proves the six invariants of `RatelimitPool` for any number of
requests, connections, locations, servers and hosts. The parts of its `IInv`:

* `RestInv`: an idle or unused connection has no command and no reply on it, so a
  request begins on a clean one. This is what closing a connection whose reply was
  not parsed buys.
* `ByInv`: the commands of a connection are all of one request, the one that waits
  or, on a closed connection, one that failed; the script's comes last.
* `OwedInv`: replies to be read and commands to be served are as many as the request
  waits for, all its own, prelude first. `OwnVerdict` follows at `ReadRuling`.
* `RefusalInv`: the error that answers a refused command is among the replies still
  due, or the request has failed. `RefusedNeverDecides` follows.
* `SessionInv`: once the commands ahead of the script are served and none was
  refused, the session is the one the location asks for, also when EVAL follows.
  `PreludeGoverns` follows at `Run`; a closed connection's late commands need it too.
* `SlotInv`: the slot of a location without a variable is its upstream.

`RunsOnce` needs more, `OnceInv`, proved inductive on top of `IInv`: what runs is the
last command of its request, so the request must not have commands on two connections;
and the EVAL that `ReadNoscript` sends is the first run only if a `noscript` still to
be read means that nothing ran, while a `ruling` means that something did. A run finds
neither of the two on the connection, for `OwedInv` counts the replies ahead of it and
they are the prelude's.

`RatelimitConfigProofs` proves the six invariants of `RatelimitConfig` for any depth and
any arguments. Its `IInv` says that levels no merge has touched are as their
directives left them, with no zone resolved and at most one `ratelimit_pass`
(`ZoneInv`, `PassInv`, `OwnInv`), and that zones keep what `ZoneArgsOK` admitted
(`SumInv`). `NearInv` adds, level by level, that a merged one has what the nearest
directives gave: one merge takes it from a level to the next (`NearestStep`).

What stays with TLC: the liveness properties (`EventuallyResponded`, `BodyIsRead`,
`KeepsReading`), which are beyond this prover. Every invariant that a passing run checks
is also a theorem.

## Not modelled

* Script loading and hashing (`script.c:255-414`): reading a file at configuration
  time and a library hash. That a script is readable or not, and that a custom zone
  has its hash when it is served, are in `RatelimitConfig`; that Redis may not have it
  cached is in `RatelimitRequest`.
* RESP encoding of commands (`util.c:53-123`): a length computed and a buffer filled to
  it, no state.
* Values of headers (`util.c:125-157`, `handler.c:754-791`): formatting of numbers;
  whether headers are pushed is modelled. A header whose allocation fails is skipped.
* Sanitizing of log lines (`handler.c:517-554`).
* The http level of a configuration is a parent only. Which server or location a
  request selects, and so which chain of levels, is nginx's.
* Which of `quantity=` and `ratelimit_quantity` comes first matters: behind it,
  `quantity=` overrides, as `docs/DIRECTIVES.md:59-60` says; if it comes first, nginx calls
  `ratelimit_quantity` a duplicate. Both orders are in `RatelimitConfig`; no property
  speaks of refused configurations.
* Splitting and naming of directive arguments, and an argument given twice in one
  directive (the last one counts).
* A target with a port or of no name: the lookup compares ports, and a variable's
  value has none.
* Timing of timeouts against each other and against data: any may come first.
* Rounding of the scripts' fractions to six decimals, and of binary fractions.
* `src/t` and `src/benchmark`: tests, read for the behaviour they pin down.
