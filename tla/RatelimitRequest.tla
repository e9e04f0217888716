------------------------- MODULE RatelimitRequest -------------------------
(***************************************************************************)
(* One client request going through the PREACCESS handler of               *)
(* ngx_http_ratelimit_module: the handler and its re-entry, the upstream   *)
(* round trip to Redis (connect, pipelined AUTH/SELECT/EVALSHA, the EVAL   *)
(* fallback after NOSCRIPT, header and body reads, timers, finalization),  *)
(* and around it the network and Redis as the environment.                 *)
(*                                                                         *)
(* The byte stream is a sequence of tokens: "+", "-", "-NOSCRIPT" are the  *)
(* heads of one-line replies, "LF" their end; "*", "5", "0"/"1", "ctr" are *)
(* an array reply: its type, length, status and four counters.  "x" is     *)
(* anything the contract does not allow at its place.  A reply may be      *)
(* split between any two tokens.                                           *)
(*                                                                         *)
(* An operator named Mutant... is no part of the specification: it is the  *)
(* definition below it with a plausible mistake, kept to see that the      *)
(* properties notice.                                                      *)
(***************************************************************************)
EXTENDS Integers, Sequences

CONSTANTS
    Confs,          \* the locations a request may be served by
    BufSize,        \* ratelimit_buffer_size, in tokens
    MaxRedirects    \* bound on internal redirects (nginx allows 10)

Conf == [zone: BOOLEAN, key: {"empty", "fits", "bad"}, target: BOOLEAN,
         password: BOOLEAN, database: BOOLEAN,
         allow: BOOLEAN, enable_headers: BOOLEAN]

ASSUME ConfsAssumption     == Confs # {} /\ Confs \subseteq Conf
ASSUME BufSizeAssumption   == BufSize \in Nat \ {0}
ASSUME RedirectsAssumption == MaxRedirects \in Nat

VARIABLES
    \* the request and the phase engine
    conf,           \* location configuration in force
    engine,         \* where the phase engine stands
    refs,           \* r->main->count
    done,           \* the one-shot marker variable of r->main
    redirects,      \* internal redirects so far
    emitted,        \* responses handed to the client
    \* ngx_http_ratelimit_ctx_t
    ctx,            \* "none", "live" or "finalized"
    auth_buf,       \* the AUTH command's buffer: "none", "plain", "wiped"
    eval_fallback, prelude_replies,
    pstate,         \* parser position; 3 is reply_parsed
    \* ngx_http_upstream_t
    status,         \* u->state->status
    read_handler, write_handler,
    buf,            \* bytes between buffer.pos and buffer.last
    used,           \* buffer.last - buffer.start
    \* the worker's pending work on the connection
    rd,             \* read side: idle, event due, or inside a handler
    rtimer, wtimer,
    \* the connection
    conn, unsent, inbox, inflight, sock, peer,
    \* Redis
    cached,         \* the script is in Redis's script cache
    session,        \* authentication and database of this connection
    ruling, runs,
    \* history
    open, outage, broken, answer, headers

reqVars   == <<conf, engine, refs, done, redirects, emitted>>
ctxVars   == <<ctx, auth_buf, eval_fallback, prelude_replies, pstate>>
upVars    == <<status, read_handler, write_handler, buf, used>>
evVars    == <<rd, rtimer, wtimer>>
linkVars  == <<conn, unsent, inbox, inflight, sock, peer>>
redisVars == <<cached, session, ruling, runs>>
histVars  == <<open, outage, broken, answer, headers>>
vars == <<reqVars, ctxVars, upVars, evVars, linkVars, redisVars, histVars>>

Commands == {"AUTH", "SELECT", "EVALSHA", "EVAL"}
Tokens   == {"+", "-", "-NOSCRIPT", "LF", "*", "5", "0", "1", "ctr", "x"}

FlagsOK ==
    /\ done \in BOOLEAN /\ eval_fallback \in BOOLEAN
    /\ rtimer \in BOOLEAN /\ wtimer \in BOOLEAN /\ cached \in BOOLEAN
    /\ open \in BOOLEAN /\ outage \in BOOLEAN /\ broken \in BOOLEAN

\* Every variable holds a value of the type its C counterpart has; no buffer
\* overruns, no count leaves its range (ngx_http_ratelimit_ctx_t).
TypeOK ==
    /\ FlagsOK
    /\ conf \in Confs
    /\ engine \in {"preaccess", "await", "passed", "error", "responded"}
    /\ refs \in 0..2 /\ redirects \in 0..MaxRedirects /\ emitted \in Nat
    /\ ctx \in {"none", "live", "finalized"}
    /\ auth_buf \in {"none", "plain", "wiped"}
    /\ prelude_replies \in 0..2 /\ pstate \in 0..3
    /\ status \in {0, 200, 429, 500, 502, 503, 504}
    /\ read_handler \in {"header", "body"}
    /\ write_handler \in {"stock", "dummy", "eval"}
    /\ buf \in Seq(Tokens) /\ used \in 0..BufSize
    /\ rd \in {"quiet", "event", "enter", "loop"}
    /\ conn \in {"none", "connecting", "open", "closed", "pooled"}
    /\ unsent \in Seq(Commands) /\ inbox \in Seq(Commands)
    /\ inflight \in Seq(Tokens) /\ sock \in Seq(Tokens)
    /\ peer \in {"up", "gone"} /\ session \in {"ok", "noauth", "wrongdb"}
    /\ ruling \in {"none", "allow", "limit"} /\ runs \in Nat
    /\ answer \in {"none", "pass", "reject"}
    /\ headers \in {"none", "counters", "zeros"}

Init ==
    /\ conf \in Confs /\ engine = "preaccess"
    /\ refs = 1 /\ done = FALSE /\ redirects = 0 /\ emitted = 0
    /\ ctx = "none" /\ auth_buf = "none" /\ eval_fallback = FALSE
    /\ prelude_replies = 0 /\ pstate = 0
    /\ status = 0 /\ read_handler = "header" /\ write_handler = "stock"
    /\ buf = <<>> /\ used = 0
    /\ rd = "quiet" /\ rtimer = FALSE /\ wtimer = FALSE
    /\ conn = "none" /\ unsent = <<>> /\ inbox = <<>>
    /\ inflight = <<>> /\ sock = <<>> /\ peer = "up"
    /\ cached \in BOOLEAN /\ session = "ok" /\ ruling = "none" /\ runs = 0
    /\ open = FALSE /\ outage = FALSE /\ broken = FALSE
    /\ answer = "none" /\ headers = "none"

-----------------------------------------------------------------------------
(* The handler's verdict and the finalizers.                               *)

\* A faulty reply counted among the transport failures.
MutantTransportStatus == {500, 502, 503, 504}

TransportStatus == {502, 503, 504}

\* Only an explicit 429 rejects.
MutantAdmits(st) == st # 429

\* The handler, re-entered with a finalized ctx, maps u->state->status.
Admits(st) == \/ st = 200
              \/ conf.allow /\ st \in TransportStatus

Verdict(st) ==
    IF Admits(st) THEN engine' = "passed" /\ answer' = "pass"
                  ELSE engine' = "error"  /\ answer' = "reject"

\* The headers pushed without looking at the parser position.
MutantHeadersOut(st, ps) ==
    IF st = 429 \/ (conf.enable_headers /\ st = 200)
    THEN (IF ps = 3 THEN "counters" ELSE "zeros") ELSE headers

\* The X-RateLimit-* headers the finalize_request callback pushes.
HeadersOut(st, ps) ==
    IF ps = 3 /\ (st = 429 \/ (conf.enable_headers /\ st = 200))
    THEN "counters" ELSE headers

\* The buffer forgotten.
MutantWipe(a) == a

Wipe(a) == IF a = "plain" THEN "wiped" ELSE a

\* ngx_http_ratelimit_finalize_request, the callback of both finalizers.
FinalizeRequest(st, ps) ==
    /\ headers' = HeadersOut(st, ps)
    /\ auth_buf' = Wipe(auth_buf)
    /\ ctx' = "finalized"

\* The connection and its timers are gone; what Redis has received stays.
DropLink ==
    /\ conn' = "closed" /\ unsent' = <<>> /\ inflight' = <<>> /\ sock' = <<>>
    /\ UNCHANGED <<inbox, peer>>

\* One recv: as much of the socket's data as the buffer has room for.
Lesser(m, n) == IF m <= n THEN m ELSE n
Fit   == Lesser(BufSize - used, Len(sock))
Chunk == SubSeq(sock, 1, Fit)
Recv  == sock' = SubSeq(sock, Fit + 1, Len(sock))

\* The connection kept as soon as the verdict is known.
MutantReleaseLink(ps) ==
    \/ DropLink
    \/ /\ ps >= 2
       /\ conn' = "pooled" /\ Recv
       /\ UNCHANGED <<unsent, inbox, inflight, peer>>

\* peer.free may keep a connection whose reply was parsed to its end.
ReleaseLink(ps) ==
    \/ DropLink
    \/ /\ ps = 3
       /\ conn' = "pooled" /\ Recv
       /\ UNCHANGED <<unsent, inbox, inflight, peer>>

Quiesce == /\ rd' = "quiet" /\ rtimer' = FALSE /\ wtimer' = FALSE
           /\ buf' = <<>> /\ used' = 0

\* An error status passed on as it is: the first finalize answers the client.
MutantFinalizeSends ==
    /\ refs' = refs - 1
    /\ emitted' = IF status' \in {200, 429} THEN emitted ELSE emitted + 1

\* The reference given back twice.
MutantFinalizeTwice == refs' = refs - 2 /\ emitted' = emitted

\* The first ngx_http_finalize_request only gives back the reference of the
\* round trip: an error is remapped to NGX_DONE before it, so nothing is sent.
FirstFinalize == refs' = refs - 1 /\ emitted' = emitted

\* ngx_http_ratelimit_finalize_upstream_request; rc = 0 is NGX_DONE, and
\* NGX_ERROR is given as the 500 it is remapped to.  st and ps are the
\* status and the parser position the step has reached.
FinalizeUpstream(rc, st, ps) ==
    LET final == IF rc = 0 THEN st ELSE rc
    IN  /\ FinalizeRequest(st, ps)
        /\ ReleaseLink(ps)
        /\ Quiesce
        /\ status' = final /\ pstate' = ps
        /\ FirstFinalize
        /\ Verdict(final)
        /\ UNCHANGED <<conf, done, redirects, eval_fallback, prelude_replies,
                       read_handler, write_handler, redisVars, open>>

\* nginx's own ngx_http_upstream_finalize_request, reached through
\* ngx_http_upstream_next (no retry: next_upstream is 0).  It answers the
\* client itself: the handler is not re-entered, its reference is kept.
StockFinalize(rc) ==
    /\ FinalizeRequest(rc, pstate)
    /\ DropLink
    /\ Quiesce
    /\ status' = rc
    /\ engine' = "error" /\ answer' = "reject" /\ outage' = TRUE
    /\ UNCHANGED <<conf, refs, done, redirects, emitted, eval_fallback,
                   prelude_replies, pstate, read_handler, write_handler,
                   redisVars, open, broken>>

-----------------------------------------------------------------------------
(* The PREACCESS handler, first entry.                                     *)

\* No zone, already checked before a redirect, or an empty key.
HandlerDeclines ==
    /\ engine = "preaccess"
    /\ ~conf.zone \/ done \/ conf.key = "empty"
    /\ engine' = "passed"
    /\ UNCHANGED <<conf, refs, done, redirects, emitted, ctxVars, upVars,
                   evVars, linkVars, redisVars, histVars>>

\* The marker variable not looked at.
MutantChecks == engine = "preaccess" /\ conf.zone /\ conf.key # "empty"

Checks == /\ engine = "preaccess"
          /\ conf.zone /\ ~done /\ conf.key # "empty"

\* The key cannot be evaluated or is longer than 65535 bytes, or there is no
\* memory for the ctx or the prefixed key: refused without committing.
HandlerRefuses ==
    /\ engine = "preaccess" /\ conf.zone /\ ~done
    /\ engine' = "error"
    /\ UNCHANGED <<conf, refs, done, redirects, emitted, ctxVars, upVars,
                   evVars, linkVars, redisVars, histVars>>

\* From here on the request is committed to one check.
Commit == /\ Checks /\ conf.key = "fits"
          /\ done' = TRUE
          /\ open' = conf.allow

AuthBuffer == IF conf.password THEN "plain" ELSE "none"

Prelude == (IF conf.password THEN <<"AUTH">> ELSE <<>>)
           \o (IF conf.database THEN <<"SELECT">> ELSE <<>>)

\* ngx_http_ratelimit_create_request puts the prelude ahead of the script
\* command; on the EVAL fallback it makes that command alone.
Pipeline == Prelude \o <<"EVALSHA">>

\* No memory, or the target of ratelimit_pass does not resolve to an
\* upstream.  The ctx is not registered yet.
SetupFails ==
    /\ Commit
    /\ auth_buf' = AuthBuffer
    /\ engine' = "error" /\ answer' = "reject" /\ broken' = TRUE
    /\ UNCHANGED <<conf, refs, redirects, emitted, ctx, eval_fallback,
                   prelude_replies, pstate, upVars, evVars, linkVars,
                   redisVars, outage, headers>>

\* nginx's request writer hands the first k of cmds to the socket; the last
\* one arms the read timer, a partial write keeps the write timer.
StockSend(cmds, k) ==
    /\ inbox' = inbox \o SubSeq(cmds, 1, k)
    /\ unsent' = SubSeq(cmds, k + 1, Len(cmds))
    /\ IF k = Len(cmds) THEN rtimer' = TRUE /\ wtimer' = FALSE
                        ELSE rtimer' = FALSE /\ wtimer' = TRUE

\* ngx_http_upstream_init: connecting, or already connected (a keepalive
\* connection or a local socket) and sending at once.
Connect(cmds) ==
    \/ /\ conn' = "connecting" /\ unsent' = cmds /\ wtimer' = TRUE
       /\ UNCHANGED <<inbox, rtimer>>
    \/ /\ conn' = "open"
       /\ \E k \in 0..Len(cmds) : StockSend(cmds, k)

HandlerBegins ==
    /\ Commit /\ conf.target
    /\ ctx' = "live" /\ auth_buf' = AuthBuffer
    /\ prelude_replies' = Len(Prelude)
    /\ refs' = refs + 1
    /\ Connect(Pipeline)
    /\ engine' = "await"
    /\ UNCHANGED <<conf, redirects, emitted, eval_fallback, pstate, upVars, rd,
                   inflight, sock, peer, redisVars, outage, broken, answer,
                   headers>>

\* ngx_http_upstream_init is refused at once or finds no live peer (502), or
\* cannot open a socket (500): nginx's own finalization, as in StockFinalize.
HandlerBeginsInVain ==
    /\ Commit /\ conf.target
    /\ ctx' = "finalized" /\ auth_buf' = Wipe(AuthBuffer)
    /\ prelude_replies' = Len(Prelude)
    /\ refs' = refs + 1
    /\ conn' = "closed"
    /\ \/ status' = 502 /\ outage' = TRUE /\ UNCHANGED broken
       \/ status' = 500 /\ broken' = TRUE /\ UNCHANGED outage
    /\ engine' = "error" /\ answer' = "reject"
    /\ UNCHANGED <<conf, redirects, emitted, eval_fallback, pstate,
                   read_handler, write_handler, buf, used, evVars, unsent,
                   inbox, inflight, sock, peer, redisVars, headers>>

-----------------------------------------------------------------------------
(* Reading the reply.                                                      *)

Holds(s, t) == \E i \in 1..Len(s) : s[i] = t

\* ngx_http_ratelimit_consume_prelude_reply eats m "+...LF" lines of b.
IsPrelude(b, m) ==
    /\ 2 * m <= Len(b)
    /\ \A i \in 1..m : b[2*i - 1] = "+" /\ b[2*i] = "LF"

\* A prelude reply that is split is not waited for.
MutantHeaderResult(k, rest) ==
    IF k > 0 THEN "error"
    ELSE IF rest = <<>> THEN "again"
    ELSE CASE rest[1] = "*" -> "ok"
           [] rest[1] \in {"-", "-NOSCRIPT"} ->
                IF ~Holds(rest, "LF") THEN "again"
                ELSE IF rest[1] = "-NOSCRIPT" /\ ~eval_fallback
                     THEN "noscript" ELSE "error"
           [] OTHER -> "invalid"

\* ngx_http_ratelimit_process_header on rest, k prelude replies being due.
HeaderResult(k, rest) ==
    IF k > 0 \/ rest = <<>>
    THEN IF Holds(rest, "LF") THEN "error" ELSE "again"
    ELSE CASE rest[1] = "*" -> "ok"
           [] rest[1] \in {"-", "-NOSCRIPT"} ->
                IF ~Holds(rest, "LF") THEN "again"
                ELSE IF rest[1] = "-NOSCRIPT" /\ ~eval_fallback
                     THEN "noscript" ELSE "error"
           [] OTHER -> "invalid"

\* ngx_http_ratelimit_process_reply: what is accepted at parser position ps,
\* whether s is, where it leads, and the status it sets.
Expected(ps) == CASE ps = 0 -> {"5"} [] ps = 1 -> {"0", "1"} [] ps = 2 -> {"ctr"}

Accepts(ps, s) == \A i \in 1..Lesser(Len(s), 3 - ps) : s[i] \in Expected(ps + i - 1)
Advance(ps, s) == Lesser(ps + Len(s), 3)
StatusOf(d)    == IF d = "0" THEN 200 ELSE 429
StatusAfter(ps, s, st) ==
    IF ps < 2 /\ ps + Len(s) >= 2 THEN StatusOf(s[2 - ps]) ELSE st

Reading(h) == /\ engine = "await" /\ conn = "open"
              /\ read_handler = h /\ rd # "quiet"

\* The peer is gone and everything it sent has been read.
Eof == peer = "gone" /\ inflight = <<>> /\ sock = <<>>

\* The reply's last byte was parsed, or a byte of it was not acceptable.
ReplyEnds(s, st) ==
    \/ /\ Accepts(pstate, s) /\ Advance(pstate, s) = 3
       /\ FinalizeUpstream(0, StatusAfter(pstate, s, st), 3)
    \/ /\ ~Accepts(pstate, s)
       /\ FinalizeUpstream(500, st, pstate)

\* The parser wants more of the reply.
ReplyContinues(s, st) ==
    /\ Accepts(pstate, s) /\ Advance(pstate, s) < 3
    /\ pstate' = Advance(pstate, s)
    /\ status' = StatusAfter(pstate, s, st)
    /\ buf' = <<>>
    /\ UNCHANGED <<reqVars, ctx, auth_buf, eval_fallback, wtimer, conn, unsent,
                   inbox, inflight, peer, redisVars, histVars>>

\* One turn of ngx_http_ratelimit_read_header_handler's loop with data at
\* hand: m prelude replies are eaten, rest is what process_header looks at.
HeaderMore(m, rest) ==
    /\ HeaderResult(prelude_replies - m, rest) = "again"
    /\ used + Fit < BufSize
    /\ Recv
    /\ buf' = rest /\ used' = used + Fit
    /\ prelude_replies' = prelude_replies - m
    /\ rd' = "loop"
    /\ UNCHANGED <<reqVars, ctx, auth_buf, eval_fallback, pstate, status,
                   read_handler, write_handler, rtimer, wtimer, conn, unsent,
                   inbox, inflight, peer, redisVars, histVars>>

HeaderTooBig(m, rest) ==
    /\ HeaderResult(prelude_replies - m, rest) = "again"
    /\ used + Fit = BufSize
    /\ FinalizeUpstream(500, status, pstate)
    /\ broken' = TRUE /\ UNCHANGED outage

HeaderRejected(m, rest) ==
    /\ HeaderResult(prelude_replies - m, rest) \in {"error", "invalid"}
    /\ FinalizeUpstream(500, status, pstate)
    /\ UNCHANGED <<outage, broken>>

\* "*": process_response parses what came with the header, then falls into
\* the body handler; without anything behind the "*" the buffer is reset.
HeaderDone(m, rest) ==
    /\ HeaderResult(prelude_replies - m, rest) = "ok"
    /\ \/ ReplyEnds(Tail(rest), 200) /\ UNCHANGED <<outage, broken>>
       \/ /\ ReplyContinues(Tail(rest), 200)
          /\ Recv
          /\ used' = IF Len(rest) = 1 THEN 0 ELSE used + Fit
          /\ read_handler' = "body" /\ write_handler' = "dummy"
          /\ prelude_replies' = 0
          /\ rd' = "enter"
          /\ UNCHANGED rtimer

\* ngx_http_ratelimit_resend_eval: the buffer and the parser start afresh,
\* EVAL is sent on the same connection, wholly or up to a full socket.
HeaderNoscript(m, rest) ==
    /\ HeaderResult(prelude_replies - m, rest) = "noscript"
    /\ \/ /\ \/ inbox' = Append(inbox, "EVAL") /\ wtimer' = FALSE
                /\ write_handler' = "dummy" /\ unsent' = <<>>
             \/ unsent' = <<"EVAL">> /\ wtimer' = TRUE
                /\ write_handler' = "eval" /\ inbox' = inbox
          /\ Recv
          /\ eval_fallback' = TRUE /\ prelude_replies' = 0 /\ pstate' = 0
          /\ buf' = <<>> /\ used' = 0
          /\ rd' = "loop"
          /\ UNCHANGED <<reqVars, ctx, auth_buf, status, read_handler, rtimer,
                         conn, inflight, peer, redisVars, histVars>>
       \/ /\ peer = "gone"                  \* the write fails
          /\ FinalizeUpstream(502, status, 0)
          /\ outage' = TRUE /\ UNCHANGED broken

ReadHeader ==
    /\ Reading("header") /\ sock # <<>>
    /\ \E m \in 0..prelude_replies :
         LET b == buf \o Chunk
             rest == SubSeq(b, 2 * m + 1, Len(b))
         IN  /\ IsPrelude(b, m)
             /\ m = prelude_replies \/ ~IsPrelude(b, m + 1)
             /\ \/ HeaderMore(m, rest)
                \/ HeaderTooBig(m, rest)
                \/ HeaderRejected(m, rest)
                \/ HeaderDone(m, rest)
                \/ HeaderNoscript(m, rest)

\* NGX_AGAIN: back to the event loop; the header phase leaves its timer alone.
ReadHeaderAgain ==
    /\ Reading("header") /\ sock = <<>> /\ ~Eof
    /\ rd' = "quiet"
    /\ UNCHANGED <<reqVars, ctxVars, upVars, rtimer, wtimer, linkVars,
                   redisVars, histVars>>

ReadHeaderEof ==
    /\ Reading("header") /\ Eof
    /\ FinalizeUpstream(502, status, pstate)
    /\ outage' = TRUE /\ UNCHANGED broken

\* The body handler expects an empty buffer.
MutantHasRoom == used = 0

\* One turn of ngx_http_ratelimit_process_redis_response's loop.  Entered
\* with do_write = 0 the buffer is as it was left; "loop" has reset it.
HasRoom == used < BufSize

ReadBody ==
    /\ Reading("body") /\ HasRoom /\ sock # <<>>
    /\ \/ ReplyEnds(Chunk, status) /\ UNCHANGED <<outage, broken>>
       \/ /\ ReplyContinues(Chunk, status)
          /\ Recv
          /\ used' = 0 /\ rd' = "loop"
          /\ UNCHANGED <<read_handler, write_handler, prelude_replies, rtimer>>

\* The two branches of the timer test swapped.
MutantBodyAgain ==
    /\ Reading("body") /\ HasRoom /\ sock = <<>> /\ ~Eof
    /\ rd' = "quiet" /\ rtimer' = FALSE
    /\ UNCHANGED <<reqVars, ctxVars, upVars, wtimer, linkVars, redisVars,
                   histVars>>

ReadBodyAgain ==
    /\ Reading("body") /\ HasRoom /\ sock = <<>> /\ ~Eof
    /\ rd' = "quiet" /\ rtimer' = TRUE
    /\ UNCHANGED <<reqVars, ctxVars, upVars, wtimer, linkVars, redisVars,
                   histVars>>

\* The end of the stream taken for the end of the reply.
MutantBodyEof ==
    /\ Reading("body") /\ HasRoom /\ Eof
    /\ FinalizeUpstream(0, status, pstate)
    /\ outage' = TRUE /\ UNCHANGED broken

ReadBodyEof ==
    /\ Reading("body") /\ HasRoom /\ Eof
    /\ FinalizeUpstream(502, status, pstate)
    /\ outage' = TRUE /\ UNCHANGED broken

\* No room: nothing is read, and as the socket is still ready its timer goes.
ReadBodyFull ==
    /\ Reading("body") /\ ~HasRoom
    /\ rd' = "quiet" /\ rtimer' = FALSE
    /\ UNCHANGED <<reqVars, ctxVars, upVars, wtimer, linkVars, redisVars,
                   histVars>>

\* An allocation, an event registration or tcp_nodelay fails in a handler.
HandlerFault ==
    /\ engine = "await" /\ conn = "open" /\ rd # "quiet"
    /\ FinalizeUpstream(500, status, pstate)
    /\ broken' = TRUE /\ UNCHANGED outage

-----------------------------------------------------------------------------
(* Writing, and the timers.  They wait while a read handler is running.    *)

WorkerFree == engine = "await" /\ rd \in {"quiet", "event"}

\* nginx's write event: the connection is up, or the socket drains.
StockWrite ==
    /\ WorkerFree /\ write_handler = "stock" /\ unsent # <<>>
    /\ conn \in {"connecting", "open"} /\ conn' = "open"
    /\ \E k \in 0..Len(unsent) :
         /\ conn = "open" => k > 0
         /\ StockSend(unsent, k)
    /\ UNCHANGED <<reqVars, ctxVars, upVars, rd, inflight, sock, peer,
                   redisVars, histVars>>

\* ngx_http_ratelimit_send_eval_handler gets the rest of EVAL out.
EvalWrite ==
    /\ WorkerFree /\ conn = "open" /\ write_handler = "eval"
    /\ inbox' = inbox \o unsent /\ unsent' = <<>>
    /\ wtimer' = FALSE /\ write_handler' = "dummy"
    /\ UNCHANGED <<reqVars, ctxVars, status, read_handler, buf, used, rd,
                   rtimer, conn, inflight, sock, peer, redisVars, histVars>>

EvalWriteFails ==
    /\ WorkerFree /\ conn = "open" /\ write_handler = "eval" /\ peer = "gone"
    /\ FinalizeUpstream(502, status, pstate)
    /\ outage' = TRUE /\ UNCHANGED broken

\* The refusal of a connect is a read event first: the module's handler.
ConnectRefused ==
    /\ WorkerFree /\ conn = "connecting"
    /\ FinalizeUpstream(503, status, pstate)
    /\ outage' = TRUE /\ UNCHANGED broken

ReadTimeout ==
    /\ WorkerFree /\ rtimer
    /\ FinalizeUpstream(504, status, pstate)
    /\ outage' = TRUE /\ UNCHANGED broken

EvalWriteTimeout ==
    /\ WorkerFree /\ wtimer /\ write_handler = "eval"
    /\ FinalizeUpstream(504, status, pstate)
    /\ outage' = TRUE /\ UNCHANGED broken

\* ratelimit_connect_timeout, and ratelimit_send_timeout of the first send.
StockTimeout == WorkerFree /\ wtimer /\ write_handler = "stock" /\ StockFinalize(504)

StockWriteFails ==
    /\ WorkerFree /\ conn = "open" /\ write_handler = "stock"
    /\ unsent # <<>> /\ peer = "gone"
    /\ StockFinalize(502)

-----------------------------------------------------------------------------
(* After the limiter: the later phases answer or redirect internally.      *)

Respond ==
    /\ engine \in {"passed", "error"}
    /\ engine' = "responded"
    /\ emitted' = emitted + 1 /\ refs' = refs - 1
    /\ auth_buf' = IF refs = 1 THEN Wipe(auth_buf) ELSE auth_buf
    /\ UNCHANGED <<conf, done, redirects, ctx, eval_fallback, prelude_replies,
                   pstate, upVars, evVars, linkVars, redisVars, histVars>>

\* error_page, try_files, a rewrite to a named location: r->ctx is wiped and
\* the phases run again in the new location.
Redirect ==
    /\ engine \in {"passed", "error"} /\ redirects < MaxRedirects
    /\ engine' = "preaccess" /\ redirects' = redirects + 1
    /\ conf' \in Confs
    /\ ctx' = "none"
    /\ UNCHANGED <<refs, done, emitted, auth_buf, eval_fallback,
                   prelude_replies, pstate, upVars, evVars, linkVars,
                   redisVars, histVars>>

-----------------------------------------------------------------------------
(* The environment: Redis and the network.                                 *)

\* Redis takes the next command and answers, if there is anyone to answer to.
Answers(reply) ==
    /\ inbox' = Tail(inbox)
    /\ inflight' = IF conn = "open" /\ peer = "up" THEN inflight \o reply
                                                   ELSE inflight
    /\ UNCHANGED <<reqVars, ctxVars, upVars, evVars, conn, unsent, sock, peer,
                   open, outage, answer, headers>>

Serves(cmds) == inbox # <<>> /\ inbox[1] \in cmds

RedisPrelude ==
    /\ Serves({"AUTH", "SELECT"})
    /\ \/ /\ session # "noauth"
          /\ Answers(<<"+", "LF">>)
          /\ UNCHANGED <<session, broken>>
       \/ /\ Answers(<<"-", "LF">>)
          /\ broken' = TRUE
          /\ session' = IF inbox[1] = "AUTH" \/ session = "noauth"
                        THEN "noauth" ELSE "wrongdb"
    /\ UNCHANGED <<cached, ruling, runs>>

RedisNoscript ==
    /\ Serves({"EVALSHA"}) /\ session # "noauth" /\ ~cached
    /\ Answers(<<"-NOSCRIPT", "LF">>)
    /\ UNCHANGED <<redisVars, broken>>

\* The script fails, or its author returns an error of that name to EVAL.
RedisError ==
    /\ Serves({"EVALSHA", "EVAL"})
    /\ \/ Answers(<<"-", "LF">>)
       \/ inbox[1] = "EVAL" /\ Answers(<<"-NOSCRIPT", "LF">>)
    /\ broken' = TRUE
    /\ UNCHANGED redisVars

Malformed(d) == {<<"x", "LF">>, <<"*", "x">>, <<"*", "5", d, "x">>}

RedisRuns ==
    /\ Serves({"EVALSHA", "EVAL"}) /\ session # "noauth"
    /\ inbox[1] = "EVALSHA" => cached
    /\ cached' = TRUE
    /\ ruling' \in {"allow", "limit"} /\ runs' = runs + 1
    /\ LET d == IF ruling' = "allow" THEN "0" ELSE "1"
       IN  \/ Answers(<<"*", "5", d, "ctr">>) /\ UNCHANGED broken
           \/ (\E reply \in Malformed(d) : Answers(reply)) /\ broken' = TRUE
    /\ UNCHANGED session

\* SCRIPT FLUSH, a failover, or another worker loading the script.
ScriptCacheChanges ==
    /\ engine = "await" /\ cached' = ~cached
    /\ UNCHANGED <<reqVars, ctxVars, upVars, evVars, linkVars, session, ruling,
                   runs, histVars>>

\* The network delivers some of what is in flight: a read event.
Arrive ==
    /\ conn = "open"
    /\ \E k \in 1..Len(inflight) :
         /\ sock' = sock \o SubSeq(inflight, 1, k)
         /\ inflight' = SubSeq(inflight, k + 1, Len(inflight))
    /\ rd' = IF rd = "quiet" THEN "event" ELSE rd
    /\ UNCHANGED <<reqVars, ctxVars, upVars, rtimer, wtimer, conn, unsent,
                   inbox, peer, redisVars, histVars>>

\* The connection breaks, perhaps with replies or commands in flight.
PeerDrops ==
    /\ conn = "open" /\ peer = "up"
    /\ peer' = "gone"
    /\ inflight' \in {inflight, <<>>} /\ inbox' \in {inbox, <<>>}
    /\ rd' = IF rd = "quiet" /\ inflight' = <<>> THEN "event" ELSE rd
    /\ UNCHANGED <<reqVars, ctxVars, upVars, rtimer, wtimer, conn, unsent,
                   sock, redisVars, histVars>>

Finished == engine = "responded" /\ UNCHANGED vars

-----------------------------------------------------------------------------
Handler == \/ HandlerDeclines \/ HandlerRefuses \/ SetupFails
           \/ HandlerBegins \/ HandlerBeginsInVain

ReadEvent == \/ ReadHeader \/ ReadHeaderAgain \/ ReadHeaderEof
             \/ ReadBody \/ ReadBodyAgain \/ ReadBodyEof \/ ReadBodyFull
             \/ HandlerFault

WriteEvent == \/ StockWrite \/ EvalWrite \/ EvalWriteFails \/ ConnectRefused
              \/ StockWriteFails

Timeout == ReadTimeout \/ EvalWriteTimeout \/ StockTimeout

Redis == \/ RedisPrelude \/ RedisNoscript \/ RedisError \/ RedisRuns
         \/ ScriptCacheChanges

Network == Arrive \/ PeerDrops

Next == \/ Handler \/ ReadEvent \/ WriteEvent \/ Timeout
        \/ Respond \/ Redirect \/ Redis \/ Network \/ Finished

Spec == Init /\ [][Next]_vars

\* The worker serves its events and timers and goes on with the request;
\* nothing is asked of Redis or of the network.
FairSpec == /\ Spec
            /\ WF_vars(Handler) /\ WF_vars(ReadEvent)
            /\ WF_vars(Timeout) /\ WF_vars(Respond)

-----------------------------------------------------------------------------
(* Properties.                                                             *)

\* The handler lets a checked request through only if the script in Redis
\* said so, or if the location fails open and the transport failed: the
\* statuses a finalization leaves behind never turn a limit, a half-read
\* reply or a stale one into an admission (handler.c:62-126).
AdmitSound == answer = "pass" => ruling = "allow" \/ (open /\ outage)

\* A request whose AUTH, SELECT or script reply was faulty, or that met an
\* internal fault, is let through only by a transport outage under
\* "ratelimit_on_error allow" (handler.c:96-103).
FaultFailsClosed == answer = "pass" /\ broken => open /\ outage

\* The limiter rejects for a reason: the script limited the request, the
\* transport failed, or a reply or the worker was at fault.  With a healthy
\* Redis no split of the reply and no EVAL fallback rejects an allowed one.
RejectSound == answer = "reject" => ruling = "limit" \/ outage \/ broken

\* One client request runs the script at most once, whatever NOSCRIPT
\* fallbacks and internal redirects it goes through (handler.c:128-135).
ChargedOnce == runs = (IF ruling = "none" THEN 0 ELSE 1)

\* Rate headers carry counters of the very ruling that was applied, never
\* the zeros of an unparsed reply (handler.c:753-771).
HeadersReal ==
    headers # "none" =>
        /\ headers = "counters" /\ ~broken
        /\ answer = (IF ruling = "allow" THEN "pass" ELSE "reject")

\* A waiting request is always going to be woken: a timer is armed or a read
\* event is due.  The one exception is a reply buffer filled to its last
\* byte in the header phase (upstream.c:217-256).
WakeupOrFull ==
    engine = "await" /\ rd = "quiet" => rtimer \/ wtimer \/ used = BufSize

\* The round trip holds its own reference on the main request, so nothing
\* frees it under the upstream; afterwards the request is still held until
\* its response (handler.c:252, upstream.c:71-96).
HeldWhileAwaiting ==
    /\ engine = "await" => refs = 2
    /\ engine \in {"preaccess", "passed", "error"} => refs >= 1

\* The client gets one response: the first finalize sends nothing, the
\* phase engine answers after the re-entry (upstream.c:71-86).
SingleResponse == emitted = (IF engine = "responded" THEN 1 ELSE 0)

\* The AUTH command's buffer is zeroed once the round trip is over and, on
\* the early errors that skip it, before the pool is freed (handler.c:795).
PasswordWiped == ctx = "finalized" \/ refs = 0 => auth_buf # "plain"

\* A connection given back to the keepalive pool owes nobody anything: no
\* unread reply, no command Redis has yet to serve (reply.c:280-289).
PooledClean == conn = "pooled" => sock = <<>> /\ inflight = <<>>
                                  /\ inbox = <<>> /\ unsent = <<>>

\* The request behaves as the contract says, step by step.
Contract     == INSTANCE RatelimitContract WITH asked <- done
ContractSpec == Contract!Spec

\* Every request is answered, even if Redis never is (handler.c:28-261); what
\* can hold one up for ever is a buffer filled by the header phase alone.
EventuallyResponded ==
    <>(engine = "responded") \/ <>[](engine = "await" /\ used = BufSize)

\* The bytes of a reply that are there do not stay in the socket: the body
\* handler reads on and finalizes (upstream.c:338-345), unless it was entered
\* with a full buffer.
BodyIsRead ==
    (engine = "await" /\ read_handler = "body" /\ sock # <<>>)
        ~> (sock = <<>> \/ used = BufSize)

\* The body handler "keeps reading until the reply completes"
\* (upstream.c:338-345), whatever the header phase left in the buffer.
KeepsReading ==
    (engine = "await" /\ read_handler = "body" /\ sock # <<>>) ~> (sock = <<>>)

\* docs/DIRECTIVES.md:154-161: with "allow", a request is let through when
\* Redis cannot be reached, timed out or dropped the connection.
OutageFailsOpen == open /\ outage /\ ~broken => answer # "reject"

\* upstream.c:74-77: the extra reference of the round trip is released, so
\* that a request whose response was produced is not held any more.
ReferenceReleased == engine = "responded" => refs = 0
=============================================================================
