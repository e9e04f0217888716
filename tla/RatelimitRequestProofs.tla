---------------------- MODULE RatelimitRequestProofs ----------------------
(***************************************************************************)
(* Proofs about RatelimitRequest for every set of locations, every buffer  *)
(* size and every number of redirects.  IInv is inductive; the theorems at *)
(* the end read the properties off it.                                     *)
(***************************************************************************)
EXTENDS RatelimitRequest, SequenceTheorems, TLAPS

Script(c) == c \in {"EVALSHA", "EVAL"}

\* A script command Redis has yet to serve.
Pending == unsent # <<>> \/ \E i \in 1..Len(inbox) : Script(inbox[i])

\* t occurs nowhere between Redis and the parser.
Absent(t) == ~Holds(buf, t) /\ ~Holds(sock, t) /\ ~Holds(inflight, t)

\* The request holds its references; an unchecked one has touched nothing.
RefsInv ==
    /\ engine = "await" => done /\ refs = 2
    /\ engine \in {"preaccess", "passed", "error"} => refs >= 1
    /\ engine = "responded" => refs <= 1
    /\ ~done => /\ refs = 1 \/ engine = "responded"
                /\ ctx = "none" /\ answer = "none" /\ ruling = "none" /\ pstate = 0
                /\ read_handler = "header" /\ write_handler = "stock"
                /\ unsent = <<>> /\ inbox = <<>> /\ conn = "none"
                /\ buf = <<>> /\ sock = <<>> /\ inflight = <<>>
                /\ used = 0 /\ rtimer = FALSE /\ wtimer = FALSE

\* The script command is the last one of the pipeline; while it is pending
\* nothing of a script's reply is on its way.
QueueInv ==
    /\ \A i \in 1..Len(unsent) : Script(unsent[i]) <=> i = Len(unsent)
    /\ \A i \in 1..Len(inbox) : Script(inbox[i]) => i = Len(inbox) /\ unsent = <<>>
    /\ Pending => /\ ruling = "none" /\ read_handler = "header"
                  /\ Absent("-NOSCRIPT") /\ Absent("*")
    /\ conn = "open" /\ peer = "up" /\ inbox # <<>> => Pending

\* Behind "-NOSCRIPT" there is at most the end of its line.
EndsIn(s, behind) ==
    \A i \in 1..Len(s) : s[i] = "-NOSCRIPT" => i + 1 >= Len(s) + behind

NoscriptInv ==
    /\ EndsIn(buf, Len(sock) + Len(inflight))
    /\ EndsIn(sock, Len(inflight))
    /\ EndsIn(inflight, 0)
    /\ ~Absent("-NOSCRIPT") => ruling = "none"

\* A status digit anywhere on its way, or taken over by the parser, is the
\* one the script returned.
VerdictInv ==
    /\ ~Absent("0") => ruling = "allow"
    /\ ~Absent("1") => ruling = "limit"
    /\ engine = "await" /\ read_handler = "header" => pstate = 0
    /\ engine = "await" /\ pstate >= 2 =>
         \/ status = 200 /\ ruling = "allow"
         \/ status = 429 /\ ruling = "limit"
    /\ engine = "await" => answer = "none" /\ open = conf.allow

\* The timer that wakes the request, phase by phase.
TimerInv ==
    engine = "await" =>
        /\ read_handler = "header" =>
             /\ unsent = <<>> \/ write_handler = "eval" => rtimer
             /\ unsent # <<>> => wtimer
        /\ read_handler = "body" /\ rd = "quiet" => rtimer \/ used = BufSize

IInv == /\ TypeOK /\ RefsInv /\ QueueInv /\ NoscriptInv /\ VerdictInv
        /\ TimerInv
        /\ AdmitSound /\ ChargedOnce /\ SingleResponse /\ PasswordWiped

-----------------------------------------------------------------------------
(* Sequences: the two parts a write or a read cuts one into.               *)

LEMMA PrefixFacts ==
    ASSUME NEW S, NEW s \in Seq(S), NEW k \in 0..Len(s)
    PROVE  /\ SubSeq(s, 1, k) \in Seq(S)
           /\ Len(SubSeq(s, 1, k)) = k
           /\ \A i \in 1..k : SubSeq(s, 1, k)[i] = s[i]
<1>1. k \in Int /\ \A i \in 1..k : s[i] \in S
  BY ElementOfSeq, LenProperties
<1> QED
  BY <1>1, SubSeqProperties

LEMMA SuffixFacts ==
    ASSUME NEW S, NEW s \in Seq(S), NEW k \in 0..Len(s)
    PROVE  /\ SubSeq(s, k + 1, Len(s)) \in Seq(S)
           /\ Len(SubSeq(s, k + 1, Len(s))) = Len(s) - k
           /\ \A i \in 1..(Len(s) - k) : SubSeq(s, k + 1, Len(s))[i] = s[k + i]
<1>1. Len(s) \in Nat /\ \A i \in (k+1)..Len(s) : s[i] \in S
  BY ElementOfSeq, LenProperties
<1> QED
  BY <1>1, SubSeqProperties

-----------------------------------------------------------------------------
(* The initial state, and the steps that end the round trip.               *)

LEMMA InitIInv == Init => IInv
<1> SUFFICES ASSUME Init PROVE IInv
  OBVIOUS
<1> USE ConfsAssumption, BufSizeAssumption, RedirectsAssumption
<1>1. TypeOK
  <2>1. <<>> \in Seq(Tokens) /\ <<>> \in Seq(Commands)
    BY EmptySeq
  <2>2. FlagsOK
    BY DEF Init, FlagsOK
  <2> QED
    BY <2>1, <2>2 DEF Init, TypeOK
<1>2. RefsInv /\ QueueInv /\ NoscriptInv /\ VerdictInv /\ TimerInv
  BY DEF Init, RefsInv, QueueInv, Pending, Absent, Holds, NoscriptInv, EndsIn,
         VerdictInv, TimerInv
<1>3. AdmitSound /\ ChargedOnce /\ SingleResponse /\ PasswordWiped
  BY DEF Init, AdmitSound, ChargedOnce, SingleResponse, PasswordWiped
<1> QED
  BY <1>1, <1>2, <1>3 DEF IInv

LEMMA FlagsKept ==
    ASSUME FlagsOK,
           UNCHANGED <<done, eval_fallback, cached, open>>,
           rtimer' = FALSE, wtimer' = FALSE, outage' \in BOOLEAN, broken' \in BOOLEAN
    PROVE  FlagsOK'
  BY Zenon DEF FlagsOK

LEMMA FlagsSame ==
    ASSUME FlagsOK,
           UNCHANGED <<done, eval_fallback, rtimer, wtimer, cached, open,
                       outage, broken>>
    PROVE  FlagsOK'
  BY Zenon DEF FlagsOK

LEMMA FlagsAfterEval ==
    ASSUME FlagsOK, UNCHANGED <<done, rtimer, cached, open, outage, broken>>,
           eval_fallback' = TRUE, wtimer' = TRUE \/ wtimer' = FALSE
    PROVE  FlagsOK'
  BY Zenon DEF FlagsOK

LEMMA FlagsTimers ==
    ASSUME FlagsOK, NEW P,
           UNCHANGED <<done, eval_fallback, cached, open, outage, broken>>,
           IF P THEN rtimer' = TRUE /\ wtimer' = FALSE
                ELSE rtimer' = FALSE /\ wtimer' = TRUE
    PROVE  FlagsOK'
  BY Zenon DEF FlagsOK

LEMMA FlagsReadTimer ==
    ASSUME FlagsOK,
           UNCHANGED <<done, eval_fallback, wtimer, cached, open, outage, broken>>,
           rtimer' = TRUE \/ rtimer' = FALSE \/ rtimer' = rtimer
    PROVE  FlagsOK'
  BY Zenon DEF FlagsOK

LEMMA FinalizeFlags ==
    ASSUME FlagsOK, NEW rc, NEW st, NEW ps, FinalizeUpstream(rc, st, ps),
           outage' \in BOOLEAN, broken' \in BOOLEAN
    PROVE  FlagsOK'
<1>1. /\ UNCHANGED <<done, eval_fallback, cached, open>>
      /\ rtimer' = FALSE /\ wtimer' = FALSE
  BY DEF FinalizeUpstream, FinalizeRequest, ReleaseLink, DropLink, Recv,
         Quiesce, FirstFinalize, Verdict, redisVars
<1> QED
  BY <1>1, FlagsKept

LEMMA FinalizeInv ==
    ASSUME IInv, engine = "await",
           NEW rc \in {0, 500, 502, 503, 504}, NEW st \in {0, 200, 429, 500, 502, 503, 504},
           NEW ps \in 0..3,
           FinalizeUpstream(rc, st, ps),
           outage' \in BOOLEAN, broken' \in BOOLEAN, outage => outage',
           rc = 0 => (st = 200 /\ ruling = "allow") \/ st = 429,
           rc \in TransportStatus => outage'
    PROVE  IInv'
<1> DEFINE final == IF rc = 0 THEN st ELSE rc
<1> USE DEF FinalizeUpstream, FinalizeRequest, ReleaseLink, DropLink, Recv,
            Quiesce, FirstFinalize, Verdict, redisVars
<1>0. TypeOK /\ RefsInv /\ QueueInv /\ NoscriptInv /\ VerdictInv
  BY DEF IInv
<1>1. /\ sock' \in Seq(Tokens) /\ inflight' \in Seq(Tokens)
      /\ unsent' \in Seq(Commands)
      /\ EndsIn(sock', Len(inflight')) /\ EndsIn(inflight', 0)
      /\ \A t : Absent(t) => Absent(t)'
      /\ unsent' = unsent \/ unsent' = <<>>
  <2>0. /\ <<>> \in Seq(Tokens) /\ <<>> \in Seq(Commands)
        /\ \A t : ~Holds(<<>>, t)
    BY EmptySeq DEF Holds
  <2>1. CASE DropLink
    BY <1>0, <2>0, <2>1 DEF Absent, EndsIn, TypeOK
  <2>2. CASE Recv /\ UNCHANGED <<unsent, inbox, inflight, peer>>
    <3>1. Fit \in 0..Len(sock) /\ Len(sock) \in Nat /\ Len(inflight) \in Nat
      BY <1>0, BufSizeAssumption DEF TypeOK, Fit, Lesser
    <3>2. /\ sock' \in Seq(Tokens) /\ Len(sock') = Len(sock) - Fit
          /\ \A i \in 1..(Len(sock) - Fit) : sock'[i] = sock[Fit + i]
      BY <1>0, <2>2, <3>1, SuffixFacts DEF TypeOK
    <3>3. \A t : Holds(sock', t) => Holds(sock, t)
      BY <3>1, <3>2 DEF Holds
    <3>4. EndsIn(sock', Len(inflight')) /\ EndsIn(inflight', 0)
      BY <1>0, <2>2, <3>1, <3>2 DEF EndsIn, NoscriptInv
    <3> QED
      BY <1>0, <2>0, <2>2, <3>2, <3>3, <3>4 DEF TypeOK, Absent
  <2> QED
    BY <2>1, <2>2
<1>2. TypeOK'
  <2>1. <<>> \in Seq(Tokens)
    BY EmptySeq
  <2>3. FlagsOK'
    <3>1. FlagsOK
      BY <1>0 DEF TypeOK
    <3> HIDE DEF FinalizeUpstream
    <3> QED
      BY <3>1, FinalizeFlags
  <2> QED
    BY <1>0, <1>1, <2>1, <2>3, BufSizeAssumption DEF TypeOK, RefsInv, HeadersOut, Wipe
<1>3. RefsInv' /\ ChargedOnce' /\ SingleResponse' /\ PasswordWiped' /\ TimerInv'
  BY <1>0 DEF TypeOK, IInv, RefsInv, ChargedOnce, SingleResponse,
              PasswordWiped, TimerInv, Wipe
<1>4. QueueInv'
  <2>1. Pending' => Pending
    BY <1>1 DEF Pending
  <2> QED
    BY <1>0, <1>1, <2>1 DEF QueueInv
<1>5. NoscriptInv' /\ VerdictInv'
  <2>1. EndsIn(buf', Len(sock') + Len(inflight'))
    BY DEF EndsIn
  <2> QED
    BY <1>0, <1>1, <2>1 DEF NoscriptInv, VerdictInv
<1>6. AdmitSound'
  BY <1>0 DEF AdmitSound, Admits, TransportStatus, VerdictInv
<1> QED
  BY <1>2, <1>3, <1>4, <1>5, <1>6 DEF IInv

LEMMA LinkKept ==
    ASSUME QueueInv, NoscriptInv, UNCHANGED <<linkVars, buf, ruling, read_handler>>
    PROVE  /\ QueueInv' /\ NoscriptInv'
           /\ \A t : Absent(t)' <=> Absent(t)
<1> USE DEF linkVars
<1>1. \A t : Absent(t)' <=> Absent(t)
  BY DEF Absent, Holds
<1>2. Pending' <=> Pending
  BY DEF Pending
<1>3. QueueInv'
  BY <1>1, <1>2 DEF QueueInv
<1> QED
  BY <1>1, <1>3 DEF NoscriptInv, EndsIn

LEMMA StockFinalizeInv ==
    ASSUME IInv, engine = "await", NEW rc \in TransportStatus, StockFinalize(rc)
    PROVE  IInv'
<1> USE DEF StockFinalize, FinalizeRequest, DropLink, Quiesce, redisVars
<1>0. TypeOK /\ RefsInv /\ QueueInv /\ NoscriptInv /\ VerdictInv
  BY DEF IInv
<1>1. /\ <<>> \in Seq(Tokens) /\ <<>> \in Seq(Commands)
      /\ \A t : Absent(t)'
  BY EmptySeq DEF Absent, Holds
<1>2. TypeOK'
  <2>1. UNCHANGED <<done, eval_fallback, cached, open, broken>>
        /\ rtimer' = FALSE /\ wtimer' = FALSE /\ outage' = TRUE
    OBVIOUS
  <2>2. FlagsOK'
    <3>1. FlagsOK
      BY <1>0 DEF TypeOK
    <3> QED
      BY <2>1, <3>1, Zenon DEF FlagsOK
  <2> QED
    BY <1>0, <1>1, <2>2, BufSizeAssumption
       DEF TypeOK, TransportStatus, HeadersOut, Wipe
<1>3. RefsInv' /\ ChargedOnce' /\ SingleResponse' /\ PasswordWiped' /\ TimerInv'
  BY <1>0 DEF TypeOK, IInv, RefsInv, ChargedOnce, SingleResponse,
              PasswordWiped, TimerInv, Wipe
<1>4. QueueInv' /\ NoscriptInv'
  <2>1. Pending' => Pending
    BY DEF Pending
  <2> QED
    BY <1>0, <1>1, <2>1 DEF QueueInv, NoscriptInv, EndsIn
<1>5. VerdictInv' /\ AdmitSound'
  BY <1>1 DEF VerdictInv, AdmitSound
<1> QED
  BY <1>2, <1>3, <1>4, <1>5 DEF IInv

-----------------------------------------------------------------------------
(* The handler's first entry.                                              *)

\* What a write hands to Redis, and what stays: the script command is last.
LEMMA SendFacts ==
    ASSUME inbox \in Seq(Commands), NEW cmds \in Seq(Commands),
           NEW k \in 0..Len(cmds), StockSend(cmds, k),
           cmds # <<>>,
           \A i \in 1..Len(cmds) : Script(cmds[i]) <=> i = Len(cmds),
           \A i \in 1..Len(inbox) : ~Script(inbox[i])
    PROVE  /\ inbox' \in Seq(Commands) /\ unsent' \in Seq(Commands)
           /\ unsent' = <<>> <=> k = Len(cmds)
           /\ \A i \in 1..Len(unsent') : Script(unsent'[i]) <=> i = Len(unsent')
           /\ \A i \in 1..Len(inbox') :
                Script(inbox'[i]) => i = Len(inbox') /\ unsent' = <<>>
           /\ unsent' # <<>> \/ \E i \in 1..Len(inbox') : Script(inbox'[i])
<1> DEFINE p == SubSeq(cmds, 1, k)
<1>1. /\ p \in Seq(Commands) /\ Len(p) = k /\ \A i \in 1..k : p[i] = cmds[i]
  BY PrefixFacts
<1>2. /\ unsent' \in Seq(Commands) /\ Len(unsent') = Len(cmds) - k
      /\ \A i \in 1..(Len(cmds) - k) : unsent'[i] = cmds[k + i]
  BY SuffixFacts DEF StockSend
<1>3. /\ inbox' \in Seq(Commands) /\ Len(inbox') = Len(inbox) + k
      /\ \A i \in 1..(Len(inbox) + k) :
           inbox'[i] = IF i <= Len(inbox) THEN inbox[i] ELSE cmds[i - Len(inbox)]
  <2>1. inbox' = inbox \o p
    BY DEF StockSend
  <2> HIDE DEF p
  <2>2. /\ inbox \o p \in Seq(Commands) /\ Len(inbox \o p) = Len(inbox) + Len(p)
        /\ \A i \in 1..(Len(inbox) + Len(p)) :
             (inbox \o p)[i] = IF i <= Len(inbox) THEN inbox[i] ELSE p[i - Len(inbox)]
    BY <1>1, ConcatProperties
  <2>3. Len(inbox) \in Nat /\ k \in Nat
    BY LenProperties
  <2>4. \A i \in 1..(Len(inbox) + k) : ~(i <= Len(inbox)) => i - Len(inbox) \in 1..k
    BY <2>3
  <2> QED
    BY <1>1, <2>1, <2>2, <2>4
<1>4. Len(cmds) \in Nat \ {0} /\ Len(inbox) \in Nat
  BY EmptySeq, LenProperties
<1>5. unsent' = <<>> <=> k = Len(cmds)
  <2>1. unsent' = <<>> <=> Len(unsent') = 0
    BY <1>2, EmptySeq
  <2> QED
    BY <1>2, <1>4, <2>1
<1>6. \A i \in 1..Len(unsent') : Script(unsent'[i]) <=> i = Len(unsent')
  BY <1>2, <1>4
<1>7. \A i \in 1..Len(inbox') : Script(inbox'[i]) => i = Len(inbox') /\ k = Len(cmds)
  <2>1. SUFFICES ASSUME NEW i \in 1..Len(inbox'), Script(inbox'[i])
                 PROVE  i = Len(inbox') /\ k = Len(cmds)
    OBVIOUS
  <2>2. ~(i <= Len(inbox)) /\ Script(cmds[i - Len(inbox)])
    BY <1>3, <1>4, <2>1
  <2>3. i - Len(inbox) \in 1..Len(cmds)
    BY <1>3, <1>4, <2>2
  <2> QED
    BY <1>3, <1>4, <2>2, <2>3
<1>8. k = Len(cmds) => Script(inbox'[Len(inbox')])
  BY <1>3, <1>4
<1>9. k = Len(cmds) => Len(inbox') \in 1..Len(inbox')
  BY <1>3, <1>4
<1> QED
  BY <1>2, <1>3, <1>5, <1>6, <1>7, <1>8, <1>9

LEMMA PipelineFacts ==
    LET cmds == Prelude \o <<"EVALSHA">>
    IN  /\ cmds \in Seq(Commands) /\ cmds # <<>>
        /\ \A i \in 1..Len(cmds) : Script(cmds[i]) <=> i = Len(cmds)
        /\ Len(Prelude) \in 0..2
<1> DEFINE auth == IF conf.password THEN <<"AUTH">> ELSE <<>>
           select == IF conf.database THEN <<"SELECT">> ELSE <<>>
           last == <<"EVALSHA">>
<1>1. /\ auth \in Seq(Commands) /\ Len(auth) \in 0..1
      /\ \A i \in 1..Len(auth) : ~Script(auth[i])
  <2>1. <<"AUTH">> \in Seq(Commands) /\ Len(<<"AUTH">>) = 1 /\ <<"AUTH">>[1] = "AUTH"
    BY DEF Commands
  <2>2. auth = <<"AUTH">> \/ auth = <<>>
    OBVIOUS
  <2> HIDE DEF auth
  <2>3. <<>> \in Seq(Commands) /\ Len(<<>>) = 0
    BY EmptySeq
  <2>4. CASE auth = <<"AUTH">>
    BY <2>1, <2>4 DEF Script
  <2>5. CASE auth = <<>>
    BY <2>3, <2>5
  <2> QED
    BY <2>2, <2>4, <2>5
<1>2. /\ select \in Seq(Commands) /\ Len(select) \in 0..1
      /\ \A i \in 1..Len(select) : ~Script(select[i])
  <2>1. /\ <<"SELECT">> \in Seq(Commands) /\ Len(<<"SELECT">>) = 1
        /\ <<"SELECT">>[1] = "SELECT"
    BY DEF Commands
  <2>2. select = <<"SELECT">> \/ select = <<>>
    OBVIOUS
  <2> HIDE DEF select
  <2>3. <<>> \in Seq(Commands) /\ Len(<<>>) = 0
    BY EmptySeq
  <2>4. CASE select = <<"SELECT">>
    BY <2>1, <2>4 DEF Script
  <2>5. CASE select = <<>>
    BY <2>3, <2>5
  <2> QED
    BY <2>2, <2>4, <2>5
<1>3. last \in Seq(Commands) /\ Len(last) = 1 /\ Script(last[1])
  BY DEF Commands, Script
<1> HIDE DEF auth, select, last
<1>4. /\ Prelude \in Seq(Commands) /\ Len(Prelude) = Len(auth) + Len(select)
      /\ \A i \in 1..(Len(auth) + Len(select)) :
           Prelude[i] = IF i <= Len(auth) THEN auth[i] ELSE select[i - Len(auth)]
  <2>1. Prelude = auth \o select
    BY DEF Prelude, auth, select
  <2> QED
    BY <1>1, <1>2, <2>1, ConcatProperties
<1>5. Len(Prelude) \in 0..2 /\ \A i \in 1..Len(Prelude) : ~Script(Prelude[i])
  BY <1>1, <1>2, <1>4
<1>6. /\ Prelude \o last \in Seq(Commands) /\ Len(Prelude \o last) = Len(Prelude) + 1
      /\ \A i \in 1..(Len(Prelude) + 1) :
           (Prelude \o last)[i] = IF i <= Len(Prelude) THEN Prelude[i]
                                                       ELSE last[i - Len(Prelude)]
  <2>1. /\ Prelude \o last \in Seq(Commands)
        /\ Len(Prelude \o last) = Len(Prelude) + Len(last)
        /\ \A i \in 1..(Len(Prelude) + Len(last)) :
             (Prelude \o last)[i] = IF i <= Len(Prelude) THEN Prelude[i]
                                                         ELSE last[i - Len(Prelude)]
    <3>1. Prelude \in Seq(Commands) /\ last \in Seq(Commands)
      BY <1>3, <1>4
    <3> QED
      BY <3>1, ConcatProperties
  <2> QED
    BY <1>3, <2>1
<1>7. \A i \in 1..Len(Prelude \o last) :
        Script((Prelude \o last)[i]) <=> i = Len(Prelude \o last)
  BY <1>3, <1>5, <1>6
<1>8. Prelude \o last # <<>>
  BY <1>5, <1>6, EmptySeq
<1> QED
  BY <1>5, <1>6, <1>7, <1>8 DEF last

LEMMA HandlerQuietInv ==
    ASSUME IInv, HandlerDeclines \/ HandlerRefuses \/ SetupFails
    PROVE  IInv'
<1> USE DEF HandlerDeclines, HandlerRefuses, SetupFails, Commit, Checks,
            ctxVars, upVars, evVars, linkVars, redisVars, histVars
<1>0. TypeOK /\ RefsInv /\ QueueInv /\ NoscriptInv /\ VerdictInv /\ TimerInv
  BY DEF IInv
<1>1. QueueInv' /\ NoscriptInv' /\ \A t : Absent(t)' <=> Absent(t)
  BY <1>0, LinkKept
<1>2. TypeOK'
  <2>1. FlagsOK'
    <3>1. FlagsOK /\ conf.allow \in BOOLEAN
      BY <1>0, ConfsAssumption DEF TypeOK, Conf
    <3>2. CASE HandlerDeclines \/ HandlerRefuses
      <4>1. UNCHANGED <<done, eval_fallback, rtimer, wtimer, cached, open, outage, broken>>
        BY <3>2
      <4> QED
        BY <3>1, <4>1, Zenon DEF FlagsOK
    <3>3. CASE SetupFails
      <4>1. /\ UNCHANGED <<eval_fallback, rtimer, wtimer, cached, outage>>
            /\ done' = TRUE /\ broken' = TRUE /\ open' = conf.allow
        BY <3>3
      <4> QED
        BY <3>1, <4>1, Zenon DEF FlagsOK
    <3> QED
      BY <3>2, <3>3
  <2>2. auth_buf' \in {"none", "plain", "wiped"} /\ engine' \in {"passed", "error"}
        /\ answer' \in {"none", "pass", "reject"}
    BY <1>0 DEF TypeOK, AuthBuffer
  <2>3. UNCHANGED <<conf, refs, redirects, emitted, ctx, prelude_replies, pstate,
                    status, read_handler, write_handler, buf, used, rd, linkVars,
                    session, ruling, runs, headers>>
    OBVIOUS
  <2> QED
    BY <1>0, <2>1, <2>2, <2>3 DEF TypeOK
<1>3. RefsInv' /\ ChargedOnce' /\ SingleResponse' /\ PasswordWiped' /\ TimerInv'
  BY <1>0 DEF TypeOK, IInv, RefsInv, ChargedOnce, SingleResponse,
              PasswordWiped, TimerInv, AuthBuffer
<1>4. VerdictInv' /\ AdmitSound'
  BY <1>0, <1>1 DEF VerdictInv, AdmitSound, IInv, RefsInv
<1> QED
  BY <1>1, <1>2, <1>3, <1>4 DEF IInv

LEMMA HandlerBeginsInv == ASSUME IInv, HandlerBegins PROVE IInv'
<1> DEFINE cmds == Prelude \o <<"EVALSHA">>
<1> USE DEF HandlerBegins, Pipeline, Commit, Checks, upVars, redisVars
<1>0. TypeOK /\ RefsInv /\ QueueInv /\ NoscriptInv /\ VerdictInv /\ TimerInv
  BY DEF IInv
<1> DEFINE Sent ==
      /\ inbox' \in Seq(Commands) /\ unsent' \in Seq(Commands)
      /\ \A i \in 1..Len(unsent') : Script(unsent'[i]) <=> i = Len(unsent')
      /\ \A i \in 1..Len(inbox') : Script(inbox'[i]) => i = Len(inbox') /\ unsent' = <<>>
      /\ Pending'
      /\ unsent' = <<>> => rtimer' = TRUE
      /\ unsent' # <<>> => wtimer' = TRUE
      /\ rtimer' \in BOOLEAN /\ wtimer' \in BOOLEAN
      /\ conn' \in {"connecting", "open"}
<1>1. Sent
  <2>1. /\ cmds \in Seq(Commands) /\ cmds # <<>>
        /\ \A i \in 1..Len(cmds) : Script(cmds[i]) <=> i = Len(cmds)
    BY PipelineFacts
  <2>2. inbox = <<>> /\ rtimer = FALSE /\ inbox \in Seq(Commands)
        /\ \A i \in 1..Len(inbox) : ~Script(inbox[i])
    BY <1>0 DEF RefsInv, TypeOK
  <2> HIDE DEF cmds
  <2>3. CASE conn' = "connecting" /\ unsent' = cmds /\ wtimer' = TRUE /\ UNCHANGED <<inbox, rtimer>>
    BY <2>1, <2>2, <2>3 DEF Pending
  <2>4. ASSUME conn' = "open", NEW k \in 0..Len(cmds), StockSend(cmds, k)
        PROVE  Sent
    <3>1. /\ inbox' \in Seq(Commands) /\ unsent' \in Seq(Commands)
          /\ unsent' = <<>> <=> k = Len(cmds)
          /\ \A i \in 1..Len(unsent') : Script(unsent'[i]) <=> i = Len(unsent')
          /\ \A i \in 1..Len(inbox') :
                Script(inbox'[i]) => i = Len(inbox') /\ unsent' = <<>>
          /\ unsent' # <<>> \/ \E i \in 1..Len(inbox') : Script(inbox'[i])
      BY <2>1, <2>2, <2>4, SendFacts
    <3>2. IF k = Len(cmds) THEN rtimer' = TRUE /\ wtimer' = FALSE
                           ELSE rtimer' = FALSE /\ wtimer' = TRUE
      BY <2>4 DEF StockSend
    <3>3. rtimer' \in BOOLEAN /\ wtimer' \in BOOLEAN
      BY <3>2, Zenon
    <3> QED
      BY <2>4, <3>1, <3>2, <3>3 DEF Pending
  <2>5. \/ conn' = "connecting" /\ unsent' = cmds /\ wtimer' = TRUE /\ UNCHANGED <<inbox, rtimer>>
        \/ conn' = "open" /\ \E k \in 0..Len(cmds) : StockSend(cmds, k)
    BY DEF Connect, cmds
  <2> QED
    BY <2>3, <2>4, <2>5
<1> HIDE DEF cmds
<1>2. Absent("-NOSCRIPT")' /\ Absent("*")' /\ (\A t : Absent(t)' <=> Absent(t)) /\ NoscriptInv'
  BY <1>0 DEF Absent, Holds, RefsInv, NoscriptInv, EndsIn
<1>3. TypeOK'
  <2>1. FlagsOK'
    <3>1. FlagsOK /\ conf.allow \in BOOLEAN
      BY <1>0, ConfsAssumption DEF TypeOK, Conf
    <3>2. /\ UNCHANGED <<eval_fallback, cached, outage, broken>>
          /\ done' = TRUE /\ open' = conf.allow
      OBVIOUS
    <3> QED
      BY <1>1, <3>1, <3>2, Zenon DEF FlagsOK
  <2>2. Len(Prelude) \in 0..2
    BY PipelineFacts
  <2> QED
    BY <1>0, <1>1, <2>1, <2>2 DEF TypeOK, AuthBuffer, RefsInv
<1>4. QueueInv' /\ VerdictInv'
  BY <1>0, <1>1, <1>2 DEF QueueInv, VerdictInv, RefsInv
<1>5. RefsInv' /\ ChargedOnce' /\ SingleResponse' /\ PasswordWiped' /\ AdmitSound'
  BY <1>0 DEF TypeOK, IInv, RefsInv, ChargedOnce, SingleResponse,
              PasswordWiped, AdmitSound
<1>6. TimerInv'
  BY <1>0, <1>1 DEF TimerInv, RefsInv
<1> QED
  BY <1>2, <1>3, <1>4, <1>5, <1>6 DEF IInv

LEMMA HandlerBeginsInVainInv == ASSUME IInv, HandlerBeginsInVain PROVE IInv'
<1> USE DEF HandlerBeginsInVain, Commit, Checks, evVars, redisVars
<1>0. TypeOK /\ RefsInv /\ QueueInv /\ NoscriptInv /\ VerdictInv /\ TimerInv
  BY DEF IInv
<1>1. /\ NoscriptInv' /\ QueueInv' /\ \A t : Absent(t)' <=> Absent(t)
  <2>1. \A t : Absent(t)' <=> Absent(t)
    BY DEF Absent, Holds
  <2>2. Pending' <=> Pending
    BY DEF Pending
  <2> QED
    BY <1>0, <2>1, <2>2 DEF QueueInv, NoscriptInv, EndsIn
<1>2. TypeOK'
  <2>1. FlagsOK'
    <3>1. FlagsOK /\ conf.allow \in BOOLEAN
      BY <1>0, ConfsAssumption DEF TypeOK, Conf
    <3>2. /\ UNCHANGED <<eval_fallback, rtimer, wtimer, cached>>
          /\ done' = TRUE /\ open' = conf.allow
          /\ outage' = TRUE \/ outage' = outage
          /\ broken' = TRUE \/ broken' = broken
      OBVIOUS
    <3> HIDE DEF HandlerBeginsInVain, Commit, Checks, evVars, redisVars
    <3>3. outage' \in BOOLEAN
      BY <3>1, <3>2, Zenon DEF FlagsOK
    <3>4. broken' \in BOOLEAN
      BY <3>1, <3>2, Zenon DEF FlagsOK
    <3> QED
      BY <3>1, <3>2, <3>3, <3>4, Zenon DEF FlagsOK
  <2>2. Len(Prelude) \in 0..2
    BY PipelineFacts
  <2> QED
    BY <1>0, <2>1, <2>2 DEF TypeOK, AuthBuffer, Wipe, RefsInv
<1>3. RefsInv' /\ ChargedOnce' /\ SingleResponse' /\ PasswordWiped' /\ TimerInv'
  BY <1>0 DEF TypeOK, IInv, RefsInv, ChargedOnce, SingleResponse,
              PasswordWiped, TimerInv, AuthBuffer, Wipe
<1>4. VerdictInv' /\ AdmitSound'
  BY <1>0, <1>1 DEF VerdictInv, AdmitSound
<1> QED
  BY <1>1, <1>2, <1>3, <1>4 DEF IInv

-----------------------------------------------------------------------------
(* Reading.                                                                *)

LEMMA RecvFacts ==
    ASSUME TypeOK, NoscriptInv
    PROVE  LET left == SubSeq(sock, Fit + 1, Len(sock))
           IN  /\ Fit \in 0..Len(sock) /\ used + Fit \in 0..BufSize
               /\ Chunk \in Seq(Tokens) /\ Len(Chunk) = Fit
               /\ \A i \in 1..Fit : Chunk[i] = sock[i]
               /\ left \in Seq(Tokens) /\ Len(left) = Len(sock) - Fit
               /\ \A t : Holds(left, t) \/ Holds(Chunk, t) => Holds(sock, t)
               /\ EndsIn(left, Len(inflight))
<1> DEFINE left == SubSeq(sock, Fit + 1, Len(sock))
<1>1. /\ Fit \in 0..Len(sock) /\ used + Fit \in 0..BufSize
      /\ Len(sock) \in Nat /\ Len(inflight) \in Nat
  BY BufSizeAssumption DEF TypeOK, Fit, Lesser
<1>2. sock \in Seq(Tokens)
  BY DEF TypeOK
<1>3. /\ Chunk \in Seq(Tokens) /\ Len(Chunk) = Fit
      /\ \A i \in 1..Fit : Chunk[i] = sock[i]
  BY <1>1, <1>2, PrefixFacts DEF Chunk
<1>4. /\ left \in Seq(Tokens) /\ Len(left) = Len(sock) - Fit
      /\ \A i \in 1..(Len(sock) - Fit) : left[i] = sock[Fit + i]
  BY <1>1, <1>2, SuffixFacts
<1> HIDE DEF left
<1>5. \A t : Holds(left, t) \/ Holds(Chunk, t) => Holds(sock, t)
  BY <1>1, <1>3, <1>4 DEF Holds
<1>6. EndsIn(left, Len(inflight))
  BY <1>1, <1>4 DEF EndsIn, NoscriptInv
<1> QED
  BY <1>1, <1>3, <1>4, <1>5, <1>6 DEF left

\* What the header handler looks at comes from the buffer and the socket.
LEMMA RestFacts ==
    ASSUME TypeOK, NoscriptInv, NEW m \in 0..prelude_replies,
           IsPrelude(buf \o Chunk, m)
    PROVE  LET rest == SubSeq(buf \o Chunk, 2 * m + 1, Len(buf \o Chunk))
           IN  /\ rest \in Seq(Tokens)
               /\ \A t : Holds(rest, t) => Holds(buf, t) \/ Holds(sock, t)
               /\ EndsIn(rest, (Len(sock) - Fit) + Len(inflight))
<1> DEFINE b == buf \o Chunk
           rest == SubSeq(b, 2 * m + 1, Len(b))
<1>1. /\ Fit \in 0..Len(sock) /\ Chunk \in Seq(Tokens) /\ Len(Chunk) = Fit
      /\ \A i \in 1..Fit : Chunk[i] = sock[i]
  BY RecvFacts
<1>2. /\ buf \in Seq(Tokens) /\ Len(buf) \in Nat /\ m \in Nat
      /\ Len(sock) \in Nat /\ Len(inflight) \in Nat
  BY DEF TypeOK
<1>3. /\ b \in Seq(Tokens) /\ Len(b) = Len(buf) + Fit
      /\ \A i \in 1..(Len(buf) + Fit) :
           b[i] = IF i <= Len(buf) THEN buf[i] ELSE Chunk[i - Len(buf)]
  <2>1. /\ b \in Seq(Tokens) /\ Len(b) = Len(buf) + Len(Chunk)
        /\ \A i \in 1..(Len(buf) + Len(Chunk)) :
             b[i] = IF i <= Len(buf) THEN buf[i] ELSE Chunk[i - Len(buf)]
    <3>1. buf \in Seq(Tokens) /\ Chunk \in Seq(Tokens)
      BY <1>1, <1>2
    <3> QED
      BY <3>1, ConcatProperties
  <2> QED
    BY <1>1, <2>1
<1>4. 2 * m <= Len(b)
  BY DEF IsPrelude
<1> HIDE DEF b
<1>5. /\ rest \in Seq(Tokens) /\ Len(rest) = Len(b) - 2 * m
      /\ \A i \in 1..(Len(b) - 2 * m) : rest[i] = b[2 * m + i]
  <2>1. 2 * m \in 0..Len(b)
    BY <1>2, <1>3, <1>4
  <2> QED
    BY <1>3, <2>1, SuffixFacts
<1> HIDE DEF rest
<1>6. \A i \in 1..Len(rest) :
        \/ 2*m + i \in 1..Len(buf) /\ rest[i] = buf[2*m + i]
        \/ 2*m + i - Len(buf) \in 1..Fit /\ rest[i] = sock[2*m + i - Len(buf)]
  <2>1. SUFFICES ASSUME NEW i \in 1..Len(rest)
                 PROVE  \/ 2*m + i \in 1..Len(buf) /\ rest[i] = buf[2*m + i]
                        \/ /\ 2*m + i - Len(buf) \in 1..Fit
                           /\ rest[i] = sock[2*m + i - Len(buf)]
    OBVIOUS
  <2>2. 2*m + i \in 1..(Len(buf) + Fit) /\ rest[i] = b[2*m + i]
    BY <1>1, <1>2, <1>3, <1>4, <1>5
  <2> QED
    BY <1>1, <1>2, <1>3, <2>2
<1>7. \A t : Holds(rest, t) => Holds(buf, t) \/ Holds(sock, t)
  <2>1. SUFFICES ASSUME NEW t, NEW i \in 1..Len(rest), rest[i] = t
                 PROVE  Holds(buf, t) \/ Holds(sock, t)
    BY DEF Holds
  <2>2. CASE 2*m + i \in 1..Len(buf) /\ rest[i] = buf[2*m + i]
    BY <2>1, <2>2 DEF Holds
  <2>3. CASE 2*m + i - Len(buf) \in 1..Fit /\ rest[i] = sock[2*m + i - Len(buf)]
    <3>1. 2*m + i - Len(buf) \in 1..Len(sock)
      BY <1>1, <1>2, <2>3
    <3> QED
      BY <2>1, <2>3, <3>1 DEF Holds
  <2> QED
    BY <1>6, <2>2, <2>3
<1>8. EndsIn(rest, (Len(sock) - Fit) + Len(inflight))
  <2>1. SUFFICES ASSUME NEW i \in 1..Len(rest), rest[i] = "-NOSCRIPT"
                 PROVE  i + 1 >= Len(rest) + ((Len(sock) - Fit) + Len(inflight))
    BY DEF EndsIn
  <2>2. Len(rest) = Len(buf) + Fit - 2*m
    BY <1>1, <1>2, <1>3, <1>5
  <2>3. CASE 2*m + i \in 1..Len(buf) /\ rest[i] = buf[2*m + i]
    <3>1. 2*m + i + 1 >= Len(buf) + (Len(sock) + Len(inflight))
      BY <2>1, <2>3 DEF NoscriptInv, EndsIn
    <3> QED
      BY <1>1, <1>2, <2>2, <3>1
  <2>4. CASE 2*m + i - Len(buf) \in 1..Fit /\ rest[i] = sock[2*m + i - Len(buf)]
    <3> DEFINE j == 2*m + i - Len(buf)
    <3>1. j \in 1..Len(sock) /\ sock[j] = "-NOSCRIPT"
      BY <1>1, <1>2, <2>1, <2>4
    <3> HIDE DEF j
    <3>2. j + 1 >= Len(sock) + Len(inflight)
      BY <3>1 DEF NoscriptInv, EndsIn
    <3>3. 2*m + i - Len(buf) + 1 >= Len(sock) + Len(inflight)
      BY <3>2 DEF j
    <3> QED
      BY <1>1, <1>2, <2>2, <3>3
  <2> QED
    BY <1>6, <2>3, <2>4
<1> QED
  BY <1>5, <1>7, <1>8 DEF rest, b

\* A parse that has passed the status byte holds the script's own status.
LEMMA ParseFacts ==
    ASSUME NEW s \in Seq(Tokens), pstate \in 0..3, Accepts(pstate, s), VerdictInv,
           Holds(s, "0") => ~Absent("0"), Holds(s, "1") => ~Absent("1"),
           NEW st \in {0, 200, 429, 500, 502, 503, 504},
           pstate >= 2 => \/ st = 200 /\ ruling = "allow"
                          \/ st = 429 /\ ruling = "limit"
    PROVE  LET after == StatusAfter(pstate, s, st)
           IN  /\ Advance(pstate, s) \in 0..3
               /\ after \in {0, 200, 429, 500, 502, 503, 504}
               /\ Advance(pstate, s) >= 2 => \/ after = 200 /\ ruling = "allow"
                                             \/ after = 429 /\ ruling = "limit"
<1>1. Len(s) \in Nat
  OBVIOUS
<1>2. CASE pstate < 2 /\ pstate + Len(s) >= 2
  <2>1. 2 - pstate \in 1..Lesser(Len(s), 3 - pstate)
    BY <1>1, <1>2 DEF Lesser
  <2>2. s[2 - pstate] \in Expected(pstate + (2 - pstate) - 1)
    BY <2>1 DEF Accepts
  <2>3. pstate + (2 - pstate) - 1 = 1
    OBVIOUS
  <2>4. s[2 - pstate] \in {"0", "1"}
    BY <2>2, <2>3 DEF Expected
  <2>5. 2 - pstate \in 1..Len(s)
    BY <1>1, <1>2
  <2>6. \/ s[2 - pstate] = "0" /\ ruling = "allow"
        \/ s[2 - pstate] = "1" /\ ruling = "limit"
    BY <2>4, <2>5 DEF Holds, VerdictInv
  <2>7. StatusAfter(pstate, s, st) = StatusOf(s[2 - pstate])
    BY <1>2 DEF StatusAfter
  <2>8. StatusOf("0") = 200 /\ StatusOf("1") = 429
    BY DEF StatusOf
  <2>9. Advance(pstate, s) \in 0..3
    BY <1>1 DEF Advance, Lesser
  <2> QED
    BY <2>6, <2>7, <2>8, <2>9
<1>3. CASE ~(pstate < 2 /\ pstate + Len(s) >= 2)
  BY <1>1, <1>3 DEF StatusAfter, Advance, Lesser
<1> QED
  BY <1>2, <1>3

LEMMA ReplyEndsInv ==
    ASSUME IInv, engine = "await", NEW s \in Seq(Tokens),
           Holds(s, "0") => ~Absent("0"), Holds(s, "1") => ~Absent("1"),
           NEW st \in {0, 200, 429, 500, 502, 503, 504},
           pstate >= 2 => \/ st = 200 /\ ruling = "allow"
                          \/ st = 429 /\ ruling = "limit",
           ReplyEnds(s, st), UNCHANGED <<outage, broken>>
    PROVE  IInv'
<1>1. /\ TypeOK /\ VerdictInv /\ pstate \in 0..3
      /\ outage' \in BOOLEAN /\ broken' \in BOOLEAN
  <2>1. TypeOK /\ VerdictInv
    BY DEF IInv
  <2>2. FlagsOK /\ pstate \in 0..3
    BY <2>1 DEF TypeOK
  <2>3. outage \in BOOLEAN /\ broken \in BOOLEAN
    BY <2>2 DEF FlagsOK
  <2>4. outage' \in BOOLEAN /\ broken' \in BOOLEAN
    BY <2>3
  <2> QED
    BY <2>1, <2>2, <2>4
<1>2. CASE /\ Accepts(pstate, s) /\ Advance(pstate, s) = 3
           /\ FinalizeUpstream(0, StatusAfter(pstate, s, st), 3)
  <2> DEFINE after == StatusAfter(pstate, s, st)
  <2>1. /\ after \in {0, 200, 429, 500, 502, 503, 504}
        /\ Advance(pstate, s) >= 2 => \/ after = 200 /\ ruling = "allow"
                                      \/ after = 429 /\ ruling = "limit"
    BY <1>1, <1>2, ParseFacts
  <2>2. \/ after = 200 /\ ruling = "allow"
        \/ after = 429
    BY <1>2, <2>1
  <2>3. 0 \notin TransportStatus
    BY DEF TransportStatus
  <2> HIDE DEF after
  <2>4. FinalizeUpstream(0, after, 3)
    BY <1>2 DEF after
  <2> QED
    BY <1>1, <2>1, <2>2, <2>3, <2>4, FinalizeInv
<1>3. CASE ~Accepts(pstate, s) /\ FinalizeUpstream(500, st, pstate)
  <2>1. 500 \notin TransportStatus
    BY DEF TransportStatus
  <2> QED
    BY <1>1, <1>3, <2>1, FinalizeInv
<1> QED
  BY <1>2, <1>3 DEF ReplyEnds

\* Reading never adds anything to what is on its way.
LEMMA QueueKept ==
    ASSUME QueueInv, UNCHANGED <<unsent, inbox, conn, peer, ruling>>,
           \A t : Absent(t) => Absent(t)',
           read_handler' = read_handler \/ ~Pending
    PROVE  QueueInv'
<1>1. Pending' <=> Pending
  BY DEF Pending
<1> QED
  BY <1>1 DEF QueueInv

LEMMA ReplyContinuesInv ==
    ASSUME IInv, engine = "await", ~Pending, NEW s \in Seq(Tokens),
           Holds(s, "0") => ~Absent("0"), Holds(s, "1") => ~Absent("1"),
           NEW st \in {0, 200, 429, 500, 502, 503, 504},
           pstate >= 2 => \/ st = 200 /\ ruling = "allow"
                          \/ st = 429 /\ ruling = "limit",
           ReplyContinues(s, st), Recv,
           used' \in 0..BufSize, prelude_replies' \in 0..2,
           write_handler' \in {"stock", "dummy", "eval"},
           read_handler' = "body", rd' \in {"enter", "loop"}, rtimer' = rtimer
    PROVE  IInv'
<1> USE DEF ReplyContinues, reqVars, redisVars, histVars
<1>0. TypeOK /\ RefsInv /\ QueueInv /\ NoscriptInv /\ VerdictInv /\ TimerInv
  BY DEF IInv
<1>1. /\ sock' \in Seq(Tokens) /\ Len(sock') \in Nat
      /\ \A t : Holds(sock', t) => Holds(sock, t)
      /\ EndsIn(sock', Len(inflight))
  BY <1>0, RecvFacts DEF Recv
<1>2. <<>> \in Seq(Tokens) /\ \A t : ~Holds(<<>>, t)
  BY EmptySeq DEF Holds
<1>3. \A t : Absent(t) => Absent(t)'
  BY <1>1, <1>2 DEF Absent
<1>4. /\ pstate' \in 0..3 /\ status' \in {0, 200, 429, 500, 502, 503, 504}
      /\ pstate' >= 2 => \/ status' = 200 /\ ruling = "allow"
                         \/ status' = 429 /\ ruling = "limit"
  <2>1. pstate \in 0..3
    BY <1>0 DEF TypeOK
  <2> QED
    BY <1>0, <2>1, ParseFacts
<1>5. TypeOK'
  <2>1. FlagsOK'
    <3>1. FlagsOK
      BY <1>0 DEF TypeOK
    <3>2. UNCHANGED <<done, eval_fallback, rtimer, wtimer, cached, open, outage, broken>>
      OBVIOUS
    <3> QED
      BY <3>1, <3>2, FlagsSame
  <2> QED
    BY <1>0, <1>1, <1>2, <1>4, <2>1 DEF TypeOK
<1>6. QueueInv'
  BY <1>0, <1>3, QueueKept
<1>7. NoscriptInv'
  <2>1. EndsIn(buf', Len(sock') + Len(inflight')) /\ EndsIn(inflight', 0)
    BY <1>0 DEF EndsIn, NoscriptInv
  <2> QED
    BY <1>0, <1>1, <1>3, <2>1 DEF NoscriptInv
<1>8. VerdictInv'
  BY <1>0, <1>3, <1>4 DEF VerdictInv
<1>9. /\ RefsInv' /\ TimerInv'
      /\ AdmitSound' /\ ChargedOnce' /\ SingleResponse' /\ PasswordWiped'
  BY <1>0 DEF RefsInv, TimerInv, IInv, AdmitSound, ChargedOnce,
              SingleResponse, PasswordWiped
<1> QED
  BY <1>5, <1>6, <1>7, <1>8, <1>9 DEF IInv

LEMMA ReadHeaderInv == ASSUME IInv, ReadHeader PROVE IInv'
<1>0. /\ TypeOK /\ RefsInv /\ QueueInv /\ NoscriptInv /\ VerdictInv /\ TimerInv
      /\ engine = "await" /\ conn = "open" /\ read_handler = "header" /\ pstate = 0
  BY DEF IInv, ReadHeader, Reading, VerdictInv
<1>1. PICK m \in 0..prelude_replies :
        LET b == buf \o Chunk
            rest == SubSeq(b, 2 * m + 1, Len(b))
        IN  /\ IsPrelude(b, m)
            /\ m = prelude_replies \/ ~IsPrelude(b, m + 1)
            /\ \/ HeaderMore(m, rest)
               \/ HeaderTooBig(m, rest)
               \/ HeaderRejected(m, rest)
               \/ HeaderDone(m, rest)
               \/ HeaderNoscript(m, rest)
  BY DEF ReadHeader
<1> DEFINE rest == SubSeq(buf \o Chunk, 2 * m + 1, Len(buf \o Chunk))
           left == SubSeq(sock, Fit + 1, Len(sock))
<1>2. /\ rest \in Seq(Tokens)
      /\ \A t : Holds(rest, t) => Holds(buf, t) \/ Holds(sock, t)
      /\ EndsIn(rest, (Len(sock) - Fit) + Len(inflight))
  BY <1>0, <1>1, RestFacts
<1>3. /\ Fit \in 0..Len(sock) /\ used + Fit \in 0..BufSize
      /\ left \in Seq(Tokens) /\ Len(left) = Len(sock) - Fit
      /\ \A t : Holds(left, t) => Holds(sock, t)
      /\ EndsIn(left, Len(inflight))
  BY <1>0, RecvFacts
<1>4. /\ HeaderMore(m, rest) \/ HeaderTooBig(m, rest) \/ HeaderRejected(m, rest)
         \/ HeaderDone(m, rest) \/ HeaderNoscript(m, rest)
  BY <1>1
<1>5. Recv => sock' = left
  BY DEF Recv
<1>6. prelude_replies \in 0..2 /\ prelude_replies - m \in 0..2
      /\ status \in {0, 200, 429, 500, 502, 503, 504} /\ FlagsOK
  BY <1>0 DEF TypeOK
<1>7. \A t : Absent(t) => ~Holds(rest, t)
  BY <1>2 DEF Absent
<1> HIDE DEF rest, left
<1>8. CASE HeaderMore(m, rest)
  <2> USE DEF HeaderMore, reqVars, redisVars, histVars
  <2>1. \A t : Absent(t) => Absent(t)'
    BY <1>3, <1>5, <1>7, <1>8 DEF Absent
  <2>2. TypeOK'
    <3>1. UNCHANGED <<done, eval_fallback, rtimer, wtimer, cached, open, outage, broken>>
      BY <1>8
    <3>2. FlagsOK'
      BY <1>6, <3>1, FlagsSame
    <3> QED
      BY <1>0, <1>2, <1>3, <1>5, <1>6, <1>8, <3>2 DEF TypeOK
  <2>3. QueueInv'
    BY <1>0, <1>8, <2>1, QueueKept
  <2>4. NoscriptInv'
    <3>1. EndsIn(buf', Len(sock') + Len(inflight')) /\ EndsIn(sock', Len(inflight'))
      BY <1>2, <1>3, <1>5, <1>8
    <3> QED
      BY <1>0, <1>8, <2>1, <3>1 DEF NoscriptInv
  <2>5. VerdictInv'
    BY <1>0, <1>8, <2>1 DEF VerdictInv
  <2>6. /\ RefsInv' /\ TimerInv'
        /\ AdmitSound' /\ ChargedOnce' /\ SingleResponse' /\ PasswordWiped'
    BY <1>0, <1>8 DEF RefsInv, TimerInv, IInv, AdmitSound, ChargedOnce,
                      SingleResponse, PasswordWiped
  <2> QED
    BY <2>2, <2>3, <2>4, <2>5, <2>6 DEF IInv
<1>9. CASE HeaderTooBig(m, rest) \/ HeaderRejected(m, rest)
  <2>1. FinalizeUpstream(500, status, pstate) /\ outage' = outage
        /\ (broken' = TRUE \/ broken' = broken)
    BY <1>9 DEF HeaderTooBig, HeaderRejected
  <2>2. outage' \in BOOLEAN /\ broken' \in BOOLEAN
    BY <1>6, <2>1, Zenon DEF FlagsOK
  <2>3. 500 \notin TransportStatus
    BY DEF TransportStatus
  <2> QED
    BY <1>0, <1>6, <2>1, <2>2, <2>3, FinalizeInv
<1>10. CASE HeaderDone(m, rest)
  <2>1. rest # <<>> /\ rest[1] = "*" /\ 1 \in 1..Len(rest)
    <3>1. HeaderResult(prelude_replies - m, rest) = "ok"
      BY <1>10 DEF HeaderDone
    <3>2. rest # <<>> /\ rest[1] = "*"
      BY <3>1 DEF HeaderResult
    <3> QED
      BY <1>2, <3>2, EmptySeq
  <2>2. ~Absent("*") /\ ~Pending
    BY <1>0, <1>7, <2>1 DEF Holds, QueueInv
  <2>3. /\ Tail(rest) \in Seq(Tokens)
        /\ \A t : Holds(Tail(rest), t) => ~Absent(t)
    <3>1. /\ Tail(rest) \in Seq(Tokens) /\ Len(Tail(rest)) = Len(rest) - 1
          /\ \A i \in 1..Len(Tail(rest)) : Tail(rest)[i] = rest[i + 1]
      BY <1>2, <2>1, HeadTailProperties
    <3>2. \A i \in 1..Len(Tail(rest)) : i + 1 \in 1..Len(rest)
      BY <1>2, <3>1, LenProperties
    <3> QED
      BY <1>7, <3>1, <3>2 DEF Holds
  <2> DEFINE s == Tail(rest)
  <2>a. /\ s \in Seq(Tokens)
        /\ Holds(s, "0") => ~Absent("0")
        /\ Holds(s, "1") => ~Absent("1")
        /\ 200 \in {0, 200, 429, 500, 502, 503, 504}
        /\ ~(pstate >= 2)
    BY <1>0, <2>3
  <2> HIDE DEF s
  <2>4. CASE ReplyEnds(s, 200) /\ UNCHANGED <<outage, broken>>
    BY <1>0, <2>a, <2>4, ReplyEndsInv
  <2>5. CASE /\ ReplyContinues(s, 200)
             /\ Recv
             /\ used' = IF Len(rest) = 1 THEN 0 ELSE used + Fit
             /\ read_handler' = "body" /\ write_handler' = "dummy"
             /\ prelude_replies' = 0
             /\ rd' = "enter"
             /\ UNCHANGED rtimer
    <3>1. used' \in 0..BufSize
      BY <1>3, <2>5, BufSizeAssumption
    <3>2. /\ prelude_replies' \in 0..2 /\ rd' \in {"enter", "loop"} /\ rtimer' = rtimer
          /\ write_handler' \in {"stock", "dummy", "eval"}
      BY <2>5
    <3> QED
      BY <1>0, <2>2, <2>a, <2>5, <3>1, <3>2, ReplyContinuesInv
  <2> QED
    BY <1>10, <2>4, <2>5 DEF HeaderDone, s
<1>11. CASE HeaderNoscript(m, rest)
  <2>1. /\ rest # <<>> /\ rest[1] = "-NOSCRIPT" /\ Holds(rest, "LF")
        /\ eval_fallback = FALSE
    <3>1. HeaderResult(prelude_replies - m, rest) = "noscript"
      BY <1>11 DEF HeaderNoscript
    <3> QED
      BY <3>1 DEF HeaderResult
  <2>2. 1 \in 1..Len(rest) /\ Len(rest) >= 2
    <3>1. PICK i \in 1..Len(rest) : rest[i] = "LF"
      BY <2>1 DEF Holds
    <3>2. Len(rest) \in Nat /\ i # 1
      BY <1>2, <2>1, <3>1
    <3> QED
      BY <3>1, <3>2
  <2>3. ruling = "none" /\ ~Pending
    BY <1>0, <1>7, <2>1, <2>2 DEF Holds, NoscriptInv, QueueInv
  <2>4. Len(left) = 0 /\ Len(inflight) = 0
    <3>1. 2 >= Len(rest) + ((Len(sock) - Fit) + Len(inflight))
      BY <1>2, <2>1, <2>2 DEF EndsIn
    <3>2. Len(rest) \in Nat /\ Len(left) \in Nat /\ Len(inflight) \in Nat
      BY <1>0, <1>2, <1>3, LenProperties DEF TypeOK
    <3> QED
      BY <1>3, <2>2, <3>1, <3>2
  <2>5. unsent = <<>> /\ \A i \in 1..Len(inbox) : ~Script(inbox[i])
    BY <2>3 DEF Pending
  <2>6. CASE peer = "gone" /\ FinalizeUpstream(502, status, 0)
             /\ outage' = TRUE /\ UNCHANGED broken
    <3>1. broken' \in BOOLEAN /\ outage' \in BOOLEAN
      BY <1>6, <2>6, Zenon DEF FlagsOK
    <3> QED
      BY <1>0, <1>6, <2>6, <3>1, FinalizeInv
  <2>7. CASE ~(peer = "gone" /\ FinalizeUpstream(502, status, 0)
               /\ outage' = TRUE /\ UNCHANGED broken)
    <3> USE DEF reqVars, redisVars, histVars
    <3>1. /\ \/ inbox' = Append(inbox, "EVAL") /\ wtimer' = FALSE
                /\ write_handler' = "dummy" /\ unsent' = <<>>
             \/ unsent' = <<"EVAL">> /\ wtimer' = TRUE
                /\ write_handler' = "eval" /\ inbox' = inbox
          /\ sock' = left
          /\ eval_fallback' = TRUE /\ prelude_replies' = 0 /\ pstate' = 0
          /\ buf' = <<>> /\ used' = 0 /\ rd' = "loop"
          /\ UNCHANGED <<reqVars, ctx, auth_buf, status, read_handler, rtimer,
                         conn, inflight, peer, redisVars, histVars>>
      BY <1>5, <1>11, <2>7 DEF HeaderNoscript
    <3>2. /\ inbox' \in Seq(Commands) /\ unsent' \in Seq(Commands) /\ Pending'
          /\ \A i \in 1..Len(unsent') : Script(unsent'[i]) <=> i = Len(unsent')
          /\ \A i \in 1..Len(inbox') : Script(inbox'[i]) => i = Len(inbox') /\ unsent' = <<>>
      <4>0. inbox \in Seq(Commands) /\ "EVAL" \in Commands /\ Script("EVAL")
            /\ <<>> \in Seq(Commands) /\ Len(<<>>) = 0
        BY <1>0, EmptySeq DEF TypeOK, Commands, Script
      <4>1. CASE inbox' = Append(inbox, "EVAL") /\ unsent' = <<>>
        <5>1. /\ inbox' \in Seq(Commands) /\ Len(inbox') = Len(inbox) + 1
              /\ \A i \in 1..Len(inbox) : inbox'[i] = inbox[i]
              /\ inbox'[Len(inbox) + 1] = "EVAL"
          BY <4>0, <4>1, AppendProperties
        <5>2. Len(inbox) \in Nat
          BY <4>0, LenProperties
        <5>3. \A i \in 1..Len(inbox') : i = Len(inbox') \/ i \in 1..Len(inbox)
          BY <5>1, <5>2
        <5>4. Len(inbox') \in 1..Len(inbox') /\ Script(inbox'[Len(inbox')])
          BY <4>0, <5>1, <5>2
        <5> QED
          BY <2>5, <4>0, <4>1, <5>1, <5>3, <5>4 DEF Pending
      <4>2. CASE unsent' = <<"EVAL">> /\ inbox' = inbox
        <5>1. /\ <<"EVAL">> \in Seq(Commands) /\ Len(<<"EVAL">>) = 1
              /\ <<"EVAL">>[1] = "EVAL"
          BY <4>0
        <5>2. <<"EVAL">> # <<>>
          BY <5>1, <4>0
        <5> QED
          BY <2>5, <4>0, <4>2, <5>1, <5>2 DEF Pending
      <4> QED
        BY <3>1, <4>1, <4>2
    <3>3. /\ <<>> \in Seq(Tokens) /\ \A t : Absent(t)'
          /\ EndsIn(buf', Len(sock') + Len(inflight')) /\ EndsIn(sock', Len(inflight'))
          /\ EndsIn(inflight', 0)
      <4>1. <<>> \in Seq(Tokens) /\ Len(<<>>) = 0
        BY EmptySeq
      <4> QED
        BY <2>4, <3>1, <4>1 DEF Absent, Holds, EndsIn
    <3>4. TypeOK'
      <4>1. FlagsOK'
        <5>1. /\ UNCHANGED <<done, rtimer, cached, open, outage, broken>>
              /\ eval_fallback' = TRUE /\ (wtimer' = TRUE \/ wtimer' = FALSE)
          BY <3>1
        <5> HIDE DEF reqVars, redisVars, histVars
        <5> QED
          BY <1>6, <5>1, FlagsAfterEval
      <4> QED
        BY <1>0, <1>3, <3>1, <3>2, <3>3, <4>1, BufSizeAssumption DEF TypeOK
    <3>5. QueueInv' /\ NoscriptInv'
      BY <1>0, <2>3, <3>1, <3>2, <3>3 DEF QueueInv, NoscriptInv
    <3>6. VerdictInv'
      BY <1>0, <3>1, <3>3 DEF VerdictInv
    <3>7. TimerInv'
      BY <1>0, <2>5, <3>1 DEF TimerInv
    <3>8. /\ RefsInv'
          /\ AdmitSound' /\ ChargedOnce' /\ SingleResponse' /\ PasswordWiped'
      BY <1>0, <3>1 DEF RefsInv, IInv, AdmitSound, ChargedOnce,
                        SingleResponse, PasswordWiped
    <3> QED
      BY <3>4, <3>5, <3>6, <3>7, <3>8 DEF IInv
  <2> QED
    BY <2>6, <2>7
<1> QED
  BY <1>4, <1>8, <1>9, <1>10, <1>11

LEMMA ReadBodyInv == ASSUME IInv, ReadBody PROVE IInv'
<1>0. /\ TypeOK /\ QueueInv /\ NoscriptInv /\ VerdictInv
      /\ engine = "await" /\ read_handler = "body"
  BY DEF IInv, ReadBody, Reading
<1>1. /\ Chunk \in Seq(Tokens)
      /\ \A t : Holds(Chunk, t) => ~Absent(t)
  BY <1>0, RecvFacts DEF Absent
<1>2. /\ Holds(Chunk, "0") => ~Absent("0")
      /\ Holds(Chunk, "1") => ~Absent("1")
      /\ status \in {0, 200, 429, 500, 502, 503, 504}
      /\ pstate >= 2 => \/ status = 200 /\ ruling = "allow"
                        \/ status = 429 /\ ruling = "limit"
  BY <1>0, <1>1 DEF VerdictInv, TypeOK
<1>3. CASE ReplyEnds(Chunk, status) /\ UNCHANGED <<outage, broken>>
  BY <1>0, <1>1, <1>2, <1>3, ReplyEndsInv
<1>4. CASE /\ ReplyContinues(Chunk, status) /\ Recv
           /\ used' = 0 /\ rd' = "loop"
           /\ UNCHANGED <<read_handler, write_handler, prelude_replies, rtimer>>
  <2>1. ~Pending
    BY <1>0 DEF QueueInv
  <2>2. /\ used' \in 0..BufSize /\ prelude_replies' \in 0..2
        /\ write_handler' \in {"stock", "dummy", "eval"}
        /\ read_handler' = "body" /\ rd' \in {"enter", "loop"} /\ rtimer' = rtimer
    BY <1>0, <1>4, BufSizeAssumption DEF TypeOK
  <2> QED
    BY <1>0, <1>1, <1>2, <1>4, <2>1, <2>2, ReplyContinuesInv
<1> QED
  BY <1>3, <1>4 DEF ReadBody

\* The read handlers give the worker back.
LEMMA ReadPausesInv ==
    ASSUME IInv, ReadHeaderAgain \/ ReadBodyAgain \/ ReadBodyFull
    PROVE  IInv'
<1> USE DEF ReadHeaderAgain, ReadBodyAgain, ReadBodyFull, Reading, HasRoom,
            reqVars, ctxVars, upVars, linkVars, redisVars, histVars
<1>0. TypeOK /\ RefsInv /\ QueueInv /\ NoscriptInv /\ VerdictInv /\ TimerInv
  BY DEF IInv
<1>1. /\ UNCHANGED <<reqVars, ctxVars, upVars, linkVars, redisVars, histVars>>
      /\ rd' = "quiet" /\ wtimer' = wtimer
      /\ rtimer' = TRUE \/ rtimer' = FALSE \/ rtimer' = rtimer
  OBVIOUS
<1>2. QueueInv' /\ NoscriptInv' /\ \A t : Absent(t)' <=> Absent(t)
  BY <1>0, <1>1, LinkKept
<1>3. TypeOK'
  <2>1. UNCHANGED <<done, eval_fallback, wtimer, cached, open, outage, broken>>
    BY <1>1
  <2>2. FlagsOK'
    BY <1>0, <1>1, <2>1, FlagsReadTimer DEF TypeOK
  <2> QED
    BY <1>0, <1>1, <2>2 DEF TypeOK
<1>4. VerdictInv' /\ AdmitSound'
  BY <1>0, <1>1, <1>2 DEF VerdictInv, AdmitSound, IInv
<1>5. RefsInv' /\ ChargedOnce' /\ SingleResponse' /\ PasswordWiped'
  BY <1>0, <1>1 DEF RefsInv, IInv, ChargedOnce, SingleResponse, PasswordWiped
<1>6. TimerInv'
  BY <1>0, BufSizeAssumption DEF TimerInv, TypeOK
<1> QED
  BY <1>2, <1>3, <1>4, <1>5, <1>6 DEF IInv

\* Every step that gives the round trip up with a failure.
LEMMA FailureInv ==
    ASSUME IInv,
           \/ ReadHeaderEof \/ ReadBodyEof \/ HandlerFault
           \/ EvalWriteFails \/ ConnectRefused \/ ReadTimeout \/ EvalWriteTimeout
    PROVE  IInv'
<1>1. TypeOK /\ status \in {0, 200, 429, 500, 502, 503, 504} /\ pstate \in 0..3 /\ FlagsOK
  BY DEF IInv, TypeOK
<1>2. /\ engine = "await"
      /\ \/ /\ \E rc \in TransportStatus : FinalizeUpstream(rc, status, pstate)
            /\ outage' = TRUE /\ broken' = broken
         \/ /\ FinalizeUpstream(500, status, pstate)
            /\ broken' = TRUE /\ outage' = outage
  BY DEF ReadHeaderEof, ReadBodyEof, HandlerFault, EvalWriteFails,
         ConnectRefused, ReadTimeout, EvalWriteTimeout, Reading, WorkerFree,
         TransportStatus
<1>3. outage' \in BOOLEAN /\ broken' \in BOOLEAN
  BY <1>1, <1>2, Zenon DEF FlagsOK
<1>4. CASE /\ FinalizeUpstream(500, status, pstate)
           /\ broken' = TRUE /\ outage' = outage
  <2>1. 500 \notin TransportStatus
    BY DEF TransportStatus
  <2> QED
    BY <1>1, <1>2, <1>3, <1>4, <2>1, FinalizeInv
<1>5. ASSUME NEW rc \in TransportStatus, FinalizeUpstream(rc, status, pstate),
             outage' = TRUE, broken' = broken
      PROVE  IInv'
  <2>1. rc \in {0, 500, 502, 503, 504} /\ rc # 0
    BY <1>5 DEF TransportStatus
  <2> QED
    BY <1>1, <1>2, <1>3, <1>5, <2>1, FinalizeInv
<1> QED
  BY <1>2, <1>4, <1>5

-----------------------------------------------------------------------------
(* Writing.                                                                *)

LEMMA StockWriteInv == ASSUME IInv, StockWrite PROVE IInv'
<1> USE DEF reqVars, ctxVars, upVars, redisVars, histVars
<1>0. /\ TypeOK /\ RefsInv /\ QueueInv /\ NoscriptInv /\ VerdictInv /\ TimerInv
      /\ engine = "await" /\ unsent # <<>> /\ conn' = "open"
      /\ UNCHANGED <<reqVars, ctxVars, upVars, rd, inflight, sock, peer,
                     redisVars, histVars>>
  BY DEF IInv, StockWrite, WorkerFree
<1>1. PICK k \in 0..Len(unsent) : StockSend(unsent, k)
  BY DEF StockWrite
<1>2. /\ Pending /\ inbox \in Seq(Commands) /\ unsent \in Seq(Commands)
      /\ \A i \in 1..Len(inbox) : ~Script(inbox[i])
      /\ \A i \in 1..Len(unsent) : Script(unsent[i]) <=> i = Len(unsent)
  BY <1>0 DEF Pending, QueueInv, TypeOK
<1>3. /\ inbox' \in Seq(Commands) /\ unsent' \in Seq(Commands)
      /\ \A i \in 1..Len(unsent') : Script(unsent'[i]) <=> i = Len(unsent')
      /\ \A i \in 1..Len(inbox') : Script(inbox'[i]) => i = Len(inbox') /\ unsent' = <<>>
      /\ Pending'
      /\ unsent' = <<>> => k = Len(unsent)
      /\ k = Len(unsent) => unsent' = <<>>
  BY <1>0, <1>1, <1>2, SendFacts DEF Pending
<1>4. IF k = Len(unsent) THEN rtimer' = TRUE /\ wtimer' = FALSE
                         ELSE rtimer' = FALSE /\ wtimer' = TRUE
  BY <1>1 DEF StockSend
<1>5. /\ \A t : Absent(t)' <=> Absent(t)
      /\ NoscriptInv'
  BY <1>0 DEF Absent, Holds, NoscriptInv, EndsIn
<1>6. TypeOK'
  <2>1. UNCHANGED <<done, eval_fallback, cached, open, outage, broken>>
    BY <1>0
  <2>2. FlagsOK
    BY <1>0 DEF TypeOK
  <2>3. FlagsOK'
    BY <1>4, <2>1, <2>2, FlagsTimers
  <2> QED
    BY <1>0, <1>3, <2>3 DEF TypeOK
<1>7. QueueInv' /\ VerdictInv'
  BY <1>0, <1>2, <1>3, <1>5 DEF QueueInv, VerdictInv
<1>8. TimerInv'
  <2>1. read_handler = "header" /\ write_handler' = "stock"
    BY <1>0, <1>2 DEF QueueInv, StockWrite
  <2> QED
    BY <1>0, <1>3, <1>4, <2>1 DEF TimerInv
<1>9. RefsInv' /\ AdmitSound' /\ ChargedOnce' /\ SingleResponse' /\ PasswordWiped'
  BY <1>0 DEF RefsInv, IInv, AdmitSound, ChargedOnce, SingleResponse, PasswordWiped
<1> QED
  BY <1>5, <1>6, <1>7, <1>8, <1>9 DEF IInv

LEMMA EvalWriteInv == ASSUME IInv, EvalWrite PROVE IInv'
<1> USE DEF EvalWrite, reqVars, ctxVars, redisVars, histVars
<1>0. /\ TypeOK /\ RefsInv /\ QueueInv /\ NoscriptInv /\ VerdictInv /\ TimerInv
      /\ engine = "await" /\ write_handler = "eval"
      /\ inbox \in Seq(Commands) /\ unsent \in Seq(Commands)
  BY DEF IInv, TypeOK, WorkerFree
<1>1. /\ inbox' \in Seq(Commands) /\ Len(inbox') = Len(inbox) + Len(unsent)
      /\ \A i \in 1..(Len(inbox) + Len(unsent)) :
           inbox'[i] = IF i <= Len(inbox) THEN inbox[i] ELSE unsent[i - Len(inbox)]
  <2>1. /\ inbox \o unsent \in Seq(Commands)
        /\ Len(inbox \o unsent) = Len(inbox) + Len(unsent)
        /\ \A i \in 1..(Len(inbox) + Len(unsent)) :
             (inbox \o unsent)[i] = IF i <= Len(inbox) THEN inbox[i]
                                                      ELSE unsent[i - Len(inbox)]
    BY <1>0, ConcatProperties
  <2> QED
    BY <2>1
<1>2. /\ Len(inbox) \in Nat /\ Len(unsent) \in Nat
      /\ unsent = <<>> <=> Len(unsent) = 0
      /\ <<>> \in Seq(Commands) /\ Len(<<>>) = 0
  BY <1>0, EmptySeq, LenProperties
<1>3. \A i \in 1..Len(inbox') :
        \/ i \in 1..Len(inbox) /\ inbox'[i] = inbox[i]
        \/ i - Len(inbox) \in 1..Len(unsent) /\ inbox'[i] = unsent[i - Len(inbox)]
  BY <1>1, <1>2
<1>4. \A i \in 1..Len(inbox') : Script(inbox'[i]) => i = Len(inbox')
  BY <1>0, <1>1, <1>2, <1>3 DEF QueueInv
<1>5. Pending' <=> Pending
  <2>1. Pending' => Pending
    BY <1>2, <1>3 DEF Pending
  <2>2. CASE unsent = <<>>
    BY <1>1, <1>2, <2>2 DEF Pending
  <2>3. CASE unsent # <<>>
    <3>1. Len(inbox') \in 1..Len(inbox') /\ Script(inbox'[Len(inbox')])
      BY <1>0, <1>1, <1>2, <2>3 DEF QueueInv
    <3> QED
      BY <2>3, <3>1 DEF Pending
  <2> QED
    BY <2>1, <2>2, <2>3
<1>6. /\ \A t : Absent(t)' <=> Absent(t)
      /\ NoscriptInv'
  BY <1>0 DEF Absent, Holds, NoscriptInv, EndsIn
<1>7. TypeOK'
  <2>1. /\ UNCHANGED <<done, eval_fallback, rtimer, cached, open, outage, broken>>
        /\ wtimer' = FALSE /\ FlagsOK
    BY <1>0 DEF TypeOK
  <2>2. FlagsOK'
    BY <2>1, Zenon DEF FlagsOK
  <2> QED
    BY <1>0, <1>1, <1>2, <2>2 DEF TypeOK
<1>8. QueueInv'
  <2>1. /\ unsent' = <<>> /\ inbox' # <<>> => unsent # <<>> \/ inbox # <<>>
    BY <1>1, <1>2, EmptySeq
  <2> QED
    BY <1>0, <1>2, <1>4, <1>5, <1>6, <2>1 DEF QueueInv, Pending
<1>9. VerdictInv' /\ TimerInv'
  BY <1>0, <1>6 DEF VerdictInv, TimerInv
<1>10. RefsInv' /\ AdmitSound' /\ ChargedOnce' /\ SingleResponse' /\ PasswordWiped'
  BY <1>0 DEF RefsInv, IInv, AdmitSound, ChargedOnce, SingleResponse, PasswordWiped
<1> QED
  BY <1>6, <1>7, <1>8, <1>9, <1>10 DEF IInv

LEMMA StockFailsInv ==
    ASSUME IInv, StockTimeout \/ StockWriteFails
    PROVE  IInv'
<1>1. engine = "await" /\ 504 \in TransportStatus /\ 502 \in TransportStatus
  BY DEF StockTimeout, StockWriteFails, WorkerFree, TransportStatus
<1> QED
  BY <1>1, StockFinalizeInv DEF StockTimeout, StockWriteFails

-----------------------------------------------------------------------------
(* After the limiter.                                                      *)

LEMMA RespondInv == ASSUME IInv, Respond PROVE IInv'
<1> USE DEF Respond, ctxVars, upVars, evVars, linkVars, redisVars, histVars
<1>0. TypeOK /\ RefsInv /\ QueueInv /\ NoscriptInv /\ VerdictInv /\ TimerInv
  BY DEF IInv
<1>1. QueueInv' /\ NoscriptInv' /\ \A t : Absent(t)' <=> Absent(t)
  BY <1>0, LinkKept
<1>2. TypeOK'
  <2>1. FlagsOK'
    <3>1. FlagsOK
      BY <1>0 DEF TypeOK
    <3>2. UNCHANGED <<done, eval_fallback, rtimer, wtimer, cached, open, outage, broken>>
      OBVIOUS
    <3> QED
      BY <3>1, <3>2, FlagsSame
  <2> QED
    BY <1>0, <2>1 DEF TypeOK, RefsInv, Wipe
<1>3. RefsInv' /\ ChargedOnce' /\ SingleResponse' /\ PasswordWiped' /\ TimerInv'
  BY <1>0 DEF TypeOK, IInv, RefsInv, ChargedOnce, SingleResponse,
              PasswordWiped, TimerInv, Wipe
<1>4. VerdictInv' /\ AdmitSound'
  BY <1>0, <1>1 DEF VerdictInv, AdmitSound, IInv
<1> QED
  BY <1>1, <1>2, <1>3, <1>4 DEF IInv

LEMMA RedirectInv == ASSUME IInv, Redirect PROVE IInv'
<1> USE DEF Redirect, upVars, evVars, linkVars, redisVars, histVars
<1>0. TypeOK /\ RefsInv /\ QueueInv /\ NoscriptInv /\ VerdictInv /\ TimerInv
  BY DEF IInv
<1>1. QueueInv' /\ NoscriptInv' /\ \A t : Absent(t)' <=> Absent(t)
  BY <1>0, LinkKept
<1>2. TypeOK'
  <2>1. FlagsOK'
    <3>1. FlagsOK
      BY <1>0 DEF TypeOK
    <3>2. UNCHANGED <<done, eval_fallback, rtimer, wtimer, cached, open, outage, broken>>
      OBVIOUS
    <3> QED
      BY <3>1, <3>2, FlagsSame
  <2> QED
    BY <1>0, <2>1, RedirectsAssumption DEF TypeOK
<1>3. RefsInv' /\ ChargedOnce' /\ SingleResponse' /\ PasswordWiped' /\ TimerInv'
  BY <1>0 DEF TypeOK, IInv, RefsInv, ChargedOnce, SingleResponse,
              PasswordWiped, TimerInv
<1>4. VerdictInv' /\ AdmitSound'
  BY <1>0, <1>1 DEF VerdictInv, AdmitSound, IInv
<1> QED
  BY <1>1, <1>2, <1>3, <1>4 DEF IInv
-----------------------------------------------------------------------------
(* Redis and the network.                                                  *)

\* Redis takes the head of its queue; its reply, if it can go anywhere,
\* follows what was in flight.
LEMMA AnswerFacts ==
    ASSUME TypeOK, QueueInv, NoscriptInv, inbox # <<>>,
           NEW reply \in Seq(Tokens), Answers(reply)
    PROVE  /\ inbox' \in Seq(Commands) /\ inflight' \in Seq(Tokens)
           /\ \A i \in 1..Len(inbox') :
                Script(inbox'[i]) => i = Len(inbox') /\ unsent' = <<>>
           /\ \A t : Absent(t) /\ ~Holds(reply, t) => Absent(t)'
           /\ Script(inbox[1]) => Pending /\ ~Pending' /\ inbox' = <<>>
           /\ ~Script(inbox[1]) => (Pending' <=> Pending)
           /\ EndsIn(reply, 0) =>
                /\ EndsIn(buf', Len(sock') + Len(inflight'))
                /\ EndsIn(sock', Len(inflight')) /\ EndsIn(inflight', 0)
<1> USE DEF upVars
<1>a. /\ inbox' = Tail(inbox)
      /\ UNCHANGED <<upVars, unsent, sock, conn, peer, rtimer>>
      /\ \/ inflight' = inflight
         \/ conn = "open" /\ peer = "up" /\ inflight' = inflight \o reply
  BY DEF Answers, evVars
<1>1. /\ inbox \in Seq(Commands) /\ inflight \in Seq(Tokens) /\ sock \in Seq(Tokens)
      /\ Len(inbox) \in Nat \ {0} /\ Len(inflight) \in Nat /\ Len(reply) \in Nat
      /\ Len(sock) \in Nat
  BY EmptySeq, LenProperties DEF TypeOK
<1>2. /\ inbox' \in Seq(Commands) /\ Len(inbox') = Len(inbox) - 1
      /\ \A i \in 1..Len(inbox') : inbox'[i] = inbox[i + 1]
  <2>1. /\ Tail(inbox) \in Seq(Commands) /\ Len(Tail(inbox)) = Len(inbox) - 1
        /\ \A i \in 1..Len(Tail(inbox)) : Tail(inbox)[i] = inbox[i + 1]
    BY <1>1, HeadTailProperties
  <2> QED
    BY <1>a, <2>1
<1>3. \A i \in 1..Len(inbox) : i = 1 \/ i - 1 \in 1..Len(inbox')
  BY <1>1, <1>2
<1>4. \A i \in 1..Len(inbox') : i + 1 \in 1..Len(inbox)
  BY <1>1, <1>2
<1>5. \A i \in 1..Len(inbox') : Script(inbox'[i]) => i = Len(inbox') /\ unsent' = <<>>
  <2>1. SUFFICES ASSUME NEW i \in 1..Len(inbox'), Script(inbox'[i])
                 PROVE  i = Len(inbox') /\ unsent' = <<>>
    OBVIOUS
  <2>2. i + 1 \in 1..Len(inbox) /\ Script(inbox[i + 1])
    BY <1>2, <1>4, <2>1
  <2>3. i + 1 = Len(inbox) /\ unsent = <<>>
    BY <2>2 DEF QueueInv
  <2>4. Len(inbox') \in Nat /\ i \in Nat
    BY <1>1, <1>2
  <2>5. i = Len(inbox')
    BY <1>1, <1>2, <2>3, <2>4
  <2>6. unsent' = unsent
    BY <1>a
  <2> QED
    BY <2>3, <2>5, <2>6
<1>6. Script(inbox[1]) => Pending /\ ~Pending' /\ inbox' = <<>>
  <2>1. SUFFICES ASSUME Script(inbox[1]) PROVE Pending /\ ~Pending' /\ inbox' = <<>>
    OBVIOUS
  <2>2. 1 \in 1..Len(inbox)
    BY <1>1
  <2>3. Len(inbox) = 1 /\ unsent = <<>>
    BY <2>1, <2>2 DEF QueueInv
  <2>4. Len(inbox') = 0
    BY <1>2, <2>3
  <2> QED
    BY <1>a, <1>2, <2>1, <2>2, <2>3, <2>4, EmptySeq DEF Pending
<1>7. ~Script(inbox[1]) => (Pending' <=> Pending)
  <2>1. SUFFICES ASSUME ~Script(inbox[1]) PROVE Pending' <=> Pending
    OBVIOUS
  <2>2. ASSUME NEW i \in 1..Len(inbox), Script(inbox[i])
        PROVE  \E j \in 1..Len(inbox') : Script(inbox'[j])
    <3>1. i # 1 /\ i - 1 \in 1..Len(inbox')
      BY <1>3, <2>1, <2>2
    <3>2. inbox'[i - 1] = inbox[(i - 1) + 1]
      BY <1>2, <3>1
    <3>3. (i - 1) + 1 = i
      OBVIOUS
    <3> QED
      BY <2>2, <3>1, <3>2, <3>3
  <2>3. Pending => Pending'
    BY <1>a, <2>2 DEF Pending
  <2>4. Pending' => Pending
    BY <1>a, <1>2, <1>4 DEF Pending
  <2> QED
    BY <2>3, <2>4
<1>8. CASE inflight' = inflight
  <2>1. \A t : Absent(t)' <=> Absent(t)
    BY <1>a, <1>8 DEF Absent, Holds
  <2>2. /\ EndsIn(buf', Len(sock') + Len(inflight'))
        /\ EndsIn(sock', Len(inflight')) /\ EndsIn(inflight', 0)
    BY <1>a, <1>8 DEF NoscriptInv, EndsIn
  <2> QED
    BY <1>1, <1>2, <1>5, <1>6, <1>7, <1>8, <2>1, <2>2
<1>9. CASE conn = "open" /\ peer = "up" /\ inflight' = inflight \o reply
  <2>1. /\ inflight' \in Seq(Tokens) /\ Len(inflight') = Len(inflight) + Len(reply)
        /\ \A i \in 1..(Len(inflight) + Len(reply)) :
             inflight'[i] = IF i <= Len(inflight) THEN inflight[i]
                                                  ELSE reply[i - Len(inflight)]
    <3>1. /\ inflight \o reply \in Seq(Tokens)
          /\ Len(inflight \o reply) = Len(inflight) + Len(reply)
          /\ \A i \in 1..(Len(inflight) + Len(reply)) :
               (inflight \o reply)[i] = IF i <= Len(inflight) THEN inflight[i]
                                                  ELSE reply[i - Len(inflight)]
      BY <1>1, ConcatProperties
    <3> QED
      BY <1>9, <3>1
  <2>2. \A i \in 1..Len(inflight') :
          \/ i \in 1..Len(inflight) /\ inflight'[i] = inflight[i]
          \/ i - Len(inflight) \in 1..Len(reply) /\ inflight'[i] = reply[i - Len(inflight)]
    <3>1. \A i \in 1..(Len(inflight) + Len(reply)) :
            i \in 1..Len(inflight) \/ (~(i <= Len(inflight)) /\ i - Len(inflight) \in 1..Len(reply))
      BY <1>1
    <3>2. \A i \in 1..Len(inflight) : i <= Len(inflight)
      BY <1>1
    <3> QED
      BY <2>1, <3>1, <3>2
  <2>3. \A t : Holds(inflight', t) => Holds(inflight, t) \/ Holds(reply, t)
    BY <2>2 DEF Holds
  <2>4. \A t : Absent(t) /\ ~Holds(reply, t) => Absent(t)'
    <3>1. \A t : (Holds(buf, t)' <=> Holds(buf, t)) /\ (Holds(sock, t)' <=> Holds(sock, t))
                 /\ (Holds(inflight, t)' <=> Holds(inflight', t))
      BY <1>a DEF Holds
    <3> QED
      BY <2>3, <3>1 DEF Absent
  <2>5. Absent("-NOSCRIPT")
    BY <1>9 DEF QueueInv
  <2>6. EndsIn(buf', Len(sock') + Len(inflight')) /\ EndsIn(sock', Len(inflight'))
    BY <1>a, <2>5 DEF Absent, Holds, EndsIn
  <2>7. ASSUME EndsIn(reply, 0) PROVE EndsIn(inflight', 0)
    <3>1. SUFFICES ASSUME NEW i \in 1..Len(inflight'), inflight'[i] = "-NOSCRIPT"
                   PROVE  i + 1 >= Len(inflight') + 0
      BY DEF EndsIn
    <3>2. i - Len(inflight) \in 1..Len(reply) /\ reply[i - Len(inflight)] = "-NOSCRIPT"
      BY <2>2, <2>5, <3>1 DEF Absent, Holds
    <3>3. i - Len(inflight) + 1 >= Len(reply) + 0
      BY <2>7, <3>2 DEF EndsIn
    <3>4. i \in Int
      OBVIOUS
    <3> QED
      BY <1>1, <2>1, <3>3, <3>4
  <2> QED
    BY <1>1, <1>2, <1>5, <1>6, <1>7, <2>1, <2>4, <2>6, <2>7
<1> QED
  BY <1>a, <1>8, <1>9

LEMMA AnswersInv ==
    ASSUME IInv, inbox # <<>>, NEW reply \in Seq(Tokens), Answers(reply),
           EndsIn(reply, 0),
           cached' \in BOOLEAN, broken' \in BOOLEAN,
           session' \in {"ok", "noauth", "wrongdb"},
           \/ /\ UNCHANGED <<ruling, runs>>
              /\ \A t \in {"0", "1", "*"} : ~Holds(reply, t)
              /\ Holds(reply, "-NOSCRIPT") => Script(inbox[1])
           \/ /\ Script(inbox[1])
              /\ ruling' \in {"allow", "limit"} /\ runs' = runs + 1
              /\ ~Holds(reply, "-NOSCRIPT")
              /\ Holds(reply, "0") => ruling' = "allow"
              /\ Holds(reply, "1") => ruling' = "limit"
    PROVE  IInv'
<1>0. /\ TypeOK /\ RefsInv /\ QueueInv /\ NoscriptInv /\ VerdictInv /\ TimerInv
      /\ AdmitSound /\ ChargedOnce /\ SingleResponse /\ PasswordWiped
  BY DEF IInv
<1>1. /\ inbox' \in Seq(Commands) /\ inflight' \in Seq(Tokens)
      /\ \A i \in 1..Len(inbox') :
           Script(inbox'[i]) => i = Len(inbox') /\ unsent' = <<>>
      /\ \A t : Absent(t) /\ ~Holds(reply, t) => Absent(t)'
      /\ Script(inbox[1]) => Pending /\ ~Pending' /\ inbox' = <<>>
      /\ ~Script(inbox[1]) => (Pending' <=> Pending)
      /\ EndsIn(buf', Len(sock') + Len(inflight'))
      /\ EndsIn(sock', Len(inflight')) /\ EndsIn(inflight', 0)
  BY <1>0, AnswerFacts
<1>2. /\ UNCHANGED <<reqVars, ctxVars, upVars, evVars, conn, unsent, sock, peer,
                     open, outage, answer, headers>>
      /\ inbox' = Tail(inbox)
  BY DEF Answers
<1> USE DEF reqVars, ctxVars, upVars, evVars
<1>3. Script(inbox[1]) => ruling = "none" /\ Absent("0") /\ Absent("1")
  BY <1>0, <1>1 DEF QueueInv, VerdictInv
<1>4. TypeOK'
  <2>1. /\ UNCHANGED <<done, eval_fallback, rtimer, wtimer, open, outage>>
        /\ cached' \in BOOLEAN /\ broken' \in BOOLEAN /\ FlagsOK
    BY <1>0, <1>2 DEF TypeOK
  <2>2. FlagsOK'
    BY <2>1, Zenon DEF FlagsOK
  <2> QED
    BY <1>0, <1>1, <1>2, <2>2 DEF TypeOK
<1>5. QueueInv'
  <2>1. Pending' => Pending /\ ~Holds(reply, "-NOSCRIPT") /\ ~Holds(reply, "*")
                    /\ ruling' = ruling
    BY <1>1
  <2>2. Pending' => Absent("-NOSCRIPT")' /\ Absent("*")'
    BY <1>0, <1>1, <2>1 DEF QueueInv
  <2> QED
    BY <1>0, <1>1, <1>2, <2>1, <2>2 DEF QueueInv
<1>6. NoscriptInv'
  <2>1. ~Absent("-NOSCRIPT")' => ruling' = "none"
    BY <1>0, <1>1, <1>3 DEF NoscriptInv, QueueInv
  <2> QED
    BY <1>1, <2>1 DEF NoscriptInv
<1>7. VerdictInv'
  <2>1. ~Absent("0")' => ruling' = "allow"
    BY <1>0, <1>1, <1>3 DEF VerdictInv
  <2>2. ~Absent("1")' => ruling' = "limit"
    BY <1>0, <1>1, <1>3 DEF VerdictInv
  <2> QED
    BY <1>0, <1>2, <1>3, <2>1, <2>2 DEF VerdictInv
<1>8. RefsInv' /\ TimerInv' /\ SingleResponse' /\ PasswordWiped'
  BY <1>0, <1>2 DEF RefsInv, TimerInv, SingleResponse, PasswordWiped
<1>9. AdmitSound' /\ ChargedOnce'
  BY <1>0, <1>2, <1>3 DEF AdmitSound, ChargedOnce
<1> QED
  BY <1>4, <1>5, <1>6, <1>7, <1>8, <1>9 DEF IInv

\* The replies Redis has to give, as sequences.
LEMMA ReplyShapes ==
    /\ \A s \in {<<"+", "LF">>, <<"-", "LF">>, <<"-NOSCRIPT", "LF">>} :
         /\ s \in Seq(Tokens) /\ EndsIn(s, 0)
         /\ \A t \in {"0", "1", "*"} : ~Holds(s, t)
    /\ ~Holds(<<"+", "LF">>, "-NOSCRIPT") /\ ~Holds(<<"-", "LF">>, "-NOSCRIPT")
    /\ \A d \in {"0", "1"} : \A s \in {<<"*", "5", d, "ctr">>} \cup Malformed(d) :
         /\ s \in Seq(Tokens) /\ EndsIn(s, 0)
         /\ ~Holds(s, "-NOSCRIPT")
         /\ \A e \in {"0", "1"} : Holds(s, e) => e = d
<1>1. ASSUME NEW s \in {<<"+", "LF">>, <<"-", "LF">>, <<"-NOSCRIPT", "LF">>}
      PROVE  /\ s \in Seq(Tokens) /\ EndsIn(s, 0)
             /\ \A t \in {"0", "1", "*"} : ~Holds(s, t)
             /\ s # <<"-NOSCRIPT", "LF">> => ~Holds(s, "-NOSCRIPT")
  <2>1. CASE s = <<"+", "LF">>
    BY <2>1 DEF Tokens, EndsIn, Holds
  <2>2. CASE s = <<"-", "LF">>
    BY <2>2 DEF Tokens, EndsIn, Holds
  <2>3. CASE s = <<"-NOSCRIPT", "LF">>
    BY <2>3 DEF Tokens, EndsIn, Holds
  <2> QED
    BY <1>1, <2>1, <2>2, <2>3
<1>2. /\ <<"+", "LF">> # <<"-NOSCRIPT", "LF">>
      /\ <<"-", "LF">> # <<"-NOSCRIPT", "LF">>
  OBVIOUS
<1>3. ASSUME NEW d \in {"0", "1"}, NEW s \in {<<"*", "5", d, "ctr">>} \cup Malformed(d)
      PROVE  /\ s \in Seq(Tokens) /\ EndsIn(s, 0)
             /\ ~Holds(s, "-NOSCRIPT")
             /\ \A e \in {"0", "1"} : Holds(s, e) => e = d
  <2>1. CASE s = <<"*", "5", d, "ctr">>
    BY <2>1 DEF Tokens, EndsIn, Holds
  <2>2. CASE s = <<"x", "LF">>
    BY <2>2 DEF Tokens, EndsIn, Holds
  <2>3. CASE s = <<"*", "x">>
    BY <2>3 DEF Tokens, EndsIn, Holds
  <2>4. CASE s = <<"*", "5", d, "x">>
    BY <2>4 DEF Tokens, EndsIn, Holds
  <2> QED
    BY <1>3, <2>1, <2>2, <2>3, <2>4 DEF Malformed
<1> QED
  BY <1>1, <1>2, <1>3

LEMMA RedisInv ==
    ASSUME IInv, RedisPrelude \/ RedisNoscript \/ RedisError \/ RedisRuns
    PROVE  IInv'
<1>0. /\ inbox # <<>> /\ cached \in BOOLEAN /\ broken \in BOOLEAN
      /\ session \in {"ok", "noauth", "wrongdb"}
  <2>1. FlagsOK /\ session \in {"ok", "noauth", "wrongdb"}
    BY DEF IInv, TypeOK
  <2>2. cached \in BOOLEAN /\ broken \in BOOLEAN
    BY <2>1, Zenon DEF FlagsOK
  <2>3. inbox # <<>>
    BY DEF RedisPrelude, RedisNoscript, RedisError, RedisRuns, Serves
  <2> QED
    BY <2>1, <2>2, <2>3
<1> DEFINE Flags == cached' \in BOOLEAN /\ broken' \in BOOLEAN
<1> DEFINE line == {<<"+", "LF">>, <<"-", "LF">>, <<"-NOSCRIPT", "LF">>}
<1>1. CASE RedisPrelude
  <2>1. /\ \E r \in {<<"+", "LF">>, <<"-", "LF">>} : Answers(r)
        /\ cached' = cached /\ (broken' = broken \/ broken' = TRUE)
        /\ session' \in {"ok", "noauth", "wrongdb"} /\ UNCHANGED <<ruling, runs>>
    BY <1>0, <1>1 DEF RedisPrelude
  <2>2. PICK r \in {<<"+", "LF">>, <<"-", "LF">>} : Answers(r)
    BY <2>1
  <2>3. Flags
    BY <1>0, <2>1, Zenon
  <2>4. /\ r \in Seq(Tokens) /\ EndsIn(r, 0) /\ ~Holds(r, "-NOSCRIPT")
        /\ \A t \in {"0", "1", "*"} : ~Holds(r, t)
    BY ReplyShapes
  <2> QED
    BY <1>0, <2>1, <2>2, <2>3, <2>4, AnswersInv
<1>2. CASE RedisNoscript \/ RedisError
  <2>1. /\ \E r \in line : Answers(r)
        /\ (broken' = broken \/ broken' = TRUE)
        /\ UNCHANGED redisVars /\ Script(inbox[1])
    BY <1>2 DEF RedisNoscript, RedisError, Serves, Script
  <2>2. PICK r \in line : Answers(r)
    BY <2>1
  <2>3. UNCHANGED <<cached, session, ruling, runs>>
    BY <2>1 DEF redisVars
  <2>4. Flags
    BY <1>0, <2>1, <2>3, Zenon
  <2>5. /\ r \in Seq(Tokens) /\ EndsIn(r, 0)
        /\ \A t \in {"0", "1", "*"} : ~Holds(r, t)
    BY ReplyShapes
  <2> QED
    BY <1>0, <2>1, <2>2, <2>3, <2>4, <2>5, AnswersInv
<1>3. CASE RedisRuns
  <2> DEFINE d == IF ruling' = "allow" THEN "0" ELSE "1"
  <2>1. /\ \E r \in {<<"*", "5", d, "ctr">>} \cup Malformed(d) : Answers(r)
        /\ cached' = TRUE /\ (broken' = broken \/ broken' = TRUE)
        /\ session' = session /\ Script(inbox[1])
        /\ ruling' \in {"allow", "limit"} /\ runs' = runs + 1
    BY <1>3 DEF RedisRuns, Serves, Script
  <2>2. PICK r \in {<<"*", "5", d, "ctr">>} \cup Malformed(d) : Answers(r)
    BY <2>1
  <2>3. Flags
    BY <1>0, <2>1, Zenon
  <2>4. d \in {"0", "1"} /\ (d = "0" => ruling' = "allow") /\ (d = "1" => ruling' = "limit")
    BY <2>1
  <2> HIDE DEF d
  <2>5. /\ r \in Seq(Tokens) /\ EndsIn(r, 0)
        /\ ~Holds(r, "-NOSCRIPT")
        /\ \A e \in {"0", "1"} : Holds(r, e) => e = d
    BY <2>4, ReplyShapes
  <2>6. /\ Holds(r, "0") => ruling' = "allow"
        /\ Holds(r, "1") => ruling' = "limit"
    BY <2>4, <2>5
  <2> QED
    BY <1>0, <2>1, <2>2, <2>3, <2>5, <2>6, AnswersInv
<1> QED
  BY <1>1, <1>2, <1>3

LEMMA ScriptCacheInv == ASSUME IInv, ScriptCacheChanges PROVE IInv'
<1> USE DEF ScriptCacheChanges, reqVars, ctxVars, upVars, evVars, linkVars, histVars
<1>0. TypeOK /\ RefsInv /\ QueueInv /\ NoscriptInv /\ VerdictInv /\ TimerInv
  BY DEF IInv
<1>1. QueueInv' /\ NoscriptInv' /\ \A t : Absent(t)' <=> Absent(t)
  BY <1>0, LinkKept
<1>2. TypeOK'
  <2>1. /\ UNCHANGED <<done, eval_fallback, rtimer, wtimer, open, outage, broken>>
        /\ cached' = ~cached /\ FlagsOK
    BY <1>0 DEF TypeOK
  <2>2. FlagsOK'
    BY <2>1, Zenon DEF FlagsOK
  <2> QED
    BY <1>0, <2>2 DEF TypeOK
<1>3. RefsInv' /\ ChargedOnce' /\ SingleResponse' /\ PasswordWiped' /\ TimerInv'
  BY <1>0 DEF IInv, RefsInv, ChargedOnce, SingleResponse, PasswordWiped, TimerInv
<1>4. VerdictInv' /\ AdmitSound'
  BY <1>0, <1>1 DEF VerdictInv, AdmitSound, IInv
<1> QED
  BY <1>1, <1>2, <1>3, <1>4 DEF IInv

LEMMA ArriveInv == ASSUME IInv, Arrive PROVE IInv'
<1> USE DEF Arrive, reqVars, ctxVars, upVars, redisVars, histVars
<1>0. /\ TypeOK /\ RefsInv /\ QueueInv /\ NoscriptInv /\ VerdictInv /\ TimerInv
      /\ inflight \in Seq(Tokens) /\ sock \in Seq(Tokens) /\ conn = "open"
      /\ UNCHANGED <<reqVars, ctxVars, upVars, rtimer, wtimer, conn, unsent,
                     inbox, peer, redisVars, histVars>>
      /\ rd' = IF rd = "quiet" THEN "event" ELSE rd
  BY DEF IInv, TypeOK
<1>1. PICK k \in 1..Len(inflight) :
        /\ sock' = sock \o SubSeq(inflight, 1, k)
        /\ inflight' = SubSeq(inflight, k + 1, Len(inflight))
  OBVIOUS
<1>2. Len(inflight) \in Nat /\ Len(sock) \in Nat /\ k \in 0..Len(inflight)
  BY <1>0
<1> DEFINE p == SubSeq(inflight, 1, k)
<1>3. p \in Seq(Tokens) /\ Len(p) = k /\ \A i \in 1..k : p[i] = inflight[i]
  BY <1>0, <1>2, PrefixFacts
<1>4. /\ inflight' \in Seq(Tokens) /\ Len(inflight') = Len(inflight) - k
      /\ \A i \in 1..(Len(inflight) - k) : inflight'[i] = inflight[k + i]
  BY <1>0, <1>1, <1>2, SuffixFacts
<1> HIDE DEF Arrive, p
<1>5. /\ sock' \in Seq(Tokens) /\ Len(sock') = Len(sock) + k
      /\ \A i \in 1..Len(sock') :
           \/ i \in 1..Len(sock) /\ sock'[i] = sock[i]
           \/ i - Len(sock) \in 1..k /\ sock'[i] = inflight[i - Len(sock)]
  <2>1. /\ sock \o p \in Seq(Tokens) /\ Len(sock \o p) = Len(sock) + Len(p)
        /\ \A i \in 1..(Len(sock) + Len(p)) :
             (sock \o p)[i] = IF i <= Len(sock) THEN sock[i] ELSE p[i - Len(sock)]
    BY <1>0, <1>3, ConcatProperties
  <2>2. sock' = sock \o p
    BY <1>1 DEF p
  <2>3. \A i \in 1..(Len(sock) + k) :
          \/ i <= Len(sock) /\ i \in 1..Len(sock)
          \/ ~(i <= Len(sock)) /\ i - Len(sock) \in 1..k
    BY <1>2
  <2> QED
    BY <1>3, <2>1, <2>2, <2>3
<1>6. \A t : Absent(t) => Absent(t)'
  <2>1. \A t : Holds(sock', t) => Holds(sock, t) \/ Holds(inflight, t)
    BY <1>2, <1>5 DEF Holds
  <2>2. \A t : Holds(inflight', t) => Holds(inflight, t)
    BY <1>2, <1>4 DEF Holds
  <2>3. \A t : (Holds(buf, t)' <=> Holds(buf, t)) /\ (Holds(sock, t)' <=> Holds(sock', t))
               /\ (Holds(inflight, t)' <=> Holds(inflight', t))
    BY <1>0 DEF Holds
  <2> QED
    BY <2>1, <2>2, <2>3 DEF Absent
<1>7. NoscriptInv'
  <2>1. EndsIn(buf', Len(sock') + Len(inflight'))
    <3>1. Len(sock') + Len(inflight') = Len(sock) + Len(inflight) /\ buf' = buf
      BY <1>0, <1>2, <1>4, <1>5
    <3> QED
      BY <1>0, <3>1 DEF NoscriptInv
  <2>2. EndsIn(sock', Len(inflight'))
    <3>1. SUFFICES ASSUME NEW i \in 1..Len(sock'), sock'[i] = "-NOSCRIPT"
                   PROVE  i + 1 >= Len(sock') + Len(inflight')
      BY DEF EndsIn
    <3>2. Len(sock') + Len(inflight') = Len(sock) + Len(inflight)
      BY <1>2, <1>4, <1>5
    <3>3. CASE i \in 1..Len(sock) /\ sock'[i] = sock[i]
      BY <1>0, <3>1, <3>2, <3>3 DEF NoscriptInv, EndsIn
    <3>4. CASE i - Len(sock) \in 1..k /\ sock'[i] = inflight[i - Len(sock)]
      <4>1. i - Len(sock) \in 1..Len(inflight)
        BY <1>2, <3>4
      <4>2. i - Len(sock) + 1 >= Len(inflight) + 0
        BY <1>0, <3>1, <3>4, <4>1 DEF NoscriptInv, EndsIn
      <4>3. i \in Int
        OBVIOUS
      <4> QED
        BY <1>2, <3>2, <4>2, <4>3
    <3> QED
      BY <1>5, <3>3, <3>4
  <2>3. EndsIn(inflight', 0)
    <3>1. SUFFICES ASSUME NEW i \in 1..Len(inflight'), inflight'[i] = "-NOSCRIPT"
                   PROVE  i + 1 >= Len(inflight') + 0
      BY DEF EndsIn
    <3>2. k + i \in 1..Len(inflight) /\ inflight[k + i] = "-NOSCRIPT"
      BY <1>2, <1>4, <3>1
    <3>3. (k + i) + 1 >= Len(inflight) + 0
      BY <1>0, <3>2 DEF NoscriptInv, EndsIn
    <3>4. i \in Int
      OBVIOUS
    <3> QED
      BY <1>2, <1>4, <3>3, <3>4
  <2> QED
    BY <1>0, <1>6, <2>1, <2>2, <2>3 DEF NoscriptInv
<1>8. TypeOK'
  <2>1. UNCHANGED <<done, eval_fallback, rtimer, wtimer, cached, open, outage, broken>>
    BY <1>0
  <2>2. FlagsOK
    BY <1>0 DEF TypeOK
  <2>3. FlagsOK'
    BY <2>1, <2>2, FlagsSame
  <2> QED
    BY <1>0, <1>4, <1>5, <2>3 DEF TypeOK
<1>9. QueueInv' /\ VerdictInv'
  <2>1. QueueInv'
    BY <1>0, <1>6, QueueKept
  <2> QED
    BY <1>0, <1>6, <2>1 DEF VerdictInv
<1>10. /\ RefsInv' /\ TimerInv' /\ AdmitSound' /\ ChargedOnce'
       /\ SingleResponse' /\ PasswordWiped'
  BY <1>0 DEF IInv, RefsInv, TimerInv, AdmitSound, ChargedOnce,
              SingleResponse, PasswordWiped
<1> QED
  BY <1>7, <1>8, <1>9, <1>10 DEF IInv

LEMMA PeerDropsInv == ASSUME IInv, PeerDrops PROVE IInv'
<1> USE DEF PeerDrops, reqVars, ctxVars, upVars, redisVars, histVars
<1>0. TypeOK /\ RefsInv /\ QueueInv /\ NoscriptInv /\ VerdictInv /\ TimerInv
  BY DEF IInv
<1>1. /\ inflight' = inflight \/ inflight' = <<>>
      /\ inbox' = inbox \/ inbox' = <<>>
      /\ <<>> \in Seq(Tokens) /\ <<>> \in Seq(Commands) /\ Len(<<>>) = 0
  BY EmptySeq
<1>2. (\A t : Absent(t) => Absent(t)') /\ (Pending' => Pending)
  BY <1>1 DEF Absent, Holds, Pending
<1>3. NoscriptInv'
  <2>1. Len(sock) \in Nat /\ Len(inflight) \in Nat /\ Len(buf) \in Nat
    BY <1>0 DEF TypeOK
  <2> QED
    BY <1>0, <1>1, <1>2, <2>1 DEF NoscriptInv, EndsIn
<1>4. TypeOK'
  <2>1. UNCHANGED <<done, eval_fallback, rtimer, wtimer, cached, open, outage, broken>>
    OBVIOUS
  <2>2. FlagsOK
    BY <1>0 DEF TypeOK
  <2>3. FlagsOK'
    BY <2>1, <2>2, FlagsSame
  <2>4. rd' \in {"quiet", "event", "enter", "loop"}
    BY <1>0 DEF TypeOK
  <2>5. inflight' \in Seq(Tokens) /\ inbox' \in Seq(Commands) /\ peer' = "gone"
    BY <1>0, <1>1 DEF TypeOK
  <2>6. UNCHANGED <<reqVars, ctxVars, upVars, conn, unsent, sock, redisVars, histVars>>
    OBVIOUS
  <2> HIDE DEF PeerDrops
  <2> QED
    BY <1>0, <2>3, <2>4, <2>5, <2>6 DEF TypeOK
<1>5. QueueInv'
  BY <1>0, <1>1, <1>2 DEF QueueInv
<1>6. VerdictInv' /\ TimerInv'
  BY <1>0, <1>2 DEF VerdictInv, TimerInv
<1>7. RefsInv' /\ AdmitSound' /\ ChargedOnce' /\ SingleResponse' /\ PasswordWiped'
  BY <1>0 DEF IInv, RefsInv, AdmitSound, ChargedOnce, SingleResponse, PasswordWiped
<1> QED
  BY <1>3, <1>4, <1>5, <1>6, <1>7 DEF IInv

LEMMA StutterInv == ASSUME IInv, UNCHANGED vars PROVE IInv'
<1> USE DEF vars, reqVars, ctxVars, upVars, evVars, linkVars, redisVars, histVars
<1>1. QueueInv' /\ NoscriptInv'
  BY LinkKept DEF IInv
<1>2. TypeOK' /\ RefsInv'
  BY DEF IInv, TypeOK, FlagsOK, RefsInv
<1>3. VerdictInv' /\ TimerInv'
  BY DEF IInv, VerdictInv, TimerInv, Absent, Holds
<1>4. AdmitSound' /\ ChargedOnce' /\ SingleResponse' /\ PasswordWiped'
  BY DEF IInv, AdmitSound, ChargedOnce, SingleResponse, PasswordWiped
<1> QED
  BY <1>1, <1>2, <1>3, <1>4 DEF IInv

LEMMA NextIInv == ASSUME IInv, [Next]_vars PROVE IInv'
<1>1. ASSUME Handler PROVE IInv'
  BY <1>1, HandlerQuietInv, HandlerBeginsInv, HandlerBeginsInVainInv DEF Handler
<1>2. ASSUME ReadEvent PROVE IInv'
  BY <1>2, ReadHeaderInv, ReadBodyInv, ReadPausesInv, FailureInv DEF ReadEvent
<1>3. ASSUME WriteEvent PROVE IInv'
  BY <1>3, StockWriteInv, EvalWriteInv, FailureInv, StockFailsInv DEF WriteEvent
<1>4. ASSUME Timeout PROVE IInv'
  BY <1>4, FailureInv, StockFailsInv DEF Timeout
<1>5. ASSUME Redis PROVE IInv'
  BY <1>5, RedisInv, ScriptCacheInv DEF Redis
<1>6. ASSUME Network PROVE IInv'
  BY <1>6, ArriveInv, PeerDropsInv DEF Network
<1>7. ASSUME Respond \/ Redirect PROVE IInv'
  BY <1>7, RespondInv, RedirectInv
<1>8. ASSUME Finished \/ UNCHANGED vars PROVE IInv'
  BY <1>8, StutterInv DEF Finished
<1> QED
  BY <1>1, <1>2, <1>3, <1>4, <1>5, <1>6, <1>7, <1>8 DEF Next
-----------------------------------------------------------------------------
(* The theorems.                                                           *)

\* IInv describes every state the handler, the upstream and Redis can reach;
\* the properties below follow from it (handler.c:28-261, upstream.c:9-629).
THEOREM Inductive == Spec => []IInv
<1>1. Init => IInv
  BY InitIInv
<1>2. IInv /\ [Next]_vars => IInv'
  BY NextIInv
<1> QED
  BY <1>1, <1>2, PTL DEF Spec

\* No step overruns the reply buffer, over-releases the request or leaves a
\* field of ngx_http_ratelimit_ctx_t out of its range.
THEOREM TypeCorrect == Spec => []TypeOK
<1>1. IInv => TypeOK
  BY DEF IInv
<1> QED
  BY <1>1, Inductive, PTL

\* The re-entered handler (handler.c:62-126) admits only on the script's own
\* "allow", or on a transport failure where the location fails open.
THEOREM AdmissionIsSound == Spec => []AdmitSound
<1>1. IInv => AdmitSound
  BY DEF IInv
<1> QED
  BY <1>1, Inductive, PTL

\* The marker variable and the one EVAL fallback (handler.c:128-135,
\* handler.c:674-691) keep the script from running twice for a request.
THEOREM ScriptRunsOnce == Spec => []ChargedOnce
<1>1. IInv => ChargedOnce
  BY DEF IInv
<1> QED
  BY <1>1, Inductive, PTL

\* In every phase of the round trip a timer is armed whenever no event is
\* due, unless the reply buffer is full (upstream.c:151-257, 510-629).
THEOREM WakeupNeverLost == Spec => []WakeupOrFull
<1>1. IInv => WakeupOrFull
  BY DEF IInv, TypeOK, TimerInv, WakeupOrFull
<1> QED
  BY <1>1, Inductive, PTL

\* handler.c:252 takes a reference that the round trip alone gives back
\* (upstream.c:71-96): the request outlives its upstream.
THEOREM RoundTripHeld == Spec => []HeldWhileAwaiting
<1>1. IInv => HeldWhileAwaiting
  BY DEF IInv, RefsInv, HeldWhileAwaiting
<1> QED
  BY <1>1, Inductive, PTL

\* The remapping of errors before the first finalize (upstream.c:71-92)
\* leaves exactly one response to be produced.
THEOREM OneResponse == Spec => []SingleResponse
<1>1. IInv => SingleResponse
  BY DEF IInv
<1> QED
  BY <1>1, Inductive, PTL

\* ngx_http_ratelimit_wipe_auth reaches the AUTH buffer on every path that
\* ends a round trip or frees the request (handler.c:795-813).
THEOREM PasswordGone == Spec => []PasswordWiped
<1>1. IInv => PasswordWiped
  BY DEF IInv
<1> QED
  BY <1>1, Inductive, PTL
=============================================================================
