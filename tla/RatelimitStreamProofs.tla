----------------------- MODULE RatelimitStreamProofs -----------------------
(***************************************************************************)
(* More proofs about RatelimitRequest: what the replies on their way to    *)
(* the parser look like as one stream, whatever cuts it, and what follows  *)
(* for faults, rejections, headers, pooled connections and the contract.   *)
(***************************************************************************)
EXTENDS RatelimitRequestProofs

\* All that Redis has answered and the parser has not consumed, and the place
\* of its beginning: the script's reply is at 1..4, the prelude's before it.
Stream == buf \o sock \o inflight
Base   == IF read_handler = "header" THEN -2 * prelude_replies ELSE pstate + 1

\* w is a piece of replies that begins behind place b.
WellFormed(w, b) ==
    /\ b + Len(w) <= 4
    /\ \A i \in 1..Len(w) :
         /\ b + i \in {-3, -1} => w[i] \in {"+", "-"}
         /\ b + i \in {-2, 0} => w[i] = "LF"
         /\ b + i = 1 => w[i] \in {"*", "-", "-NOSCRIPT", "x"}
         /\ b + i = 2 => /\ w[i] \in {"LF", "5", "x"}
                         /\ w[i] = "LF" <=> i > 1 /\ w[i - 1] # "*"
         /\ b + i = 3 => w[i] \in {"0", "1"} /\ (i > 1 => w[i - 1] = "5")
         /\ b + i = 4 => w[i] \in {"ctr", "x"}

\* The tokens that make process_header or process_reply fail.
Bad(w) == \/ Holds(w, "-") \/ Holds(w, "x")
          \/ eval_fallback /\ Holds(w, "-NOSCRIPT")

\* The connection of a round trip, and the commands on it.
LinkInv == engine = "await" =>
    /\ pstate <= 2 /\ headers = "none"
    /\ conn \in {"connecting", "open"}
    /\ conn = "connecting" => inbox = <<>>
    /\ inbox # <<>> => Pending
    /\ read_handler = "body" => buf = <<>>
    /\ Holds(inbox, "EVALSHA") \/ Holds(unsent, "EVALSHA") => ~eval_fallback
    /\ Holds(inbox, "EVAL") \/ Holds(unsent, "EVAL") => eval_fallback

GrammarInv == engine = "await" => WellFormed(Stream, Base)

\* As long as Redis can answer, a reply comes for every command.
CountInv == engine = "await" /\ peer = "up" /\ Pending =>
    Base + Len(Stream) + 2 * (Len(inbox) + Len(unsent)) = 2

\* A fault of Redis is on its way to the parser, or the reply's end is lost;
\* and without one nothing is there that the parser refuses.
FaultInv == engine = "await" =>
    /\ Bad(Stream) => broken
    /\ broken => Bad(Stream) \/ (peer = "gone" /\ ~Holds(Stream, "ctr"))

\* A verdict of the script's leaves nothing behind that could still fail.
SettledInv ==
    /\ ~done => ~broken /\ peer = "up" /\ headers = "none" /\ ~eval_fallback
    /\ answer = "pass" /\ ~(open /\ outage) => inbox = <<>> /\ ~broken
    /\ headers # "none" => inbox = <<>>
    /\ PooledClean /\ HeadersReal /\ RejectSound

RInv == LinkInv /\ GrammarInv /\ CountInv /\ FaultInv /\ SettledInv

-----------------------------------------------------------------------------
(* The grammar of the stream.                                              *)

LEMMA SuffixWellFormed ==
    ASSUME NEW w \in Seq(Tokens), NEW b \in Int, WellFormed(w, b),
           NEW n \in 0..Len(w), NEW v \in Seq(Tokens), Len(v) = Len(w) - n,
           \A i \in 1..(Len(w) - n) : v[i] = w[n + i],
           n = 0 \/ b + n # 1 \/ w[n] = "*"
    PROVE  WellFormed(v, b + n)
<1>1. Len(w) \in Nat /\ Len(v) \in Nat
  BY LenProperties
<1>2. (b + n) + Len(v) <= 4
  BY <1>1 DEF WellFormed
<1>3. ASSUME NEW i \in 1..Len(v)
      PROVE  /\ n + i \in 1..Len(w) /\ v[i] = w[n + i] /\ (b + n) + i = b + (n + i)
             /\ i > 1 => i - 1 \in 1..Len(v) /\ v[i - 1] = w[(n + i) - 1]
  <2>1. n + i \in 1..Len(w) /\ v[i] = w[n + i] /\ (b + n) + i = b + (n + i)
    BY <1>1
  <2>2. ASSUME i > 1 PROVE i - 1 \in 1..Len(v) /\ v[i - 1] = w[(n + i) - 1]
    <3>1. i - 1 \in 1..(Len(w) - n) /\ n + (i - 1) = (n + i) - 1
      BY <1>1, <2>2
    <3> QED
      BY <1>1, <3>1
  <2> QED
    BY <2>1, <2>2
<1>4. SUFFICES ASSUME NEW i \in 1..Len(v)
      PROVE  /\ (b + n) + i \in {-3, -1} => v[i] \in {"+", "-"}
             /\ (b + n) + i \in {-2, 0} => v[i] = "LF"
             /\ (b + n) + i = 1 => v[i] \in {"*", "-", "-NOSCRIPT", "x"}
             /\ (b + n) + i = 2 => /\ v[i] \in {"LF", "5", "x"}
                                   /\ v[i] = "LF" <=> i > 1 /\ v[i - 1] # "*"
             /\ (b + n) + i = 3 => v[i] \in {"0", "1"} /\ (i > 1 => v[i - 1] = "5")
             /\ (b + n) + i = 4 => v[i] \in {"ctr", "x"}
  BY <1>2 DEF WellFormed
<1> DEFINE j == n + i
<1>5. /\ b + j \in {-3, -1} => w[j] \in {"+", "-"}
      /\ b + j \in {-2, 0} => w[j] = "LF"
      /\ b + j = 1 => w[j] \in {"*", "-", "-NOSCRIPT", "x"}
      /\ b + j = 2 => /\ w[j] \in {"LF", "5", "x"}
                      /\ w[j] = "LF" <=> j > 1 /\ w[j - 1] # "*"
      /\ b + j = 3 => w[j] \in {"0", "1"} /\ (j > 1 => w[j - 1] = "5")
      /\ b + j = 4 => w[j] \in {"ctr", "x"}
  BY <1>3 DEF WellFormed
<1>6. /\ v[i] = w[j] /\ (b + n) + i = b + j /\ j \in Int /\ i \in Int
      /\ i > 1 => v[i - 1] = w[j - 1]
      /\ i = 1 => j - 1 = n
      /\ j > 1 <=> i > 1 \/ n > 0
  BY <1>1, <1>3
<1> HIDE DEF j
<1>7. b + j = 2 /\ ~(i > 1) => (n = 0 \/ w[n] = "*")
  BY <1>1, <1>6
<1> QED
  BY <1>5, <1>6, <1>7

LEMMA PrefixWellFormed ==
    ASSUME NEW w \in Seq(Tokens), NEW b \in Int, WellFormed(w, b),
           NEW v \in Seq(Tokens), Len(v) <= Len(w),
           \A i \in 1..Len(v) : v[i] = w[i]
    PROVE  WellFormed(v, b)
<1>1. Len(w) \in Nat /\ Len(v) \in Nat
  BY LenProperties
<1>2. \A i \in 1..Len(v) : /\ i \in 1..Len(w) /\ v[i] = w[i]
                           /\ i > 1 => v[i - 1] = w[i - 1]
  BY <1>1
<1> QED
  BY <1>1, <1>2 DEF WellFormed

\* The last counter is the end of the stream.
LEMMA CounterIsLast ==
    ASSUME NEW w \in Seq(Tokens), NEW b \in -4..3, WellFormed(w, b),
           NEW i \in 1..Len(w), w[i] = "ctr"
    PROVE  b + i = 4 /\ i = Len(w)
<1>1. Len(w) \in Nat /\ b + Len(w) <= 4
  BY LenProperties DEF WellFormed
<1>2. b + i \in -3..4
  BY <1>1
<1>3. b + i = 4
  BY <1>2 DEF WellFormed
<1> QED
  BY <1>1, <1>3

\* A reply that has counters began with "*".
LEMMA CounterHasStar ==
    ASSUME NEW w \in Seq(Tokens), NEW b \in -4..0, WellFormed(w, b),
           Holds(w, "ctr")
    PROVE  Holds(w, "*")
<1>1. PICK i \in 1..Len(w) : w[i] = "ctr"
  BY DEF Holds
<1>2. b + i = 4 /\ Len(w) \in Nat
  BY <1>1, CounterIsLast, LenProperties
<1> DEFINE one == 1 - b
           two == 2 - b
           three == 3 - b
<1>3. /\ one \in 1..Len(w) /\ two \in 1..Len(w) /\ three \in 1..Len(w)
      /\ b + one = 1 /\ b + two = 2 /\ b + three = 3
      /\ two - 1 = one /\ three - 1 = two /\ two > 1 /\ three > 1
  BY <1>2
<1> HIDE DEF one, two, three
<1>4. w[two] = "5"
  BY <1>3 DEF WellFormed
<1>5. w[one] = "*"
  BY <1>3, <1>4 DEF WellFormed
<1> QED
  BY <1>3, <1>5 DEF Holds

-----------------------------------------------------------------------------
(* The three queues as one.                                                *)

LEMMA TokensAssociative ==
    ASSUME NEW s \in Seq(Tokens), NEW t \in Seq(Tokens), NEW u \in Seq(Tokens)
    PROVE  (s \o t) \o u = s \o (t \o u)
  BY ConcatAssociative

LEMMA ThreeFacts ==
    ASSUME NEW s \in Seq(Tokens), NEW t \in Seq(Tokens), NEW u \in Seq(Tokens)
    PROVE  LET w == s \o t \o u
           IN  /\ w \in Seq(Tokens)
               /\ Len(s) \in Nat /\ Len(t) \in Nat /\ Len(u) \in Nat
               /\ Len(w) = Len(s) + Len(t) + Len(u)
               /\ \A i \in 1..Len(s) : w[i] = s[i]
               /\ \A i \in 1..Len(t) : w[Len(s) + i] = t[i]
               /\ \A i \in 1..Len(u) : w[Len(s) + Len(t) + i] = u[i]
               /\ \A x : Holds(w, x) => Holds(s, x) \/ Holds(t, x) \/ Holds(u, x)
<1> DEFINE v == s \o t
           w == v \o u
<1>1. /\ v \in Seq(Tokens) /\ Len(v) = Len(s) + Len(t)
      /\ \A i \in 1..(Len(s) + Len(t)) :
           v[i] = IF i <= Len(s) THEN s[i] ELSE t[i - Len(s)]
      /\ Len(s) \in Nat /\ Len(t) \in Nat /\ Len(u) \in Nat
  <2>1. /\ v \in Seq(Tokens) /\ Len(v) = Len(s) + Len(t)
        /\ \A i \in 1..Len(s) + Len(t) :
             v[i] = IF i <= Len(s) THEN s[i] ELSE t[i - Len(s)]
    BY ConcatProperties
  <2> QED
    BY <2>1, LenProperties
<1> HIDE DEF v
<1>2. /\ w \in Seq(Tokens) /\ Len(w) = Len(v) + Len(u)
      /\ \A i \in 1..(Len(v) + Len(u)) :
           w[i] = IF i <= Len(v) THEN v[i] ELSE u[i - Len(v)]
  <2>1. v \in Seq(Tokens)
    BY <1>1
  <2> QED
    BY <2>1, ConcatProperties
<1> HIDE DEF w
<1>3. \A i \in 1..Len(s) : w[i] = s[i]
  BY <1>1, <1>2
<1>4. ASSUME NEW i \in 1..Len(t) PROVE w[Len(s) + i] = t[i]
  <2>1. /\ Len(s) + i \in 1..(Len(s) + Len(t)) /\ ~(Len(s) + i <= Len(s))
        /\ (Len(s) + i) - Len(s) = i
    BY <1>1
  <2>2. v[Len(s) + i] = t[i]
    BY <1>1, <2>1
  <2>3. Len(s) + i \in 1..(Len(v) + Len(u)) /\ Len(s) + i <= Len(v)
    BY <1>1
  <2> QED
    BY <1>2, <2>2, <2>3
<1>5. ASSUME NEW i \in 1..Len(u) PROVE w[Len(s) + Len(t) + i] = u[i]
  <2>1. /\ Len(v) + i \in 1..(Len(v) + Len(u)) /\ ~(Len(v) + i <= Len(v))
        /\ (Len(v) + i) - Len(v) = i
    BY <1>1
  <2>2. w[Len(v) + i] = u[i]
    BY <1>2, <2>1
  <2> QED
    BY <1>1, <2>2
<1>6. ASSUME NEW i \in 1..Len(w)
      PROVE  \/ i \in 1..Len(s) /\ w[i] = s[i]
             \/ i - Len(s) \in 1..Len(t) /\ w[i] = t[i - Len(s)]
             \/ i - (Len(s) + Len(t)) \in 1..Len(u) /\ w[i] = u[i - (Len(s) + Len(t))]
  <2>1. CASE i \in 1..Len(s)
    BY <1>3, <2>1
  <2>2. CASE i - Len(s) \in 1..Len(t)
    <3>1. Len(s) + (i - Len(s)) = i
      BY <1>1
    <3> QED
      BY <1>4, <2>2, <3>1
  <2>3. CASE i - (Len(s) + Len(t)) \in 1..Len(u)
    <3>1. Len(s) + Len(t) + (i - (Len(s) + Len(t))) = i
      BY <1>1
    <3> QED
      BY <1>5, <2>3, <3>1
  <2>4. i \in 1..(Len(s) + Len(t) + Len(u))
    BY <1>1, <1>2
  <2> QED
    BY <1>1, <2>1, <2>2, <2>3, <2>4
<1>7. \A x : Holds(w, x) => Holds(s, x) \/ Holds(t, x) \/ Holds(u, x)
  BY <1>6 DEF Holds
<1>8. Len(w) = Len(s) + Len(t) + Len(u)
  BY <1>1, <1>2
<1> QED
  BY <1>1, <1>2, <1>3, <1>4, <1>5, <1>7, <1>8 DEF w, v

LEMMA StreamFacts ==
    ASSUME TypeOK
    PROVE  /\ Stream \in Seq(Tokens) /\ Len(Stream) \in Nat
           /\ Len(Stream) = Len(buf) + Len(sock) + Len(inflight)
           /\ Len(buf) \in Nat /\ Len(sock) \in Nat /\ Len(inflight) \in Nat
           /\ \A t : Holds(Stream, t) => ~Absent(t)
<1>1. buf \in Seq(Tokens) /\ sock \in Seq(Tokens) /\ inflight \in Seq(Tokens)
  BY DEF TypeOK
<1>2. /\ Stream \in Seq(Tokens)
      /\ Len(Stream) = Len(buf) + Len(sock) + Len(inflight)
      /\ Len(buf) \in Nat /\ Len(sock) \in Nat /\ Len(inflight) \in Nat
      /\ \A t : Holds(Stream, t) => Holds(buf, t) \/ Holds(sock, t) \/ Holds(inflight, t)
  BY <1>1, ThreeFacts DEF Stream
<1> QED
  BY <1>2, LenProperties DEF Absent

LEMMA BaseFacts ==
    ASSUME TypeOK
    PROVE  /\ Base \in -4..4 /\ (pstate <= 2 => Base \in -4..3)
           /\ read_handler = "header" => Base \in -4..0 /\ Base = -2 * prelude_replies
           /\ read_handler = "body" => Base = pstate + 1
  BY DEF TypeOK, Base

\* One recv and what the parser then drops: n tokens leave the stream.
LEMMA CutFacts ==
    ASSUME TypeOK, NoscriptInv, NEW n \in 0..Len(buf \o Chunk)
    PROVE  LET c == buf \o Chunk
               p == SubSeq(c, n + 1, Len(c))
               v == p \o SubSeq(sock, Fit + 1, Len(sock)) \o inflight
           IN  /\ c \in Seq(Tokens) /\ Len(c) = Len(buf) + Fit
               /\ Len(c) <= Len(Stream) /\ \A i \in 1..Len(c) : c[i] = Stream[i]
               /\ p \in Seq(Tokens) /\ Len(p) = Len(c) - n
               /\ \A i \in 1..Len(p) : p[i] = Stream[n + i]
               /\ v \in Seq(Tokens) /\ Len(v) = Len(Stream) - n
               /\ \A i \in 1..Len(v) : v[i] = Stream[n + i]
<1> DEFINE c == buf \o Chunk
           p == SubSeq(c, n + 1, Len(c))
           left == SubSeq(sock, Fit + 1, Len(sock))
           v == p \o left \o inflight
<1>1. /\ Fit \in 0..Len(sock) /\ Chunk \in Seq(Tokens) /\ Len(Chunk) = Fit
      /\ left \in Seq(Tokens)
  BY RecvFacts
<1>2. /\ buf \in Seq(Tokens) /\ sock \in Seq(Tokens) /\ inflight \in Seq(Tokens)
      /\ Len(buf) \in Nat /\ Len(sock) \in Nat
  BY DEF TypeOK
<1>3. sock = Chunk \o left
  <2>1. SubSeq(sock, 1, Fit) \o left = SubSeq(sock, 1, Len(sock))
    <3>1. 1 \in 1..(Len(sock) + 1) /\ Fit \in (1-1)..Len(sock) /\ Len(sock) \in Fit..Len(sock)
      BY <1>1, <1>2
    <3> QED
      BY <1>2, <3>1, ConcatAdjacentSubSeq
  <2> QED
    BY <1>2, <2>1, SubSeqFull DEF Chunk
<1>4. c \in Seq(Tokens) /\ Len(c) = Len(buf) + Fit
  <2>1. c \in Seq(Tokens) /\ Len(c) = Len(buf) + Len(Chunk)
    BY <1>1, <1>2, ConcatProperties
  <2> QED
    BY <1>1, <2>1
<1>5. Stream = c \o left \o inflight
  <2>1. buf \o (Chunk \o left) = (buf \o Chunk) \o left
    <3>1. buf \in Seq(Tokens) /\ Chunk \in Seq(Tokens) /\ left \in Seq(Tokens)
      BY <1>1, <1>2
    <3> HIDE DEF left
    <3> QED
      BY <3>1, TokensAssociative
  <2> QED
    BY <1>3, <2>1 DEF Stream
<1>6. n \in 0..Len(c)
  OBVIOUS
<1> HIDE DEF c, left
<1>7. /\ p \in Seq(Tokens) /\ Len(p) = Len(c) - n
      /\ \A i \in 1..(Len(c) - n) : p[i] = c[n + i]
  BY <1>4, <1>6, SuffixFacts
<1> HIDE DEF p
<1>8. /\ Len(c) \in Nat /\ Len(left) \in Nat /\ Len(inflight) \in Nat
      /\ Len(Stream) = Len(c) + Len(left) + Len(inflight)
      /\ \A i \in 1..Len(c) : Stream[i] = c[i]
      /\ \A i \in 1..Len(left) : Stream[Len(c) + i] = left[i]
      /\ \A i \in 1..Len(inflight) : Stream[Len(c) + Len(left) + i] = inflight[i]
  <2>1. c \in Seq(Tokens) /\ left \in Seq(Tokens) /\ inflight \in Seq(Tokens)
    BY <1>1, <1>2, <1>4
  <2> QED
    BY <1>5, <2>1, ThreeFacts
<1>9. /\ v \in Seq(Tokens)
      /\ Len(v) = Len(p) + Len(left) + Len(inflight)
      /\ \A i \in 1..Len(p) : v[i] = p[i]
      /\ \A i \in 1..Len(left) : v[Len(p) + i] = left[i]
      /\ \A i \in 1..Len(inflight) : v[Len(p) + Len(left) + i] = inflight[i]
  <2>1. p \in Seq(Tokens) /\ left \in Seq(Tokens) /\ inflight \in Seq(Tokens)
    BY <1>1, <1>2, <1>7
  <2> QED
    BY <2>1, ThreeFacts
<1> HIDE DEF v
<1>10. \A i \in 1..Len(p) : p[i] = Stream[n + i]
  <2>1. \A i \in 1..Len(p) : n + i \in 1..Len(c)
    BY <1>6, <1>7, <1>8
  <2> QED
    BY <1>7, <1>8, <2>1
<1>11. ASSUME NEW i \in 1..Len(v) PROVE v[i] = Stream[n + i]
  <2>1. CASE i \in 1..Len(p)
    BY <1>9, <1>10, <2>1
  <2>2. CASE i - Len(p) \in 1..Len(left)
    <3> DEFINE k == i - Len(p)
    <3>1. Len(p) + k = i /\ Len(c) + k = n + i
      BY <1>6, <1>7, <1>8
    <3>2. k \in 1..Len(left)
      BY <2>2
    <3> HIDE DEF k
    <3>3. v[Len(p) + k] = left[k] /\ Stream[Len(c) + k] = left[k]
      BY <1>8, <1>9, <3>2, Zenon
    <3> QED
      BY <3>1, <3>3, Zenon
  <2>3. CASE i - (Len(p) + Len(left)) \in 1..Len(inflight)
    <3> DEFINE k == i - (Len(p) + Len(left))
    <3>1. /\ Len(p) + Len(left) + k = i
          /\ Len(c) + Len(left) + k = n + i
      BY <1>6, <1>7, <1>8
    <3>2. k \in 1..Len(inflight)
      BY <2>3
    <3> HIDE DEF k
    <3>3. /\ v[Len(p) + Len(left) + k] = inflight[k]
          /\ Stream[Len(c) + Len(left) + k] = inflight[k]
      BY <1>8, <1>9, <3>2, Zenon
    <3> QED
      BY <3>1, <3>3, Zenon
  <2>4. i \in 1..(Len(p) + Len(left) + Len(inflight)) /\ Len(p) \in Nat
    BY <1>6, <1>7, <1>8, <1>9
  <2> QED
    BY <1>8, <2>1, <2>2, <2>3, <2>4
<1> QED
  <2>1. /\ c \in Seq(Tokens) /\ Len(c) = Len(buf) + Fit
        /\ Len(c) <= Len(Stream) /\ \A i \in 1..Len(c) : c[i] = Stream[i]
    BY <1>4, <1>8
  <2>2. Len(v) = Len(Stream) - n
    BY <1>6, <1>7, <1>8, <1>9
  <2> QED
    BY <1>7, <1>9, <1>10, <1>11, <2>1, <2>2 DEF c, p, left, v

\* A reply that begins a line or an array continues a well-formed stream.
LEMMA JoinWellFormed ==
    ASSUME NEW w \in Seq(Tokens), NEW r \in Seq(Tokens), NEW b \in Int,
           WellFormed(w, b), WellFormed(r, b + Len(w)), b + Len(w) \notin {1, 2}
    PROVE  /\ w \o r \in Seq(Tokens) /\ Len(w \o r) = Len(w) + Len(r)
           /\ WellFormed(w \o r, b)
           /\ Bad(w \o r) <=> Bad(w) \/ Bad(r)
           /\ \A t : Holds(w \o r, t) <=> Holds(w, t) \/ Holds(r, t)
<1> DEFINE v == w \o r
<1>1. /\ v \in Seq(Tokens) /\ Len(v) = Len(w) + Len(r)
      /\ \A i \in 1..Len(w) + Len(r) :
           v[i] = IF i <= Len(w) THEN w[i] ELSE r[i - Len(w)]
  BY ConcatProperties
<1>2. Len(w) \in Nat /\ Len(r) \in Nat
  BY LenProperties
<1> HIDE DEF v
<1>3. \A i \in 1..Len(w) : i \in 1..Len(v) /\ v[i] = w[i]
  BY <1>1, <1>2
<1>4. ASSUME NEW i \in 1..Len(r) PROVE Len(w) + i \in 1..Len(v) /\ v[Len(w) + i] = r[i]
  <2>1. /\ Len(w) + i \in 1..(Len(w) + Len(r)) /\ ~(Len(w) + i <= Len(w))
        /\ (Len(w) + i) - Len(w) = i
    BY <1>2
  <2> QED
    BY <1>1, <2>1
<1>5. \A i \in 1..Len(v) :
        i \in 1..Len(w) \/ \E j \in 1..Len(r) : i = Len(w) + j
  <2>1. SUFFICES ASSUME NEW i \in 1..Len(v), i \notin 1..Len(w)
                 PROVE  \E j \in 1..Len(r) : i = Len(w) + j
    OBVIOUS
  <2>2. i - Len(w) \in 1..Len(r) /\ i = Len(w) + (i - Len(w))
    BY <1>1, <1>2, <2>1
  <2> QED
    BY <2>2
<1>6. /\ Bad(v) <=> Bad(w) \/ Bad(r)
      /\ \A t : Holds(v, t) <=> Holds(w, t) \/ Holds(r, t)
  <2>1. ASSUME NEW t PROVE Holds(v, t) <=> Holds(w, t) \/ Holds(r, t)
    <3>1. Holds(v, t) => Holds(w, t) \/ Holds(r, t)
      <4>1. SUFFICES ASSUME NEW i \in 1..Len(v), v[i] = t
                     PROVE  Holds(w, t) \/ Holds(r, t)
        BY DEF Holds
      <4>2. CASE i \in 1..Len(w)
        BY <1>3, <4>1, <4>2 DEF Holds
      <4>3. ASSUME NEW j \in 1..Len(r), i = Len(w) + j PROVE Holds(r, t)
        BY <1>4, <4>1, <4>3 DEF Holds
      <4> QED
        BY <1>5, <4>2, <4>3
    <3>2. Holds(w, t) => Holds(v, t)
      BY <1>3 DEF Holds
    <3>3. Holds(r, t) => Holds(v, t)
      BY <1>4 DEF Holds
    <3> QED
      BY <3>1, <3>2, <3>3
  <2> QED
    BY <2>1 DEF Bad
<1> DEFINE Right(i) ==
         /\ b + i \in {-3, -1} => v[i] \in {"+", "-"}
         /\ b + i \in {-2, 0} => v[i] = "LF"
         /\ b + i = 1 => v[i] \in {"*", "-", "-NOSCRIPT", "x"}
         /\ b + i = 2 => /\ v[i] \in {"LF", "5", "x"}
                         /\ v[i] = "LF" <=> i > 1 /\ v[i - 1] # "*"
         /\ b + i = 3 => v[i] \in {"0", "1"} /\ (i > 1 => v[i - 1] = "5")
         /\ b + i = 4 => v[i] \in {"ctr", "x"}
<1>7. ASSUME NEW i \in 1..Len(w) PROVE Right(i)
  <2>1. i > 1 => i - 1 \in 1..Len(w)
    BY <1>2
  <2>2. v[i] = w[i] /\ (i > 1 => v[i - 1] = w[i - 1])
    BY <1>3, <2>1
  <2> QED
    BY <2>2 DEF WellFormed
<1>8. ASSUME NEW j \in 1..Len(r) PROVE Right(Len(w) + j)
  <2>1. j > 1 => j - 1 \in 1..Len(r) /\ Len(w) + (j - 1) = (Len(w) + j) - 1
    BY <1>2
  <2>2. v[Len(w) + j] = r[j] /\ (j > 1 => v[(Len(w) + j) - 1] = r[j - 1])
    BY <1>4, <2>1
  <2> DEFINE k == Len(w) + j
             place == b + k
  <2>3. /\ (b + Len(w)) + j = place
        /\ j > 1 => k > 1
        /\ place \in {2, 3} => j > 1
    BY <1>2
  <2>4. /\ (b + Len(w)) + j \in {-3, -1} => r[j] \in {"+", "-"}
        /\ (b + Len(w)) + j \in {-2, 0} => r[j] = "LF"
        /\ (b + Len(w)) + j = 1 => r[j] \in {"*", "-", "-NOSCRIPT", "x"}
        /\ (b + Len(w)) + j = 2 => /\ r[j] \in {"LF", "5", "x"}
                                   /\ r[j] = "LF" <=> j > 1 /\ r[j - 1] # "*"
        /\ (b + Len(w)) + j = 3 => r[j] \in {"0", "1"} /\ (j > 1 => r[j - 1] = "5")
        /\ (b + Len(w)) + j = 4 => r[j] \in {"ctr", "x"}
    BY <1>8 DEF WellFormed
  <2>5. v[k] = r[j] /\ (j > 1 => v[k - 1] = r[j - 1])
    BY <2>2
  <2> HIDE DEF place
  <2>6. /\ place \in {-3, -1} => v[k] \in {"+", "-"}
        /\ place \in {-2, 0} => v[k] = "LF"
        /\ place = 1 => v[k] \in {"*", "-", "-NOSCRIPT", "x"}
        /\ place = 2 => /\ v[k] \in {"LF", "5", "x"}
                        /\ v[k] = "LF" <=> k > 1 /\ v[k - 1] # "*"
        /\ place = 3 => v[k] \in {"0", "1"} /\ (k > 1 => v[k - 1] = "5")
        /\ place = 4 => v[k] \in {"ctr", "x"}
    <3> HIDE DEF k
    <3> QED
      BY <2>3, <2>4, <2>5
  <2> QED
    BY <2>6 DEF place, k
<1>9. b + Len(v) <= 4
  BY <1>1, <1>2 DEF WellFormed
<1>10. \A i \in 1..Len(v) : Right(i)
  <2> HIDE DEF Right
  <2> QED
    BY <1>5, <1>7, <1>8
<1>11. WellFormed(v, b)
  BY <1>9, <1>10 DEF WellFormed
<1> QED
  BY <1>1, <1>6, <1>11 DEF v

\* What Redis answers to the prelude, and to the script command.
LEMMA PreludeShapes ==
    ASSUME NEW b \in {-4, -2}, NEW r \in {<<"+", "LF">>, <<"-", "LF">>}
    PROVE  /\ r \in Seq(Tokens) /\ Len(r) = 2 /\ WellFormed(r, b)
           /\ Bad(r) <=> r = <<"-", "LF">>
<1>1. CASE r = <<"+", "LF">>
  BY <1>1 DEF WellFormed, Bad, Holds, Tokens
<1>2. CASE r = <<"-", "LF">>
  BY <1>2 DEF WellFormed, Bad, Holds, Tokens
<1> QED
  BY <1>1, <1>2

LEMMA ScriptShapes ==
    /\ \A r \in {<<"-", "LF">>, <<"-NOSCRIPT", "LF">>} :
         /\ r \in Seq(Tokens) /\ WellFormed(r, 0)
         /\ Bad(r) <=> r = <<"-", "LF">> \/ eval_fallback
    /\ \A d \in {"0", "1"} :
         /\ <<"*", "5", d, "ctr">> \in Seq(Tokens)
         /\ WellFormed(<<"*", "5", d, "ctr">>, 0)
         /\ ~Bad(<<"*", "5", d, "ctr">>)
         /\ \A r \in Malformed(d) : r \in Seq(Tokens) /\ WellFormed(r, 0) /\ Bad(r)
<1>1. ASSUME NEW r \in {<<"-", "LF">>, <<"-NOSCRIPT", "LF">>}
      PROVE  /\ r \in Seq(Tokens) /\ WellFormed(r, 0)
             /\ Bad(r) <=> r = <<"-", "LF">> \/ eval_fallback
  <2>1. CASE r = <<"-", "LF">>
    BY <2>1 DEF WellFormed, Bad, Holds, Tokens
  <2>2. CASE r = <<"-NOSCRIPT", "LF">>
    <3>1. r \in Seq(Tokens) /\ WellFormed(r, 0) /\ Len(r) = 2 /\ r[1] = "-NOSCRIPT" /\ r[2] = "LF"
      BY <2>2 DEF WellFormed, Tokens
    <3>2. r # <<"-", "LF">>
      BY <2>2
    <3>3. ~Holds(r, "-") /\ ~Holds(r, "x") /\ Holds(r, "-NOSCRIPT")
      BY <3>1 DEF Holds
    <3> QED
      BY <3>1, <3>2, <3>3 DEF Bad
  <2> QED
    BY <1>1, <2>1, <2>2
<1>2. ASSUME NEW d \in {"0", "1"}
      PROVE  /\ <<"*", "5", d, "ctr">> \in Seq(Tokens)
             /\ WellFormed(<<"*", "5", d, "ctr">>, 0)
             /\ ~Bad(<<"*", "5", d, "ctr">>)
  BY <1>2 DEF WellFormed, Bad, Holds, Tokens
<1>3. ASSUME NEW d \in {"0", "1"}, NEW r \in Malformed(d)
      PROVE  r \in Seq(Tokens) /\ WellFormed(r, 0) /\ Bad(r)
  <2>1. CASE r = <<"x", "LF">>
    BY <2>1 DEF WellFormed, Bad, Holds, Tokens
  <2>2. CASE r = <<"*", "x">>
    BY <2>2 DEF WellFormed, Bad, Holds, Tokens
  <2>3. CASE r = <<"*", "5", d, "x">>
    BY <2>3, <1>3 DEF WellFormed, Bad, Holds, Tokens
  <2> QED
    BY <1>3, <2>1, <2>2, <2>3 DEF Malformed
<1> QED
  BY <1>1, <1>2, <1>3

-----------------------------------------------------------------------------
(* The steps that end the round trip.                                      *)

\* Once the request does not wait, only the settled part says anything.
LEMMA SettledSuffices ==
    ASSUME engine' # "await", SettledInv' PROVE RInv'
  BY DEF RInv, LinkInv, GrammarInv, CountInv, FaultInv

LEMMA InitRInv == Init => RInv
<1> SUFFICES ASSUME Init PROVE RInv
  OBVIOUS
<1>1. engine # "await" /\ SettledInv
  BY DEF Init, SettledInv, PooledClean, HeadersReal, RejectSound
<1> QED
  BY <1>1 DEF RInv, LinkInv, GrammarInv, CountInv, FaultInv

\* A failure keeps no connection, announces no counters and rejects for the
\* reason it has, unless the location fails open on an outage.
LEMMA FailureR ==
    ASSUME IInv, RInv, engine = "await",
           NEW rc \in {500, 502, 503, 504}, NEW st, NEW ps \in 0..2,
           FinalizeUpstream(rc, st, ps),
           outage' \/ broken', rc \in TransportStatus => outage'
    PROVE  RInv'
<1>1. /\ done /\ open = conf.allow /\ headers = "none" /\ ps # 3 /\ rc # 0 /\ rc # 200
      /\ done \in BOOLEAN
  BY DEF IInv, RefsInv, VerdictInv, RInv, LinkInv, TypeOK, FlagsOK
<1>2. /\ UNCHANGED <<done, open>> /\ headers' = "none" /\ conn' = "closed"
      /\ \/ engine' = "passed" /\ answer' = "pass" /\ Admits(rc)
         \/ engine' = "error" /\ answer' = "reject"
  BY <1>1 DEF FinalizeUpstream, FinalizeRequest, HeadersOut, ReleaseLink,
              DropLink, Verdict
<1>3. answer' = "pass" => open' /\ outage'
  BY <1>1, <1>2 DEF Admits
<1>4. engine' # "await"
  BY <1>2
<1>5. SettledInv'
  BY <1>1, <1>2, <1>3 DEF SettledInv, PooledClean, HeadersReal, RejectSound
<1> QED
  BY <1>4, <1>5, SettledSuffices

\* The script's verdict on an emptied, undisturbed connection.
LEMMA VerdictR ==
    ASSUME IInv, RInv, engine = "await", NEW st,
           FinalizeUpstream(0, st, 3), UNCHANGED <<outage, broken>>,
           \/ st = 200 /\ ruling = "allow"
           \/ st = 429 /\ ruling = "limit",
           ~broken, inbox = <<>>, unsent = <<>>, inflight = <<>>,
           SubSeq(sock, Fit + 1, Len(sock)) = <<>>
    PROVE  RInv'
<1>1. done /\ done' = done /\ ruling' = ruling /\ ~broken' /\ headers = "none"
  BY DEF IInv, RefsInv, FinalizeUpstream, redisVars, RInv, LinkInv
<1>2. /\ inbox' = <<>> /\ unsent' = <<>> /\ inflight' = <<>> /\ sock' = <<>>
  BY DEF FinalizeUpstream, ReleaseLink, DropLink, Recv
<1>3. /\ headers' = HeadersOut(st, 3)
      /\ \/ engine' = "passed" /\ answer' = "pass" /\ Admits(st)
         \/ engine' = "error" /\ answer' = "reject" /\ ~Admits(st)
  BY DEF FinalizeUpstream, FinalizeRequest, Verdict
<1>4. /\ headers' \in {"none", "counters"}
      /\ st = 200 => answer' = "pass"
      /\ st = 429 => answer' = "reject"
      /\ engine' # "await"
  BY <1>1, <1>3 DEF HeadersOut, Admits, TransportStatus
<1>5. SettledInv'
  BY <1>1, <1>2, <1>4 DEF SettledInv, PooledClean, HeadersReal, RejectSound
<1> QED
  BY <1>4, <1>5, SettledSuffices

LEMMA FailureStepsR ==
    ASSUME IInv, RInv,
           \/ ReadHeaderEof \/ ReadBodyEof \/ HandlerFault
           \/ EvalWriteFails \/ ConnectRefused \/ ReadTimeout \/ EvalWriteTimeout
    PROVE  RInv'
<1>1. /\ engine = "await"
      /\ \/ /\ \E rc \in TransportStatus : FinalizeUpstream(rc, status, pstate)
            /\ outage' = TRUE
         \/ FinalizeUpstream(500, status, pstate) /\ broken' = TRUE
  BY DEF ReadHeaderEof, ReadBodyEof, HandlerFault, EvalWriteFails,
         ConnectRefused, ReadTimeout, EvalWriteTimeout, Reading, WorkerFree,
         TransportStatus
<1>2. pstate \in 0..2
  BY <1>1 DEF IInv, TypeOK, RInv, LinkInv
<1>3. CASE FinalizeUpstream(500, status, pstate) /\ broken' = TRUE
  <2>1. 500 \notin TransportStatus
    BY DEF TransportStatus
  <2> QED
    BY <1>1, <1>2, <1>3, <2>1, FailureR
<1>4. ASSUME NEW rc \in TransportStatus, FinalizeUpstream(rc, status, pstate),
             outage' = TRUE
      PROVE  RInv'
  <2>1. rc \in {500, 502, 503, 504}
    BY DEF TransportStatus
  <2> QED
    BY <1>1, <1>2, <1>4, <2>1, FailureR
<1> QED
  BY <1>1, <1>3, <1>4

LEMMA StockFailsR ==
    ASSUME IInv, RInv, StockTimeout \/ StockWriteFails
    PROVE  RInv'
<1>1. engine = "await" /\ \E rc \in TransportStatus : StockFinalize(rc)
  BY DEF StockTimeout, StockWriteFails, WorkerFree, TransportStatus
<1>2. PICK rc \in TransportStatus : StockFinalize(rc)
  BY <1>1
<1>3. /\ engine' = "error" /\ answer' = "reject" /\ outage' = TRUE
      /\ conn' = "closed" /\ done' = done /\ headers' = HeadersOut(rc, pstate)
  BY <1>2 DEF StockFinalize, FinalizeRequest, DropLink
<1>4. done /\ headers' = "none"
  BY <1>1, <1>3 DEF HeadersOut, IInv, TypeOK, RefsInv, RInv, LinkInv
<1>5. SettledInv'
  BY <1>3, <1>4 DEF SettledInv, PooledClean, HeadersReal, RejectSound
<1> QED
  BY <1>3, <1>5, SettledSuffices

-----------------------------------------------------------------------------
(* The handler's first entry, and what comes after the limiter.            *)

LEMMA HandlerQuietR ==
    ASSUME IInv, RInv,
           HandlerDeclines \/ HandlerRefuses \/ SetupFails \/ HandlerBeginsInVain
    PROVE  RInv'
<1>1. engine' # "await" /\ SettledInv /\ done \in BOOLEAN
  BY DEF HandlerDeclines, HandlerRefuses, SetupFails, HandlerBeginsInVain, RInv,
         IInv, TypeOK, FlagsOK
<1>2. CASE HandlerDeclines \/ HandlerRefuses
  <2>1. UNCHANGED <<done, linkVars, redisVars, histVars, eval_fallback>>
    BY <1>2 DEF HandlerDeclines, HandlerRefuses, ctxVars
  <2>2. SettledInv'
    BY <1>1, <2>1 DEF SettledInv, PooledClean, HeadersReal, RejectSound,
                      linkVars, redisVars, histVars
  <2> QED
    BY <1>1, <2>2, SettledSuffices
<1>3. CASE SetupFails \/ HandlerBeginsInVain
  <2>1. ~done /\ conn = "none" /\ headers = "none"
    BY <1>1, <1>3 DEF SetupFails, HandlerBeginsInVain, Commit, Checks, IInv,
                      RefsInv, SettledInv
  <2>2. /\ done' /\ answer' = "reject" /\ (outage' \/ broken')
        /\ conn' \in {"none", "closed"} /\ headers' = "none"
    <3>1. CASE SetupFails
      BY <2>1, <3>1 DEF SetupFails, Commit, linkVars
    <3>2. CASE HandlerBeginsInVain
      BY <2>1, <3>2 DEF HandlerBeginsInVain, Commit
    <3> QED
      BY <1>3, <3>1, <3>2
  <2>3. SettledInv'
    BY <2>2 DEF SettledInv, PooledClean, HeadersReal, RejectSound
  <2> QED
    BY <1>1, <2>3, SettledSuffices
<1> QED
  BY <1>2, <1>3

LEMMA AfterR == ASSUME IInv, RInv, Respond \/ Redirect PROVE RInv'
<1>1. engine' # "await" /\ UNCHANGED <<done, linkVars, redisVars, histVars, eval_fallback>>
  BY DEF Respond, Redirect, ctxVars
<1>2. SettledInv'
  BY <1>1 DEF RInv, SettledInv, PooledClean, HeadersReal, RejectSound,
              linkVars, redisVars, histVars
<1> QED
  BY <1>1, <1>2, SettledSuffices

\* A waiting request has no verdict to settle.
LEMMA AwaitSuffices ==
    ASSUME IInv', engine' = "await",
           LinkInv', GrammarInv', CountInv', FaultInv'
    PROVE  RInv'
<1>1. done' /\ answer' = "none" /\ headers' = "none" /\ conn' # "pooled"
  BY DEF IInv, RefsInv, VerdictInv, LinkInv
<1>2. SettledInv'
  BY <1>1 DEF SettledInv, PooledClean, HeadersReal, RejectSound
<1> QED
  BY <1>2 DEF RInv

LEMMA QuietR ==
    ASSUME RInv, UNCHANGED <<engine, prelude_replies, pstate, read_handler, buf>>,
           UNCHANGED <<done, eval_fallback, linkVars, ruling, histVars>>
    PROVE  RInv'
<1> USE DEF linkVars, histVars
<1>1. Stream' = Stream /\ Base' = Base /\ (Pending' <=> Pending)
  BY DEF Stream, Base, Pending
<1>2. LinkInv' /\ CountInv'
  BY <1>1 DEF RInv, LinkInv, CountInv, Holds
<1>3. GrammarInv'
  BY <1>1 DEF RInv, GrammarInv, WellFormed
<1>4. FaultInv'
  BY <1>1 DEF RInv, FaultInv, Bad, Holds
<1>5. SettledInv'
  BY DEF RInv, SettledInv, PooledClean, HeadersReal, RejectSound
<1> QED
  BY <1>2, <1>3, <1>4, <1>5 DEF RInv

LEMMA PausesR ==
    ASSUME RInv,
           \/ ReadHeaderAgain \/ ReadBodyAgain \/ ReadBodyFull
           \/ ScriptCacheChanges \/ UNCHANGED vars
    PROVE  RInv'
<1>1. UNCHANGED <<reqVars, ctxVars, upVars, linkVars, ruling, histVars>>
  <2>1. CASE ReadHeaderAgain \/ ReadBodyAgain \/ ReadBodyFull
    BY <2>1 DEF ReadHeaderAgain, ReadBodyAgain, ReadBodyFull, redisVars
  <2>2. CASE ScriptCacheChanges
    BY <2>2 DEF ScriptCacheChanges
  <2>3. CASE UNCHANGED vars
    BY <2>3 DEF vars, redisVars
  <2> QED
    BY <2>1, <2>2, <2>3
<1>2. /\ UNCHANGED <<engine, prelude_replies, pstate, read_handler, buf>>
      /\ UNCHANGED <<done, eval_fallback, linkVars, ruling, histVars>>
  BY <1>1 DEF reqVars, ctxVars, upVars
<1> QED
  BY <1>2, QuietR

LEMMA PipelineNames ==
    LET cmds == Prelude \o <<"EVALSHA">>
    IN  Len(cmds) = Len(Prelude) + 1 /\ ~Holds(cmds, "EVAL")
<1>1. CASE conf.password /\ conf.database
  BY <1>1 DEF Prelude, Holds
<1>2. CASE conf.password /\ ~conf.database
  BY <1>2 DEF Prelude, Holds
<1>3. CASE ~conf.password /\ conf.database
  BY <1>3 DEF Prelude, Holds
<1>4. CASE ~conf.password /\ ~conf.database
  BY <1>4 DEF Prelude, Holds
<1> QED
  BY <1>1, <1>2, <1>3, <1>4

\* A write moves commands from one queue to the other.
LEMMA SendKeeps ==
    ASSUME inbox \in Seq(Commands), NEW cmds \in Seq(Commands),
           NEW k \in 0..Len(cmds),
           inbox' = inbox \o SubSeq(cmds, 1, k),
           unsent' = SubSeq(cmds, k + 1, Len(cmds))
    PROVE  /\ Len(inbox') + Len(unsent') = Len(inbox) + Len(cmds)
           /\ \A c : Holds(inbox', c) \/ Holds(unsent', c)
                       <=> Holds(inbox, c) \/ Holds(cmds, c)
<1> DEFINE p == SubSeq(cmds, 1, k)
<1>1. /\ p \in Seq(Commands) /\ Len(p) = k /\ \A i \in 1..k : p[i] = cmds[i]
  BY PrefixFacts
<1>2. /\ unsent' \in Seq(Commands) /\ Len(unsent') = Len(cmds) - k
      /\ \A i \in 1..(Len(cmds) - k) : unsent'[i] = cmds[k + i]
  BY SuffixFacts
<1>3. Len(cmds) \in Nat /\ Len(inbox) \in Nat
  BY LenProperties
<1> HIDE DEF p
<1>4. /\ Len(inbox \o p) = Len(inbox) + Len(p)
      /\ \A i \in 1..Len(inbox) + Len(p) :
           (inbox \o p)[i] = IF i <= Len(inbox) THEN inbox[i] ELSE p[i - Len(inbox)]
  BY <1>1, ConcatProperties
<1>5. inbox' = inbox \o p
  BY DEF p
<1>6. ASSUME NEW c, Holds(inbox', c) PROVE Holds(inbox, c) \/ Holds(cmds, c)
  <2>1. PICK i \in 1..Len(inbox') : inbox'[i] = c
    BY <1>6 DEF Holds
  <2>2. CASE i <= Len(inbox)
    <3>1. i \in 1..Len(inbox) /\ inbox[i] = c
      BY <1>1, <1>3, <1>4, <1>5, <2>1, <2>2
    <3> QED
      BY <3>1 DEF Holds
  <2>3. CASE ~(i <= Len(inbox))
    <3>1. i - Len(inbox) \in 1..k /\ p[i - Len(inbox)] = c
      BY <1>1, <1>3, <1>4, <1>5, <2>1, <2>3
    <3>2. i - Len(inbox) \in 1..Len(cmds) /\ cmds[i - Len(inbox)] = c
      BY <1>1, <1>3, <3>1
    <3> QED
      BY <3>2 DEF Holds
  <2> QED
    BY <2>2, <2>3
<1>7. ASSUME NEW c, Holds(unsent', c) PROVE Holds(cmds, c)
  <2>1. PICK i \in 1..Len(unsent') : unsent'[i] = c
    BY <1>7 DEF Holds
  <2>2. k + i \in 1..Len(cmds) /\ cmds[k + i] = c
    BY <1>2, <1>3, <2>1
  <2> QED
    BY <2>2 DEF Holds
<1>8. ASSUME NEW c, Holds(inbox, c) PROVE Holds(inbox', c)
  <2>1. PICK i \in 1..Len(inbox) : inbox[i] = c
    BY <1>8 DEF Holds
  <2>2. i \in 1..Len(inbox') /\ inbox'[i] = c
    BY <1>1, <1>3, <1>4, <1>5, <2>1
  <2> QED
    BY <2>2 DEF Holds
<1>9. ASSUME NEW c, Holds(cmds, c) PROVE Holds(inbox', c) \/ Holds(unsent', c)
  <2>1. PICK i \in 1..Len(cmds) : cmds[i] = c
    BY <1>9 DEF Holds
  <2>2. CASE i <= k
    <3>1. /\ Len(inbox) + i \in 1..(Len(inbox) + Len(p)) /\ i \in 1..k
          /\ ~(Len(inbox) + i <= Len(inbox)) /\ (Len(inbox) + i) - Len(inbox) = i
      BY <1>1, <1>3, <2>2
    <3>2. Len(inbox) + i \in 1..Len(inbox') /\ inbox'[Len(inbox) + i] = c
      BY <1>1, <1>4, <1>5, <2>1, <3>1
    <3> QED
      BY <3>2 DEF Holds
  <2>3. CASE ~(i <= k)
    <3>1. i - k \in 1..Len(unsent') /\ i - k \in 1..(Len(cmds) - k) /\ k + (i - k) = i
      BY <1>2, <1>3, <2>3
    <3>2. unsent'[i - k] = c
      BY <1>2, <2>1, <3>1
    <3> QED
      BY <3>1, <3>2 DEF Holds
  <2> QED
    BY <2>2, <2>3
<1>10. Len(inbox') + Len(unsent') = Len(inbox) + Len(cmds)
  <2>1. Len(inbox') = Len(inbox) + k
    <3>1. Len(p) = k /\ Len(inbox \o p) = Len(inbox) + Len(p)
      BY <1>1, <1>4
    <3> QED
      BY <1>5, <3>1, Zenon
  <2>2. Len(unsent') = Len(cmds) - k
    BY <1>2
  <2>3. \A h, l \in Nat : (h + k) + (l - k) = h + l
    OBVIOUS
  <2> QED
    BY <1>3, <2>1, <2>2, <2>3
<1> QED
  BY <1>6, <1>7, <1>8, <1>9, <1>10

LEMMA PendingHolds ==
    ASSUME TypeOK, QueueInv
    PROVE  Pending <=> \E c \in {"EVALSHA", "EVAL"} : Holds(inbox, c) \/ Holds(unsent, c)
<1>1. unsent # <<>> => Len(unsent) \in 1..Len(unsent) /\ Script(unsent[Len(unsent)])
  <2>1. unsent # <<>> => Len(unsent) \in 1..Len(unsent)
    BY EmptySeq DEF TypeOK
  <2> QED
    BY <2>1 DEF QueueInv
<1>2. \A c : Holds(unsent, c) => unsent # <<>>
  <2>1. Len(<<>>) = 0
    BY EmptySeq
  <2> QED
    BY <2>1 DEF Holds
<1> QED
  BY <1>1, <1>2 DEF Pending, Script, Holds

LEMMA HandlerBeginsR == ASSUME IInv, IInv', RInv, HandlerBegins PROVE RInv'
<1> DEFINE cmds == Prelude \o <<"EVALSHA">>
<1> USE DEF HandlerBegins, Pipeline, Commit, Checks, upVars, redisVars
<1>1. /\ ~done /\ TypeOK /\ RefsInv /\ SettledInv /\ QueueInv'
      /\ done \in BOOLEAN
  BY DEF IInv, RInv, TypeOK, FlagsOK
<1>2. /\ peer = "up" /\ ~broken /\ headers = "none" /\ ~eval_fallback
      /\ inbox = <<>> /\ pstate = 0 /\ read_handler = "header"
      /\ buf = <<>> /\ sock = <<>> /\ inflight = <<>>
  BY <1>1 DEF RefsInv, SettledInv
<1>3. /\ cmds \in Seq(Commands) /\ cmds # <<>> /\ Len(Prelude) \in 0..2
      /\ Len(cmds) = Len(Prelude) + 1 /\ ~Holds(cmds, "EVAL")
      /\ \A i \in 1..Len(cmds) : Script(cmds[i]) <=> i = Len(cmds)
  BY PipelineFacts, PipelineNames
<1>4. /\ Len(inbox') + Len(unsent') = Len(cmds)
      /\ \A c : Holds(inbox', c) \/ Holds(unsent', c) => Holds(cmds, c)
      /\ \/ conn' = "connecting" /\ inbox' = <<>> /\ unsent' = cmds
         \/ conn' = "open"
      /\ Pending'
  <2> HIDE DEF cmds
  <2>1. <<>> \in Seq(Commands) /\ Len(<<>>) = 0 /\ \A c : ~Holds(<<>>, c)
    BY EmptySeq DEF Holds
  <2>2. \/ conn' = "connecting" /\ unsent' = cmds /\ UNCHANGED inbox
        \/ conn' = "open" /\ \E k \in 0..Len(cmds) : StockSend(cmds, k)
    BY DEF Connect, cmds
  <2>3. CASE conn' = "connecting" /\ unsent' = cmds /\ UNCHANGED inbox
    BY <1>2, <1>3, <2>1, <2>3 DEF Pending
  <2>4. ASSUME conn' = "open", NEW k \in 0..Len(cmds), StockSend(cmds, k)
        PROVE  /\ Len(inbox') + Len(unsent') = Len(cmds)
               /\ \A c : Holds(inbox', c) \/ Holds(unsent', c) => Holds(cmds, c)
               /\ Pending'
    <3>1. /\ inbox' = inbox \o SubSeq(cmds, 1, k)
          /\ unsent' = SubSeq(cmds, k + 1, Len(cmds))
      BY <2>4 DEF StockSend
    <3>2. inbox \in Seq(Commands) /\ Len(inbox) = 0
          /\ \A i \in 1..Len(inbox) : ~Script(inbox[i])
      BY <1>2, <2>1
    <3>3. /\ Len(inbox') + Len(unsent') = Len(inbox) + Len(cmds)
          /\ \A c : Holds(inbox', c) \/ Holds(unsent', c)
                      <=> Holds(inbox, c) \/ Holds(cmds, c)
      BY <1>3, <3>1, <3>2, SendKeeps
    <3>4. Pending'
      BY <1>3, <2>4, <3>2, SendFacts DEF Pending
    <3>5. Len(cmds) \in Nat
      BY <1>3
    <3> QED
      BY <1>2, <2>1, <3>2, <3>3, <3>4, <3>5
  <2> QED
    BY <2>2, <2>3, <2>4
<1> HIDE DEF cmds
<1>5. /\ Len(Stream') = 0 /\ Base' = -2 * Len(Prelude) /\ engine' = "await"
      /\ eval_fallback' = eval_fallback /\ broken' = broken
  <2>1. Stream' = <<>> \o <<>> \o <<>>
    BY <1>2 DEF Stream
  <2>2. Len(<<>> \o <<>> \o <<>>) = 0
    OBVIOUS
  <2> QED
    BY <1>2, <2>1, <2>2 DEF Base
<1>6. LinkInv'
  BY <1>2, <1>3, <1>4, <1>5 DEF LinkInv
<1>7. GrammarInv' /\ FaultInv'
  <2>1. Base' \in Int /\ Base' <= 4
    BY <1>3, <1>5
  <2>2. \A b \in Int : b <= 4 => WellFormed(Stream', b)
    BY <1>5 DEF WellFormed
  <2>3. ~Holds(Stream', "-") /\ ~Holds(Stream', "x") /\ ~Holds(Stream', "-NOSCRIPT")
    BY <1>5 DEF Holds
  <2> QED
    BY <1>2, <1>5, <2>1, <2>2, <2>3 DEF GrammarInv, FaultInv, WellFormed, Bad, Holds
<1>8. CountInv'
  BY <1>3, <1>4, <1>5 DEF CountInv
<1> QED
  BY <1>5, <1>6, <1>7, <1>8, AwaitSuffices

-----------------------------------------------------------------------------
(* Writing.                                                                *)

LEMMA WriteR ==
    ASSUME IInv, IInv', RInv, StockWrite \/ EvalWrite
    PROVE  RInv'
<1>1. /\ TypeOK /\ LinkInv /\ GrammarInv /\ CountInv /\ FaultInv
      /\ inbox \in Seq(Commands) /\ unsent \in Seq(Commands)
      /\ Len(unsent) \in Nat /\ engine = "await" /\ engine' = "await"
      /\ QueueInv /\ QueueInv'
  BY DEF IInv, RInv, TypeOK, StockWrite, EvalWrite, WorkerFree, reqVars
<1>2. \E k \in 0..Len(unsent) :
        /\ inbox' = inbox \o SubSeq(unsent, 1, k)
        /\ unsent' = SubSeq(unsent, k + 1, Len(unsent))
  <2>1. CASE StockWrite
    BY <2>1 DEF StockWrite, StockSend
  <2>2. CASE EvalWrite
    <3>1. SubSeq(unsent, 1, Len(unsent)) = unsent
      BY <1>1, SubSeqFull
    <3>2. SubSeq(unsent, Len(unsent) + 1, Len(unsent)) = <<>>
      BY <1>1, SubSeqEmpty
    <3>3. Len(unsent) \in 0..Len(unsent) /\ inbox' = inbox \o unsent /\ unsent' = <<>>
      BY <1>1, <2>2 DEF EvalWrite
    <3> QED
      BY <3>1, <3>2, <3>3
  <2> QED
    BY <2>1, <2>2
<1>3. /\ Len(inbox') + Len(unsent') = Len(inbox) + Len(unsent)
      /\ \A c : Holds(inbox', c) \/ Holds(unsent', c)
                  <=> Holds(inbox, c) \/ Holds(unsent, c)
  BY <1>1, <1>2, SendKeeps
<1>4. /\ UNCHANGED <<pstate, headers, read_handler, buf, sock, inflight, peer,
                     prelude_replies, eval_fallback, broken>>
      /\ conn' = "open"
  <2>1. CASE StockWrite
    BY <2>1 DEF StockWrite, ctxVars, upVars, histVars
  <2>2. CASE EvalWrite
    BY <2>2 DEF EvalWrite, ctxVars, histVars
  <2> QED
    BY <2>1, <2>2
<1>5. Stream' = Stream /\ Base' = Base
  BY <1>4 DEF Stream, Base
<1>6. Pending' <=> Pending
  <2>1. TypeOK /\ QueueInv /\ TypeOK' /\ QueueInv'
    BY DEF IInv
  <2>2. Pending <=> \E c \in {"EVALSHA", "EVAL"} : Holds(inbox, c) \/ Holds(unsent, c)
    BY <2>1, PendingHolds
  <2>3. Pending' <=> \E c \in {"EVALSHA", "EVAL"} : Holds(inbox', c) \/ Holds(unsent', c)
    <3>1. (TypeOK /\ QueueInv
             => (Pending <=> \E c \in {"EVALSHA", "EVAL"} :
                               Holds(inbox, c) \/ Holds(unsent, c)))'
      BY PendingHolds, PTL
    <3> QED
      BY <2>1, <3>1
  <2> QED
    BY <1>3, <2>2, <2>3
<1>7. inbox' # <<>> => Pending'
  <2>1. CASE inbox = <<>> /\ unsent = <<>>
    <3>1. Len(inbox') + Len(unsent') = 0 /\ inbox' \in Seq(Commands) /\ unsent' \in Seq(Commands)
      BY <1>1, <1>3, <2>1, EmptySeq DEF IInv, TypeOK
    <3>2. Len(inbox') \in Nat /\ Len(unsent') \in Nat
      BY <3>1, LenProperties
    <3> QED
      BY <3>1, <3>2, EmptySeq
  <2>2. CASE ~(inbox = <<>> /\ unsent = <<>>)
    BY <1>1, <1>6, <2>2 DEF LinkInv, Pending
  <2> QED
    BY <2>1, <2>2
<1>8. LinkInv'
  BY <1>1, <1>3, <1>4, <1>7 DEF LinkInv
<1>9. GrammarInv' /\ FaultInv'
  BY <1>1, <1>4, <1>5 DEF GrammarInv, FaultInv, WellFormed, Bad, Holds
<1>10. CountInv'
  BY <1>1, <1>3, <1>4, <1>5, <1>6 DEF CountInv
<1> QED
  BY <1>1, <1>8, <1>9, <1>10, AwaitSuffices

-----------------------------------------------------------------------------
(* Redis and the network.                                                  *)

LEMMA ArriveR == ASSUME IInv, IInv', RInv, Arrive PROVE RInv'
<1>1. /\ buf \in Seq(Tokens) /\ sock \in Seq(Tokens) /\ inflight \in Seq(Tokens)
      /\ Len(inflight) \in Nat
  BY LenProperties DEF IInv, TypeOK
<1>2. PICK k \in 1..Len(inflight) :
        /\ sock' = sock \o SubSeq(inflight, 1, k)
        /\ inflight' = SubSeq(inflight, k + 1, Len(inflight))
  BY DEF Arrive
<1> DEFINE p == SubSeq(inflight, 1, k)
           q == SubSeq(inflight, k + 1, Len(inflight))
<1>3. p \in Seq(Tokens) /\ q \in Seq(Tokens) /\ p \o q = inflight
  <2>1. /\ k \in 0..Len(inflight) /\ 1 \in 1..(Len(inflight) + 1)
        /\ k \in (1-1)..Len(inflight) /\ Len(inflight) \in k..Len(inflight)
    BY <1>1
  <2>2. p \o q = SubSeq(inflight, 1, Len(inflight))
    BY <1>1, <2>1, ConcatAdjacentSubSeq
  <2>3. p \in Seq(Tokens) /\ q \in Seq(Tokens)
    BY <1>1, <2>1, PrefixFacts, SuffixFacts
  <2> QED
    BY <1>1, <2>2, <2>3, SubSeqFull
<1>4. /\ UNCHANGED <<engine, done, eval_fallback, prelude_replies, pstate,
                     read_handler, buf, conn, unsent, inbox, peer, ruling, histVars>>
      /\ sock' = sock \o p /\ inflight' = q /\ conn = "open"
  BY <1>2 DEF Arrive, reqVars, ctxVars, upVars, redisVars
<1> HIDE DEF p, q
<1>5. Stream' = Stream
  <2>0. /\ buf \in Seq(Tokens) /\ sock \in Seq(Tokens)
        /\ p \in Seq(Tokens) /\ q \in Seq(Tokens)
    BY <1>1, <1>3
  <2>1. sock \o (p \o q) = (sock \o p) \o q
    BY <2>0, TokensAssociative
  <2>2. (buf \o sock) \o inflight = buf \o (sock \o inflight)
    <3>1. buf \in Seq(Tokens) /\ sock \in Seq(Tokens) /\ inflight \in Seq(Tokens)
      BY <1>1
    <3> QED
      BY <3>1, TokensAssociative
  <2>3. (buf \o (sock \o p)) \o q = buf \o ((sock \o p) \o q)
    <3>1. sock \o p \in Seq(Tokens)
      BY <2>0, ConcatProperties
    <3> DEFINE w == sock \o p
    <3>2. w \in Seq(Tokens)
      BY <3>1
    <3> HIDE DEF w
    <3>3. (buf \o w) \o q = buf \o (w \o q)
      BY <2>0, <3>2, TokensAssociative
    <3> QED
      BY <3>3 DEF w
  <2>4. Stream = (buf \o sock) \o inflight
    BY DEF Stream
  <2>5. Stream' = (buf \o (sock \o p)) \o q
    BY <1>4 DEF Stream
  <2> QED
    BY <1>3, <2>1, <2>2, <2>3, <2>4, <2>5
<1>6. Base' = Base /\ (Pending' <=> Pending)
  BY <1>4 DEF Base, Pending
<1> USE DEF histVars
<1>7. LinkInv' /\ CountInv'
  BY <1>4, <1>5, <1>6 DEF RInv, LinkInv, CountInv, Holds
<1>8. GrammarInv'
  BY <1>4, <1>5, <1>6 DEF RInv, GrammarInv, WellFormed
<1>9. FaultInv'
  BY <1>4, <1>5 DEF RInv, FaultInv, Bad, Holds
<1>10. SettledInv'
  BY <1>4 DEF RInv, SettledInv, PooledClean, HeadersReal, RejectSound
<1> QED
  BY <1>7, <1>8, <1>9, <1>10 DEF RInv

\* A broken connection cuts the stream, and with it the last counter.
LEMMA PeerDropsR == ASSUME IInv, IInv', RInv, PeerDrops PROVE RInv'
<1>1. /\ UNCHANGED <<engine, done, eval_fallback, prelude_replies, pstate,
                     read_handler, buf, sock, conn, unsent, ruling, histVars>>
      /\ peer = "up" /\ peer' = "gone" /\ conn = "open"
      /\ inflight' \in {inflight, <<>>} /\ inbox' \in {inbox, <<>>}
  BY DEF PeerDrops, reqVars, ctxVars, upVars, redisVars
<1>2. /\ TypeOK /\ LinkInv /\ GrammarInv /\ FaultInv /\ SettledInv /\ RefsInv
      /\ done \in BOOLEAN
  BY DEF IInv, RInv, TypeOK, FlagsOK
<1>3. SettledInv'
  <2>1. done
    BY <1>1, <1>2 DEF RefsInv
  <2> QED
    BY <1>1, <1>2, <2>1 DEF SettledInv, PooledClean, HeadersReal, RejectSound, histVars
<1>4. CASE engine # "await"
  BY <1>1, <1>3, <1>4, SettledSuffices
<1>5. CASE engine = "await"
  <2>1. /\ Stream \in Seq(Tokens) /\ Len(Stream) \in Nat /\ Base \in Int
        /\ Base \in -4..3 /\ Base' = Base
    BY <1>1, <1>2, <1>5, StreamFacts, BaseFacts DEF LinkInv, Base
  <2>2. /\ Stream' \in Seq(Tokens) /\ Len(Stream') <= Len(Stream)
        /\ \A i \in 1..Len(Stream') : i \in 1..Len(Stream) /\ Stream'[i] = Stream[i]
        /\ Stream' = Stream \/ Len(Stream') < Len(Stream)
    <3>1. CASE inflight' = inflight
      <4>1. Stream' = Stream
        BY <1>1, <3>1 DEF Stream
      <4> QED
        BY <2>1, <4>1
    <3>2. CASE inflight' = <<>> /\ inflight # <<>>
      <4>1. /\ buf \in Seq(Tokens) /\ sock \in Seq(Tokens) /\ inflight \in Seq(Tokens)
            /\ <<>> \in Seq(Tokens) /\ Len(<<>>) = 0 /\ Len(inflight) \in Nat \ {0}
        BY <1>2, <3>2, EmptySeq DEF TypeOK
      <4>2. Stream' = buf \o sock \o <<>>
        BY <1>1, <3>2 DEF Stream
      <4>3. /\ Stream' \in Seq(Tokens) /\ Len(buf) \in Nat /\ Len(sock) \in Nat
            /\ Len(Stream') = Len(buf) + Len(sock) + Len(<<>>)
            /\ \A i \in 1..Len(buf) : Stream'[i] = buf[i]
            /\ \A i \in 1..Len(sock) : Stream'[Len(buf) + i] = sock[i]
        BY <4>1, <4>2, ThreeFacts
      <4>4. /\ Len(Stream) = Len(buf) + Len(sock) + Len(inflight)
            /\ \A i \in 1..Len(buf) : Stream[i] = buf[i]
            /\ \A i \in 1..Len(sock) : Stream[Len(buf) + i] = sock[i]
        <5>1. Stream = buf \o sock \o inflight
          BY DEF Stream
        <5> QED
          BY <4>1, <5>1, ThreeFacts
      <4>5. ASSUME NEW i \in 1..Len(Stream')
            PROVE  i \in 1..Len(Stream) /\ Stream'[i] = Stream[i]
        <5>1. i \in 1..Len(buf) \/ i - Len(buf) \in 1..Len(sock)
          BY <4>1, <4>3
        <5>2. /\ i \in 1..Len(Stream) /\ Len(buf) + (i - Len(buf)) = i
          BY <4>1, <4>3, <4>4
        <5> QED
          BY <4>3, <4>4, <5>1, <5>2
      <4>6. Len(Stream') < Len(Stream)
        BY <4>1, <4>3, <4>4
      <4> QED
        BY <2>1, <4>3, <4>5, <4>6
    <3> QED
      BY <1>1, <3>1, <3>2
  <2>3. GrammarInv'
    <3>1. WellFormed(Stream, Base)
      BY <1>2, <1>5 DEF GrammarInv
    <3>2. \A i \in 1..Len(Stream') : Stream'[i] = Stream[i]
      BY <2>2
    <3>3. WellFormed(Stream', Base)
      BY <2>1, <2>2, <3>1, <3>2, PrefixWellFormed
    <3> QED
      BY <2>1, <3>3 DEF GrammarInv, WellFormed
  <2>4. FaultInv'
    <3>1. \A t : Holds(Stream', t) => Holds(Stream, t)
      BY <2>2 DEF Holds
    <3>2. Stream' = Stream \/ ~Holds(Stream', "ctr")
      <4>1. SUFFICES ASSUME Len(Stream') < Len(Stream),
                            NEW i \in 1..Len(Stream'), Stream'[i] = "ctr"
                     PROVE  FALSE
        BY <2>2 DEF Holds
      <4>2. i \in 1..Len(Stream) /\ Stream[i] = "ctr"
        BY <2>2, <4>1
      <4>3. i = Len(Stream)
        BY <1>2, <1>5, <2>1, <4>2, CounterIsLast DEF GrammarInv
      <4>4. Len(Stream') \in Nat
        BY <2>2, LenProperties
      <4> QED
        BY <2>1, <4>1, <4>3, <4>4
    <3>3. Bad(Stream') => Bad(Stream)
      BY <3>1 DEF Bad
    <3>4. UNCHANGED <<broken, eval_fallback>>
      BY <1>1 DEF histVars
    <3>5. Stream' = Stream => (broken => Bad(Stream'))
      BY <1>1, <1>2, <1>5 DEF FaultInv
    <3>6. (Bad(Stream')) <=> Bad(Stream)'
      BY <3>4 DEF Bad, Holds
    <3>7. (Holds(Stream', "ctr")) <=> Holds(Stream, "ctr")'
      BY DEF Holds
    <3> QED
      BY <1>1, <1>2, <1>5, <3>2, <3>3, <3>4, <3>5, <3>6, <3>7 DEF FaultInv
  <2>5. LinkInv'
    <3>1. /\ <<>> \in Seq(Commands) /\ \A c : ~Holds(<<>>, c)
      BY EmptySeq DEF Holds
    <3>2. \A c : Holds(inbox', c) => Holds(inbox, c)
      BY <1>1, <3>1
    <3>3. inbox' # <<>> => inbox' = inbox /\ (Pending' <=> Pending)
      BY <1>1 DEF Pending
    <3> QED
      BY <1>1, <1>2, <1>5, <3>2, <3>3 DEF LinkInv, histVars, Holds
  <2>6. CountInv'
    BY <1>1 DEF CountInv
  <2> QED
    BY <1>1, <1>5, <2>3, <2>4, <2>5, <2>6, AwaitSuffices
<1> QED
  BY <1>4, <1>5

\* A reply joins the stream at the place its command waits for, and is a
\* fault's only sign.
LEMMA AnswersR ==
    ASSUME IInv, IInv', RInv, inbox # <<>>, NEW reply \in Seq(Tokens), Answers(reply),
           Script(inbox[1]) => WellFormed(reply, 0),
           ~Script(inbox[1]) => /\ \A b \in {-4, -2} : WellFormed(reply, b)
                                /\ Len(reply) = 2 /\ ruling' = ruling,
           broken => broken',
           engine = "await" => (Bad(reply) => broken') /\ (broken' => broken \/ Bad(reply))
    PROVE  RInv'
<1>1. /\ UNCHANGED <<engine, done, eval_fallback, prelude_replies, pstate,
                     read_handler, buf, sock, conn, unsent, peer, open, outage,
                     answer, headers>>
      /\ inbox' = Tail(inbox)
      /\ inflight' = IF conn = "open" /\ peer = "up" THEN inflight \o reply
                                                     ELSE inflight
  BY DEF Answers, reqVars, ctxVars, upVars
<1>2. /\ TypeOK /\ RefsInv /\ QueueInv /\ NoscriptInv /\ done \in BOOLEAN
      /\ LinkInv /\ GrammarInv /\ CountInv /\ FaultInv /\ SettledInv
      /\ inbox \in Seq(Commands) /\ Len(inbox) \in Nat \ {0} /\ Len(unsent) \in Nat
      /\ unsent \in Seq(Commands)
  <2>1. TypeOK
    BY DEF IInv
  <2>2. /\ inbox \in Seq(Commands) /\ Len(inbox) \in Nat \ {0} /\ Len(unsent) \in Nat
        /\ unsent \in Seq(Commands)
    BY <2>1, EmptySeq, LenProperties DEF TypeOK
  <2> QED
    BY <2>1, <2>2 DEF IInv, RInv, TypeOK, FlagsOK
<1>3. /\ Script(inbox[1]) => Pending /\ ~Pending' /\ inbox' = <<>> /\ ruling = "none"
      /\ ~Script(inbox[1]) => (Pending' <=> Pending)
  <2>1. /\ Script(inbox[1]) => Pending /\ ~Pending' /\ inbox' = <<>>
        /\ ~Script(inbox[1]) => (Pending' <=> Pending)
    BY <1>2, AnswerFacts
  <2> QED
    BY <1>2, <2>1 DEF QueueInv
<1>4. CASE engine # "await"
  <2>1. done /\ headers = "none" /\ conn # "pooled"
        /\ (answer = "pass" => open /\ outage)
    BY <1>2 DEF RefsInv, SettledInv, PooledClean
  <2>2. RejectSound'
    <3>1. RejectSound
      BY <1>2 DEF SettledInv
    <3> QED
      BY <1>1, <1>3, <3>1 DEF RejectSound
  <2>3. SettledInv'
    BY <1>1, <2>1, <2>2 DEF SettledInv, PooledClean, HeadersReal
  <2> QED
    BY <1>1, <1>4, <2>3, SettledSuffices
<1>5. CASE engine = "await"
  <2>1. /\ conn = "open" /\ Pending /\ read_handler = "header" /\ Absent("*")
        /\ pstate <= 2
    BY <1>2, <1>5 DEF LinkInv, QueueInv
  <2>2. /\ Stream \in Seq(Tokens) /\ Len(Stream) \in Nat /\ Base \in -4..0
        /\ Base' = Base /\ WellFormed(Stream, Base) /\ ~Holds(Stream, "*")
        /\ Base = -2 * prelude_replies /\ prelude_replies \in 0..2
    BY <1>1, <1>2, <1>5, <2>1, StreamFacts, BaseFacts DEF Base, GrammarInv, TypeOK
  <2>3. Len(inbox') = Len(inbox) - 1 /\ \A c : Holds(inbox', c) => Holds(inbox, c)
    <3>1. /\ Len(Tail(inbox)) = Len(inbox) - 1
          /\ \A i \in 1..Len(Tail(inbox)) : Tail(inbox)[i] = inbox[i + 1]
      BY <1>2, HeadTailProperties
    <3>2. \A i \in 1..Len(Tail(inbox)) : i + 1 \in 1..Len(inbox)
      BY <1>2, <3>1
    <3> QED
      BY <1>1, <3>1, <3>2 DEF Holds
  <2>4. LinkInv'
    BY <1>1, <1>2, <1>3, <1>5, <2>1, <2>3 DEF LinkInv, Holds
  <2>5. CASE peer = "gone"
    <3>1. Stream' = Stream
      BY <1>1, <2>5 DEF Stream
    <3>2. ~Holds(Stream, "ctr")
      BY <2>2, CounterHasStar
    <3>3. GrammarInv'
      BY <1>1, <2>2, <3>1 DEF GrammarInv, WellFormed
    <3>4. FaultInv'
      BY <1>1, <1>2, <1>5, <2>5, <3>1, <3>2 DEF FaultInv, Bad, Holds
    <3>5. CountInv'
      BY <1>1, <2>5 DEF CountInv
    <3> QED
      BY <1>1, <1>5, <2>4, <3>3, <3>4, <3>5, AwaitSuffices
  <2>6. CASE peer = "up"
    <3>1. Stream' = Stream \o reply
      <4>1. Stream' = (buf \o sock) \o (inflight \o reply)
        BY <1>1, <2>1, <2>6 DEF Stream
      <4> DEFINE front == buf \o sock
      <4>2. front \in Seq(Tokens) /\ inflight \in Seq(Tokens)
        <5>1. buf \in Seq(Tokens) /\ sock \in Seq(Tokens)
          BY <1>2 DEF TypeOK
        <5>2. inflight \in Seq(Tokens)
          BY <1>2 DEF TypeOK
        <5> QED
          BY <5>1, <5>2, ConcatProperties
      <4> HIDE DEF front
      <4>3. (front \o inflight) \o reply = front \o (inflight \o reply)
        BY <4>2, TokensAssociative
      <4> QED
        BY <4>1, <4>3 DEF Stream, front
    <3>2. Base + Len(Stream) + 2 * (Len(inbox) + Len(unsent)) = 2
      BY <1>2, <1>5, <2>1, <2>6 DEF CountInv
    <3>3. Script(inbox[1]) => Base + Len(Stream) = 0
      <4>1. SUFFICES ASSUME Script(inbox[1]) PROVE Base + Len(Stream) = 0
        OBVIOUS
      <4>2. 1 \in 1..Len(inbox)
        BY <1>2
      <4>3. Len(inbox) = 1 /\ unsent = <<>>
        BY <1>2, <4>1, <4>2 DEF QueueInv
      <4>4. Len(unsent) = 0
        BY <4>3, EmptySeq
      <4> QED
        BY <2>2, <3>2, <4>3, <4>4
    <3>4. ~Script(inbox[1]) => Base + Len(Stream) \in {-4, -2}
      <4>1. SUFFICES ASSUME ~Script(inbox[1]) PROVE Base + Len(Stream) \in {-4, -2}
        OBVIOUS
      <4>2. Len(inbox) + Len(unsent) >= 2
        <5>1. CASE unsent # <<>>
          <6>1. Len(unsent) \in Nat \ {0}
            BY <1>2, <5>1, EmptySeq
          <6> QED
            BY <1>2, <6>1
        <5>2. CASE unsent = <<>>
          <6>1. PICK i \in 1..Len(inbox) : Script(inbox[i])
            BY <2>1, <5>2 DEF Pending
          <6>2. i # 1
            BY <4>1, <6>1
          <6> QED
            BY <1>2, <6>1, <6>2
        <5> QED
          BY <5>1, <5>2
      <4> DEFINE n == Len(inbox) + Len(unsent)
      <4>3. n \in Nat /\ n >= 2
        BY <1>2, <4>2
      <4>4. Base + Len(Stream) + 2 * n = 2
        BY <3>2
      <4> HIDE DEF n
      <4>5. Base + Len(Stream) \in Int /\ Base + Len(Stream) >= -4
        BY <2>2
      <4>6. \A x \in Int : x + 2 * n = 2 /\ x >= -4 => x \in {-4, -2}
        BY <4>3
      <4> QED
        BY <2>2, <4>4, <4>5, <4>6
    <3>5. Base + Len(Stream) \in {-4, -2, 0} /\ WellFormed(reply, Base + Len(Stream))
      BY <3>3, <3>4
    <3>6. /\ Stream' \in Seq(Tokens) /\ Len(Stream') = Len(Stream) + Len(reply)
          /\ WellFormed(Stream', Base)
          /\ Bad(Stream') <=> Bad(Stream) \/ Bad(reply)
      <4>1. Base \in Int /\ Base + Len(Stream) \notin {1, 2}
        BY <2>2, <3>5
      <4> QED
        BY <2>2, <3>1, <3>5, <4>1, JoinWellFormed
    <3>7. GrammarInv'
      BY <2>2, <3>6 DEF GrammarInv, WellFormed
    <3>8. FaultInv'
      <4>1. Bad(Stream') <=> Bad(Stream)'
        BY <1>1 DEF Bad, Holds
      <4>2. (Bad(Stream) => broken) /\ (broken => Bad(Stream))
        BY <1>2, <1>5, <2>6 DEF FaultInv
      <4> QED
        BY <1>1, <1>5, <3>6, <4>1, <4>2 DEF FaultInv
    <3>9. CountInv'
      <4>1. SUFFICES ASSUME Pending'
                     PROVE  Base' + Len(Stream') + 2 * (Len(inbox') + Len(unsent')) = 2
        BY DEF CountInv
      <4>2. Len(reply) = 2
        BY <1>3, <4>1
      <4>3. /\ Base' = Base /\ Len(Stream') = Len(Stream) + 2
            /\ Len(inbox') = Len(inbox) - 1 /\ Len(unsent') = Len(unsent)
        BY <1>1, <2>2, <2>3, <3>6, <4>2
      <4> QED
        BY <1>2, <2>2, <3>2, <4>3
    <3> QED
      BY <1>1, <1>5, <2>4, <3>7, <3>8, <3>9, AwaitSuffices
  <2> QED
    BY <1>2, <2>5, <2>6 DEF TypeOK
<1> QED
  BY <1>4, <1>5

LEMMA RedisR ==
    ASSUME IInv, IInv', RInv,
           RedisPrelude \/ RedisNoscript \/ RedisError \/ RedisRuns
    PROVE  RInv'
<1>1. inbox # <<>> /\ broken \in BOOLEAN
  BY DEF RedisPrelude, RedisNoscript, RedisError, RedisRuns, Serves, IInv,
         TypeOK, FlagsOK
<1>2. 1 \in 1..Len(inbox)
  BY <1>1, EmptySeq DEF IInv, TypeOK
<1>3. engine = "await" => /\ inbox[1] = "EVALSHA" => ~eval_fallback
                          /\ inbox[1] = "EVAL" => eval_fallback
  BY <1>2 DEF RInv, LinkInv, Holds
<1>4. CASE RedisPrelude
  <2>1. /\ ~Script(inbox[1]) /\ ruling' = ruling
        /\ \/ Answers(<<"+", "LF">>) /\ broken' = broken
           \/ Answers(<<"-", "LF">>) /\ broken' = TRUE
    BY <1>4 DEF RedisPrelude, Serves, Script
  <2>2. /\ <<"+", "LF">> # <<"-", "LF">>
        /\ \A r \in {<<"+", "LF">>, <<"-", "LF">>} :
             /\ r \in Seq(Tokens) /\ Len(r) = 2
             /\ \A b \in {-4, -2} : WellFormed(r, b)
             /\ Bad(r) <=> r = <<"-", "LF">>
    BY PreludeShapes
  <2>3. CASE Answers(<<"+", "LF">>) /\ broken' = broken
    BY <1>1, <2>1, <2>2, <2>3, AnswersR
  <2>4. CASE Answers(<<"-", "LF">>) /\ broken' = TRUE
    BY <1>1, <2>1, <2>2, <2>4, AnswersR
  <2> QED
    BY <2>1, <2>3, <2>4
<1>5. CASE RedisNoscript \/ RedisError
  <2>1. /\ Script(inbox[1])
        /\ \/ Answers(<<"-", "LF">>) /\ broken' = TRUE
           \/ Answers(<<"-NOSCRIPT", "LF">>) /\ inbox[1] = "EVAL" /\ broken' = TRUE
           \/ Answers(<<"-NOSCRIPT", "LF">>) /\ inbox[1] = "EVALSHA" /\ broken' = broken
    BY <1>5 DEF RedisNoscript, RedisError, Serves, Script
  <2>2. /\ <<"-", "LF">> # <<"-NOSCRIPT", "LF">>
        /\ \A r \in {<<"-", "LF">>, <<"-NOSCRIPT", "LF">>} :
             /\ r \in Seq(Tokens) /\ WellFormed(r, 0)
             /\ Bad(r) <=> r = <<"-", "LF">> \/ eval_fallback
    BY ScriptShapes
  <2>3. CASE Answers(<<"-", "LF">>) /\ broken' = TRUE
    BY <1>1, <2>1, <2>2, <2>3, AnswersR
  <2>4. CASE Answers(<<"-NOSCRIPT", "LF">>) /\ inbox[1] = "EVAL" /\ broken' = TRUE
    BY <1>1, <1>3, <2>1, <2>2, <2>4, AnswersR
  <2>5. CASE Answers(<<"-NOSCRIPT", "LF">>) /\ inbox[1] = "EVALSHA" /\ broken' = broken
    BY <1>1, <1>3, <2>1, <2>2, <2>5, AnswersR
  <2> QED
    BY <2>1, <2>3, <2>4, <2>5
<1>6. CASE RedisRuns
  <2> DEFINE d == IF ruling' = "allow" THEN "0" ELSE "1"
  <2>1. /\ Script(inbox[1]) /\ d \in {"0", "1"}
        /\ \/ Answers(<<"*", "5", d, "ctr">>) /\ broken' = broken
           \/ (\E r \in Malformed(d) : Answers(r)) /\ broken' = TRUE
    BY <1>6 DEF RedisRuns, Serves, Script
  <2> HIDE DEF d
  <2>2. /\ <<"*", "5", d, "ctr">> \in Seq(Tokens)
        /\ WellFormed(<<"*", "5", d, "ctr">>, 0) /\ ~Bad(<<"*", "5", d, "ctr">>)
        /\ \A r \in Malformed(d) : r \in Seq(Tokens) /\ WellFormed(r, 0) /\ Bad(r)
    BY <2>1, ScriptShapes
  <2>3. CASE Answers(<<"*", "5", d, "ctr">>) /\ broken' = broken
    BY <1>1, <2>1, <2>2, <2>3, AnswersR
  <2>4. ASSUME NEW r \in Malformed(d), Answers(r), broken' = TRUE PROVE RInv'
    BY <1>1, <2>1, <2>2, <2>4, AnswersR
  <2> QED
    BY <2>1, <2>3, <2>4
<1> QED
  BY <1>4, <1>5, <1>6

-----------------------------------------------------------------------------
(* Reading.                                                                *)

\* v is w without its first n tokens.
Drops(v, w, n) ==
    /\ n \in 0..Len(w) /\ Len(w) \in Nat /\ Len(v) = Len(w) - n
    /\ \A i \in 1..Len(v) : v[i] = w[n + i]

\* Tokens that are dropped lose what they are, and nothing else.
LEMMA DropFacts ==
    ASSUME NEW w, NEW v, NEW n, Drops(v, w, n)
    PROVE  /\ \A t : Holds(v, t) => Holds(w, t)
           /\ \A t : (\A i \in 1..n : w[i] # t) /\ Holds(w, t) => Holds(v, t)
<1>0. /\ n \in 0..Len(w) /\ Len(w) \in Nat /\ Len(v) = Len(w) - n
      /\ \A i \in 1..Len(v) : v[i] = w[n + i]
  BY DEF Drops
<1>1. ASSUME NEW t, Holds(v, t) PROVE Holds(w, t)
  <2>1. PICK i \in 1..Len(v) : v[i] = t
    BY <1>1 DEF Holds
  <2>2. n + i \in 1..Len(w) /\ w[n + i] = t
    BY <1>0, <2>1
  <2> QED
    BY <2>2 DEF Holds
<1>2. ASSUME NEW t, \A i \in 1..n : w[i] # t, Holds(w, t) PROVE Holds(v, t)
  <2>1. PICK i \in 1..Len(w) : w[i] = t
    BY <1>2 DEF Holds
  <2>2. i - n \in 1..Len(v) /\ n + (i - n) = i
    BY <1>0, <1>2, <2>1
  <2>3. v[i - n] = t
    BY <1>0, <2>1, <2>2
  <2> QED
    BY <2>2, <2>3 DEF Holds
<1> QED
  BY <1>1, <1>2

\* No token among the first n is a fault.
Clean(w, n) == \A i \in 1..n : w[i] \notin {"-", "x", "-NOSCRIPT"}

\* A fault among the rest stays a fault of the stream.
LEMMA DropFaults ==
    ASSUME NEW w, NEW v, NEW n \in 0..Len(w), Len(w) \in Nat, Len(v) = Len(w) - n,
           \A i \in 1..Len(v) : v[i] = w[n + i], Clean(w, n)
    PROVE  (Bad(v) <=> Bad(w)) /\ (Holds(v, "ctr") => Holds(w, "ctr"))
<1>1. /\ \A t : Holds(v, t) => Holds(w, t)
      /\ \A t \in {"-", "x", "-NOSCRIPT"} : Holds(w, t) => Holds(v, t)
  <2>1. \A t \in {"-", "x", "-NOSCRIPT"} : \A i \in 1..n : w[i] # t
    BY DEF Clean
  <2>2. /\ \A t : Holds(v, t) => Holds(w, t)
        /\ \A t : (\A i \in 1..n : w[i] # t) /\ Holds(w, t) => Holds(v, t)
    <3>1. Drops(v, w, n)
      BY DEF Drops
    <3> QED
      BY <3>1, DropFacts
  <2>3. ASSUME NEW t \in {"-", "x", "-NOSCRIPT"}, Holds(w, t) PROVE Holds(v, t)
    <3>1. \A i \in 1..n : w[i] # t
      BY <2>1
    <3> QED
      BY <2>2, <2>3, <3>1
  <2> QED
    BY <2>2, <2>3
<1> QED
  BY <1>1 DEF Bad

\* s, a piece of the stream at the parser's position: what is not acceptable
\* there is a fault, and the last counter is the end of everything.
LEMMA ReplyPlaces ==
    ASSUME NEW w \in Seq(Tokens), NEW b \in -4..3, WellFormed(w, b),
           NEW ps \in 0..2, NEW s \in Seq(Tokens),
           NEW o \in Nat, o + Len(s) <= Len(w),
           \A i \in 1..Len(s) : s[i] = w[o + i],
           b + o = ps + 1, o > 0 /\ ps = 0 => w[o] = "*"
    PROVE  /\ ~Accepts(ps, s) => Holds(w, "x")
           /\ Accepts(ps, s) => \A i \in 1..Len(s) : s[i] \in {"5", "0", "1", "ctr"}
           /\ Accepts(ps, s) /\ Advance(ps, s) = 3 =>
                o + Len(s) = Len(w) /\ Holds(w, "ctr")
           /\ Advance(ps, s) < 3 => Advance(ps, s) = ps + Len(s)
<1>1. Len(s) \in Nat /\ Len(w) \in Nat /\ b + Len(w) <= 4
  BY LenProperties DEF WellFormed
<1>2. Len(s) <= 3 - ps /\ Lesser(Len(s), 3 - ps) = Len(s)
  BY <1>1 DEF Lesser
<1>3. ASSUME NEW i \in 1..Len(s)
      PROVE  /\ o + i \in 1..Len(w) /\ s[i] = w[o + i] /\ b + (o + i) = (ps + 1) + i
             /\ ps + i - 1 \in 0..2
  BY <1>1, <1>2
<1>4. ASSUME NEW i \in 1..Len(s), s[i] \notin Expected(ps + i - 1)
      PROVE  Holds(w, "x")
  <2> DEFINE j == o + i
  <2>1. /\ j \in 1..Len(w) /\ s[i] = w[j] /\ b + j = (ps + 1) + i
        /\ ps + i - 1 \in 0..2
    BY <1>3
  <2>2. CASE ps + i - 1 = 0
    <3>1. ps = 0 /\ i = 1 /\ b + j = 2 /\ j - 1 = o /\ (j > 1 => o > 0)
      BY <2>1, <2>2
    <3>2. w[j] # "5"
      BY <1>4, <2>1, <2>2 DEF Expected
    <3> HIDE DEF j
    <3>3. w[j] = "x"
      BY <2>1, <3>1, <3>2 DEF WellFormed
    <3> QED
      BY <2>1, <3>3 DEF Holds
  <2>3. CASE ps + i - 1 = 1
    <3>1. b + j = 3
      BY <2>1, <2>3
    <3>2. w[j] \notin {"0", "1"}
      BY <1>4, <2>1, <2>3 DEF Expected
    <3> HIDE DEF j
    <3> QED
      BY <2>1, <3>1, <3>2 DEF WellFormed
  <2>4. CASE ps + i - 1 = 2
    <3>1. b + j = 4
      BY <2>1, <2>4
    <3>2. w[j] # "ctr"
      BY <1>4, <2>1, <2>4 DEF Expected
    <3> HIDE DEF j
    <3>3. w[j] = "x"
      BY <2>1, <3>1, <3>2 DEF WellFormed
    <3> QED
      BY <2>1, <3>3 DEF Holds
  <2> QED
    BY <2>1, <2>2, <2>3, <2>4
<1>5. ~Accepts(ps, s) => Holds(w, "x")
  BY <1>2, <1>4 DEF Accepts
<1>6. ASSUME Accepts(ps, s), NEW i \in 1..Len(s)
      PROVE  s[i] \in {"5", "0", "1", "ctr"}
  <2>1. s[i] \in Expected(ps + i - 1)
    BY <1>2, <1>6 DEF Accepts
  <2>2. ps + i - 1 \in 0..2
    BY <1>3
  <2> QED
    BY <2>1, <2>2 DEF Expected
<1>7. ASSUME Accepts(ps, s), Advance(ps, s) = 3
      PROVE  o + Len(s) = Len(w) /\ Holds(w, "ctr")
  <2>1. ps + Len(s) >= 3
    BY <1>1, <1>7 DEF Advance, Lesser
  <2>2. o + Len(s) = Len(w) /\ Len(s) \in 1..Len(s) /\ ps + Len(s) - 1 = 2
    BY <1>1, <1>2, <2>1
  <2>3. s[Len(s)] \in Expected(2)
    BY <1>2, <1>7, <2>2 DEF Accepts
  <2>4. s[Len(s)] = "ctr"
    BY <2>3 DEF Expected
  <2>5. o + Len(s) \in 1..Len(w) /\ s[Len(s)] = w[o + Len(s)]
    BY <1>3, <2>2
  <2> QED
    BY <2>2, <2>4, <2>5 DEF Holds
<1>8. Advance(ps, s) < 3 => Advance(ps, s) = ps + Len(s)
  BY <1>1 DEF Advance, Lesser
<1> QED
  BY <1>5, <1>6, <1>7, <1>8

\* s is what process_reply gets: all that was received, behind the o tokens
\* process_header has passed.
ReplyPiece(s, o) ==
    /\ s \in Seq(Tokens) /\ o \in Nat
    /\ o + Len(s) = Len(buf \o Chunk)
    /\ \A i \in 1..Len(s) : s[i] = Stream[o + i]
    /\ Base + o = pstate + 1
    /\ o > 0 /\ pstate = 0 => Stream[o] = "*"
    /\ Clean(Stream, o)

LEMMA PieceFacts ==
    ASSUME IInv, RInv, engine = "await", NEW s, NEW o, ReplyPiece(s, o)
    PROVE  /\ pstate \in 0..2 /\ Base \in -4..3
           /\ Stream \in Seq(Tokens) /\ Len(Stream) \in Nat /\ WellFormed(Stream, Base)
           /\ Len(s) \in Nat /\ o + Len(s) <= Len(Stream)
           /\ Holds(s, "0") => ~Absent("0")
           /\ Holds(s, "1") => ~Absent("1")
           /\ ~Accepts(pstate, s) => broken
           /\ Accepts(pstate, s) => Clean(Stream, o + Len(s))
           /\ Accepts(pstate, s) /\ Advance(pstate, s) = 3 =>
                o + Len(s) = Len(Stream) /\ Holds(Stream, "ctr")
           /\ Advance(pstate, s) < 3 => Advance(pstate, s) = pstate + Len(s)
<1>1. /\ TypeOK /\ NoscriptInv /\ pstate \in 0..2 /\ WellFormed(Stream, Base)
      /\ FaultInv
  BY DEF IInv, RInv, TypeOK, LinkInv, GrammarInv
<1>2. /\ Stream \in Seq(Tokens) /\ Len(Stream) \in Nat /\ Base \in -4..3
      /\ \A t : Holds(Stream, t) => ~Absent(t)
  BY <1>1, StreamFacts, BaseFacts
<1>3. /\ s \in Seq(Tokens) /\ Len(s) \in Nat /\ o \in Nat
      /\ \A i \in 1..Len(s) : s[i] = Stream[o + i]
      /\ Base + o = pstate + 1 /\ (o > 0 /\ pstate = 0 => Stream[o] = "*")
      /\ Clean(Stream, o)
  BY LenProperties DEF ReplyPiece
<1>4. o + Len(s) <= Len(Stream)
  <2>1. 0 \in 0..Len(buf \o Chunk)
    BY <1>3 DEF ReplyPiece
  <2>2. Len(buf \o Chunk) <= Len(Stream)
    BY <1>1, <2>1, CutFacts
  <2> QED
    BY <2>2 DEF ReplyPiece
<1>5. /\ ~Accepts(pstate, s) => Holds(Stream, "x")
      /\ Accepts(pstate, s) => \A i \in 1..Len(s) : s[i] \in {"5", "0", "1", "ctr"}
      /\ Accepts(pstate, s) /\ Advance(pstate, s) = 3 =>
           o + Len(s) = Len(Stream) /\ Holds(Stream, "ctr")
      /\ Advance(pstate, s) < 3 => Advance(pstate, s) = pstate + Len(s)
  BY <1>1, <1>2, <1>3, <1>4, ReplyPlaces
<1>6. ~Accepts(pstate, s) => broken
  BY <1>1, <1>5 DEF FaultInv, Bad
<1>7. ASSUME Accepts(pstate, s) PROVE Clean(Stream, o + Len(s))
  <2>1. SUFFICES ASSUME NEW i \in 1..(o + Len(s))
                 PROVE  Stream[i] \notin {"-", "x", "-NOSCRIPT"}
    BY DEF Clean
  <2>2. CASE i <= o
    BY <1>3, <2>2 DEF Clean
  <2>3. CASE ~(i <= o)
    <3>1. i - o \in 1..Len(s) /\ o + (i - o) = i
      BY <1>3, <2>3
    <3>2. s[i - o] = Stream[i] /\ s[i - o] \in {"5", "0", "1", "ctr"}
      BY <1>3, <1>5, <1>7, <3>1
    <3> QED
      BY <3>2
  <2> QED
    BY <2>2, <2>3
<1>8. \A t : Holds(s, t) => Holds(Stream, t)
  <2>1. \A i \in 1..Len(s) : o + i \in 1..Len(Stream)
    BY <1>2, <1>3, <1>4
  <2> QED
    BY <1>3, <2>1 DEF Holds
<1> QED
  BY <1>1, <1>2, <1>3, <1>4, <1>5, <1>6, <1>7, <1>8

LEMMA ReplyEndsR ==
    ASSUME IInv, RInv, engine = "await", ~Pending,
           NEW s, NEW o, ReplyPiece(s, o),
           NEW st \in {0, 200, 429, 500, 502, 503, 504},
           pstate >= 2 => \/ st = 200 /\ ruling = "allow"
                          \/ st = 429 /\ ruling = "limit",
           ReplyEnds(s, st), UNCHANGED <<outage, broken>>
    PROVE  RInv'
<1>1. /\ TypeOK /\ NoscriptInv /\ VerdictInv /\ FaultInv /\ LinkInv
      /\ pstate \in 0..3 /\ s \in Seq(Tokens)
  BY DEF IInv, RInv, TypeOK, ReplyPiece
<1>2. /\ pstate \in 0..2
      /\ Stream \in Seq(Tokens) /\ Len(Stream) \in Nat
      /\ Holds(s, "0") => ~Absent("0")
      /\ Holds(s, "1") => ~Absent("1")
      /\ ~Accepts(pstate, s) => broken
      /\ Accepts(pstate, s) => Clean(Stream, o + Len(s))
      /\ Accepts(pstate, s) /\ Advance(pstate, s) = 3 =>
           o + Len(s) = Len(Stream) /\ Holds(Stream, "ctr")
  BY PieceFacts
<1>3. CASE ~Accepts(pstate, s) /\ FinalizeUpstream(500, st, pstate)
  <2>1. 500 \notin TransportStatus /\ broken'
    BY <1>2, <1>3 DEF TransportStatus
  <2> QED
    BY <1>2, <1>3, <2>1, FailureR
<1>4. CASE /\ Accepts(pstate, s) /\ Advance(pstate, s) = 3
           /\ FinalizeUpstream(0, StatusAfter(pstate, s, st), 3)
  <2> DEFINE after == StatusAfter(pstate, s, st)
  <2>1. \/ after = 200 /\ ruling = "allow"
        \/ after = 429 /\ ruling = "limit"
    BY <1>1, <1>2, <1>4, ParseFacts
  <2>2. ~broken
    <3>1. Clean(Stream, Len(Stream)) /\ Holds(Stream, "ctr")
      BY <1>2, <1>4
    <3>2. ~Bad(Stream)
      BY <3>1 DEF Clean, Bad, Holds
    <3> QED
      BY <1>1, <3>1, <3>2 DEF FaultInv
  <2>3. inflight = <<>> /\ SubSeq(sock, Fit + 1, Len(sock)) = <<>>
    <3>1. o + Len(s) = Len(Stream) /\ o + Len(s) = Len(buf \o Chunk)
      BY <1>2, <1>4 DEF ReplyPiece
    <3>2. Len(buf \o Chunk) = Len(buf) + Fit
      <4>1. 0 \in 0..Len(buf \o Chunk)
        BY <1>2, <3>1
      <4> QED
        BY <1>1, <4>1, CutFacts
    <3>3. /\ Len(Stream) = Len(buf) + Len(sock) + Len(inflight)
          /\ Len(buf) \in Nat /\ Len(sock) \in Nat /\ Len(inflight) \in Nat
      BY <1>1, StreamFacts
    <3>4. /\ Fit \in 0..Len(sock)
          /\ Len(SubSeq(sock, Fit + 1, Len(sock))) = Len(sock) - Fit
          /\ SubSeq(sock, Fit + 1, Len(sock)) \in Seq(Tokens)
      BY <1>1, RecvFacts
    <3>5. Len(inflight) = 0 /\ Fit = Len(sock)
      BY <3>1, <3>2, <3>3, <3>4
    <3>6. inflight \in Seq(Tokens)
      BY <1>1 DEF TypeOK
    <3>7. Len(SubSeq(sock, Fit + 1, Len(sock))) = 0
      BY <3>3, <3>4, <3>5
    <3> QED
      BY <3>4, <3>5, <3>6, <3>7, EmptySeq
  <2>4. inbox = <<>> /\ unsent = <<>>
    BY <1>1 DEF LinkInv, Pending
  <2> HIDE DEF after
  <2>5. FinalizeUpstream(0, after, 3)
    BY <1>4 DEF after
  <2> QED
    BY <2>1, <2>2, <2>3, <2>4, <2>5, VerdictR
<1> QED
  BY <1>3, <1>4 DEF ReplyEnds

LEMMA ReplyContinuesR ==
    ASSUME IInv, IInv', RInv, engine = "await", ~Pending,
           NEW s, NEW o, ReplyPiece(s, o), NEW st,
           ReplyContinues(s, st), Recv, read_handler' = "body"
    PROVE  RInv'
<1>1. /\ TypeOK /\ NoscriptInv /\ FaultInv /\ LinkInv
      /\ Accepts(pstate, s) /\ Advance(pstate, s) < 3
  BY DEF IInv, RInv, ReplyContinues
<1>2. /\ UNCHANGED <<engine, eval_fallback, conn, unsent, inbox, inflight, peer, histVars>>
      /\ pstate' = Advance(pstate, s) /\ buf' = <<>>
      /\ sock' = SubSeq(sock, Fit + 1, Len(sock))
  BY DEF ReplyContinues, reqVars, Recv
<1>3. /\ pstate \in 0..2 /\ Base \in -4..3
      /\ Stream \in Seq(Tokens) /\ Len(Stream) \in Nat /\ WellFormed(Stream, Base)
      /\ Len(s) \in Nat /\ o + Len(s) <= Len(Stream)
      /\ Clean(Stream, o + Len(s))
      /\ Advance(pstate, s) = pstate + Len(s)
      /\ o \in Nat /\ o + Len(s) = Len(buf \o Chunk) /\ Base + o = pstate + 1
      /\ o > 0 /\ pstate = 0 => Stream[o] = "*"
  BY <1>1, PieceFacts DEF ReplyPiece
<1> DEFINE n == o + Len(s)
<1>4. n \in 0..Len(buf \o Chunk) /\ n = Len(buf \o Chunk) /\ n \in 0..Len(Stream)
  BY <1>3
<1>5. Base' = Base + n /\ pstate' \in 0..2
  <2>1. pstate' = pstate + Len(s) /\ pstate' < 3
    BY <1>1, <1>2, <1>3
  <2>2. Base' = pstate' + 1
    BY DEF Base
  <2> QED
    BY <1>3, <2>1, <2>2
<1> HIDE DEF n
<1>6. /\ Stream' \in Seq(Tokens) /\ Len(Stream') = Len(Stream) - n
      /\ \A i \in 1..Len(Stream') : Stream'[i] = Stream[n + i]
  <2> DEFINE c == buf \o Chunk
             p == SubSeq(c, n + 1, Len(c))
             v == p \o SubSeq(sock, Fit + 1, Len(sock)) \o inflight
  <2>1. /\ p \in Seq(Tokens) /\ Len(p) = Len(c) - n
        /\ v \in Seq(Tokens) /\ Len(v) = Len(Stream) - n
        /\ \A i \in 1..Len(v) : v[i] = Stream[n + i]
    BY <1>1, <1>4, CutFacts
  <2>2. p = <<>>
    <3>1. Len(p) = 0
      BY <1>4, <2>1
    <3> QED
      BY <2>1, <3>1, EmptySeq
  <2>3. Stream' = v
    BY <1>2, <2>2 DEF Stream
  <2> QED
    BY <2>1, <2>3
<1>7. n = 0 \/ Base + n # 1 \/ Stream[n] = "*"
  <2>1. Base + n = (pstate + 1) + Len(s)
    BY <1>3 DEF n
  <2>2. Base + n = 1 => pstate = 0 /\ n = o
    BY <1>3, <2>1 DEF n
  <2> QED
    BY <1>3, <2>2
<1>8. GrammarInv'
  <2>1. Base \in Int /\ Base + n \in Int
    BY <1>3, <1>4
  <2>2. \A i \in 1..(Len(Stream) - n) : Stream'[i] = Stream[n + i]
    BY <1>6
  <2>3. WellFormed(Stream', Base + n)
    BY <1>3, <1>4, <1>6, <1>7, <2>1, <2>2, SuffixWellFormed
  <2> QED
    BY <1>5, <2>3 DEF GrammarInv, WellFormed
<1>9. FaultInv'
  <2>1. Clean(Stream, n)
    BY <1>3 DEF n
  <2>2. (Bad(Stream') <=> Bad(Stream)) /\ (Holds(Stream', "ctr") => Holds(Stream, "ctr"))
    BY <1>3, <1>4, <1>6, <2>1, DropFaults
  <2>3. (Bad(Stream)' <=> Bad(Stream')) /\ (Holds(Stream, "ctr")' <=> Holds(Stream', "ctr"))
    BY <1>2 DEF Bad, Holds
  <2> QED
    BY <1>1, <1>2, <2>2, <2>3 DEF FaultInv, histVars
<1>10. Pending' <=> Pending
  BY <1>2 DEF Pending
<1>11. LinkInv'
  BY <1>1, <1>2, <1>5, <1>10 DEF LinkInv, histVars, Holds
<1>12. CountInv'
  BY <1>10 DEF CountInv
<1> QED
  BY <1>2, <1>8, <1>9, <1>11, <1>12, AwaitSuffices

LEMMA ReadBodyR == ASSUME IInv, IInv', RInv, ReadBody PROVE RInv'
<1>1. /\ TypeOK /\ QueueInv /\ NoscriptInv /\ VerdictInv /\ LinkInv
      /\ engine = "await" /\ read_handler = "body"
  BY DEF IInv, RInv, ReadBody, Reading
<1>2. ~Pending /\ buf = <<>> /\ pstate \in 0..2
  BY <1>1 DEF QueueInv, LinkInv, TypeOK
<1>3. Chunk \in Seq(Tokens)
  BY <1>1, RecvFacts
<1>4. buf \o Chunk = Chunk
  <2> HIDE DEF Chunk
  <2> QED
    BY <1>2, <1>3, ConcatEmptySeq
<1>5. ReplyPiece(Chunk, 0)
  <2>1. Len(Chunk) \in Nat
    BY <1>3, LenProperties
  <2>2. 0 \in 0..Len(buf \o Chunk)
    BY <1>4, <2>1
  <2>3. \A i \in 1..Len(buf \o Chunk) : (buf \o Chunk)[i] = Stream[i]
    BY <1>1, <2>2, CutFacts
  <2>4. \A i \in 1..Len(Chunk) : Chunk[i] = Stream[0 + i]
    BY <1>4, <2>1, <2>3
  <2>5. Base + 0 = pstate + 1
    BY <1>1, <1>2, BaseFacts
  <2>6. Clean(Stream, 0)
    BY DEF Clean
  <2> QED
    BY <1>3, <1>4, <2>1, <2>4, <2>5, <2>6 DEF ReplyPiece
<1>6. /\ status \in {0, 200, 429, 500, 502, 503, 504}
      /\ pstate >= 2 => \/ status = 200 /\ ruling = "allow"
                        \/ status = 429 /\ ruling = "limit"
  BY <1>1 DEF TypeOK, VerdictInv
<1>7. CASE ReplyEnds(Chunk, status) /\ UNCHANGED <<outage, broken>>
  BY <1>1, <1>2, <1>5, <1>6, <1>7, ReplyEndsR
<1>8. CASE ReplyContinues(Chunk, status) /\ Recv /\ read_handler' = read_handler
  BY <1>1, <1>2, <1>5, <1>8, ReplyContinuesR
<1> QED
  BY <1>7, <1>8 DEF ReadBody

-----------------------------------------------------------------------------
(* The header phase.                                                       *)

\* What process_header looks at behind m prelude replies.
Rest(m) == SubSeq(buf \o Chunk, 2 * m + 1, Len(buf \o Chunk))

LEMMA HeaderFacts ==
    ASSUME IInv, RInv, engine = "await", read_handler = "header",
           NEW m \in 0..prelude_replies, IsPrelude(buf \o Chunk, m)
    PROVE  /\ prelude_replies \in 0..2 /\ 2 * m \in 0..Len(buf \o Chunk)
           /\ Base = -2 * prelude_replies /\ pstate = 0
           /\ Stream \in Seq(Tokens) /\ Len(Stream) \in Nat /\ WellFormed(Stream, Base)
           /\ Rest(m) \in Seq(Tokens) /\ Len(Rest(m)) \in Nat
           /\ 2 * m + Len(Rest(m)) = Len(buf \o Chunk)
           /\ 2 * m + Len(Rest(m)) <= Len(Stream)
           /\ \A i \in 1..Len(Rest(m)) : Rest(m)[i] = Stream[2 * m + i]
           /\ Clean(Stream, 2 * m)
<1> DEFINE c == buf \o Chunk
<1>1. /\ TypeOK /\ NoscriptInv /\ VerdictInv /\ GrammarInv
      /\ prelude_replies \in 0..2 /\ m \in 0..2
  BY DEF IInv, RInv, TypeOK
<1>2. /\ Base = -2 * prelude_replies /\ pstate = 0 /\ WellFormed(Stream, Base)
      /\ Stream \in Seq(Tokens) /\ Len(Stream) \in Nat
  BY <1>1, BaseFacts, StreamFacts DEF VerdictInv, GrammarInv
<1>3. c \in Seq(Tokens) /\ Len(c) \in Nat
  <2>1. buf \in Seq(Tokens) /\ Chunk \in Seq(Tokens)
    BY <1>1, RecvFacts DEF TypeOK
  <2>2. c \in Seq(Tokens)
    BY <2>1, ConcatProperties
  <2> HIDE DEF c
  <2> QED
    BY <2>2, LenProperties
<1>4. 2 * m \in 0..Len(c)
  <2> HIDE DEF c
  <2>1. IsPrelude(c, m)
    BY DEF c
  <2> QED
    BY <1>1, <1>3, <2>1 DEF IsPrelude
<1>5. /\ Len(c) <= Len(Stream) /\ \A i \in 1..Len(c) : c[i] = Stream[i]
      /\ Rest(m) \in Seq(Tokens) /\ Len(Rest(m)) = Len(c) - 2 * m
      /\ \A i \in 1..Len(Rest(m)) : Rest(m)[i] = Stream[2 * m + i]
  BY <1>1, <1>4, CutFacts DEF Rest
<1>6. Clean(Stream, 2 * m)
  <2> HIDE DEF c
  <2>1. \A i \in 1..m : c[2 * i - 1] = "+" /\ c[2 * i] = "LF"
    BY DEF IsPrelude, c
  <2>2. /\ m >= 1 => c[1] = "+" /\ c[2] = "LF"
        /\ m >= 2 => c[3] = "+" /\ c[4] = "LF"
    <3>1. m >= 1 => c[2 * 1 - 1] = "+" /\ c[2 * 1] = "LF"
      BY <1>1, <2>1
    <3>2. m >= 2 => c[2 * 2 - 1] = "+" /\ c[2 * 2] = "LF"
      BY <1>1, <2>1
    <3> QED
      BY <3>1, <3>2
  <2>3. SUFFICES ASSUME NEW i \in 1..(2 * m)
                 PROVE  Stream[i] \notin {"-", "x", "-NOSCRIPT"}
    BY DEF Clean
  <2>4. i \in 1..Len(c) /\ c[i] = Stream[i]
    BY <1>1, <1>3, <1>4, <1>5
  <2>5. (i \in {1, 2} /\ m >= 1) \/ (i \in {3, 4} /\ m >= 2)
    BY <1>1
  <2> QED
    BY <2>2, <2>4, <2>5
<1> QED
  <2>1. 2 * m + Len(Rest(m)) = Len(c) /\ Len(Rest(m)) \in Nat
    BY <1>1, <1>3, <1>4, <1>5
  <2> QED
    BY <1>1, <1>2, <1>4, <1>5, <1>6, <2>1

LEMMA HeaderMoreR ==
    ASSUME IInv, IInv', RInv, engine = "await", read_handler = "header",
           NEW m \in 0..prelude_replies, IsPrelude(buf \o Chunk, m),
           HeaderMore(m, Rest(m))
    PROVE  RInv'
<1>1. /\ TypeOK /\ NoscriptInv /\ LinkInv /\ CountInv /\ FaultInv
  BY DEF IInv, RInv
<1>2. /\ UNCHANGED <<engine, eval_fallback, pstate, read_handler, conn, unsent,
                     inbox, inflight, peer, histVars>>
      /\ buf' = Rest(m) /\ sock' = SubSeq(sock, Fit + 1, Len(sock))
      /\ prelude_replies' = prelude_replies - m
  BY DEF HeaderMore, reqVars, Recv
<1> DEFINE n == 2 * m
<1>3. /\ prelude_replies \in 0..2 /\ m \in Nat /\ n \in 0..Len(buf \o Chunk)
      /\ Base = -2 * prelude_replies /\ WellFormed(Stream, Base)
      /\ Stream \in Seq(Tokens) /\ Len(Stream) \in Nat
      /\ n \in 0..Len(Stream) /\ Clean(Stream, n)
  BY HeaderFacts
<1>4. Base' = Base + n /\ Base + n <= 0 /\ n \in Nat /\ Base \in Int /\ Base + n \in Int
  BY <1>2, <1>3 DEF Base
<1>5. /\ Stream' \in Seq(Tokens) /\ Len(Stream') = Len(Stream) - n
      /\ \A i \in 1..Len(Stream') : Stream'[i] = Stream[n + i]
  BY <1>1, <1>2, <1>3, CutFacts DEF Stream, Rest
<1> HIDE DEF n
<1>6. GrammarInv'
  <2>1. \A i \in 1..(Len(Stream) - n) : Stream'[i] = Stream[n + i]
    BY <1>5
  <2>2. Base + n # 1
    BY <1>4
  <2>3. WellFormed(Stream', Base + n)
    BY <1>3, <1>4, <1>5, <2>1, <2>2, SuffixWellFormed
  <2> QED
    BY <1>4, <2>3 DEF GrammarInv, WellFormed
<1>7. FaultInv'
  <2>1. (Bad(Stream') <=> Bad(Stream)) /\ (Holds(Stream', "ctr") => Holds(Stream, "ctr"))
    BY <1>3, <1>5, DropFaults
  <2>2. (Bad(Stream)' <=> Bad(Stream')) /\ (Holds(Stream, "ctr")' <=> Holds(Stream', "ctr"))
    BY <1>2 DEF Bad, Holds
  <2> QED
    BY <1>1, <1>2, <2>1, <2>2 DEF FaultInv, histVars
<1>8. Pending' <=> Pending
  BY <1>2 DEF Pending
<1>9. LinkInv'
  BY <1>1, <1>2, <1>8 DEF LinkInv, histVars, Holds
<1>10. CountInv'
  <2>1. Base' + Len(Stream') = Base + Len(Stream)
    BY <1>3, <1>4, <1>5
  <2>2. (Base + Len(Stream))' = Base + Len(Stream)
    BY <2>1
  <2> QED
    BY <1>1, <1>2, <1>8, <2>1 DEF CountInv
<1> QED
  BY <1>2, <1>6, <1>7, <1>9, <1>10, AwaitSuffices

\* A header that is refused is one that Redis should not have sent.
LEMMA RejectedIsBroken ==
    ASSUME IInv, RInv, engine = "await", read_handler = "header",
           NEW m \in 0..prelude_replies, IsPrelude(buf \o Chunk, m),
           m = prelude_replies \/ ~IsPrelude(buf \o Chunk, m + 1),
           HeaderResult(prelude_replies - m, Rest(m)) \in {"error", "invalid"}
    PROVE  broken
<1> DEFINE c == buf \o Chunk
           r == Rest(m)
           k == prelude_replies - m
<1>1. /\ prelude_replies \in 0..2 /\ m \in 0..2 /\ k \in 0..2
      /\ Base = -2 * prelude_replies
      /\ Stream \in Seq(Tokens) /\ Len(Stream) \in Nat /\ WellFormed(Stream, Base)
      /\ r \in Seq(Tokens) /\ Len(r) \in Nat /\ 2 * m + Len(r) = Len(c)
      /\ 2 * m + Len(r) <= Len(Stream)
      /\ \A i \in 1..Len(r) : r[i] = Stream[2 * m + i]
  <2>1. prelude_replies \in 0..2
    BY HeaderFacts
  <2> QED
    BY <2>1, HeaderFacts
<1> HIDE DEF c, r
<1>2. \A i \in 1..Len(r) : 2 * m + i \in 1..Len(Stream) /\ Base + (2 * m + i) = i - 2 * k
  BY <1>1
<1> HIDE DEF k
<1>3. \A t : Holds(r, t) => Holds(Stream, t)
  BY <1>1, <1>2 DEF Holds
<1>4. HeaderResult(k, r) \in {"error", "invalid"}
  BY DEF k, r
<1>5. r # <<>>
  <2>1. SUFFICES ASSUME r = <<>> PROVE FALSE
    OBVIOUS
  <2>2. ~Holds(r, "LF")
    BY <1>1, <2>1, EmptySeq DEF Holds
  <2> QED
    BY <1>4, <2>1, <2>2 DEF HeaderResult
<1>6. 1 \in 1..Len(r)
  BY <1>1, <1>5, EmptySeq
<1>7. CASE k > 0
  <2>1. Holds(r, "LF")
    BY <1>4, <1>7 DEF HeaderResult
  <2>2. r[1] \in {"+", "-"}
    <3>1. 1 - 2 * k \in {-3, -1}
      BY <1>1, <1>7
    <3>2. 2 * m + 1 \in 1..Len(Stream) /\ Base + (2 * m + 1) \in {-3, -1}
      BY <1>2, <1>6, <3>1
    <3>3. Stream[2 * m + 1] \in {"+", "-"}
      BY <1>1, <3>2 DEF WellFormed
    <3> QED
      BY <1>1, <1>6, <3>3
  <2>3. r[1] # "+"
    <3>1. SUFFICES ASSUME r[1] = "+" PROVE FALSE
      OBVIOUS
    <3>2. 2 \in 1..Len(r)
      <4>1. PICK i \in 1..Len(r) : r[i] = "LF"
        BY <2>1 DEF Holds
      <4> QED
        BY <1>1, <3>1, <4>1
    <3>3. r[2] = "LF"
      <4>1. 2 - 2 * k \in {-2, 0}
        BY <1>1, <1>7
      <4>2. 2 * m + 2 \in 1..Len(Stream) /\ Base + (2 * m + 2) \in {-2, 0}
        BY <1>2, <3>2, <4>1
      <4>3. Stream[2 * m + 2] = "LF"
        BY <1>1, <4>2 DEF WellFormed
      <4> QED
        BY <1>1, <3>2, <4>3
    <3>4. /\ 0 \in 0..Len(c) /\ \A i \in 1..Len(c) : c[i] = Stream[i]
      <4>1. 0 \in 0..Len(c)
        BY <1>1
      <4>2. TypeOK /\ NoscriptInv
        BY DEF IInv
      <4> QED
        BY <4>1, <4>2, CutFacts DEF c
    <3>5. /\ 2 * (m + 1) <= Len(c) /\ c[2 * (m + 1) - 1] = "+" /\ c[2 * (m + 1)] = "LF"
      <4>1. /\ 2 * (m + 1) - 1 = 2 * m + 1 /\ 2 * (m + 1) = 2 * m + 2
            /\ 2 * m + 1 \in 1..Len(c) /\ 2 * m + 2 \in 1..Len(c)
        BY <1>1, <3>2
      <4>2. c[2 * m + 1] = r[1] /\ c[2 * m + 2] = r[2]
        BY <1>1, <1>6, <3>2, <3>4, <4>1
      <4> QED
        BY <3>1, <3>3, <4>1, <4>2
    <3>6. IsPrelude(c, m + 1)
      <4>1. \A i \in 1..m : c[2 * i - 1] = "+" /\ c[2 * i] = "LF"
        BY DEF IsPrelude, c
      <4>2. \A i \in 1..(m + 1) : i \in 1..m \/ i = m + 1
        BY <1>1
      <4> QED
        BY <3>5, <4>1, <4>2 DEF IsPrelude
    <3>7. m # prelude_replies
      BY <1>1, <1>7 DEF k
    <3> QED
      BY <3>6, <3>7 DEF c
  <2>4. Holds(r, "-")
    BY <1>6, <2>2, <2>3 DEF Holds
  <2> QED
    BY <1>3, <2>4 DEF Bad, RInv, FaultInv
<1>8. CASE k = 0
  <2>1. r[1] \in {"*", "-", "-NOSCRIPT", "x"}
    <3>1. 2 * m + 1 \in 1..Len(Stream) /\ Base + (2 * m + 1) = 1
      BY <1>2, <1>6, <1>8
    <3>2. Stream[2 * m + 1] \in {"*", "-", "-NOSCRIPT", "x"}
      BY <1>1, <3>1 DEF WellFormed
    <3> QED
      BY <1>1, <1>6, <3>2
  <2>2. r[1] # "*" /\ (r[1] = "-NOSCRIPT" => eval_fallback)
    BY <1>4, <1>5, <1>8 DEF HeaderResult
  <2>3. Holds(r, r[1])
    BY <1>6 DEF Holds
  <2> QED
    BY <1>3, <2>1, <2>2, <2>3 DEF Bad, RInv, FaultInv
<1> QED
  BY <1>1, <1>7, <1>8

LEMMA HeaderFailsR ==
    ASSUME IInv, RInv, engine = "await", read_handler = "header",
           NEW m \in 0..prelude_replies, IsPrelude(buf \o Chunk, m),
           m = prelude_replies \/ ~IsPrelude(buf \o Chunk, m + 1),
           HeaderTooBig(m, Rest(m)) \/ HeaderRejected(m, Rest(m))
    PROVE  RInv'
<1>1. pstate \in 0..2 /\ 500 \notin TransportStatus
  BY DEF IInv, TypeOK, RInv, LinkInv, TransportStatus
<1>2. FinalizeUpstream(500, status, pstate)
  BY DEF HeaderTooBig, HeaderRejected
<1>3. broken'
  <2>1. CASE HeaderTooBig(m, Rest(m))
    BY <2>1 DEF HeaderTooBig
  <2>2. CASE HeaderRejected(m, Rest(m))
    <3>1. HeaderResult(prelude_replies - m, Rest(m)) \in {"error", "invalid"} /\ broken' = broken
      BY <2>2 DEF HeaderRejected
    <3> QED
      BY <3>1, RejectedIsBroken
  <2> QED
    BY <2>1, <2>2
<1> QED
  BY <1>1, <1>2, <1>3, FailureR

LEMMA HeaderDoneR ==
    ASSUME IInv, IInv', RInv, engine = "await", read_handler = "header",
           NEW m \in 0..prelude_replies, IsPrelude(buf \o Chunk, m),
           HeaderDone(m, Rest(m))
    PROVE  RInv'
<1> DEFINE r == Rest(m)
           s == Tail(r)
           o == 2 * m + 1
<1>1. /\ prelude_replies \in 0..2 /\ m \in 0..2 /\ Base = -2 * prelude_replies
      /\ pstate = 0 /\ Stream \in Seq(Tokens) /\ Len(Stream) \in Nat
      /\ r \in Seq(Tokens) /\ Len(r) \in Nat /\ 2 * m + Len(r) = Len(buf \o Chunk)
      /\ 2 * m + Len(r) <= Len(Stream)
      /\ \A i \in 1..Len(r) : r[i] = Stream[2 * m + i]
      /\ Clean(Stream, 2 * m)
  <2>1. prelude_replies \in 0..2
    BY HeaderFacts
  <2> QED
    BY <2>1, HeaderFacts
<1>2. HeaderResult(prelude_replies - m, r) = "ok"
  BY DEF HeaderDone
<1> HIDE DEF r
<1>3. m = prelude_replies /\ r # <<>> /\ r[1] = "*"
  BY <1>1, <1>2 DEF HeaderResult
<1>4. /\ s \in Seq(Tokens) /\ Len(s) = Len(r) - 1 /\ 1 \in 1..Len(r)
      /\ \A i \in 1..Len(s) : s[i] = r[i + 1]
  <2>1. 1 \in 1..Len(r)
    BY <1>1, <1>3, EmptySeq
  <2> QED
    BY <1>1, <1>3, <2>1, HeadTailProperties
<1> HIDE DEF s
<1>5. Stream[o] = "*" /\ o \in 1..Len(Stream) /\ o \in Nat
  BY <1>1, <1>3, <1>4
<1>6. ReplyPiece(s, o)
  <2>1. o + Len(s) = Len(buf \o Chunk)
    BY <1>1, <1>4
  <2>2. ASSUME NEW i \in 1..Len(s) PROVE s[i] = Stream[o + i]
    <3>1. i + 1 \in 1..Len(r) /\ 2 * m + (i + 1) = o + i
      BY <1>1, <1>4
    <3> QED
      BY <1>1, <1>4, <3>1
  <2>3. Base + o = pstate + 1
    BY <1>1, <1>3
  <2>4. Clean(Stream, o)
    <3>1. \A i \in 1..o : i \in 1..(2 * m) \/ i = o
      BY <1>1
    <3> QED
      BY <1>1, <1>5, <3>1 DEF Clean
  <2> QED
    BY <1>4, <1>5, <2>1, <2>2, <2>3, <2>4 DEF ReplyPiece
<1> HIDE DEF o
<1>7. ~Pending
  <2>1. Holds(Stream, "*")
    BY <1>5 DEF Holds
  <2>2. TypeOK /\ QueueInv
    BY DEF IInv
  <2> QED
    BY <2>1, <2>2, StreamFacts DEF QueueInv
<1>8. /\ 200 \in {0, 200, 429, 500, 502, 503, 504}
      /\ ~(pstate >= 2)
  BY <1>1
<1>9. CASE ReplyEnds(s, 200) /\ UNCHANGED <<outage, broken>>
  BY <1>6, <1>7, <1>8, <1>9, ReplyEndsR
<1>10. CASE ReplyContinues(s, 200) /\ Recv /\ read_handler' = "body"
  BY <1>6, <1>7, <1>10, ReplyContinuesR
<1> QED
  BY <1>9, <1>10 DEF HeaderDone, r, s

LEMMA NoneDue == \A k \in 0..2 : k <= 0 => 0 = -2 * k
  OBVIOUS

LEMMA HeaderNoscriptR ==
    ASSUME IInv, IInv', RInv, engine = "await", read_handler = "header",
           conn = "open", NEW m \in 0..prelude_replies, IsPrelude(buf \o Chunk, m),
           HeaderNoscript(m, Rest(m))
    PROVE  RInv'
<1> DEFINE r == Rest(m)
           left == SubSeq(sock, Fit + 1, Len(sock))
<1>0. /\ TypeOK /\ NoscriptInv /\ QueueInv /\ LinkInv /\ FaultInv
      /\ pstate \in 0..2
  BY DEF IInv, RInv, TypeOK, LinkInv
<1>1. /\ prelude_replies \in 0..2 /\ m \in 0..2
      /\ Stream \in Seq(Tokens) /\ Len(Stream) \in Nat
      /\ r \in Seq(Tokens) /\ Len(r) \in Nat /\ 2 * m + Len(r) = Len(buf \o Chunk)
      /\ 2 * m + Len(r) <= Len(Stream)
      /\ \A i \in 1..Len(r) : r[i] = Stream[2 * m + i]
      /\ Clean(Stream, 2 * m)
  <2>1. prelude_replies \in 0..2 /\ m \in 0..2
    <3>1. prelude_replies \in 0..2
      BY <1>0 DEF TypeOK
    <3> QED
      BY <3>1
  <2> HIDE DEF r
  <2>2. r = Rest(m)
    BY DEF r
  <2> QED
    BY <2>1, <2>2, HeaderFacts
<1>2. /\ EndsIn(r, (Len(sock) - Fit) + Len(inflight))
      /\ \A t : Holds(r, t) => Holds(buf, t) \/ Holds(sock, t)
  BY <1>0, <1>1, RestFacts DEF Rest
<1>3. HeaderResult(prelude_replies - m, r) = "noscript"
  BY DEF HeaderNoscript
<1>4. /\ Fit \in 0..Len(sock) /\ left \in Seq(Tokens) /\ Len(left) = Len(sock) - Fit
      /\ Len(sock) \in Nat /\ Len(inflight) \in Nat /\ inflight \in Seq(Tokens)
      /\ Len(Stream) = Len(buf) + Len(sock) + Len(inflight) /\ Len(buf) \in Nat
  BY <1>0, RecvFacts, StreamFacts DEF TypeOK
<1>5. Len(buf \o Chunk) = Len(buf) + Fit
  <2>1. 0 \in 0..Len(buf \o Chunk)
    BY <1>1
  <2> QED
    BY <1>0, <2>1, CutFacts
<1> HIDE DEF r, left
<1>6. r # <<>> /\ r[1] = "-NOSCRIPT" /\ Holds(r, "LF") /\ ~eval_fallback
  <2>1. eval_fallback \in BOOLEAN
    BY <1>0 DEF TypeOK, FlagsOK
  <2> QED
    BY <1>3, <2>1 DEF HeaderResult
<1>7. PICK j \in 1..Len(r) : r[j] = "LF"
  BY <1>6 DEF Holds
<1>8. 1 \in 1..Len(r) /\ j >= 2 /\ Len(r) >= 2
  BY <1>1, <1>6, <1>7
<1>9. 2 >= Len(r) + ((Len(sock) - Fit) + Len(inflight))
  BY <1>2, <1>6, <1>8 DEF EndsIn
<1>10. /\ Len(r) = 2 /\ j = 2 /\ Len(left) = 0 /\ Len(inflight) = 0
       /\ Len(Stream) = 2 * m + 2
  <2>1. /\ Len(left) \in Nat /\ 2 >= Len(r) + (Len(left) + Len(inflight))
        /\ Len(r) \in Nat /\ Len(inflight) \in Nat
    BY <1>1, <1>4, <1>9
  <2>2. Len(r) = 2 /\ Len(left) = 0 /\ Len(inflight) = 0
    <3>1. \A a, b, c \in Nat : a >= 2 /\ 2 >= a + (b + c) => a = 2 /\ b = 0 /\ c = 0
      OBVIOUS
    <3>2. Len(r) >= 2
      BY <1>8
    <3> QED
      BY <2>1, <3>1, <3>2
  <2>3. j = 2
    BY <1>8, <2>2
  <2>4. Len(buf) + Fit = 2 * m + 2 /\ Fit = Len(sock)
    BY <1>1, <1>4, <1>5, <2>2
  <2> QED
    BY <1>4, <2>2, <2>3, <2>4
<1>11. left = <<>> /\ inflight = <<>>
  BY <1>4, <1>10, EmptySeq
<1>12. ~Pending /\ inbox = <<>> /\ unsent = <<>>
  <2>1. ~Absent("-NOSCRIPT")
    BY <1>2, <1>6, <1>8 DEF Absent, Holds
  <2> QED
    BY <1>0, <2>1 DEF QueueInv, LinkInv, Pending
<1>13. broken => peer = "gone"
  <2>1. \A i \in 1..Len(Stream) : Stream[i] \notin {"-", "x"}
    <3>1. SUFFICES ASSUME NEW i \in 1..Len(Stream) PROVE Stream[i] \notin {"-", "x"}
      OBVIOUS
    <3>2. i \in 1..(2 * m) \/ i = 2 * m + 1 \/ i = 2 * m + 2
      BY <1>1, <1>10
    <3>3. Stream[2 * m + 1] = "-NOSCRIPT" /\ Stream[2 * m + 2] = "LF"
      BY <1>1, <1>6, <1>7, <1>8, <1>10
    <3> QED
      BY <1>1, <3>2, <3>3 DEF Clean
  <2>2. ~Bad(Stream)
    BY <1>6, <2>1 DEF Bad, Holds
  <2> QED
    BY <1>0, <2>2 DEF FaultInv
<1>14. CASE FinalizeUpstream(502, status, 0) /\ outage' = TRUE
  BY <1>14, FailureR
<1>15. CASE /\ \/ inbox' = Append(inbox, "EVAL") /\ unsent' = <<>>
               \/ unsent' = <<"EVAL">> /\ inbox' = inbox
            /\ Recv
            /\ eval_fallback' = TRUE /\ prelude_replies' = 0 /\ pstate' = 0
            /\ buf' = <<>>
            /\ UNCHANGED <<reqVars, read_handler, conn, inflight, peer, histVars>>
  <2>1. /\ buf' = <<>> /\ sock' = <<>> /\ inflight' = <<>>
        /\ engine' = "await" /\ read_handler' = "header" /\ pstate' = 0
        /\ conn' = "open" /\ headers' = headers /\ broken' = broken /\ peer' = peer
        /\ prelude_replies' = 0 /\ eval_fallback'
    BY <1>11, <1>15 DEF Recv, left, reqVars, histVars
  <2>2. Len(Stream') = 0 /\ Base' = 0
    <3>1. <<>> \o <<>> \o <<>> = <<>> /\ Len(<<>>) = 0
      BY EmptySeq, ConcatEmptySeq
    <3>2. Stream' = buf' \o sock' \o inflight'
      BY DEF Stream
    <3>3. Stream' = <<>>
      BY <2>1, <3>1, <3>2
    <3>4. Base' = -2 * prelude_replies'
      BY <2>1 DEF Base
    <3>5. Base' = 0
      <4>1. prelude_replies' \in 0..2 /\ prelude_replies' <= 0
        BY <2>1
      <4>2. 0 = -2 * prelude_replies'
        BY <4>1, NoneDue
      <4> QED
        BY <3>4, <4>2, Zenon
    <3>6. Len(Stream') = 0
      BY <3>1, <3>3, Zenon
    <3> QED
      BY <3>5, <3>6
  <2>3. GrammarInv'
    BY <2>2 DEF GrammarInv, WellFormed
  <2>4. FaultInv'
    BY <1>13, <2>1, <2>2 DEF FaultInv, Bad, Holds
  <2>5. /\ Len(inbox') + Len(unsent') = 1 /\ Pending'
        /\ ~Holds(inbox', "EVALSHA") /\ ~Holds(unsent', "EVALSHA")
    <3>1. <<"EVAL">> # <<>> /\ Len(<<"EVAL">>) = 1 /\ <<"EVAL">>[1] = "EVAL"
          /\ Len(<<>>) = 0
      BY EmptySeq
    <3>2. (inbox' = <<"EVAL">> /\ unsent' = <<>>) \/ (unsent' = <<"EVAL">> /\ inbox' = <<>>)
      <4>1. Append(<<>>, "EVAL") = <<"EVAL">>
        OBVIOUS
      <4> QED
        BY <1>12, <1>15, <4>1
    <3>3. CASE inbox' = <<"EVAL">> /\ unsent' = <<>>
      BY <3>1, <3>3 DEF Pending, Script, Holds
    <3>4. CASE unsent' = <<"EVAL">> /\ inbox' = <<>>
      BY <3>1, <3>4 DEF Pending, Holds
    <3> QED
      BY <3>2, <3>3, <3>4
  <2>6. LinkInv'
    BY <1>0, <2>1, <2>5 DEF LinkInv
  <2>7. CountInv'
    BY <2>2, <2>5 DEF CountInv
  <2> QED
    BY <2>1, <2>3, <2>4, <2>6, <2>7, AwaitSuffices
<1> QED
  BY <1>14, <1>15 DEF HeaderNoscript, r

LEMMA ReadHeaderR == ASSUME IInv, IInv', RInv, ReadHeader PROVE RInv'
<1>1. engine = "await" /\ conn = "open" /\ read_handler = "header"
  BY DEF ReadHeader, Reading
<1>2. PICK m \in 0..prelude_replies :
        /\ IsPrelude(buf \o Chunk, m)
        /\ m = prelude_replies \/ ~IsPrelude(buf \o Chunk, m + 1)
        /\ \/ HeaderMore(m, Rest(m))
           \/ HeaderTooBig(m, Rest(m))
           \/ HeaderRejected(m, Rest(m))
           \/ HeaderDone(m, Rest(m))
           \/ HeaderNoscript(m, Rest(m))
  BY DEF ReadHeader, Rest
<1> QED
  BY <1>1, <1>2, HeaderMoreR, HeaderFailsR, HeaderDoneR, HeaderNoscriptR

-----------------------------------------------------------------------------
LEMMA NextRInv == IInv /\ RInv /\ [Next]_vars => RInv'
<1> SUFFICES ASSUME IInv, RInv, [Next]_vars PROVE RInv'
  OBVIOUS
<1>0. IInv'
  BY NextIInv
<1>1. ASSUME Handler PROVE RInv'
  BY <1>0, <1>1, HandlerQuietR, HandlerBeginsR DEF Handler
<1>2. ASSUME ReadEvent PROVE RInv'
  BY <1>0, <1>2, ReadHeaderR, ReadBodyR, PausesR, FailureStepsR DEF ReadEvent
<1>3. ASSUME WriteEvent PROVE RInv'
  BY <1>0, <1>3, WriteR, FailureStepsR, StockFailsR DEF WriteEvent
<1>4. ASSUME Timeout PROVE RInv'
  BY <1>4, FailureStepsR, StockFailsR DEF Timeout
<1>5. ASSUME Redis PROVE RInv'
  BY <1>0, <1>5, RedisR, PausesR DEF Redis
<1>6. ASSUME Network PROVE RInv'
  BY <1>0, <1>6, ArriveR, PeerDropsR DEF Network
<1>7. ASSUME Respond \/ Redirect PROVE RInv'
  BY <1>7, AfterR
<1>8. ASSUME Finished \/ UNCHANGED vars PROVE RInv'
  BY <1>8, PausesR DEF Finished
<1> QED
  BY <1>1, <1>2, <1>3, <1>4, <1>5, <1>6, <1>7, <1>8 DEF Next

-----------------------------------------------------------------------------
(* The contract, step by step.                                             *)

\* What the contract sees of a request.
contractVars == <<done, open, ruling, outage, broken, answer>>

LEMMA NothingSeen == UNCHANGED contractVars => [Contract!Next]_Contract!vars
  BY DEF contractVars, Contract!vars

\* A finalization of the round trip is the contract's decision.
LEMMA DecisionSeen ==
    ASSUME IInv, IInv', RInv', engine = "await",
           UNCHANGED <<done, open, ruling>>, answer' \in {"pass", "reject"},
           outage' \in {outage, TRUE}, broken' \in {broken, TRUE}
    PROVE  [Contract!Next]_Contract!vars
<1>1. done /\ answer = "none"
  BY DEF IInv, RefsInv, VerdictInv
<1>2. AdmitSound' /\ RejectSound'
  BY DEF IInv, RInv, SettledInv
<1>3. /\ answer' = "pass" => Contract!MayPass'
      /\ answer' = "reject" => Contract!MayReject'
  BY <1>2 DEF AdmitSound, RejectSound, Contract!MayPass, Contract!MayReject
<1>4. Contract!Worsen
  BY DEF Contract!Worsen
<1>5. Contract!Decide
  BY <1>1, <1>3, <1>4 DEF Contract!Decide
<1> QED
  BY <1>5 DEF Contract!Next

LEMMA UpstreamSeen ==
    ASSUME IInv, IInv', RInv', engine = "await",
           NEW rc, NEW st, NEW ps, FinalizeUpstream(rc, st, ps),
           outage' \in {outage, TRUE}, broken' \in {broken, TRUE}
    PROVE  [Contract!Next]_Contract!vars
<1>1. UNCHANGED <<done, open, ruling>> /\ answer' \in {"pass", "reject"}
  BY DEF FinalizeUpstream, redisVars, Verdict
<1> QED
  BY <1>1, DecisionSeen

LEMMA FailureSeen ==
    ASSUME IInv, IInv', RInv',
           \/ ReadHeaderEof \/ ReadBodyEof \/ HandlerFault
           \/ EvalWriteFails \/ ConnectRefused \/ ReadTimeout \/ EvalWriteTimeout
    PROVE  [Contract!Next]_Contract!vars
<1>1. engine = "await"
  BY DEF ReadHeaderEof, ReadBodyEof, HandlerFault, EvalWriteFails,
         ConnectRefused, ReadTimeout, EvalWriteTimeout, Reading, WorkerFree
<1>2. /\ (outage' = outage \/ outage' = TRUE)
      /\ (broken' = broken \/ broken' = TRUE)
  BY Zenon DEF ReadHeaderEof, ReadBodyEof, HandlerFault, EvalWriteFails,
         ConnectRefused, ReadTimeout, EvalWriteTimeout
<1>3. \E rc \in {500, 502, 503, 504} : FinalizeUpstream(rc, status, pstate)
  BY DEF ReadHeaderEof, ReadBodyEof, HandlerFault, EvalWriteFails,
         ConnectRefused, ReadTimeout, EvalWriteTimeout
<1>4. outage' \in {outage, TRUE} /\ broken' \in {broken, TRUE}
  BY <1>2
<1>5. PICK rc \in {500, 502, 503, 504} : FinalizeUpstream(rc, status, pstate)
  BY <1>3
<1> QED
  BY <1>1, <1>4, <1>5, UpstreamSeen

LEMMA StockSeen ==
    ASSUME IInv, IInv', RInv', StockTimeout \/ StockWriteFails
    PROVE  [Contract!Next]_Contract!vars
<1>1. engine = "await" /\ \E rc \in {502, 504} : StockFinalize(rc)
  BY DEF StockTimeout, StockWriteFails, WorkerFree
<1>2. /\ UNCHANGED <<done, open, ruling>> /\ answer' = "reject"
      /\ outage' = TRUE /\ broken' = broken
  BY <1>1 DEF StockFinalize, redisVars
<1> QED
  BY <1>1, <1>2, DecisionSeen

LEMMA ReplySeen ==
    ASSUME IInv, IInv', RInv', engine = "await", NEW s, NEW st,
           \/ ReplyEnds(s, st) /\ UNCHANGED <<outage, broken>>
           \/ ReplyContinues(s, st)
    PROVE  [Contract!Next]_Contract!vars
<1>1. CASE ReplyEnds(s, st) /\ UNCHANGED <<outage, broken>>
  BY <1>1, UpstreamSeen DEF ReplyEnds
<1>2. CASE ReplyContinues(s, st)
  <2>1. UNCHANGED contractVars
    BY <1>2 DEF ReplyContinues, reqVars, redisVars, histVars, contractVars
  <2> QED
    BY <2>1, NothingSeen
<1> QED
  BY <1>1, <1>2

LEMMA ReadSeen ==
    ASSUME IInv, IInv', RInv', ReadHeader \/ ReadBody
    PROVE  [Contract!Next]_Contract!vars
<1>1. engine = "await"
  BY DEF ReadHeader, ReadBody, Reading
<1>2. CASE ReadBody
  BY <1>1, <1>2, ReplySeen DEF ReadBody
<1>3. CASE ReadHeader
  <2>1. PICK m \in 0..prelude_replies :
           \/ HeaderMore(m, Rest(m))
           \/ HeaderTooBig(m, Rest(m))
           \/ HeaderRejected(m, Rest(m))
           \/ HeaderDone(m, Rest(m))
           \/ HeaderNoscript(m, Rest(m))
    BY <1>3 DEF ReadHeader, Rest
  <2>2. CASE HeaderMore(m, Rest(m))
    <3>1. UNCHANGED contractVars
      BY <2>2 DEF HeaderMore, reqVars, redisVars, histVars, contractVars
    <3> QED
      BY <3>1, NothingSeen
  <2>3. CASE HeaderTooBig(m, Rest(m)) \/ HeaderRejected(m, Rest(m))
    <3>1. /\ FinalizeUpstream(500, status, pstate)
          /\ outage' \in {outage, TRUE} /\ broken' \in {broken, TRUE}
      BY <2>3 DEF HeaderTooBig, HeaderRejected
    <3> QED
      BY <1>1, <3>1, UpstreamSeen
  <2>4. CASE HeaderDone(m, Rest(m))
    BY <1>1, <2>4, ReplySeen DEF HeaderDone
  <2>5. CASE HeaderNoscript(m, Rest(m))
    <3>1. CASE /\ FinalizeUpstream(502, status, 0)
               /\ outage' = TRUE /\ UNCHANGED broken
      BY <1>1, <3>1, UpstreamSeen
    <3>2. CASE UNCHANGED <<reqVars, redisVars, histVars>>
      <4>1. UNCHANGED contractVars
        BY <3>2 DEF reqVars, redisVars, histVars, contractVars
      <4> QED
        BY <4>1, NothingSeen
    <3> QED
      BY <2>5, <3>1, <3>2 DEF HeaderNoscript
  <2> QED
    BY <2>1, <2>2, <2>3, <2>4, <2>5
<1> QED
  BY <1>2, <1>3

\* The handler's commitment is the contract's question.
LEMMA HandlerSeen ==
    ASSUME IInv, Handler
    PROVE  [Contract!Next]_Contract!vars
<1>1. CASE HandlerDeclines \/ HandlerRefuses
  <2>1. UNCHANGED contractVars
    BY <1>1 DEF HandlerDeclines, HandlerRefuses, redisVars, histVars, contractVars
  <2> QED
    BY <2>1, NothingSeen
<1>2. CASE SetupFails \/ HandlerBegins \/ HandlerBeginsInVain
  <2>1. /\ ~done /\ done' = TRUE /\ open' = conf.allow
    BY <1>2 DEF SetupFails, HandlerBegins, HandlerBeginsInVain, Commit, Checks
  <2>2. conf.allow \in BOOLEAN
    BY ConfsAssumption DEF IInv, TypeOK, Conf
  <2>3. /\ ruling' = ruling
        /\ outage' \in {outage, TRUE} /\ broken' \in {broken, TRUE}
        /\ answer' = answer \/ (answer' = "reject" /\ (outage' \/ broken'))
    <3>1. CASE SetupFails
      BY <3>1 DEF SetupFails, redisVars
    <3>2. CASE HandlerBegins
      BY <3>2 DEF HandlerBegins, redisVars
    <3>3. CASE HandlerBeginsInVain
      BY <3>3 DEF HandlerBeginsInVain, redisVars
    <3> QED
      BY <1>2, <3>1, <3>2, <3>3
  <2>4. Contract!Ask
    BY <2>1, <2>2, <2>3 DEF Contract!Ask, Contract!Worsen
  <2> QED
    BY <2>4 DEF Contract!Next
<1> QED
  BY <1>1, <1>2 DEF Handler

\* A script that runs is the contract's ruling; a fault disturbs it.
LEMMA RedisSeen ==
    ASSUME IInv, Redis
    PROVE  [Contract!Next]_Contract!vars
<1>1. CASE RedisNoscript \/ ScriptCacheChanges
  <2>1. UNCHANGED contractVars
    BY <1>1 DEF RedisNoscript, ScriptCacheChanges, Answers, reqVars, redisVars,
                histVars, contractVars
  <2> QED
    BY <2>1, NothingSeen
<1>2. CASE RedisPrelude \/ RedisError \/ RedisRuns
  <2>1. /\ inbox # <<>> /\ UNCHANGED <<done, open, outage, answer>>
        /\ broken' \in {broken, TRUE}
    <3>1. CASE RedisPrelude
      BY <3>1 DEF RedisPrelude, Serves, Answers, reqVars
    <3>2. CASE RedisError
      BY <3>2 DEF RedisError, Serves, Answers, reqVars
    <3>3. CASE RedisRuns
      BY <3>3 DEF RedisRuns, Serves, Answers, reqVars
    <3> QED
      BY <1>2, <3>1, <3>2, <3>3
  <2>2. done
    BY <2>1 DEF IInv, RefsInv, TypeOK, FlagsOK
  <2>3. CASE RedisPrelude \/ RedisError
    <3>1. ruling' = ruling
      BY <2>3 DEF RedisPrelude, RedisError, redisVars
    <3>2. Contract!Disturb
      BY <2>1, <2>2, <3>1 DEF Contract!Disturb, Contract!Worsen
    <3> QED
      BY <3>2 DEF Contract!Next
  <2>4. CASE RedisRuns
    <3>1. ruling' \in {"allow", "limit"} /\ inbox[1] \in {"EVALSHA", "EVAL"}
      BY <2>4 DEF RedisRuns, Serves
    <3>2. 1 \in 1..Len(inbox)
      BY <2>1, EmptySeq DEF IInv, TypeOK
    <3>3. ruling = "none"
      BY <3>1, <3>2 DEF IInv, QueueInv, Pending, Script
    <3>4. Contract!Rule
      BY <2>1, <2>2, <3>1, <3>3 DEF Contract!Rule
    <3> QED
      BY <3>4 DEF Contract!Next
  <2> QED
    BY <1>2, <2>3, <2>4
<1> QED
  BY <1>1, <1>2 DEF Redis

LEMMA QuietSeen ==
    ASSUME \/ ReadHeaderAgain \/ ReadBodyAgain \/ ReadBodyFull
           \/ StockWrite \/ EvalWrite \/ Network
           \/ Respond \/ Redirect \/ Finished \/ UNCHANGED vars
    PROVE  [Contract!Next]_Contract!vars
<1>1. UNCHANGED contractVars
  <2> USE DEF contractVars, reqVars, redisVars, histVars
  <2>1. CASE ReadHeaderAgain \/ ReadBodyAgain \/ ReadBodyFull
    BY <2>1 DEF ReadHeaderAgain, ReadBodyAgain, ReadBodyFull
  <2>2. CASE StockWrite \/ EvalWrite
    BY <2>2 DEF StockWrite, EvalWrite
  <2>3. CASE Network
    BY <2>3 DEF Network, Arrive, PeerDrops
  <2>4. CASE Respond \/ Redirect
    BY <2>4 DEF Respond, Redirect
  <2>5. CASE Finished \/ UNCHANGED vars
    BY <2>5 DEF Finished, vars
  <2> QED
    BY <2>1, <2>2, <2>3, <2>4, <2>5
<1> QED
  BY <1>1, NothingSeen

LEMMA StepSeen ==
    ASSUME IInv, IInv', RInv', [Next]_vars
    PROVE  [Contract!Next]_Contract!vars
<1>1. CASE ReadEvent
  BY <1>1, ReadSeen, FailureSeen, QuietSeen DEF ReadEvent
<1>2. CASE WriteEvent
  BY <1>2, FailureSeen, StockSeen, QuietSeen DEF WriteEvent
<1>3. CASE Timeout
  BY <1>3, FailureSeen, StockSeen DEF Timeout
<1> QED
  BY <1>1, <1>2, <1>3, HandlerSeen, RedisSeen, QuietSeen DEF Next

-----------------------------------------------------------------------------
(* The theorems.                                                           *)

\* RInv says of every reachable state what the reply bytes between Redis and
\* the parser are, however recv() cuts them (upstream.c:151-348).
THEOREM StreamInductive == Spec => [](IInv /\ RInv)
<1>1. Init => IInv /\ RInv
  BY InitIInv, InitRInv
<1>2. IInv /\ RInv /\ [Next]_vars => IInv' /\ RInv'
  BY NextIInv, NextRInv
<1> QED
  BY <1>1, <1>2, PTL DEF Spec

\* A faulty reply or an internal fault is let through by nothing but an
\* outage where the location fails open (handler.c:96-103), wherever recv()
\* splits the replies.
THEOREM FaultsFailClosed == Spec => []FaultFailsClosed
<1>1. RInv => FaultFailsClosed
  BY DEF RInv, SettledInv, FaultFailsClosed
<1> QED
  BY <1>1, StreamInductive, PTL

\* With a healthy Redis and worker neither process_header nor process_reply
\* (reply.c:76-289) refuses a reply that allowed the request.
THEOREM RejectionIsSound == Spec => []RejectSound
<1>1. RInv => RejectSound
  BY DEF RInv, SettledInv
<1> QED
  BY <1>1, StreamInductive, PTL

\* The X-RateLimit-* headers (handler.c:753-771) carry the counters of the
\* ruling that was applied.
THEOREM HeadersAreReal == Spec => []HeadersReal
<1>1. RInv => HeadersReal
  BY DEF RInv, SettledInv
<1> QED
  BY <1>1, StreamInductive, PTL

\* What reply.c:280-289 calls a complete reply is the end of all that Redis
\* has sent: a connection that is kept for another request is empty.
THEOREM PooledIsClean == Spec => []PooledClean
<1>1. RInv => PooledClean
  BY DEF RInv, SettledInv
<1> QED
  BY <1>1, StreamInductive, PTL

\* The handler, its round trip, Redis and the network together do only what
\* RatelimitContract allows: one question, at most one ruling, one answer.
THEOREM Implements == Spec => ContractSpec
<1>1. Init => Contract!Init
  BY DEF Init, Contract!Init
<1>2. IInv /\ RInv /\ (IInv /\ RInv)' /\ [Next]_vars => [Contract!Next]_Contract!vars
  BY StepSeen
<1> QED
  BY <1>1, <1>2, StreamInductive, PTL DEF Spec, ContractSpec, Contract!Spec
=============================================================================
