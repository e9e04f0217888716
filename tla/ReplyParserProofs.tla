------------------------- MODULE ReplyParserProofs -------------------------
(* Proofs about ReplyParser, for every set of replies and every width of   *)
(* the words the counters are kept in.                                     *)
EXTENDS ReplyParser, FiniteSetTheorems, TLAPS

USE DEF CR, LF, Minus, Digits, Colon

\* What ngx_http_ratelimit_accum_digit lets through fits a signed word, and
\* nothing that fits is refused (reply.c:13-19): its guard is exact.
LEMMA GuardIsExact ==
    ASSUME NEW val \in Nat, NEW d \in 0..9
    PROVE  Fits(val, d) <=> val * 10 + d <= MaxInt
  BY MaxIntAssumption, SMT DEF Fits

\* The tables of the state machine lead from states to states and counters.
LEMMA TableFacts ==
    /\ DOMAIN CounterOf = {"ARG2", "ARG3", "ARG4", "ARG5"}
    /\ DOMAIN NumberEnd = {"ARG2", "ARG3", "ARG4", "ALLOWED", "ARG5"}
    /\ DOMAIN LineEnd = {"CRLF1", "CRLF2", "LF1", "LF2", "LF3"}
    /\ \A s \in DOMAIN CounterOf : CounterOf[s] \in Counters
    /\ \A s \in DOMAIN NumberEnd : NumberEnd[s] \in States
    /\ \A s \in DOMAIN LineEnd : LineEnd[s] \in States
    /\ {"start", "CRLF1", "CRLF2", "ARG1", "ALLOWED"} \subseteq States
  BY DEF CounterOf, NumberEnd, LineEnd, Counters, States

LEMMA InitTypeOK == Init => TypeOK
  BY MaxIntAssumption, TableFacts DEF Init, TypeOK, Counters

\* A call and its return move between the local and the saved position.
LEMMA CallTypeOK == TypeOK /\ (Call \/ Return) => TypeOK'
  <1> SUFFICES ASSUME TypeOK, Call \/ Return PROVE TypeOK'
    OBVIOUS
  <1>1. CASE Call
    <2>1. arrived' \in Nat /\ pos' <= arrived'
      BY <1>1 DEF Call, TypeOK
    <2> QED BY <1>1, <2>1 DEF Call, TypeOK
  <1>2. CASE Return
    BY <1>2 DEF Return, TypeOK
  <1> QED BY <1>1, <1>2

\* A byte is looked at only if it has arrived.
LEMMA StepPosition ==
    ASSUME TypeOK, Step
    PROVE  /\ pos' \in Nat /\ arrived' \in Nat /\ pos' <= arrived'
           /\ saved' \in States
  BY DEF TypeOK, Step, Reading

\* The one step that computes: a counter that has taken in a digit is still
\* within a signed word, and retry_after has left its sentinel.
LEMMA DigitTypeOK == TypeOK /\ Digit => TypeOK'
  <1> SUFFICES ASSUME TypeOK, Digit PROVE TypeOK'
    OBVIOUS
  <1> DEFINE c == CounterOf[state]
  <1> DEFINE new == Value(c) * 10 + digit
  <1>1. c \in Counters
    BY TableFacts DEF Digit
  <1>2. counter[c] \in -1..MaxInt
    BY <1>1 DEF TypeOK
  <1>3. Value(c) \in Nat
    BY <1>2, MaxIntAssumption DEF Value
  <1>4. digit \in 0..9
    BY DEF Digit, digit
  <1>5. Fits(Value(c), digit) /\ counter' = [counter EXCEPT ![c] = new]
    BY DEF Digit
  <1>6. new \in 0..MaxInt
    BY <1>3, <1>4, <1>5, GuardIsExact, MaxIntAssumption
  <1> HIDE DEF c, new
  <1>7. DOMAIN counter = Counters
    BY DEF TypeOK
  <1>8. DOMAIN counter' = Counters
    BY <1>5, <1>7
  <1>9. counter'[c] = new /\ \A e \in Counters \ {c} : counter'[e] = counter[e]
    BY <1>1, <1>5, <1>7
  <1>10. \A e \in Counters : counter'[e] \in -1..MaxInt
    <2> SUFFICES ASSUME NEW e \in Counters PROVE counter'[e] \in -1..MaxInt
      OBVIOUS
    <2>1. CASE e = c
      BY <2>1, <1>6, <1>9, MaxIntAssumption
    <2>2. CASE e # c
      BY <2>2, <1>9 DEF TypeOK
    <2> QED BY <2>1, <2>2
  <1>11. \A e \in Counters \ {"retry_after"} : counter'[e] >= 0
    <2> SUFFICES ASSUME NEW e \in Counters \ {"retry_after"}
                 PROVE  counter'[e] >= 0
      OBVIOUS
    <2>1. CASE e = c
      BY <2>1, <1>6, <1>9, MaxIntAssumption
    <2>2. CASE e # c
      BY <2>2, <1>9 DEF TypeOK
    <2> QED BY <2>1, <2>2
  <1>12. Step /\ UNCHANGED <<outcome, state, status>>
    BY DEF Digit
  <1> QED BY <1>8, <1>10, <1>11, <1>12, StepPosition DEF TypeOK

\* The -1 of an allowed request is written over whatever was read before.
LEMMA OneTypeOK == TypeOK /\ One => TypeOK'
  <1> SUFFICES ASSUME TypeOK, One PROVE TypeOK'
    OBVIOUS
  <1>1. /\ DOMAIN counter' = Counters
        /\ \A e \in Counters : counter'[e] \in -1..MaxInt
        /\ \A e \in Counters \ {"retry_after"} : counter'[e] >= 0
    BY MaxIntAssumption DEF One, TypeOK, Counters
  <1>2. Step /\ UNCHANGED <<outcome, state, status>>
    BY DEF One
  <1> QED BY <1>1, <1>2, StepPosition DEF TypeOK

\* The other bytes move the state machine and leave the counters alone.
LEMMA ByteTypeOK == TypeOK /\ Byte => TypeOK'
  <1> SUFFICES ASSUME TypeOK, Byte PROVE TypeOK'
    OBVIOUS
  <1>1. CASE Digit
    BY <1>1, DigitTypeOK
  <1>2. CASE One
    BY <1>2, OneTypeOK
  <1>3. CASE Colons \/ Returns
    BY <1>3, StepPosition DEF Colons, Returns, TypeOK
  <1>4. CASE Length \/ Negative
    BY <1>4, StepPosition, TableFacts DEF Length, Negative, TypeOK
  <1>5. CASE Status
    BY <1>5, StepPosition, TableFacts DEF Status, TypeOK
  <1>6. CASE EndOfNumber \/ EndOfLine
    <2>1. state' \in States
      BY <1>6, TableFacts DEF EndOfNumber, EndOfLine
    <2> QED BY <1>6, <2>1, StepPosition DEF EndOfNumber, EndOfLine, TypeOK
  <1>7. CASE Done \/ Refuse
    BY <1>7, StepPosition DEF Done, Refuse, TypeOK
  <1> QED BY <1>1, <1>2, <1>3, <1>4, <1>5, <1>6, <1>7 DEF Byte

\* However many digits a script's integers have and however its reply is cut,
\* no counter of ngx_http_ratelimit_process_reply overflows its word or wraps,
\* and no byte is read behind what has arrived (reply.c:3-20, 59, 208-214).
THEOREM CountersNeverOverflow == Spec => []TypeOK
  <1>1. TypeOK /\ [Next]_vars => TypeOK'
    <2> SUFFICES ASSUME TypeOK, [Next]_vars PROVE TypeOK'
      OBVIOUS
    <2>1. CASE UNCHANGED vars
      BY <2>1 DEF vars, TypeOK
    <2>2. CASE Finished
      BY <2>2 DEF Finished, vars, TypeOK
    <2> QED BY <2>1, <2>2, CallTypeOK, ByteTypeOK DEF Next
  <1> QED BY <1>1, InitTypeOK, PTL DEF Spec

-----------------------------------------------------------------------------
(* Natural numbers.                                                        *)

\* A set of naturals has a least element: the intervals that end at its members
\* are finite sets, ordered by inclusion.
LEMMA LeastNatural ==
    ASSUME NEW T \in SUBSET Nat, T # {}
    PROVE  \E x \in T : \A y \in T : x <= y
<1> DEFINE R == StrictSubsetOrdering(Nat)
           U == {0..n : n \in T}
<1>1. IsWellFoundedOn(R, FiniteSubsetsOf(Nat))
  BY FS_StrictSubsetOrderingWellFounded
<1>2. U \subseteq FiniteSubsetsOf(Nat)
  <2> SUFFICES ASSUME NEW n \in T PROVE 0..n \in FiniteSubsetsOf(Nat)
    OBVIOUS
  <2>1. IsFiniteSet(0..n)
    <3>1. n \in Int /\ 0 \in Int
      OBVIOUS
    <3> QED
      BY <3>1, FS_Interval
  <2>2. 0..n \in SUBSET Nat
    OBVIOUS
  <2> QED
    BY <2>1, <2>2 DEF FiniteSubsetsOf
<1>3. U # {}
  OBVIOUS
<1>4. PICK u \in U : \A v \in U : ~(<<v, u>> \in R)
  <2> HIDE DEF R, U
  <2> QED
    BY <1>1, <1>2, <1>3, WFMin
<1>5. PICK x \in T : u = 0..x
  OBVIOUS
<1>6. ASSUME NEW y \in T, y < x PROVE FALSE
  <2>1. 0..y \subseteq 0..x /\ 0..y # 0..x
    <3>1. x \in 0..x /\ x \notin 0..y
      BY <1>6
    <3> QED
      BY <1>6, <3>1
  <2>2. 0..y \in SUBSET Nat /\ 0..x \in SUBSET Nat
    OBVIOUS
  <2>3. <<0..y, 0..x>> \in R
    BY <2>1, <2>2 DEF StrictSubsetOrdering
  <2> QED
    BY <1>4, <1>5, <2>3
<1> QED
  BY <1>6

\* A set of naturals with 0 and the successors of its members is all of them.
LEMMA SetInduction ==
    ASSUME NEW S \in SUBSET Nat, 0 \in S, \A n \in S : n + 1 \in S
    PROVE  S = Nat
<1> SUFFICES ASSUME S # Nat PROVE FALSE
  OBVIOUS
<1> DEFINE T == Nat \ S
<1>1. PICK x \in T : \A y \in T : x <= y
  BY LeastNatural
<1>2. x - 1 \in Nat /\ x - 1 \notin T
  BY <1>1
<1> QED
  BY <1>1, <1>2

-----------------------------------------------------------------------------
(* Decimal notation.                                                       *)

\* How a number's text follows from those of smaller numbers.
Text(f, n) == IF n < 10 THEN <<48 + n>>
              ELSE Append(f[n \div 10], 48 + (n % 10))

Tables(n) == {f \in [0..n -> Seq(Nat)] : \A m \in 0..n : f[m] = Text(f, m)}

LEMMA Shorter ==
    ASSUME NEW n \in Nat, n >= 10
    PROVE  n \div 10 \in Nat /\ n \div 10 < n /\ n \div 10 >= 1
  OBVIOUS

LEMMA TablesExist == \A n \in Nat : Tables(n) # {}
<1> DEFINE S == {n \in Nat : Tables(n) # {}}
<1>1. 0 \in S
  <2> DEFINE f == [m \in 0..0 |-> <<48>>]
  <2>1. f \in [0..0 -> Seq(Nat)]
    OBVIOUS
  <2>2. \A m \in 0..0 : f[m] = Text(f, m)
    BY DEF Text
  <2> QED
    BY <2>1, <2>2 DEF Tables
<1>2. ASSUME NEW n \in S PROVE n + 1 \in S
  <2>1. PICK f \in [0..n -> Seq(Nat)] : \A m \in 0..n : f[m] = Text(f, m)
    BY DEF Tables
  <2> DEFINE g == [m \in 0..(n + 1) |-> IF m = n + 1 THEN Text(f, n + 1) ELSE f[m]]
  <2>2. Text(f, n + 1) \in Seq(Nat)
    <3>1. CASE n + 1 < 10
      BY <3>1 DEF Text
    <3>2. CASE ~(n + 1 < 10)
      <4> DEFINE k == n + 1
      <4>1. k \in Nat /\ k >= 10
        BY <3>2
      <4> HIDE DEF k
      <4>2. k \div 10 \in Nat /\ k \div 10 < k /\ 48 + (k % 10) \in Nat
        BY <4>1, Shorter
      <4>3. k \div 10 \in 0..n
        BY <4>1, <4>2 DEF k
      <4>4. f[k \div 10] \in Seq(Nat)
        BY <4>3
      <4>5. Append(f[k \div 10], 48 + (k % 10)) \in Seq(Nat)
        BY <4>2, <4>4
      <4> QED
        BY <3>2, <4>5 DEF Text, k
    <3> QED
      BY <3>1, <3>2
  <2>3. g \in [0..(n + 1) -> Seq(Nat)]
    BY <2>2
  <2>4. ASSUME NEW m \in 0..(n + 1) PROVE g[m] = Text(g, m)
    <3>1. Text(f, m) = Text(g, m)
      <4>1. CASE m < 10
        BY <4>1 DEF Text
      <4>2. CASE ~(m < 10)
        <5>1. m \div 10 \in 0..(n + 1) /\ m \div 10 # n + 1
          BY <4>2, Shorter
        <5> QED
          BY <5>1 DEF Text
      <4> QED
        BY <4>1, <4>2
    <3> QED
      BY <2>1, <3>1
  <2> HIDE DEF g
  <2>5. g \in Tables(n + 1) /\ n + 1 \in Nat
    BY <2>3, <2>4 DEF Tables
  <2> QED
    BY <2>5
<1>3. S = Nat
  <2> HIDE DEF S
  <2> QED
    BY <1>1, <1>2, SetInduction DEF S
<1> QED
  BY <1>3

LEMMA TablesAgree ==
    ASSUME NEW n \in Nat, NEW m \in Nat, NEW f \in Tables(n), NEW g \in Tables(m),
           NEW k \in Nat, k <= n, k <= m
    PROVE  f[k] = g[k]
<1> DEFINE T == {i \in Nat : i <= n /\ i <= m /\ f[i] # g[i]}
<1> SUFFICES ASSUME f[k] # g[k] PROVE FALSE
  OBVIOUS
<1>1. PICK x \in T : \A y \in T : x <= y
  <2>1. k \in T
    OBVIOUS
  <2> HIDE DEF T
  <2> QED
    BY <2>1, LeastNatural DEF T
<1>2. f[x] = Text(f, x) /\ g[x] = Text(g, x)
  BY DEF Tables
<1>3. CASE x < 10
  BY <1>2, <1>3 DEF Text
<1>4. CASE ~(x < 10)
  <2>1. x \div 10 \in Nat /\ x \div 10 < x
    BY <1>4, Shorter
  <2>2. f[x \div 10] = g[x \div 10]
    BY <1>1, <2>1
  <2> QED
    BY <1>2, <1>4, <2>2 DEF Text
<1> QED
  BY <1>3, <1>4

\* The equation that Decimal is written as has a solution.
LEMMA DecimalEquation ==
    Decimal = [n \in Nat |-> Text(Decimal, n)]
<1> DEFINE table == [n \in Nat |-> CHOOSE f \in Tables(n) : TRUE]
           F == [n \in Nat |-> table[n][n]]
<1>1. \A n \in Nat : table[n] \in Tables(n)
  BY TablesExist
<1>2. ASSUME NEW n \in Nat
      PROVE  F[n] = Text(F, n)
  <2> HIDE DEF table
  <2>1. table[n][n] = Text(table[n], n)
    BY <1>1 DEF Tables
  <2>2. CASE n < 10
    BY <2>1, <2>2 DEF Text
  <2>3. CASE ~(n < 10)
    <3>1. n \div 10 \in Nat /\ n \div 10 < n
      BY <2>3, Shorter
    <3>2. table[n][n \div 10] = table[n \div 10][n \div 10]
      BY <1>1, <3>1, TablesAgree
    <3> QED
      BY <2>1, <2>3, <3>1, <3>2 DEF Text
  <2> QED
    BY <2>2, <2>3
<1>3. F = [n \in Nat |-> Text(F, n)]
  <2> HIDE DEF table
  <2> QED
    BY <1>2
<1> HIDE DEF F
<1>4. \E g : g = [n \in Nat |-> Text(g, n)]
  BY <1>3
<1> QED
  BY <1>4 DEF Decimal, Text

LEMMA DecimalFacts ==
    ASSUME NEW n \in Nat
    PROVE  /\ n < 10 => Decimal[n] = <<48 + n>>
           /\ n >= 10 => Decimal[n] = Append(Decimal[n \div 10], 48 + (n % 10))
<1>1. Decimal[n] = Text(Decimal, n)
  BY DecimalEquation
<1> QED
  BY <1>1 DEF Text

LEMMA OneDigit ==
    ASSUME NEW n \in Nat, n < 10
    PROVE  /\ Decimal[n] \in Seq(Digits) /\ Len(Decimal[n]) = 1
           /\ Decimal[n][1] = 48 + n
<1> DEFINE d == 48 + n
<1>1. Decimal[n] = <<d>>
  BY DecimalFacts
<1>2. d \in Digits
  OBVIOUS
<1> HIDE DEF d
<1>3. <<d>> \in Seq(Digits) /\ Len(<<d>>) = 1 /\ <<d>>[1] = d
  BY <1>2
<1>4. /\ Decimal[n] \in Seq(Digits) /\ Len(Decimal[n]) = 1
      /\ Decimal[n][1] = d
  BY <1>1, <1>3
<1> QED
  BY <1>4 DEF d

\* A number has a digit, and more than one from ten on.
LEMMA DecimalType ==
    \A n \in Nat : /\ Decimal[n] \in Seq(Digits) /\ Len(Decimal[n]) >= 1
                   /\ n >= 10 => Len(Decimal[n]) >= 2
<1> DEFINE Fine(n) == Decimal[n] \in Seq(Digits) /\ Len(Decimal[n]) >= 1
           T == {n \in Nat : ~Fine(n)}
<1>1. ASSUME NEW n \in Nat, n >= 10, Fine(n \div 10)
      PROVE  Fine(n) /\ Len(Decimal[n]) >= 2
  <2> DEFINE s == Decimal[n \div 10]
             d == 48 + (n % 10)
  <2>1. d \in Digits
    BY <1>1
  <2>2. s \in Seq(Digits) /\ Len(s) >= 1 /\ Len(s) \in Nat
    BY <1>1
  <2>3. Decimal[n] = Append(s, d)
    BY <1>1, DecimalFacts
  <2> HIDE DEF s, d
  <2>4. Append(s, d) \in Seq(Digits) /\ Len(Append(s, d)) = Len(s) + 1
    BY <2>1, <2>2
  <2>5. Len(s) + 1 >= 2
    BY <2>2
  <2> QED
    BY <2>3, <2>4, <2>5
<1>2. T = {}
  <2> SUFFICES ASSUME T # {} PROVE FALSE
    OBVIOUS
  <2>1. PICK x \in T : \A y \in T : x <= y
    <3>1. T \in SUBSET Nat
      OBVIOUS
    <3> HIDE DEF T
    <3> QED
      BY <3>1, LeastNatural
  <2>2. CASE x < 10
    <3>1. x \in Nat /\ ~Fine(x)
      OBVIOUS
    <3>2. Fine(x)
      BY <2>2, <3>1, OneDigit
    <3> QED
      BY <3>1, <3>2
  <2>3. CASE ~(x < 10)
    <3>1. x \div 10 \in Nat /\ x \div 10 < x
      BY <2>3, Shorter
    <3>2. Fine(x \div 10)
      BY <2>1, <3>1
    <3> QED
      BY <1>1, <2>3, <3>2
  <2> QED
    BY <2>2, <2>3
<1>3. \A n \in Nat : Fine(n)
  BY <1>2
<1> QED
  BY <1>1, <1>3, Shorter

\* v says what the first k digits of n are worth.
Worth(v, n) ==
    /\ v \in [0..Len(Decimal[n]) -> 0..n]
    /\ v[0] = 0 /\ v[Len(Decimal[n])] = n
    /\ \A k \in 0..(Len(Decimal[n]) - 1) :
         v[k + 1] = v[k] * 10 + (Decimal[n][k + 1] - 48)

\* Read from the left, digit by digit, a number's text is worth the number, and
\* never more on the way.
LEMMA WorthExists == \A n \in Nat : \E v : Worth(v, n)
<1> DEFINE T == {n \in Nat : ~\E v : Worth(v, n)}
<1>1. ASSUME NEW n \in Nat, n < 10
      PROVE  \E v : Worth(v, n)
  <2> DEFINE v == [k \in 0..1 |-> IF k = 0 THEN 0 ELSE n]
  <2>1. Len(Decimal[n]) = 1 /\ Decimal[n][1] = 48 + n
    BY <1>1, OneDigit
  <2>2. v \in [0..1 -> 0..n] /\ v[0] = 0 /\ v[1] = n
    OBVIOUS
  <2>3. \A k \in 0..0 : k = 0 /\ v[k + 1] = v[k] * 10 + ((48 + n) - 48)
    BY <2>2
  <2> HIDE DEF v
  <2> QED
    BY <2>1, <2>2, <2>3 DEF Worth
<1>2. ASSUME NEW n \in Nat, n >= 10, NEW w, Worth(w, n \div 10)
      PROVE  \E v : Worth(v, n)
  <2> DEFINE m == n \div 10
             s == Decimal[m]
             l == Len(s)
             v == [k \in 0..(l + 1) |-> IF k = l + 1 THEN n ELSE w[k]]
  <2>1. m \in Nat /\ m < n /\ n % 10 \in 0..9 /\ n = m * 10 + (n % 10)
    BY <1>2
  <2> HIDE DEF m
  <2>2. s \in Seq(Digits) /\ l \in Nat /\ l >= 1
    BY <2>1, DecimalType
  <2>3. /\ w \in [0..l -> 0..m] /\ w[0] = 0 /\ w[l] = m
        /\ \A k \in 0..(l - 1) : w[k + 1] = w[k] * 10 + (s[k + 1] - 48)
    BY <1>2 DEF Worth, m
  <2>4. Decimal[n] = Append(s, 48 + (n % 10))
    BY <1>2, DecimalFacts DEF m
  <2> HIDE DEF s
  <2>5. /\ Len(Decimal[n]) = l + 1 /\ Decimal[n][l + 1] = 48 + (n % 10)
        /\ \A k \in 1..l : Decimal[n][k] = s[k]
    BY <2>1, <2>2, <2>4
  <2> HIDE DEF l
  <2>6. v \in [0..(l + 1) -> 0..n]
    <3> SUFFICES ASSUME NEW k \in 0..(l + 1)
                 PROVE  (IF k = l + 1 THEN n ELSE w[k]) \in 0..n
      OBVIOUS
    <3>1. CASE k = l + 1
      BY <3>1
    <3>2. CASE k # l + 1
      <4>1. k \in 0..l
        BY <2>2, <3>2
      <4>2. w[k] \in 0..m
        BY <2>3, <4>1
      <4> QED
        BY <2>1, <3>2, <4>2
    <3> QED
      BY <3>1, <3>2
  <2>7. v[0] = 0 /\ v[l + 1] = n
    BY <2>2, <2>3
  <2>8. ASSUME NEW k \in 0..l
        PROVE  v[k + 1] = v[k] * 10 + (Decimal[n][k + 1] - 48)
    <3>1. CASE k = l
      <4>1. v[k] = m /\ v[k + 1] = n
        BY <2>2, <2>3, <2>7, <3>1
      <4>2. Decimal[n][k + 1] - 48 = n % 10
        BY <2>1, <2>5, <3>1
      <4> HIDE DEF v
      <4> QED
        BY <2>1, <4>1, <4>2
    <3>2. CASE k # l
      <4>1. k \in 0..(l - 1) /\ k + 1 \in 1..l /\ k + 1 # l + 1 /\ k # l + 1
        BY <2>2, <3>2
      <4>2. v[k + 1] = w[k + 1] /\ v[k] = w[k]
        BY <2>2, <4>1
      <4> QED
        BY <2>3, <2>5, <4>1, <4>2
    <3> QED
      BY <3>1, <3>2
  <2> HIDE DEF v
  <2>9. Worth(v, n)
    BY <2>2, <2>5, <2>6, <2>7, <2>8 DEF Worth
  <2> QED
    BY <2>9
<1>3. T = {}
  <2> SUFFICES ASSUME T # {} PROVE FALSE
    OBVIOUS
  <2>1. PICK x \in T : \A y \in T : x <= y
    <3>1. T \in SUBSET Nat
      OBVIOUS
    <3> HIDE DEF T
    <3> QED
      BY <3>1, LeastNatural
  <2>2. x >= 10
    BY <1>1
  <2>3. x \div 10 \in Nat /\ x \div 10 < x
    BY <2>2, Shorter
  <2>4. \E w : Worth(w, x \div 10)
    BY <2>1, <2>3
  <2> QED
    BY <1>2, <2>2, <2>4
<1> QED
  BY <1>3

-----------------------------------------------------------------------------
(* The bytes on the wire.                                                  *)

\* Where the bytes of two texts are in one behind the other.
LEMMA Joined ==
    ASSUME NEW S, NEW s \in Seq(S), NEW t \in Seq(S)
    PROVE  /\ s \o t \in Seq(S) /\ Len(s \o t) = Len(s) + Len(t)
           /\ \A k \in 1..Len(s) : (s \o t)[k] = s[k]
           /\ \A k \in 1..Len(t) : (s \o t)[Len(s) + k] = t[k]
OBVIOUS

IsInt(r, e) == r[e].kind = "int"

\* The digits a number is written with.
Places(n) == Len(Decimal[n])

LEMMA DecimalText ==
    ASSUME NEW n \in Nat
    PROVE  /\ Decimal[n] \in Seq(Nat) /\ Places(n) \in Nat /\ Places(n) >= 1
           /\ \A k \in 1..Places(n) : Decimal[n][k] \in Digits
<1>1. Decimal[n] \in Seq(Digits) /\ Len(Decimal[n]) >= 1
  BY DecimalType
<1> DEFINE d == Decimal[n]
<1> HIDE DEF d
<1>2. d \in Seq(Nat) /\ Len(d) \in Nat /\ \A k \in 1..Len(d) : d[k] \in Digits
  BY <1>1 DEF d
<1> QED
  BY <1>1, <1>2 DEF d, Places

LEMMA ResultFacts ==
    ASSUME NEW r \in Seq(Results), NEW e \in 1..Len(r)
    PROVE  /\ r[e].kind \in {"int", "other"}
           /\ IsInt(r, e) => r[e].int \in Int
<1>1. r[e] \in Results
  OBVIOUS
<1> QED
  BY <1>1 DEF Results, IsInt

\* The text of an element.
Shown(r, e) == ElementText(r[e])

\* A nil.
LEMMA OtherShown ==
    ASSUME NEW r \in Seq(Results), NEW e \in 1..Len(r), ~IsInt(r, e)
    PROVE  /\ Shown(r, e) \in Seq(Nat) /\ Len(Shown(r, e)) = 5
           /\ Shown(r, e)[1] = 36
<1>1. r[e].kind = "other"
  BY ResultFacts DEF IsInt
<1>2. Shown(r, e) = <<36, 45, 49>> \o <<13, 10>>
  BY <1>1 DEF Shown, ElementText
<1> QED
  BY <1>2

\* A number that is not negative.
LEMMA NumberShown ==
    ASSUME NEW r \in Seq(Results), NEW e \in 1..Len(r), IsInt(r, e), r[e].int >= 0
    PROVE  LET int == r[e].int
               text == Shown(r, e)
           IN  /\ text \in Seq(Nat) /\ Len(text) = Places(int) + 3
               /\ text[1] = 58
               /\ \A k \in 1..Places(int) : text[k + 1] = Decimal[int][k]
               /\ text[Places(int) + 2] = 13 /\ text[Places(int) + 3] = 10
<1> DEFINE int == r[e].int
           d == Decimal[int]
           head == <<58>> \o d
<1>1. int \in Nat
  BY ResultFacts
<1>2. d \in Seq(Nat) /\ Len(d) \in Nat
  BY <1>1, DecimalText DEF Places
<1>3. Shown(r, e) = head \o <<13, 10>>
  <2>1. ~(r[e].int < 0)
    BY ResultFacts
  <2> QED
    BY <2>1 DEF Shown, ElementText, IsInt
<1> HIDE DEF d
<1>4. /\ head \in Seq(Nat) /\ Len(head) = 1 + Len(d) /\ head[1] = 58
      /\ \A k \in 1..Len(d) : head[k + 1] = d[k]
  BY <1>2
<1> HIDE DEF head
<1>5. /\ head \o <<13, 10>> \in Seq(Nat)
      /\ Len(head \o <<13, 10>>) = Len(d) + 3
      /\ \A k \in 1..(Len(d) + 1) : (head \o <<13, 10>>)[k] = head[k]
      /\ (head \o <<13, 10>>)[Len(d) + 2] = 13
      /\ (head \o <<13, 10>>)[Len(d) + 3] = 10
  BY <1>2, <1>4
<1>6. \A k \in 1..Len(d) : (head \o <<13, 10>>)[k + 1] = d[k]
  BY <1>2, <1>4, <1>5
<1>7. (head \o <<13, 10>>)[1] = 58
  BY <1>2, <1>4, <1>5
<1> QED
  BY <1>3, <1>5, <1>6, <1>7 DEF Places, d

\* The same, as one fact of an element.
NumberLine(r, e) ==
    /\ Len(Shown(r, e)) = Places(r[e].int) + 3 /\ Shown(r, e)[1] = 58
    /\ \A k \in 1..Places(r[e].int) : Shown(r, e)[k + 1] = Decimal[r[e].int][k]
    /\ Shown(r, e)[Places(r[e].int) + 2] = 13
    /\ Shown(r, e)[Places(r[e].int) + 3] = 10

LEMMA NumberLines ==
    ASSUME NEW r \in Seq(Results), NEW e \in 1..Len(r), IsInt(r, e), r[e].int >= 0
    PROVE  NumberLine(r, e)
  BY NumberShown DEF NumberLine

\* A negative number.
LEMMA NegativeShown ==
    ASSUME NEW r \in Seq(Results), NEW e \in 1..Len(r), IsInt(r, e), r[e].int < 0
    PROVE  LET int == -r[e].int
               text == Shown(r, e)
           IN  /\ text \in Seq(Nat) /\ Len(text) = Places(int) + 4
               /\ text[1] = 58 /\ text[2] = 45
               /\ \A k \in 1..Places(int) : text[k + 2] = Decimal[int][k]
               /\ text[Places(int) + 3] = 13 /\ text[Places(int) + 4] = 10
<1> DEFINE int == -r[e].int
           d == Decimal[int]
           head == <<58, 45>> \o d
<1>1. int \in Nat
  BY ResultFacts
<1>2. d \in Seq(Nat) /\ Len(d) \in Nat
  BY <1>1, DecimalText DEF Places
<1>3. Shown(r, e) = head \o <<13, 10>>
  <2>1. ~(r[e].int >= 0)
    BY ResultFacts
  <2> QED
    BY <2>1 DEF Shown, ElementText, IsInt
<1> HIDE DEF d
<1>4. /\ head \in Seq(Nat) /\ Len(head) = 2 + Len(d)
      /\ head[1] = 58 /\ head[2] = 45
      /\ \A k \in 1..Len(d) : head[k + 2] = d[k]
  BY <1>2
<1> HIDE DEF head
<1>5. /\ head \o <<13, 10>> \in Seq(Nat)
      /\ Len(head \o <<13, 10>>) = Len(d) + 4
      /\ \A k \in 1..(Len(d) + 2) : (head \o <<13, 10>>)[k] = head[k]
      /\ (head \o <<13, 10>>)[Len(d) + 3] = 13
      /\ (head \o <<13, 10>>)[Len(d) + 4] = 10
  BY <1>2, <1>4
<1>6. \A k \in 1..Len(d) : (head \o <<13, 10>>)[k + 2] = d[k]
  BY <1>2, <1>4, <1>5
<1>7. (head \o <<13, 10>>)[1] = 58 /\ (head \o <<13, 10>>)[2] = 45
  BY <1>2, <1>4, <1>5
<1> QED
  BY <1>3, <1>5, <1>6, <1>7 DEF Places, d

NegativeLine(r, e) ==
    /\ Len(Shown(r, e)) = Places(-r[e].int) + 4
    /\ Shown(r, e)[1] = 58 /\ Shown(r, e)[2] = 45
    /\ Shown(r, e)[Places(-r[e].int) + 4] = 10

LEMMA NegativeLines ==
    ASSUME NEW r \in Seq(Results), NEW e \in 1..Len(r), IsInt(r, e), r[e].int < 0
    PROVE  NegativeLine(r, e)
  BY NegativeShown DEF NegativeLine

LEMMA ShownType ==
    ASSUME NEW r \in Seq(Results), NEW e \in 1..Len(r)
    PROVE  Shown(r, e) \in Seq(Nat) /\ Len(Shown(r, e)) \in Nat
           /\ Len(Shown(r, e)) >= 1
<1>1. CASE ~IsInt(r, e)
  BY <1>1, OtherShown
<1>2. CASE IsInt(r, e) /\ r[e].int >= 0
  <2>1. r[e].int \in Nat
    BY <1>2, ResultFacts
  <2>2. Places(r[e].int) \in Nat
    BY <2>1, DecimalType DEF Places
  <2> QED
    BY <1>2, <2>2, NumberShown
<1>3. CASE IsInt(r, e) /\ r[e].int < 0
  <2>1. -r[e].int \in Nat
    BY <1>3, ResultFacts
  <2>2. Places(-r[e].int) \in Nat
    BY <2>1, DecimalType DEF Places
  <2> QED
    BY <1>3, <2>2, NegativeShown
<1> QED
  BY <1>1, <1>2, <1>3, ResultFacts

\* The texts so far, one behind the other.
Joins(s, n) ==
    {f \in [1..n -> Seq(Nat)] :
       \A i \in 1..n : f[i] = IF i = 1 THEN s[i] ELSE f[i - 1] \o s[i]}

LEMMA JoinsExist ==
    ASSUME NEW s \in Seq(Seq(Nat))
    PROVE  Joins(s, Len(s)) # {}
<1> DEFINE S == {n \in Nat : n <= Len(s) => Joins(s, n) # {}}
<1>1. 0 \in S
  <2> DEFINE f == [i \in 1..0 |-> <<>>]
  <2>1. f \in Joins(s, 0)
    BY DEF Joins
  <2> QED
    BY <2>1
<1>2. ASSUME NEW n \in S PROVE n + 1 \in S
  <2> SUFFICES ASSUME n + 1 <= Len(s) PROVE Joins(s, n + 1) # {}
    OBVIOUS
  <2>1. n \in Nat /\ n <= Len(s)
    OBVIOUS
  <2>2. PICK f \in Joins(s, n) : TRUE
    BY <2>1
  <2>3. /\ f \in [1..n -> Seq(Nat)]
        /\ \A i \in 1..n : f[i] = IF i = 1 THEN s[i] ELSE f[i - 1] \o s[i]
    BY DEF Joins
  <2> DEFINE new == IF n + 1 = 1 THEN s[n + 1] ELSE f[n] \o s[n + 1]
             g == [i \in 1..(n + 1) |-> IF i = n + 1 THEN new ELSE f[i]]
  <2>4. new \in Seq(Nat)
    <3>1. s[n + 1] \in Seq(Nat)
      BY <2>1
    <3>2. CASE n = 0
      BY <3>1, <3>2
    <3>3. CASE n # 0
      <4>1. f[n] \in Seq(Nat)
        BY <2>1, <2>3, <3>3
      <4> QED
        BY <2>1, <3>1, <3>3, <4>1
    <3> QED
      BY <3>2, <3>3
  <2> HIDE DEF new
  <2>5. g \in [1..(n + 1) -> Seq(Nat)]
    BY <2>1, <2>3, <2>4
  <2>6. ASSUME NEW i \in 1..(n + 1)
        PROVE  g[i] = IF i = 1 THEN s[i] ELSE g[i - 1] \o s[i]
    <3>1. CASE i = n + 1
      <4>1. g[i] = new
        BY <3>1
      <4>2. n # 0 => g[n] = f[n]
        BY <2>1
      <4> HIDE DEF g
      <4> QED
        BY <2>1, <3>1, <4>1, <4>2 DEF new
    <3>2. CASE i # n + 1
      <4>1. i \in 1..n /\ g[i] = f[i] /\ (i # 1 => g[i - 1] = f[i - 1])
        BY <2>1, <3>2
      <4> HIDE DEF g
      <4> QED
        BY <2>3, <4>1
    <3> QED
      BY <3>1, <3>2
  <2> HIDE DEF g
  <2>7. g \in Joins(s, n + 1)
    BY <2>5, <2>6 DEF Joins
  <2> QED
    BY <2>7
<1>3. S = Nat
  <2>1. S \in SUBSET Nat
    OBVIOUS
  <2> HIDE DEF S
  <2> QED
    BY <1>1, <1>2, <2>1, SetInduction
<1>4. Len(s) \in S
  BY <1>3
<1> QED
  BY <1>4

\* What FlattenSeq chooses is one of these.
LEMMA FlattenFacts ==
    ASSUME NEW s \in Seq(Seq(Nat)), Len(s) >= 1
    PROVE  \E f \in Joins(s, Len(s)) : FlattenSeq(s) = f[Len(s)]
<1> DEFINE body(f) == [i \in 1..Len(s) |-> IF i = 1 THEN s[i] ELSE f[i - 1] \o s[i]]
           f == CHOOSE f : f = body(f)
<1>1. FlattenSeq(s) = f[Len(s)]
  BY DEF FlattenSeq
<1>2. PICK g \in Joins(s, Len(s)) : TRUE
  BY JoinsExist
<1>3. g = body(g)
  BY DEF Joins
<1>4. f = body(f)
  <2> HIDE DEF body
  <2> QED
    BY <1>3
<1> HIDE DEF f
<1>5. \A i \in 1..Len(s) : f[i] = IF i = 1 THEN s[i] ELSE f[i - 1] \o s[i]
  BY <1>4
<1>6. \A n \in Nat : n \in 1..Len(s) => f[n] \in Seq(Nat)
  <2> DEFINE S == {n \in Nat : n \in 1..Len(s) => f[n] \in Seq(Nat)}
  <2>1. 0 \in S
    OBVIOUS
  <2>2. ASSUME NEW n \in S PROVE n + 1 \in S
    <3> SUFFICES ASSUME n + 1 \in 1..Len(s) PROVE f[n + 1] \in Seq(Nat)
      OBVIOUS
    <3>1. s[n + 1] \in Seq(Nat)
      OBVIOUS
    <3>2. CASE n = 0
      BY <1>5, <3>1, <3>2
    <3>3. CASE n # 0
      <4>1. n \in 1..Len(s) /\ f[n] \in Seq(Nat) /\ n + 1 # 1 /\ (n + 1) - 1 = n
        BY <3>3
      <4>2. f[n + 1] = f[n] \o s[n + 1]
        BY <1>5, <4>1
      <4> QED
        BY <3>1, <4>1, <4>2
    <3> QED
      BY <3>2, <3>3
  <2>3. S = Nat
    <3>1. S \in SUBSET Nat
      OBVIOUS
    <3> HIDE DEF S
    <3> QED
      BY <2>1, <2>2, <3>1, SetInduction
  <2> QED
    BY <2>3
<1>7. f \in [1..Len(s) -> Seq(Nat)]
  <2>1. DOMAIN f = 1..Len(s) /\ f = [i \in 1..Len(s) |-> f[i]]
    <3> DEFINE h == body(f)
    <3>1. DOMAIN h = 1..Len(s) /\ h = [i \in 1..Len(s) |-> h[i]]
      OBVIOUS
    <3> HIDE DEF h
    <3>2. f = h
      BY <1>4 DEF h
    <3> QED
      BY <3>1, <3>2
  <2> QED
    BY <1>6, <2>1
<1> QED
  BY <1>1, <1>5, <1>7 DEF Joins

\* The bytes before an element of five, and before what follows the fifth.
Before(r, e) == 3 + (IF e > 1 THEN Len(Shown(r, 1)) ELSE 0)
                  + (IF e > 2 THEN Len(Shown(r, 2)) ELSE 0)
                  + (IF e > 3 THEN Len(Shown(r, 3)) ELSE 0)
                  + (IF e > 4 THEN Len(Shown(r, 4)) ELSE 0)
                  + (IF e > 5 THEN Len(Shown(r, 5)) ELSE 0)

LEMMA BeforeFacts ==
    ASSUME NEW r \in Seq(Results), Len(r) = 5
    PROVE  /\ Before(r, 1) = 3
           /\ \A e \in 1..6 : Before(r, e) \in Nat /\ Before(r, e) >= 3
           /\ \A e \in 1..5 : Before(r, e + 1) = Before(r, e) + Len(Shown(r, e))
           /\ \A e, i \in 1..6 : e <= i => Before(r, e) <= Before(r, i)
<1> DEFINE a == Len(Shown(r, 1))
           b == Len(Shown(r, 2))
           c == Len(Shown(r, 3))
           d == Len(Shown(r, 4))
           f == Len(Shown(r, 5))
<1>1. a \in Nat /\ b \in Nat /\ c \in Nat /\ d \in Nat /\ f \in Nat
  BY ShownType
<1>2. /\ Before(r, 1) = 3 /\ Before(r, 2) = 3 + a /\ Before(r, 3) = 3 + a + b
      /\ Before(r, 4) = 3 + a + b + c /\ Before(r, 5) = 3 + a + b + c + d
      /\ Before(r, 6) = 3 + a + b + c + d + f
  <2> HIDE DEF a, b, c, d, f
  <2> QED
    BY <1>1 DEF Before, a, b, c, d, f
<1> HIDE DEF a, b, c, d, f
<1>shown. /\ Len(Shown(r, 1)) = a /\ Len(Shown(r, 2)) = b /\ Len(Shown(r, 3)) = c
          /\ Len(Shown(r, 4)) = d /\ Len(Shown(r, 5)) = f
  BY DEF a, b, c, d, f
<1>3. \A e \in 1..5 : Before(r, e + 1) = Before(r, e) + Len(Shown(r, e))
  <2> SUFFICES ASSUME NEW e \in 1..5
               PROVE  Before(r, e + 1) = Before(r, e) + Len(Shown(r, e))
    OBVIOUS
  <2>1. CASE e = 1
    <3>1. Before(r, 2) = Before(r, 1) + Len(Shown(r, 1))
      BY <1>2, <1>shown
    <3>2. e + 1 = 2
      BY <2>1
    <3> QED
      BY <2>1, <3>1, <3>2, Zenon
  <2>2. CASE e = 2
    <3>1. Before(r, 3) = Before(r, 2) + Len(Shown(r, 2))
      BY <1>1, <1>2, <1>shown
    <3>2. e + 1 = 3
      BY <2>2
    <3> QED
      BY <2>2, <3>1, <3>2, Zenon
  <2>3. CASE e = 3
    <3>1. Before(r, 4) = Before(r, 3) + Len(Shown(r, 3))
      BY <1>1, <1>2, <1>shown
    <3>2. e + 1 = 4
      BY <2>3
    <3> QED
      BY <2>3, <3>1, <3>2, Zenon
  <2>4. CASE e = 4
    <3>1. Before(r, 5) = Before(r, 4) + Len(Shown(r, 4))
      BY <1>1, <1>2, <1>shown
    <3>2. e + 1 = 5
      BY <2>4
    <3> QED
      BY <2>4, <3>1, <3>2, Zenon
  <2>5. CASE e = 5
    <3>1. Before(r, 6) = Before(r, 5) + Len(Shown(r, 5))
      BY <1>1, <1>2, <1>shown
    <3>2. e + 1 = 6
      BY <2>5
    <3> QED
      BY <2>5, <3>1, <3>2, Zenon
  <2>6. e = 1 \/ e = 2 \/ e = 3 \/ e = 4 \/ e = 5
    OBVIOUS
  <2> QED
    BY <2>1, <2>2, <2>3, <2>4, <2>5, <2>6, Zenon
<1>4. \A e \in 1..6 : e \in {1, 2, 3, 4, 5, 6}
  OBVIOUS
<1> DEFINE B(e) == Before(r, e)
<1>ordered. /\ B(1) \in Nat /\ B(2) \in Nat /\ B(3) \in Nat
            /\ B(4) \in Nat /\ B(5) \in Nat /\ B(6) \in Nat
            /\ 3 <= B(1) /\ B(1) <= B(2) /\ B(2) <= B(3)
            /\ B(3) <= B(4) /\ B(4) <= B(5) /\ B(5) <= B(6)
  BY <1>1, <1>2
<1> HIDE DEF B
<1>5. \A e \in 1..6 : B(e) \in Nat /\ B(e) >= 3
  BY <1>ordered, <1>4
<1>6. \A e, i \in 1..6 : e <= i => B(e) <= B(i)
  BY <1>ordered, <1>4
<1> QED
  BY <1>2, <1>3, <1>5, <1>6 DEF B

\* The elements' texts are where Before says.
LEMMA FlattenOfFive ==
    ASSUME NEW r \in Seq(Results), Len(r) = 5
    PROVE  LET body == FlattenSeq([i \in 1..Len(r) |-> Shown(r, i)])
           IN  /\ body \in Seq(Nat) /\ Len(body) = Before(r, 6) - 3
               /\ \A e \in 1..5 : \A k \in 1..Len(Shown(r, e)) :
                    body[Before(r, e) - 3 + k] = Shown(r, e)[k]
<1> DEFINE s == [i \in 1..Len(r) |-> Shown(r, i)]
<1>1. s \in Seq(Seq(Nat)) /\ Len(s) = 5 /\ \A i \in 1..5 : s[i] = Shown(r, i)
  BY ShownType
<1> HIDE DEF s
<1>before. /\ Before(r, 1) = 3
           /\ \A e \in 1..6 : Before(r, e) \in Nat /\ Before(r, e) >= 3
           /\ \A e \in 1..5 : Before(r, e + 1) = Before(r, e) + Len(Shown(r, e))
           /\ \A e, i \in 1..6 : e <= i => Before(r, e) <= Before(r, i)
  BY BeforeFacts
<1>shown. \A e \in 1..5 : Shown(r, e) \in Seq(Nat) /\ Len(Shown(r, e)) \in Nat
  BY ShownType
<1>2. PICK f \in Joins(s, 5) : FlattenSeq(s) = f[5]
  <2>1. Len(s) >= 1
    BY <1>1
  <2>2. \E f \in Joins(s, Len(s)) : FlattenSeq(s) = f[Len(s)]
    BY <1>1, <2>1, FlattenFacts
  <2> QED
    BY <1>1, <2>2
<1>3. /\ f[1] = Shown(r, 1)
      /\ \A e \in 1..4 : f[e + 1] = f[e] \o Shown(r, e + 1)
      /\ \A e \in 1..5 : f[e] \in Seq(Nat)
  <2>1. /\ f \in [1..5 -> Seq(Nat)]
        /\ \A i \in 1..5 : f[i] = IF i = 1 THEN s[i] ELSE f[i - 1] \o s[i]
    BY <1>1 DEF Joins
  <2>2. ASSUME NEW e \in 1..4 PROVE f[e + 1] = f[e] \o Shown(r, e + 1)
    <3>1. e + 1 \in 1..5 /\ e + 1 # 1 /\ (e + 1) - 1 = e
      OBVIOUS
    <3> QED
      BY <1>1, <2>1, <3>1
  <2>3. f[1] = Shown(r, 1)
    <3>1. 1 \in 1..5
      OBVIOUS
    <3> QED
      BY <1>1, <2>1, <3>1
  <2>4. \A e \in 1..5 : f[e] \in Seq(Nat)
    BY <2>1
  <2> QED
    BY <2>2, <2>3, <2>4
<1> DEFINE At(e) ==
      /\ Len(f[e]) = Before(r, e + 1) - 3
      /\ \A i \in 1..5 : i <= e => \A k \in 1..Len(Shown(r, i)) :
           f[e][Before(r, i) - 3 + k] = Shown(r, i)[k]
<1>4. At(1)
  <2> DEFINE l == Len(Shown(r, 1))
  <2>1. l \in Nat
    BY ShownType
  <2>2. Before(r, 2) = 3 + l
    <3>1. 1 \in 1..5 /\ 1 + 1 = 2
      OBVIOUS
    <3> QED
      BY <3>1, BeforeFacts
  <2>3. Before(r, 1) = 3
    BY BeforeFacts
  <2> HIDE DEF l
  <2>4. Before(r, 1 + 1) - 3 = l
    <3>1. 1 + 1 = 2
      OBVIOUS
    <3> QED
      BY <2>1, <2>2, <3>1
  <2>5. ASSUME NEW i \in 1..5, i <= 1, NEW k \in 1..l
        PROVE  i = 1 /\ Before(r, i) - 3 + k = k
    BY <2>1, <2>3, <2>5
  <2>6. ASSUME NEW i \in 1..5, i <= 1, NEW k \in 1..Len(Shown(r, i))
        PROVE  f[1][Before(r, i) - 3 + k] = Shown(r, i)[k]
    <3>1. i = 1
      BY <2>6
    <3> QED
      BY <1>3, <2>5, <2>6, <3>1 DEF l
  <2> QED
    BY <1>3, <2>4, <2>6 DEF l
<1>5. ASSUME NEW e \in 1..4, At(e) PROVE At(e + 1)
  <2> DEFINE t == Shown(r, e + 1)
             g == f[e]
  <2>1. t \in Seq(Nat) /\ g \in Seq(Nat) /\ f[e + 1] = g \o t
    <3>1. e + 1 \in 1..5 /\ e \in 1..5
      OBVIOUS
    <3> QED
      BY <1>3, <1>shown, <3>1
  <2>2. Len(g) = Before(r, e + 1) - 3
    BY <1>5, Zenon
  <2>3. \A i \in 1..5 : i <= e => \A k \in 1..Len(Shown(r, i)) :
           g[Before(r, i) - 3 + k] = Shown(r, i)[k]
    BY <1>5
  <2>4. Before(r, e + 2) = Before(r, e + 1) + Len(t)
    <3>1. e + 1 \in 1..5 /\ (e + 1) + 1 = e + 2
      OBVIOUS
    <3> QED
      BY <1>before, <3>1
  <2>5. Before(r, e + 1) \in Nat /\ Before(r, e + 1) >= 3
    <3>1. e + 1 \in 1..6
      OBVIOUS
    <3> QED
      BY <1>before, <3>1
  <2> HIDE DEF t, g
  <2>6. /\ Len(g \o t) = Len(g) + Len(t) /\ Len(g) \in Nat /\ Len(t) \in Nat
        /\ \A k \in 1..Len(g) : (g \o t)[k] = g[k]
        /\ \A k \in 1..Len(t) : (g \o t)[Len(g) + k] = t[k]
    BY <2>1, Joined
  <2>7. Len(f[e + 1]) = Before(r, (e + 1) + 1) - 3
    <3>1. (e + 1) + 1 = e + 2
      OBVIOUS
    <3> QED
      BY <2>1, <2>2, <2>4, <2>5, <2>6, <3>1
  <2>8. ASSUME NEW i \in 1..5, i <= e + 1, NEW k \in 1..Len(Shown(r, i))
        PROVE  (g \o t)[Before(r, i) - 3 + k] = Shown(r, i)[k]
    <3>1. CASE i = e + 1
      <4>1. k \in 1..Len(t) /\ Before(r, i) - 3 + k = Len(g) + k
        BY <2>2, <2>5, <3>1 DEF t
      <4> QED
        BY <2>6, <3>1, <4>1 DEF t
    <3>2. CASE i # e + 1
      <4>1. i <= e /\ i + 1 <= e + 1 /\ i + 1 \in 1..6 /\ e + 1 \in 1..6
        BY <2>8, <3>2
      <4>2. /\ Before(r, i) + Len(Shown(r, i)) = Before(r, i + 1)
            /\ Before(r, i + 1) <= Before(r, e + 1)
            /\ Before(r, i) >= 3 /\ Before(r, i) \in Nat
            /\ Len(Shown(r, i)) \in Nat
        <5>1. i \in 1..6
          OBVIOUS
        <5> QED
          BY <1>before, <1>shown, <4>1, <5>1
      <4> DEFINE p == Before(r, i) - 3 + k
      <4>3. p \in 1..Len(g)
        BY <2>2, <2>5, <4>2
      <4>4. g[p] = Shown(r, i)[k]
        BY <2>3, <4>1
      <4> HIDE DEF p
      <4>5. (g \o t)[p] = Shown(r, i)[k]
        BY <2>6, <4>3, <4>4
      <4> QED
        BY <4>5 DEF p
    <3> QED
      BY <3>1, <3>2
  <2> QED
    BY <2>1, <2>7, <2>8
<1>6. At(5)
  <2> HIDE DEF At
  <2>1. At(2)
    <3>1. 1 \in 1..4 /\ 1 + 1 = 2
      OBVIOUS
    <3> QED
      BY <1>4, <1>5, <3>1
  <2>2. At(3)
    <3>1. 2 \in 1..4 /\ 2 + 1 = 3
      OBVIOUS
    <3> QED
      BY <1>5, <2>1, <3>1
  <2>3. At(4)
    <3>1. 3 \in 1..4 /\ 3 + 1 = 4
      OBVIOUS
    <3> QED
      BY <1>5, <2>2, <3>1
  <2> QED
    <3>1. 4 \in 1..4 /\ 4 + 1 = 5
      OBVIOUS
    <3> QED
      BY <1>5, <2>3, <3>1
<1> DEFINE body == FlattenSeq(s)
<1>7. body \in Seq(Nat) /\ Len(body) = Before(r, 6) - 3
  <2>1. 5 \in 1..5 /\ 5 + 1 = 6
    OBVIOUS
  <2> QED
    BY <1>2, <1>3, <1>6, <2>1
<1>8. ASSUME NEW e \in 1..5, NEW k \in 1..Len(Shown(r, e))
      PROVE  body[Before(r, e) - 3 + k] = Shown(r, e)[k]
  <2>1. e <= 5
    OBVIOUS
  <2> QED
    BY <1>2, <1>6, <2>1
<1> HIDE DEF body
<1>9. /\ body \in Seq(Nat) /\ Len(body) = Before(r, 6) - 3
      /\ \A e \in 1..5 : \A k \in 1..Len(Shown(r, e)) :
           body[Before(r, e) - 3 + k] = Shown(r, e)[k]
  BY <1>7, <1>8
<1> QED
  BY <1>9, Zenon DEF s, body

\* An array begins with its length in a line of its own.
LEMMA WireHead ==
    ASSUME NEW r \in Seq(Results)
    PROVE  LET l == Places(Len(r))
           IN  /\ Len(Wire(r)) \in Nat /\ Len(Wire(r)) >= l + 2
               /\ \A k \in 1..l : Wire(r)[k] = Decimal[Len(r)][k]
               /\ Wire(r)[l + 1] = 13 /\ Wire(r)[l + 2] = 10
<1> DEFINE d == Decimal[Len(r)]
           s == [i \in 1..Len(r) |-> Shown(r, i)]
           body == FlattenSeq(s)
           head == d \o <<13, 10>>
<1>1. d \in Seq(Nat) /\ Len(d) \in Nat
  BY DecimalText DEF Places
<1>2. body \in Seq(Nat)
  <2>1. s \in Seq(Seq(Nat)) /\ Len(s) = Len(r)
    BY ShownType
  <2> HIDE DEF s
  <2>2. CASE Len(s) = 0
    BY <2>1, <2>2 DEF FlattenSeq
  <2>3. CASE Len(s) # 0
    <3>1. Len(s) >= 1 /\ Len(s) \in 1..Len(s)
      BY <2>1, <2>3
    <3>2. PICK f \in Joins(s, Len(s)) : FlattenSeq(s) = f[Len(s)]
      BY <2>1, <3>1, FlattenFacts
    <3>3. f \in [1..Len(s) -> Seq(Nat)]
      BY DEF Joins
    <3> QED
      BY <3>1, <3>2, <3>3
  <2> QED
    BY <2>2, <2>3
<1>3. Wire(r) = head \o body
  BY DEF Wire, Shown
<1> HIDE DEF d, body
<1>4. /\ head \in Seq(Nat) /\ Len(head) = Len(d) + 2
      /\ \A k \in 1..Len(d) : head[k] = d[k]
      /\ head[Len(d) + 1] = 13 /\ head[Len(d) + 2] = 10
  BY <1>1
<1> HIDE DEF head
<1>5. /\ Len(head \o body) \in Nat /\ Len(head \o body) >= Len(d) + 2
      /\ \A k \in 1..(Len(d) + 2) : (head \o body)[k] = head[k]
  BY <1>1, <1>2, <1>4
<1>6. /\ \A k \in 1..Len(d) : (head \o body)[k] = d[k]
      /\ (head \o body)[Len(d) + 1] = 13 /\ (head \o body)[Len(d) + 2] = 10
  BY <1>1, <1>4, <1>5
<1> QED
  BY <1>3, <1>5, <1>6 DEF d, Places

\* An array of five: its length takes three bytes, then come the elements.
LEMMA WireOfFive ==
    ASSUME NEW r \in Seq(Results), Len(r) = 5
    PROVE  /\ Len(Wire(r)) = Before(r, 6)
           /\ Wire(r)[1] = 53 /\ Wire(r)[2] = 13 /\ Wire(r)[3] = 10
           /\ \A e \in 1..5 : \A k \in 1..Len(Shown(r, e)) :
                Wire(r)[Before(r, e) + k] = Shown(r, e)[k]
<1> DEFINE body == FlattenSeq([i \in 1..Len(r) |-> Shown(r, i)])
           head == <<53>> \o <<13, 10>>
           whole == head \o body
<1>1. /\ body \in Seq(Nat) /\ Len(body) = Before(r, 6) - 3
      /\ \A e \in 1..5 : \A k \in 1..Len(Shown(r, e)) :
           body[Before(r, e) - 3 + k] = Shown(r, e)[k]
  BY FlattenOfFive
<1>2. Wire(r) = whole
  <2>1. Decimal[5] = <<53>>
    BY DecimalFacts
  <2> QED
    BY <2>1 DEF Wire, Shown
<1> HIDE DEF body
<1>head. /\ head \in Seq(Nat) /\ Len(head) = 3
         /\ head[1] = 53 /\ head[2] = 13 /\ head[3] = 10
  OBVIOUS
<1> HIDE DEF head
<1>3. /\ Len(head \o body) = 3 + Len(body) /\ Len(body) \in Nat
      /\ (head \o body)[1] = 53 /\ (head \o body)[2] = 13 /\ (head \o body)[3] = 10
      /\ \A k \in 1..Len(body) : (head \o body)[3 + k] = body[k]
  <2>1. body \in Seq(Nat)
    BY <1>1
  <2>2. /\ Len(head \o body) = Len(head) + Len(body)
        /\ \A k \in 1..Len(head) : (head \o body)[k] = head[k]
        /\ \A k \in 1..Len(body) : (head \o body)[Len(head) + k] = body[k]
    <3>1. head \in Seq(Nat)
      BY <1>head
    <3> QED
      BY <2>1, <3>1, Joined
  <2>3. 1 \in 1..Len(head) /\ 2 \in 1..Len(head) /\ 3 \in 1..Len(head)
    BY <1>head
  <2> QED
    BY <1>head, <2>1, <2>2, <2>3
<1>4. Len(head \o body) = Before(r, 6)
  <2>1. 6 \in 1..6
    OBVIOUS
  <2>2. Before(r, 6) \in Nat
    BY <2>1, BeforeFacts
  <2> QED
    BY <1>1, <1>3, <2>2
<1>5. ASSUME NEW e \in 1..5, NEW k \in 1..Len(Shown(r, e))
      PROVE  (head \o body)[Before(r, e) + k] = Shown(r, e)[k]
  <2> DEFINE b == Before(r, e)
             p == b - 3 + k
  <2>1. /\ b \in Nat /\ b >= 3 /\ b + Len(Shown(r, e)) <= Before(r, 6)
        /\ Len(Shown(r, e)) \in Nat /\ Before(r, 6) \in Nat
    <3>1. e \in 1..6 /\ e + 1 \in 1..6 /\ e + 1 <= 6 /\ 6 \in 1..6
      OBVIOUS
    <3>2. Before(r, e + 1) = b + Len(Shown(r, e)) /\ Before(r, e + 1) <= Before(r, 6)
      BY <3>1, BeforeFacts
    <3> QED
      BY <3>1, <3>2, BeforeFacts, ShownType
  <2>2. body[p] = Shown(r, e)[k]
    BY <1>1
  <2> HIDE DEF b
  <2>3. p \in 1..Len(body) /\ 3 + p = b + k
    BY <1>1, <2>1
  <2>4. (head \o body)[3 + p] = body[p]
    BY <1>3, <2>3
  <2> QED
    BY <2>2, <2>3, <2>4 DEF b
<1>6. /\ Len(whole) = Before(r, 6)
      /\ whole[1] = 53 /\ whole[2] = 13 /\ whole[3] = 10
      /\ \A e \in 1..5 : \A k \in 1..Len(Shown(r, e)) :
           whole[Before(r, e) + k] = Shown(r, e)[k]
  BY <1>3, <1>4, <1>5
<1> HIDE DEF whole
<1> QED
  BY <1>2, <1>6, Zenon

-----------------------------------------------------------------------------
(* The inductive invariant: where in the reply each state stands, and what *)
(* the counters hold there.                                                *)

\* What the first k digits of n are worth.
Prefix(n) == CHOOSE v : Worth(v, n)

LEMMA PrefixFacts ==
    ASSUME NEW n \in Nat
    PROVE  /\ Prefix(n)[0] = 0 /\ Prefix(n)[Places(n)] = n
           /\ \A k \in 0..Places(n) : Prefix(n)[k] \in 0..n
           /\ \A k \in 0..(Places(n) - 1) :
                Prefix(n)[k + 1] = Prefix(n)[k] * 10 + (Decimal[n][k + 1] - 48)
<1>1. Worth(Prefix(n), n)
  BY WorthExists DEF Prefix
<1> DEFINE v == Prefix(n)
<1> HIDE DEF v
<1>2. Worth(v, n)
  BY <1>1 DEF v
<1>3. /\ v[0] = 0 /\ v[Places(n)] = n
      /\ \A k \in 0..Places(n) : v[k] \in 0..n
      /\ \A k \in 0..(Places(n) - 1) :
           v[k + 1] = v[k] * 10 + (Decimal[n][k + 1] - 48)
  BY <1>2 DEF Worth, Places
<1> QED
  BY <1>3 DEF v

\* The counter an element goes to, the state that reads it, and the state
\* that waits for its last LF.
Field == <<"none", "limit", "remaining", "retry_after", "reset">>
Arg   == <<"ARG1", "ARG2", "ARG3", "ARG4", "ARG5">>
EndOf == <<"CRLF2", "LF1", "LF2", "LF3", "almost_done">>

Untouched(e) == counter[Field[e]] = (IF e = 4 THEN -1 ELSE 0)

\* Element e has been read as it was sent.
Settled(e) ==
    /\ IsInt(reply, e)
    /\ e = 1 => reply[1].int = (IF status = 200 THEN 0 ELSE 1)
    /\ e # 1 => \/ counter[Field[e]] = reply[e].int
                \/ e = 4 /\ counter[Field[e]] = -1 /\ OnlyOnes(reply[e].int)

\* In the array of five, what is before e has been read, what is behind not.
Frame(e) == /\ Len(reply) = 5
            /\ \A i \in 1..5 : i < e => Settled(i)
            /\ \A i \in 2..5 : i > e => Untouched(i)

\* How many bytes of element e have been read.
Read(e) == pos - Before(reply, e)

AtLength ==
    /\ Decimal[Len(reply)][1] = 53
    /\ pos = 1 \/ (pos = 2 /\ Len(reply) = 5)

InFirst == Read(1) = 0 \/ (Read(1) = 1 /\ IsInt(reply, 1))

PastFirst ==
    LET int == reply[1].int
    IN  /\ IsInt(reply, 1) /\ int >= 0
        /\ Decimal[int][1] = (IF status = 200 THEN 48 ELSE 49)
        /\ Read(1) = 2 \/ (Read(1) = 3 /\ Places(int) = 1)

\* k digits of the number have been added up.
InDigits(e, k) ==
    LET int == reply[e].int
    IN  /\ IsInt(reply, e)
        /\ \/ k = 0 /\ Untouched(e)
           \/ int >= 0 /\ k \in 1..Places(int) /\ counter[Field[e]] = Prefix(int)[k]

InNumber(e) == \/ Read(e) = 0 /\ Untouched(e)
               \/ InDigits(e, Read(e) - 1)

InNegative ==
    LET int == reply[4].int
    IN  /\ IsInt(reply, 4) /\ int < 0 /\ Untouched(4)
        /\ Read(4) - 2 \in 0..Places(-int)
        /\ \A k \in 1..(Read(4) - 2) : Decimal[-int][k] = 49

AtEnd(e) == Settled(e) /\ pos = Before(reply, e + 1) - 1

\* What holds of a call that goes on in state s.
Place(s) ==
    \/ s = "start" /\ pos = 0 /\ \A i \in 2..5 : Untouched(i)
    \/ s = "CRLF1" /\ AtLength /\ \A i \in 2..5 : Untouched(i)
    \/ s = "ARG1" /\ Frame(1) /\ InFirst
    \/ s = "CRLF2" /\ Frame(1) /\ PastFirst
    \/ s = "ALLOWED" /\ Frame(4) /\ InNegative
    \/ \E e \in 2..5 : /\ Frame(e)
                       /\ \/ s = Arg[e] /\ InNumber(e)
                          \/ s = EndOf[e] /\ AtEnd(e)

\* The reply is one of those a script may return.
Sent == reply \in Replies /\ wire = Wire(reply)

ParseInv ==
    /\ Sent
    /\ outcome = "reading" => Place(state)
    /\ outcome = "again" => Place(saved)
    /\ AcceptedAsSent /\ ContractAccepted

\* The tables, for the elements that have a counter.
LEMMA ArgFacts ==
    ASSUME NEW e \in 2..5
    PROVE  /\ Arg[e] \in DOMAIN CounterOf /\ Arg[e] \in DOMAIN NumberEnd
           /\ CounterOf[Arg[e]] = Field[e] /\ NumberEnd[Arg[e]] = EndOf[e]
           /\ Cases[Arg[e]] = Digits \cup {58, 13} \cup (IF e = 4 THEN {45} ELSE {})
           /\ Arg[e] \notin DOMAIN LineEnd
           /\ Arg[e] \notin {"start", "ARG1", "ALLOWED", "almost_done"}
           /\ Arg[e] = "ARG4" <=> e = 4
           /\ \A i \in 2..5 : Arg[i] = Arg[e] => i = e
<1>1. e = 2 \/ e = 3 \/ e = 4 \/ e = 5
  OBVIOUS
<1>2. \A i \in 2..5 : i = 2 \/ i = 3 \/ i = 4 \/ i = 5
  OBVIOUS
<1> QED
  BY <1>1, <1>2 DEF Arg, CounterOf, NumberEnd, LineEnd, Field, EndOf, Cases

LEMMA FieldFacts ==
    ASSUME NEW e \in 2..5
    PROVE  /\ Field[e] \in Counters
           /\ \A i \in 2..5 : i # e => Field[i] # Field[e]
<1>1. e = 2 \/ e = 3 \/ e = 4 \/ e = 5
  OBVIOUS
<1>2. \A i \in 2..5 : i = 2 \/ i = 3 \/ i = 4 \/ i = 5
  OBVIOUS
<1> QED
  BY <1>1, <1>2 DEF Field, Counters

LEMMA EndFacts ==
    ASSUME NEW e \in 2..5
    PROVE  /\ EndOf[e] \notin DOMAIN CounterOf /\ EndOf[e] \notin DOMAIN NumberEnd
           /\ EndOf[e] \notin {"start", "ARG1", "ALLOWED", "CRLF1", "CRLF2"}
           /\ Cases[EndOf[e]] = {10}
           /\ e # 5 => /\ EndOf[e] \in DOMAIN LineEnd
                       /\ LineEnd[EndOf[e]] = Arg[e + 1] /\ EndOf[e] # "almost_done"
           /\ e = 5 => EndOf[e] = "almost_done" /\ EndOf[e] \notin DOMAIN LineEnd
<1>1. e = 2 \/ e = 3 \/ e = 4 \/ e = 5
  OBVIOUS
<1> QED
  BY <1>1 DEF Arg, CounterOf, NumberEnd, LineEnd, EndOf, Cases

\* What the model knows of a reply within the array of five.
LEMMA SentFacts ==
    ASSUME Sent
    PROVE  /\ reply \in Seq(Results) /\ wire = Wire(reply) /\ Len(reply) \in Nat
           /\ \A e \in 1..Len(reply) : IsInt(reply, e) => reply[e].int \in Int
<1>1. reply \in Seq(Results)
  BY RepliesAssumption DEF Sent
<1>2. \A e \in 1..Len(reply) : IsInt(reply, e) => reply[e].int \in Int
  BY <1>1, ResultFacts
<1> QED
  BY <1>1, <1>2 DEF Sent

\* The byte that is looked at n bytes behind the beginning of element e.
LEMMA ElementByte ==
    ASSUME TypeOK, Sent, Len(reply) = 5, NEW e \in 1..5, NEW n \in Nat,
           Read(e) = n, n < Len(Shown(reply, e))
    PROVE  ch = Shown(reply, e)[n + 1] /\ pos < Len(wire)
<1> DEFINE b == Before(reply, e)
           l == Len(Shown(reply, e))
<1>1. pos \in Nat
  BY DEF TypeOK
<1>2. b \in Nat /\ l \in Nat /\ b + l <= Before(reply, 6) /\ Before(reply, 6) \in Nat
  <2>1. e \in 1..6 /\ e + 1 \in 1..6 /\ e + 1 <= 6 /\ 6 \in 1..6
    OBVIOUS
  <2>2. Before(reply, e + 1) = b + l /\ Before(reply, e + 1) <= Before(reply, 6)
    BY <2>1, SentFacts, BeforeFacts
  <2> QED
    BY <2>1, <2>2, SentFacts, BeforeFacts, ShownType
<1>3. pos - b = n /\ n < l
  BY DEF Read
<1> HIDE DEF b, l
<1>4. pos + 1 = b + (n + 1) /\ n + 1 \in 1..l /\ pos < Before(reply, 6)
  BY <1>1, <1>2, <1>3
<1>5. /\ Len(wire) = Before(reply, 6)
      /\ \A k \in 1..l : wire[b + k] = Shown(reply, e)[k]
  BY SentFacts, WireOfFive DEF b, l
<1> QED
  BY <1>4, <1>5 DEF ch

\* An element that has been read to its end is followed by the next.
LEMMA NextElement ==
    ASSUME Sent, Len(reply) = 5, NEW e \in 1..5
    PROVE  /\ Before(reply, e + 1) = Before(reply, e) + Len(Shown(reply, e))
           /\ Before(reply, e) \in Nat /\ Before(reply, e + 1) \in Nat
           /\ Len(Shown(reply, e)) \in Nat
<1>1. e \in 1..6 /\ e + 1 \in 1..6
  OBVIOUS
<1> QED
  BY <1>1, SentFacts, BeforeFacts, ShownType

LEMMA ReadType ==
    ASSUME TypeOK, Sent, Len(reply) = 5, NEW e \in 1..5
    PROVE  Read(e) \in Int /\ pos = Before(reply, e) + Read(e)
<1>1. pos \in Nat
  BY DEF TypeOK
<1>2. Before(reply, e) \in Nat
  BY NextElement
<1> QED
  BY <1>1, <1>2 DEF Read

-----------------------------------------------------------------------------
(* Bytes that belong to an element's number.                               *)

\* The byte a number's state looks at, and what its counter holds.
LEMMA NumberByte ==
    ASSUME TypeOK, Sent, Len(reply) = 5, NEW e \in 2..5, InNumber(e)
    PROVE  LET int == reply[e].int
               k   == Read(e) - 1
           IN  /\ pos < Len(wire)
               /\ \/ k = -1 /\ Untouched(e) /\ IsInt(reply, e) /\ ch = 58
                  \/ k = -1 /\ ~IsInt(reply, e) /\ ch = 36
                  \/ k = 0 /\ Untouched(e) /\ IsInt(reply, e) /\ int < 0 /\ ch = 45
                  \/ /\ IsInt(reply, e) /\ int >= 0 /\ k \in 0..(Places(int) - 1)
                     /\ ch = Decimal[int][k + 1] /\ Value(Field[e]) = Prefix(int)[k]
                  \/ /\ IsInt(reply, e) /\ int >= 0 /\ k = Places(int)
                     /\ ch = 13 /\ counter[Field[e]] = int
<1> DEFINE int == reply[e].int
           k   == Read(e) - 1
           text == Shown(reply, e)
<1>1. e \in 1..5 /\ e \in 1..Len(reply) /\ reply \in Seq(Results)
  BY SentFacts
<1>2. Untouched(e) => Value(Field[e]) = 0
  BY DEF Untouched, Value
<1>3. CASE ~IsInt(reply, e)
  <2>1. Read(e) = 0
    BY <1>3 DEF InNumber, InDigits
  <2>2. Len(text) = 5 /\ text[1] = 36
    BY <1>1, <1>3, OtherShown
  <2> HIDE DEF text
  <2>3. 0 \in Nat /\ 0 < Len(text) /\ text[0 + 1] = 36
    BY <2>2
  <2>4. ch = 36 /\ pos < Len(wire)
    BY <1>1, <2>1, <2>3, ElementByte DEF text
  <2> QED
    BY <1>3, <2>1, <2>4
<1>4. CASE IsInt(reply, e) /\ int < 0
  <2>1. -int \in Nat /\ Places(-int) \in Nat
    <3>1. int \in Int
      BY <1>1, <1>4, SentFacts
    <3>2. -int \in Nat
      BY <1>4, <3>1
    <3> QED
      BY <3>2, DecimalText
  <2>2. Len(text) = Places(-int) + 4 /\ text[1] = 58 /\ text[2] = 45
    BY <1>1, <1>4, NegativeShown
  <2> HIDE DEF text
  <2>3. int \in Int
    BY <1>1, <1>4, SentFacts
  <2>4. (Read(e) = 0 /\ Untouched(e)) \/ (Read(e) = 1 /\ Untouched(e))
    <3>1. ~(int >= 0)
      BY <1>4, <2>3
    <3>2. Read(e) = 0 \/ Read(e) - 1 = 0 => Read(e) = 0 \/ Read(e) = 1
      <4>1. Read(e) \in Int
        BY <1>1, ReadType
      <4> QED
        BY <4>1
    <3> QED
      BY <3>1, <3>2 DEF InNumber, InDigits
  <2>5. CASE Read(e) = 0
    <3>1. 0 \in Nat /\ 0 < Len(text) /\ text[0 + 1] = 58
      BY <2>1, <2>2
    <3>2. ch = 58 /\ pos < Len(wire)
      BY <1>1, <2>5, <3>1, ElementByte DEF text
    <3> QED
      BY <1>4, <2>4, <2>5, <3>2
  <2>6. CASE Read(e) = 1
    <3>1. 1 \in Nat /\ 1 < Len(text) /\ text[1 + 1] = 45
      BY <2>1, <2>2
    <3>2. ch = 45 /\ pos < Len(wire)
      BY <1>1, <2>6, <3>1, ElementByte DEF text
    <3> QED
      BY <1>4, <2>4, <2>6, <3>2
  <2> QED
    BY <2>4, <2>5, <2>6
<1>5. CASE IsInt(reply, e) /\ ~(int < 0)
  <2> DEFINE l == Places(int)
             d == Decimal[int]
             n == Read(e)
             v == Prefix(int)
  <2>1. int \in Nat /\ l \in Nat /\ l >= 1 /\ int >= 0
    <3>1. int \in Nat
      BY <1>1, <1>5, SentFacts
    <3> QED
      BY <3>1, DecimalText
  <2>2. /\ Len(text) = l + 3 /\ text[1] = 58
        /\ \A i \in 1..l : text[i + 1] = d[i]
        /\ text[l + 2] = 13 /\ text[l + 3] = 10
    <3>1. /\ reply \in Seq(Results) /\ e \in 1..Len(reply) /\ IsInt(reply, e)
          /\ reply[e].int >= 0
      BY <1>1, <1>5, <2>1
    <3> HIDE DEF l, d, n, v, text
    <3>2. /\ Len(Shown(reply, e)) = Places(reply[e].int) + 3
          /\ Shown(reply, e)[1] = 58
          /\ \A i \in 1..Places(reply[e].int) :
               Shown(reply, e)[i + 1] = Decimal[reply[e].int][i]
          /\ Shown(reply, e)[Places(reply[e].int) + 2] = 13
          /\ Shown(reply, e)[Places(reply[e].int) + 3] = 10
      <4>1. NumberLine(reply, e)
        BY <3>1, NumberLines
      <4> QED
        BY <4>1 DEF NumberLine
    <3> QED
      BY <3>2, Zenon DEF l, d, text
  <2>3. v[0] = 0 /\ v[l] = int
    BY <2>1, PrefixFacts
  <2>4. n \in Int
    BY <1>1, ReadType
  <2> HIDE DEF text, l, d, v, n
  <2>5. \/ n = 0 /\ Untouched(e)
        \/ n - 1 = 0 /\ Untouched(e)
        \/ n - 1 \in 1..l /\ counter[Field[e]] = v[n - 1]
    BY DEF InNumber, InDigits, n, l, v
  <2>6. CASE n = 0 /\ Untouched(e)
    <3>1. 0 \in Nat /\ 0 < Len(text) /\ text[0 + 1] = 58
      BY <2>1, <2>2
    <3>2. ch = 58 /\ pos < Len(wire)
      BY <1>1, <2>6, <3>1, ElementByte DEF text, n
    <3>3. k = -1
      BY <2>6 DEF n
    <3> QED
      BY <1>5, <2>6, <3>2, <3>3
  <2>7. n - 1 \in 0..l => n \in Nat /\ n < Len(text)
    BY <2>1, <2>2, <2>4
  <2>8. n - 1 \in 0..l => ch = text[n + 1] /\ pos < Len(wire)
    BY <1>1, <2>7, ElementByte DEF text, n
  <2>9. CASE n - 1 \in 0..(l - 1) /\ Value(Field[e]) = v[n - 1]
    <3>1. n - 1 \in 0..l /\ n \in 1..l
      BY <2>1, <2>4, <2>9
    <3>2. ch = d[n] /\ pos < Len(wire)
      BY <2>2, <2>8, <3>1
    <3>3. (n - 1) + 1 = n
      BY <2>4
    <3> QED
      BY <1>5, <2>1, <2>9, <3>2, <3>3 DEF n, l, d, v
  <2>10. CASE n - 1 = l /\ counter[Field[e]] = v[n - 1]
    <3>1. n - 1 \in 0..l /\ n + 1 = l + 2
      BY <2>1, <2>4, <2>10
    <3>2. ch = 13 /\ pos < Len(wire)
      BY <2>2, <2>8, <3>1
    <3> QED
      BY <1>5, <2>1, <2>3, <2>10, <3>2 DEF n, l
  <2>11. CASE n - 1 = 0 /\ Untouched(e)
    <3>1. n - 1 \in 0..(l - 1) /\ Value(Field[e]) = v[n - 1]
      BY <1>2, <2>1, <2>3, <2>11
    <3> QED
      BY <2>9, <3>1
  <2>12. CASE n - 1 \in 1..l /\ counter[Field[e]] = v[n - 1]
    <3>1. v[n - 1] \in Nat
      <4>1. n - 1 \in 0..l
        BY <2>1, <2>4, <2>12
      <4>2. v[n - 1] \in 0..int
        BY <2>1, <4>1, PrefixFacts DEF v, l
      <4> QED
        BY <2>1, <4>2
    <3>2. Value(Field[e]) = v[n - 1]
      BY <2>12, <3>1 DEF Value
    <3>3. n - 1 = l \/ n - 1 \in 0..(l - 1)
      BY <2>1, <2>4, <2>12
    <3> QED
      BY <2>9, <2>10, <2>12, <3>2, <3>3
  <2> QED
    BY <2>5, <2>6, <2>11, <2>12
<1> QED
  BY <1>3, <1>4, <1>5

\* How a call goes on, and how it ends.
Goes == \/ outcome' = "reading" /\ Place(state)'
        \/ outcome' = "ok" /\ AcceptedAsSent'
        \/ outcome' = "error" /\ ~InContract(reply)

\* A byte changes at most the counter of the element it belongs to.
LEMMA FrameKept ==
    ASSUME NEW e \in 2..5, Frame(e), reply' = reply, status' = status,
           \A i \in 2..5 : i # e => counter'[Field[i]] = counter[Field[i]]
    PROVE  Frame(e)'
<1>1. Len(reply') = 5
  BY DEF Frame
<1>2. ASSUME NEW i \in 1..5, i < e PROVE Settled(i)'
  <2>1. Settled(i)
    BY <1>2 DEF Frame
  <2>2. CASE i = 1
    BY <2>1, <2>2 DEF Settled
  <2>3. CASE i # 1
    <3>1. i \in 2..5 /\ i # e
      BY <1>2, <2>3
    <3> QED
      BY <2>1, <2>3, <3>1 DEF Settled
  <2> QED
    BY <2>2, <2>3
<1>3. ASSUME NEW i \in 2..5, i > e PROVE Untouched(i)'
  <2>1. Untouched(i) /\ i # e
    BY <1>3 DEF Frame
  <2> QED
    BY <2>1 DEF Untouched
<1> QED
  BY <1>1, <1>2, <1>3 DEF Frame

LEMMA StepFacts ==
    ASSUME TypeOK, Sent, Len(reply) = 5, Step
    PROVE  /\ reply' = reply /\ wire' = wire /\ pos' = pos + 1
           /\ outcome = "reading"
           /\ \A e \in 1..5 : Read(e)' = Read(e) + 1
<1>1. reply' = reply /\ wire' = wire /\ pos' = pos + 1 /\ outcome = "reading"
  BY DEF Step, Reading
<1>2. ASSUME NEW e \in 1..5 PROVE Read(e)' = Read(e) + 1
  <2>1. pos \in Nat /\ Before(reply, e) \in Nat
    BY NextElement DEF TypeOK
  <2> QED
    BY <1>1, <2>1 DEF Read
<1> QED
  BY <1>1, <1>2

\* The actions of a number's state.
LEMMA NumberActions ==
    ASSUME Byte, NEW e \in 2..5, state = Arg[e]
    PROVE  Colons \/ Digit \/ EndOfNumber \/ (Negative /\ e = 4) \/ Refuse
<1>1. /\ state \notin {"start", "ARG1", "ALLOWED", "almost_done", "CRLF1", "CRLF2"}
      /\ state \notin DOMAIN LineEnd
      /\ state = "ARG4" => e = 4
  BY ArgFacts, TableFacts
<1> QED
  BY <1>1 DEF Byte, Length, Returns, Status, EndOfLine, Negative, One, Done

\* A number that does not fit is none of the contract.
LEMMA OutOfRange ==
    ASSUME Sent, Len(reply) = 5, NEW e \in 2..5,
           ~IsInt(reply, e) \/ reply[e].int > MaxInt
           \/ (e # 4 /\ reply[e].int < 0)
    PROVE  ~InContract(reply)
<1> SUFFICES ASSUME InContract(reply) PROVE FALSE
  OBVIOUS
<1>1. IsInt(reply, e)
  BY DEF InContract, Integers5, IsInt
<1>2. e \in {2, 3, 5} => reply[e].int \in 0..MaxInt
  BY DEF InContract
<1>3. e = 4 => reply[e].int \in {-1} \cup 1..MaxInt
  BY DEF InContract
<1>4. e \in {2, 3, 5} \/ e = 4
  OBVIOUS
<1> QED
  BY <1>1, <1>2, <1>3, <1>4, MaxIntAssumption

LEMMA GoesToNumber ==
    ASSUME NEW e \in 2..5, outcome' = "reading", state' = Arg[e], Frame(e)',
           InNumber(e)'
    PROVE  Goes
  BY DEF Goes, Place

LEMMA GoesToEnd ==
    ASSUME NEW e \in 2..5, outcome' = "reading", state' = EndOf[e], Frame(e)',
           AtEnd(e)'
    PROVE  Goes
  BY DEF Goes, Place

LEMMA ByteIsStep == Byte => Step
  BY DEF Byte, Colons, Returns, Length, Status, Digit, EndOfNumber, EndOfLine,
         Negative, One, Done, Refuse

\* A digit more.
LEMMA NumberDigit ==
    ASSUME TypeOK, Sent, NEW e \in 2..5, Frame(e), state = Arg[e], Digit,
           IsInt(reply, e), reply[e].int >= 0,
           Read(e) - 1 \in 0..(Places(reply[e].int) - 1),
           ch = Decimal[reply[e].int][Read(e)],
           Value(Field[e]) = Prefix(reply[e].int)[Read(e) - 1]
    PROVE  Goes
<1> DEFINE int == reply[e].int
           k   == Read(e) - 1
<1>1. Step /\ Len(reply) = 5 /\ e \in 1..5 /\ e \in 1..Len(reply)
  BY DEF Frame, Digit
<1>2. int \in Nat
  BY <1>1, SentFacts
<1>3. /\ reply' = reply /\ outcome' = "reading" /\ state' = Arg[e]
      /\ status' = status /\ Read(e)' = Read(e) + 1
  BY <1>1, StepFacts DEF Digit
<1>4. /\ Read(e) \in Int /\ Places(int) \in Nat
  BY <1>1, <1>2, ReadType, DecimalText
<1>5. Prefix(int)[k + 1] = Prefix(int)[k] * 10 + (Decimal[int][k + 1] - 48)
  BY <1>2, PrefixFacts
<1>6. counter' = [counter EXCEPT ![Field[e]] = Value(Field[e]) * 10 + digit]
  BY ArgFacts DEF Digit
<1>7. Field[e] \in DOMAIN counter
  BY FieldFacts DEF TypeOK
<1>8. counter'[Field[e]] = Prefix(int)[Read(e)]
  <2>1. counter'[Field[e]] = Value(Field[e]) * 10 + digit
    BY <1>6, <1>7
  <2>2. k + 1 = Read(e)
    BY <1>4
  <2> QED
    BY <1>5, <2>1, <2>2 DEF digit
<1>9. Frame(e)'
  BY <1>3, <1>6, FieldFacts, FrameKept
<1>10. InNumber(e)'
  <2>1. Read(e)' - 1 = Read(e) /\ Read(e) \in 1..Places(int)
    BY <1>3, <1>4
  <2>2. IsInt(reply', e) /\ reply'[e].int = int
    BY <1>3
  <2> QED
    BY <1>8, <2>1, <2>2 DEF InNumber, InDigits
<1> QED
  BY <1>3, <1>9, <1>10, GoesToNumber

\* The digit that is refused makes a number that is out of range.
LEMMA NumberOverflow ==
    ASSUME TypeOK, Sent, Len(reply) = 5, NEW e \in 2..5, state = Arg[e],
           IsInt(reply, e), reply[e].int >= 0,
           Read(e) - 1 \in 0..(Places(reply[e].int) - 1),
           ch = Decimal[reply[e].int][Read(e)],
           Value(Field[e]) = Prefix(reply[e].int)[Read(e) - 1],
           ~Fits(Value(Field[e]), digit)
    PROVE  ~InContract(reply)
<1> DEFINE int == reply[e].int
           k   == Read(e) - 1
           v   == Prefix(int)
           val == Value(Field[e])
<1>1. e \in 1..5 /\ e \in 1..Len(reply)
  OBVIOUS
<1>2. int \in Nat
  BY <1>1, SentFacts
<1>3. Read(e) \in Int /\ Places(int) \in Nat
  BY <1>1, <1>2, ReadType, DecimalText
<1>4. Read(e) \in 1..Places(int) /\ k + 1 = Read(e) /\ Read(e) \in 0..Places(int)
      /\ k \in 0..Places(int)
  BY <1>3
<1>5. digit \in 0..9
  <2>1. Decimal[int][Read(e)] \in Digits
    BY <1>2, <1>4, DecimalText
  <2> QED
    BY <2>1 DEF digit
<1>6. v[k] \in 0..int /\ v[Read(e)] \in 0..int
  BY <1>2, <1>4, PrefixFacts
<1>7. v[Read(e)] = val * 10 + digit
  <2>1. v[k + 1] = v[k] * 10 + (Decimal[int][k + 1] - 48)
    BY <1>2, PrefixFacts
  <2> QED
    BY <1>4, <2>1 DEF digit
<1>8. val \in Nat
  BY <1>2, <1>6
<1> HIDE DEF val
<1>9. ~(val * 10 + digit <= MaxInt)
  BY <1>5, <1>8, GuardIsExact DEF val
<1> HIDE DEF v
<1>10. int > MaxInt
  BY <1>2, <1>6, <1>7, <1>9, MaxIntAssumption
<1> QED
  BY <1>10, OutOfRange

\* A call in a number's state.
LEMMA NumberStep ==
    ASSUME TypeOK, Sent, Byte, NEW e \in 2..5, Frame(e), state = Arg[e],
           InNumber(e)
    PROVE  Goes
<1> DEFINE int == reply[e].int
           k   == Read(e) - 1
<1>1. Step /\ Len(reply) = 5 /\ e \in 1..5 /\ e \in 1..Len(reply)
  BY ByteIsStep DEF Frame
<1>2. /\ reply' = reply /\ pos' = pos + 1 /\ Read(e)' = Read(e) + 1
      /\ Read(e) \in Int /\ outcome = "reading"
  BY <1>1, StepFacts, ReadType
<1>3. k + 1 = Read(e)
  BY <1>2
<1>digits. ASSUME IsInt(reply, e), int >= 0
           PROVE  /\ Places(int) \in Nat
                  /\ \A i \in 1..Places(int) : Decimal[int][i] \in Digits
  <2>1. int \in Nat
    BY <1>1, <1>digits, SentFacts
  <2> QED
    BY <2>1, DecimalText
<1>byte. \/ k = -1 /\ Untouched(e) /\ IsInt(reply, e) /\ ch = 58
         \/ k = -1 /\ ~IsInt(reply, e) /\ ch = 36
         \/ k = 0 /\ Untouched(e) /\ IsInt(reply, e) /\ int < 0 /\ ch = 45
         \/ /\ IsInt(reply, e) /\ int >= 0 /\ k \in 0..(Places(int) - 1)
            /\ ch = Decimal[int][k + 1] /\ Value(Field[e]) = Prefix(int)[k]
            /\ ch \in Digits
         \/ /\ IsInt(reply, e) /\ int >= 0 /\ k = Places(int)
            /\ ch = 13 /\ counter[Field[e]] = int
  <2>1. \/ k = -1 /\ Untouched(e) /\ IsInt(reply, e) /\ ch = 58
        \/ k = -1 /\ ~IsInt(reply, e) /\ ch = 36
        \/ k = 0 /\ Untouched(e) /\ IsInt(reply, e) /\ int < 0 /\ ch = 45
        \/ /\ IsInt(reply, e) /\ int >= 0 /\ k \in 0..(Places(int) - 1)
           /\ ch = Decimal[int][k + 1] /\ Value(Field[e]) = Prefix(int)[k]
        \/ /\ IsInt(reply, e) /\ int >= 0 /\ k = Places(int)
           /\ ch = 13 /\ counter[Field[e]] = int
    BY <1>1, NumberByte, Zenon
  <2> HIDE DEF k, int
  <2>2. CASE /\ IsInt(reply, e) /\ int >= 0 /\ k \in 0..(Places(int) - 1)
             /\ ch = Decimal[int][k + 1] /\ Value(Field[e]) = Prefix(int)[k]
    <3>1. k + 1 \in 1..Places(int)
      BY <1>digits, <2>2
    <3>2. ch \in Digits
      BY <1>digits, <2>2, <3>1
    <3> QED
      BY <2>2, <3>2
  <2> QED
    BY <2>1, <2>2
<1> HIDE DEF k, int
<1>4. CASE Colons
  <2>1. ch = 58 /\ outcome' = "reading" /\ state' = Arg[e] /\ status' = status
        /\ counter' = counter
    BY <1>2, <1>4 DEF Colons
  <2>2. k = -1 /\ Untouched(e) /\ IsInt(reply, e)
    BY <1>byte, <2>1
  <2>3. Read(e)' - 1 = 0
    BY <1>2, <2>2 DEF k
  <2>4. InNumber(e)'
    BY <1>2, <2>1, <2>2, <2>3 DEF InNumber, InDigits, IsInt, Untouched
  <2>5. Frame(e)'
    BY <1>2, <2>1, FrameKept
  <2> QED
    BY <2>1, <2>4, <2>5, GoesToNumber
<1>5. CASE Digit
  <2>1. ch \in Digits
    BY <1>5 DEF Digit
  <2>2. /\ IsInt(reply, e) /\ int >= 0 /\ k \in 0..(Places(int) - 1)
        /\ ch = Decimal[int][k + 1] /\ Value(Field[e]) = Prefix(int)[k]
    BY <1>byte, <2>1
  <2> QED
    BY <1>3, <1>5, <2>2, NumberDigit DEF k, int
<1>6. CASE EndOfNumber
  <2>1. ch = 13 /\ outcome' = "reading" /\ state' = EndOf[e] /\ status' = status
        /\ counter' = counter
    BY <1>2, <1>6, ArgFacts DEF EndOfNumber
  <2>2. /\ IsInt(reply, e) /\ int >= 0 /\ k = Places(int)
        /\ counter[Field[e]] = int
    BY <1>byte, <2>1
  <2>3. Frame(e)'
    BY <1>2, <2>1, FrameKept
  <2>4. Settled(e)'
    BY <1>2, <2>1, <2>2 DEF Settled, IsInt, int
  <2>5. pos' = Before(reply', e + 1) - 1
    <3>1. /\ Before(reply, e + 1) = Before(reply, e) + (Places(int) + 3)
          /\ Before(reply, e) \in Nat
      <4>1. Len(Shown(reply, e)) = Places(int) + 3
        BY <1>1, <2>2, SentFacts, NumberShown DEF int
      <4> QED
        BY <1>1, <4>1, NextElement
    <3>2. pos = Before(reply, e) + Read(e)
      BY <1>1, ReadType
    <3>3. Places(int) \in Nat
      BY <1>digits, <2>2
    <3> QED
      BY <1>2, <1>3, <2>2, <3>1, <3>2, <3>3
  <2> QED
    BY <2>1, <2>3, <2>4, <2>5, GoesToEnd DEF AtEnd
<1>7. CASE Negative /\ e = 4
  <2>1. ch = 45 /\ outcome' = "reading" /\ state' = "ALLOWED" /\ status' = status
        /\ counter' = counter
    BY <1>2, <1>7 DEF Negative
  <2>2. k = 0 /\ Untouched(e) /\ IsInt(reply, e) /\ int < 0
    BY <1>byte, <2>1
  <2>3. Frame(e)'
    BY <1>2, <2>1, FrameKept
  <2>4. Read(4)' - 2 = 0
    BY <1>2, <1>3, <1>7, <2>2
  <2>5. Places(-int) \in Nat
    <3>1. -int \in Nat
      <4>1. int \in Int
        BY <1>1, <2>2, SentFacts DEF int
      <4> QED
        BY <2>2, <4>1
    <3> QED
      BY <3>1, DecimalText
  <2>6. InNegative'
    <3>1. 0 \in 0..Places(-int) /\ \A i \in 1..0 : FALSE
      BY <2>5
    <3>2. IsInt(reply', 4) /\ reply'[4].int = int /\ Untouched(4)'
      BY <1>2, <1>7, <2>1, <2>2 DEF int, Untouched
    <3> QED
      BY <2>2, <2>4, <3>1, <3>2 DEF InNegative
  <2> QED
    BY <1>7, <2>1, <2>3, <2>6 DEF Goes, Place
<1>8. CASE Refuse
  <2>1. /\ outcome' = "error"
        /\ ch \notin Cases[state] \/ (ch \in Digits /\ ~Fits(Value(CounterOf[state]), digit))
    BY <1>8 DEF Refuse
  <2>2. /\ Cases[state] = Digits \cup {58, 13} \cup (IF e = 4 THEN {45} ELSE {})
        /\ CounterOf[state] = Field[e]
    BY ArgFacts
  <2>3. ~InContract(reply)
    <3>1. CASE ch \in {58, 13}
      BY <2>1, <2>2, <3>1
    <3>2. CASE ~IsInt(reply, e)
      BY <1>1, <3>2, OutOfRange
    <3>3. CASE int < 0 /\ ch = 45
      <4>1. e # 4
        BY <2>1, <2>2, <3>3
      <4> QED
        BY <1>1, <3>3, <4>1, OutOfRange DEF int
    <3>4. CASE /\ IsInt(reply, e) /\ int >= 0 /\ k \in 0..(Places(int) - 1)
               /\ ch = Decimal[int][k + 1] /\ Value(Field[e]) = Prefix(int)[k]
               /\ ch \in Digits
      <4>1. ~Fits(Value(Field[e]), digit)
        BY <2>1, <2>2, <3>4
      <4> QED
        BY <1>1, <1>3, <3>4, <4>1, NumberOverflow DEF k, int
    <3> QED
      BY <1>byte, <3>1, <3>2, <3>3, <3>4
  <2> QED
    BY <2>1, <2>3 DEF Goes
<1> QED
  BY <1>4, <1>5, <1>6, <1>7, <1>8, NumberActions

\* The byte a negative number's state looks at.
LEMMA NegativeByte ==
    ASSUME TypeOK, Sent, Len(reply) = 5, InNegative
    PROVE  LET m == -reply[4].int
               k == Read(4) - 2
           IN  /\ pos < Len(wire) /\ m \in Nat /\ Places(m) \in Nat
               /\ \/ k \in 0..(Places(m) - 1) /\ ch = Decimal[m][k + 1] /\ ch \in Digits
                  \/ k = Places(m) /\ ch = 13
<1> DEFINE m == -reply[4].int
           k == Read(4) - 2
           l == Places(m)
           text == Shown(reply, 4)
<1>1. 4 \in 1..5 /\ 4 \in 1..Len(reply) /\ reply \in Seq(Results)
  BY SentFacts
<1>2. IsInt(reply, 4) /\ reply[4].int < 0 /\ reply[4].int \in Int
  BY <1>1, SentFacts DEF InNegative
<1>3. m \in Nat
  BY <1>2
<1>4. l \in Nat /\ \A i \in 1..l : Decimal[m][i] \in Digits
  BY <1>3, DecimalText
<1>5. /\ Len(text) = l + 4 /\ text[l + 3] = 13
      /\ \A i \in 1..l : text[i + 2] = Decimal[m][i]
  BY <1>1, <1>2, NegativeShown
<1>6. k \in 0..l
  BY DEF InNegative
<1> DEFINE n == Read(4)
<1>7. n \in Int
  BY <1>1, ReadType
<1> HIDE DEF m, l, text, n
<1>8. n \in Nat /\ n < Len(text) /\ n - 2 \in 0..l
  BY <1>4, <1>5, <1>6, <1>7 DEF n
<1>9. ch = text[n + 1] /\ pos < Len(wire)
  BY <1>1, <1>8, ElementByte DEF n, text
<1>10. CASE k = l
  <2>1. n + 1 = l + 3
    BY <1>4, <1>7, <1>10 DEF n
  <2> QED
    BY <1>3, <1>4, <1>5, <1>9, <1>10, <2>1 DEF m, l
<1>11. CASE k # l
  <2> DEFINE i == k + 1
  <2>1. k \in 0..(l - 1) /\ i \in 1..l /\ i + 2 = n + 1
    BY <1>4, <1>6, <1>7, <1>11 DEF n
  <2> HIDE DEF i
  <2>2. text[i + 2] = Decimal[m][i] /\ Decimal[m][i] \in Digits
    BY <1>4, <1>5, <2>1
  <2>3. ch = Decimal[m][i] /\ ch \in Digits
    BY <1>9, <2>1, <2>2
  <2> QED
    BY <1>3, <1>4, <1>9, <2>1, <2>3 DEF m, l, i
<1> QED
  BY <1>10, <1>11

\* A call in that state: it takes ones, and nothing else.
LEMMA NegativeStep ==
    ASSUME TypeOK, Sent, Byte, Frame(4), state = "ALLOWED", InNegative
    PROVE  Goes
<1> DEFINE m == -reply[4].int
           k == Read(4) - 2
<1>1. Step /\ Len(reply) = 5 /\ 4 \in 1..5 /\ 4 \in 2..5 /\ 4 \in 1..Len(reply)
  BY ByteIsStep DEF Frame
<1>2. /\ reply' = reply /\ pos' = pos + 1 /\ Read(4)' = Read(4) + 1
      /\ Read(4) \in Int /\ outcome = "reading" /\ pos = Before(reply, 4) + Read(4)
  BY <1>1, StepFacts, ReadType
<1>3. /\ IsInt(reply, 4) /\ reply[4].int < 0 /\ Untouched(4)
      /\ k \in 0..Places(m)
      /\ \A i \in 1..k : Decimal[m][i] = 49
  BY DEF InNegative
<1>byte. /\ m \in Nat /\ Places(m) \in Nat
         /\ \/ k \in 0..(Places(m) - 1) /\ ch = Decimal[m][k + 1] /\ ch \in Digits
            \/ k = Places(m) /\ ch = 13
  BY <1>1, NegativeByte
<1>int. reply[4].int \in Int /\ reply[4].int = -m
  BY <1>1, <1>3, SentFacts
<1> HIDE DEF m
<1>actions. One \/ EndOfNumber \/ Refuse
  <2>1. /\ state \notin DOMAIN CounterOf /\ state \notin DOMAIN LineEnd
        /\ state \notin {"start", "ARG1", "ARG4", "almost_done", "CRLF1", "CRLF2"}
    BY TableFacts
  <2> QED
    BY <2>1 DEF Byte, Colons, Length, Returns, Status, Digit, EndOfLine, Negative,
                Done
<1>4. CASE One
  <2>1. /\ ch = 49 /\ outcome' = "reading" /\ state' = "ALLOWED"
        /\ status' = status /\ counter' = [counter EXCEPT !.retry_after = -1]
    BY <1>2, <1>4 DEF One
  <2>2. k \in 0..(Places(m) - 1) /\ Decimal[m][k + 1] = 49
    BY <1>byte, <2>1
  <2>3. \A i \in 2..5 : counter'[Field[i]] = counter[Field[i]]
    <3>1. counter["retry_after"] = -1 /\ DOMAIN counter = Counters
      BY <1>3 DEF Untouched, Field, TypeOK
    <3>2. \A c \in Counters : counter'[c] = counter[c]
      BY <2>1, <3>1
    <3> QED
      BY <3>2, FieldFacts
  <2>4. Frame(4)'
    BY <1>1, <1>2, <2>1, <2>3, FrameKept
  <2>5. InNegative'
    <3> DEFINE j == k + 1
    <3>1. Read(4)' - 2 = j /\ j \in 0..Places(m)
      BY <1>byte, <1>2, <2>2
    <3>2. \A i \in 1..j : Decimal[m][i] = 49
      <4>1. \A i \in 1..j : i \in 1..k \/ i = k + 1
        BY <1>2
      <4> QED
        BY <1>3, <2>2, <4>1
    <3>3. IsInt(reply', 4) /\ reply'[4].int = reply[4].int /\ Untouched(4)'
      BY <1>1, <1>2, <1>3, <2>3 DEF Untouched
    <3> HIDE DEF j
    <3> QED
      BY <1>3, <3>1, <3>2, <3>3 DEF InNegative, m
  <2> QED
    BY <2>1, <2>4, <2>5 DEF Goes, Place
<1>5. CASE EndOfNumber
  <2>1. /\ ch = 13 /\ outcome' = "reading" /\ state' = EndOf[4]
        /\ status' = status /\ counter' = counter
    BY <1>2, <1>5 DEF EndOfNumber, NumberEnd, EndOf
  <2>2. k = Places(m)
    BY <1>byte, <2>1
  <2>3. Frame(4)'
    BY <1>1, <1>2, <2>1, FrameKept
  <2>4. Settled(4)'
    <3>1. OnlyOnes(reply[4].int)
      BY <1>3, <2>2 DEF OnlyOnes, Places, m
    <3>2. counter[Field[4]] = -1
      BY <1>3 DEF Untouched
    <3> QED
      BY <1>2, <1>3, <2>1, <3>1, <3>2 DEF Settled, IsInt
  <2>5. pos' = Before(reply', 4 + 1) - 1
    <3>1. Before(reply, 4 + 1) = Before(reply, 4) + (Places(m) + 4)
          /\ Before(reply, 4) \in Nat
      <4>1. Len(Shown(reply, 4)) = Places(m) + 4
        BY <1>1, <1>3, SentFacts, NegativeShown DEF m
      <4> QED
        BY <1>1, <4>1, NextElement
    <3> QED
      BY <1>byte, <1>2, <2>2, <3>1
  <2> QED
    BY <1>1, <2>1, <2>3, <2>4, <2>5, GoesToEnd DEF AtEnd
<1>6. CASE Refuse
  <2>1. outcome' = "error" /\ ch \notin {49, 13}
    BY <1>6 DEF Refuse, Cases, CounterOf
  <2>2. k \in 0..(Places(m) - 1) /\ ch = Decimal[m][k + 1]
    BY <1>byte, <2>1
  <2>3. m # 1
    <3> SUFFICES ASSUME m = 1 PROVE FALSE
      OBVIOUS
    <3>1. Places(1) = 1 /\ Decimal[1][1] = 49
      BY OneDigit DEF Places
    <3>2. k = 0
      <4>1. Places(m) = 1
        BY <3>1
      <4> QED
        BY <1>2, <2>2, <4>1
    <3> QED
      BY <2>1, <2>2, <3>1, <3>2
  <2>4. reply[4].int \notin {-1} \cup 1..MaxInt
    BY <1>byte, <1>int, <1>3, <2>3
  <2>5. ~InContract(reply)
    BY <2>4 DEF InContract
  <2> QED
    BY <2>1, <2>5 DEF Goes
<1> QED
  BY <1>4, <1>5, <1>6, <1>actions

-----------------------------------------------------------------------------
(* Bytes that end an element.                                              *)

LEMMA LastByte ==
    ASSUME TypeOK, Sent, Len(reply) = 5, NEW e \in 1..5, IsInt(reply, e),
           pos = Before(reply, e + 1) - 1
    PROVE  ch = 10 /\ pos < Len(wire)
<1> DEFINE text == Shown(reply, e)
           l == Len(text)
<1>1. e \in 1..Len(reply) /\ reply \in Seq(Results) /\ reply[e].int \in Int
  BY SentFacts
<1>2. text[l] = 10 /\ l \in Nat /\ l >= 1
  <2>1. CASE reply[e].int >= 0
    <3> DEFINE m == reply[e].int
    <3>1. m \in Nat
      BY <1>1, <2>1
    <3>2. l = Places(m) + 3 /\ text[Places(m) + 3] = 10
      <4> HIDE DEF m, l, text
      <4>1. /\ reply \in Seq(Results) /\ e \in 1..Len(reply) /\ IsInt(reply, e)
            /\ reply[e].int >= 0
        BY <1>1, <2>1, <3>1 DEF m
      <4>2. /\ Len(Shown(reply, e)) = Places(reply[e].int) + 3
            /\ Shown(reply, e)[Places(reply[e].int) + 3] = 10
        <5>1. NumberLine(reply, e)
          BY <4>1, NumberLines
        <5> QED
          BY <5>1 DEF NumberLine
      <4> QED
        BY <4>2, Zenon DEF m, l, text
    <3> HIDE DEF m
    <3>3. Places(m) \in Nat
      BY <3>1, DecimalText
    <3> QED
      BY <3>2, <3>3
  <2>2. CASE reply[e].int < 0
    <3> DEFINE m == -reply[e].int
    <3>1. m \in Nat
      BY <1>1, <2>2
    <3>2. l = Places(m) + 4 /\ text[Places(m) + 4] = 10
      <4> HIDE DEF m, l, text
      <4>1. /\ reply \in Seq(Results) /\ e \in 1..Len(reply) /\ IsInt(reply, e)
            /\ reply[e].int < 0
        BY <1>1, <2>2
      <4>2. /\ Len(Shown(reply, e)) = Places(-reply[e].int) + 4
            /\ Shown(reply, e)[Places(-reply[e].int) + 4] = 10
        <5>1. NegativeLine(reply, e)
          BY <4>1, NegativeLines
        <5> QED
          BY <5>1 DEF NegativeLine
      <4> QED
        BY <4>2, Zenon DEF m, l, text
    <3> HIDE DEF m
    <3>3. Places(m) \in Nat
      BY <3>1, DecimalText
    <3> QED
      BY <3>2, <3>3
  <2> QED
    BY <1>1, <2>1, <2>2
<1> HIDE DEF text, l
<1>3. Before(reply, e + 1) = Before(reply, e) + l /\ Before(reply, e) \in Nat
  BY NextElement DEF l, text
<1>4. Read(e) = l - 1
  BY <1>2, <1>3 DEF Read
<1> DEFINE n == l - 1
<1>5. n \in Nat /\ n < l /\ n + 1 = l
  BY <1>2
<1> HIDE DEF n
<1>6. ch = text[n + 1] /\ pos < Len(wire)
  BY <1>4, <1>5, ElementByte DEF n, l, text
<1> QED
  BY <1>2, <1>5, <1>6

\* The next element's turn.
LEMMA FrameNext ==
    ASSUME NEW e \in 1..4, Frame(e), Settled(e),
           reply' = reply, status' = status, counter' = counter
    PROVE  Frame(e + 1)' /\ Untouched(e + 1)'
<1>1. ASSUME NEW i \in 1..5, i < e + 1 PROVE Settled(i)'
  <2>1. i < e \/ i = e
    BY <1>1
  <2>2. Settled(i)
    BY <2>1 DEF Frame
  <2> QED
    BY <2>2 DEF Settled, IsInt
<1>2. ASSUME NEW i \in 2..5, i > e PROVE Untouched(i)'
  <2>1. Untouched(i)
    BY <1>2 DEF Frame
  <2> QED
    BY <2>1 DEF Untouched
<1>3. \A i \in 2..5 : i > e + 1 => i > e
  OBVIOUS
<1>4. e + 1 \in 2..5 /\ e + 1 > e
  OBVIOUS
<1>5. Len(reply') = 5
  BY DEF Frame
<1> QED
  BY <1>1, <1>2, <1>3, <1>4, <1>5 DEF Frame

LEMMA GoesToNext ==
    ASSUME TypeOK, Sent, NEW e \in 1..4, Frame(e), Settled(e), Step,
           pos = Before(reply, e + 1) - 1, outcome' = "reading",
           state' = Arg[e + 1], status' = status, counter' = counter
    PROVE  Goes
<1>1. Len(reply) = 5 /\ e + 1 \in 2..5 /\ e + 1 \in 1..5
  BY DEF Frame
<1>2. reply' = reply /\ Read(e + 1)' = Read(e + 1) + 1
  BY <1>1, StepFacts
<1>3. Frame(e + 1)' /\ Untouched(e + 1)'
  BY <1>2, FrameNext
<1>4. Read(e + 1)' = 0
  <2>1. Read(e + 1) = -1
    <3>1. Before(reply, e + 1) \in Nat
      BY <1>1, NextElement
    <3> QED
      BY <3>1 DEF Read
  <2> QED
    BY <1>2, <2>1
<1>5. InNumber(e + 1)'
  BY <1>3, <1>4 DEF InNumber
<1> QED
  BY <1>1, <1>3, <1>5, GoesToNumber

LEMMA EndStep ==
    ASSUME TypeOK, Sent, Byte, NEW e \in 2..5, Frame(e), state = EndOf[e],
           AtEnd(e)
    PROVE  Goes
<1>1. Step /\ Len(reply) = 5 /\ e \in 1..5
  BY ByteIsStep DEF Frame
<1>2. reply' = reply /\ wire' = wire /\ pos' = pos + 1 /\ outcome = "reading"
  BY <1>1, StepFacts
<1>3. ch = 10 /\ pos = Before(reply, e + 1) - 1 /\ Settled(e)
  BY <1>1, LastByte DEF AtEnd, Settled
<1>4. (EndOfLine /\ e # 5) \/ (Done /\ e = 5)
  <2>1. /\ state \notin DOMAIN CounterOf /\ state \notin DOMAIN NumberEnd
        /\ state \notin {"start", "ARG1", "ALLOWED", "CRLF1", "CRLF2", "ARG4"}
        /\ Cases[state] = {10}
        /\ (e = 5 => state \notin DOMAIN LineEnd)
        /\ (e # 5 => state # "almost_done")
    BY EndFacts, TableFacts
  <2> QED
    BY <1>3, <2>1 DEF Byte, Colons, Length, Returns, Status, Digit, EndOfNumber,
                      EndOfLine, Negative, One, Done, Refuse
<1>5. CASE EndOfLine /\ e # 5
  <2>1. e \in 1..4
    BY <1>5
  <2>2. /\ outcome' = "reading" /\ state' = Arg[e + 1] /\ status' = status
        /\ counter' = counter
    BY <1>2, <1>5, EndFacts DEF EndOfLine
  <2> QED
    BY <1>1, <1>3, <2>1, <2>2, GoesToNext
<1>6. CASE Done /\ e = 5
  <2>1. /\ outcome' = "ok" /\ status' = status /\ counter' = counter
    BY <1>6 DEF Done
  <2>2. pos' = Len(wire)
    <3>1. Before(reply, 6) = Len(wire) /\ Before(reply, 5 + 1) \in Nat /\ 5 + 1 = 6
      BY <1>1, SentFacts, WireOfFive, NextElement
    <3> QED
      BY <1>2, <1>3, <1>6, <3>1
  <2>3. \A i \in 1..5 : Settled(i)
    <3>1. \A i \in 1..5 : i < 5 \/ i = 5
      OBVIOUS
    <3> QED
      BY <1>3, <1>6, <3>1 DEF Frame
  <2>4. Integers5(reply)
    BY <1>1, <2>3 DEF Integers5, Settled, IsInt
  <2>5. /\ reply[1].int = (IF status = 200 THEN 0 ELSE 1)
        /\ counter.limit = reply[2].int /\ counter.remaining = reply[3].int
        /\ \/ counter.retry_after = reply[4].int
           \/ counter.retry_after = -1 /\ OnlyOnes(reply[4].int)
        /\ counter.reset = reply[5].int
    BY <2>3 DEF Settled, Field
  <2> QED
    BY <1>2, <2>1, <2>2, <2>4, <2>5 DEF Goes, AcceptedAsSent
<1> QED
  BY <1>4, <1>5, <1>6

-----------------------------------------------------------------------------
(* Bytes of the status and of the array's length.                          *)

LEMMA FirstByte ==
    ASSUME TypeOK, Sent, Frame(1), InFirst
    PROVE  LET int == reply[1].int
           IN  /\ pos < Len(wire)
               /\ \/ Read(1) = 0 /\ IsInt(reply, 1) /\ ch = 58
                  \/ Read(1) = 0 /\ ~IsInt(reply, 1) /\ ch = 36
                  \/ Read(1) = 1 /\ IsInt(reply, 1) /\ int < 0 /\ ch = 45
                  \/ /\ Read(1) = 1 /\ IsInt(reply, 1) /\ int \in Nat
                     /\ ch = Decimal[int][1] /\ ch \in Digits
<1> DEFINE int == reply[1].int
           text == Shown(reply, 1)
<1>1. /\ Len(reply) = 5 /\ 1 \in 1..5 /\ 1 \in 1..Len(reply)
      /\ reply \in Seq(Results)
  BY SentFacts DEF Frame
<1>2. CASE ~IsInt(reply, 1)
  <2>1. Read(1) = 0
    BY <1>2 DEF InFirst
  <2>2. Len(text) = 5 /\ text[1] = 36
    BY <1>1, <1>2, OtherShown
  <2> HIDE DEF text
  <2>3. 0 \in Nat /\ 0 < Len(text) /\ text[0 + 1] = 36
    BY <2>2
  <2>4. ch = 36 /\ pos < Len(wire)
    BY <1>1, <2>1, <2>3, ElementByte DEF text
  <2> QED
    BY <1>2, <2>1, <2>4
<1>3. CASE IsInt(reply, 1)
  <2>1. int \in Int
    BY <1>1, <1>3, SentFacts
  <2>2. CASE int < 0
    <3> DEFINE m == -int
    <3>1. m \in Nat
      BY <2>1, <2>2
    <3>2. Len(text) = Places(m) + 4 /\ text[1] = 58 /\ text[2] = 45
      BY <1>1, <1>3, <2>2, NegativeShown
    <3> HIDE DEF m, text
    <3>3. Places(m) \in Nat
      BY <3>1, DecimalText
    <3>4. 0 \in Nat /\ 0 < Len(text) /\ 1 < Len(text) /\ 0 + 1 = 1 /\ 1 + 1 = 2
      BY <3>2, <3>3
    <3>5. Read(1) = 0 => ch = 58 /\ pos < Len(wire)
      BY <1>1, <3>2, <3>4, ElementByte DEF text
    <3>6. Read(1) = 1 => ch = 45 /\ pos < Len(wire)
      BY <1>1, <3>2, <3>4, ElementByte DEF text
    <3> QED
      BY <1>3, <2>2, <3>5, <3>6 DEF InFirst
  <2>3. CASE ~(int < 0)
    <3>1. int \in Nat /\ int >= 0
      BY <2>1, <2>3
    <3> DEFINE l == Places(int)
               d == Decimal[int]
    <3>2. l \in Nat /\ l >= 1 /\ \A i \in 1..l : d[i] \in Digits
      BY <3>1, DecimalText
    <3>3. /\ Len(text) = l + 3 /\ text[1] = 58
          /\ \A i \in 1..l : text[i + 1] = d[i]
      BY <1>1, <1>3, <3>1, NumberShown
    <3> HIDE DEF l, d, text
    <3>4. /\ 0 \in Nat /\ 0 < Len(text) /\ 1 < Len(text) /\ 0 + 1 = 1 /\ 1 + 1 = 2
          /\ 1 \in 1..l
      BY <3>2, <3>3
    <3>5. text[2] = d[1] /\ d[1] \in Digits
      BY <3>2, <3>3, <3>4
    <3>6. Read(1) = 0 => ch = 58 /\ pos < Len(wire)
      BY <1>1, <3>3, <3>4, ElementByte DEF text
    <3>7. Read(1) = 1 => ch = d[1] /\ pos < Len(wire)
      BY <1>1, <3>4, <3>5, ElementByte DEF text
    <3> QED
      BY <1>3, <3>1, <3>5, <3>6, <3>7 DEF InFirst, d
  <2> QED
    BY <2>2, <2>3
<1> QED
  BY <1>2, <1>3

LEMMA FirstStep ==
    ASSUME TypeOK, Sent, Byte, Frame(1), state = "ARG1", InFirst
    PROVE  Goes
<1> DEFINE int == reply[1].int
<1>1. Step /\ Len(reply) = 5 /\ 1 \in 1..5
  BY ByteIsStep DEF Frame
<1>2. /\ reply' = reply /\ Read(1)' = Read(1) + 1 /\ outcome = "reading"
  BY <1>1, StepFacts
<1>byte. \/ Read(1) = 0 /\ IsInt(reply, 1) /\ ch = 58
         \/ Read(1) = 0 /\ ~IsInt(reply, 1) /\ ch = 36
         \/ Read(1) = 1 /\ IsInt(reply, 1) /\ int < 0 /\ ch = 45
         \/ /\ Read(1) = 1 /\ IsInt(reply, 1) /\ int \in Nat
            /\ ch = Decimal[int][1] /\ ch \in Digits
  BY FirstByte, Zenon
<1>actions. Colons \/ Status \/ Refuse
  <2>1. /\ state \notin DOMAIN CounterOf /\ state \notin DOMAIN LineEnd
        /\ state \notin DOMAIN NumberEnd
        /\ state \notin {"start", "CRLF1", "CRLF2", "ARG4", "ALLOWED", "almost_done"}
    BY TableFacts
  <2> QED
    BY <2>1 DEF Byte, Length, Returns, Digit, EndOfNumber, EndOfLine, Negative,
                One, Done
<1>frame. counter' = counter => Frame(1)'
  BY <1>2 DEF Frame, Untouched
<1> HIDE DEF int
<1>3. CASE Colons
  <2>1. ch = 58 /\ outcome' = "reading" /\ state' = "ARG1" /\ counter' = counter
    BY <1>2, <1>3 DEF Colons
  <2>2. Read(1) = 0 /\ IsInt(reply, 1)
    BY <1>byte, <2>1
  <2>3. InFirst'
    BY <1>2, <2>2 DEF InFirst, IsInt
  <2> QED
    BY <1>frame, <2>1, <2>3 DEF Goes, Place
<1>4. CASE Status
  <2>1. /\ ch \in {48, 49} /\ outcome' = "reading" /\ state' = "CRLF2"
        /\ counter' = counter /\ status' = IF ch = 48 THEN 200 ELSE 429
    BY <1>2, <1>4 DEF Status
  <2>2. Read(1) = 1 /\ IsInt(reply, 1) /\ int \in Nat /\ ch = Decimal[int][1]
    BY <1>byte, <2>1
  <2>3. Decimal[int][1] = (IF status' = 200 THEN 48 ELSE 49)
    BY <2>1, <2>2
  <2>4. Read(1)' = 2
    BY <1>2, <2>2
  <2>5. IsInt(reply', 1) /\ reply'[1].int = int /\ int >= 0
    BY <1>2, <2>2 DEF int
  <2>6. PastFirst'
    BY <2>3, <2>4, <2>5 DEF PastFirst
  <2> QED
    BY <1>frame, <2>1, <2>6 DEF Goes, Place
<1>5. CASE Refuse
  <2>1. outcome' = "error" /\ ch \notin {58, 48, 49}
    BY <1>5 DEF Refuse, Cases, CounterOf
  <2>2. ~IsInt(reply, 1) \/ int \notin {0, 1}
    <3> SUFFICES ASSUME IsInt(reply, 1), int \in {0, 1} PROVE FALSE
      OBVIOUS
    <3>1. int \in Nat /\ int < 10 /\ ~(int < 0)
      OBVIOUS
    <3>2. ch = Decimal[int][1]
      BY <1>byte, <2>1, <3>1
    <3>3. Decimal[int][1] = 48 + int
      BY <3>1, OneDigit
    <3> QED
      BY <2>1, <3>2, <3>3
  <2>3. ~InContract(reply)
    BY <2>2 DEF InContract, Integers5, IsInt, int
  <2> QED
    BY <2>1, <2>3 DEF Goes
<1> QED
  BY <1>3, <1>4, <1>5, <1>actions

LEMMA PastFirstByte ==
    ASSUME TypeOK, Sent, Frame(1), PastFirst
    PROVE  LET l == Places(reply[1].int)
           IN  /\ pos < Len(wire) /\ reply[1].int \in Nat /\ IsInt(reply, 1)
               /\ \/ Read(1) = 2 /\ l >= 2 /\ ch \in Digits
                  \/ Read(1) = 2 /\ l = 1 /\ ch = 13
                  \/ Read(1) = 3 /\ l = 1 /\ ch = 10 /\ pos = Before(reply, 2) - 1
<1> DEFINE int == reply[1].int
           text == Shown(reply, 1)
           l == Places(int)
           d == Decimal[int]
<1>1. /\ Len(reply) = 5 /\ 1 \in 1..5 /\ 1 \in 1..Len(reply)
      /\ reply \in Seq(Results)
  BY SentFacts DEF Frame
<1>2. IsInt(reply, 1) /\ int >= 0 /\ (Read(1) = 2 \/ (Read(1) = 3 /\ l = 1))
  BY DEF PastFirst
<1>3. int \in Nat
  BY <1>1, <1>2, SentFacts
<1>4. l \in Nat /\ l >= 1 /\ \A i \in 1..l : d[i] \in Digits
  BY <1>3, DecimalText
<1>5. /\ Len(text) = l + 3 /\ text[l + 2] = 13
      /\ \A i \in 1..l : text[i + 1] = d[i]
  BY <1>1, <1>2, NumberShown
<1>6. Before(reply, 2) = Before(reply, 1) + Len(text) /\ Before(reply, 1) \in Nat
  <2>1. 1 + 1 = 2
    OBVIOUS
  <2> QED
    BY <1>1, <2>1, NextElement
<1>7. pos = Before(reply, 1) + Read(1)
  BY <1>1, ReadType
<1> HIDE DEF int, text, l, d
<1>8. CASE Read(1) = 2
  <2>1. 2 \in Nat /\ 2 < Len(text) /\ 2 + 1 = 3
    BY <1>4, <1>5
  <2>2. ch = text[3] /\ pos < Len(wire)
    BY <1>1, <1>8, <2>1, ElementByte DEF text
  <2>3. CASE l = 1
    BY <1>2, <1>3, <1>5, <1>8, <2>2, <2>3 DEF int, l
  <2>4. CASE l # 1
    <3>1. l >= 2 /\ 2 \in 1..l /\ 2 + 1 = 3
      BY <1>4, <2>4
    <3>2. ch \in Digits
      BY <1>4, <1>5, <2>2, <3>1
    <3> QED
      BY <1>2, <1>3, <1>8, <2>2, <3>1, <3>2 DEF int, l
  <2> QED
    BY <2>3, <2>4
<1>9. CASE Read(1) = 3 /\ l = 1
  <2>1. pos = Before(reply, 2) - 1
    BY <1>5, <1>6, <1>7, <1>9
  <2>2. ch = 10 /\ pos < Len(wire)
    <3>1. 1 + 1 = 2
      OBVIOUS
    <3> QED
      BY <1>1, <1>2, <2>1, <3>1, LastByte
  <2> QED
    BY <1>2, <1>3, <1>9, <2>1, <2>2 DEF int, l
<1> QED
  BY <1>2, <1>8, <1>9

LEMMA PastFirstStep ==
    ASSUME TypeOK, Sent, Byte, Frame(1), state = "CRLF2", PastFirst
    PROVE  Goes
<1> DEFINE int == reply[1].int
           l == Places(int)
<1>1. Step /\ Len(reply) = 5 /\ 1 \in 1..5
  BY ByteIsStep DEF Frame
<1>2. /\ reply' = reply /\ Read(1)' = Read(1) + 1 /\ outcome = "reading"
  BY <1>1, StepFacts
<1>byte. /\ int \in Nat /\ IsInt(reply, 1)
         /\ \/ Read(1) = 2 /\ l >= 2 /\ ch \in Digits
            \/ Read(1) = 2 /\ l = 1 /\ ch = 13
            \/ Read(1) = 3 /\ l = 1 /\ ch = 10 /\ pos = Before(reply, 2) - 1
  BY PastFirstByte
<1>first. Decimal[int][1] = (IF status = 200 THEN 48 ELSE 49) /\ int >= 0
  BY DEF PastFirst
<1>short. int < 10 => l = 1 /\ Decimal[int][1] = 48 + int
  BY <1>byte, OneDigit DEF Places
<1>long. l = 1 => int < 10
  <2>1. int \in Nat
    BY <1>byte
  <2> HIDE DEF int
  <2>2. int >= 10 => Len(Decimal[int]) >= 2
    BY <2>1, DecimalType
  <2> QED
    BY <2>1, <2>2 DEF Places
<1>actions. Returns \/ EndOfLine \/ Refuse
  <2>1. /\ state \notin DOMAIN CounterOf /\ state \notin DOMAIN NumberEnd
        /\ state \notin {"start", "ARG1", "ARG4", "ALLOWED", "almost_done"}
    BY TableFacts
  <2> QED
    BY <2>1 DEF Byte, Colons, Length, Status, Digit, EndOfNumber, Negative, One,
                Done
<1> HIDE DEF int, l
<1>3. CASE Returns
  <2>1. /\ ch = 13 /\ outcome' = "reading" /\ state' = "CRLF2"
        /\ counter' = counter /\ status' = status
    BY <1>2, <1>3 DEF Returns
  <2>2. Read(1) = 2 /\ l = 1
    BY <1>byte, <2>1
  <2>3. Read(1)' = 3
    BY <1>2, <2>2
  <2>4. IsInt(reply', 1) /\ reply'[1].int = int
    BY <1>2, <1>byte DEF int
  <2>5. PastFirst'
    BY <1>first, <2>1, <2>2, <2>3, <2>4 DEF PastFirst, int, l
  <2>6. Frame(1)'
    BY <1>2, <2>1 DEF Frame, Untouched
  <2> QED
    BY <2>1, <2>5, <2>6 DEF Goes, Place
<1>4. CASE EndOfLine
  <2>1. /\ ch = 10 /\ outcome' = "reading" /\ state' = Arg[1 + 1]
        /\ counter' = counter /\ status' = status
    BY <1>2, <1>4 DEF EndOfLine, LineEnd, Arg
  <2>2. l = 1 /\ pos = Before(reply, 1 + 1) - 1
    BY <1>byte, <2>1
  <2>3. int = (IF status = 200 THEN 0 ELSE 1)
    BY <1>byte, <1>first, <1>short, <1>long, <2>2
  <2>4. Settled(1)
    BY <1>byte, <2>3 DEF Settled, int
  <2> QED
    BY <1>1, <2>1, <2>2, <2>4, GoesToNext
<1>5. CASE Refuse
  <2>1. outcome' = "error" /\ ch \notin {13, 10}
    BY <1>5 DEF Refuse, Cases, CounterOf
  <2>2. l >= 2
    BY <1>byte, <2>1
  <2>3. int \notin {0, 1}
    BY <1>short, <2>2
  <2>4. ~InContract(reply)
    BY <2>3 DEF InContract, int
  <2> QED
    BY <2>1, <2>4 DEF Goes
<1> QED
  BY <1>3, <1>4, <1>5, <1>actions

\* The line with the array's length.
LEMMA LengthByte ==
    ASSUME TypeOK, Sent, AtLength
    PROVE  LET l == Places(Len(reply))
           IN  /\ pos < Len(wire)
               /\ \/ pos = 1 /\ Len(reply) = 5 /\ ch = 13
                  \/ pos = 1 /\ Len(reply) # 5 /\ ch \in Digits
                  \/ pos = 2 /\ Len(reply) = 5 /\ ch = 10
<1> DEFINE n == Len(reply)
           l == Places(n)
           d == Decimal[n]
<1>1. reply \in Seq(Results) /\ n \in Nat /\ wire = Wire(reply)
  BY SentFacts
<1>2. d[1] = 53 /\ (pos = 1 \/ (pos = 2 /\ n = 5))
  BY DEF AtLength
<1>3. l \in Nat /\ l >= 1 /\ \A i \in 1..l : d[i] \in Digits
  BY <1>1, DecimalText
<1>4. /\ Len(wire) \in Nat /\ Len(wire) >= l + 2
      /\ \A k \in 1..l : wire[k] = d[k]
      /\ wire[l + 1] = 13 /\ wire[l + 2] = 10
  BY <1>1, WireHead
<1>5. n < 10 => l = 1 /\ d[1] = 48 + n
  BY <1>1, OneDigit DEF Places
<1>6. n >= 10 => l >= 2
  BY <1>1, DecimalType DEF Places
<1> HIDE DEF n, l, d
<1>7. CASE n = 5
  <2>1. l = 1 /\ wire[2] = 13 /\ wire[3] = 10 /\ Len(wire) >= 3
    BY <1>4, <1>5, <1>7
  <2> QED
    BY <1>2, <1>4, <1>7, <2>1 DEF ch, n
<1>8. CASE n # 5
  <2>1. l >= 2 /\ pos = 1
    BY <1>1, <1>2, <1>5, <1>6, <1>8
  <2>2. 2 \in 1..l /\ 1 + 1 = 2
    BY <1>3, <2>1
  <2>3. wire[2] \in Digits
    <3>1. wire[2] = d[2] /\ d[2] \in Digits
      BY <1>3, <1>4, <2>2
    <3> QED
      BY <3>1
  <2>4. 1 < Len(wire)
    BY <1>3, <1>4, <2>1
  <2> QED
    BY <1>8, <2>1, <2>2, <2>3, <2>4 DEF ch, n
<1> QED
  BY <1>7, <1>8

\* A call behind the first digit of the array's length.
LEMMA LengthStep ==
    ASSUME TypeOK, Sent, Byte, state = "CRLF1", AtLength,
           \A i \in 2..5 : Untouched(i)
    PROVE  Goes
<1>1. reply' = reply /\ pos' = pos + 1 /\ outcome = "reading"
  BY ByteIsStep DEF Step, Reading
<1>byte. \/ pos = 1 /\ Len(reply) = 5 /\ ch = 13
         \/ pos = 1 /\ Len(reply) # 5 /\ ch \in Digits
         \/ pos = 2 /\ Len(reply) = 5 /\ ch = 10
  BY LengthByte
<1>actions. Returns \/ EndOfLine \/ Refuse
  <2>1. /\ state \notin DOMAIN CounterOf /\ state \notin DOMAIN NumberEnd
        /\ state \notin {"start", "ARG1", "ARG4", "ALLOWED", "almost_done"}
    BY TableFacts
  <2> QED
    BY <2>1 DEF Byte, Colons, Length, Status, Digit, EndOfNumber, Negative, One,
                Done
<1>untouched. counter' = counter => \A i \in 2..5 : Untouched(i)'
  BY DEF Untouched
<1>2. CASE Returns
  <2>1. /\ ch = 13 /\ outcome' = "reading" /\ state' = "CRLF1" /\ counter' = counter
    BY <1>1, <1>2 DEF Returns
  <2>2. pos' = 2 /\ Len(reply') = 5
    BY <1>1, <1>byte, <2>1
  <2>3. AtLength'
    BY <1>1, <2>2 DEF AtLength
  <2> QED
    BY <1>untouched, <2>1, <2>3 DEF Goes, Place
<1>3. CASE EndOfLine
  <2>1. /\ ch = 10 /\ outcome' = "reading" /\ state' = "ARG1" /\ counter' = counter
    BY <1>1, <1>3 DEF EndOfLine, LineEnd
  <2>2. pos = 2 /\ Len(reply) = 5
    BY <1>byte, <2>1
  <2>3. InFirst'
    <3>1. Before(reply, 1) = 3
      BY <2>2, SentFacts, BeforeFacts
    <3> QED
      BY <1>1, <2>2, <3>1 DEF InFirst, Read
  <2>4. Frame(1)'
    <3>1. \A i \in 1..5 : ~(i < 1)
      OBVIOUS
    <3> QED
      BY <1>1, <1>untouched, <2>1, <2>2, <3>1 DEF Frame
  <2> QED
    BY <2>1, <2>3, <2>4 DEF Goes, Place
<1>4. CASE Refuse
  <2>1. outcome' = "error" /\ ch \notin {13, 10}
    BY <1>4 DEF Refuse, Cases, CounterOf
  <2>2. Len(reply) # 5
    BY <1>byte, <2>1
  <2>3. ~InContract(reply)
    BY <2>2 DEF InContract, Integers5
  <2> QED
    BY <2>1, <2>3 DEF Goes
<1> QED
  BY <1>2, <1>3, <1>4, <1>actions

\* The first call's first byte.
LEMMA StartByte ==
    ASSUME TypeOK, Sent, pos = 0
    PROVE  pos < Len(wire) /\ ch = Decimal[Len(reply)][1]
<1> DEFINE l == Places(Len(reply))
<1>1. l \in Nat /\ l >= 1
  BY SentFacts, DecimalText
<1>2. /\ Len(wire) \in Nat /\ Len(wire) >= l + 2
      /\ \A k \in 1..l : wire[k] = Decimal[Len(reply)][k]
  BY SentFacts, WireHead
<1> HIDE DEF l
<1>3. 1 \in 1..l /\ 0 + 1 = 1
  BY <1>1
<1> QED
  BY <1>1, <1>2, <1>3 DEF ch

LEMMA StartStep ==
    ASSUME TypeOK, Sent, Byte, state = "start", pos = 0,
           \A i \in 2..5 : Untouched(i)
    PROVE  Goes
<1>1. reply' = reply /\ pos' = 1 /\ outcome = "reading"
  BY ByteIsStep DEF Step, Reading
<1>byte. ch = Decimal[Len(reply)][1]
  BY StartByte
<1>actions. Length \/ Refuse
  <2>1. /\ state \notin DOMAIN CounterOf /\ state \notin DOMAIN NumberEnd
        /\ state \notin DOMAIN LineEnd
        /\ state \notin {"CRLF1", "CRLF2", "ARG1", "ARG4", "ALLOWED", "almost_done"}
    BY TableFacts
  <2> QED
    BY <2>1 DEF Byte, Colons, Returns, Status, Digit, EndOfNumber, EndOfLine,
                Negative, One, Done
<1>2. CASE Length
  <2>1. /\ ch = 53 /\ outcome' = "reading" /\ state' = "CRLF1" /\ counter' = counter
    BY <1>1, <1>2 DEF Length
  <2>2. AtLength'
    BY <1>1, <1>byte, <2>1 DEF AtLength
  <2>3. \A i \in 2..5 : Untouched(i)'
    BY <2>1 DEF Untouched
  <2> QED
    BY <2>1, <2>2, <2>3 DEF Goes, Place
<1>3. CASE Refuse
  <2>1. outcome' = "error" /\ ch # 53
    BY <1>3 DEF Refuse, Cases, CounterOf
  <2>2. Len(reply) # 5
    <3>1. Decimal[5][1] = 48 + 5
      BY OneDigit
    <3>2. 48 + 5 = 53
      OBVIOUS
    <3> QED
      BY <1>byte, <2>1, <3>1, <3>2
  <2>3. ~InContract(reply)
    BY <2>2 DEF InContract, Integers5
  <2> QED
    BY <2>1, <2>3 DEF Goes
<1> QED
  BY <1>2, <1>3, <1>actions

-----------------------------------------------------------------------------
(* The theorems.                                                           *)

LEMMA InitParseInv == Init => ParseInv
<1> SUFFICES ASSUME Init PROVE ParseInv
  OBVIOUS
<1>1. \A i \in 2..5 : Untouched(i)
  <2>1. \A i \in 2..5 : i = 2 \/ i = 3 \/ i = 4 \/ i = 5
    OBVIOUS
  <2> QED
    BY <2>1 DEF Init, Untouched, Field
<1> QED
  BY <1>1 DEF Init, ParseInv, Sent, Place, AcceptedAsSent, ContractAccepted

\* Wherever a call stands, a byte takes it on or ends it rightly.
LEMMA ByteGoes == TypeOK /\ Sent /\ Place(state) /\ Byte => Goes
<1> SUFFICES ASSUME TypeOK, Sent, Place(state), Byte PROVE Goes
  OBVIOUS
<1>1. CASE state = "start" /\ pos = 0 /\ \A i \in 2..5 : Untouched(i)
  BY <1>1, StartStep
<1>2. CASE state = "CRLF1" /\ AtLength /\ \A i \in 2..5 : Untouched(i)
  BY <1>2, LengthStep
<1>3. CASE state = "ARG1" /\ Frame(1) /\ InFirst
  BY <1>3, FirstStep
<1>4. CASE state = "CRLF2" /\ Frame(1) /\ PastFirst
  BY <1>4, PastFirstStep
<1>5. CASE state = "ALLOWED" /\ Frame(4) /\ InNegative
  BY <1>5, NegativeStep
<1>6. ASSUME NEW e \in 2..5, Frame(e),
             (state = Arg[e] /\ InNumber(e)) \/ (state = EndOf[e] /\ AtEnd(e))
      PROVE  Goes
  BY <1>6, NumberStep, EndStep
<1> QED
  BY <1>1, <1>2, <1>3, <1>4, <1>5, <1>6 DEF Place

\* Wherever a call stands, the reply has another byte.
LEMMA PlaceInside ==
    ASSUME NEW s, TypeOK, Sent, Place(s)
    PROVE  pos < Len(wire)
<1>1. CASE pos = 0
  BY <1>1, StartByte
<1>2. CASE AtLength
  BY <1>2, LengthByte
<1>3. CASE Frame(1) /\ InFirst
  BY <1>3, FirstByte
<1>4. CASE Frame(1) /\ PastFirst
  BY <1>4, PastFirstByte
<1>5. CASE Frame(4) /\ InNegative
  BY <1>5, NegativeByte DEF Frame
<1>6. ASSUME NEW e \in 2..5, Frame(e), InNumber(e) \/ AtEnd(e)
      PROVE  pos < Len(wire)
  <2>1. Len(reply) = 5 /\ e \in 1..5
    BY <1>6 DEF Frame
  <2> QED
    BY <1>6, <2>1, NumberByte, LastByte DEF AtEnd, Settled
<1> QED
  BY <1>1, <1>2, <1>3, <1>4, <1>5, <1>6 DEF Place

LEMMA NextParseInv == TypeOK /\ ParseInv /\ [Next]_vars => ParseInv'
<1> SUFFICES ASSUME TypeOK, ParseInv, [Next]_vars PROVE ParseInv'
  OBVIOUS
<1>same. ASSUME NEW s, Place(s), reply' = reply, pos' = pos, status' = status,
                counter' = counter
         PROVE  Place(s)'
  <2>1. \A i : /\ Untouched(i) <=> Untouched(i)'
               /\ Settled(i) <=> Settled(i)'
               /\ Read(i) = Read(i)'
    BY <1>same DEF Untouched, Settled, Read, IsInt
  <2>2. AtLength => AtLength'
    BY <1>same DEF AtLength
  <2>3. \A e : Frame(e) => Frame(e)'
    BY <1>same, <2>1 DEF Frame
  <2>4. /\ InFirst => InFirst'
        /\ PastFirst => PastFirst'
        /\ InNegative => InNegative'
    BY <1>same, <2>1 DEF InFirst, PastFirst, InNegative
  <2>5. \A e : (InNumber(e) => InNumber(e)') /\ (AtEnd(e) => AtEnd(e)')
    BY <1>same, <2>1 DEF InNumber, InDigits, AtEnd, IsInt
  <2> QED
    BY <1>same, <2>1, <2>2, <2>3, <2>4, <2>5 DEF Place
<1>1. CASE Call
  <2>1. /\ reply' = reply /\ wire' = wire /\ pos' = pos /\ status' = status
        /\ counter' = counter /\ outcome = "again" /\ outcome' = "reading"
        /\ state' = saved
    BY <1>1 DEF Call
  <2>2. PICK s : s = saved
    OBVIOUS
  <2>3. Place(s)'
    BY <1>same, <2>1, <2>2 DEF ParseInv
  <2>4. Place(state)'
    BY <2>1, <2>2, <2>3 DEF Place
  <2> QED
    BY <2>1, <2>4 DEF ParseInv, Sent, AcceptedAsSent, ContractAccepted
<1>2. CASE Return
  <2>1. /\ reply' = reply /\ wire' = wire /\ pos' = pos /\ status' = status
        /\ counter' = counter /\ outcome = "reading" /\ outcome' = "again"
        /\ saved' = state
    BY <1>2 DEF Return
  <2>2. PICK s : s = state
    OBVIOUS
  <2>3. Place(s)'
    BY <1>same, <2>1, <2>2 DEF ParseInv
  <2>4. Place(saved)'
    BY <2>1, <2>2, <2>3 DEF Place
  <2> QED
    BY <2>1, <2>4 DEF ParseInv, Sent, AcceptedAsSent, ContractAccepted
<1>3. CASE Byte
  <2>1. Step /\ outcome = "reading" /\ reply' = reply /\ wire' = wire
    BY <1>3, ByteIsStep DEF Step, Reading
  <2>2. Goes
    BY <1>3, <2>1, ByteGoes DEF ParseInv
  <2>3. Sent'
    BY <2>1 DEF ParseInv, Sent
  <2> QED
    BY <2>1, <2>2, <2>3 DEF ParseInv, Goes, AcceptedAsSent, ContractAccepted
<1>4. CASE UNCHANGED vars
  <2>1. /\ reply' = reply /\ wire' = wire /\ pos' = pos /\ status' = status
        /\ counter' = counter /\ outcome' = outcome /\ state' = state
        /\ saved' = saved
    BY <1>4 DEF vars
  <2>2. outcome = "reading" => Place(state)'
    <3> SUFFICES ASSUME outcome = "reading" PROVE Place(state)'
      OBVIOUS
    <3>1. PICK s : s = state
      OBVIOUS
    <3>2. Place(s)'
      BY <1>same, <2>1, <3>1 DEF ParseInv
    <3> QED
      BY <2>1, <3>1, <3>2 DEF Place
  <2>3. outcome = "again" => Place(saved)'
    <3> SUFFICES ASSUME outcome = "again" PROVE Place(saved)'
      OBVIOUS
    <3>1. PICK s : s = saved
      OBVIOUS
    <3>2. Place(s)'
      BY <1>same, <2>1, <3>1 DEF ParseInv
    <3> QED
      BY <2>1, <3>1, <3>2 DEF Place
  <2> QED
    BY <2>1, <2>2, <2>3 DEF ParseInv, Sent, AcceptedAsSent, ContractAccepted
<1> QED
  BY <1>1, <1>2, <1>3, <1>4 DEF Next, Finished

\* Between any two bytes of any reply, cut in any way, the state of
\* ngx_http_ratelimit_process_reply is the one of the place in the reply where
\* the next byte stands, and the counters hold what has been sent up to there
\* (reply.c:62-273).
THEOREM ParserKeepsItsPlace == Spec => []ParseInv
<1>1. Init => ParseInv
  BY InitParseInv
<1>2. TypeOK /\ ParseInv /\ [Next]_vars => ParseInv'
  BY NextParseInv
<1> QED
  BY <1>1, <1>2, CountersNeverOverflow, PTL DEF Spec

\* What the parser accepts is the whole reply of five integers with the status
\* and the counters that were sent, for numbers of any length and any cut into
\* reads (reply.c:62-271); of retry_after's negatives it takes -1, -11, ... for -1
\* (reply.c:187-190, 220-231).
THEOREM RepliesReadAsSent == Spec => []AcceptedAsSent
<1>1. ParseInv => AcceptedAsSent
  BY DEF ParseInv
<1> QED
  BY <1>1, ParserKeepsItsPlace, PTL

\* No reply within the contract of docs/CUSTOM_SCRIPT.md is refused, however it
\* is cut: the cap on the digits of ngx_http_ratelimit_accum_digit never rejects
\* a number that fits its word (reply.c:3-20).
THEOREM ContractNeverRefused == Spec => []ContractAccepted
<1>1. ParseInv => ContractAccepted
  BY DEF ParseInv
<1> QED
  BY <1>1, ParserKeepsItsPlace, PTL

\* Whatever array of integers and other values a script returns, a call that asks
\* for more bytes (NGX_AGAIN) has not seen the reply's last one: the parser never
\* waits for what Redis is not going to send (reply.c:275-289).
THEOREM ParserDecides == Spec => []Decides
<1>1. TypeOK /\ ParseInv => Decides
  BY PlaceInside DEF ParseInv, Decides
<1> QED
  BY <1>1, ParserKeepsItsPlace, CountersNeverOverflow, PTL
=============================================================================
