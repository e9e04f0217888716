---------------------------- MODULE ReplyParser ----------------------------
(***************************************************************************)
(* ngx_http_ratelimit_process_reply, byte by byte: the state machine that  *)
(* reads the script's reply behind the "*" the header handler has eaten.   *)
(* It is called once per read with the bytes that came, in any pieces, and *)
(* keeps its position in ctx->state between two calls.                     *)
(*                                                                         *)
(* The replies are those Redis can make of what a script returns: an array *)
(* of any length whose elements are integers or something else.            *)
(*                                                                         *)
(* An operator named Mutant... is the definition below it with a plausible *)
(* mistake, kept to see that the properties notice.                        *)
(***************************************************************************)
EXTENDS Integers, SequencesExt

CONSTANTS
    Replies,    \* the arrays a script may return
    MaxInt      \* NGX_MAX_INT_T_VALUE

\* The cap of the program has 19 digits: any single one is below it.
ASSUME MaxIntAssumption == MaxInt \in Nat /\ MaxInt >= 9

\* What Redis makes of a Lua value: an integer, or something else.
Results == [kind : {"int"}, int : Int] \cup [kind : {"other"}]

ASSUME RepliesAssumption == Replies \subseteq Seq(Results)

CR     == 13
LF     == 10
Minus  == 45
Digits == 48..57
Colon  == 58

-----------------------------------------------------------------------------
(* What Redis puts on the wire, behind the "*".                            *)

Decimal[n \in Nat] == IF n < 10 THEN <<48 + n>>
                      ELSE Append(Decimal[n \div 10], 48 + (n % 10))

\* ":n", or a nil ("$-1") for anything that is no integer.
ElementText(e) ==
    (CASE e.kind = "other" -> <<36, Minus, 49>>
       [] e.kind = "int" /\ e.int < 0  -> <<Colon, Minus>> \o Decimal[-e.int]
       [] e.kind = "int" /\ e.int >= 0 -> <<Colon>> \o Decimal[e.int])
    \o <<CR, LF>>

Wire(r) == Decimal[Len(r)] \o <<CR, LF>>
           \o FlattenSeq([i \in 1..Len(r) |-> ElementText(r[i])])

-----------------------------------------------------------------------------
(* The parser.                                                             *)

VARIABLES
    reply, wire,    \* what the script returned, and its bytes
    arrived,        \* b->last: how many bytes have been handed over
    pos,            \* p: how many of them have been looked at
    outcome,        \* "again" between two calls, "reading" during one,
                    \* "ok" or "error" when the last call has decided
    state,          \* the local variable of the call
    saved,          \* ctx->state
    status,         \* u->state->status
    counter         \* limit, remaining, retry_after and reset of the ctx

vars == <<reply, wire, arrived, pos, outcome, state, saved, status, counter>>

\* The counter a state reads, where a number's CR leads, and a line's LF.
CounterOf == [ARG2 |-> "limit", ARG3 |-> "remaining",
              ARG4 |-> "retry_after", ARG5 |-> "reset"]
NumberEnd == [ARG2 |-> "LF1", ARG3 |-> "LF2", ARG4 |-> "LF3",
              ALLOWED |-> "LF3", ARG5 |-> "almost_done"]
LineEnd   == [CRLF1 |-> "ARG1", CRLF2 |-> "ARG2", LF1 |-> "ARG3",
              LF2 |-> "ARG4", LF3 |-> "ARG5"]

Counters == {"limit", "remaining", "retry_after", "reset"}
States   == {"start", "ARG1", "almost_done"}
            \cup DOMAIN NumberEnd \cup DOMAIN LineEnd

\* No counter wraps: each stays within a signed word, and only retry_after
\* has the -1 of an allowed request; the call never reads past b->last.
TypeOK ==
    /\ pos \in Nat /\ arrived \in Nat /\ pos <= arrived
    /\ outcome \in {"again", "reading", "ok", "error"}
    /\ state \in States /\ saved \in States
    /\ status \in {200, 429}
    /\ DOMAIN counter = Counters
    /\ \A c \in Counters : counter[c] \in -1..MaxInt
    /\ \A c \in Counters \ {"retry_after"} : counter[c] >= 0

\* A ctx as the handler makes it; the header's "*" has set the status.
Init ==
    /\ reply \in Replies /\ wire = Wire(reply)
    /\ arrived = 0 /\ pos = 0 /\ outcome = "again"
    /\ state = "start" /\ saved = "start" /\ status = 200
    /\ counter = [limit |-> 0, remaining |-> 0, retry_after |-> -1, reset |-> 0]

\* A call that starts the counters over.
MutantCall ==
    /\ outcome = "again" /\ arrived < Len(wire)
    /\ arrived' \in (arrived + 1)..Len(wire)
    /\ outcome' = "reading" /\ state' = saved
    /\ counter' = [counter EXCEPT !.limit = 0]
    /\ UNCHANGED <<reply, wire, pos, saved, status>>

\* ngx_http_ratelimit_filter hands over the bytes of one read.
Call ==
    /\ outcome = "again" /\ arrived < Len(wire)
    /\ arrived' \in (arrived + 1)..Len(wire)
    /\ outcome' = "reading" /\ state' = saved
    /\ UNCHANGED <<reply, wire, pos, saved, status, counter>>

\* A return that leaves ctx->state alone.
MutantReturn ==
    /\ outcome = "reading" /\ pos = arrived
    /\ outcome' = "again"
    /\ UNCHANGED <<reply, wire, arrived, pos, state, saved, status, counter>>

\* NGX_AGAIN: the bytes are used up.
Return ==
    /\ outcome = "reading" /\ pos = arrived
    /\ outcome' = "again" /\ saved' = state
    /\ UNCHANGED <<reply, wire, arrived, pos, state, status, counter>>

Reading == outcome = "reading" /\ pos < arrived
ch      == wire[pos + 1]
digit   == ch - 48

\* One byte was looked at and the call goes on.
Step == /\ Reading /\ pos' = pos + 1
        /\ UNCHANGED <<reply, wire, arrived, saved>>

Colons == /\ Step /\ state \in {"ARG1"} \cup DOMAIN CounterOf /\ ch = Colon
          /\ UNCHANGED <<outcome, state, status, counter>>

\* Any number of CRs is passed over where a single one is not asked for.
Returns == /\ Step /\ state \in {"CRLF1", "CRLF2"} /\ ch = CR
           /\ UNCHANGED <<outcome, state, status, counter>>

Length == /\ Step /\ state = "start" /\ ch = 53
          /\ state' = "CRLF1"
          /\ UNCHANGED <<outcome, status, counter>>

Status == /\ Step /\ state = "ARG1" /\ ch \in {48, 49}
          /\ status' = IF ch = 48 THEN 200 ELSE 429
          /\ state' = "CRLF2"
          /\ UNCHANGED <<outcome, counter>>

\* The guard of a word that has no digit to add.
MutantFits(val, d) == val <= MaxInt \div 10

\* ngx_http_ratelimit_accum_digit
Fits(val, d) == val <= (MaxInt - d) \div 10

\* retry_after starts from its sentinel, the others from 0.
Value(c) == IF counter[c] < 0 THEN 0 ELSE counter[c]

Digit ==
    /\ Step /\ state \in DOMAIN CounterOf /\ ch \in Digits
    /\ LET c == CounterOf[state]
       IN  /\ Fits(Value(c), digit)
           /\ counter' = [counter EXCEPT ![c] = Value(c) * 10 + digit]
    /\ UNCHANGED <<outcome, state, status>>

EndOfNumber == /\ Step /\ state \in DOMAIN NumberEnd /\ ch = CR
               /\ state' = NumberEnd[state]
               /\ UNCHANGED <<outcome, status, counter>>

EndOfLine == /\ Step /\ state \in DOMAIN LineEnd /\ ch = LF
             /\ state' = LineEnd[state]
             /\ UNCHANGED <<outcome, status, counter>>

Negative == /\ Step /\ state = "ARG4" /\ ch = Minus
            /\ state' = "ALLOWED"
            /\ UNCHANGED <<outcome, status, counter>>

One == /\ Step /\ state = "ALLOWED" /\ ch = 49
       /\ counter' = [counter EXCEPT !.retry_after = -1]
       /\ UNCHANGED <<outcome, state, status>>

\* The last LF taken for an ordinary one.
MutantDone == /\ Step /\ state = "almost_done" /\ ch = LF
              /\ UNCHANGED <<outcome, state, status, counter>>

\* NGX_OK: the position is behind the reply, the connection may be kept.
Done == /\ Step /\ state = "almost_done" /\ ch = LF
        /\ outcome' = "ok"
        /\ UNCHANGED <<state, status, counter>>

\* The bytes for which a state has a case.
Cases ==
    [start |-> {53}, CRLF1 |-> {CR, LF}, ARG1 |-> {Colon, 48, 49},
     CRLF2 |-> {CR, LF}, ARG2 |-> Digits \cup {Colon, CR}, LF1 |-> {LF},
     ARG3 |-> Digits \cup {Colon, CR}, LF2 |-> {LF},
     ARG4 |-> Digits \cup {Colon, Minus, CR}, ALLOWED |-> {49, CR},
     LF3 |-> {LF}, ARG5 |-> Digits \cup {Colon, CR}, almost_done |-> {LF}]

\* NGX_ERROR: what was set stays set.
Refuse ==
    /\ Step
    /\ \/ ch \notin Cases[state]
       \/ /\ state \in DOMAIN CounterOf /\ ch \in Digits
          /\ ~Fits(Value(CounterOf[state]), digit)
    /\ outcome' = "error"
    /\ UNCHANGED <<state, status, counter>>

Finished == outcome \in {"ok", "error"} /\ UNCHANGED vars

Byte == \/ Colons \/ Returns \/ Length \/ Status \/ Digit \/ EndOfNumber
        \/ EndOfLine \/ Negative \/ One \/ Done \/ Refuse

Next == Call \/ Return \/ Byte \/ Finished

Spec == Init /\ [][Next]_vars

-----------------------------------------------------------------------------
(* Properties.                                                             *)

Integers5(r) == Len(r) = 5 /\ \A i \in 1..5 : r[i].kind = "int"

\* -1, -11, -111, ...: what the code reads as -1.
OnlyOnes(n) == n < 0 /\ \A i \in 1..Len(Decimal[-n]) : Decimal[-n][i] = 49

\* However a reply is cut into reads, what the parser accepts is the whole
\* reply of five integers, with the status and the counters that were sent:
\* an element never slips into its neighbour's place (reply.c:62-271).  The
\* fourth may be a negative other than -1 if its digits are ones.
AcceptedAsSent ==
    outcome = "ok" =>
        /\ Integers5(reply) /\ pos = Len(wire)
        /\ reply[1].int = (IF status = 200 THEN 0 ELSE 1)
        /\ counter.limit = reply[2].int /\ counter.remaining = reply[3].int
        /\ \/ counter.retry_after = reply[4].int
           \/ counter.retry_after = -1 /\ OnlyOnes(reply[4].int)
        /\ counter.reset = reply[5].int

\* Any reply within docs/CUSTOM_SCRIPT.md's contract and the word's range.
InContract(r) ==
    /\ Integers5(r) /\ r[1].int \in {0, 1}
    /\ \A i \in {2, 3, 5} : r[i].int \in 0..MaxInt
    /\ r[4].int \in {-1} \cup 1..MaxInt

\* No cut of a reply within the contract makes the parser refuse it: the
\* cap on the digits never rejects a valid reply (reply.c:3-7).
ContractAccepted == outcome = "error" => ~InContract(reply)

\* A reply that has come to its end has been decided: the parser never waits
\* for bytes that Redis is not going to send (reply.c:275-289).
Decides == outcome = "again" => pos < Len(wire)
=============================================================================
