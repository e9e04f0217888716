------------------------ MODULE RatelimitPoolProofs ------------------------
(***************************************************************************)
(* Requests that share connections, for any number of either, any          *)
(* locations, servers and upstreams.  What keeps them apart is an account  *)
(* of every connection: its commands and replies belong to one request,    *)
(* as many of them as it is still owed, prelude first and script last.     *)
(***************************************************************************)
EXTENDS RatelimitPool, SequenceTheorems, WellFoundedInduction, TLAPS

Scripts == {"EVALSHA", "EVAL"}

\* r waits for the replies of c.
Waits(r, c) == phase[r] = "waiting" /\ conn[r] = c

\* What an idle connection, and one nobody reads, may hold.
RestInv == \A c \in Connections :
    /\ link[c] \in {"unused", "idle"} => inbox[c] = <<>>
    /\ link[c] # "busy" => outbox[c] = <<>>

\* The commands of a connection are all of one request: the one that waits,
\* or one that failed and left them behind.  The script's comes last.
ByInv == \A c \in Connections : \A i \in 1..Len(inbox[c]) :
    /\ inbox[c][i].by = inbox[c][1].by
    /\ loc[inbox[c][i].by] \in Locations
    /\ Waits(inbox[c][i].by, c)
       \/ (link[c] = "closed" /\ phase[inbox[c][i].by] = "failed")
    /\ inbox[c][i].cmd \in Scripts <=> i = Len(inbox[c])

\* The replies to a waiting request's prelude, then the script's, served or
\* yet to be served: as many as it waits for, and all its own.
OwedAt(r, c) ==
    /\ Len(outbox[c]) + Len(inbox[c]) = due[r] + 1
    /\ \A i \in 1..Len(outbox[c]) :
         /\ outbox[c][i].of = r
         /\ i <= due[r] => outbox[c][i].kind \in {"ok", "error"}
         /\ i > due[r] => outbox[c][i].kind # "ok"
OwedInv == \A r \in Requests : \A c \in Connections : Waits(r, c) => OwedAt(r, c)

\* A refusal is on its way to its request as an error before the ruling.
RefusalInv == \A r \in Requests :
    /\ phase[r] \in {"new", "decided"} => refused[r] = {}
    /\ \A c \in Connections : Waits(r, c) /\ refused[r] # {} =>
         \E i \in 1..Len(outbox[c]) : i <= due[r] /\ outbox[c][i].kind = "error"

\* r's commands set the session of c, or one that does is still to be served.
Asked(c, name) == \E i \in 1..Len(inbox[c]) : inbox[c][i].cmd = name
Governed(r, c) ==
    /\ Database[loc[r]] > 0 /\ "SELECT" \notin refused[r] =>
         database[c] = Database[loc[r]] \/ Asked(c, "SELECT")
    /\ Password[loc[r]] # None /\ "AUTH" \notin refused[r] =>
         identity[c] = Password[loc[r]] \/ Asked(c, "AUTH")
SessionInv == \A r \in Requests : \A c \in Connections :
    Waits(r, c) \/ (\E i \in 1..Len(inbox[c]) : inbox[c][i].by = r) => Governed(r, c)

ChargedInv == PreludeGoverns /\ \A ch \in charged : ch.by \in Requests /\ phase[ch.by] # "new"

\* A location's own upstream stays in its slot.
SlotInv == \A l \in Locations : Target[l] # "variable" => slot[l] = Target[l]

IInv == /\ TypeOK /\ RestInv /\ ByInv /\ OwedInv /\ RefusalInv /\ SessionInv
        /\ ChargedInv /\ SlotInv /\ OwnServer /\ OwnVerdict

-----------------------------------------------------------------------------
(* The upstream a name is resolved to.                                     *)

LessThan == OpToRel(<, Nat)

LEMMA LessThanFacts ==
  /\ \A x, y \in Nat : <<y, x>> \in LessThan <=> y < x
  /\ IsWellFoundedOn(LessThan, Nat)
<1>1. \A x, y \in Nat : <<y, x>> \in LessThan <=> y < x
  BY DEF LessThan, OpToRel
<1>2. IsWellFoundedOn(LessThan, Nat)
  BY NatLessThanWellFounded, Zenon DEF LessThan
<1> QED
  BY <1>1, <1>2

LEMMA LeastNumber ==
  ASSUME NEW T \in SUBSET Nat, T # {}
  PROVE  \E x \in T : \A y \in T : x <= y
<1>1. \E x \in T : \A y \in T : ~ (<<y, x>> \in LessThan)
  BY LessThanFacts, WFMin, Zenon
<1>2. PICK x \in T : \A y \in T : ~ (<<y, x>> \in LessThan)
  BY <1>1
<1>3. \A y \in T : x \in Nat /\ y \in Nat /\ ~ (y < x)
  BY <1>2, LessThanFacts
<1> QED
  BY <1>3

\* The lookup finds an upstream of that name if there is one (util.c:16-45).
LEMMA LookupFacts ==
  ASSUME NEW h, Lookup(h) # None
  PROVE  \E i \in DOMAIN Upstreams :
            /\ Matches(Upstreams[i], h) /\ Upstreams[i].server = Lookup(h)
            /\ Lookup(h) \in Servers
<1> DEFINE T == {i \in DOMAIN Upstreams : Matches(Upstreams[i], h)}
<1>1. Upstreams \in Seq([host: Hosts, port: Nat, server: Servers])
  BY ConfsAssumption
<1>2. DOMAIN Upstreams = 1..Len(Upstreams) /\ Len(Upstreams) \in Nat
  BY <1>1
<1>3. T # {} /\ T \in SUBSET Nat
  BY <1>2 DEF Lookup
<1>4. PICK n \in T : \A j \in T : n <= j
  BY <1>3, LeastNumber
<1>5. \A j \in 1..(n - 1) : ~Matches(Upstreams[j], h)
  BY <1>2, <1>4
<1> DEFINE Q(i) == /\ Matches(Upstreams[i], h)
                   /\ \A j \in 1..(i - 1) : ~Matches(Upstreams[j], h)
           first == CHOOSE i \in DOMAIN Upstreams : Q(i)
<1>6. first \in DOMAIN Upstreams /\ Q(first)
  BY <1>4, <1>5
<1>7. Lookup(h) = Upstreams[first].server
  BY <1>3 DEF Lookup
<1>8. Upstreams[first] \in [host: Hosts, port: Nat, server: Servers]
  BY <1>1, <1>6, ElementOfSeq, <1>2
<1> QED
  BY <1>6, <1>7, <1>8

\* What the handler leaves in the slot is a server, if anything.
LEMMA ResolveFacts ==
  ASSUME TypeOK, SlotInv, NEW l \in Locations, NEW h, Resolve(l, h) # None
  PROVE  /\ Resolve(l, h) \in Servers
         /\ Target[l] # "variable" => Resolve(l, h) = Target[l]
         /\ Target[l] = "variable" =>
              \E i \in DOMAIN Upstreams :
                 Matches(Upstreams[i], h) /\ Upstreams[i].server = Resolve(l, h)
<1>1. CASE Target[l] = "variable"
  <2>1. Resolve(l, h) = Lookup(h)
    BY <1>1 DEF Resolve
  <2> QED
    BY <1>1, <2>1, LookupFacts
<1>2. CASE Target[l] # "variable"
  BY <1>2 DEF Resolve, SlotInv, TypeOK
<1> QED
  BY <1>1, <1>2

\* The prelude: at most AUTH and SELECT, each where the location has one.
LEMMA PreludeFacts ==
  ASSUME NEW r \in Requests, NEW l, NEW c
  PROVE  LET s == Prelude(r, l, c) \o <<Cmd("EVALSHA", r)>>
         IN  /\ Len(Prelude(r, l, c)) \in 0..2
             /\ s \in Seq(Command) /\ Len(s) = Len(Prelude(r, l, c)) + 1
             /\ \A i \in 1..Len(s) : s[i].by = r /\ (s[i].cmd \in Scripts <=> i = Len(s))
             /\ Database[l] > 0 => \E i \in 1..Len(s) : s[i].cmd = "SELECT"
             /\ Password[l] # None => \E i \in 1..Len(s) : s[i].cmd = "AUTH"
<1> DEFINE A == IF Password[l] # None THEN <<Cmd("AUTH", r)>> ELSE <<>>
           B == IF Database[l] > 0 THEN <<Cmd("SELECT", r)>> ELSE <<>>
           E == <<Cmd("EVALSHA", r)>>
<1>1. /\ Cmd("AUTH", r) \in Command /\ Cmd("SELECT", r) \in Command
      /\ Cmd("EVALSHA", r) \in Command
  BY DEF Cmd, Command
<1>2. A \in Seq(Command) /\ B \in Seq(Command) /\ E \in Seq(Command)
      /\ Len(A) \in 0..1 /\ Len(B) \in 0..1 /\ Len(E) = 1
  BY <1>1
<1>3. /\ A \o B \in Seq(Command) /\ Len(A \o B) = Len(A) + Len(B)
      /\ \A i \in 1..(Len(A) + Len(B)) :
            (A \o B)[i] = IF i <= Len(A) THEN A[i] ELSE B[i - Len(A)]
  BY <1>2, ConcatProperties
<1>4. /\ (A \o B) \o E \in Seq(Command) /\ Len((A \o B) \o E) = Len(A \o B) + 1
      /\ \A i \in 1..(Len(A \o B) + 1) :
            ((A \o B) \o E)[i] = IF i <= Len(A \o B) THEN (A \o B)[i] ELSE E[i - Len(A \o B)]
  BY <1>2, <1>3, ConcatProperties
<1>5. /\ Len(A) = 1 => A[1] = Cmd("AUTH", r)
      /\ Len(B) = 1 => B[1] = Cmd("SELECT", r)
      /\ E[1] = Cmd("EVALSHA", r)
      /\ Len(A) = 1 <=> Password[l] # None
      /\ Len(B) = 1 <=> Database[l] > 0
  OBVIOUS
<1>6. Prelude(r, l, c) = A \o B
  BY DEF Prelude
<1> HIDE DEF A, B, E
<1>7. \A i \in 1..(Len(A) + Len(B) + 1) :
         LET x == ((A \o B) \o E)[i]
         IN  /\ i <= Len(A) => x = Cmd("AUTH", r)
             /\ i > Len(A) /\ i <= Len(A) + Len(B) => x = Cmd("SELECT", r)
             /\ i = Len(A) + Len(B) + 1 => x = Cmd("EVALSHA", r)
  BY <1>2, <1>3, <1>4, <1>5
<1>8. /\ Cmd("AUTH", r).by = r /\ Cmd("AUTH", r).cmd = "AUTH"
      /\ Cmd("SELECT", r).by = r /\ Cmd("SELECT", r).cmd = "SELECT"
      /\ Cmd("EVALSHA", r).by = r /\ Cmd("EVALSHA", r).cmd = "EVALSHA"
  BY DEF Cmd
<1> HIDE DEF Prelude
<1>9. \A i \in 1..(Len(A) + Len(B) + 1) :
         LET x == ((A \o B) \o E)[i]
         IN  x.by = r /\ (x.cmd \in Scripts <=> i = Len(A) + Len(B) + 1)
  BY <1>2, <1>7, <1>8 DEF Scripts
<1>10. Password[l] # None => ((A \o B) \o E)[1].cmd = "AUTH"
  BY <1>2, <1>5, <1>7, <1>8
<1>11. Database[l] > 0 => ((A \o B) \o E)[Len(A) + 1].cmd = "SELECT"
  BY <1>2, <1>5, <1>7, <1>8
<1> QED
  BY <1>2, <1>3, <1>4, <1>5, <1>6, <1>9, <1>10, <1>11 DEF E

LEMMA TailFacts ==
  ASSUME NEW S, NEW s \in Seq(S), s # <<>>
  PROVE  /\ Len(s) \in Nat \ {0} /\ Head(s) = s[1] /\ s[1] \in S
         /\ Tail(s) \in Seq(S) /\ Len(Tail(s)) = Len(s) - 1
         /\ \A i \in 1..(Len(s) - 1) : Tail(s)[i] = s[i + 1]
<1>1. Len(s) \in Nat /\ Len(s) # 0
  OBVIOUS
<1>2. /\ Head(s) \in S /\ Tail(s) \in Seq(S) /\ Len(Tail(s)) = Len(s) - 1
      /\ \A i \in 1..Len(Tail(s)) : Tail(s)[i] = s[i + 1]
  BY HeadTailProperties
<1>3. Head(s) = s[1]
  OBVIOUS
<1> QED
  BY <1>1, <1>2, <1>3

LEMMA AppendFacts ==
  ASSUME NEW S, NEW s \in Seq(S), NEW e \in S
  PROVE  /\ Append(s, e) \in Seq(S) /\ Len(Append(s, e)) = Len(s) + 1
         /\ Len(s) \in Nat /\ Append(s, e)[Len(s) + 1] = e
         /\ \A i \in 1..Len(s) : Append(s, e)[i] = s[i]
BY AppendProperties

LEMMA InboxTyped ==
  ASSUME TypeOK, NEW c \in Connections, NEW i \in 1..Len(inbox[c])
  PROVE  /\ inbox[c][i] \in Command /\ inbox[c][i].by \in Requests
         /\ inbox[c] # <<>> /\ Len(inbox[c]) \in Nat
<1>1. inbox[c] \in Seq(Command)
  BY DEF TypeOK
<1>2. inbox[c][i] \in Command /\ Len(inbox[c]) \in Nat
  BY <1>1, ElementOfSeq
<1> QED
  BY <1>1, <1>2 DEF Command

-----------------------------------------------------------------------------
(* The initial state, and the handler's steps.                             *)

LEMMA InitIInv == Init => IInv
<1> SUFFICES ASSUME Init PROVE IInv
  OBVIOUS
<1>0. <<>> \in Seq(Command) /\ <<>> \in Seq(Reply) /\ Len(<<>>) = 0
  BY EmptySeq
<1>1. TypeOK
  BY <1>0, ConfsAssumption DEF Init, TypeOK
<1>2. RestInv /\ ByInv /\ OwedInv /\ RefusalInv /\ SessionInv
  BY <1>0 DEF Init, RestInv, ByInv, OwedInv, OwedAt, RefusalInv, SessionInv, Waits
<1>3. ChargedInv /\ SlotInv /\ OwnServer /\ OwnVerdict
  BY DEF Init, ChargedInv, PreludeGoverns, SlotInv, OwnServer, OwnVerdict
<1> QED
  BY <1>1, <1>2, <1>3 DEF IInv

\* A request that is new has nothing on any connection.
LEMMA NewFacts ==
  ASSUME IInv, NEW r \in Requests, phase[r] = "new"
  PROVE  /\ refused[r] = {}
         /\ \A c \in Connections : \A i \in 1..Len(inbox[c]) : inbox[c][i].by # r
         /\ \A ch \in charged : ch.by # r
BY DEF IInv, RefusalInv, ByInv, Waits, ChargedInv

\* What holds of the others when a new request is given a location.
LEMMA UnresolvedIInv ==
  ASSUME IInv, NEW r \in Requests, NEW l \in Locations, NEW h \in Hosts \cup {None},
         Unresolved(r, l, h)
  PROVE  IInv'
<1> USE DEF Unresolved, connVars
<1>0. TypeOK
  BY DEF IInv
<1>1. /\ phase' = [phase EXCEPT ![r] = "failed"] /\ loc' = [loc EXCEPT ![r] = l]
      /\ \A s \in Requests : s # r => phase'[s] = phase[s] /\ loc'[s] = loc[s] /\ host'[s] = host[s]
      /\ phase[r] = "new" /\ phase'[r] = "failed" /\ loc'[r] = l
  BY <1>0 DEF TypeOK
<1>2. TypeOK'
  BY <1>0, <1>1 DEF TypeOK
<1>3. \A s \in Requests : \A c \in Connections : Waits(s, c)' <=> Waits(s, c)
  BY <1>1 DEF Waits
<1>4. \A s \in Requests, c \in Connections : Waits(s, c) => s # r
  BY <1>1 DEF Waits
<1>5. RestInv'
  BY DEF IInv, RestInv
<1>6. ByInv'
  <2>1. \A c \in Connections : \A i \in 1..Len(inbox[c]) :
           inbox[c][i].by # r /\ inbox[c][i].by \in Requests
    BY <1>0, <1>1, NewFacts, InboxTyped
  <2> QED
    BY <1>1, <1>3, <2>1 DEF IInv, ByInv, Waits
<1>7. OwedInv'
  <2>1. OwedInv /\ UNCHANGED <<due, inbox, outbox>>
    BY DEF IInv
  <2>2. ASSUME NEW t \in Requests, NEW c \in Connections, Waits(t, c)'
        PROVE  Waits(t, c)
    BY <1>3, <2>2
  <2>3. \A t \in Requests, c \in Connections : OwedAt(t, c) => OwedAt(t, c)'
    BY <2>1 DEF OwedAt
  <2> QED
    BY <2>1, <2>2, <2>3 DEF OwedInv
<1>8. RefusalInv'
  BY <1>1, <1>3 DEF IInv, RefusalInv
<1>9. SessionInv'
  <2>1. \A s \in Requests, c \in Connections :
           s # r /\ Governed(s, c) => Governed(s, c)'
    BY <1>1 DEF Governed, Asked
  <2> QED
    BY <1>1, <1>3, <1>4, <2>1, NewFacts DEF IInv, SessionInv
<1>10. ChargedInv'
  BY <1>1, NewFacts DEF IInv, ChargedInv, PreludeGoverns
<1>11. SlotInv'
  BY <1>0, NoneAssumption, ConfsAssumption
     DEF IInv, SlotInv, TypeOK, Resolve
<1>12. OwnServer' /\ OwnVerdict'
  BY <1>1 DEF IInv, OwnServer, OwnVerdict
<1> QED
  BY <1>2, <1>5, <1>6, <1>7, <1>8, <1>9, <1>10, <1>11, <1>12 DEF IInv

\* A new request on an unused or idle connection: nothing of anybody else's
\* is on it (handler.c:190-261).
LEMMA BeginIInv ==
  ASSUME IInv, NEW r \in Requests, NEW l \in Locations, NEW h \in Hosts \cup {None},
         NEW c \in Connections, Begin(r, l, h, c)
  PROVE  IInv'
<1> DEFINE s == Prelude(r, l, c) \o <<Cmd("EVALSHA", r)>>
<1>0. TypeOK /\ SlotInv
  BY DEF IInv
<1>1. /\ phase[r] = "new" /\ Resolve(l, h) # None
      /\ link[c] \in {"unused", "idle"}
      /\ slot' = [slot EXCEPT ![l] = Resolve(l, h)]
      /\ link' = [link EXCEPT ![c] = "busy"]
      /\ server' = [server EXCEPT ![c] = slot'[l]]
      /\ inbox' = [inbox EXCEPT ![c] = s]
      /\ due' = [due EXCEPT ![r] = Len(Prelude(r, l, c))]
      /\ phase' = [phase EXCEPT ![r] = "waiting"]
      /\ loc' = [loc EXCEPT ![r] = l] /\ host' = [host EXCEPT ![r] = h]
      /\ conn' = [conn EXCEPT ![r] = c]
      /\ UNCHANGED <<fallback, verdict, refused, identity, database, outbox, charged>>
  BY DEF Begin
<1>2. /\ Len(Prelude(r, l, c)) \in 0..2
      /\ s \in Seq(Command) /\ Len(s) = Len(Prelude(r, l, c)) + 1
      /\ \A i \in 1..Len(s) : s[i].by = r /\ (s[i].cmd \in Scripts <=> i = Len(s))
      /\ Database[l] > 0 => \E i \in 1..Len(s) : s[i].cmd = "SELECT"
      /\ Password[l] # None => \E i \in 1..Len(s) : s[i].cmd = "AUTH"
  BY PreludeFacts
<1>3. /\ Resolve(l, h) \in Servers
      /\ Target[l] # "variable" => Resolve(l, h) = Target[l]
      /\ Target[l] = "variable" =>
           \E i \in DOMAIN Upstreams :
              Matches(Upstreams[i], h) /\ Upstreams[i].server = Resolve(l, h)
  BY <1>0, <1>1, ResolveFacts
<1> HIDE DEF s
<1>4. /\ slot'[l] = Resolve(l, h) /\ link'[c] = "busy" /\ server'[c] = Resolve(l, h)
      /\ inbox'[c] = s /\ due'[r] = Len(Prelude(r, l, c)) /\ phase'[r] = "waiting"
      /\ loc'[r] = l /\ host'[r] = h /\ conn'[r] = c
      /\ \A t \in Requests : t # r =>
           /\ phase'[t] = phase[t] /\ loc'[t] = loc[t] /\ host'[t] = host[t]
           /\ conn'[t] = conn[t] /\ due'[t] = due[t]
      /\ \A d \in Connections : d # c =>
           link'[d] = link[d] /\ server'[d] = server[d] /\ inbox'[d] = inbox[d]
      /\ \A k \in Locations : k # l => slot'[k] = slot[k]
  BY <1>0, <1>1 DEF TypeOK
<1>5. \A t \in Requests : \A d \in Connections :
         Waits(t, d)' <=> IF t = r THEN d = c ELSE Waits(t, d)
  BY <1>4 DEF Waits
<1>6. \A t \in Requests : ~Waits(t, c)
  BY <1>0, <1>1 DEF TypeOK, Waits
<1>7. outbox[c] = <<>> /\ inbox[c] = <<>> /\ refused[r] = {} /\ Len(outbox[c]) = 0
  BY <1>1, NewFacts DEF IInv, RestInv
<1>8. \A d \in Connections : \A i \in 1..Len(inbox[d]) :
         inbox[d][i].by # r /\ inbox[d][i].by \in Requests
  BY <1>0, <1>1, NewFacts, InboxTyped
<1>9. TypeOK'
  <2>1. /\ slot' \in [Locations -> Servers \cup {None}]
        /\ phase' \in [Requests -> {"new", "waiting", "decided", "failed"}]
        /\ loc' \in [Requests -> Locations \cup {None}]
        /\ host' \in [Requests -> Hosts \cup {None}]
        /\ conn' \in [Requests -> Connections \cup {None}]
        /\ due' \in [Requests -> 0..2]
        /\ fallback' \in [Requests -> BOOLEAN]
        /\ verdict' \in [Requests -> Requests \cup {None}]
        /\ refused' \in [Requests -> SUBSET {"AUTH", "SELECT"}]
    BY <1>0, <1>1, <1>2, <1>3 DEF TypeOK
  <2>2. /\ link' \in [Connections -> {"unused", "busy", "idle", "closed"}]
        /\ server' \in [Connections -> Servers \cup {None}]
        /\ inbox' \in [Connections -> Seq(Command)]
        /\ outbox' \in [Connections -> Seq(Reply)]
    BY <1>0, <1>1, <1>2, <1>3, <1>4 DEF TypeOK
  <2>3. \A t \in Requests : phase'[t] = "waiting" =>
           loc'[t] \in Locations /\ conn'[t] \in Connections /\ link'[conn'[t]] = "busy"
    <3>1. ASSUME NEW t \in Requests, t # r, phase[t] = "waiting"
          PROVE  /\ loc[t] \in Locations /\ conn[t] \in Connections
                 /\ link[conn[t]] = "busy" /\ conn[t] # c
      BY <1>0, <1>6, <3>1 DEF TypeOK, Waits
    <3> QED
      BY <1>4, <3>1
  <2>4. \A t, u \in Requests :
           phase'[t] = "waiting" /\ phase'[u] = "waiting" /\ conn'[t] = conn'[u] => t = u
    <3>1. \A t, u \in Requests :
             phase[t] = "waiting" /\ phase[u] = "waiting" /\ conn[t] = conn[u] => t = u
      BY <1>0 DEF TypeOK
    <3>2. \A t \in Requests : t # r /\ phase[t] = "waiting" => conn[t] # c
      BY <1>6 DEF Waits
    <3> QED
      BY <1>4, <3>1, <3>2
  <2>5. DOMAIN identity' = Connections /\ database' \in [Connections -> Nat]
    BY <1>0, <1>1 DEF TypeOK
  <2> QED
    BY <2>1, <2>2, <2>3, <2>4, <2>5 DEF TypeOK
<1>10. RestInv'
  BY <1>1, <1>4 DEF IInv, RestInv
<1>11. ByInv'
  <2>1. SUFFICES ASSUME NEW d \in Connections, NEW i \in 1..Len(inbox'[d])
                 PROVE  /\ inbox'[d][i].by = inbox'[d][1].by
                        /\ loc'[inbox'[d][i].by] \in Locations
                        /\ Waits(inbox[d][i].by, d)'
                           \/ (link'[d] = "closed" /\ phase'[inbox'[d][i].by] = "failed")
                        /\ inbox'[d][i].cmd \in Scripts <=> i = Len(inbox'[d])
    BY DEF ByInv
  <2>2. CASE d = c
    <3>1. inbox'[d] = s /\ s[i].by = r /\ s[1].by = r /\ i \in 1..Len(s)
      BY <1>2, <1>4, <2>2
    <3>2. Waits(inbox[d][i].by, d)'
      BY <1>4, <2>2, <3>1 DEF Waits
    <3> QED
      BY <1>2, <1>4, <3>1, <3>2
  <2>3. CASE d # c
    <3>1. inbox'[d] = inbox[d] /\ link'[d] = link[d] /\ inbox[d][i].by # r
          /\ inbox[d][i].by \in Requests
      BY <1>4, <1>8, <2>3
    <3>2. Waits(inbox[d][i].by, d) => Waits(inbox[d][i].by, d)'
      BY <1>4, <3>1 DEF Waits
    <3> QED
      BY <1>4, <3>1, <3>2 DEF IInv, ByInv
  <2> QED
    BY <2>2, <2>3
<1>12. OwedInv'
  <2>1. SUFFICES ASSUME NEW t \in Requests, NEW d \in Connections, Waits(t, d)'
                 PROVE  OwedAt(t, d)'
    BY DEF OwedInv
  <2>2. CASE t = r
    <3>1. d = c /\ outbox'[d] = <<>> /\ Len(outbox'[d]) = 0 /\ 1..0 = {}
      BY <1>1, <1>5, <1>7, <2>1, <2>2
    <3> QED
      BY <1>2, <1>4, <2>2, <3>1 DEF OwedAt
  <2>3. CASE t # r
    <3>1. Waits(t, d) /\ d # c
      BY <1>5, <1>6, <2>1, <2>3
    <3>2. OwedAt(t, d)
      BY <3>1 DEF IInv, OwedInv
    <3>3. outbox'[d] = outbox[d] /\ inbox'[d] = inbox[d] /\ due'[t] = due[t]
      BY <1>1, <1>4, <2>3, <3>1
    <3> QED
      BY <3>2, <3>3 DEF OwedAt
  <2> QED
    BY <2>2, <2>3
<1>13. RefusalInv'
  <2>1. \A t \in Requests, d \in Connections : t # r /\ Waits(t, d) => d # c
    BY <1>6
  <2> QED
    BY <1>1, <1>4, <1>5, <1>7, <2>1 DEF IInv, RefusalInv
<1>14. SessionInv'
  <2>1. ASSUME NEW t \in Requests, NEW d \in Connections, t # r, d # c, Governed(t, d)
        PROVE  Governed(t, d)'
    BY <1>1, <1>4, <2>1 DEF Governed, Asked
  <2>2. Governed(r, c)'
    BY <1>2, <1>4 DEF Governed, Asked
  <2>3. ASSUME NEW t \in Requests, NEW d \in Connections,
               Waits(t, d)' \/ \E i \in 1..Len(inbox'[d]) : inbox'[d][i].by = t
        PROVE  (t = r /\ d = c) \/ (t # r /\ d # c /\ Governed(t, d))
    <3>1. CASE d = c
      BY <1>2, <1>4, <1>5, <1>6, <2>3, <3>1
    <3>2. CASE d # c
      BY <1>4, <1>5, <1>8, <2>3, <3>2 DEF IInv, SessionInv
    <3> QED
      BY <3>1, <3>2
  <2> QED
    BY <2>1, <2>2, <2>3 DEF SessionInv
<1>15. ChargedInv'
  BY <1>1, <1>4, NewFacts DEF IInv, ChargedInv, PreludeGoverns
<1>16. SlotInv'
  BY <1>3, <1>4 DEF IInv, SlotInv
<1>17. OwnServer'
  <2>1. ASSUME NEW t \in Requests, t # r, phase[t] = "waiting"
        PROVE  conn[t] # c /\ conn[t] \in Connections
    BY <1>0, <1>6, <2>1 DEF TypeOK, Waits
  <2> QED
    BY <1>3, <1>4, <2>1 DEF IInv, OwnServer
<1>18. OwnVerdict'
  BY <1>1, <1>4 DEF IInv, OwnVerdict
<1> QED
  BY <1>9, <1>10, <1>11, <1>12, <1>13, <1>14, <1>15, <1>16, <1>17, <1>18 DEF IInv

-----------------------------------------------------------------------------
(* A request's reads and its end.                                          *)

\* The connection of a waiting request is its own.
LEMMA WaitingFacts ==
  ASSUME IInv, NEW r \in Requests, phase[r] = "waiting"
  PROVE  /\ conn[r] \in Connections /\ link[conn[r]] = "busy" /\ loc[r] \in Locations
         /\ Waits(r, conn[r])
         /\ \A t \in Requests : Waits(t, conn[r]) => t = r
         /\ \A i \in 1..Len(inbox[conn[r]]) : inbox[conn[r]][i].by = r
         /\ \A d \in Connections : d # conn[r] =>
              \A i \in 1..Len(inbox[d]) : inbox[d][i].by # r
         /\ inbox[conn[r]] \in Seq(Command) /\ outbox[conn[r]] \in Seq(Reply)
         /\ Len(inbox[conn[r]]) \in Nat /\ Len(outbox[conn[r]]) \in Nat
         /\ Len(outbox[conn[r]]) + Len(inbox[conn[r]]) = due[r] + 1
         /\ due[r] \in 0..2
<1>0. TypeOK
  BY DEF IInv
<1>1. /\ conn[r] \in Connections /\ link[conn[r]] = "busy" /\ loc[r] \in Locations
      /\ Waits(r, conn[r])
      /\ \A t \in Requests : Waits(t, conn[r]) => t = r
      /\ inbox[conn[r]] \in Seq(Command) /\ outbox[conn[r]] \in Seq(Reply)
      /\ due[r] \in 0..2
  BY <1>0 DEF TypeOK, Waits
<1>2. \A i \in 1..Len(inbox[conn[r]]) : inbox[conn[r]][i].by = r
  BY <1>0, <1>1, InboxTyped DEF IInv, ByInv
<1>3. \A d \in Connections : d # conn[r] =>
         \A i \in 1..Len(inbox[d]) : inbox[d][i].by # r
  BY DEF IInv, ByInv, Waits
<1>4. Len(outbox[conn[r]]) + Len(inbox[conn[r]]) = due[r] + 1
  BY <1>1 DEF IInv, OwedInv, OwedAt
<1>5. Len(inbox[conn[r]]) \in Nat /\ Len(outbox[conn[r]]) \in Nat
  BY <1>1, LenProperties
<1> QED
  BY <1>1, <1>2, <1>3, <1>4, <1>5

\* A request that ends closes its connection under what Redis may still have
\* of it (upstream.c:47-66).
LEMMA FailsIInv ==
  ASSUME IInv, NEW r \in Requests, phase[r] = "waiting", Fails(r)
  PROVE  IInv'
<1> DEFINE c == conn[r]
<1>0. TypeOK
  BY DEF IInv
<1>1. /\ c \in Connections /\ link[c] = "busy" /\ Waits(r, c)
      /\ \A t \in Requests : Waits(t, c) => t = r
      /\ \A i \in 1..Len(inbox[c]) : inbox[c][i].by = r
      /\ \A d \in Connections : d # c => \A i \in 1..Len(inbox[d]) : inbox[d][i].by # r
  BY WaitingFacts
<1>2. /\ phase' = [phase EXCEPT ![r] = "failed"] /\ conn' = [conn EXCEPT ![r] = None]
      /\ link' = [link EXCEPT ![c] = "closed"] /\ outbox' = [outbox EXCEPT ![c] = <<>>]
      /\ inbox' \in {inbox, [inbox EXCEPT ![c] = <<>>]}
      /\ UNCHANGED <<slot, loc, host, due, fallback, verdict, refused, server,
                     identity, database, charged>>
  BY DEF Fails, Close
<1> HIDE DEF c
<1>3. /\ phase'[r] = "failed" /\ link'[c] = "closed" /\ outbox'[c] = <<>>
      /\ inbox'[c] = inbox[c] \/ inbox'[c] = <<>>
      /\ \A t \in Requests : t # r => phase'[t] = phase[t] /\ conn'[t] = conn[t]
      /\ \A d \in Connections : d # c =>
           link'[d] = link[d] /\ outbox'[d] = outbox[d] /\ inbox'[d] = inbox[d]
  BY <1>0, <1>1, <1>2 DEF TypeOK
<1>4. Len(<<>>) = 0 /\ <<>> \in Seq(Command) /\ <<>> \in Seq(Reply)
  BY EmptySeq
<1>5. \A t \in Requests : \A d \in Connections :
         Waits(t, d)' <=> Waits(t, d) /\ t # r
  BY <1>3 DEF Waits
<1>6. \A t \in Requests : \A d \in Connections : Waits(t, d) /\ t # r => d # c
  BY <1>1
<1>7. TypeOK'
  <2>1. /\ phase' \in [Requests -> {"new", "waiting", "decided", "failed"}]
        /\ conn' \in [Requests -> Connections \cup {None}]
        /\ link' \in [Connections -> {"unused", "busy", "idle", "closed"}]
        /\ inbox' \in [Connections -> Seq(Command)]
        /\ outbox' \in [Connections -> Seq(Reply)]
    <3>1. /\ phase \in [Requests -> {"new", "waiting", "decided", "failed"}]
          /\ conn \in [Requests -> Connections \cup {None}]
          /\ link \in [Connections -> {"unused", "busy", "idle", "closed"}]
          /\ inbox \in [Connections -> Seq(Command)]
          /\ outbox \in [Connections -> Seq(Reply)]
      BY <1>0 DEF TypeOK
    <3> QED
      BY <1>1, <1>2, <1>4, <3>1
  <2>2. \A t \in Requests : phase'[t] = "waiting" =>
           t # r /\ phase[t] = "waiting" /\ conn'[t] = conn[t] /\ conn[t] # c
    BY <1>1, <1>3 DEF Waits
  <2> QED
    BY <1>0, <1>2, <1>3, <2>1, <2>2 DEF TypeOK
<1>8. RestInv'
  BY <1>3 DEF IInv, RestInv
<1>9. ByInv'
  <2>1. SUFFICES ASSUME NEW d \in Connections, NEW i \in 1..Len(inbox'[d])
                 PROVE  /\ inbox'[d][i].by = inbox'[d][1].by
                        /\ loc[inbox'[d][i].by] \in Locations
                        /\ Waits(inbox[d][i].by, d)'
                           \/ (link'[d] = "closed" /\ phase'[inbox'[d][i].by] = "failed")
                        /\ inbox'[d][i].cmd \in Scripts <=> i = Len(inbox'[d])
    BY <1>2 DEF ByInv
  <2>2. inbox'[d] = inbox[d] /\ i \in 1..Len(inbox[d])
    BY <1>3, <1>4, <2>1
  <2>3. /\ inbox[d][i].by = inbox[d][1].by
        /\ loc[inbox[d][i].by] \in Locations
        /\ Waits(inbox[d][i].by, d)
           \/ (link[d] = "closed" /\ phase[inbox[d][i].by] = "failed")
        /\ inbox[d][i].cmd \in Scripts <=> i = Len(inbox[d])
    BY <2>2 DEF IInv, ByInv
  <2>4. CASE d = c
    BY <1>1, <1>3, <2>2, <2>3, <2>4
  <2>5. CASE d # c
    <3>1. inbox[d][i].by # r /\ inbox[d][i].by \in Requests /\ link'[d] = link[d]
      BY <1>0, <1>1, <1>3, <2>2, <2>5, InboxTyped
    <3>2. Waits(inbox[d][i].by, d) => Waits(inbox[d][i].by, d)'
      BY <1>3, <2>2, <3>1 DEF Waits
    <3> QED
      BY <1>3, <2>2, <2>3, <3>1, <3>2
  <2> QED
    BY <2>4, <2>5
<1>10. OwedInv'
  <2>1. SUFFICES ASSUME NEW t \in Requests, NEW d \in Connections, Waits(t, d)'
                 PROVE  OwedAt(t, d)'
    BY DEF OwedInv
  <2>2. Waits(t, d) /\ outbox'[d] = outbox[d] /\ inbox'[d] = inbox[d] /\ due' = due
    BY <1>2, <1>3, <1>5, <1>6, <2>1
  <2>3. OwedAt(t, d)
    BY <2>2 DEF IInv, OwedInv
  <2> QED
    BY <2>2, <2>3 DEF OwedAt
<1>11. RefusalInv'
  <2>1. ASSUME NEW t \in Requests, NEW d \in Connections, Waits(t, d)'
        PROVE  Waits(t, d) /\ outbox'[d] = outbox[d] /\ due' = due
    BY <1>2, <1>3, <1>5, <1>6, <2>1
  <2> QED
    BY <1>2, <1>3, <2>1 DEF IInv, RefusalInv
<1>12. SessionInv'
  <2>1. ASSUME NEW t \in Requests, NEW d \in Connections,
               Waits(t, d)' \/ \E i \in 1..Len(inbox'[d]) : inbox'[d][i].by = t
        PROVE  /\ Waits(t, d) \/ \E i \in 1..Len(inbox[d]) : inbox[d][i].by = t
               /\ inbox'[d] = inbox[d]
    BY <1>3, <1>4, <1>5, <1>6, <2>1
  <2>2. \A t \in Requests, d \in Connections :
           inbox'[d] = inbox[d] /\ Governed(t, d) => Governed(t, d)'
    BY <1>2 DEF Governed, Asked
  <2> QED
    BY <2>1, <2>2 DEF IInv, SessionInv
<1>13. ChargedInv'
  BY <1>2, <1>3 DEF IInv, ChargedInv, PreludeGoverns
<1>14. SlotInv'
  BY <1>2 DEF IInv, SlotInv
<1>15. OwnServer' /\ OwnVerdict'
  BY <1>2, <1>3 DEF IInv, OwnServer, OwnVerdict
<1> QED
  BY <1>7, <1>8, <1>9, <1>10, <1>11, <1>12, <1>13, <1>14, <1>15 DEF IInv

\* The head of the replies, and what is left behind it.
LEMMA HeadFacts ==
  ASSUME IInv, NEW r \in Requests, NEW kind, Has(r, kind), Consume(r)
  PROVE  LET c == conn[r] IN
         /\ phase[r] = "waiting" /\ outbox[c] # <<>> /\ Len(outbox[c]) >= 1
         /\ outbox[c][1].kind = kind /\ outbox[c][1].of = r
         /\ outbox'[c] = Tail(outbox[c]) /\ outbox' \in [Connections -> Seq(Reply)]
         /\ Len(outbox'[c]) = Len(outbox[c]) - 1
         /\ \A i \in 1..(Len(outbox[c]) - 1) : outbox'[c][i] = outbox[c][i + 1]
         /\ \A d \in Connections : d # c => outbox'[d] = outbox[d]
<1> DEFINE c == conn[r]
<1>0. TypeOK /\ phase[r] = "waiting" /\ outbox[c] # <<>> /\ Head(outbox[c]).kind = kind
      /\ outbox' = [outbox EXCEPT ![c] = Tail(outbox[c])]
  BY DEF IInv, Has, Consume
<1>1. c \in Connections /\ outbox[c] \in Seq(Reply) /\ Waits(r, c)
  BY <1>0, WaitingFacts
<1> HIDE DEF c
<1>2. /\ Len(outbox[c]) \in Nat \ {0} /\ Head(outbox[c]) = outbox[c][1]
      /\ Tail(outbox[c]) \in Seq(Reply) /\ Len(Tail(outbox[c])) = Len(outbox[c]) - 1
      /\ \A i \in 1..(Len(outbox[c]) - 1) : Tail(outbox[c])[i] = outbox[c][i + 1]
  BY <1>0, <1>1, TailFacts
<1>3. outbox[c][1].of = r
  <2>1. 1 \in 1..Len(outbox[c])
    BY <1>2
  <2>2. OwedInv
    BY DEF IInv
  <2> QED
    BY <1>1, <2>1, <2>2 DEF OwedInv, OwedAt
<1>4. outbox'[c] = Tail(outbox[c]) /\ outbox' \in [Connections -> Seq(Reply)]
      /\ \A d \in Connections : d # c => outbox'[d] = outbox[d]
  BY <1>0, <1>1, <1>2 DEF TypeOK
<1> QED
  BY <1>0, <1>2, <1>3, <1>4 DEF c

\* One acceptance read (handler.c:561-606).
LEMMA ReadPreludeIInv ==
  ASSUME IInv, NEW r \in Requests, ReadPrelude(r) PROVE IInv'
<1> DEFINE c == conn[r]
<1>0. TypeOK
  BY DEF IInv
<1>1. /\ Has(r, "ok") /\ Consume(r) /\ due[r] > 0
      /\ due' = [due EXCEPT ![r] = due[r] - 1]
      /\ UNCHANGED <<slot, phase, loc, host, conn, fallback, verdict, refused,
                     link, server, identity, database, inbox, charged>>
  BY DEF ReadPrelude
<1>2. /\ phase[r] = "waiting" /\ outbox[c] # <<>> /\ Len(outbox[c]) >= 1
      /\ outbox[c][1].kind = "ok"
      /\ outbox' \in [Connections -> Seq(Reply)]
      /\ Len(outbox'[c]) = Len(outbox[c]) - 1
      /\ \A i \in 1..(Len(outbox[c]) - 1) : outbox'[c][i] = outbox[c][i + 1]
      /\ \A d \in Connections : d # c => outbox'[d] = outbox[d]
  BY <1>1, HeadFacts
<1>3. /\ c \in Connections /\ link[c] = "busy" /\ Waits(r, c)
      /\ \A t \in Requests : Waits(t, c) => t = r
      /\ Len(inbox[c]) \in Nat /\ Len(outbox[c]) \in Nat
      /\ Len(outbox[c]) + Len(inbox[c]) = due[r] + 1 /\ due[r] \in 0..2
  BY <1>2, WaitingFacts
<1> HIDE DEF c
<1>4. /\ due'[r] = due[r] - 1 /\ due' \in [Requests -> 0..2]
      /\ \A t \in Requests : t # r => due'[t] = due[t]
  BY <1>0, <1>1, <1>3 DEF TypeOK
<1>5. \A t \in Requests : \A d \in Connections :
         /\ Waits(t, d)' <=> Waits(t, d)
         /\ Waits(t, d) => (t = r /\ d = c) \/ (t # r /\ d # c)
  BY <1>1, <1>3 DEF Waits
<1>6. TypeOK'
  BY <1>0, <1>1, <1>2, <1>4 DEF TypeOK
<1>7. RestInv'
  BY <1>1, <1>2, <1>3 DEF IInv, RestInv
<1>8. ByInv'
  BY <1>1 DEF IInv, ByInv, Waits
<1>9. OwedInv'
  <2>1. SUFFICES ASSUME NEW t \in Requests, NEW d \in Connections, Waits(t, d)'
                 PROVE  OwedAt(t, d)'
    BY DEF OwedInv
  <2>2. Waits(t, d) /\ OwedAt(t, d)
    BY <1>5, <2>1 DEF IInv, OwedInv
  <2>3. CASE t = r
    <3>1. d = c
      BY <1>5, <2>2, <2>3
    <3>2. Len(outbox'[c]) + Len(inbox'[c]) = due'[r] + 1
      <4>1. inbox'[c] = inbox[c]
        BY <1>1
      <4> DEFINE m == Len(outbox[c])
                 n == Len(inbox[c])
                 k == due[r]
      <4>2. m \in Nat /\ n \in Nat /\ k \in Nat /\ m + n = k + 1
        <5>1. k \in 0..2 /\ m \in Nat /\ n \in Nat /\ m + n = k + 1
          BY <1>3, Zenon
        <5> HIDE DEF m, n, k
        <5> QED
          BY <5>1
      <4>3. Len(outbox'[c]) = m - 1
        BY <1>2
      <4>4. due'[r] = k - 1
        BY <1>4
      <4>5. Len(inbox'[c]) = n
        BY <4>1
      <4> HIDE DEF m, n, k
      <4> QED
        BY <4>2, <4>3, <4>4, <4>5
    <3>3. ASSUME NEW i \in 1..Len(outbox'[c])
          PROVE  /\ outbox'[c][i].of = r
                 /\ i <= due'[r] => outbox'[c][i].kind \in {"ok", "error"}
                 /\ i > due'[r] => outbox'[c][i].kind # "ok"
      <4>1. /\ i \in 1..(Len(outbox[c]) - 1) /\ i + 1 \in 1..Len(outbox[c])
            /\ i <= due'[r] <=> i + 1 <= due[r]
            /\ i > due'[r] <=> i + 1 > due[r]
        BY <1>2, <1>3, <1>4
      <4>2. outbox'[c][i] = outbox[c][i + 1]
        BY <1>2, <4>1
      <4> DEFINE j == i + 1
      <4>3. /\ outbox[c][j].of = r
            /\ j <= due[r] => outbox[c][j].kind \in {"ok", "error"}
            /\ j > due[r] => outbox[c][j].kind # "ok"
        <5>1. j \in 1..Len(outbox[c])
          BY <4>1
        <5> HIDE DEF j
        <5> QED
          BY <2>2, <2>3, <3>1, <5>1 DEF OwedAt
      <4> QED
        BY <4>1, <4>2, <4>3
    <3> QED
      BY <2>3, <3>1, <3>2, <3>3 DEF OwedAt
  <2>4. CASE t # r
    <3>1. outbox'[d] = outbox[d] /\ inbox'[d] = inbox[d] /\ due'[t] = due[t]
      BY <1>1, <1>2, <1>4, <1>5, <2>2, <2>4
    <3> QED
      BY <2>2, <3>1 DEF OwedAt
  <2> QED
    BY <2>3, <2>4
<1>10. RefusalInv'
  <2>1. SUFFICES ASSUME NEW t \in Requests, NEW d \in Connections,
                        Waits(t, d)', refused[t] # {}
                 PROVE  \E i \in 1..Len(outbox'[d]) :
                           i <= due'[t] /\ outbox'[d][i].kind = "error"
    BY <1>1 DEF IInv, RefusalInv
  <2>2. Waits(t, d)
    BY <1>5, <2>1
  <2>3. PICK i \in 1..Len(outbox[d]) : i <= due[t] /\ outbox[d][i].kind = "error"
    BY <2>1, <2>2 DEF IInv, RefusalInv
  <2>4. CASE t = r
    <3>1. d = c /\ i # 1
      BY <1>2, <1>5, <2>2, <2>3, <2>4
    <3>2. /\ i \in 1..Len(outbox[c]) /\ i <= due[r]
          /\ outbox[c][i].kind = "error"
      BY <2>3, <2>4, <3>1
    <3> DEFINE j == i - 1
    <3>3. /\ j \in 1..(Len(outbox[c]) - 1) /\ j \in 1..Len(outbox'[c])
          /\ j <= due'[r] /\ j + 1 = i
      BY <1>2, <1>3, <1>4, <3>1, <3>2
    <3> HIDE DEF j
    <3>4. outbox'[c][j] = outbox[c][i]
      BY <1>2, <3>3
    <3> QED
      BY <2>4, <3>1, <3>2, <3>3, <3>4
  <2>5. CASE t # r
    BY <1>2, <1>4, <1>5, <2>2, <2>3, <2>5
  <2> QED
    BY <2>4, <2>5
<1>11. SessionInv'
  BY <1>1 DEF IInv, SessionInv, Waits, Governed, Asked
<1>12. ChargedInv' /\ SlotInv' /\ OwnServer' /\ OwnVerdict'
  BY <1>1 DEF IInv, ChargedInv, PreludeGoverns, SlotInv, OwnServer, OwnVerdict
<1> QED
  BY <1>6, <1>7, <1>8, <1>9, <1>10, <1>11, <1>12 DEF IInv

\* When the last reply is there, no command is left, and nothing was refused.
LEMMA LastReplyFacts ==
  ASSUME IInv, NEW r \in Requests, NEW kind, Has(r, kind), Consume(r), due[r] = 0
  PROVE  /\ Len(outbox[conn[r]]) = 1 /\ inbox[conn[r]] = <<>>
         /\ outbox'[conn[r]] = <<>> /\ refused[r] = {}
<1> DEFINE c == conn[r]
<1>1. /\ phase[r] = "waiting" /\ Len(outbox[c]) >= 1
      /\ outbox' \in [Connections -> Seq(Reply)] /\ Len(outbox'[c]) = Len(outbox[c]) - 1
  BY HeadFacts
<1>2. /\ c \in Connections /\ Waits(r, c) /\ inbox[c] \in Seq(Command)
      /\ Len(inbox[c]) \in Nat /\ Len(outbox[c]) \in Nat
      /\ Len(outbox[c]) + Len(inbox[c]) = due[r] + 1
  BY <1>1, WaitingFacts
<1> HIDE DEF c
<1>3. Len(outbox[c]) = 1 /\ Len(inbox[c]) = 0 /\ Len(outbox'[c]) = 0
  <2> DEFINE m == Len(outbox[c])
             n == Len(inbox[c])
  <2>1. m \in Nat /\ n \in Nat /\ m >= 1 /\ m + n = due[r] + 1 /\ Len(outbox'[c]) = m - 1
    BY <1>1, <1>2
  <2> HIDE DEF m, n
  <2>2. m + n = 1
    BY <2>1
  <2>3. m = 1 /\ n = 0
    BY <2>1, <2>2
  <2> QED
    BY <2>1, <2>3 DEF m, n
<1>4. inbox[c] = <<>> /\ outbox'[c] = <<>>
  BY <1>1, <1>2, <1>3, EmptySeq
<1>5. refused[r] = {}
  <2>1. \A i \in 1..Len(outbox[c]) : ~(i <= due[r])
    BY <1>3
  <2> QED
    BY <1>2, <2>1 DEF IInv, RefusalInv
<1> QED
  BY <1>3, <1>4, <1>5 DEF c

\* EVAL on the same connection and in the same session (upstream.c:590-629).
LEMMA ReadNoscriptIInv ==
  ASSUME IInv, NEW r \in Requests, ReadNoscript(r) PROVE IInv'
<1> DEFINE c == conn[r]
           e == Cmd("EVAL", r)
<1>0. TypeOK
  BY DEF IInv
<1>1. /\ Has(r, "noscript") /\ Consume(r) /\ due[r] = 0
      /\ fallback' = [fallback EXCEPT ![r] = TRUE]
      /\ inbox' = [inbox EXCEPT ![c] = Append(@, e)]
      /\ UNCHANGED <<slot, phase, loc, host, conn, due, verdict, refused,
                     link, server, identity, database, charged>>
  BY DEF ReadNoscript
<1>2. /\ phase[r] = "waiting" /\ outbox' \in [Connections -> Seq(Reply)]
      /\ \A d \in Connections : d # c => outbox'[d] = outbox[d]
  BY <1>1, HeadFacts
<1>3. /\ c \in Connections /\ link[c] = "busy" /\ Waits(r, c) /\ loc[r] \in Locations
      /\ \A t \in Requests : Waits(t, c) => t = r
  BY <1>2, WaitingFacts
<1>4. inbox[c] = <<>> /\ outbox'[c] = <<>> /\ refused[r] = {}
  BY <1>1, LastReplyFacts
<1>5. e \in Command /\ e.by = r /\ e.cmd = "EVAL" /\ <<>> \in Seq(Command) /\ Len(<<>>) = 0
  BY EmptySeq DEF Cmd, Command
<1> HIDE DEF c, e
<1>6. /\ inbox'[c] \in Seq(Command) /\ Len(inbox'[c]) = 1 /\ inbox'[c][1] = e
      /\ inbox' \in [Connections -> Seq(Command)]
      /\ \A d \in Connections : d # c => inbox'[d] = inbox[d]
  <2>1. Append(<<>>, e) \in Seq(Command) /\ Len(Append(<<>>, e)) = 1 /\ Append(<<>>, e)[1] = e
    BY <1>5, AppendFacts
  <2> QED
    BY <1>0, <1>1, <1>3, <1>4, <2>1 DEF TypeOK
<1>7. \A t \in Requests : \A d \in Connections :
         /\ Waits(t, d)' <=> Waits(t, d)
         /\ Waits(t, d) => (t = r /\ d = c) \/ (t # r /\ d # c)
  BY <1>1, <1>3 DEF Waits
<1>8. TypeOK'
  <2>1. fallback' \in [Requests -> BOOLEAN]
    BY <1>0, <1>1, Zenon DEF TypeOK
  <2> QED
    BY <1>0, <1>1, <1>2, <1>6, <2>1 DEF TypeOK
<1>9. RestInv'
  BY <1>1, <1>2, <1>3, <1>6 DEF IInv, RestInv
<1>10. ByInv'
  <2>1. SUFFICES ASSUME NEW d \in Connections, NEW i \in 1..Len(inbox'[d])
                 PROVE  /\ inbox'[d][i].by = inbox'[d][1].by
                        /\ loc[inbox'[d][i].by] \in Locations
                        /\ Waits(inbox[d][i].by, d)'
                           \/ (link[d] = "closed" /\ phase[inbox'[d][i].by] = "failed")
                        /\ inbox'[d][i].cmd \in Scripts <=> i = Len(inbox'[d])
    BY <1>1 DEF ByInv
  <2>2. CASE d = c
    <3>1. i = 1 /\ inbox'[d][i].by = r /\ inbox'[d][i].cmd \in Scripts /\ Len(inbox'[d]) = 1
      BY <1>5, <1>6, <2>2 DEF Scripts
    <3>2. Waits(inbox[d][i].by, d)'
      BY <1>1, <1>3, <2>2, <3>1 DEF Waits
    <3> QED
      BY <1>3, <3>1, <3>2
  <2>3. CASE d # c
    <3>1. inbox'[d] = inbox[d]
      BY <1>6, <2>3
    <3>2. Waits(inbox[d][i].by, d) => Waits(inbox[d][i].by, d)'
      BY <1>1, <3>1 DEF Waits
    <3> QED
      BY <3>1, <3>2 DEF IInv, ByInv
  <2> QED
    BY <2>2, <2>3
<1>11. OwedInv'
  <2>1. SUFFICES ASSUME NEW t \in Requests, NEW d \in Connections, Waits(t, d)'
                 PROVE  OwedAt(t, d)'
    BY DEF OwedInv
  <2>2. Waits(t, d) /\ OwedAt(t, d)
    BY <1>7, <2>1 DEF IInv, OwedInv
  <2>3. CASE t = r
    <3>1. d = c /\ outbox'[d] = <<>> /\ Len(outbox'[d]) = 0 /\ due'[t] = 0 /\ Len(inbox'[d]) = 1
      BY <1>1, <1>4, <1>5, <1>6, <1>7, <2>2, <2>3
    <3> QED
      BY <3>1 DEF OwedAt
  <2>4. CASE t # r
    <3>1. outbox'[d] = outbox[d] /\ inbox'[d] = inbox[d] /\ due'[t] = due[t]
      BY <1>1, <1>2, <1>6, <1>7, <2>2, <2>4
    <3> QED
      BY <2>2, <3>1 DEF OwedAt
  <2> QED
    BY <2>3, <2>4
<1>12. RefusalInv'
  <2>1. SUFFICES ASSUME NEW t \in Requests, NEW d \in Connections,
                        Waits(t, d)', refused[t] # {}
                 PROVE  \E i \in 1..Len(outbox'[d]) :
                           i <= due[t] /\ outbox'[d][i].kind = "error"
    BY <1>1 DEF IInv, RefusalInv
  <2>2. Waits(t, d) /\ outbox'[d] = outbox[d]
    BY <1>2, <1>4, <1>7, <2>1
  <2> QED
    BY <2>1, <2>2 DEF IInv, RefusalInv
<1>13. SessionInv'
  <2>1. SUFFICES ASSUME NEW t \in Requests, NEW d \in Connections,
                        Waits(t, d)' \/ \E i \in 1..Len(inbox'[d]) : inbox'[d][i].by = t
                 PROVE  Governed(t, d)'
    BY DEF SessionInv
  <2>2. CASE d = c
    <3>1. t = r
      <4>1. CASE Waits(t, d)'
        BY <1>7, <2>2, <4>1
      <4>2. CASE \E i \in 1..Len(inbox'[d]) : inbox'[d][i].by = t
        <5>1. PICK i \in 1..Len(inbox'[d]) : inbox'[d][i].by = t
          BY <4>2
        <5>2. Len(inbox'[d]) = 1 /\ inbox'[d][1].by = r
          BY <1>5, <1>6, <2>2
        <5>3. i = 1
          BY <5>1, <5>2
        <5> QED
          BY <5>1, <5>2, <5>3
      <4> QED
        BY <2>1, <4>1, <4>2
    <3>2. Governed(r, c) /\ ~Asked(c, "SELECT") /\ ~Asked(c, "AUTH")
      BY <1>3, <1>4, <1>5 DEF IInv, SessionInv, Asked
    <3> QED
      BY <1>1, <2>2, <3>1, <3>2 DEF Governed
  <2>3. CASE d # c
    <3>1. inbox'[d] = inbox[d] /\ (Waits(t, d)' <=> Waits(t, d))
      BY <1>6, <1>7, <2>3
    <3>2. Governed(t, d)
      BY <2>1, <3>1 DEF IInv, SessionInv
    <3> QED
      BY <1>1, <3>1, <3>2 DEF Governed, Asked
  <2> QED
    BY <2>2, <2>3
<1>14. ChargedInv' /\ SlotInv' /\ OwnServer' /\ OwnVerdict'
  BY <1>1 DEF IInv, ChargedInv, PreludeGoverns, SlotInv, OwnServer, OwnVerdict
<1> QED
  BY <1>8, <1>9, <1>10, <1>11, <1>12, <1>13, <1>14 DEF IInv

\* The verdict is the request's own, and the connection is left empty
\* (reply.c:264-290).
LEMMA ReadRulingIInv ==
  ASSUME IInv, NEW r \in Requests, ReadRuling(r) PROVE IInv'
<1> DEFINE c == conn[r]
<1>0. TypeOK
  BY DEF IInv
<1>1. /\ Has(r, "ruling") /\ Consume(r) /\ due[r] = 0
      /\ phase' = [phase EXCEPT ![r] = "decided"]
      /\ verdict' = [verdict EXCEPT ![r] = Head(outbox[c]).of]
      /\ conn' = [conn EXCEPT ![r] = None] /\ Keep(c)
      /\ UNCHANGED <<slot, loc, host, due, fallback, refused, server,
                     identity, database, charged>>
  BY DEF ReadRuling
<1>2. /\ phase[r] = "waiting" /\ outbox' \in [Connections -> Seq(Reply)]
      /\ Head(outbox[c]).of = r
      /\ \A d \in Connections : d # c => outbox'[d] = outbox[d]
  BY <1>1, HeadFacts
<1>3. /\ c \in Connections /\ link[c] = "busy" /\ Waits(r, c)
      /\ \A t \in Requests : Waits(t, c) => t = r
      /\ \A d \in Connections : d # c => \A i \in 1..Len(inbox[d]) : inbox[d][i].by # r
  BY <1>2, WaitingFacts
<1>4. inbox[c] = <<>> /\ outbox'[c] = <<>> /\ refused[r] = {} /\ Len(<<>>) = 0
  BY <1>1, LastReplyFacts, EmptySeq
<1> HIDE DEF c
<1>5. PICK k \in {"idle", "closed"} : link' = [link EXCEPT ![c] = k] /\ inbox' = inbox
  BY <1>1 DEF Keep
<1>6. /\ phase'[r] = "decided" /\ verdict'[r] = r /\ link'[c] \in {"idle", "closed"}
      /\ \A t \in Requests : t # r =>
           phase'[t] = phase[t] /\ conn'[t] = conn[t] /\ verdict'[t] = verdict[t]
      /\ \A d \in Connections : d # c => link'[d] = link[d]
  BY <1>0, <1>1, <1>2, <1>3, <1>5 DEF TypeOK
<1>7. \A t \in Requests : \A d \in Connections :
         /\ Waits(t, d)' <=> Waits(t, d) /\ t # r
         /\ Waits(t, d)' => d # c
  BY <1>3, <1>6 DEF Waits
<1>8. TypeOK'
  <2>1. /\ phase' \in [Requests -> {"new", "waiting", "decided", "failed"}]
        /\ conn' \in [Requests -> Connections \cup {None}]
        /\ verdict' \in [Requests -> Requests \cup {None}]
        /\ link' \in [Connections -> {"unused", "busy", "idle", "closed"}]
    BY <1>0, <1>1, <1>2, <1>5 DEF TypeOK
  <2>2. \A t \in Requests : phase'[t] = "waiting" =>
           t # r /\ phase[t] = "waiting" /\ conn'[t] = conn[t] /\ conn[t] # c
    BY <1>3, <1>6 DEF Waits
  <2> QED
    BY <1>0, <1>1, <1>2, <1>5, <1>6, <2>1, <2>2 DEF TypeOK
<1>9. RestInv'
  BY <1>2, <1>4, <1>5, <1>6 DEF IInv, RestInv
<1>10. ByInv'
  <2>1. SUFFICES ASSUME NEW d \in Connections, NEW i \in 1..Len(inbox'[d])
                 PROVE  /\ inbox'[d][i].by = inbox'[d][1].by
                        /\ loc[inbox'[d][i].by] \in Locations
                        /\ Waits(inbox[d][i].by, d)'
                           \/ (link'[d] = "closed" /\ phase'[inbox'[d][i].by] = "failed")
                        /\ inbox'[d][i].cmd \in Scripts <=> i = Len(inbox'[d])
    BY <1>1 DEF ByInv
  <2>2. inbox'[d] = inbox[d] /\ i \in 1..Len(inbox[d]) /\ d # c
    BY <1>4, <1>5, <2>1
  <2>3. inbox[d][i].by # r /\ inbox[d][i].by \in Requests /\ link'[d] = link[d]
    BY <1>0, <1>3, <1>6, <2>2, InboxTyped
  <2>4. Waits(inbox[d][i].by, d) => Waits(inbox[d][i].by, d)'
    BY <1>6, <2>2, <2>3 DEF Waits
  <2>5. /\ inbox[d][i].by = inbox[d][1].by
        /\ loc[inbox[d][i].by] \in Locations
        /\ Waits(inbox[d][i].by, d)
           \/ (link[d] = "closed" /\ phase[inbox[d][i].by] = "failed")
        /\ inbox[d][i].cmd \in Scripts <=> i = Len(inbox[d])
    BY <2>2 DEF IInv, ByInv
  <2> QED
    BY <1>6, <2>2, <2>3, <2>4, <2>5
<1>11. OwedInv'
  <2>1. SUFFICES ASSUME NEW t \in Requests, NEW d \in Connections, Waits(t, d)'
                 PROVE  OwedAt(t, d)'
    BY DEF OwedInv
  <2>2. Waits(t, d) /\ outbox'[d] = outbox[d] /\ inbox' = inbox /\ due' = due
    BY <1>1, <1>2, <1>5, <1>7, <2>1
  <2>3. OwedAt(t, d)
    BY <2>2 DEF IInv, OwedInv
  <2> QED
    BY <2>2, <2>3 DEF OwedAt
<1>12. RefusalInv'
  <2>1. ASSUME NEW t \in Requests, NEW d \in Connections, Waits(t, d)'
        PROVE  Waits(t, d) /\ outbox'[d] = outbox[d] /\ due' = due
    BY <1>1, <1>2, <1>7, <2>1
  <2>2. \A t \in Requests : phase'[t] \in {"new", "decided"} => refused[t] = {}
    BY <1>4, <1>6 DEF IInv, RefusalInv
  <2> QED
    BY <1>1, <2>1, <2>2 DEF IInv, RefusalInv
<1>13. SessionInv'
  <2>1. ASSUME NEW t \in Requests, NEW d \in Connections,
               Waits(t, d)' \/ \E i \in 1..Len(inbox'[d]) : inbox'[d][i].by = t
        PROVE  Governed(t, d)
    BY <1>5, <1>7, <2>1 DEF IInv, SessionInv
  <2>2. \A t \in Requests, d \in Connections : Governed(t, d) => Governed(t, d)'
    BY <1>1, <1>5 DEF Governed, Asked
  <2> QED
    BY <2>1, <2>2 DEF SessionInv
<1>14. ChargedInv'
  BY <1>1, <1>6 DEF IInv, ChargedInv, PreludeGoverns
<1>15. SlotInv'
  BY <1>1 DEF IInv, SlotInv
<1>16. OwnServer' /\ OwnVerdict'
  BY <1>1, <1>6 DEF IInv, OwnServer, OwnVerdict
<1> QED
  BY <1>8, <1>9, <1>10, <1>11, <1>12, <1>13, <1>14, <1>15, <1>16 DEF IInv

-----------------------------------------------------------------------------
(* Redis serves a command.                                                 *)

\* The served command is of the waiting request, or of one that failed and
\* whose connection is closed; its reply comes behind the others.
Served(c, kind) ==
    /\ By(c) \in Requests /\ loc[By(c)] \in Locations
    /\ phase[By(c)] \in {"waiting", "failed"}
    /\ Head(inbox[c]) = inbox[c][1]
    /\ Len(inbox[c]) \in Nat \ {0} /\ Len(inbox'[c]) = Len(inbox[c]) - 1
    /\ \A i \in 1..(Len(inbox[c]) - 1) : inbox'[c][i] = inbox[c][i + 1]
    /\ \A i \in 1..Len(inbox[c]) : inbox[c][i].by = By(c)
    /\ Head(inbox[c]).cmd \in Scripts <=> Len(inbox[c]) = 1
    /\ \A t \in Requests : Waits(t, c) => t = By(c)
    /\ inbox' \in [Connections -> Seq(Command)]
    /\ outbox' \in [Connections -> Seq(Reply)]
    /\ \A d \in Connections : d # c => inbox'[d] = inbox[d] /\ outbox'[d] = outbox[d]
    /\ \/ /\ Waits(By(c), c) /\ link[c] = "busy" /\ Len(outbox[c]) \in Nat
          /\ Len(outbox'[c]) = Len(outbox[c]) + 1
          /\ outbox'[c][Len(outbox[c]) + 1] = [kind |-> kind, of |-> By(c)]
          /\ \A i \in 1..Len(outbox[c]) : outbox'[c][i] = outbox[c][i]
       \/ /\ link[c] = "closed" /\ outbox' = outbox
          /\ phase[By(c)] = "failed" /\ \A t \in Requests : ~Waits(t, c)

LEMMA ServeFacts ==
  ASSUME IInv, NEW c \in Connections, inbox[c] # <<>>,
         NEW kind \in {"ok", "error", "noscript", "ruling"}, Serve(c, kind)
  PROVE  Served(c, kind)
<1> DEFINE e == [kind |-> kind, of |-> By(c)]
<1>0. TypeOK
  BY DEF IInv
<1>1. /\ inbox' = [inbox EXCEPT ![c] = Tail(@)]
      /\ outbox' = IF link[c] = "closed" THEN outbox
                   ELSE [outbox EXCEPT ![c] = Append(@, e)]
  BY DEF Serve
<1>2. inbox[c] \in Seq(Command) /\ outbox[c] \in Seq(Reply)
  BY <1>0 DEF TypeOK
<1>3. /\ Len(inbox[c]) \in Nat \ {0} /\ Head(inbox[c]) = inbox[c][1]
      /\ Tail(inbox[c]) \in Seq(Command) /\ Len(Tail(inbox[c])) = Len(inbox[c]) - 1
      /\ \A i \in 1..(Len(inbox[c]) - 1) : Tail(inbox[c])[i] = inbox[c][i + 1]
  BY <1>2, TailFacts
<1>4. 1 \in 1..Len(inbox[c]) /\ By(c) = inbox[c][1].by
  BY <1>3 DEF By
<1>5. By(c) \in Requests
  BY <1>0, <1>4, InboxTyped
<1>6. /\ loc[By(c)] \in Locations
      /\ Waits(By(c), c) \/ (link[c] = "closed" /\ phase[By(c)] = "failed")
      /\ inbox[c][1].cmd \in Scripts <=> 1 = Len(inbox[c])
      /\ \A i \in 1..Len(inbox[c]) : inbox[c][i].by = By(c)
  <2>1. ASSUME NEW i \in 1..Len(inbox[c])
        PROVE  /\ inbox[c][i].by = inbox[c][1].by
               /\ loc[inbox[c][i].by] \in Locations
               /\ Waits(inbox[c][i].by, c)
                  \/ (link[c] = "closed" /\ phase[inbox[c][i].by] = "failed")
               /\ inbox[c][i].cmd \in Scripts <=> i = Len(inbox[c])
    BY DEF IInv, ByInv
  <2>2. /\ loc[inbox[c][1].by] \in Locations
        /\ Waits(inbox[c][1].by, c)
           \/ (link[c] = "closed" /\ phase[inbox[c][1].by] = "failed")
        /\ inbox[c][1].cmd \in Scripts <=> 1 = Len(inbox[c])
    BY <1>4, <2>1
  <2>3. \A i \in 1..Len(inbox[c]) : inbox[c][i].by = By(c)
    BY <1>4, <2>1
  <2> QED
    BY <1>4, <2>2, <2>3
<1>7. \A t \in Requests : Waits(t, c) => link[c] = "busy"
  BY <1>0 DEF TypeOK, Waits
<1>8. \A t \in Requests : Waits(t, c) => t = By(c)
  BY <1>0, <1>5, <1>6, <1>7 DEF TypeOK, Waits
<1>9. phase[By(c)] \in {"waiting", "failed"}
  BY <1>6 DEF Waits
<1>10. inbox'[c] = Tail(inbox[c]) /\ inbox' \in [Connections -> Seq(Command)]
       /\ \A d \in Connections : d # c => inbox'[d] = inbox[d]
  BY <1>0, <1>1, <1>3 DEF TypeOK
<1>11. e \in Reply /\ e.kind = kind /\ e.of = By(c)
  BY <1>5 DEF Reply
<1> HIDE DEF e
<1>12. /\ Append(outbox[c], e) \in Seq(Reply) /\ Len(outbox[c]) \in Nat
       /\ Len(Append(outbox[c], e)) = Len(outbox[c]) + 1
       /\ Append(outbox[c], e)[Len(outbox[c]) + 1] = e
       /\ \A i \in 1..Len(outbox[c]) : Append(outbox[c], e)[i] = outbox[c][i]
  BY <1>2, <1>11, AppendFacts
<1>13. CASE link[c] = "closed"
  <2>1. outbox' = outbox /\ ~(link[c] = "busy")
    BY <1>1, <1>13
  <2>2. phase[By(c)] = "failed" /\ \A t \in Requests : ~Waits(t, c)
    BY <1>5, <1>6, <1>7, <2>1
  <2> QED
    BY <1>0, <1>3, <1>5, <1>6, <1>8, <1>9, <1>10, <1>13, <2>1, <2>2 DEF TypeOK, Served
<1>14. CASE link[c] # "closed"
  <2>1. Waits(By(c), c) /\ link[c] = "busy"
    BY <1>5, <1>6, <1>7, <1>14
  <2>2. /\ outbox'[c] = Append(outbox[c], e) /\ outbox' \in [Connections -> Seq(Reply)]
        /\ \A d \in Connections : d # c => outbox'[d] = outbox[d]
    BY <1>0, <1>1, <1>12, <1>14 DEF TypeOK
  <2> QED
    BY <1>3, <1>5, <1>6, <1>8, <1>9, <1>10, <1>12, <2>1, <2>2 DEF e, Served
<1> QED
  BY <1>13, <1>14

\* What serving a command does to everything but the session it sets and
\* the refusals: a script's command is answered by something other than an
\* acceptance, the others by an acceptance or an error.
LEMMA ServeKeeps ==
  ASSUME IInv, NEW c \in Connections, inbox[c] # <<>>,
         NEW kind \in {"ok", "error", "noscript", "ruling"}, Serve(c, kind),
         Head(inbox[c]).cmd \in Scripts => kind # "ok",
         Head(inbox[c]).cmd \notin Scripts => kind \in {"ok", "error"},
         refused' \in [Requests -> SUBSET {"AUTH", "SELECT"}],
         DOMAIN identity' = Connections, database' \in [Connections -> Nat]
  PROVE  /\ TypeOK' /\ RestInv' /\ ByInv' /\ OwedInv' /\ SlotInv'
         /\ OwnServer' /\ OwnVerdict'
<1> DEFINE b == By(c)
<1>0. TypeOK /\ UNCHANGED <<slot, phase, loc, host, conn, due, fallback, verdict, link, server>>
  BY DEF IInv, Serve, reqVars
<1>1. /\ b \in Requests /\ loc[b] \in Locations
      /\ Len(inbox[c]) \in Nat \ {0} /\ Len(inbox'[c]) = Len(inbox[c]) - 1
      /\ \A i \in 1..(Len(inbox[c]) - 1) : inbox'[c][i] = inbox[c][i + 1]
      /\ \A i \in 1..Len(inbox[c]) : inbox[c][i].by = b
      /\ Head(inbox[c]).cmd \in Scripts <=> Len(inbox[c]) = 1
      /\ \A t \in Requests : Waits(t, c) => t = b
      /\ inbox' \in [Connections -> Seq(Command)]
      /\ outbox' \in [Connections -> Seq(Reply)]
      /\ \A d \in Connections : d # c => inbox'[d] = inbox[d] /\ outbox'[d] = outbox[d]
  <2>1. Served(c, kind)
    BY ServeFacts
  <2> QED
    BY <2>1, Zenon DEF Served
<1>2. \/ /\ Waits(b, c) /\ link[c] = "busy" /\ Len(outbox[c]) \in Nat
         /\ Len(outbox'[c]) = Len(outbox[c]) + 1
         /\ outbox'[c][Len(outbox[c]) + 1] = [kind |-> kind, of |-> b]
         /\ \A i \in 1..Len(outbox[c]) : outbox'[c][i] = outbox[c][i]
      \/ /\ link[c] = "closed" /\ outbox' = outbox
         /\ phase[b] = "failed" /\ \A t \in Requests : ~Waits(t, c)
  <2>1. Served(c, kind)
    BY ServeFacts
  <2> QED
    BY <2>1, Zenon DEF Served
<1> HIDE DEF b
<1>3. \A t \in Requests : \A d \in Connections : Waits(t, d)' <=> Waits(t, d)
  BY <1>0 DEF Waits
<1>4. TypeOK'
  BY <1>0, <1>1 DEF TypeOK
<1>5. RestInv'
  <2>1. link[c] \notin {"unused", "idle"}
    BY DEF IInv, RestInv
  <2>2. link[c] # "busy" => outbox' = outbox
    BY <1>2
  <2> QED
    BY <1>0, <1>1, <2>1, <2>2 DEF IInv, RestInv
<1>6. ByInv'
  <2>1. SUFFICES ASSUME NEW d \in Connections, NEW i \in 1..Len(inbox'[d])
                 PROVE  /\ inbox'[d][i].by = inbox'[d][1].by
                        /\ loc[inbox'[d][i].by] \in Locations
                        /\ Waits(inbox[d][i].by, d)'
                           \/ (link[d] = "closed" /\ phase[inbox'[d][i].by] = "failed")
                        /\ inbox'[d][i].cmd \in Scripts <=> i = Len(inbox'[d])
    BY <1>0 DEF ByInv
  <2>2. CASE d = c
    <3> DEFINE n == Len(inbox[c])
               j == i + 1
    <3>1. /\ n \in Nat \ {0} /\ i \in 1..(n - 1) /\ j \in 1..n /\ 1 \in 1..(n - 1)
          /\ 1 + 1 \in 1..n /\ j = n <=> i = Len(inbox'[c])
      BY <1>1, <2>2
    <3>2. inbox'[c][i] = inbox[c][j] /\ inbox'[c][1] = inbox[c][1 + 1]
      BY <1>1, <3>1
    <3> HIDE DEF j
    <3>3. inbox[c][j].cmd \in Scripts <=> j = n
      <4>1. \A k \in 1..Len(inbox[c]) : inbox[c][k].cmd \in Scripts <=> k = Len(inbox[c])
        BY DEF IInv, ByInv
      <4>2. j \in 1..Len(inbox[c])
        BY <3>1
      <4> QED
        BY <4>1, <4>2, Zenon
    <3>4. inbox[c][j].by = b /\ inbox[c][1 + 1].by = b
      <4>1. \A k \in 1..Len(inbox[c]) : inbox[c][k].by = b
        BY <1>1
      <4>2. j \in 1..Len(inbox[c]) /\ 1 + 1 \in 1..Len(inbox[c])
        BY <3>1
      <4> QED
        BY <4>1, <4>2, Zenon
    <3> HIDE DEF n
    <3>5. inbox'[c][i].by = b /\ inbox'[c][1].by = b
      BY <3>2, <3>4
    <3>6. Waits(inbox[c][i].by, c)' \/ (link[c] = "closed" /\ phase[inbox'[c][i].by] = "failed")
      BY <1>0, <1>2, <3>5 DEF Waits
    <3> QED
      BY <1>1, <2>2, <3>1, <3>2, <3>3, <3>5, <3>6
  <2>3. CASE d # c
    <3>1. inbox'[d] = inbox[d]
      BY <1>1, <2>3
    <3>2. Waits(inbox[d][i].by, d) => Waits(inbox[d][i].by, d)'
      BY <1>0, <3>1 DEF Waits
    <3> QED
      BY <3>1, <3>2 DEF IInv, ByInv
  <2> QED
    BY <2>2, <2>3
<1>7. OwedInv'
  <2>1. SUFFICES ASSUME NEW t \in Requests, NEW d \in Connections, Waits(t, d)'
                 PROVE  OwedAt(t, d)'
    BY DEF OwedInv
  <2>2. Waits(t, d) /\ OwedAt(t, d)
    BY <1>3, <2>1 DEF IInv, OwedInv
  <2>3. CASE d = c
    <3> DEFINE m == Len(outbox[c])
               n == Len(inbox[c])
               k == due[b]
    <3>1. t = b /\ Waits(b, c)
      BY <1>1, <2>2, <2>3
    <3>2. /\ m \in Nat /\ Len(outbox'[c]) = m + 1
          /\ outbox'[c][m + 1] = [kind |-> kind, of |-> b]
          /\ \A i \in 1..m : outbox'[c][i] = outbox[c][i]
      BY <1>2, <3>1
    <3>3. /\ m + n = k + 1
          /\ \A i \in 1..m : /\ outbox[c][i].of = b
                             /\ i <= k => outbox[c][i].kind \in {"ok", "error"}
                             /\ i > k => outbox[c][i].kind # "ok"
      BY <2>2, <2>3, <3>1 DEF OwedAt
    <3>4. n \in Nat \ {0} /\ Len(inbox'[c]) = n - 1 /\ due'[b] = k /\ k \in 0..2
      BY <1>0, <1>1 DEF TypeOK
    <3>5. Head(inbox[c]).cmd \in Scripts <=> n = 1
      BY <1>1
    <3> HIDE DEF m, n, k
    <3>6. Len(outbox'[c]) + Len(inbox'[c]) = due'[b] + 1
      BY <3>2, <3>3, <3>4
    <3>7. /\ m + 1 <= k => kind \in {"ok", "error"}
          /\ m + 1 > k => kind # "ok"
      <4>1. m + 1 <= k <=> n # 1
        BY <3>2, <3>3, <3>4
      <4>2. m + 1 > k <=> n = 1
        BY <3>2, <3>3, <3>4
      <4> QED
        BY <3>5, <4>1, <4>2
    <3>8. ASSUME NEW i \in 1..Len(outbox'[c])
          PROVE  /\ outbox'[c][i].of = b
                 /\ i <= due'[b] => outbox'[c][i].kind \in {"ok", "error"}
                 /\ i > due'[b] => outbox'[c][i].kind # "ok"
      <4>1. CASE i \in 1..m
        BY <3>2, <3>3, <3>4, <4>1
      <4>2. CASE i = m + 1
        BY <3>2, <3>4, <3>7, <4>2
      <4> QED
        BY <3>2, <4>1, <4>2
    <3> QED
      BY <2>3, <3>1, <3>6, <3>8 DEF OwedAt
  <2>4. CASE d # c
    <3>1. outbox'[d] = outbox[d] /\ inbox'[d] = inbox[d] /\ due' = due
      BY <1>0, <1>1, <2>4
    <3> QED
      BY <2>2, <3>1 DEF OwedAt
  <2> QED
    BY <2>3, <2>4
<1>8. SlotInv' /\ OwnServer' /\ OwnVerdict'
  BY <1>0 DEF IInv, SlotInv, OwnServer, OwnVerdict
<1> QED
  BY <1>4, <1>5, <1>6, <1>7, <1>8

\* A command still to be served stays so when one of another name is.
LEMMA AskedStays ==
  ASSUME IInv, NEW c \in Connections, inbox[c] # <<>>,
         NEW kind \in {"ok", "error", "noscript", "ruling"}, Serve(c, kind),
         NEW name, Asked(c, name), Head(inbox[c]).cmd # name
  PROVE  Asked(c, name)'
<1>1. /\ Head(inbox[c]) = inbox[c][1]
      /\ Len(inbox[c]) \in Nat \ {0} /\ Len(inbox'[c]) = Len(inbox[c]) - 1
      /\ \A i \in 1..(Len(inbox[c]) - 1) : inbox'[c][i] = inbox[c][i + 1]
  BY ServeFacts DEF Served
<1>2. PICK i \in 1..Len(inbox[c]) : inbox[c][i].cmd = name
  BY DEF Asked
<1>3. i # 1
  BY <1>1, <1>2
<1> DEFINE j == i - 1
<1>4. /\ j \in 1..(Len(inbox[c]) - 1) /\ j \in 1..Len(inbox'[c]) /\ j + 1 = i
  BY <1>1, <1>2, <1>3
<1> HIDE DEF j
<1>5. inbox'[c][j].cmd = name
  BY <1>1, <1>2, <1>4
<1> QED
  BY <1>4, <1>5 DEF Asked

\* What is served leaves the sessions of the other connections alone, and
\* its own to the one whose commands they are.
LEMMA ServeSessions ==
  ASSUME IInv, NEW c \in Connections, inbox[c] # <<>>,
         NEW kind \in {"ok", "error", "noscript", "ruling"}, Serve(c, kind),
         NEW b \in Requests, By(c) = b,
         \A d \in Connections : d # c => identity'[d] = identity[d] /\ database'[d] = database[d],
         \A t \in Requests : refused[t] \subseteq refused'[t],
         Governed(b, c) => Governed(b, c)'
  PROVE  SessionInv' /\ Governed(b, c)
<1>0. loc' = loc /\ phase' = phase /\ conn' = conn
  BY DEF Serve, reqVars
<1>1. /\ Len(inbox[c]) \in Nat \ {0}
      /\ Len(inbox'[c]) = Len(inbox[c]) - 1
      /\ \A i \in 1..(Len(inbox[c]) - 1) : inbox'[c][i] = inbox[c][i + 1]
      /\ \A i \in 1..Len(inbox[c]) : inbox[c][i].by = b
      /\ \A t \in Requests : Waits(t, c) => t = b
      /\ \A d \in Connections : d # c => inbox'[d] = inbox[d]
  <2>1. Served(c, kind)
    BY ServeFacts
  <2> QED
    BY <2>1 DEF Served
<1>2. Governed(b, c)
  <2>1. 1 \in 1..Len(inbox[c]) /\ inbox[c][1].by = b
    BY <1>1
  <2> QED
    BY <1>1, <2>1 DEF IInv, SessionInv
<1>3. SessionInv'
  <2>1. SUFFICES ASSUME NEW t \in Requests, NEW d \in Connections,
                        Waits(t, d)' \/ \E i \in 1..Len(inbox'[d]) : inbox'[d][i].by = t
                 PROVE  Governed(t, d)'
    BY DEF SessionInv
  <2>2. Waits(t, d)' <=> Waits(t, d)
    BY <1>0 DEF Waits
  <2>3. CASE d = c
    <3>1. t = b
      <4>1. CASE Waits(t, d)'
        BY <1>1, <2>2, <2>3, <4>1
      <4>2. CASE \E i \in 1..Len(inbox'[d]) : inbox'[d][i].by = t
        <5>1. PICK i \in 1..Len(inbox'[d]) : inbox'[d][i].by = t
          BY <4>2
        <5> DEFINE j == i + 1
        <5>2. i \in 1..(Len(inbox[c]) - 1) /\ j \in 1..Len(inbox[c])
          BY <1>1, <2>3, <5>1
        <5>3. inbox'[c][i] = inbox[c][j]
          BY <1>1, <5>2
        <5> HIDE DEF j
        <5> QED
          BY <1>1, <2>3, <5>1, <5>2, <5>3
      <4> QED
        BY <2>1, <4>1, <4>2
    <3> QED
      BY <1>2, <2>3, <3>1
  <2>4. CASE d # c
    <3>1. inbox'[d] = inbox[d] /\ identity'[d] = identity[d] /\ database'[d] = database[d]
      BY <1>1, <2>4
    <3>2. Governed(t, d)
      BY <2>1, <2>2, <3>1 DEF IInv, SessionInv
    <3>3. refused[t] \subseteq refused'[t]
      OBVIOUS
    <3> QED
      BY <1>0, <3>1, <3>2, <3>3 DEF Governed, Asked
  <2> QED
    BY <2>3, <2>4
<1> QED
  BY <1>2, <1>3

\* A refusal on its way stays on its way.
LEMMA ServeRefusals ==
  ASSUME IInv, NEW c \in Connections, inbox[c] # <<>>,
         NEW kind \in {"ok", "error", "noscript", "ruling"}, Serve(c, kind),
         refused' = refused
  PROVE  RefusalInv'
<1>1. phase' = phase /\ conn' = conn /\ due' = due
  BY DEF Serve, reqVars
<1>2. SUFFICES ASSUME NEW t \in Requests, NEW d \in Connections,
                      Waits(t, d)', refused[t] # {}
               PROVE  \E i \in 1..Len(outbox'[d]) :
                         i <= due[t] /\ outbox'[d][i].kind = "error"
  BY <1>1 DEF IInv, RefusalInv
<1>3. Waits(t, d)
  BY <1>1, <1>2 DEF Waits
<1>4. PICK i \in 1..Len(outbox[d]) : i <= due[t] /\ outbox[d][i].kind = "error"
  BY <1>2, <1>3 DEF IInv, RefusalInv
<1>5. CASE d = c
  <2>1. /\ Len(outbox[c]) \in Nat /\ Len(outbox'[c]) = Len(outbox[c]) + 1
        /\ \A k \in 1..Len(outbox[c]) : outbox'[c][k] = outbox[c][k]
    <3>1. Served(c, kind)
      BY ServeFacts
    <3> QED
      BY <1>3, <1>5, <3>1 DEF Served
  <2>2. i \in 1..Len(outbox'[c]) /\ outbox'[c][i] = outbox[c][i]
    BY <1>4, <1>5, <2>1
  <2> QED
    BY <1>4, <1>5, <2>2
<1>6. CASE d # c
  <2>1. outbox'[d] = outbox[d]
    BY <1>6, ServeFacts DEF Served
  <2> QED
    BY <1>4, <2>1
<1> QED
  BY <1>5, <1>6

\* AUTH or SELECT accepted.
LEMMA AcceptIInv ==
  ASSUME IInv, NEW c \in Connections, Accept(c) PROVE IInv'
<1>0. /\ inbox[c] # <<>> /\ Head(inbox[c]).cmd \in {"AUTH", "SELECT"} /\ Serve(c, "ok")
      /\ UNCHANGED <<refused, charged>>
      /\ IF Head(inbox[c]).cmd = "AUTH"
         THEN /\ identity' = [identity EXCEPT ![c] = Password[loc[By(c)]]]
              /\ UNCHANGED database
         ELSE /\ database' = [database EXCEPT ![c] = Database[loc[By(c)]]]
              /\ UNCHANGED identity
  BY DEF Accept, Due
<1>1. /\ TypeOK /\ loc' = loc
      /\ \E b \in Requests : By(c) = b /\ loc[b] \in Locations
  BY <1>0, ServeFacts DEF IInv, Serve, reqVars, Served
<1>2. PICK b \in Requests : By(c) = b /\ loc[b] \in Locations
  BY <1>1
<1>3. Database[loc[b]] \in Nat
  BY <1>2, ConfsAssumption
<1>4. /\ DOMAIN identity' = Connections /\ database' \in [Connections -> Nat]
      /\ \A d \in Connections : d # c =>
           identity'[d] = identity[d] /\ database'[d] = database[d]
      /\ Head(inbox[c]).cmd = "AUTH" =>
           identity'[c] = Password[loc[b]] /\ database'[c] = database[c]
      /\ Head(inbox[c]).cmd # "AUTH" =>
           database'[c] = Database[loc[b]] /\ identity'[c] = identity[c]
  BY <1>0, <1>1, <1>2, <1>3 DEF TypeOK
<1>5. /\ TypeOK' /\ RestInv' /\ ByInv' /\ OwedInv' /\ SlotInv'
      /\ OwnServer' /\ OwnVerdict'
  BY <1>0, <1>1, <1>4, ServeKeeps DEF Scripts, TypeOK
<1>6. RefusalInv'
  BY <1>0, ServeRefusals
<1>7. SessionInv'
  <2>1. ASSUME Governed(b, c) PROVE Governed(b, c)'
    <3>1. CASE Head(inbox[c]).cmd = "AUTH"
      <4>1. Asked(c, "SELECT") => Asked(c, "SELECT")'
        BY <1>0, <3>1, AskedStays
      <4> QED
        BY <1>0, <1>1, <1>4, <2>1, <3>1, <4>1 DEF Governed
    <3>2. CASE Head(inbox[c]).cmd = "SELECT"
      <4>1. Asked(c, "AUTH") => Asked(c, "AUTH")'
        BY <1>0, <3>2, AskedStays
      <4> QED
        BY <1>0, <1>1, <1>4, <2>1, <3>2, <4>1 DEF Governed
    <3> QED
      BY <1>0, <3>1, <3>2
  <2> QED
    BY <1>0, <1>2, <1>4, <2>1, ServeSessions
<1>8. ChargedInv'
  BY <1>0 DEF IInv, ChargedInv, PreludeGoverns, Serve, reqVars
<1> QED
  BY <1>5, <1>6, <1>7, <1>8 DEF IInv

\* AUTH or SELECT refused: an error before the script's reply.
LEMMA DeclineIInv ==
  ASSUME IInv, NEW c \in Connections, Decline(c) PROVE IInv'
<1>0. /\ inbox[c] # <<>> /\ Head(inbox[c]).cmd \in {"AUTH", "SELECT"} /\ Serve(c, "error")
      /\ refused' = [refused EXCEPT ![By(c)] = @ \cup {Head(inbox[c]).cmd}]
      /\ UNCHANGED <<identity, database, charged>>
  BY DEF Decline, Due
<1>1. /\ TypeOK /\ loc' = loc /\ phase' = phase /\ conn' = conn /\ due' = due
      /\ \E b \in Requests : By(c) = b /\ loc[b] \in Locations
  BY <1>0, ServeFacts DEF IInv, Serve, reqVars, Served
<1>2. PICK b \in Requests : By(c) = b /\ loc[b] \in Locations
  BY <1>1
<1>3. /\ refused' \in [Requests -> SUBSET {"AUTH", "SELECT"}]
      /\ \A t \in Requests : refused[t] \subseteq refused'[t]
      /\ \A t \in Requests : t # b => refused'[t] = refused[t]
      /\ refused'[b] = refused[b] \cup {Head(inbox[c]).cmd}
  BY <1>0, <1>1, <1>2 DEF TypeOK
<1>4. /\ phase[b] \in {"waiting", "failed"}
      /\ Len(inbox[c]) \in Nat \ {0} /\ Len(inbox[c]) # 1
      /\ \A t \in Requests : Waits(t, c) => t = b
      /\ \A d \in Connections : d # c => outbox'[d] = outbox[d]
      /\ \A d \in Connections : Waits(b, d) => d = c
  <2>1. ~(Head(inbox[c]).cmd \in Scripts) /\ "error" \in {"ok", "error", "noscript", "ruling"}
    BY <1>0 DEF Scripts
  <2>2. /\ phase[b] \in {"waiting", "failed"}
        /\ Len(inbox[c]) \in Nat \ {0} /\ Len(inbox[c]) # 1
        /\ \A t \in Requests : Waits(t, c) => t = b
        /\ \A d \in Connections : d # c => outbox'[d] = outbox[d]
        /\ Waits(b, c) \/ phase[b] = "failed"
    BY <1>0, <1>2, <2>1, ServeFacts DEF Served
  <2>3. \A d \in Connections : Waits(b, d) => d = c
    BY <2>2 DEF Waits
  <2> QED
    BY <2>2, <2>3
<1>5. Waits(b, c) => /\ Len(outbox[c]) \in Nat
                     /\ Len(outbox'[c]) = Len(outbox[c]) + 1
                     /\ outbox'[c][Len(outbox[c]) + 1] = [kind |-> "error", of |-> b]
                     /\ \A i \in 1..Len(outbox[c]) : outbox'[c][i] = outbox[c][i]
  BY <1>0, <1>2, ServeFacts DEF Served
<1>6. /\ TypeOK' /\ RestInv' /\ ByInv' /\ OwedInv' /\ SlotInv'
      /\ OwnServer' /\ OwnVerdict'
  BY <1>0, <1>1, <1>3, ServeKeeps DEF Scripts, TypeOK
<1>7. RefusalInv'
  <2>1. \A t \in Requests : phase'[t] \in {"new", "decided"} => refused'[t] = {}
    BY <1>1, <1>3, <1>4 DEF IInv, RefusalInv
  <2>2. ASSUME NEW t \in Requests, NEW d \in Connections, Waits(t, d)', refused'[t] # {}
        PROVE  \E i \in 1..Len(outbox'[d]) : i <= due'[t] /\ outbox'[d][i].kind = "error"
    <3>1. Waits(t, d)
      BY <1>1, <2>2 DEF Waits
    <3>2. CASE d = c
      <4> DEFINE m == Len(outbox[c])
                 n == Len(inbox[c])
      <4>1. t = b /\ m \in Nat /\ n \in Nat \ {0, 1} /\ Len(outbox'[c]) = m + 1
            /\ outbox'[c][m + 1] = [kind |-> "error", of |-> b]
        BY <1>4, <1>5, <3>1, <3>2
      <4>2. m + n = due[b] + 1
        BY <3>1, <3>2, <4>1 DEF IInv, OwedInv, OwedAt
      <4>3. due[b] \in 0..2 /\ due'[b] = due[b]
        BY <1>1 DEF TypeOK
      <4> HIDE DEF m, n
      <4>4. m + 1 <= due[b] /\ m + 1 \in 1..Len(outbox'[c])
        BY <4>1, <4>2, <4>3
      <4>5. outbox'[c][m + 1].kind = "error"
        BY <4>1
      <4> QED
        BY <3>2, <4>1, <4>3, <4>4, <4>5
    <3>3. CASE d # c
      <4>1. t # b /\ outbox'[d] = outbox[d]
        BY <1>4, <3>1, <3>3
      <4> QED
        BY <1>1, <1>3, <2>2, <3>1, <4>1 DEF IInv, RefusalInv
    <3> QED
      BY <3>2, <3>3
  <2> QED
    BY <2>1, <2>2 DEF RefusalInv
<1>8. SessionInv'
  <2>1. ASSUME Governed(b, c) PROVE Governed(b, c)'
    <3>1. CASE Head(inbox[c]).cmd = "AUTH"
      <4>1. Asked(c, "SELECT") => Asked(c, "SELECT")'
        BY <1>0, <3>1, AskedStays
      <4> QED
        BY <1>0, <1>1, <1>3, <2>1, <3>1, <4>1 DEF Governed
    <3>2. CASE Head(inbox[c]).cmd = "SELECT"
      <4>1. Asked(c, "AUTH") => Asked(c, "AUTH")'
        BY <1>0, <3>2, AskedStays
      <4> QED
        BY <1>0, <1>1, <1>3, <2>1, <3>2, <4>1 DEF Governed
    <3> QED
      BY <1>0, <3>1, <3>2
  <2> QED
    BY <1>0, <1>2, <1>3, <2>1, ServeSessions
<1>9. ChargedInv'
  <2>1. ASSUME NEW ch \in charged
        PROVE  /\ Database[loc[ch.by]] > 0 /\ "SELECT" \notin refused[ch.by]
                  => ch.database = Database[loc[ch.by]]
               /\ Password[loc[ch.by]] # None /\ "AUTH" \notin refused[ch.by]
                  => ch.identity = Password[loc[ch.by]]
               /\ ch.by \in Requests /\ phase[ch.by] # "new"
               /\ refused[ch.by] \subseteq refused'[ch.by]
    BY <1>3 DEF IInv, ChargedInv, PreludeGoverns
  <2> QED
    BY <1>0, <1>1, <2>1 DEF ChargedInv, PreludeGoverns
<1> QED
  BY <1>6, <1>7, <1>8, <1>9 DEF IInv

\* A script's command answered without a run, or with one.
LEMMA ScriptServed ==
  ASSUME IInv, NEW c \in Connections, inbox[c] # <<>>, Head(inbox[c]).cmd \in Scripts,
         NEW kind \in {"error", "noscript", "ruling"}, Serve(c, kind),
         UNCHANGED <<refused, identity, database>>
  PROVE  /\ TypeOK' /\ RestInv' /\ ByInv' /\ OwedInv' /\ SlotInv'
         /\ OwnServer' /\ OwnVerdict' /\ RefusalInv' /\ SessionInv'
         /\ Governed(By(c), c) /\ ~Asked(c, "SELECT") /\ ~Asked(c, "AUTH")
<1>1. /\ TypeOK /\ loc' = loc
      /\ \E b \in Requests : By(c) = b
      /\ Len(inbox[c]) = 1 /\ Head(inbox[c]) = inbox[c][1]
  BY ServeFacts DEF IInv, Serve, reqVars, Served
<1>2. PICK b \in Requests : By(c) = b
  BY <1>1
<1>3. /\ TypeOK' /\ RestInv' /\ ByInv' /\ OwedInv' /\ SlotInv'
      /\ OwnServer' /\ OwnVerdict'
  <2>1. /\ kind \in {"ok", "error", "noscript", "ruling"} /\ kind # "ok"
        /\ refused' \in [Requests -> SUBSET {"AUTH", "SELECT"}]
        /\ DOMAIN identity' = Connections /\ database' \in [Connections -> Nat]
    BY <1>1 DEF TypeOK
  <2> QED
    BY <2>1, ServeKeeps, Zenon
<1>4. RefusalInv'
  BY ServeRefusals
<1>5. ~Asked(c, "SELECT") /\ ~Asked(c, "AUTH")
  BY <1>1 DEF Asked, Scripts
<1>6. SessionInv' /\ Governed(b, c)
  <2>1. ASSUME Governed(b, c) PROVE Governed(b, c)'
    BY <1>1, <1>5, <2>1 DEF Governed
  <2> QED
    BY <1>2, <2>1, ServeSessions
<1> QED
  BY <1>2, <1>3, <1>4, <1>5, <1>6

\* A run is charged under what the session says when no SELECT or AUTH of
\* its request is left to serve.
LEMMA RunIInv ==
  ASSUME IInv, NEW c \in Connections, Run(c) PROVE IInv'
<1>0. /\ inbox[c] # <<>> /\ Head(inbox[c]).cmd \in Scripts /\ Serve(c, "ruling")
      /\ charged' = charged \cup {[by |-> By(c), server |-> server[c],
                                  identity |-> identity[c], database |-> database[c]]}
      /\ UNCHANGED <<refused, identity, database>>
  BY DEF Run, Due, Scripts
<1>1. /\ TypeOK' /\ RestInv' /\ ByInv' /\ OwedInv' /\ SlotInv'
      /\ OwnServer' /\ OwnVerdict' /\ RefusalInv' /\ SessionInv'
      /\ Governed(By(c), c) /\ ~Asked(c, "SELECT") /\ ~Asked(c, "AUTH")
  BY <1>0, ScriptServed
<1>2. /\ By(c) \in Requests /\ phase[By(c)] # "new"
      /\ loc' = loc /\ phase' = phase
  BY <1>0, ServeFacts DEF Serve, reqVars, Served
<1>3. ChargedInv'
  <2>1. SUFFICES ASSUME NEW ch \in charged'
                 PROVE  /\ Database[loc[ch.by]] > 0 /\ "SELECT" \notin refused[ch.by]
                           => ch.database = Database[loc[ch.by]]
                        /\ Password[loc[ch.by]] # None /\ "AUTH" \notin refused[ch.by]
                           => ch.identity = Password[loc[ch.by]]
                        /\ ch.by \in Requests /\ phase[ch.by] # "new"
    BY <1>0, <1>2 DEF ChargedInv, PreludeGoverns
  <2>2. CASE ch \in charged
    BY <2>2 DEF IInv, ChargedInv, PreludeGoverns
  <2>3. CASE ch = [by |-> By(c), server |-> server[c],
                   identity |-> identity[c], database |-> database[c]]
    <3>1. ch.by = By(c) /\ ch.identity = identity[c] /\ ch.database = database[c]
      BY <2>3
    <3> QED
      BY <1>1, <1>2, <3>1 DEF Governed
  <2> QED
    BY <1>0, <2>1, <2>2, <2>3
<1> QED
  BY <1>1, <1>3 DEF IInv

LEMMA RunFailsIInv ==
  ASSUME IInv, NEW c \in Connections, RunFails(c) PROVE IInv'
<1>0. /\ inbox[c] # <<>> /\ Head(inbox[c]).cmd \in Scripts
      /\ Serve(c, "noscript") \/ Serve(c, "error")
      /\ UNCHANGED <<refused, identity, database, charged>>
  BY DEF RunFails, Due, Scripts
<1>1. /\ TypeOK' /\ RestInv' /\ ByInv' /\ OwedInv' /\ SlotInv'
      /\ OwnServer' /\ OwnVerdict' /\ RefusalInv' /\ SessionInv'
  BY <1>0, ScriptServed
<1>2. loc' = loc /\ phase' = phase
  BY <1>0 DEF Serve, reqVars
<1>3. ChargedInv'
  BY <1>0, <1>2 DEF IInv, ChargedInv, PreludeGoverns
<1> QED
  BY <1>1, <1>3 DEF IInv

\* An idle connection is nobody's and holds nothing.
LEMMA ExpireIInv ==
  ASSUME IInv, NEW c \in Connections, Expire(c) PROVE IInv'
<1>0. /\ TypeOK /\ link[c] = "idle" /\ link' = [link EXCEPT ![c] = "closed"]
      /\ outbox' = [outbox EXCEPT ![c] = <<>>]
      /\ UNCHANGED <<slot, phase, loc, host, conn, due, fallback, verdict, refused,
                     server, identity, database, inbox, charged>>
  BY DEF Expire, reqVars, IInv
<1>1. inbox[c] = <<>> /\ outbox[c] = <<>> /\ <<>> \in Seq(Reply) /\ Len(<<>>) = 0
  BY <1>0, EmptySeq DEF IInv, RestInv
<1>2. outbox' = outbox
  BY <1>0, <1>1 DEF TypeOK
<1>3. \A d \in Connections : d # c => link'[d] = link[d]
  BY <1>0 DEF TypeOK
<1>4. \A t \in Requests : \A d \in Connections :
         (Waits(t, d)' <=> Waits(t, d)) /\ (Waits(t, d) => d # c)
  BY <1>0 DEF TypeOK, Waits
<1>5. TypeOK'
  <2>1. link' \in [Connections -> {"unused", "busy", "idle", "closed"}]
    BY <1>0 DEF TypeOK
  <2>2. \A t \in Requests : phase[t] = "waiting" => conn[t] # c /\ conn[t] \in Connections
    BY <1>0 DEF TypeOK
  <2>3. \A t \in Requests : phase'[t] = "waiting" =>
           loc'[t] \in Locations /\ conn'[t] \in Connections /\ link'[conn'[t]] = "busy"
    BY <1>0, <1>3, <2>2 DEF TypeOK
  <2> QED
    BY <1>0, <1>2, <2>1, <2>3 DEF TypeOK
<1>6. RestInv' /\ RefusalInv' /\ ChargedInv' /\ SlotInv' /\ OwnServer' /\ OwnVerdict'
  BY <1>0, <1>1, <1>2, <1>3, <1>4
     DEF IInv, RestInv, RefusalInv, ChargedInv, PreludeGoverns, SlotInv, OwnServer, OwnVerdict
<1>7. ByInv'
  <2>1. ASSUME NEW d \in Connections, NEW i \in 1..Len(inbox[d])
        PROVE  d # c /\ link'[d] = link[d]
    BY <1>1, <1>3, <2>1
  <2> QED
    BY <1>0, <2>1 DEF IInv, ByInv, Waits
<1>8. OwedInv'
  <2>1. UNCHANGED <<inbox, outbox, due>> /\ OwedInv
    BY <1>0, <1>2 DEF IInv
  <2>2. \A t \in Requests, d \in Connections : OwedAt(t, d) => OwedAt(t, d)'
    BY <2>1 DEF OwedAt
  <2> QED
    BY <1>4, <2>1, <2>2 DEF OwedInv
<1>9. SessionInv'
  BY <1>0, <1>4 DEF IInv, SessionInv, Governed, Asked
<1> QED
  BY <1>5, <1>6, <1>7, <1>8, <1>9 DEF IInv

-----------------------------------------------------------------------------
(* The specification.                                                      *)

LEMMA StutterIInv == IInv /\ UNCHANGED vars => IInv'
<1> SUFFICES ASSUME IInv, UNCHANGED vars PROVE IInv'
  OBVIOUS
<1>1. UNCHANGED <<slot, phase, loc, host, conn, due, fallback, verdict, refused, link,
                  server, identity, database, inbox, outbox, charged>>
  BY DEF vars, reqVars, connVars
<1>2. TypeOK' /\ RestInv'
  BY <1>1 DEF IInv, TypeOK, RestInv
<1>3. ByInv'
  <2>1. UNCHANGED <<inbox, loc, link, phase, conn>>
    BY <1>1
  <2>2. \A t, d : Waits(t, d)' <=> Waits(t, d)
    BY <2>1 DEF Waits
  <2>3. ByInv
    BY DEF IInv
  <2> QED
    BY <2>1, <2>2, <2>3 DEF ByInv
<1>4. OwedInv' /\ RefusalInv'
  <2>1. UNCHANGED <<inbox, outbox, due, refused, phase, conn>>
    BY <1>1
  <2>2. \A t, d : (Waits(t, d)' <=> Waits(t, d)) /\ (OwedAt(t, d)' <=> OwedAt(t, d))
    BY <2>1 DEF Waits, OwedAt
  <2>3. OwedInv /\ RefusalInv
    BY DEF IInv
  <2>4. OwedInv'
    BY <2>2, <2>3 DEF OwedInv
  <2>5. RefusalInv'
    BY <2>1, <2>2, <2>3 DEF RefusalInv
  <2> QED
    BY <2>4, <2>5
<1>5. SessionInv'
  BY <1>1 DEF IInv, SessionInv, Governed, Asked, Waits
<1>6. ChargedInv' /\ SlotInv' /\ OwnServer' /\ OwnVerdict'
  BY <1>1 DEF IInv, ChargedInv, PreludeGoverns, SlotInv, OwnServer, OwnVerdict
<1> QED
  BY <1>2, <1>3, <1>4, <1>5, <1>6 DEF IInv

LEMMA NextIInv == IInv /\ [Next]_vars => IInv'
<1> SUFFICES ASSUME IInv, [Next]_vars PROVE IInv'
  OBVIOUS
<1>1. CASE \E r \in Requests : RequestStep(r)
  <2>1. PICK r \in Requests : RequestStep(r)
    BY <1>1
  <2>2. CASE \E l \in Locations :
                \E h \in IF Target[l] = "variable" THEN Hosts ELSE {None} :
                   Unresolved(r, l, h) \/ \E c \in Connections : Begin(r, l, h, c)
    <3>1. PICK l \in Locations, h \in Hosts \cup {None} :
             Unresolved(r, l, h) \/ \E c \in Connections : Begin(r, l, h, c)
      BY <2>2
    <3> QED
      BY <3>1, UnresolvedIInv, BeginIInv
  <2>3. CASE ReadPrelude(r)
    BY <2>3, ReadPreludeIInv
  <2>4. CASE ReadRuling(r)
    BY <2>4, ReadRulingIInv
  <2>5. CASE ReadNoscript(r)
    BY <2>5, ReadNoscriptIInv
  <2>6. CASE ReadFault(r)
    <3>1. phase[r] = "waiting" /\ Fails(r)
      BY <2>6 DEF ReadFault, Has
    <3> QED
      BY <3>1, FailsIInv
  <2>7. CASE Abandon(r)
    <3>1. phase[r] = "waiting" /\ Fails(r)
      BY <2>7 DEF Abandon
    <3> QED
      BY <3>1, FailsIInv
  <2> QED
    BY <2>1, <2>2, <2>3, <2>4, <2>5, <2>6, <2>7 DEF RequestStep
<1>2. CASE \E c \in Connections : ConnectionStep(c)
  BY <1>2, AcceptIInv, DeclineIInv, RunIInv, RunFailsIInv, ExpireIInv DEF ConnectionStep
<1>3. CASE Finished \/ UNCHANGED vars
  BY <1>3, StutterIInv DEF Finished
<1> QED
  BY <1>1, <1>2, <1>3 DEF Next

LEMMA Inductive == Spec => []IInv
<1>1. Init => IInv
  BY InitIInv
<1>2. IInv /\ [Next]_vars => IInv'
  BY NextIInv
<1> QED
  BY <1>1, <1>2, PTL DEF Spec

\* No two waiting requests hold one connection (upstream.c:47-66,
\* reply.c:280-289), for any number of either.
THEOREM TypeCorrect == Spec => []TypeOK
<1>1. IInv => TypeOK
  BY DEF IInv
<1> QED
  BY <1>1, Inductive, PTL

\* Whatever was left on a connection, and whoever used it before, a request
\* is decided by the ruling of its own script's run (reply.c:264-290).
THEOREM RulingsAreOwn == Spec => []OwnVerdict
<1>1. IInv => OwnVerdict
  BY DEF IInv
<1> QED
  BY <1>1, Inductive, PTL

\* Requests of one location that resolve different upstreams while others
\* are in flight each talk to their own (handler.c:205-238).
THEOREM ServersAreOwn == Spec => []OwnServer
<1>1. IInv => OwnServer
  BY DEF IInv
<1> QED
  BY <1>1, Inductive, PTL

\* A password and a database above 0 govern every run they were accepted
\* for, the EVAL fallback's included (handler.c:385-398, upstream.c:590-629).
THEOREM PreludeAlwaysGoverns == Spec => []PreludeGoverns
<1>1. IInv => PreludeGoverns
  BY DEF IInv, ChargedInv
<1> QED
  BY <1>1, Inductive, PTL

\* A refused AUTH or SELECT is seen before the ruling of the script behind
\* it, so the request fails (handler.c:561-606).
THEOREM RefusalsAreSeen == Spec => []RefusedNeverDecides
<1>1. IInv => RefusedNeverDecides
  BY DEF IInv, RefusalInv, RefusedNeverDecides
<1> QED
  BY <1>1, Inductive, PTL

-----------------------------------------------------------------------------
(* A request is charged once.  On top of the account of the connections:   *)
(* nobody's commands are on two of them, and the script's reply tells      *)
(* whether it ran.                                                         *)

Charged(r)       == \E ch \in charged : ch.by = r
Queued(r, c)     == \E i \in 1..Len(inbox[c]) : inbox[c][i].by = r
Replied(c, kind) == \E i \in 1..Len(outbox[c]) : outbox[c][i].kind = kind

OnceInv ==
    /\ \A r \in Requests : \A c \in Connections : Charged(r) => ~Queued(r, c)
    /\ \A r \in Requests : \A c, d \in Connections :
          Queued(r, c) /\ Queued(r, d) => c = d
    /\ \A r \in Requests : \A c \in Connections : Waits(r, c) =>
          /\ Replied(c, "ruling") => Charged(r)
          /\ Replied(c, "noscript") => ~Charged(r)
    /\ \A r \in Requests : phase[r] = "decided" => Charged(r)

LEMMA OnceGivesRunsOnce == IInv /\ OnceInv => RunsOnce
<1> SUFFICES ASSUME IInv, OnceInv PROVE RunsOnce
  OBVIOUS
<1>1. ASSUME NEW ch \in charged, NEW c \in Connections, NEW i \in 1..Len(inbox[c]),
             inbox[c][i].by = ch.by
      PROVE  FALSE
  <2>1. ch.by \in Requests
    BY DEF IInv, ChargedInv
  <2>2. Charged(ch.by)
    BY DEF Charged
  <2>3. Queued(ch.by, c)
    BY <1>1 DEF Queued
  <2> QED
    BY <2>1, <2>2, <2>3 DEF OnceInv
<1>2. \A r \in Requests : phase[r] = "decided" => \E ch \in charged : ch.by = r
  BY DEF OnceInv, Charged
<1> QED
  BY <1>1, <1>2 DEF RunsOnce

\* A step that runs nothing and queues nothing.
LEMMA QuietOnce ==
  ASSUME OnceInv,
         \A r \in Requests : Charged(r)' <=> Charged(r),
         \A r \in Requests : \A c \in Connections : Queued(r, c)' => Queued(r, c),
         \A r \in Requests : \A c \in Connections : Waits(r, c)' =>
            /\ Waits(r, c)
            /\ Replied(c, "ruling")' => Replied(c, "ruling")
            /\ Replied(c, "noscript")' => Replied(c, "noscript") \/ ~Charged(r),
         \A r \in Requests :
            phase'[r] = "decided" => phase[r] = "decided" \/ Charged(r)
  PROVE  OnceInv'
<1>1. \A r \in Requests : \A c \in Connections : Charged(r)' => ~Queued(r, c)'
  BY DEF OnceInv
<1>2. \A r \in Requests : \A c, d \in Connections :
         Queued(r, c)' /\ Queued(r, d)' => c = d
  BY DEF OnceInv
<1>3. ASSUME NEW r \in Requests, NEW c \in Connections, Waits(r, c)'
      PROVE  /\ Replied(c, "ruling")' => Charged(r)'
             /\ Replied(c, "noscript")' => ~Charged(r)'
  BY <1>3 DEF OnceInv
<1>4. \A r \in Requests : phase'[r] = "decided" => Charged(r)'
  BY DEF OnceInv
<1> QED
  BY <1>1, <1>2, <1>3, <1>4 DEF OnceInv

LEMMA InitOnce == Init => OnceInv
<1> SUFFICES ASSUME Init PROVE OnceInv
  OBVIOUS
<1>1. \A r \in Requests : ~Charged(r) /\ phase[r] # "decided"
  BY DEF Init, Charged
<1>2. \A r \in Requests, c \in Connections : ~Queued(r, c) /\ ~Waits(r, c)
  BY EmptySeq DEF Init, Queued, Waits
<1> QED
  BY <1>1, <1>2 DEF OnceInv

\* A request that has not begun has nothing anywhere.
LEMMA NewOnce ==
  ASSUME IInv, NEW r \in Requests, phase[r] = "new"
  PROVE  ~Charged(r) /\ \A c \in Connections : ~Queued(r, c) /\ ~Waits(r, c)
<1>1. ~Charged(r)
  BY NewFacts DEF Charged
<1>2. \A c \in Connections : ~Queued(r, c)
  BY NewFacts DEF Queued
<1> QED
  BY <1>1, <1>2 DEF Waits

LEMMA UnresolvedOnce ==
  ASSUME IInv, OnceInv, NEW r \in Requests, NEW l, NEW h, Unresolved(r, l, h)
  PROVE  OnceInv'
<1>1. /\ phase' = [phase EXCEPT ![r] = "failed"] /\ phase[r] = "new"
      /\ conn' = conn /\ charged' = charged /\ inbox' = inbox /\ outbox' = outbox
  BY DEF Unresolved, connVars
<1>2. phase \in [Requests -> {"new", "waiting", "decided", "failed"}]
  BY DEF IInv, TypeOK
<1>3. phase'[r] = "failed" /\ \A t \in Requests : t # r => phase'[t] = phase[t]
  BY <1>1, <1>2
<1>4. \A t \in Requests : Charged(t)' <=> Charged(t)
  BY <1>1 DEF Charged
<1>5. \A t \in Requests, c \in Connections : Queued(t, c)' => Queued(t, c)
  BY <1>1 DEF Queued
<1>6. \A c \in Connections, k \in {"ruling", "noscript"} :
         Replied(c, k)' => Replied(c, k)
  BY <1>1 DEF Replied
<1>7. \A t \in Requests, c \in Connections : Waits(t, c)' => Waits(t, c)
  BY <1>1, <1>3 DEF Waits
<1> QED
  BY <1>3, <1>4, <1>5, <1>6, <1>7, QuietOnce

LEMMA BeginOnce ==
  ASSUME IInv, OnceInv, NEW r \in Requests, NEW l, NEW h, NEW c \in Connections,
         Begin(r, l, h, c)
  PROVE  OnceInv'
<1> DEFINE s == Prelude(r, l, c) \o <<Cmd("EVALSHA", r)>>
<1>1. /\ phase[r] = "new" /\ link[c] \in {"unused", "idle"}
      /\ inbox' = [inbox EXCEPT ![c] = s]
      /\ phase' = [phase EXCEPT ![r] = "waiting"] /\ conn' = [conn EXCEPT ![r] = c]
      /\ outbox' = outbox /\ charged' = charged
  BY DEF Begin
<1>2. \A i \in 1..Len(s) : s[i].by = r
  BY PreludeFacts
<1> HIDE DEF s
<1>3. /\ inbox \in [Connections -> Seq(Command)]
      /\ phase \in [Requests -> {"new", "waiting", "decided", "failed"}]
      /\ conn \in [Requests -> Connections \cup {None}]
  BY DEF IInv, TypeOK
<1>4. /\ inbox'[c] = s /\ phase'[r] = "waiting" /\ conn'[r] = c
      /\ \A d \in Connections : d # c => inbox'[d] = inbox[d]
      /\ \A t \in Requests : t # r => phase'[t] = phase[t] /\ conn'[t] = conn[t]
  BY <1>1, <1>3
<1>5. ~Charged(r) /\ \A d \in Connections : ~Queued(r, d) /\ ~Waits(r, d)
  BY <1>1, NewOnce
<1>6. \A t \in Requests : Charged(t)' <=> Charged(t)
  BY <1>1 DEF Charged
<1>7. \A t \in Requests : \A d \in Connections :
         Queued(t, d)' => Queued(t, d) \/ (t = r /\ d = c)
  <2>1. SUFFICES ASSUME NEW t \in Requests, NEW d \in Connections,
                        NEW i \in 1..Len(inbox'[d]), inbox'[d][i].by = t
                 PROVE  Queued(t, d) \/ (t = r /\ d = c)
    BY DEF Queued
  <2>2. CASE d = c
    BY <1>2, <1>4, <2>1, <2>2
  <2>3. CASE d # c
    BY <1>4, <2>1, <2>3 DEF Queued
  <2> QED
    BY <2>2, <2>3
<1>8. \A d \in Connections, k \in {"ruling", "noscript"} :
         Replied(d, k)' <=> Replied(d, k)
  BY <1>1 DEF Replied
<1>9. \A k \in {"ruling", "noscript"} : ~Replied(c, k)
  <2>1. outbox[c] = <<>>
    BY <1>1 DEF IInv, RestInv
  <2> QED
    BY <2>1, EmptySeq DEF Replied
<1>10. \A t \in Requests : \A d \in Connections :
          Waits(t, d)' => Waits(t, d) \/ (t = r /\ d = c)
  BY <1>4 DEF Waits
<1>11. \A t \in Requests : \A d \in Connections : Charged(t)' => ~Queued(t, d)'
  BY <1>5, <1>6, <1>7 DEF OnceInv
<1>12. \A t \in Requests : \A d, e \in Connections :
          Queued(t, d)' /\ Queued(t, e)' => d = e
  BY <1>5, <1>7 DEF OnceInv
<1>13. ASSUME NEW t \in Requests, NEW d \in Connections, Waits(t, d)'
       PROVE  /\ Replied(d, "ruling")' => Charged(t)'
              /\ Replied(d, "noscript")' => ~Charged(t)'
  BY <1>6, <1>8, <1>9, <1>10, <1>13 DEF OnceInv
<1>14. \A t \in Requests : phase'[t] = "decided" => Charged(t)'
  BY <1>4, <1>6 DEF OnceInv
<1> QED
  BY <1>11, <1>12, <1>13, <1>14 DEF OnceInv

\* The replies of a connection from which the first was read.
LEMMA ConsumeReplied ==
  ASSUME IInv, NEW r \in Requests, NEW kind, Has(r, kind), Consume(r)
  PROVE  /\ \A d \in Connections : \A k : Replied(d, k)' => Replied(d, k)
         /\ Replied(conn[r], kind)
         /\ phase[r] = "waiting" /\ conn[r] \in Connections /\ Waits(r, conn[r])
<1> DEFINE c == conn[r]
<1>1. /\ phase[r] = "waiting" /\ Len(outbox[c]) >= 1 /\ outbox[c][1].kind = kind
      /\ Len(outbox'[c]) = Len(outbox[c]) - 1
      /\ \A i \in 1..(Len(outbox[c]) - 1) : outbox'[c][i] = outbox[c][i + 1]
      /\ \A d \in Connections : d # c => outbox'[d] = outbox[d]
  BY HeadFacts
<1>2. c \in Connections /\ Waits(r, c) /\ Len(outbox[c]) \in Nat
  BY <1>1, WaitingFacts
<1> HIDE DEF c
<1>3. Replied(c, kind)
  <2>1. 1 \in 1..Len(outbox[c])
    BY <1>1, <1>2
  <2> QED
    BY <1>1, <2>1 DEF Replied
<1>4. ASSUME NEW d \in Connections, NEW k, Replied(d, k)' PROVE Replied(d, k)
  <2>1. PICK i \in 1..Len(outbox'[d]) : outbox'[d][i].kind = k
    BY <1>4 DEF Replied
  <2>2. CASE d = c
    <3>1. i \in 1..(Len(outbox[c]) - 1) /\ i + 1 \in 1..Len(outbox[c])
      BY <1>1, <1>2, <2>1, <2>2
    <3>2. outbox[c][i + 1].kind = k
      BY <1>1, <2>1, <2>2, <3>1
    <3> QED
      BY <2>2, <3>1, <3>2 DEF Replied
  <2>3. CASE d # c
    BY <1>1, <2>1, <2>3 DEF Replied
  <2> QED
    BY <2>2, <2>3
<1> QED
  BY <1>1, <1>2, <1>3, <1>4 DEF c

LEMMA FailsOnce ==
  ASSUME IInv, OnceInv, NEW r \in Requests, phase[r] = "waiting", Fails(r)
  PROVE  OnceInv'
<1> DEFINE c == conn[r]
<1>1. /\ phase' = [phase EXCEPT ![r] = "failed"] /\ conn' = [conn EXCEPT ![r] = None]
      /\ outbox' = [outbox EXCEPT ![c] = <<>>] /\ charged' = charged
      /\ inbox' \in {inbox, [inbox EXCEPT ![c] = <<>>]}
  BY DEF Fails, Close
<1>2. c \in Connections /\ \A t \in Requests : Waits(t, c) => t = r
  BY WaitingFacts
<1> HIDE DEF c
<1>3. /\ inbox \in [Connections -> Seq(Command)]
      /\ outbox \in [Connections -> Seq(Reply)]
      /\ phase \in [Requests -> {"new", "waiting", "decided", "failed"}]
      /\ conn \in [Requests -> Connections \cup {None}]
  BY DEF IInv, TypeOK
<1>4. /\ phase'[r] = "failed"
      /\ \A t \in Requests : t # r => phase'[t] = phase[t] /\ conn'[t] = conn[t]
      /\ \A d \in Connections : inbox'[d] = inbox[d] \/ inbox'[d] = <<>>
      /\ \A d \in Connections : outbox'[d] = outbox[d] \/ outbox'[d] = <<>>
  BY <1>1, <1>2, <1>3
<1>5. \A t \in Requests : Charged(t)' <=> Charged(t)
  BY <1>1 DEF Charged
<1>6. \A t \in Requests, d \in Connections : Queued(t, d)' => Queued(t, d)
  BY <1>4, EmptySeq DEF Queued
<1>7. \A d \in Connections, k \in {"ruling", "noscript"} :
         Replied(d, k)' => Replied(d, k)
  BY <1>4, EmptySeq DEF Replied
<1>8. \A t \in Requests, d \in Connections : Waits(t, d)' => Waits(t, d)
  BY <1>4 DEF Waits
<1> QED
  BY <1>4, <1>5, <1>6, <1>7, <1>8, QuietOnce

LEMMA ReadPreludeOnce ==
  ASSUME IInv, OnceInv, NEW r \in Requests, ReadPrelude(r) PROVE OnceInv'
<1>1. /\ Has(r, "ok") /\ Consume(r)
      /\ phase' = phase /\ conn' = conn /\ inbox' = inbox /\ charged' = charged
  BY DEF ReadPrelude
<1>2. \A d \in Connections : \A k : Replied(d, k)' => Replied(d, k)
  BY <1>1, ConsumeReplied
<1>3. \A t \in Requests : Charged(t)' <=> Charged(t)
  BY <1>1 DEF Charged
<1>4. \A t \in Requests, d \in Connections : Queued(t, d)' => Queued(t, d)
  BY <1>1 DEF Queued
<1>5. \A t \in Requests, d \in Connections : Waits(t, d)' => Waits(t, d)
  BY <1>1 DEF Waits
<1> QED
  BY <1>1, <1>2, <1>3, <1>4, <1>5, QuietOnce

\* A ruling is the reply of a run.
LEMMA ReadRulingOnce ==
  ASSUME IInv, OnceInv, NEW r \in Requests, ReadRuling(r) PROVE OnceInv'
<1>1. /\ Has(r, "ruling") /\ Consume(r) /\ charged' = charged /\ inbox' = inbox
      /\ phase' = [phase EXCEPT ![r] = "decided"] /\ conn' = [conn EXCEPT ![r] = None]
  BY DEF ReadRuling, Keep
<1>2. /\ \A d \in Connections : \A k : Replied(d, k)' => Replied(d, k)
      /\ Replied(conn[r], "ruling")
      /\ conn[r] \in Connections /\ Waits(r, conn[r])
  BY <1>1, ConsumeReplied
<1>3. Charged(r)
  BY <1>2 DEF OnceInv
<1>4. /\ phase \in [Requests -> {"new", "waiting", "decided", "failed"}]
      /\ conn \in [Requests -> Connections \cup {None}]
  BY DEF IInv, TypeOK
<1>5. /\ phase'[r] = "decided"
      /\ \A t \in Requests : t # r => phase'[t] = phase[t] /\ conn'[t] = conn[t]
  BY <1>1, <1>4
<1>6. \A t \in Requests : Charged(t)' <=> Charged(t)
  BY <1>1 DEF Charged
<1>7. \A t \in Requests, d \in Connections : Queued(t, d)' => Queued(t, d)
  BY <1>1 DEF Queued
<1>8. \A t \in Requests, d \in Connections : Waits(t, d)' => Waits(t, d)
  BY <1>5 DEF Waits
<1> QED
  BY <1>2, <1>3, <1>5, <1>6, <1>7, <1>8, QuietOnce

\* NOSCRIPT says that nothing ran, so the EVAL is the first run.
LEMMA ReadNoscriptOnce ==
  ASSUME IInv, OnceInv, NEW r \in Requests, ReadNoscript(r) PROVE OnceInv'
<1> DEFINE c == conn[r]
           e == Cmd("EVAL", r)
<1>1. /\ Has(r, "noscript") /\ Consume(r) /\ due[r] = 0
      /\ inbox' = [inbox EXCEPT ![c] = Append(@, e)]
      /\ phase' = phase /\ conn' = conn /\ charged' = charged
  BY DEF ReadNoscript
<1>2. /\ \A d \in Connections : \A k : Replied(d, k)' => Replied(d, k)
      /\ Replied(c, "noscript") /\ phase[r] = "waiting"
      /\ c \in Connections /\ Waits(r, c)
  BY <1>1, ConsumeReplied
<1>3. ~Charged(r)
  BY <1>2 DEF OnceInv
<1>4. /\ inbox[c] \in Seq(Command) /\ Len(inbox[c]) \in Nat
      /\ \A d \in Connections : d # c =>
            \A i \in 1..Len(inbox[d]) : inbox[d][i].by # r
  BY <1>2, WaitingFacts
<1>5. e \in Command /\ e.by = r
  BY DEF Cmd, Command
<1> HIDE DEF c, e
<1>6. /\ Len(Append(inbox[c], e)) = Len(inbox[c]) + 1
      /\ Append(inbox[c], e)[Len(inbox[c]) + 1] = e
      /\ \A i \in 1..Len(inbox[c]) : Append(inbox[c], e)[i] = inbox[c][i]
  BY <1>4, <1>5, AppendFacts
<1>7. inbox'[c] = Append(inbox[c], e) /\ \A d \in Connections : d # c => inbox'[d] = inbox[d]
  <2>1. inbox \in [Connections -> Seq(Command)]
    BY DEF IInv, TypeOK
  <2> QED
    BY <1>1, <1>2, <2>1
<1>8. \A d \in Connections : d # c => ~Queued(r, d)
  BY <1>4 DEF Queued
<1>9. \A t \in Requests : \A d \in Connections :
         Queued(t, d)' => Queued(t, d) \/ (t = r /\ d = c)
  <2>1. SUFFICES ASSUME NEW t \in Requests, NEW d \in Connections,
                        NEW i \in 1..Len(inbox'[d]), inbox'[d][i].by = t
                 PROVE  Queued(t, d) \/ (t = r /\ d = c)
    BY DEF Queued
  <2>2. CASE d = c
    <3>1. i \in 1..Len(inbox[c]) \/ i = Len(inbox[c]) + 1
      BY <1>4, <1>6, <1>7, <2>1, <2>2
    <3>2. CASE i \in 1..Len(inbox[c])
      BY <1>6, <1>7, <2>1, <2>2, <3>2 DEF Queued
    <3>3. CASE i = Len(inbox[c]) + 1
      BY <1>5, <1>6, <1>7, <2>1, <2>2, <3>3
    <3> QED
      BY <3>1, <3>2, <3>3
  <2>3. CASE d # c
    BY <1>7, <2>1, <2>3 DEF Queued
  <2> QED
    BY <2>2, <2>3
<1>10. \A t \in Requests : Charged(t)' <=> Charged(t)
  BY <1>1 DEF Charged
<1>11. \A t \in Requests, d \in Connections : Waits(t, d)' => Waits(t, d)
  BY <1>1 DEF Waits
<1>12. \A t \in Requests : \A d \in Connections : Charged(t)' => ~Queued(t, d)'
  BY <1>3, <1>9, <1>10 DEF OnceInv
<1>13. \A t \in Requests : \A d, f \in Connections :
          Queued(t, d)' /\ Queued(t, f)' => d = f
  BY <1>8, <1>9 DEF OnceInv
<1>14. ASSUME NEW t \in Requests, NEW d \in Connections, Waits(t, d)'
       PROVE  /\ Replied(d, "ruling")' => Charged(t)'
              /\ Replied(d, "noscript")' => ~Charged(t)'
  BY <1>2, <1>10, <1>11, <1>14 DEF OnceInv
<1>15. \A t \in Requests : phase'[t] = "decided" => Charged(t)'
  BY <1>1, <1>10 DEF OnceInv
<1> QED
  BY <1>12, <1>13, <1>14, <1>15 DEF OnceInv

\* What serving a command does to what is queued and what is replied.
LEMMA ServeOnce ==
  ASSUME IInv, NEW c \in Connections, inbox[c] # <<>>,
         NEW kind \in {"ok", "error", "noscript", "ruling"}, Serve(c, kind)
  PROVE  /\ By(c) \in Requests /\ Queued(By(c), c)
         /\ \A t \in Requests : Waits(t, c) => t = By(c)
         /\ \A t \in Requests, d \in Connections : Waits(t, d)' <=> Waits(t, d)
         /\ \A t \in Requests, d \in Connections : Queued(t, d)' => Queued(t, d)
         /\ \A d \in Connections : \A k :
               Replied(d, k)' => Replied(d, k) \/ (d = c /\ k = kind)
         /\ phase' = phase
         /\ Len(inbox[c]) \in Nat \ {0} /\ Len(inbox'[c]) = Len(inbox[c]) - 1
         /\ Head(inbox[c]).cmd \in Scripts <=> Len(inbox[c]) = 1
<1>1. phase' = phase /\ conn' = conn
  BY DEF Serve, reqVars
<1>2. Served(c, kind)
  BY ServeFacts
<1>3. /\ By(c) \in Requests
      /\ Len(inbox[c]) \in Nat \ {0} /\ Len(inbox'[c]) = Len(inbox[c]) - 1
      /\ \A i \in 1..(Len(inbox[c]) - 1) : inbox'[c][i] = inbox[c][i + 1]
      /\ \A i \in 1..Len(inbox[c]) : inbox[c][i].by = By(c)
      /\ Head(inbox[c]).cmd \in Scripts <=> Len(inbox[c]) = 1
      /\ \A t \in Requests : Waits(t, c) => t = By(c)
      /\ \A d \in Connections : d # c => inbox'[d] = inbox[d] /\ outbox'[d] = outbox[d]
  BY <1>2 DEF Served
<1>4. \/ outbox' = outbox
      \/ /\ Len(outbox[c]) \in Nat /\ Len(outbox'[c]) = Len(outbox[c]) + 1
         /\ outbox'[c][Len(outbox[c]) + 1].kind = kind
         /\ \A i \in 1..Len(outbox[c]) : outbox'[c][i] = outbox[c][i]
  BY <1>2 DEF Served
<1>5. Queued(By(c), c)
  <2>1. 1 \in 1..Len(inbox[c])
    BY <1>3
  <2> QED
    BY <1>3, <2>1 DEF Queued
<1>6. ASSUME NEW t \in Requests, NEW d \in Connections, Queued(t, d)'
      PROVE  Queued(t, d)
  <2>1. PICK i \in 1..Len(inbox'[d]) : inbox'[d][i].by = t
    BY <1>6 DEF Queued
  <2>2. CASE d = c
    <3>1. i \in 1..(Len(inbox[c]) - 1) /\ i + 1 \in 1..Len(inbox[c])
      BY <1>3, <2>1, <2>2
    <3>2. inbox[c][i + 1].by = t
      BY <1>3, <2>1, <2>2, <3>1
    <3> QED
      BY <2>2, <3>1, <3>2 DEF Queued
  <2>3. CASE d # c
    BY <1>3, <2>1, <2>3 DEF Queued
  <2> QED
    BY <2>2, <2>3
<1>7. ASSUME NEW d \in Connections, NEW k, Replied(d, k)'
      PROVE  Replied(d, k) \/ (d = c /\ k = kind)
  <2>1. PICK i \in 1..Len(outbox'[d]) : outbox'[d][i].kind = k
    BY <1>7 DEF Replied
  <2>2. CASE d # c \/ outbox' = outbox
    BY <1>3, <2>1, <2>2 DEF Replied
  <2>3. CASE d = c /\ outbox' # outbox
    <3>1. i \in 1..Len(outbox[c]) \/ i = Len(outbox[c]) + 1
      BY <1>4, <2>1, <2>3
    <3> QED
      BY <1>4, <2>1, <2>3, <3>1 DEF Replied
  <2> QED
    BY <2>2, <2>3
<1>8. \A t \in Requests, d \in Connections : Waits(t, d)' <=> Waits(t, d)
  BY <1>1 DEF Waits
<1> QED
  BY <1>1, <1>3, <1>5, <1>6, <1>7, <1>8

\* A command that is served without running the script.
LEMMA ServedOnce ==
  ASSUME IInv, OnceInv, NEW c \in Connections, inbox[c] # <<>>,
         NEW kind \in {"ok", "error", "noscript"}, Serve(c, kind),
         charged' = charged
  PROVE  OnceInv'
<1>1. /\ By(c) \in Requests /\ Queued(By(c), c)
      /\ \A t \in Requests : Waits(t, c) => t = By(c)
      /\ \A t \in Requests, d \in Connections : Waits(t, d)' <=> Waits(t, d)
      /\ \A t \in Requests, d \in Connections : Queued(t, d)' => Queued(t, d)
      /\ \A d \in Connections : \A k :
            Replied(d, k)' => Replied(d, k) \/ (d = c /\ k = kind)
      /\ phase' = phase
  BY ServeOnce
<1>2. ~Charged(By(c))
  BY <1>1 DEF OnceInv
<1>3. \A t \in Requests : Charged(t)' <=> Charged(t)
  BY DEF Charged
<1>4. ASSUME NEW t \in Requests, NEW d \in Connections, Waits(t, d)'
      PROVE  /\ Waits(t, d)
             /\ Replied(d, "ruling")' => Replied(d, "ruling")
             /\ Replied(d, "noscript")' => Replied(d, "noscript") \/ ~Charged(t)
  <2>1. Waits(t, d)
    BY <1>1, <1>4
  <2>2. Replied(d, "ruling")' => Replied(d, "ruling")
    BY <1>1
  <2>3. d = c => ~Charged(t)
    BY <1>1, <1>2, <2>1
  <2> QED
    BY <1>1, <2>1, <2>2, <2>3
<1>5. \A t \in Requests : phase'[t] = "decided" => phase[t] = "decided"
  BY <1>1
<1> QED
  BY <1>1, <1>3, <1>4, <1>5, QuietOnce

\* A run: the command was its request's last, on its only connection, and no
\* earlier reply can be one to a script.
LEMMA RunOnce ==
  ASSUME IInv, OnceInv, NEW c \in Connections, Run(c) PROVE OnceInv'
<1>1. /\ inbox[c] # <<>> /\ Head(inbox[c]).cmd \in Scripts /\ Serve(c, "ruling")
  BY DEF Run, Due, Scripts
<1>2. PICK b \in Requests : By(c) = b
  BY <1>1, ServeOnce
<1>3. /\ b \in Requests /\ Queued(b, c)
      /\ \A t \in Requests : Waits(t, c) => t = b
      /\ \A t \in Requests, d \in Connections : Waits(t, d)' <=> Waits(t, d)
      /\ \A t \in Requests, d \in Connections : Queued(t, d)' => Queued(t, d)
      /\ \A d \in Connections : \A k :
            Replied(d, k)' => Replied(d, k) \/ (d = c /\ k = "ruling")
      /\ phase' = phase
      /\ Len(inbox[c]) = 1 /\ Len(inbox'[c]) = 0
  <2>1. /\ By(c) \in Requests /\ Queued(By(c), c)
        /\ \A t \in Requests : Waits(t, c) => t = By(c)
        /\ \A t \in Requests, d \in Connections : Waits(t, d)' <=> Waits(t, d)
        /\ \A t \in Requests, d \in Connections : Queued(t, d)' => Queued(t, d)
        /\ \A d \in Connections : \A k :
              Replied(d, k)' => Replied(d, k) \/ (d = c /\ k = "ruling")
        /\ phase' = phase
        /\ Len(inbox[c]) \in Nat \ {0} /\ Len(inbox'[c]) = Len(inbox[c]) - 1
        /\ Head(inbox[c]).cmd \in Scripts <=> Len(inbox[c]) = 1
    BY <1>1, ServeOnce
  <2>2. Len(inbox[c]) = 1 /\ Len(inbox'[c]) = 0
    BY <1>1, <2>1
  <2> QED
    BY <1>2, <2>1, <2>2
<1>4. \A t \in Requests : Charged(t)' <=> Charged(t) \/ t = b
  <2>1. PICK new : new.by = b /\ charged' = charged \cup {new}
    BY <1>2 DEF Run
  <2> QED
    BY <2>1 DEF Charged
<1>5. \A d \in Connections : ~Queued(b, d)'
  <2>1. ~Queued(b, c)'
    BY <1>3 DEF Queued
  <2>2. \A d \in Connections : Queued(b, d) => d = c
    BY <1>3 DEF OnceInv
  <2> QED
    BY <1>3, <2>1, <2>2
<1>6. Waits(b, c) => ~Replied(c, "noscript")
  <2> SUFFICES ASSUME Waits(b, c), NEW i \in 1..Len(outbox[c]),
                      outbox[c][i].kind = "noscript"
               PROVE  FALSE
    BY DEF Replied
  <2>1. /\ Len(outbox[c]) + Len(inbox[c]) = due[b] + 1
        /\ i <= due[b] => outbox[c][i].kind \in {"ok", "error"}
    BY <1>3 DEF IInv, OwedInv, OwedAt
  <2>2. outbox[c] \in Seq(Reply) /\ due[b] \in 0..2
    BY <1>3 DEF IInv, TypeOK
  <2>3. Len(outbox[c]) \in Nat
    BY <2>2, LenProperties
  <2>4. i <= due[b]
    BY <1>3, <2>1, <2>2, <2>3
  <2> QED
    BY <2>1, <2>4
<1>7. \A t \in Requests : \A d \in Connections : Charged(t)' => ~Queued(t, d)'
  BY <1>3, <1>4, <1>5 DEF OnceInv
<1>8. \A t \in Requests : \A d, f \in Connections :
         Queued(t, d)' /\ Queued(t, f)' => d = f
  BY <1>3 DEF OnceInv
<1>9. ASSUME NEW t \in Requests, NEW d \in Connections, Waits(t, d)'
      PROVE  /\ Replied(d, "ruling")' => Charged(t)'
             /\ Replied(d, "noscript")' => ~Charged(t)'
  <2>1. Waits(t, d)
    BY <1>3, <1>9
  <2>2. CASE d = c
    <3>1. t = b
      BY <1>3, <2>1, <2>2
    <3>2. ~Replied(c, "noscript")'
      BY <1>3, <1>6, <2>1, <2>2, <3>1
    <3> QED
      BY <1>4, <2>2, <3>1, <3>2
  <2>3. CASE d # c
    <3>1. t # b
      <4>1. Waits(b, c) \/ phase[b] = "failed"
        BY <1>3 DEF IInv, ByInv, Queued
      <4> QED
        BY <2>1, <2>3, <4>1 DEF Waits
    <3>2. /\ Replied(d, "ruling")' => Replied(d, "ruling")
          /\ Replied(d, "noscript")' => Replied(d, "noscript")
      BY <1>3, <2>3
    <3> QED
      BY <1>4, <2>1, <3>1, <3>2 DEF OnceInv
  <2> QED
    BY <2>2, <2>3
<1>10. \A t \in Requests : phase'[t] = "decided" => Charged(t)'
  BY <1>3, <1>4 DEF OnceInv
<1> QED
  BY <1>7, <1>8, <1>9, <1>10 DEF OnceInv

LEMMA AcceptOnce ==
  ASSUME IInv, OnceInv, NEW c \in Connections, Accept(c) PROVE OnceInv'
<1>1. inbox[c] # <<>> /\ Serve(c, "ok") /\ charged' = charged
  BY DEF Accept, Due
<1> QED
  BY <1>1, ServedOnce

LEMMA DeclineOnce ==
  ASSUME IInv, OnceInv, NEW c \in Connections, Decline(c) PROVE OnceInv'
<1>1. inbox[c] # <<>> /\ Serve(c, "error") /\ charged' = charged
  BY DEF Decline, Due
<1> QED
  BY <1>1, ServedOnce

LEMMA RunFailsOnce ==
  ASSUME IInv, OnceInv, NEW c \in Connections, RunFails(c) PROVE OnceInv'
<1>1. /\ inbox[c] # <<>> /\ charged' = charged
      /\ Serve(c, "noscript") \/ Serve(c, "error")
  BY DEF RunFails, Due
<1> QED
  BY <1>1, ServedOnce

LEMMA ExpireOnce ==
  ASSUME IInv, OnceInv, NEW c \in Connections, Expire(c) PROVE OnceInv'
<1>1. /\ outbox' = [outbox EXCEPT ![c] = <<>>]
      /\ phase' = phase /\ conn' = conn /\ inbox' = inbox /\ charged' = charged
  BY DEF Expire, reqVars
<1>2. outbox \in [Connections -> Seq(Reply)]
  BY DEF IInv, TypeOK
<1>3. \A d \in Connections : outbox'[d] = outbox[d] \/ outbox'[d] = <<>>
  BY <1>1, <1>2
<1>4. \A t \in Requests : Charged(t)' <=> Charged(t)
  BY <1>1 DEF Charged
<1>5. \A t \in Requests, d \in Connections : Queued(t, d)' => Queued(t, d)
  BY <1>1 DEF Queued
<1>6. \A d \in Connections, k \in {"ruling", "noscript"} :
         Replied(d, k)' => Replied(d, k)
  BY <1>3, EmptySeq DEF Replied
<1>7. \A t \in Requests, d \in Connections : Waits(t, d)' => Waits(t, d)
  BY <1>1 DEF Waits
<1> QED
  BY <1>1, <1>4, <1>5, <1>6, <1>7, QuietOnce

LEMMA StutterOnce == OnceInv /\ UNCHANGED vars => OnceInv'
<1> SUFFICES ASSUME OnceInv, UNCHANGED vars PROVE OnceInv'
  OBVIOUS
<1>1. /\ phase' = phase /\ conn' = conn /\ inbox' = inbox /\ outbox' = outbox
      /\ charged' = charged
  BY DEF vars, reqVars, connVars
<1>2. \A t \in Requests : Charged(t)' <=> Charged(t)
  BY <1>1 DEF Charged
<1>3. \A t \in Requests, d \in Connections : Queued(t, d)' => Queued(t, d)
  BY <1>1 DEF Queued
<1>4. \A d \in Connections, k \in {"ruling", "noscript"} :
         Replied(d, k)' => Replied(d, k)
  BY <1>1 DEF Replied
<1>5. \A t \in Requests, d \in Connections : Waits(t, d)' => Waits(t, d)
  BY <1>1 DEF Waits
<1> QED
  BY <1>1, <1>2, <1>3, <1>4, <1>5, QuietOnce

LEMMA NextOnce == IInv /\ OnceInv /\ [Next]_vars => OnceInv'
<1> SUFFICES ASSUME IInv, OnceInv, [Next]_vars PROVE OnceInv'
  OBVIOUS
<1>1. CASE \E r \in Requests : RequestStep(r)
  <2>1. PICK r \in Requests : RequestStep(r)
    BY <1>1
  <2>2. CASE \E l \in Locations :
                \E h \in IF Target[l] = "variable" THEN Hosts ELSE {None} :
                   Unresolved(r, l, h) \/ \E c \in Connections : Begin(r, l, h, c)
    <3>1. PICK l, h : Unresolved(r, l, h) \/ \E c \in Connections : Begin(r, l, h, c)
      BY <2>2
    <3> QED
      BY <3>1, UnresolvedOnce, BeginOnce
  <2>3. CASE ReadPrelude(r)
    BY <2>3, ReadPreludeOnce
  <2>4. CASE ReadRuling(r)
    BY <2>4, ReadRulingOnce
  <2>5. CASE ReadNoscript(r)
    BY <2>5, ReadNoscriptOnce
  <2>6. CASE ReadFault(r)
    <3>1. phase[r] = "waiting" /\ Fails(r)
      BY <2>6 DEF ReadFault, Has
    <3> QED
      BY <3>1, FailsOnce
  <2>7. CASE Abandon(r)
    <3>1. phase[r] = "waiting" /\ Fails(r)
      BY <2>7 DEF Abandon
    <3> QED
      BY <3>1, FailsOnce
  <2> QED
    BY <2>1, <2>2, <2>3, <2>4, <2>5, <2>6, <2>7 DEF RequestStep
<1>2. CASE \E c \in Connections : ConnectionStep(c)
  BY <1>2, AcceptOnce, DeclineOnce, RunOnce, RunFailsOnce, ExpireOnce DEF ConnectionStep
<1>3. CASE Finished \/ UNCHANGED vars
  BY <1>3, StutterOnce DEF Finished
<1> QED
  BY <1>1, <1>2, <1>3 DEF Next

\* However its connection ends - a timeout, a stale reused connection, a
\* faulty reply, the EVAL fallback - a request's script runs at most once, and
\* it is decided only if it ran (upstream.c:440-454, 590-629, reply.c:264-290).
THEOREM NobodyIsChargedTwice == Spec => []RunsOnce
<1>1. Init => OnceInv
  BY InitOnce
<1>2. IInv /\ OnceInv /\ [Next]_vars => OnceInv'
  BY NextOnce
<1>3. IInv /\ OnceInv => RunsOnce
  BY OnceGivesRunsOnce
<1> QED
  BY <1>1, <1>2, <1>3, Inductive, PTL DEF Spec
=============================================================================
