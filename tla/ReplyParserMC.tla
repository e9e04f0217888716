--------------------------- MODULE ReplyParserMC ---------------------------
(* Instances of ReplyParser for TLC.                                       *)
EXTENDS ReplyParser

Number(n) == [kind |-> "int", int |-> n]
Other  == [kind |-> "other"]

Ints(s) == [i \in 1..Len(s) |-> Number(s[i])]

\* An allowed and a limited reply, and one of the largest counters.
Bases == {<<0, 16, 5, -1, 2>>, <<1, 3, 0, 10, 25>>, <<1, 27, 27, 27, 27>>}

\* Numbers around the cap of 27, negatives, and ones that begin like others.
Odd == {0, 1, 10, 20, 27, 28, 30, 270, -1, -2, -11, -12}

\* A base with one of its elements replaced, or cut, or made longer, and an
\* array whose length begins like a base's.
MCReplies ==
    {Ints(b) : b \in Bases}
    \cup {[Ints(b) EXCEPT ![i] = Number(n)] : b \in Bases, i \in 1..5, n \in Odd}
    \cup {[Ints(b) EXCEPT ![i] = Other] : b \in Bases, i \in 1..5}
    \cup {SubSeq(Ints(b), 1, n) : b \in Bases, n \in 0..4}
    \cup {Append(Ints(b), Number(0)) : b \in Bases}
    \cup {[i \in 1..50 |-> Number(0)]}
=============================================================================
