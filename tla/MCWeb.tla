------------------------------- MODULE MCWeb -------------------------------
EXTENDS GoWeb, TLC

CONSTANTS h1, h2, h3, h4

\* "65" is the code point of "A".
TwoNames  == {"A", "65"}
RuneOfTwo == [n \in TwoNames |-> IF n = "65" THEN "A" ELSE "nul"]

Ann == [username |-> "A",  phone |-> "111"]
Bob == [username |-> "65", phone |-> "222"]

\* Bodies with a time of deletion and no number, or with a primary key and a number
\* that is no string.
Gone   == [username |-> "65", deletedAt |-> "time"]
Numbed == [id |-> 1, phone |-> "wrong"]

JustAnn   == {Ann}
TwoBodies == {Ann, Bob}
AnyBodies == {Ann, Gone, Numbed}

Calm    == [fault |-> 0, crash |-> 0]
Stormy  == [fault |-> 1, crash |-> 1]

Interchangeable == Permutations(Handlers)
=============================================================================
