----------------------------- MODULE MCFailover -----------------------------
EXTENDS Failover

\* How many calls fail, children vanish and leaders are lost.
OneTakeOver == [fault |-> 0, vanish |-> 0, crash |-> 1]

\* API servers of either kind: see FillsClusterIP.
Either == {TRUE, FALSE}
=============================================================================
