------------------------------- MODULE MCProm -------------------------------
EXTENDS PromReconciler

\* How many calls fail, children vanish and manager crashes a run allows.
Calm  == [fault |-> 0, vanish |-> 0, crash |-> 0]
Windy == [fault |-> 1, vanish |-> 0, crash |-> 1]

\* API servers of either kind: see FillsClusterIP.
Refusing == {FALSE}
Either   == {TRUE, FALSE}
=============================================================================
