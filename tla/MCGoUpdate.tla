----------------------------- MODULE MCGoUpdate -----------------------------
EXTENDS GoUpdate

\* How many statements are refused, connections lost, reads failed and processes
\* killed in all runs together.
Stormy  == [refuse |-> 1, lose |-> 1, read |-> 1, crash |-> 1]
OneLost == [refuse |-> 0, lose |-> 1, read |-> 0, crash |-> 0]
=============================================================================
