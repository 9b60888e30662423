----------------------------- MODULE MCPyImport -----------------------------
EXTENDS PyImport

\* How many statements are refused, connections lost, reads failed and processes
\* killed in all runs together.
Stormy == [refuse |-> 1, lose |-> 1, read |-> 1, crash |-> 1]
=============================================================================
