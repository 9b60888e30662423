------------------------------ MODULE MCNgloy ------------------------------
EXTENDS NgloyController

\* How many calls fail, children vanish and manager crashes a run allows.
Calm   == [fault |-> 0, vanish |-> 0, crash |-> 0]
Stormy == [fault |-> 1, vanish |-> 1, crash |-> 1]

\* API servers that refuse a Service update without its clusterIP, that fill it
\* in, and either.
Refusing == {FALSE}
Filling  == {TRUE}
Either   == {TRUE, FALSE}
=============================================================================
