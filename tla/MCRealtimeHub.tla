--------------------------- MODULE MCRealtimeHub ---------------------------
EXTENDS RealtimeHub

CONSTANTS i1, i2, c1, c2

\* A client on each instance.
MCHubOf == [c \in Clients |-> IF c = c1 THEN i1 ELSE i2]
=============================================================================
