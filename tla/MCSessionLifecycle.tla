------------------------- MODULE MCSessionLifecycle -------------------------
EXTENDS SessionImplementsLedger, TLC
CONSTANTS d1, d2, n1, n2, r1, r2
OwnAccount == [d \in Devices |-> d]
OneAccount == [d \in Devices |-> d1]
Interchangeable == Permutations({d1, d2}) \cup Permutations(Callers)
=============================================================================
