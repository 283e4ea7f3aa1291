-------------------------- MODULE MCNodeCredentials --------------------------
EXTENDS NodeCredentials, TLC
CONSTANTS n1, n2, i1, i2, t1, t2, t3, t4
Interchangeable == Permutations(Nodes) \cup Permutations(Tokens) \cup Permutations(Invites)
=============================================================================
