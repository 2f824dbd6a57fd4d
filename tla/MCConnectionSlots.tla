------------------------- MODULE MCConnectionSlots -------------------------
EXTENDS ConnectionSlots, TLC
Symmetry == Permutations(Counters) \cup Permutations(HttpRequests)
=============================================================================
