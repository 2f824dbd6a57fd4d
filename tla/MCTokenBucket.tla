--------------------------- MODULE MCTokenBucket ---------------------------
EXTENDS TokenBucket, TLC
TwoLimitsAndOff == {[rate |-> 1, burst |-> 1], [rate |-> 2, burst |-> 2],
                    [rate |-> 0, burst |-> 0]}
GlobalOrRoute == {Global, [rate |-> 1, burst |-> 2]}
Symmetry == Permutations(Threads)
=============================================================================
