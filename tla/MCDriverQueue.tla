--------------------------- MODULE MCDriverQueue ---------------------------
EXTENDS QueueDispatch, TLC

CONSTANTS d1, d2, d3, s1, s2

SameShipper == [o \in Orders |-> s1]
TwoShippers == [o \in Orders |-> IF o = 1 THEN s1 ELSE s2]
SameBatch == [o \in Orders |-> 1]
OwnBatches == [o \in Orders |-> o]

DriverSymmetry == Permutations(Drivers)
=============================================================================
