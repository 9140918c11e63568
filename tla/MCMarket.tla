------------------------------ MODULE MCMarket ------------------------------
EXTENDS Market, TLC

CONSTANTS d1, d2, d3, o1, o2, s1, s2

OneShipper == [o \in Orders |-> s1]

TwoShippers == [o \in Orders |-> IF o = o1 THEN s1 ELSE s2]

DriverSymmetry == Permutations(Drivers)
=============================================================================
