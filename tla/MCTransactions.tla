--------------------------- MODULE MCTransactions ---------------------------
EXTENDS Transactions, TLC

CONSTANTS t1, t2, t3, c1, c2

=============================================================================
