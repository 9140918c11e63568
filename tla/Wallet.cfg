SPECIFICATION Spec
CONSTANTS
  None = None
  u1 = u1
  u2 = u2
  j1 = j1
  j2 = j2
  Users = {u1, u2}
  Calls = {c1, c2}
  Deposits = {d1}
  Payments = {p1}
  Refunds = {r1}
  Transfers = {t1}
  Commissions = {m1, m2}
  Subscriptions = {s1, s2}
  Journeys = {j1, j2}
  DriverOf <- OneEach
  Amounts = {1}
  NewAmounts = {2}
  Outcomes = {"approved", "COMPLETED", "FAILED"}
  MaxDocs = 2
  MaxCalls = 3
INVARIANTS
  RunningTotal
  WrittenOnce
  TransferIsWhole
  ApprovedIsCredited
  ChargedOnce
SYMMETRY Interchangeable
CHECK_DEADLOCK FALSE
