SPECIFICATION Spec
CHECK_DEADLOCK FALSE
CONSTANTS
  Companies = {k1}
  Users = {u1}
  Cases = {c1, c2}
  Bans = {b1, b2}
  Clerks = {a1}
  None = None
  Types = {30}
  Leniency = {0, 15}
  Terms = {10}
  Instants = {0, 192, 744}
  MaxRulings = 2
  MaxResponses = 1
  MaxRequests = 5
SYMMETRY Interchangeable
INVARIANTS
  BanIsEarned
  OneLiveBan
PROPERTIES
  EvidenceStays
