\* One driver, two evaluations at once, one ban.
SPECIFICATION Spec
CHECK_DEADLOCK FALSE
CONSTANTS
  Users = {u1}
  Bans = {b1}
  Kinds = {"own"}
  Tasks = {t1, t2}
  None = None
  AdminChoices = {1}
  MaxReviews = 2
  MaxPolls = 1
  MaxChanges = 1
  MaxOrders = 2
SYMMETRY Interchangeable
INVARIANTS
  SettledIsCurrent
PROPERTIES
  BanSurvivesRestore
