\* One call after the other, through all the stages of a journey, answers in time, two shippers and reservations, while a supervisor renumbers the line.
SPECIFICATION Spec
CONSTANTS
  d1 = d1
  d2 = d2
  d3 = d3
  s1 = s1
  s2 = s2
  None = None
  Drivers = {d1, d2}
  MaxEntries = 2
  MaxOrders = 2
  MaxNumber = 2
  RefusalLimit = 2
  Shippers = {s1, s2}
  ShipperOf <- TwoShippers
  BatchOf <- OwnBatches
  Operations = {"checkin", "place", "override", "accept", "loading", "start", "complete", "driverCancel", "rescan", "checkout"}
  Reservations = {None, s1}
  Concurrent = FALSE
  MaxInFlight = 1
SYMMETRY DriverSymmetry
\* Entries, orders and numbers are bounded, so an instance ends.
CHECK_DEADLOCK FALSE
INVARIANTS
  RequestHasHolder
  AcceptedIsStamped
  JobMirrorsJourney
  ReservationIsKept
PROPERTIES
  AcceptedIsNotReoffered
