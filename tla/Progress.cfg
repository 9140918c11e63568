\* Something happens in the end, though the process dies between two statements.
SPECIFICATION FairSpec
CONSTANTS
  d1 = d1
  d2 = d2
  d3 = d3
  s1 = s1
  s2 = s2
  None = None
  Drivers = {d1, d2}
  MaxEntries = 2
  MaxOrders = 2
  MaxNumber = 4
  RefusalLimit = 2
  Shippers = {s1, s2}
  ShipperOf <- SameShipper
  BatchOf <- OwnBatches
  Operations = {"checkin", "place", "rescan", "driverCancel", "checkout", "expiry", "restart"}
  Reservations = {None}
  Concurrent = FALSE
  MaxInFlight = 1
\* Entries, orders and numbers are bounded, so an instance ends.
CHECK_DEADLOCK FALSE
PROPERTIES
  OfferEnds
  PendingMeetsDriver
  RetainedMovesOn
