\* The admin, the shipper and the status reconciliation step in while drivers accept and cancel.
SPECIFICATION Spec
CONSTANTS
  d1 = d1
  d2 = d2
  d3 = d3
  s1 = s1
  s2 = s2
  None = None
  Drivers = {d1, d2}
  MaxEntries = 2
  MaxOrders = 1
  MaxNumber = 2
  RefusalLimit = 2
  Shippers = {s1, s2}
  ShipperOf <- SameShipper
  BatchOf <- OwnBatches
  Operations = {"checkin", "manualCheckin", "place", "remove", "dispatch", "adminCancel", "shipperReject", "driverCancel", "shipperCancel", "accept", "reconcile", "restart"}
  Reservations = {None}
  Concurrent = TRUE
  MaxInFlight = 2
SYMMETRY DriverSymmetry
\* Entries, orders and numbers are bounded, so an instance ends.
CHECK_DEADLOCK FALSE
INVARIANTS
  OneGuardedRequest
PROPERTIES
  CorrectionNeverReopens
