\* Drivers check in, again and out while the timer's pass is between finding a driver and offering; two shippers and reservations.
SPECIFICATION Spec
CONSTANTS
  d1 = d1
  d2 = d2
  d3 = d3
  s1 = s1
  s2 = s2
  None = None
  Drivers = {d1, d2}
  MaxEntries = 3
  MaxOrders = 2
  MaxNumber = 4
  RefusalLimit = 2
  Shippers = {s1, s2}
  ShipperOf <- TwoShippers
  BatchOf <- OwnBatches
  Operations = {"checkin", "place", "rescan", "driverCancel", "checkout"}
  Reservations = {None, s1}
  Concurrent = TRUE
  MaxInFlight = 2
SYMMETRY DriverSymmetry
\* Entries, orders and numbers are bounded, so an instance ends.
CHECK_DEADLOCK FALSE
INVARIANTS
  OneHolder
