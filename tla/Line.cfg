\* One call after the other, every call of the driver, the shipper and the timer; drivers refuse, do not answer and come back.
SPECIFICATION Spec
CONSTANTS
  d1 = d1
  d2 = d2
  d3 = d3
  s1 = s1
  s2 = s2
  None = None
  Drivers = {d1, d2}
  MaxEntries = 3
  MaxOrders = 2
  MaxNumber = 3
  RefusalLimit = 2
  Shippers = {s1, s2}
  ShipperOf <- SameShipper
  BatchOf <- SameBatch
  Operations = {"checkin", "place", "accept", "start", "complete", "driverCancel", "expiry", "rescan", "checkout", "shipperCancel"}
  Reservations = {None}
  Concurrent = FALSE
  MaxInFlight = 1
SYMMETRY DriverSymmetry
\* Entries, orders and numbers are bounded, so an instance ends.
CHECK_DEADLOCK FALSE
INVARIANTS
  TypeOK
  AskedCanAnswer
  OneHolder
  OneLineEntry
  ShownOrderIsHeld
PROPERTIES
  ClosedOrderStaysClosed
  ImplementsDispatch
