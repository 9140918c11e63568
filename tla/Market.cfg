\* Two orders of one shipper, two drivers, one call after the other.
SPECIFICATION FairSpec
CONSTANTS
  d1 = d1
  d2 = d2
  d3 = d3
  o1 = o1
  o2 = o2
  s1 = s1
  s2 = s2
  None = None
  Drivers = {d1, d2}
  Shippers = {s1, s2}
  ShipperOf <- OneShipper
  MaxRows = 2
  Interleaved = {}
  Orders = {o1, o2}
\* Orders and requests are bounded, so an instance ends.
CHECK_DEADLOCK FALSE
INVARIANTS
  OneDriver
  JobIsOne
  JobLeadsOrder
PROPERTIES
  AbandonedOrderReturns
