\* One journey; two requests at a time, of which one settles or amends.
SPECIFICATION Spec
CHECK_DEADLOCK FALSE
CONSTANTS
  Receivers = {"shipper", "consignee"}
  Changes <- PartsAndWhole
  Alone = {"update", "direct"}
  MaxRows = 2
  MaxCalls = 4
  MaxOpen = 2
INVARIANTS
  HashCovers
PROPERTIES
  HashTrail
