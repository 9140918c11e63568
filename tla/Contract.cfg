SPECIFICATION Spec
CONSTANTS
  c1 = c1
  d1 = d1
  d2 = d2
  s1 = s1
  s2 = s2
  o1 = o1
  None = None
  Companies = {c1}
  Drivers = {d1, d2}
  Slots = {s1}
  Street = {o1}
  Modes = {"target", "individual"}
  EmployerOf <- OneFleet
  MaxRows = 2
  MaxAssignments = 2
SYMMETRY Interchangeable
CONSTRAINT Regular
CHECK_DEADLOCK FALSE
INVARIANTS
  AssignmentNeverCollides
  AssignedIsLive
  NoPhantomJob
