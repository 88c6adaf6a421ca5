SPECIFICATION Spec
CONSTANTS
  NoSession = NoSession
  None = None
  c1 = c1
  z1 = z1
  z2 = z2
  ZonesOf <- MCZonesOf
  Session = {s1, s2}
  Order = {o1}
  Courier = {c1, c2}
  Zone = {z1, z2}
  MaxAssignments = 2
PROPERTIES TerminalStays
CHECK_DEADLOCK FALSE
