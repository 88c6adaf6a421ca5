SPECIFICATION Spec
CONSTANTS
  NoSession = NoSession
  None = None
  Blank = Blank
  p1 = p1
  p2 = p2
  c1 = c1
  c2 = c2
  ProductOf <- MCProductOf
  InitialStock <- MCStock
  Session = {s1}
  Register = {r1}
  WithWarehouse = {}
  Product = {p1}
  Marked = {p1}
  Code = {c1}
  Unit = 1
  SaleRequest <- OneCode
  ReturnRequest <- CodeReturns
  MaxShift = 1
  MaxReceipt = 3
INVARIANTS LockedCodesSell
