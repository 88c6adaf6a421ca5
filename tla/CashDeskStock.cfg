SPECIFICATION FairSpec
CONSTANTS
  NoSession = NoSession
  None = None
  Blank = Blank
  p1 = p1
  p2 = p2
  c1 = c1
  c2 = c2
  ProductOf <- MCProductOf
  InitialStock <- MCStock
  Session = {s1, s2}
  Register = {r1}
  WithWarehouse = {r1}
  Product = {p1, p2}
  Marked = {p1}
  Code = {c1, c2}
  Unit = 1
  SaleRequest <- MixedSales
  ReturnRequest <- MixedReturns
  MaxShift = 1
  MaxReceipt = 3
INVARIANTS StockConservation
PROPERTIES RequestsFinish
