SPECIFICATION Spec
CONSTANTS
  NoSession = NoSession
  None = None
  Blank = Blank
  p1 = p1
  p2 = p2
  c1 = c1
  c2 = c2
  ProductOf <- MCProductOf
  InitialStock <- MCStock
  Session = {s1, s2, s3}
  Register = {r1}
  WithWarehouse = {}
  Product = {p1}
  Marked = {p1}
  Code = {c1, c2}
  Unit = 1
  SaleRequest <- CodeSales
  ReturnRequest <- CodeReturns
  MaxShift = 2
  MaxReceipt = 3
SYMMETRY MCSymmetry
INVARIANTS TypeOK CodeLedger ReturnedOnce QueueTellsStatus NumbersDense OneOpenShift ReportIsPrefix
PROPERTIES WrittenOffForever ReceiptsAppended ClosedForever
