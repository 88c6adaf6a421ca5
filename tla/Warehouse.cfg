SPECIFICATION FairSpec
CONSTANTS
  NoSession = NoSession
  None = None
  p1 = p1
  p2 = p2
  InitialStock <- MCStock
  Session = {s1, s2}
  Product = {p1, p2}
  Order = {o1, o2}
  Doc = {d1}
  OrderRequest <- Mixed
  DocRequest <- OneOfEach
  SaleRequest <- OneOfEach
  MaxQty = 2
  MaxSold = 1
INVARIANTS ShipmentsAgree ReserveAccounted StockCoversReserves StockAccounted
PROPERTIES StatusMovesOn RequestsFinish
