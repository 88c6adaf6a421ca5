SPECIFICATION Spec
CONSTANTS
  Service = {"sessions", "market", "tax", "egais", "stock"}
  None = None
  Client = {c1, c2}
  User = {u1}
  LockAfter = 2
  LockTime = 1
  RefreshTTL = 0
  MaxSessions = 2
  MaxTokens = 3
  MaxTime = 1
  MaxGuesses = 3
  a = a
  b = b
  f1 = f1
  f2 = f2
  Session = {s1, s2}
  Order = {a, b}
  Offer = {f1, f2}
  OfferOf <- MCOfferOf
  KnownSku = {f2}
  Limit = 2
  MaxCrashes = 1
  Closer = {k1, k2}
  ReceiptKind <- MCReceipts
  PurchaseKind <- MCPurchases
  Period <- MCPeriods
  DeclType = {"NDS"}
  MaxRows = 2
  Sender = {d1, d2}
  MaxDocs = 2
  MaxSaves = 2
  Seller = {r1, r2}
  Pusher = {h1}
  w1 = w1
  w2 = w2
  p1 = p1
  Warehouse = {w1, w2}
  Product = {p1}
  Offers <- MCOffers
  Threshold = 2
  Quantity = {2}
  MaxStock = 3
INVARIANTS GuessesBounded TokensAgree ImportAccounted BookIsOneLiveBook StatusTellsTruth
PROPERTIES LogoutIsFinal LowIsAlerted ShownWasFree
SYMMETRY MCSymmetry
CHECK_DEADLOCK FALSE
