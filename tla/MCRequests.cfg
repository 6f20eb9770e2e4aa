SPECIFICATION RequestsSpec
CONSTANTS
  p1 = p1 c1 = c1 i1 = i1 a1 = a1 a2 = a2
  Products = {p1}
  Clients = {c1}
  InvoiceIds = {i1}
  ReceiptIds = {}
  Apps = {a1, a2}
  MaxQuantity = 2
  MaxPieces = 1
  MaxTotal = 2
  MaxPrice = 2
  TenantInputs = {TRUE}
  ProductInputs <- StockThenCorrection
  ClientInputs <- PlainClient
  DocumentTypes = {"sale"}
  LineInputs <- TwoLines
  ReturnInputs = {1}
  PaymentInputs = {}
  ReceiptInputs = {}
  Absent = Absent
  NoClient = NoClient
  MaxVersion = 3
INVARIANTS
  AtMostOnce
PROPERTIES
  RefinesBackend
  NothingUnseenIsOverwritten
SYMMETRY AppSymmetry
CHECK_DEADLOCK FALSE
