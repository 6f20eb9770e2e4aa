SPECIFICATION Spec
CONSTANTS
  p1 = p1 p2 = p2 c1 = c1 c2 = c2 i1 = i1 i2 = i2 i3 = i3 r1 = r1 r2 = r2
  Products = {p1}
  Clients = {c1}
  InvoiceIds = {i1, i2}
  ReceiptIds = {}
  MaxQuantity = 4
  MaxPieces = 2
  MaxTotal = 6
  MaxPrice = 6
  TenantInputs = {TRUE}
  ProductInputs <- StockChanges
  ClientInputs <- PlainClient
  DocumentTypes = {"sale", "purchase"}
  LineInputs <- TwoLines
  ReturnInputs = {1}
  PaymentInputs = {}
  ReceiptInputs = {}
  Absent = Absent
  NoClient = NoClient
  MaxVersion = 4
SYMMETRY InvoiceSymmetry
INVARIANTS
  TypeOK
  StockIsItsHistory
  StockMatchesInvoices
  NumbersAreGapless
PROPERTIES
  NumbersAreForever
CHECK_DEADLOCK FALSE
