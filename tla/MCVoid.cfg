SPECIFICATION Spec
CONSTANTS
  p1 = p1 p2 = p2 c1 = c1 c2 = c2 i1 = i1 i2 = i2 i3 = i3 r1 = r1 r2 = r2
  Products = {p1}
  Clients = {c1}
  InvoiceIds = {i1}
  ReceiptIds = {}
  MaxQuantity = 4
  MaxPieces = 2
  MaxTotal = 6
  MaxPrice = 6
  TenantInputs = {TRUE}
  ProductInputs <- StockThree
  ClientInputs <- PlainClient
  DocumentTypes = {"sale", "purchase"}
  LineInputs <- OneLine
  ReturnInputs = {1}
  PaymentInputs = {1}
  ReceiptInputs = {}
  Absent = Absent
  NoClient = NoClient
  MaxVersion = 4
INVARIANT VoidUndoesInvoice
CHECK_DEADLOCK FALSE
