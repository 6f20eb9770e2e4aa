SPECIFICATION TransactionsSpec
CONSTANTS
  p1 = p1 p2 = p2 c1 = c1 i1 = i1 i2 = i2 t1 = t1 t2 = t2
  Products = {p1}
  Clients = {c1}
  InvoiceIds = {i1, i2}
  ReceiptIds = {}
  Txs = {t1, t2}
  Nobody = Nobody
  MaxQuantity = 2
  MaxPieces = 1
  MaxTotal = 2
  MaxPrice = 1
  TenantInputs = {TRUE, FALSE}
  ProductInputs <- StockOne
  ClientInputs <- PlainClient
  DocumentTypes = {"sale"}
  LineInputs <- OneLine
  ReturnInputs = {}
  PaymentInputs = {}
  ReceiptInputs = {}
  Absent = Absent
  NoClient = NoClient
  MaxVersion = 3
PROPERTIES
  RefinesBackend
SYMMETRY Symmetry
CHECK_DEADLOCK FALSE
