SPECIFICATION StockedSpec
CONSTANTS
  p1 = p1 p2 = p2 c1 = c1 i1 = i1 i2 = i2 t1 = t1 t2 = t2
  Products = {p1, p2}
  Clients = {c1}
  InvoiceIds = {i1, i2}
  ReceiptIds = {}
  Txs = {t1, t2}
  Nobody = Nobody
  MaxQuantity = 2
  MaxPieces = 1
  MaxTotal = 2
  MaxPrice = 1
  TenantInputs = {TRUE}
  ProductInputs = {}
  ClientInputs = {}
  DocumentTypes = {"sale"}
  LineInputs = {}
  ReturnInputs = {}
  PaymentInputs = {}
  ReceiptInputs = {}
  Absent = Absent
  NoClient = NoClient
  MaxVersion = 4
INVARIANTS
  NoWaitCycle
PROPERTIES
  EveryRequestEnds
CHECK_DEADLOCK FALSE
