SPECIFICATION Spec
CONSTANTS
  a1 = a1 a2 = a2 p1 = p1 p2 = p2 q1 = q1 q2 = q2 d1 = d1 d2 = d2 d3 = d3
  Addresses = {a1, a2}
  Limit = 3
  Window = 3
  ContactIds = {1, 2, 3}
  Creates = {q1, q2}
  MinSort <- Least
  MaxSort = 3
  Processes = {p1, p2}
  Script <- Files
  Releases = {0, 3}
  Taken = 3
  NoProcess = NoProcess
  MaxStops = 2
  PdfRequests = {d1, d2, d3}
  MaxPrice = 9
  MaxQuantity = 9
  MaxTotal = 7
  Word = 8
INVARIANTS
  TwoBucketsAtMost
  BucketsCountTheirOwn
  NewContactsGoLast
  ListensOnFullSchema
  OneChromium
  TotalsAreExact
PROPERTIES
  LockoutsEnd
  FailuresHaveCauses
  ServersComeUp
  PdfRequestsEnd
CHECK_DEADLOCK FALSE
