SPECIFICATION Spec
CONSTANTS
  k1 = k1 k2 = k2 k3 = k3 r1 = r1 r2 = r2
  Keys = {k1, k2}
  PdfKey = PdfKey
  NoKey = NoKey
  Requests = {r1, r2}
  MaxFiles = 2
  MaxEdition = 2
CONSTRAINTS
  OthersStay
  OneInDoubt
SYMMETRY Symmetry
INVARIANTS
  AcknowledgedFilesStay
  ObjectsAreKnown
  LogoIsStored
  LinkedPdfIsCurrent
  StoredPdfIsRecorded
CHECK_DEADLOCK FALSE
