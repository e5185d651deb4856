CONSTANTS
  BlobLengths = {2, 3, 5}
  BufferSizes = {3, 4}
  AddressPrefixes = {0, 18}
  NoData = NoData

SPECIFICATION Spec

INVARIANTS
  TypeOK
  NoOverflow
  VerdictCorrect
