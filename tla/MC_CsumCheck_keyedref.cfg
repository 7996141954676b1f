CONSTANTS
  Images <- MCImagesKeyedRefs
  CsumSize = 2
  Sector = 1
  AddrMax <- MCAddrMax
SPECIFICATION Spec
INVARIANT ExtentExistsExact
CHECK_DEADLOCK FALSE
