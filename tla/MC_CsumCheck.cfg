CONSTANTS
  Images <- MCImagesCsums
  CsumSize = 2
  Sector = 1
  AddrMax <- MCAddrMax
SPECIFICATION Spec
INVARIANT TypeOK CsumVerdict ExtentExistsExact
CHECK_DEADLOCK FALSE
