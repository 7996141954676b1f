CONSTANTS
  Images <- MCImagesLastRun
  CsumSize = 2
  Sector = 1
  AddrMax <- MCAddrMax
SPECIFICATION Spec
INVARIANT CsumVerdict
CHECK_DEADLOCK FALSE
