\* Every block of MC_LeafCheck under every parent key.
CONSTANTS
  LeafDataSize = 6
  BufLen = 8
  ItemSize = 1
  NodePtrsPerBlock = 3
  Keys <- MCKeys
  Blocks <- MCBlocks
  Parents <- MCParents
SPECIFICATION Spec
INVARIANT TypeOK
INVARIANT AcceptsWellFormed
\* check_block is called once per block read and returns.
CHECK_DEADLOCK FALSE
