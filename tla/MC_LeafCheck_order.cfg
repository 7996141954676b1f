\* Is every block that btrfs_check_leaf or btrfs_check_node accepts well formed?
CONSTANTS
  LeafDataSize = 6
  BufLen = 8
  ItemSize = 1
  NodePtrsPerBlock = 3
  Keys <- MCKeys
  Blocks <- MCBlocks
  Parents <- MCParents
SPECIFICATION Spec
INVARIANT AcceptedKeysOrdered
\* check_block is called once per block read and returns.
CHECK_DEADLOCK FALSE
