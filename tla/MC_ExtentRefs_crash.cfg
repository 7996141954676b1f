\* Images whose fs tree root block carries a wrong header owner.
CONSTANTS
  Leaf = 4
  Sector = 4
  ReadaGap = 32
  BatchMax = 1024
  Images <- MCImagesRootOwner
SPECIFICATION Spec
INVARIANT NoCrash
CHECK_DEADLOCK FALSE
