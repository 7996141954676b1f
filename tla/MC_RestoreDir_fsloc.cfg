\* RestoreDir: -f with an unreadable fs_location block.
CONSTANTS
  Cases <- MCCasesFsloc
  FsTree = 5
  FirstFree = 256
  LoopMax = 4
  StackMax = 6
  SuperMax = 3
SPECIFICATION Spec
PROPERTY RestoreRefinement
CHECK_DEADLOCK FALSE
