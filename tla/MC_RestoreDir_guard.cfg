\* RestoreDir: the loop guard at three iterations, below the four entries of the root directory.
CONSTANTS
  Cases <- MCCasesAll
  FsTree = 5
  FirstFree = 256
  LoopMax = 3
  StackMax = 6
  SuperMax = 3
SPECIFICATION Spec
PROPERTY RestoreRefinement
CHECK_DEADLOCK FALSE
