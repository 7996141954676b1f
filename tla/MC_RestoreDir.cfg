\* search_dir over every image and command line but the cyclic layout with -s.
CONSTANTS
  Cases <- MCCases
  FsTree = 5
  FirstFree = 256
  LoopMax = 4
  StackMax = 6
  SuperMax = 3
SPECIFICATION Spec
INVARIANT TypeOK
PROPERTY RestoreRefinement
INVARIANT NoRecursionCycle
CHECK_DEADLOCK FALSE
