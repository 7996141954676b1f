\* RestoreDir: the cyclic layout restored with -s.
CONSTANTS
  Cases <- MCCasesCycle
  FsTree = 5
  FirstFree = 256
  LoopMax = 4
  StackMax = 6
  SuperMax = 3
SPECIFICATION Spec
INVARIANT NoRecursionCycle
CHECK_DEADLOCK FALSE
