\* Searches and leaf walks over single leaves and level-1 and level-2 trees whose leaves may not read.
CONSTANTS
  Trees <- MCTrees
  Keys <- MCKeys
SPECIFICATION Spec
INVARIANT TypeOK
INVARIANT WalkReadsInOrder
PROPERTY WalkAdvances
\* The walk stops when the caller's loop returns.
CHECK_DEADLOCK FALSE
