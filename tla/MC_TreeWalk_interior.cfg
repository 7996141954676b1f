\* Level-2 trees with an interior node that cannot be read: next_leaf dereferences NULL.
CONSTANTS
  Trees <- MCTreesInterior
  Keys <- MCKeys
SPECIFICATION Spec
INVARIANT WalkReadsInOrder
\* The walk stops when the caller's loop returns.
CHECK_DEADLOCK FALSE
