\* Every image: each layout, flag choice, extent-leaf split and damage.
CONSTANTS
  Leaf = 4
  Sector = 4
  ReadaGap = 32
  BatchMax = 1024
  Images <- MCImagesAll
SPECIFICATION Spec
INVARIANT TypeOK
INVARIANT ExtentVerdict
PROPERTY LoopProgress
\* check_extents returns: the run stops in "done" (or "abort").
CHECK_DEADLOCK FALSE
