\* RestoreCopy: Termination
CONSTANTS
  NumCopies = 3
  StripeLen = 2
  ChunkEnd = 4
  LoopMax = 2
  Files <- MCFilesZlib
SPECIFICATION Spec
PROPERTY Termination
\* copy_file returns.
CHECK_DEADLOCK FALSE
