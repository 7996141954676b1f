\* RestoreCopy: NoOverRead
CONSTANTS
  NumCopies = 2
  StripeLen = 2
  ChunkEnd = 4
  LoopMax = 2
  Files <- MCFilesPlain
SPECIFICATION Spec
INVARIANT NoOverRead
\* copy_file returns.
CHECK_DEADLOCK FALSE
