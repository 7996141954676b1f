\* RestoreCopy: DecompressRetriesMirrors
CONSTANTS
  NumCopies = 2
  StripeLen = 2
  ChunkEnd = 4
  LoopMax = 2
  Files <- MCFilesZlib
SPECIFICATION Spec
INVARIANT DecompressRetriesMirrors
\* copy_file returns.
CHECK_DEADLOCK FALSE
