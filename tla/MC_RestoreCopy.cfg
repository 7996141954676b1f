\* copy_file over two-mirror disks: reads, retries, decompression, the loop guard.
CONSTANTS
  NumCopies = 2
  StripeLen = 2
  ChunkEnd = 4
  LoopMax = 2
  Files <- MCFiles
SPECIFICATION Spec
INVARIANT TypeOK
INVARIANT ReadFailsOnlyWhenUnreadable
PROPERTY Termination
\* copy_file returns.
CHECK_DEADLOCK FALSE
