CONSTANTS
  h1 = h1
  h2 = h2
  h3 = h3
  NoHeader = NoHeader
  None = None
  Hashes <- MCHashes
  Batches <- MCBatches
  MaxImports = 4
  MaxClears = 2

SPECIFICATION Spec

\* The import thread may wait forever on an empty queue once the bounded
\* callers stop calling; that is the idle queue, not a deadlock of the code.
CHECK_DEADLOCK FALSE

INVARIANT TypeOK
PROPERTIES
  StopHonoured
  ImportingEventuallyResolved
  AbstractSpec
