CONSTANTS
  Paras = {2, 3, 5}
  MaxDepth = 3

SPECIFICATION Spec

\* The collation future resolves (done or failed) and nothing follows it.
CHECK_DEADLOCK FALSE

INVARIANTS
  TypeOK
  IngressMatchesReference
  SourceOrderKept
