CONSTANTS
  n1 = n1
  n2 = n2
  n3 = n3
  Nodes <- MCNodes

SPECIFICATION Spec

\* Once every pair of nodes is connected there is nothing left to dial.
CHECK_DEADLOCK FALSE

INVARIANT DeniedNeverPlaintext
