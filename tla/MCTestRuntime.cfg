CONSTANTS
  Accounts <- MCAccounts
  Signatures <- MCSignatures
  Amounts <- MCAmounts
  Nonces <- MCNonces
  None = None
SPECIFICATION Spec
\* The program stops once the extrinsic is decoded.
CHECK_DEADLOCK FALSE
INVARIANTS
  ExtrinsicRoundTrip
