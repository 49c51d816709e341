--------------------------- MODULE MCTestRuntime ---------------------------
EXTENDS TestRuntime

\* Two accounts: all zero bytes, and one whose bytes all differ.
MCAccounts == { [i \in 1..32 |-> 0], [i \in 1..32 |-> i] }

\* Two signatures: all zero bytes, and one whose bytes all differ.
MCSignatures == { [i \in 1..64 |-> 0], [i \in 1..64 |-> 255 - i] }

\* u64 values at the byte boundaries, up to the largest TLC integer.
MCAmounts == {0, 1, 255, 256, 65535, 65536, 2147483647}
MCNonces == {0, 255, 256}
=============================================================================
