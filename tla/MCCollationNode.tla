-------------------------- MODULE MCCollationNode --------------------------
EXTENDS CollationNode
=============================================================================
