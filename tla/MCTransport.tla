---------------------------- MODULE MCTransport ----------------------------
(* Three nodes, each started with either setting, dialling one another.  *)
EXTENDS Transport

CONSTANTS n1, n2, n3

MCNodes == {n1, n2, n3}
=============================================================================
