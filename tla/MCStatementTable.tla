-------------------------- MODULE MCStatementTable --------------------------
(***************************************************************************)
(* A round with two groups and three validators.  Group 1 has two         *)
(* competing candidates (10 and 11) and members v1 and v2; group 2 has one *)
(* candidate (20) and member v3.  v3 guarantees availability for group 1  *)
(* and v1 for group 2, so every validator can also send a statement it is *)
(* not authorized for.  Digests are injective, as a content hash is.      *)
(***************************************************************************)
EXTENDS StatementTable

CONSTANTS v1, v2, v3

MCValidators == {v1, v2, v3}
MCGroups == {1, 2}
MCCandidates == {10, 11, 20}
MCCandidateDigest == [c \in MCCandidates |-> c + 100]
MCCandidateGroup == (10 :> 1) @@ (11 :> 1) @@ (20 :> 2)
MCMemberOf == (v1 :> {1}) @@ (v2 :> {1}) @@ (v3 :> {2})
MCGuarantorOf == (v1 :> {2}) @@ (v2 :> {}) @@ (v3 :> {1})
MCRequisiteVotes == (1 :> <<2, 1>>) @@ (2 :> <<1, 1>>)
MCSigNonces == {1}

=============================================================================
