---------------------- MODULE MCStatementTableCollide -----------------------
(***************************************************************************)
(* The Context of table.rs's own tests: a candidate is (group, body) and  *)
(* its digest is the body alone (TestContext::candidate_digest), so two   *)
(* candidates of different groups with the same body share a digest.     *)
(* Candidate 10 is (group 1, body 0) and 20 is (group 2, body 0); v1 is a *)
(* member of group 1 and v2 of group 2.                                    *)
(***************************************************************************)
EXTENDS StatementTable

CONSTANTS v1, v2

CollideValidators == {v1, v2}
CollideGroups == {1, 2}
CollideCandidates == {10, 20}
CollideCandidateDigest == [c \in CollideCandidates |-> 100]
CollideCandidateGroup == (10 :> 1) @@ (20 :> 2)
CollideMemberOf == (v1 :> {1}) @@ (v2 :> {2})
CollideGuarantorOf == (v1 :> {2}) @@ (v2 :> {1})
CollideRequisiteVotes == (1 :> <<1, 1>>) @@ (2 :> <<1, 1>>)
CollideSigNonces == {1}

=============================================================================
