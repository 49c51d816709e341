---------------------- MODULE MCStatementTableResign ------------------------
(***************************************************************************)
(* Signature malleability: every signer can produce two distinct valid    *)
(* signatures on the same statement.  One group with two competing        *)
(* candidates; v1 and v2 are members, v2 also guarantees availability, so *)
(* v1's Available statements are unauthorized.                            *)
(***************************************************************************)
EXTENDS StatementTable

CONSTANTS v1, v2

ResignValidators == {v1, v2}
ResignGroups == {1}
ResignCandidates == {10, 11}
ResignCandidateDigest == [c \in ResignCandidates |-> c + 100]
ResignCandidateGroup == [c \in ResignCandidates |-> 1]
ResignMemberOf == (v1 :> {1}) @@ (v2 :> {1})
ResignGuarantorOf == (v1 :> {}) @@ (v2 :> {1})
ResignRequisiteVotes == (1 :> <<2, 1>>)
ResignSigNonces == {1, 2}

=============================================================================
