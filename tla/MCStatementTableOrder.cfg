CONSTANTS
  v1 = v1
  v2 = v2
  v3 = v3
  Forged = Forged
  NoSigner = NoSigner
  Validators <- MCValidators
  Groups <- MCGroups
  Candidates <- MCCandidates
  CandidateDigest <- MCCandidateDigest
  CandidateGroup <- MCCandidateGroup
  MemberOf <- MCMemberOf
  GuarantorOf <- MCGuarantorOf
  RequisiteVotes <- MCRequisiteVotes
  SigNonces <- MCSigNonces


SPECIFICATION Spec

INVARIANT ImportOrderIrrelevant
