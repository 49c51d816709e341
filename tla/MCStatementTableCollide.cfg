CONSTANTS
  v1 = v1
  v2 = v2
  Forged = Forged
  NoSigner = NoSigner
  Validators <- CollideValidators
  Groups <- CollideGroups
  Candidates <- CollideCandidates
  CandidateDigest <- CollideCandidateDigest
  CandidateGroup <- CollideCandidateGroup
  MemberOf <- CollideMemberOf
  GuarantorOf <- CollideGuarantorOf
  RequisiteVotes <- CollideRequisiteVotes
  SigNonces <- CollideSigNonces

SPECIFICATION Spec

INVARIANT NoPanic
