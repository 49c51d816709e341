CONSTANTS
  v1 = v1
  v2 = v2
  Forged = Forged
  NoSigner = NoSigner
  Validators <- ResignValidators
  Groups <- ResignGroups
  Candidates <- ResignCandidates
  CandidateDigest <- ResignCandidateDigest
  CandidateGroup <- ResignCandidateGroup
  MemberOf <- ResignMemberOf
  GuarantorOf <- ResignGuarantorOf
  RequisiteVotes <- ResignRequisiteVotes
  SigNonces <- ResignSigNonces

SPECIFICATION Spec

INVARIANTS
  EvidenceSound
  IdempotentImport

PROPERTIES
  StableAttestations
