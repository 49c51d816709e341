--------------------------- MODULE StatementTable ---------------------------
(***************************************************************************)
(* The statement table of candidate agreement                              *)
(* (src/candidate-agreement/src/table.rs).                                 *)
(*                                                                         *)
(* One round's table ingests signed statements about parachain candidates *)
(* (Candidate, Valid, Invalid, Available), keeps the votes, records one    *)
(* misbehavior proof per validator, and is queried for the candidates to  *)
(* propose.  The Context trait is given by CONSTANTS; a signature is the   *)
(* record of who signed which statement, so that statement_signer and an  *)
(* independent verifier of misbehavior proofs can be stated.              *)
(*                                                                         *)
(* The whole Table value is one variable, as the handlers take            *)
(* `&mut self` and return Option<Misbehavior>: each handler is an operator *)
(* from a table to an Outcome, and import_statement is the only step that *)
(* changes the table besides drain_misbehavior.                            *)
(***************************************************************************)
EXTENDS Naturals, Sequences, FiniteSets, SequencesExt, Functions, TLC

CONSTANTS
  Validators,       \* ValidatorId values
  Groups,           \* GroupId values (ordered: naturals)
  Candidates,       \* Candidate values (ordered: naturals)
  CandidateDigest,  \* Context::candidate_digest, Candidates -> digests
  CandidateGroup,   \* Context::candidate_group, Candidates -> Groups
  MemberOf,         \* Validators -> SUBSET Groups (Context::is_member_of)
  GuarantorOf,      \* Validators -> SUBSET Groups (is_availability_guarantor_of)
  RequisiteVotes,   \* Groups -> <<validity, availability>> thresholds
  SigNonces,        \* distinct valid signatures one signer can make on one statement
  Forged,           \* a signature that recovers to no signer
  NoSigner          \* statement_signer returned None

Digests == Range(CandidateDigest)

ASSUME /\ CandidateGroup \in [Candidates -> Groups]
       /\ MemberOf \in [Validators -> SUBSET Groups]
       /\ GuarantorOf \in [Validators -> SUBSET Groups]
       /\ RequisiteVotes \in [Groups -> Nat \X Nat]
       /\ Candidates \subseteq Nat /\ Groups \subseteq Nat

VARIABLES
  table,     \* the Table struct: proposed_candidates, detected_misbehavior, candidate_votes
  panicked   \* a panic! or expect() fired inside import_statement

vars == <<table, panicked>>

-----------------------------------------------------------------------------
(* The vocabulary: statements, signatures, votes and misbehavior proofs.   *)

Statement(kind, item) == [kind |-> kind, item |-> item]

Statements ==
  {Statement("Candidate", c) : c \in Candidates}
    \cup {Statement(k, d) : k \in {"Valid", "Invalid", "Available"}, d \in Digests}

Signatures == [by : Validators, on : Statements, n : SigNonces]

\* The inputs a peer can hand to import_statement with statement st.
SignaturesFor(st) == {s \in Signatures : s.on = st} \cup {Forged}

\* Context::statement_signer: recovers the signer of a correctly signed statement.
StatementSigner(st, sig) ==
  IF sig # Forged /\ sig.on = st THEN sig.by ELSE NoSigner

IsMemberOf(v, g) == g \in MemberOf[v]
IsAvailabilityGuarantorOf(v, g) == g \in GuarantorOf[v]

ValidityVote(kind, sig) == [kind |-> kind, sig |-> sig]

UnauthorizedStatement(st, sig) ==
  [kind |-> "UnauthorizedStatement", statement |-> [statement |-> st, signature |-> sig]]
MultipleCandidates(first, second) ==
  [kind |-> "MultipleCandidates", first |-> first, second |-> second]
IssuedAndValidity(issued, vote) ==
  [kind |-> "IssuedAndValidity", issued |-> issued, vote |-> vote]
IssuedAndInvalidity(issued, vote) ==
  [kind |-> "IssuedAndInvalidity", issued |-> issued, vote |-> vote]
ValidityAndInvalidity(digest, good, bad) ==
  [kind |-> "ValidityAndInvalidity", digest |-> digest, valid |-> good, invalid |-> bad]

EmptyMap == [x \in {} |-> x]

\* Insert or overwrite key k of a HashMap.
Put(m, k, x) == (k :> x) @@ m

NewCandidateData(group, candidate) ==
  [group_id |-> group, candidate |-> candidate, validity_votes |-> EmptyMap,
   availability_votes |-> EmptyMap, indicated_bad_by |-> <<>>]

create == [proposed_candidates |-> EmptyMap, detected_misbehavior |-> EmptyMap,
           candidate_votes |-> EmptyMap]

-----------------------------------------------------------------------------
(* The handlers.  Each returns the table it leaves and its                 *)
(* Option<Misbehavior> as a set of at most one proof; `panic` marks the   *)
(* two places where the Rust code aborts.                                  *)

Outcome(t, mb) == [table |-> t, misbehavior |-> mb, panic |-> FALSE]
Panic(t) == [table |-> t, misbehavior |-> {}, panic |-> TRUE]

\* The match on the unordered pair of conflicting votes.
\* Mutant: the second pattern of the Valid/Invalid arm binds good and bad
\* the wrong way round.
DoubleVoteProofSwapped(candidate, digest, old, new) ==
  LET kinds == {old.kind, new.kind}
      SigOf(k) == IF old.kind = k THEN old.sig ELSE new.sig
  IN CASE kinds = {"Issued", "Valid"} ->
            {IssuedAndValidity(<<candidate, SigOf("Issued")>>, <<digest, SigOf("Valid")>>)}
       [] kinds = {"Issued", "Invalid"} ->
            {IssuedAndInvalidity(<<candidate, SigOf("Issued")>>, <<digest, SigOf("Invalid")>>)}
       [] kinds = {"Valid", "Invalid"} ->
            {ValidityAndInvalidity(digest, SigOf("Invalid"), SigOf("Valid"))}
       [] OTHER -> {}

DoubleVoteProof(candidate, digest, old, new) ==
  LET kinds == {old.kind, new.kind}
      SigOf(k) == IF old.kind = k THEN old.sig ELSE new.sig
  IN CASE kinds = {"Issued", "Valid"} ->
            {IssuedAndValidity(<<candidate, SigOf("Issued")>>, <<digest, SigOf("Valid")>>)}
       [] kinds = {"Issued", "Invalid"} ->
            {IssuedAndInvalidity(<<candidate, SigOf("Issued")>>, <<digest, SigOf("Invalid")>>)}
       [] kinds = {"Valid", "Invalid"} ->
            {ValidityAndInvalidity(digest, SigOf("Valid"), SigOf("Invalid"))}
       [] OTHER -> {}   \* two different signatures on the same kind of vote

\* Mutant: the push into indicated_bad_by loses its `if let Invalid` guard.
RecordValidityVoteAlwaysBad(votes, from, vote) ==
  [votes EXCEPT !.validity_votes = Put(@, from, vote),
                !.indicated_bad_by = Append(@, from)]

RecordValidityVote(votes, from, vote) ==
  [votes EXCEPT !.validity_votes = Put(@, from, vote),
                !.indicated_bad_by = IF vote.kind = "Invalid" THEN Append(@, from) ELSE @]

\* Mutant: a conflicting vote replaces the stored one (last vote wins).
validity_vote_overwrite(t, from, digest, vote) ==
  IF digest \notin DOMAIN t.candidate_votes
  THEN Outcome(t, {})
  ELSE LET votes == t.candidate_votes[digest] IN
       IF ~IsMemberOf(from, votes.group_id)
       THEN IF vote.kind = "Issued"
            THEN Panic(t)
            ELSE Outcome(t, {UnauthorizedStatement(Statement(vote.kind, digest), vote.sig)})
       ELSE IF from \in DOMAIN votes.validity_votes
       THEN Outcome([t EXCEPT !.candidate_votes[digest].validity_votes[from] = vote],
                    IF votes.validity_votes[from] = vote THEN {}
                    ELSE DoubleVoteProof(votes.candidate, digest,
                                         votes.validity_votes[from], vote))
       ELSE Outcome([t EXCEPT !.candidate_votes[digest] =
                                 RecordValidityVote(votes, from, vote)], {})

validity_vote(t, from, digest, vote) ==
  IF digest \notin DOMAIN t.candidate_votes
  THEN Outcome(t, {})   \* TODO: queue up but don't get DoS'ed
  ELSE LET votes == t.candidate_votes[digest] IN
       IF ~IsMemberOf(from, votes.group_id)
       THEN IF vote.kind = "Issued"
            THEN Panic(t)
            ELSE Outcome(t, {UnauthorizedStatement(Statement(vote.kind, digest), vote.sig)})
       ELSE IF from \in DOMAIN votes.validity_votes
       THEN Outcome(t, IF votes.validity_votes[from] = vote THEN {}
                       ELSE DoubleVoteProof(votes.candidate, digest,
                                            votes.validity_votes[from], vote))
       ELSE Outcome([t EXCEPT !.candidate_votes[digest] =
                                 RecordValidityVote(votes, from, vote)], {})

\* The Entry::Vacant arm: note the proposal and create the record if absent.
\* Mutant: the record is inserted unconditionally (insert for or_insert_with),
\* wiping the votes of an earlier proposer of the same candidate.
ProposeReplacingRecord(t, from, group, candidate, digest, signature) ==
  [t EXCEPT !.proposed_candidates = Put(@, from, <<digest, signature>>),
            !.candidate_votes = Put(@, digest, NewCandidateData(group, candidate))]

\* Mutant: the record is filed under the candidate instead of its digest.
ProposeKeyedByCandidate(t, from, group, candidate, digest, signature) ==
  [t EXCEPT !.proposed_candidates = Put(@, from, <<digest, signature>>),
            !.candidate_votes = IF candidate \in DOMAIN @ THEN @
                                ELSE Put(@, candidate, NewCandidateData(group, candidate))]

Propose(t, from, group, candidate, digest, signature) ==
  [t EXCEPT !.proposed_candidates = Put(@, from, <<digest, signature>>),
            !.candidate_votes = IF digest \in DOMAIN @ THEN @
                                ELSE Put(@, digest, NewCandidateData(group, candidate))]

\* Mutant: the group-membership check of the proposer is missing.
import_candidate_unchecked(t, from, candidate, signature) ==
  LET group == CandidateGroup[candidate]
      digest == CandidateDigest[candidate]
      proposed == t.proposed_candidates
  IN IF from \in DOMAIN proposed /\ proposed[from][1] # digest
     THEN IF proposed[from][1] \notin DOMAIN t.candidate_votes
          THEN Panic(t)
          ELSE Outcome(t, {MultipleCandidates(
                   <<t.candidate_votes[proposed[from][1]].candidate, proposed[from][2]>>,
                   <<candidate, signature>>)})
     ELSE validity_vote(IF from \in DOMAIN proposed THEN t
                        ELSE Propose(t, from, group, candidate, digest, signature),
                        from, digest, ValidityVote("Issued", signature))

\* Mutant: any second Candidate statement is MultipleCandidates, without
\* comparing the old digest with the new one.
import_candidate_any_repeat(t, from, candidate, signature) ==
  LET group == CandidateGroup[candidate]
      digest == CandidateDigest[candidate]
      proposed == t.proposed_candidates
  IN IF ~IsMemberOf(from, group)
     THEN Outcome(t, {UnauthorizedStatement(Statement("Candidate", candidate), signature)})
     ELSE IF from \in DOMAIN proposed
     THEN IF proposed[from][1] \notin DOMAIN t.candidate_votes
          THEN Panic(t)
          ELSE Outcome(t, {MultipleCandidates(
                   <<t.candidate_votes[proposed[from][1]].candidate, proposed[from][2]>>,
                   <<candidate, signature>>)})
     ELSE validity_vote(Propose(t, from, group, candidate, digest, signature),
                        from, digest, ValidityVote("Issued", signature))

\* Mutant: a repeated Candidate statement re-notes the proposal with its
\* latest signature (insert in place of the Entry match).
import_candidate_renote(t, from, candidate, signature) ==
  LET group == CandidateGroup[candidate]
      digest == CandidateDigest[candidate]
      proposed == t.proposed_candidates
  IN IF ~IsMemberOf(from, group)
     THEN Outcome(t, {UnauthorizedStatement(Statement("Candidate", candidate), signature)})
     ELSE IF from \in DOMAIN proposed /\ proposed[from][1] # digest
     THEN IF proposed[from][1] \notin DOMAIN t.candidate_votes
          THEN Panic(t)
          ELSE Outcome(t, {MultipleCandidates(
                   <<t.candidate_votes[proposed[from][1]].candidate, proposed[from][2]>>,
                   <<candidate, signature>>)})
     ELSE validity_vote(Propose(t, from, group, candidate, digest, signature),
                        from, digest, ValidityVote("Issued", signature))

import_candidate(t, from, candidate, signature) ==
  LET group == CandidateGroup[candidate]
      digest == CandidateDigest[candidate]
      proposed == t.proposed_candidates
  IN IF ~IsMemberOf(from, group)
     THEN Outcome(t, {UnauthorizedStatement(Statement("Candidate", candidate), signature)})
     ELSE IF from \in DOMAIN proposed /\ proposed[from][1] # digest
     THEN IF proposed[from][1] \notin DOMAIN t.candidate_votes
          THEN Panic(t)   \* expect("proposed digest implies existence of votes entry")
          ELSE Outcome(t, {MultipleCandidates(
                   <<t.candidate_votes[proposed[from][1]].candidate, proposed[from][2]>>,
                   <<candidate, signature>>)})
     ELSE validity_vote(IF from \in DOMAIN proposed THEN t
                        ELSE Propose(t, from, group, candidate, digest, signature),
                        from, digest, ValidityVote("Issued", signature))

\* Mutant: the availability-guarantor check is missing.
availability_vote_unchecked(t, from, digest, signature) ==
  IF digest \notin DOMAIN t.candidate_votes
  THEN Outcome(t, {})
  ELSE Outcome([t EXCEPT !.candidate_votes[digest].availability_votes =
                           Put(@, from, signature)], {})

availability_vote(t, from, digest, signature) ==
  IF digest \notin DOMAIN t.candidate_votes
  THEN Outcome(t, {})   \* TODO: queue up but don't get DoS'ed
  ELSE IF ~IsAvailabilityGuarantorOf(from, t.candidate_votes[digest].group_id)
  THEN Outcome(t, {UnauthorizedStatement(Statement("Available", digest), signature)})
  ELSE Outcome([t EXCEPT !.candidate_votes[digest].availability_votes =
                           Put(@, from, signature)], {})

\* Dispatch on the statement kind.
Dispatch(t, signer, st, sig) ==
  CASE st.kind = "Candidate" -> import_candidate(t, signer, st.item, sig)
    [] st.kind \in {"Valid", "Invalid"} ->
         validity_vote(t, signer, st.item, ValidityVote(st.kind, sig))
    [] st.kind = "Available" -> availability_vote(t, signer, st.item, sig)

\* Punishments are not cumulative: a new proof replaces the signer's last one.
import_statement(t, st, sig) ==
  LET signer == StatementSigner(st, sig)
      r == Dispatch(t, signer, st, sig)
  IN IF signer = NoSigner THEN Outcome(t, {})
     ELSE IF r.misbehavior = {} THEN r
     ELSE [r EXCEPT !.table.detected_misbehavior =
                      Put(@, signer, CHOOSE m \in r.misbehavior : TRUE)]

-----------------------------------------------------------------------------
(* The query proposed_candidates: a fold over the records in HashMap       *)
(* order into a BTreeMap keyed by group, read out in ascending group order.*)

can_be_included(data, validity_threshold, availability_threshold) ==
  /\ data.indicated_bad_by = <<>>
  /\ Cardinality(DOMAIN data.validity_votes) >= validity_threshold
  /\ Cardinality(DOMAIN data.availability_votes) >= availability_threshold

\* Mutant: the comparison is reversed, keeping the least candidate.
BestCandidateStepReversed(best, data) ==
  LET g == data.group_id IN
  IF ~can_be_included(data, RequisiteVotes[g][1], RequisiteVotes[g][2]) THEN best
  ELSE IF g \notin DOMAIN best THEN Put(best, g, data.candidate)
  ELSE IF data.candidate < best[g] THEN [best EXCEPT ![g] = data.candidate]
  ELSE best

BestCandidateStep(best, data) ==
  LET g == data.group_id IN
  IF ~can_be_included(data, RequisiteVotes[g][1], RequisiteVotes[g][2]) THEN best
  ELSE IF g \notin DOMAIN best THEN Put(best, g, data.candidate)
  ELSE IF best[g] < data.candidate THEN [best EXCEPT ![g] = data.candidate]
  ELSE best

\* `order` is the iteration order of candidate_votes.values().
proposed_candidates(t, order) ==
  LET best == FoldLeft(BestCandidateStep, EmptyMap,
                       [i \in DOMAIN order |-> t.candidate_votes[order[i]]])
      groups == SetToSortSeq(DOMAIN best, <)
  IN [i \in DOMAIN groups |-> best[groups[i]]]

-----------------------------------------------------------------------------
(* The steps.                                                              *)

Init ==
  /\ table = create
  /\ panicked = FALSE

ImportStatement(st, sig) ==
  /\ ~panicked
  /\ LET r == import_statement(table, st, sig) IN
       /\ table' = r.table
       /\ panicked' = r.panic

drain_misbehavior ==
  /\ ~panicked
  /\ table' = [table EXCEPT !.detected_misbehavior = EmptyMap]
  /\ UNCHANGED panicked

Next ==
  \/ \E c \in Candidates :
       LET st == Statement("Candidate", c) IN \E s \in SignaturesFor(st) : ImportStatement(st, s)
  \/ \E d \in Digests, k \in {"Valid", "Invalid"} :
       LET st == Statement(k, d) IN \E s \in SignaturesFor(st) : ImportStatement(st, s)
  \/ \E d \in Digests :
       LET st == Statement("Available", d) IN \E s \in SignaturesFor(st) : ImportStatement(st, s)
  \/ drain_misbehavior

Spec == Init /\ [][Next]_vars

-----------------------------------------------------------------------------
(* Properties.                                                             *)

ValidityVotes == [kind : {"Issued", "Valid", "Invalid"}, sig : Signatures]

\* r is a CandidateData value; its vote maps are partial maps on Validators.
IsCandidateData(r) ==
  /\ DOMAIN r = {"group_id", "candidate", "validity_votes", "availability_votes",
                 "indicated_bad_by"}
  /\ r.group_id \in Groups /\ r.candidate \in Candidates
  /\ DOMAIN r.validity_votes \subseteq Validators
  /\ \A v \in DOMAIN r.validity_votes : r.validity_votes[v] \in ValidityVotes
  /\ DOMAIN r.availability_votes \subseteq Validators
  /\ \A v \in DOMAIN r.availability_votes : r.availability_votes[v] \in Signatures
  /\ r.indicated_bad_by \in Seq(Validators)

TypeOK ==
  /\ panicked \in BOOLEAN
  /\ DOMAIN table.proposed_candidates \subseteq Validators
  /\ \A v \in DOMAIN table.proposed_candidates :
       table.proposed_candidates[v] \in Digests \X Signatures
  /\ DOMAIN table.detected_misbehavior \subseteq Validators
  /\ DOMAIN table.candidate_votes \subseteq Digests
  /\ \A d \in DOMAIN table.candidate_votes : IsCandidateData(table.candidate_votes[d])

(* A verifier that holds no table state: s is v's signature on st.         *)
SignedBy(s, v, st) == s # Forged /\ s.by = v /\ s.on = st

CandidateOfDigest(d) == CHOOSE c \in Candidates : CandidateDigest[c] = d

Authorized(v, st) ==
  CASE st.kind = "Candidate" -> IsMemberOf(v, CandidateGroup[st.item])
    [] st.kind \in {"Valid", "Invalid"} ->
         IsMemberOf(v, CandidateGroup[CandidateOfDigest(st.item)])
    [] st.kind = "Available" ->
         IsAvailabilityGuarantorOf(v, CandidateGroup[CandidateOfDigest(st.item)])

Proves(v, m) ==
  CASE m.kind = "UnauthorizedStatement" ->
         /\ SignedBy(m.statement.signature, v, m.statement.statement)
         /\ ~Authorized(v, m.statement.statement)
    [] m.kind = "MultipleCandidates" ->
         /\ SignedBy(m.first[2], v, Statement("Candidate", m.first[1]))
         /\ SignedBy(m.second[2], v, Statement("Candidate", m.second[1]))
         /\ CandidateDigest[m.first[1]] # CandidateDigest[m.second[1]]
    [] m.kind \in {"IssuedAndValidity", "IssuedAndInvalidity"} ->
         /\ SignedBy(m.issued[2], v, Statement("Candidate", m.issued[1]))
         /\ SignedBy(m.vote[2], v,
              Statement(IF m.kind = "IssuedAndValidity" THEN "Valid" ELSE "Invalid", m.vote[1]))
         /\ CandidateDigest[m.issued[1]] = m.vote[1]
    [] m.kind = "ValidityAndInvalidity" ->
         /\ SignedBy(m.valid, v, Statement("Valid", m.digest))
         /\ SignedBy(m.invalid, v, Statement("Invalid", m.digest))

(* Every proof in detected_misbehavior convicts the validator it is filed  *)
(* under, checked from the signed material alone: the signatures recover  *)
(* to that validator and the statements really conflict or really are     *)
(* outside its authority.  This covers the match in validity_vote that     *)
(* orders the two votes of a double vote, the MultipleCandidates arm of   *)
(* import_candidate and the signer-keyed insert of import_statement.       *)
EvidenceSound ==
  \A v \in DOMAIN table.detected_misbehavior : Proves(v, table.detected_misbehavior[v])

(* The table only holds authentic, authorized votes: every validity vote  *)
(* is by a member of the record's group and signs that record's candidate *)
(* (Issued) or digest (Valid/Invalid), every availability vote is by a    *)
(* guarantor of the group, and each record is filed under its own digest  *)
(* and group (the checks at the top of validity_vote and availability_vote).*)
AcceptedVotesAuthorized ==
  \A d \in DOMAIN table.candidate_votes :
    LET r == table.candidate_votes[d] IN
    /\ CandidateDigest[r.candidate] = d
    /\ r.group_id = CandidateGroup[r.candidate]
    /\ \A v \in DOMAIN r.validity_votes :
         /\ IsMemberOf(v, r.group_id)
         /\ SignedBy(r.validity_votes[v].sig, v,
              IF r.validity_votes[v].kind = "Issued" THEN Statement("Candidate", r.candidate)
              ELSE Statement(r.validity_votes[v].kind, d))
    /\ \A v \in DOMAIN r.availability_votes :
         /\ IsAvailabilityGuarantorOf(v, r.group_id)
         /\ SignedBy(r.availability_votes[v], v, Statement("Available", d))

(* A validator is listed in indicated_bad_by exactly when its retained    *)
(* vote on the candidate is Invalid, and is listed once (spec invariant 4;*)
(* the push in the Entry::Vacant arm of validity_vote).                    *)
IndicatedBadMatchesInvalid ==
  \A d \in DOMAIN table.candidate_votes :
    LET r == table.candidate_votes[d] IN
    /\ IsInjective(r.indicated_bad_by)
    /\ \A v \in Validators :
         v \in Range(r.indicated_bad_by)
           <=> v \in DOMAIN r.validity_votes /\ r.validity_votes[v].kind = "Invalid"

(* A proposal noted in proposed_candidates is backed by its record: the   *)
(* record exists (what the expect() in import_candidate relies on), the   *)
(* noted signature is the proposer's on that record's candidate, and the  *)
(* proposer holds a validity vote on it.                                   *)
ProposalBacked ==
  \A v \in DOMAIN table.proposed_candidates :
    LET d == table.proposed_candidates[v][1]
        s == table.proposed_candidates[v][2]
    IN /\ d \in DOMAIN table.candidate_votes
       /\ SignedBy(s, v, Statement("Candidate", table.candidate_votes[d].candidate))
       /\ v \in DOMAIN table.candidate_votes[d].validity_votes

(* Neither the panic! for an unauthorized issuance vote in validity_vote   *)
(* nor the expect() in import_candidate is ever reached.                   *)
NoPanic == ~panicked

(* First vote wins: once noted, a proposal, a record's candidate and a     *)
(* validity vote are never replaced or removed by any later import, so a  *)
(* repeated conflict keeps producing a proof against the same pair.       *)
StableAttestations ==
  [][/\ \A v \in DOMAIN table.proposed_candidates :
          /\ v \in DOMAIN table'.proposed_candidates
          /\ table'.proposed_candidates[v] = table.proposed_candidates[v]
     /\ \A d \in DOMAIN table.candidate_votes :
          LET r == table.candidate_votes[d] IN
          /\ d \in DOMAIN table'.candidate_votes
          /\ table'.candidate_votes[d].candidate = r.candidate
          /\ \A v \in DOMAIN r.validity_votes :
               /\ v \in DOMAIN table'.candidate_votes[d].validity_votes
               /\ table'.candidate_votes[d].validity_votes[v] = r.validity_votes[v]
    ]_table

(* Importing a statement a second time right after the first changes      *)
(* nothing: the table and the misbehavior map are as after the first      *)
(* import, for every input in every reachable state (spec section 8).     *)
IdempotentImport ==
  \A st \in Statements : \A s \in SignaturesFor(st) :
    LET once == import_statement(table, st, s) IN
    ~once.panic => import_statement(once.table, st, s) = once

(* The reference selection of section 4.6: among records with no Invalid *)
(* vote and enough validity and availability votes, the greatest         *)
(* candidate of each group, in ascending group order.                     *)
Includable(r) ==
  /\ \A v \in DOMAIN r.validity_votes : r.validity_votes[v].kind # "Invalid"
  /\ Cardinality(DOMAIN r.validity_votes) >= RequisiteVotes[r.group_id][1]
  /\ Cardinality(DOMAIN r.availability_votes) >= RequisiteVotes[r.group_id][2]

ReferenceProposal(t) ==
  LET inc == {t.candidate_votes[d] : d \in {d \in DOMAIN t.candidate_votes :
                                              Includable(t.candidate_votes[d])}}
      groups == SetToSortSeq({r.group_id : r \in inc}, <)
      BestOf(g) == Max({r.candidate : r \in {x \in inc : x.group_id = g}})
  IN [i \in DOMAIN groups |-> BestOf(groups[i])]

(* Whatever order the HashMap yields the records in, proposed_candidates  *)
(* returns the reference selection.                                        *)
ProposedCandidatesCorrect ==
  \A order \in SetToSeqs(DOMAIN table.candidate_votes) :
    proposed_candidates(table, order) = ReferenceProposal(table)

(* Section 8 of the spec: proposed_candidates depends on the set of       *)
(* imported statements, not on their order, for well-formed statements of *)
(* authorized signers that do not conflict.  Checked for any two such     *)
(* statements by different signers, imported in either order from a      *)
(* reachable table.  The code drops a vote on a digest it has not seen    *)
(* (validity_vote and availability_vote, "TODO: queue up").               *)
AuthorizedInputs ==
  {<<st, s>> \in Statements \X Signatures : s.on = st /\ Authorized(s.by, st)}

ImportOrderIrrelevant ==
  \A a, b \in AuthorizedInputs :
    a[2].by # b[2].by =>
      LET ab == import_statement(import_statement(table, a[1], a[2]).table, b[1], b[2]).table
          ba == import_statement(import_statement(table, b[1], b[2]).table, a[1], a[2]).table
      IN proposed_candidates(ab, SetToSeq(DOMAIN ab.candidate_votes))
           = proposed_candidates(ba, SetToSeq(DOMAIN ba.candidate_votes))

=============================================================================
