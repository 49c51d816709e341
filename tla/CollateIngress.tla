--------------------------- MODULE CollateIngress ---------------------------
(***************************************************************************)
(* collate_ingress and collate (src/polkadot/collator/src/lib.rs).        *)
(*                                                                         *)
(* The collator asks the RelayChainContext for the routing parachains and *)
(* starts one unrouted_egress fetch per parachain.  The fetches resolve   *)
(* in any order (stream::futures_unordered); each result is folded into a *)
(* BTreeMap keyed by (-(depth), parachain), where depth counts back from  *)
(* the newest egress list; the map read in key order is the              *)
(* ConsolidatedIngress, which collate flattens into the (parachain,       *)
(* message) pairs given to produce_candidate.                             *)
(*                                                                         *)
(* An egress list (Vec<Message>) is empty or one message; a message is    *)
(* the record of the parachain and the relay-chain block that produced   *)
(* it, so that every message is distinct.                                 *)
(***************************************************************************)
EXTENDS Integers, Sequences, FiniteSets, SequencesExt

CONSTANTS
  Paras,      \* parachain ids (ParaId is ordered)
  MaxDepth    \* most un-routed egress lists a parachain can have

ASSUME Paras \subseteq Nat /\ MaxDepth \in Nat

VARIABLES
  routing,    \* relay_context.routing_parachains()
  egress,     \* relay_context.unrouted_egress(p), oldest list first
  pending,    \* parachains whose fetch has not resolved
  map,        \* the BTreeMap of the fold: <<-(depth), id>> -> egress list
  status,     \* "fetching", "done" or "failed" (a fetch returned R::Error)
  ingress     \* the ConsolidatedIngress once done

vars == <<routing, egress, pending, map, status, ingress>>

Message(p, i) == [from |-> p, at |-> i]

\* The un-routed egress queues a parachain can have: up to MaxDepth lists,
\* each empty or holding the message of its block.
EgressQueues(p) ==
  UNION {{[i \in 1..n |-> IF has[i] THEN <<Message(p, i)>> ELSE <<>>]
            : has \in [1..n -> BOOLEAN]} : n \in 0..MaxDepth}

-----------------------------------------------------------------------------
(* The fold and the read-out.                                              *)

\* Mutant: the depth is not negated, so the newest lists come first.
EgressKeyUnnegated(i, n, id) == <<n - i, id>>

\* Mutant: enumerate without rev, so depth counts from the oldest list.
EgressKeyFromOldest(i, n, id) == <<-(i - 1), id>>

\* egresses.into_iter().rev().enumerate(): the list at 1-based position i
\* of n has depth n - i, and key (-(depth), routing_id).
EgressKey(i, n, id) == <<-(n - i), id>>

\* One step of the fold: insert every list of routing_id's egresses.
FoldEgress(m, id, egresses) ==
  [k \in {EgressKey(i, Len(egresses), id) : i \in DOMAIN egresses} |->
     egresses[CHOOSE i \in DOMAIN egresses : EgressKey(i, Len(egresses), id) = k]]
  @@ m

\* Mutant: the map keyed by (parachain, depth), so one parachain's lists
\* all come before the next parachain's.
KeyLessByPara(a, b) == a[2] < b[2] \/ (a[2] = b[2] /\ a[1] < b[1])

\* The Ord of the (i64, ParaId) tuple keys.
KeyLess(a, b) == a[1] < b[1] \/ (a[1] = b[1] /\ a[2] < b[2])

\* ordered.into_iter().map(|((_, id), egress)| (id, egress)).collect()
\* (The BTreeMap's keys in ascending order: the key of rank j is the one
\* with j - 1 keys below it.)
ReadOut(m) ==
  LET keys == [j \in 1..Cardinality(DOMAIN m) |->
                 CHOOSE k \in DOMAIN m : Cardinality({x \in DOMAIN m : KeyLess(x, k)}) = j - 1]
  IN [j \in DOMAIN keys |-> <<keys[j][2], m[keys[j]]>>]

\* collate: ingress.0.iter().flat_map(|(id, msgs)| msgs.map(|msg| (id, msg)))
ProduceCandidateInput(ing) ==
  FlattenSeq([j \in DOMAIN ing |->
                [k \in DOMAIN ing[j][2] |-> <<ing[j][1], ing[j][2][k]>>]])

-----------------------------------------------------------------------------
(* The collation.                                                          *)

\* The context is fixed when collate_ingress is called; every fetch is
\* started at once.
Init ==
  /\ routing \in SUBSET Paras
  /\ egress \in [routing -> UNION {EgressQueues(p) : p \in Paras}]
  /\ \A p \in routing : egress[p] \in EgressQueues(p)
  /\ pending = routing
  /\ map = [k \in {} |-> k]
  /\ status = "fetching"
  /\ ingress = <<>>

\* The fetch of parachain id resolves; futures_unordered yields it next and
\* the fold inserts its lists.
Resolve(id) ==
  /\ status = "fetching"
  /\ id \in pending
  /\ pending' = pending \ {id}
  /\ map' = FoldEgress(map, id, egress[id])
  /\ UNCHANGED <<routing, egress, status, ingress>>

\* A fetch resolves to an error: the fold, and the collation, fail.
FetchFails(id) ==
  /\ status = "fetching"
  /\ id \in pending
  /\ status' = "failed"
  /\ UNCHANGED <<routing, egress, pending, map, ingress>>

\* The stream is exhausted: the folded map becomes the ConsolidatedIngress.
Consolidate ==
  /\ status = "fetching"
  /\ pending = {}
  /\ status' = "done"
  /\ ingress' = ReadOut(map)
  /\ UNCHANGED <<routing, egress, pending, map>>

Next ==
  \/ \E id \in Paras : Resolve(id) \/ FetchFails(id)
  \/ Consolidate

Spec == Init /\ [][Next]_vars

-----------------------------------------------------------------------------
(* Properties.                                                             *)

Messages == {Message(p, i) : p \in Paras, i \in 1..MaxDepth}

TypeOK ==
  /\ routing \subseteq Paras
  /\ pending \subseteq routing
  /\ status \in {"fetching", "done", "failed"}
  /\ \A k \in DOMAIN map : k[1] \in -MaxDepth..0 /\ k[2] \in routing
  /\ \A j \in DOMAIN ingress :
       ingress[j][1] \in routing /\ \A k \in DOMAIN ingress[j][2] : ingress[j][2][k] \in Messages

\* The reference consolidation, written as the merge the collator's module
\* documentation describes: repeatedly take the oldest un-routed list of
\* every parachain that is furthest behind, in parachain order.
RECURSIVE MergeByAge(_)
MergeByAge(rem) ==
  IF \A p \in DOMAIN rem : rem[p] = <<>>
  THEN <<>>
  ELSE LET behind == Max({Len(rem[p]) : p \in DOMAIN rem})
           S == {p \in DOMAIN rem : Len(rem[p]) = behind}
           front == SetToSortSeq(S, <)
       IN [j \in DOMAIN front |-> <<front[j], Head(rem[front[j]])>>]
            \o MergeByAge([p \in DOMAIN rem |-> IF p \in S THEN Tail(rem[p]) ELSE rem[p]])

\* Whatever order the egress fetches resolve in, the consolidated ingress
\* is the reference merge (the test collates_ingress checks one instance).
IngressMatchesReference == status = "done" => ingress = MergeByAge(egress)

\* produce_candidate receives every message of every routing parachain,
\* and the messages of one parachain in the order that parachain sent
\* them, oldest first.
SourceOrderKept ==
  status = "done" =>
    \A p \in routing :
      SelectSeq(ProduceCandidateInput(ingress), LAMBDA x : x[1] = p)
        = [j \in DOMAIN FlattenSeq(egress[p]) |-> <<p, FlattenSeq(egress[p])[j]>>]
=============================================================================
