# TLA+ models of the candidate-agreement statement table and its neighbours

This directory holds TLA+ models of the code under `src/`, written from that
code, and the TLC configurations that check them. `PROJECT.json` lists the
components, the runs, the mutants that show each property can fail, the
source lines each definition translates, the findings and the hazards.

## 1. Inventory

### Statement table (`src/candidate-agreement/src/table.rs`) — the core

- **State** (`Table`, lines 202-208):
  - `proposed_candidates`: validator → (digest, signature), the one candidate each validator proposed this round;
  - `candidate_votes`: digest → `CandidateData`. A `CandidateData` holds the group, the candidate, `validity_votes` (validator → Issued/Valid/Invalid), `availability_votes` (validator → signature) and `indicated_bad_by`;
  - `detected_misbehavior`: validator → the latest misbehavior proof.
- **Operations**:
  - `import_statement` dispatches to `import_candidate`, `validity_vote` or `availability_vote` and files any proof under the signer;
  - `drain_misbehavior` takes the proof map;
  - `proposed_candidates` and `candidates_in_group` are read-only queries.
- **Interactions**: the table calls the `Context` trait, which is pure: digest, group, membership, guarantorship, signer recovery and thresholds. The caller is single-threaded.
- **What is hard**: the table gets input from byzantine peers in any gossip order, with duplicates. Every statement must come out as exactly one of dropped, accepted or proof. The table must:
  - keep the first vote;
  - build a proof from an unordered pair of conflicting votes;
  - never panic on the two `expect`/`panic!` paths;
  - select a proposal that does not depend on `HashMap` order.
- **Correctness properties**:
  - proofs convict their key from the signed material alone;
  - accepted votes are authentic and authorized;
  - `indicated_bad_by` matches Invalid votes;
  - proposals are backed by records;
  - no panic;
  - first vote wins;
  - re-import is idempotent;
  - proposal selection is correct;
  - (claimed by the spec) order-independence.

### Block import queue (`src/substrate/network/src/import_queue.rs`)

- **State**:
  - the queue of batches, behind a mutex, with a condvar;
  - `queue_blocks` (the set of hashes being imported);
  - `best_importing_number`;
  - the `is_stopping` flag;
  - the import-thread handle.
- **Operations**:
  - from the sync thread: `start`, `import_blocks`, `clear`, `status`, `is_importing` and `drop`;
  - on the import thread: a loop that waits for a batch, pops it, imports it (`import_many_blocks`, then `import_single_block` and `process_import_result` for each block) and removes the batch's hashes.
- **Interactions**:
  - the sync thread and the import thread share state under locks taken in a fixed order (queue, queue_blocks, best_importing_number);
  - the import thread calls back into ChainSync through `SyncLink`.
- **What is hard**:
  - the two threads interleave;
  - the condvar wait is not in a loop;
  - `drop` sets `is_stopping` without a notify;
  - a block can fail part way through a batch;
  - `clear` can run while a batch is in flight.
- **Properties**:
  - `is_importing` is true for every queued block;
  - `drop` terminates;
  - every queued batch is eventually imported or the queue is cleared;
  - `best_importing_number` bounds the queued blocks. This one is documented as "not completely accurate" and is not checked; see the hazard at line 248.

### Collator (`src/polkadot/collator/src/lib.rs`)

- `collate_ingress` starts one egress fetch per routing parachain.
- It folds the results, in completion order, into a `BTreeMap` keyed by (−depth, parachain). The output is oldest-first, then ordered by parachain id.
- `collate` feeds the result to `produce_candidate`.
- `CollationNode::work` maps each import notification to a `collate` future, drops it in `for_each`, and selects the loop against an `exit` future.
- Property: the output is independent of completion order and equals the reference interleaving (the test `collates_ingress`).

### libp2p transport (`src/substrate/network-libp2p/src/transport.rs`)

- `build_transport` offers plaintext (toggleable) or secio.
- `UnecryptedAllowed::Allowed` *disables* plaintext, and `Denied` leaves it on.
- Property: a node that denies unencrypted traffic never negotiates plaintext.

### Test runtime (`src/substrate/test-runtime/src/lib.rs`)

- `Transfer` and `Extrinsic` are encoded by hand, field by field, and decoded with the codec's tuple decoder.
- `BlindCheckable::check` verifies the signature.
- `run_tests` decodes a block, re-encodes its extrinsics and returns their count cast with `as u8`.
- The `api` stubs dispatch to a `system` module that is not in this repository.

## 2. Plan and status

1. **`StatementTable`** (done): the table and its Context. It is checked by `MCStatementTable` (the main run), `MCStatementTableResign` (signature malleability) and `MCStatementTableCollide` (the test Context's digests).
2. **`ImportQueue`** with **`ImportQueueAbstract`** (done): the two threads of the async import queue, the abstract FIFO it refines, liveness under weak fairness of the import thread, and three violation runs. See section 4.
3. **`CollateIngress`** (done): `collate_ingress` over every completion order, checked against a recursive reference merge. See section 5.
4. **`Transport`** (done): the upgrade negotiation with the `UnecryptedAllowed` toggle, with a violation run. See section 6.
5. **`TestRuntime`** (done, partly): the extrinsic codec. See section 7.
6. **`CollationNode`** (done): the collator's notification loop, its error handling and its shutdown. See section 8.
7. Left for later:
   - a composition of the import queue with a model of ChainSync's restart (which calls `clear` from the import thread's `SyncLink` callback), once ChainSync is in the repository;
   - larger table instances, if the main run's time allows.

## 3. The StatementTable model

- **State**: one variable `table` holds the whole `Table` value, with the Rust field names. Maps are TLA+ functions whose domain grows with `Put` (`HashMap::insert`). A second variable `panicked` records that a `panic!`/`expect` fired; after that, no step is enabled.
- **Context**: CONSTANTS stand for `CandidateDigest`, `CandidateGroup`, `MemberOf`, `GuarantorOf` and `RequisiteVotes`. Candidates and groups are naturals, because the code needs their `Ord`.
- **Signatures**: a signature is a record `[by, on, n]`: the signer, the statement signed, and a nonce for a second valid signature. `statement_signer` returns `by` when `on` is the statement, and `NoSigner` for `Forged`.
- **Handlers**: each handler is an operator from a table to an `Outcome` (table, `Option<Misbehavior>` as a set of at most one proof, panic flag). Their conditions and early returns follow the code line by line. `import_statement` files the proof under the signer, overwriting.
- **Steps**: `Next` has one disjunct per statement kind. Each takes any signature of any validator, or a forged one, which covers the silently-dropped path. `drain_misbehavior` is the other step.
- **`proposed_candidates`** is an operator parameterised by the `HashMap` iteration order. It is a `FoldLeft` of `BestCandidateStep` into a `BTreeMap`, read out in ascending group order.

### Properties

- **`EvidenceSound`**: every filed proof convicts its key. The check uses only the signatures and the Context, the way an independent slashing verifier would.
- **`AcceptedVotesAuthorized`**: every stored vote carries a valid signature by an authorized validator on the right statement, and every record sits under its own digest and group.
- **`IndicatedBadMatchesInvalid`**: `indicated_bad_by` lists exactly the validators whose retained vote is Invalid, with no repeats (spec invariant 4).
- **`ProposalBacked`**: a noted proposal has its record, carries a matching signature, and its proposer holds a vote on the record. The `expect` relies on the first of these.
- **`NoPanic`**: neither abort path is reached.
- **`StableAttestations`** (action property): proposals, record candidates and validity votes are never replaced or removed (first vote wins).
- **`IdempotentImport`**: in every reachable state, importing any input twice gives the same result as importing it once. This covers gossip duplicates.
- **`ProposedCandidatesCorrect`**: for every iteration order, the fold equals the reference selection of spec §4.6 (no Invalid vote, thresholds met, greatest candidate per group, ascending groups).
- **`ImportOrderIrrelevant`**: the spec §8 claim that the proposal depends only on the set of authorized statements. It is expected to be violated.

### Runs and bounds

| run | config | what it shows |
|---|---|---|
| `table` | `MCStatementTable.cfg` | All of the properties above except `ImportOrderIrrelevant` hold. The setup has 3 validators, 2 groups and 3 candidates: two candidates compete in group 1 and one is in group 2, and there is a guarantor for each group who is not a member. Thresholds are (2,1) and (1,1). The run reaches 227,668 states in about 2 minutes. |
| `table_resign` | `MCStatementTableResign.cfg` | With two valid signatures per (signer, statement), proofs stay sound, re-import stays idempotent and nothing is replaced. This reaches the "same kind, different signature" branch. |
| `table_order` | `MCStatementTableOrder.cfg` | **Violation**, found in the empty table. If `Candidate(20)` by v3 comes first and `Available(120)` by v1 second, 20 is proposed. In the other order the vote is dropped and nothing is proposed. |
| `table_collide` | `MCStatementTableCollide.cfg` | **Violation**: with the test Context (digest = body), v2's candidate (group 2) collides with v1's (group 1), and `validity_vote` panics on the implicit Issued vote. |

The bounds are chosen so that every branch is reachable:

- Each validator can send each kind of statement, authorized or not.
- Two candidates in one group give `MultipleCandidates` and a real choice in selection.
- A validator can vote on a candidate that another validator proposed, so every double-vote pair occurs.
- Thresholds are reachable by the available voters, so inclusion and exclusion both occur.
- Interleavings of `drain_misbehavior` are included.

No fairness is assumed: the table is a passive data structure, and its properties are all safety.

### Not modelled in the table

- `candidates_in_group` and `voted_valid_by` are read-only iterators that no property needs.
- The `tests` module is not modelled.
- Signature cryptography is abstracted to the signature record described above.

## 4. The ImportQueue model

### State

Each `AsyncImportQueueData` field is a variable with the Rust name: `queue`, `queue_blocks`, `best_importing_number` and `is_stopping`. There are also these variables:

- `thread`: the import thread's position (`pc`), the batch it popped and the index of the block it is importing.
- `owner`: the sync thread, as `running`, `joining` (inside `drop`) or `dropped`.
- `alive`: whether the `Weak` pointers to the service and the client still upgrade.
- `calls`: counts the calls made so far; it exists only to bound them.

### Steps

`import_blocks` and `clear` take the queue mutex and both RwLocks for their whole body, so each is one step.

The import thread is split at the points where another thread can act between its steps:

- `Wait`: the emptiness test and the condvar wait. It is not in a loop. parking_lot's condvar has no spurious wakeups, so only `notify_one` in `import_blocks` wakes the thread.
- `Pop`: the `pop_front` after the test or the wakeup.
- `WokenEmpty`: the `None => break` after a wakeup.
- `CheckStopping`: the `is_stopping` test and the `Weak` upgrade.
- `ImportBlock`: one iteration of `import_many_blocks`. The result is any value `import_single_block` can return for the block.
  - `ImportSingleBlock` translates that function's branches. A missing header or justification gives `Disconnect`.
  - Otherwise `ImportWithChain` maps the chain's two answers to the result. `block_status` is `InChain`, another status or an error. `import` is one of its five results or an error.
  - B2 in `MCImportQueue` lacks its justification, and B3 lacks both header and justification.
- `RemoveHashes`: removing the batch's hashes from `queue_blocks`.

`Drop` sets `is_stopping`, and `Joined` completes the join once the thread has ended. `ServiceGone` makes the `Weak` upgrade fail.

The `SyncLink` callbacks only reach `ChainSync`, which is not in this repository. Its restart calls `clear`, and that is the `Clear` step, which can happen at any moment.

### Fairness

There is weak fairness on the import thread: the OS schedules it whenever it can run, and parking_lot's mutex is eventually fair. There is also weak fairness on `Joined`.

The callers get no fairness. ChainSync, and whoever drops the queue, owe the queue nothing.

### Properties

- **`AbstractSpec`**: the queue refines `ImportQueueAbstract`. The queue maps to the abstract queue, and the batch between `Pop` and the end of its import maps to `current`. This shows that batches start one at a time in FIFO order, and that only `clear` discards a waiting batch. It says nothing about `queue_blocks`, so the stale hash removal after `clear` is left to `IsImportingQueued`.
- **`StopHonoured`** (action property): once `is_stopping` is set, the thread never starts a batch or moves on to another block.
- **`ImportingEventuallyResolved`** (liveness): while the thread runs, every hash that `is_importing` reports eventually stops being reported. This holds for imported batches, for failed batches and after `clear`. The thread ending is an escape, so the exit on the clear/wakeup race is left to `ThreadSurvives`.
- **`ThreadSurvives`** (violation): the thread exits only after `drop` or once the service is gone.
- **`IsImportingQueued`** (violation): `is_importing` is true for every block of every waiting batch.
- **`DropTerminates`** (violation): `drop` returns.

### Runs

| run | config | result |
|---|---|---|
| `import_queue` | `MCImportQueue.cfg` | Passes. The bounds are 3 hashes, a 2-block batch, a re-sent block and a block without a header; up to 4 `import_blocks` calls and 2 `clear` calls; and `drop` and the service going away at any point. This gives 44,864 states. |
| `import_queue_thread_exit` | `MCImportQueueThreadSurvives.cfg` | **Violation**. The thread waits. `import_blocks` wakes it. `clear` empties the queue before the thread re-takes the lock, so `pop_front` returns None and the thread is gone for good. |
| `import_queue_is_importing` | `MCImportQueueIsImportingQueued.cfg` | **Violation**. Block h2 is queued twice. The first batch finishes and removes h2 while the second batch still waits. The same happens when h2 is re-requested after `clear` while the old batch is in flight. |
| `import_queue_drop` | `MCImportQueueDropTerminates.cfg` | **Violation**. The thread waits on the empty queue and `drop` sets `is_stopping`. Nothing notifies the thread, so the join never completes. |

`CHECK_DEADLOCK FALSE`: with bounded callers, the import thread ends up waiting on an empty queue. That is the queue being idle, not a deadlock. The hang in `drop` is checked as the liveness property `DropTerminates` instead.

The bounds reach every branch:

- an error part way through a batch;
- a missing header, which defaults the best number to 0;
- duplicate hashes;
- `clear` both while a batch is in flight and during a wakeup;
- `drop` at every point of the loop.

## 5. The CollateIngress model

### State and steps

The model's state is:

- `routing`: the set of routing parachains;
- `egress`: each parachain's un-routed egress lists, oldest first;
- `pending`: the fetches that have not resolved;
- `map`: the fold's `BTreeMap`, keyed by `<<-(depth), id>>`;
- `status`;
- `ingress`: the result.

`Init` chooses every subset of three parachains as the routing set, and every egress shape of up to three lists. Each list is empty or holds one message, and every message is distinct.

The steps are:

- `Resolve(id)`: the fetch for `id` resolves, in any order, as `futures_unordered` allows, and its lists are folded in.
- `FetchFails(id)`: a fetch fails, so the collation fails.
- `Consolidate`: reads the map out in key order.

### Properties

Both properties hold in run `collate_ingress` (59,582 states):

- **`IngressMatchesReference`**: the consolidated ingress equals `MergeByAge`. That is a RECURSIVE reference: it repeatedly takes the oldest list of each parachain that is furthest behind, in id order. The test `collates_ingress` checks one instance of this.
- **`SourceOrderKept`**: `produce_candidate` receives every parachain's messages, in the order they were sent.

No fairness is needed: both properties are invariants.

## 6. The Transport model

- `setting` gives each node's `UnecryptedAllowed`.
- `ProtocolNames` is the upgrade's protocol list: plaintext, if its toggle is still enabled, then secio.
- `Negotiate` is dialer-first multistream-select.

Run `transport` (a **violation**) finds two `Denied` nodes negotiating plaintext, because the match at lines 33-36 is inverted.

## 7. The TestRuntime model

- **Data**:
  - An `AccountId` (H256) is a sequence of 32 bytes.
  - An `Ed25519Signature` is a sequence of 64 bytes.
  - A `u64` is encoded as 8 little-endian bytes (`LittleEndian`, recursive).
  - `Take` reads a fixed number of bytes off the input, or gives `None` when too few are left. This is the codec's `Input` contract.
- **Values**: TLC's integers are 32-bit, so the `u64` values are chosen at the byte boundaries (0, 1, 255, 256, 65535, 65536) up to 2^31-1. All eight bytes are still encoded and decoded.
- **Steps**: `Encode` (`Extrinsic::encode`, with `Transfer::encode`), `Decode` (`Extrinsic::decode`, the nested tuple decoders).

| Run | Config | What it shows |
|---|---|---|
| `test_runtime` | `MCTestRuntime.cfg` | **Pass**, 504 states. `ExtrinsicRoundTrip`: decoding the encoding gives back the extrinsic for every combination of 2 accounts, 2 signatures, 7 amounts and 3 nonces. |

- **Left out**:
  - `BlindCheckable::check`: signature verification is cryptography, and a model could only restate the call.
  - The `api` stubs: `system` is not in the repository.
  - `Block::decode(..).unwrap()` on malformed input.
  - `run_tests`: a block decode, a re-encode of its extrinsics, and the count cast to `u8`. The cast wraps for 256 or more extrinsics, but a unit test with 256 extrinsics reaches that, and no property here would depend on the rest.

## 8. The CollationNode model

`CollationNode::work` builds one future, `Done`, which the node's executor polls.

- **State**:
  - `buffered`: notifications waiting in the client's unbounded channel.
  - `stream_open`: whether the client still holds the sender.
  - `exit_fired`: whether `exit` has resolved.
  - `done`: whether `Done` has resolved.
  - `created`: the number of `collate` futures built.
- **Environment steps** (no fairness): `Notify` (the client imports a block, up to `MaxNotifications`), `ClientGone` (the channel closes) and `FireExit`.
- **Poll steps** (`Poll`, weakly fair):
  - `HandleNotification(r)` is the map closure for one notification and `parachain_head` result `r`. `Ok(Some)` builds a `collate` future; `Ok(None)` and `Err` give a ready `None`. Then `for_each`'s closure returns `Ok(())` and drops the item.
  - `StreamEnded`: the drained, closed stream ends `for_each` and the select.
  - `ExitSelected`: `select` polls `exit` only when `for_each` is not ready, that is, when the channel is empty.
- **Fairness**: a send, the channel closing and `exit` all wake the task, so the executor polls `Done` whenever a poll step is enabled. That is weak fairness on `Poll`.

| Run | Config | What it shows |
|---|---|---|
| `collation_node` | `MCCollationNode.cfg` | **Pass**, 225 states, `MaxNotifications = 4`. `NodeSurvivesErrors`: the node ends only on `exit` or on a drained, closed stream, whatever `parachain_head` returns (the comment on the `Err` branch). `ExitStopsNode`: once `exit` resolves the node ends, even if the client keeps the stream open. |

- **Mutants**:
  - an `Err` branch that returns the error breaks `NodeSurvivesErrors`;
  - `join` in place of `select` breaks `ExitStopsNode`.
- **`CHECK_DEADLOCK FALSE`**: after `Done` resolves, the node has stopped.
- **What the model shows about collations**: the `collate` futures counted by `created` are never polled, because `for_each` drops them. futures 0.1 are lazy, so no collation is ever computed (hazard at line 218). "A collation is produced" would fail by the code's shape, so it is not a run.
- **Left out**:
  - the `check_id` `expect`: a notification's block is known to the client that sent it;
  - `ApiContext`: constant stubs with no routing parachains and empty egress;
  - `run_collator`: it only hands the node to `polkadot_cli::run`.

## 9. Not modelled

- **`SyncLink` and `process_import_result`**: these only forward to `ChainSync` (`block_imported`, `maintain_sync`, `disconnect`, `restart`), which is not in this repository. `restart`'s effect on the queue is the `Clear` step.
- **Test runtime, rest**: signature verification (`BlindCheckable::check`) and the `api` stubs into the absent `system` module. See section 7.
