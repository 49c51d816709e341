---------------------------- MODULE ImportQueue ----------------------------
(***************************************************************************)
(* AsyncImportQueue (src/substrate/network/src/import_queue.rs).          *)
(*                                                                         *)
(* Two threads share AsyncImportQueueData.  The sync thread (ChainSync,   *)
(* and the owner that drops the queue) calls import_blocks, clear and     *)
(* drop; each of import_blocks and clear takes the queue mutex and both   *)
(* RwLocks for its whole body, so it is one step.  The import thread runs *)
(* import_thread: each step below is the code between two points where   *)
(* another thread can observe or change the shared data.                  *)
(*                                                                         *)
(* A block is a record [hash, number, justified]; number = NoHeader      *)
(* stands for a block whose header was not provided.  The chain's answers *)
(* to block_status and import are nondeterministic choices.  The SyncLink        *)
(* callbacks only reach ChainSync, which is outside this module; a sync   *)
(* restart that clears the queue is the Clear step, which may happen at   *)
(* any time.                                                               *)
(***************************************************************************)
EXTENDS Naturals, Sequences, FiniteSets

CONSTANTS
  Hashes,       \* block hashes
  NoHeader,     \* the number of a block sent without its header
  Batches,      \* the Vec<BlockData> values import_blocks can be given
  MaxImports,   \* bound on import_blocks calls
  MaxClears,    \* bound on clear calls
  None          \* the import thread holds no batch

VARIABLES
  queue,                  \* data.queue: VecDeque of batches
  queue_blocks,           \* data.queue_blocks: HashSet of hashes
  best_importing_number,  \* data.best_importing_number
  is_stopping,            \* data.is_stopping
  alive,                  \* the Weak<Service> and Weak<Client> can be upgraded
  thread,                 \* the import thread: [pc, batch, idx]
  owner,                  \* the sync thread: "running", "joining" (in drop) or "dropped"
  calls                   \* [imports, clears] made so far (bounds only)

vars == <<queue, queue_blocks, best_importing_number, is_stopping, alive,
          thread, owner, calls>>

HashesOf(batch) == {batch[i].hash : i \in DOMAIN batch}

-----------------------------------------------------------------------------
(* import_single_block and the error test of import_many_blocks.          *)

\* The chain's answers: chain.block_status and chain.import.
BlockStatusResults == {"InChain", "NotInChain", "Err"}
ChainImportResults == {"AlreadyInChain", "AlreadyQueued", "Queued",
                       "UnknownParent", "KnownBad", "Err"}

\* import_single_block for a block with header and justification, given
\* the chain's two answers.
ImportWithChain(status, result) ==
  CASE status = "InChain" -> "NotImported"
    [] status = "Err" -> "Restart"
    [] result \in {"AlreadyInChain", "AlreadyQueued"} -> "ImportedKnown"
    [] result = "Queued" -> "ImportedUnknown"
    [] result \in {"UnknownParent", "Err"} -> "Restart"
    [] result = "KnownBad" -> "DisconnectAndRestart"

\* The results import_single_block can return for blk: a missing header
\* or justification is Disconnect; otherwise the chain decides.
ImportSingleBlock(blk) ==
  IF blk.number = NoHeader \/ ~blk.justified
  THEN {"Disconnect"}
  ELSE {ImportWithChain(s, r) : s \in BlockStatusResults, r \in ChainImportResults}

IsErr(r) == r \in {"Disconnect", "DisconnectAndRestart", "Restart"}

-----------------------------------------------------------------------------
(* AsyncImportQueue::new and start: an empty queue, the thread running.   *)

Init ==
  /\ queue = <<>>
  /\ queue_blocks = {}
  /\ best_importing_number = 0
  /\ is_stopping = FALSE
  /\ alive = TRUE
  /\ thread = [pc |-> "top", batch |-> None, idx |-> 0]
  /\ owner = "running"
  /\ calls = [imports |-> 0, clears |-> 0]

-----------------------------------------------------------------------------
(* The sync thread.                                                        *)

NewBestImportingNumber(batch) ==
  IF batch = <<>> \/ batch[Len(batch)].number = NoHeader
  THEN 0
  ELSE batch[Len(batch)].number

\* import_blocks: queue the batch, mark its hashes, raise the best number,
\* and notify_one (which wakes the import thread if it is waiting).
ImportBlocks(batch) ==
  /\ owner = "running"
  /\ calls.imports < MaxImports
  /\ queue_blocks' = queue_blocks \cup HashesOf(batch)
  /\ best_importing_number' =
       IF NewBestImportingNumber(batch) > best_importing_number
       THEN NewBestImportingNumber(batch) ELSE best_importing_number
  /\ queue' = Append(queue, batch)
  /\ thread' = IF thread.pc = "waiting" THEN [thread EXCEPT !.pc = "woken"] ELSE thread
  /\ calls' = [calls EXCEPT !.imports = @ + 1]
  /\ UNCHANGED <<is_stopping, alive, owner>>

\* clear: called when sync restarts.
Clear ==
  /\ owner = "running"
  /\ calls.clears < MaxClears
  /\ queue_blocks' = {}
  /\ queue' = <<>>
  /\ best_importing_number' = 0
  /\ calls' = [calls EXCEPT !.clears = @ + 1]
  /\ UNCHANGED <<is_stopping, alive, thread, owner>>

\* Drop for AsyncImportQueue: set is_stopping, then join the thread.  There
\* is no notify.
Drop ==
  /\ owner = "running"
  /\ is_stopping' = TRUE
  /\ owner' = "joining"
  /\ UNCHANGED <<queue, queue_blocks, best_importing_number, alive, thread, calls>>

Joined ==
  /\ owner = "joining"
  /\ thread.pc = "done"
  /\ owner' = "dropped"
  /\ UNCHANGED <<queue, queue_blocks, best_importing_number, is_stopping, alive,
                 thread, calls>>

\* The Service or the Client is dropped elsewhere.
ServiceGone ==
  /\ alive
  /\ alive' = FALSE
  /\ UNCHANGED <<queue, queue_blocks, best_importing_number, is_stopping, thread,
                 owner, calls>>

-----------------------------------------------------------------------------
(* The import thread.                                                      *)

ThreadUnchanged == UNCHANGED <<queue_blocks, best_importing_number, is_stopping,
                               alive, owner, calls>>

\* Holding the queue lock, the queue is empty: wait on the condvar (once,
\* not in a loop), which releases the lock.
Wait ==
  /\ thread.pc = "top"
  /\ queue = <<>>
  /\ thread' = [thread EXCEPT !.pc = "waiting"]
  /\ UNCHANGED queue /\ ThreadUnchanged

\* Mutant: pop_back in place of pop_front.
PopBack ==
  /\ thread.pc \in {"top", "woken"}
  /\ queue # <<>>
  /\ thread' = [pc |-> "check", batch |-> queue[Len(queue)], idx |-> 0]
  /\ queue' = SubSeq(queue, 1, Len(queue) - 1)
  /\ ThreadUnchanged

\* pop_front with the lock held, after the emptiness test or the wakeup.
Pop ==
  /\ thread.pc \in {"top", "woken"}
  /\ queue # <<>>
  /\ thread' = [pc |-> "check", batch |-> Head(queue), idx |-> 0]
  /\ queue' = Tail(queue)
  /\ ThreadUnchanged

\* Woken, the lock re-taken, pop_front returns None: `break`.
WokenEmpty ==
  /\ thread.pc = "woken"
  /\ queue = <<>>
  /\ thread' = [thread EXCEPT !.pc = "done"]
  /\ UNCHANGED queue /\ ThreadUnchanged

\* The is_stopping test and the upgrade of both Weak pointers; an empty
\* batch goes straight to maintain_sync and the hash removal.
CheckStopping ==
  /\ thread.pc = "check"
  /\ thread' = CASE is_stopping -> [thread EXCEPT !.pc = "done"]
                 [] ~alive      -> [thread EXCEPT !.pc = "done"]
                 [] thread.batch = <<>> -> [thread EXCEPT !.pc = "remove"]
                 [] OTHER       -> [thread EXCEPT !.pc = "importing", !.idx = 1]
  /\ UNCHANGED queue /\ ThreadUnchanged

\* Mutant: the loop runs one block past the end of the batch.
ImportBlockPastEnd(r) ==
  /\ thread.pc = "importing"
  /\ r \in ImportSingleBlock(thread.batch[thread.idx])
  /\ IF IsErr(r)
     THEN /\ best_importing_number' = 0
          /\ thread' = [thread EXCEPT !.pc = "remove"]
     ELSE /\ thread' = CASE is_stopping -> [thread EXCEPT !.pc = "done"]
                         [] thread.idx > Len(thread.batch) -> [thread EXCEPT !.pc = "remove"]
                         [] OTHER -> [thread EXCEPT !.idx = @ + 1]
          /\ UNCHANGED best_importing_number
  /\ UNCHANGED <<queue, queue_blocks, is_stopping, alive, owner, calls>>

\* Mutant: import_many_blocks without its is_stopping test.
ImportBlockIgnoresStopping(r) ==
  /\ thread.pc = "importing"
  /\ r \in ImportSingleBlock(thread.batch[thread.idx])
  /\ IF IsErr(r)
     THEN /\ best_importing_number' = 0
          /\ thread' = [thread EXCEPT !.pc = "remove"]
     ELSE /\ thread' = CASE thread.idx = Len(thread.batch) -> [thread EXCEPT !.pc = "remove"]
                         [] OTHER -> [thread EXCEPT !.idx = @ + 1]
          /\ UNCHANGED best_importing_number
  /\ UNCHANGED <<queue, queue_blocks, is_stopping, alive, owner, calls>>

\* Mutant: on a failed block the thread goes back to the queue without
\* removing the batch's hashes.
ImportBlockSkipsRemoval(r) ==
  /\ thread.pc = "importing"
  /\ r \in ImportSingleBlock(thread.batch[thread.idx])
  /\ IF IsErr(r)
     THEN /\ best_importing_number' = 0
          /\ thread' = [pc |-> "top", batch |-> None, idx |-> 0]
     ELSE /\ thread' = CASE is_stopping -> [thread EXCEPT !.pc = "done"]
                         [] thread.idx = Len(thread.batch) -> [thread EXCEPT !.pc = "remove"]
                         [] OTHER -> [thread EXCEPT !.idx = @ + 1]
          /\ UNCHANGED best_importing_number
  /\ UNCHANGED <<queue, queue_blocks, is_stopping, alive, owner, calls>>

\* One iteration of the loop of import_many_blocks: import_single_block,
\* process_import_result, then on an error reset best_importing_number and
\* return true; otherwise return false if is_stopping, or go on.
ImportBlock(r) ==
  /\ thread.pc = "importing"
  /\ r \in ImportSingleBlock(thread.batch[thread.idx])
  /\ IF IsErr(r)
     THEN /\ best_importing_number' = 0
          /\ thread' = [thread EXCEPT !.pc = "remove"]
     ELSE /\ thread' = CASE is_stopping -> [thread EXCEPT !.pc = "done"]
                         [] thread.idx = Len(thread.batch) -> [thread EXCEPT !.pc = "remove"]
                         [] OTHER -> [thread EXCEPT !.idx = @ + 1]
          /\ UNCHANGED best_importing_number
  /\ UNCHANGED <<queue, queue_blocks, is_stopping, alive, owner, calls>>

\* Remove the batch's hashes from queue_blocks and loop.
RemoveHashes ==
  /\ thread.pc = "remove"
  /\ queue_blocks' = queue_blocks \ HashesOf(thread.batch)
  /\ thread' = [pc |-> "top", batch |-> None, idx |-> 0]
  /\ UNCHANGED <<queue, best_importing_number, is_stopping, alive, owner, calls>>

ImportThread ==
  \/ Wait \/ Pop \/ WokenEmpty \/ CheckStopping
  \/ \E r \in {"NotImported", "ImportedKnown", "ImportedUnknown",
               "Restart", "DisconnectAndRestart", "Disconnect"} : ImportBlock(r)
  \/ RemoveHashes

Next ==
  \/ \E b \in Batches : ImportBlocks(b)
  \/ Clear \/ Drop \/ Joined \/ ServiceGone
  \/ ImportThread

\* The import thread is scheduled whenever it can run (parking_lot's mutex
\* is eventually fair), and join returns once the thread has ended.  The
\* callers of import_blocks, clear and drop owe nothing.
Spec == Init /\ [][Next]_vars /\ WF_vars(ImportThread) /\ WF_vars(Joined)

-----------------------------------------------------------------------------
(* Properties.                                                             *)

Blocks == UNION {{b[i] : i \in DOMAIN b} : b \in Batches}

TypeOK ==
  /\ queue \in Seq(Batches)
  /\ queue_blocks \subseteq Hashes
  /\ best_importing_number \in Nat
  /\ is_stopping \in BOOLEAN /\ alive \in BOOLEAN
  /\ thread.pc \in {"top", "waiting", "woken", "check", "importing", "remove", "done"}
  /\ thread.pc \in {"check", "importing", "remove"} => thread.batch \in Batches
  /\ thread.pc = "importing" => thread.idx \in 1..Len(thread.batch)
  /\ owner \in {"running", "joining", "dropped"}

\* The import thread ends only when it was told to: after drop has set
\* is_stopping, or when the service or client is gone.  (The `None =>
\* break` after the condvar wait in import_thread is meant for that.)
ThreadSurvives == thread.pc = "done" => is_stopping \/ ~alive

\* is_importing (queue_blocks.contains) is true for every block of every
\* batch still waiting in the queue, as the ImportQueue trait documents
\* ("Is block with given hash is currently in the queue").
IsImportingQueued ==
  \A i \in DOMAIN queue : HashesOf(queue[i]) \subseteq queue_blocks

\* Once is_stopping is set, the import thread neither starts importing a
\* batch nor moves on to the next block of the batch it is importing: the
\* two is_stopping tests of import_thread and import_many_blocks together
\* stop it after at most the block in progress.
StopHonoured ==
  [][is_stopping => ~(thread'.pc = "importing" /\ thread' # thread)]_vars

\* While the import thread runs, every hash that is_importing reports is
\* eventually no longer reported: the batch is imported and its hashes
\* removed, even when a block of it fails, or the queue is cleared.
\* ChainSync does not request a block it believes is being imported.
ImportingEventuallyResolved ==
  \A h \in Hashes :
    (h \in queue_blocks) ~> (h \notin queue_blocks \/ thread.pc = "done")

\* drop returns: the join of the import thread completes.
DropTerminates == (owner = "joining") ~> (owner = "dropped")

\* The queue refines ImportQueueAbstract: the queue is the abstract queue,
\* and the batch the thread popped and has not finished is the current one.
CurrentBatch == IF thread.pc \in {"check", "importing", "remove"}
                THEN thread.batch ELSE None

Abstract == INSTANCE ImportQueueAbstract WITH current <- CurrentBatch

AbstractSpec == Abstract!Spec
=============================================================================
