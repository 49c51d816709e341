------------------------ MODULE ImportQueueAbstract ------------------------
(***************************************************************************)
(* What the block import queue promises its caller, ChainSync             *)
(* (the ImportQueue trait, src/substrate/network/src/import_queue.rs):    *)
(* batches handed to import_blocks are imported one batch at a time, in   *)
(* the order they were queued; clear discards the batches that have not   *)
(* been started, and nothing else drops, duplicates or reorders a batch.  *)
(***************************************************************************)
EXTENDS Sequences

CONSTANTS
  Batches,   \* the batches a caller can queue
  None       \* no batch is being imported

VARIABLES
  queue,     \* batches waiting to be imported, oldest first
  current    \* the batch being imported, or None

vars == <<queue, current>>

Init == queue = <<>> /\ current = None

Enqueue(b) == queue' = Append(queue, b) /\ UNCHANGED current

Clear == queue' = <<>> /\ UNCHANGED current

\* The importer starts the oldest waiting batch once it has finished the last.
Take == /\ current = None
        /\ queue # <<>>
        /\ current' = Head(queue)
        /\ queue' = Tail(queue)

Finish == current # None /\ current' = None /\ UNCHANGED queue

Next == (\E b \in Batches : Enqueue(b)) \/ Clear \/ Take \/ Finish

Spec == Init /\ [][Next]_vars
=============================================================================
