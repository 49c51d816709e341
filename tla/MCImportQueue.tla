--------------------------- MODULE MCImportQueue ---------------------------
(* A model of the import queue with three block hashes.  Batch B1 carries  *)
(* blocks 1 and 2, B2 re-sends block 2 (as sync does after a restart), and *)
(* B3 is a block with neither header nor justification.                  *)
EXTENDS ImportQueue

CONSTANTS h1, h2, h3

MCHashes == {h1, h2, h3}

MCBatches ==
  { <<[hash |-> h1, number |-> 1, justified |-> TRUE],
      [hash |-> h2, number |-> 2, justified |-> TRUE]>>,
    <<[hash |-> h2, number |-> 2, justified |-> TRUE]>>,
    <<[hash |-> h3, number |-> NoHeader, justified |-> FALSE]>> }
=============================================================================
