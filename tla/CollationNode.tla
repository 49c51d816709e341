--------------------------- MODULE CollationNode ---------------------------
(***************************************************************************)
(* CollationNode::work (src/polkadot/collator/src/lib.rs).                *)
(*                                                                         *)
(* work maps the client's import notification stream through a closure   *)
(* that looks up the parachain head and builds a collate future (or a     *)
(* ready None), feeds the stream to for_each, whose closure returns Ok(()) *)
(* and drops what it is given, and selects the result against the exit   *)
(* future.  The Done future is polled by the node's executor.             *)
(*                                                                         *)
(* The notification stream is an unbounded channel: the client sends into *)
(* it (Notify) until the client is dropped (ClientGone).  One poll of     *)
(* for_each handles every notification ready in the channel; select polls *)
(* the exit only when for_each is not ready, that is when the channel is  *)
(* empty.  check_id's expect is not modelled as a step: a notification's  *)
(* block is known to the client that sent it.                             *)
(***************************************************************************)
EXTENDS Naturals

CONSTANTS
  MaxNotifications   \* bound on the import notifications the client sends

\* The results of api.parachain_head.
HeadResults == {"Some", "None", "Err"}

VARIABLES
  buffered,      \* notifications in the channel, not yet taken by for_each
  sent,          \* notifications sent so far (bound only)
  stream_open,   \* the client still holds the sending side
  exit_fired,    \* the exit future has resolved
  done,          \* the Done future has resolved: the node's work is over
  created        \* collate futures built by the map closure

vars == <<buffered, sent, stream_open, exit_fired, done, created>>

Init ==
  /\ buffered = 0
  /\ sent = 0
  /\ stream_open = TRUE
  /\ exit_fired = FALSE
  /\ done = FALSE
  /\ created = 0

-----------------------------------------------------------------------------
(* The environment: the client and the exit signal.                        *)

Notify ==
  /\ stream_open
  /\ sent < MaxNotifications
  /\ buffered' = buffered + 1
  /\ sent' = sent + 1
  /\ UNCHANGED <<stream_open, exit_fired, done, created>>

ClientGone ==
  /\ stream_open
  /\ stream_open' = FALSE
  /\ UNCHANGED <<buffered, sent, exit_fired, done, created>>

FireExit ==
  /\ ~exit_fired
  /\ exit_fired' = TRUE
  /\ UNCHANGED <<buffered, sent, stream_open, done, created>>

-----------------------------------------------------------------------------
(* The Done future, polled by the executor.                                *)

\* Mutant: the Err branch returns an error, which ends for_each, and the
\* select, with it.
HandleNotificationErrStops(r) ==
  /\ ~done
  /\ buffered > 0
  /\ buffered' = buffered - 1
  /\ created' = IF r = "Some" THEN created + 1 ELSE created
  /\ done' = (r = "Err")
  /\ UNCHANGED <<sent, stream_open, exit_fired>>

\* Mutant: for_each takes an item without the channel having one.
HandleNotificationUnguarded(r) ==
  /\ ~done
  /\ buffered' = buffered - 1
  /\ created' = IF r = "Some" THEN created + 1 ELSE created
  /\ UNCHANGED <<sent, stream_open, exit_fired, done>>

\* for_each takes one notification; the map closure asks for the
\* parachain head: Ok(Some) builds collate(...).map(Some), Ok(None) and
\* Err give a ready None; for_each's closure returns Ok(()) and drops it.
HandleNotification(r) ==
  /\ ~done
  /\ buffered > 0
  /\ buffered' = buffered - 1
  /\ created' = IF r = "Some" THEN created + 1 ELSE created
  /\ UNCHANGED <<sent, stream_open, exit_fired, done>>

\* The stream has ended and is drained: for_each resolves, and so does
\* the select.
StreamEnded ==
  /\ ~done
  /\ ~stream_open
  /\ buffered = 0
  /\ done' = TRUE
  /\ UNCHANGED <<buffered, sent, stream_open, exit_fired, created>>

\* Mutant: work.join(exit) in place of work.select(exit).
ExitSelectedJoin ==
  /\ ~done
  /\ exit_fired
  /\ ~stream_open
  /\ buffered = 0
  /\ done' = TRUE
  /\ UNCHANGED <<buffered, sent, stream_open, exit_fired, created>>

\* for_each is not ready (the channel is empty) and exit has resolved:
\* the select resolves, dropping the stream.
ExitSelected ==
  /\ ~done
  /\ exit_fired
  /\ buffered = 0
  /\ done' = TRUE
  /\ UNCHANGED <<buffered, sent, stream_open, exit_fired, created>>

Poll == (\E r \in HeadResults : HandleNotification(r)) \/ StreamEnded \/ ExitSelected

Environment == Notify \/ ClientGone \/ FireExit

Next == Poll \/ Environment

\* The executor polls Done whenever it has been woken (by a send, the
\* channel closing, or exit); the client and the exit signal owe nothing.
Spec == Init /\ [][Next]_vars /\ WF_vars(Poll)

-----------------------------------------------------------------------------
(* Properties.                                                             *)

TypeOK ==
  /\ buffered \in 0..MaxNotifications /\ sent \in 0..MaxNotifications
  /\ buffered <= sent
  /\ created \in 0..sent
  /\ {stream_open, exit_fired, done} \subseteq BOOLEAN

\* The node's work ends only when exit resolves or the client's stream
\* has ended and every notification in it was handled: an inactive
\* parachain or a parachain_head error does not shut the collator down
\* (the comment on the Err branch of work's map closure).
NodeSurvivesErrors ==
  done => exit_fired \/ (~stream_open /\ buffered = 0)

\* Once exit resolves, the node's work ends, whether or not the client
\* keeps its notification stream open.
ExitStopsNode == exit_fired ~> done
=============================================================================
