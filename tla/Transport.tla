----------------------------- MODULE Transport -----------------------------
(***************************************************************************)
(* The connection upgrade of build_transport                              *)
(* (src/substrate/network-libp2p/src/transport.rs).                       *)
(*                                                                         *)
(* Every connection is upgraded with upgrade::or(plaintext, secio), where *)
(* plaintext is a toggleable PlainTextConfig that is disabled or left     *)
(* enabled according to the node's UnecryptedAllowed setting.  The        *)
(* protocol is negotiated with multistream-select: the dialer proposes    *)
(* the protocol names of its upgrade in order (those of the first branch  *)
(* of `or`, then the second; a disabled toggle has none) and the first   *)
(* one the listener also supports is used.  Protocol names are           *)
(* "plaintext" and "secio".                                                *)
(***************************************************************************)
EXTENDS Sequences, SequencesExt

CONSTANTS Nodes

VARIABLES
  setting,   \* node -> the UnecryptedAllowed passed to build_transport
  conns      \* negotiated connections: [dialer, listener, proto]

vars == <<setting, conns>>

\* The match on unencrypted_allowed: Allowed disables the plaintext toggle,
\* Denied leaves it as it is (enabled).
PlaintextEnabled(allowed) ==
  CASE allowed = "Allowed" -> FALSE
    [] allowed = "Denied"  -> TRUE

\* The protocol names of upgrade::or(map(plaintext), map(secio)).
ProtocolNames(n) ==
  (IF PlaintextEnabled(setting[n]) THEN <<"plaintext">> ELSE <<>>) \o <<"secio">>

\* dialer_select_proto: the first of the dialer's protocols that the
\* listener's upgrade accepts.
Negotiate(d, l) ==
  LET common == SelectSeq(ProtocolNames(d), LAMBDA p : p \in Range(ProtocolNames(l)))
  IN Head(common)

Init ==
  /\ setting \in [Nodes -> {"Allowed", "Denied"}]
  /\ conns = {}

\* Node d dials node l (into_connection_reuse: once per pair).
Dial(d, l) ==
  /\ d # l
  /\ ~\E c \in conns : c.dialer = d /\ c.listener = l
  /\ conns' = conns \cup {[dialer |-> d, listener |-> l, proto |-> Negotiate(d, l)]}
  /\ UNCHANGED setting

Next == \E d, l \in Nodes : Dial(d, l)

Spec == Init /\ [][Next]_vars

-----------------------------------------------------------------------------

\* A node started with UnecryptedAllowed::Denied never communicates over a
\* plaintext connection, whichever end it is; the enum's documentation:
\* "Specifies whether unencrypted communications are allowed or deny".
DeniedNeverPlaintext ==
  \A c \in conns :
    c.proto = "plaintext" =>
      setting[c.dialer] = "Allowed" /\ setting[c.listener] = "Allowed"
=============================================================================
