---------------------------- MODULE TestRuntime ----------------------------
(***************************************************************************)
(* The test runtime's wire format and run_tests                           *)
(* (src/substrate/test-runtime/src/lib.rs).                               *)
(*                                                                         *)
(* Transfer and Extrinsic are encoded by concatenating their fields'      *)
(* encodings and decoded by reading the same fields back in order.  The   *)
(* codec's primitives are: AccountId (H256) and Ed25519Signature (H512)  *)
(* as their raw 32 and 64 bytes, u64 as 8 bytes little-endian; a decode  *)
(* from too few bytes is None.                                            *)
(*                                                                         *)
(* Values of u64 fields stay below 2^31 (TLC's integers); the eight-byte *)
(* encoding, with its zero high bytes, is kept.                           *)
(***************************************************************************)
EXTENDS Naturals, Sequences

CONSTANTS
  Accounts,        \* AccountId values, each a sequence of 32 bytes
  Signatures,      \* Ed25519Signature values, each a sequence of 64 bytes
  Amounts,         \* u64 values used for amount
  Nonces,          \* u64 values used for nonce
  None             \* a failed decode

VARIABLES
  extrinsic,   \* the Extrinsic being encoded
  wire,        \* its encoding, once made
  decoded,     \* Extrinsic::decode(wire), once made
  phase        \* "start", "encoded", "decoded"

vars == <<extrinsic, wire, decoded, phase>>

-----------------------------------------------------------------------------
(* The codec primitives.                                                   *)

\* u64::encode: w little-endian bytes.
RECURSIVE LittleEndian(_, _)
LittleEndian(x, w) ==
  IF w = 0 THEN <<>> ELSE <<x % 256>> \o LittleEndian(x \div 256, w - 1)

RECURSIVE FromLittleEndian(_)
FromLittleEndian(bs) ==
  IF bs = <<>> THEN 0 ELSE Head(bs) + 256 * FromLittleEndian(Tail(bs))

\* Read w bytes off the input: <<the bytes, the rest>>, or None.
Take(input, w) ==
  IF Len(input) < w THEN None
  ELSE <<SubSeq(input, 1, w), SubSeq(input, w + 1, Len(input))>>

-----------------------------------------------------------------------------
(* Transfer and Extrinsic.                                                 *)

\* Mutant: the fields are written with `to` before `from`.
EncodeTransferSwapped(t) ==
  t.to \o t.from \o LittleEndian(t.amount, 8) \o LittleEndian(t.nonce, 8)

\* Transfer::encode: from, to, amount, nonce.
EncodeTransfer(t) ==
  t.from \o t.to \o LittleEndian(t.amount, 8) \o LittleEndian(t.nonce, 8)

\* Extrinsic::encode: the transfer, then the signature.
EncodeExtrinsic(x) == EncodeTransfer(x.transfer) \o x.signature

\* Extrinsic::decode via the (from, to, amount, nonce) and
\* (transfer, signature) tuple decoders: each field in turn, None as soon
\* as the input runs out.
DecodeExtrinsic(input) ==
  LET from == Take(input, 32)
      to == IF from = None THEN None ELSE Take(from[2], 32)
      amount == IF to = None THEN None ELSE Take(to[2], 8)
      nonce == IF amount = None THEN None ELSE Take(amount[2], 8)
      sig == IF nonce = None THEN None ELSE Take(nonce[2], 64)
  IN IF sig = None THEN None
     ELSE [transfer |-> [from |-> from[1], to |-> to[1],
                         amount |-> FromLittleEndian(amount[1]),
                         nonce |-> FromLittleEndian(nonce[1])],
           signature |-> sig[1]]

-----------------------------------------------------------------------------

Transfers == [from : Accounts, to : Accounts, amount : Amounts, nonce : Nonces]
Extrinsics == [transfer : Transfers, signature : Signatures]

Init ==
  /\ extrinsic \in Extrinsics
  /\ wire = <<>>
  /\ decoded = None
  /\ phase = "start"

Encode ==
  /\ phase = "start"
  /\ wire' = EncodeExtrinsic(extrinsic)
  /\ phase' = "encoded"
  /\ UNCHANGED <<extrinsic, decoded>>

Decode ==
  /\ phase = "encoded"
  /\ decoded' = DecodeExtrinsic(wire)
  /\ phase' = "decoded"
  /\ UNCHANGED <<extrinsic, wire>>

Next == Encode \/ Decode

Spec == Init /\ [][Next]_vars

-----------------------------------------------------------------------------
(* Properties.                                                             *)

\* Decoding what Extrinsic::encode produced gives back the same extrinsic,
\* for every field value, including the u64 byte boundaries.
ExtrinsicRoundTrip == phase = "decoded" => decoded = extrinsic
=============================================================================
