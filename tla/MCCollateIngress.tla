------------------------- MODULE MCCollateIngress -------------------------
(* collate_ingress with three parachains, each with up to three un-routed *)
(* egress lists, every subset of them routing, and every fetch order.     *)
EXTENDS CollateIngress
=============================================================================
