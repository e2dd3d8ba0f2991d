----------------------------- MODULE MCAcceptor -----------------------------
(* Instances of Acceptor for TLC: more connections than ids, so that the
   counter wraps while the first connections are still there. *)
EXTENDS Acceptor
=============================================================================
