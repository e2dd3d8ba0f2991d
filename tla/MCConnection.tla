---------------------------- MODULE MCConnection ----------------------------
(* Instances of Connection for TLC: two request ids, so that requests are
   multiplexed, and three RequestData, so that an id is used again. *)
EXTENDS ConnectionProofs
=============================================================================
