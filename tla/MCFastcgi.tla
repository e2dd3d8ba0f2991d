------------------------------ MODULE MCFastcgi ------------------------------
(* Instances of Fastcgi for TLC: one connection with two multiplexed request
   ids, two RequestData and two application threads. *)
EXTENDS Fastcgi
=============================================================================
