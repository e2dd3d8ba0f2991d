------------------------------ MODULE MCServer ------------------------------
(* Instances of Server for TLC: two requests on one or two ids, so that an id
   is used again, and two io threads, so that all of them can be busy. *)
EXTENDS Server
=============================================================================
