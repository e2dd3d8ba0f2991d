-------------------------- MODULE RequestLifecycle --------------------------
(***************************************************************************)
(* What one FastCGI connection promises about each request it carries.     *)
(* A request is received, offered to the application at most once, and     *)
(* ends exactly once: answered by the application, aborted by the web      *)
(* server, or discarded because the socket failed.  A connection that is   *)
(* closed in good order (not by a failure) leaves no live request behind.  *)
(*                                                                         *)
(* Connection.tla implements this specification.                           *)
(***************************************************************************)
CONSTANT Requests

VARIABLES phase,   \* how far each request has come
          open     \* can requests still be offered and answered?

lvars == <<phase, open>>

Live == {"receiving", "offered"}
Ended == {"replied", "aborted", "discarded"}

LifecycleTypeOK ==
    /\ phase \in [Requests -> {"unborn"} \union Live \union Ended]
    /\ open \in BOOLEAN

LifecycleInit ==
    /\ phase = [r \in Requests |-> "unborn"]
    /\ open = TRUE

(* A request may begin even when the connection is closed: the connection
   then neither offers nor answers it. *)
Begin(r) ==
    /\ phase[r] = "unborn"
    /\ phase' = [phase EXCEPT ![r] = "receiving"]
    /\ UNCHANGED open

Offer(r) ==
    /\ open
    /\ phase[r] = "receiving"
    /\ phase' = [phase EXCEPT ![r] = "offered"]
    /\ UNCHANGED open

(* A request that ends may take the connection with it, but only when no
   other request is live. *)
EndOne(r, outcome) ==
    /\ open
    /\ phase' = [phase EXCEPT ![r] = outcome]
    /\ open' \in BOOLEAN
    /\ ~open' => \A s \in Requests \ {r} : phase[s] \notin Live

Answer(r) == phase[r] = "offered" /\ EndOne(r, "replied")

Abort(r) == phase[r] \in Live /\ EndOne(r, "aborted")

(* The socket failed: every live request is discarded. *)
Shutdown ==
    /\ open
    /\ open' = FALSE
    /\ phase' = [r \in Requests |-> IF phase[r] \in Live THEN "discarded" ELSE phase[r]]

LifecycleNext ==
    \/ Shutdown
    \/ \E r \in Requests : Begin(r) \/ Offer(r) \/ Answer(r) \/ Abort(r)

LifecycleSpec == LifecycleInit /\ [][LifecycleNext]_lvars

-----------------------------------------------------------------------------
(* A request that has ended stays as it ended: a reply never follows an
   abort, and a request is never answered twice. *)
EndedIsFinal ==
    [][\A r \in Requests : phase[r] \in Ended => phase'[r] = phase[r]]_lvars

=============================================================================
