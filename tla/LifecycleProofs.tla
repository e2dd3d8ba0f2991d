--------------------------- MODULE LifecycleProofs ---------------------------
(***************************************************************************)
(* Connection implements RequestLifecycle: every step of the connection    *)
(* is, for the requests it carries, a step of their lifecycle or a         *)
(* stuttering step.                                                        *)
(***************************************************************************)
EXTENDS ConnectionProofs

LEMMA InitRefines == Init => Lifecycle!LifecycleInit
  BY DEF Init, Lifecycle!LifecycleInit, phaseBar

(* The phase of a request depends on its fate and on whether it was offered. *)
LEMMA PhaseBar ==
    \A d \in RequestData :
        phaseBar[d] = IF fate[d] # "open" THEN fate[d]
                      ELSE IF \E id \in Ids : newRequestCalls[<<id, d>>] > 0 THEN "offered"
                      ELSE "receiving"
  BY DEF phaseBar

LEMMA KeepsRefines ==
    ASSUME KeepsRequests
    PROVE  UNCHANGED <<phaseBar, state # "CLOSED">>
  BY DEF KeepsRequests, phaseBar

LEMMA BeginRefines ==
    ASSUME IInv, NEW id \in Ids, NEW d \in RequestData, BeginsRequest(id, d)
    PROVE  Lifecycle!Begin(d)
<1>1. fate \in [RequestData -> Fates]
  BY DEF IInv, Core, CoreTypeOK
<1>2. \A i \in Ids : ~(newRequestCalls[<<i, d>>] > 0)
  BY DEF BeginsRequest, IInv, Core, OffersAgree
<1>3. phaseBar' = [phaseBar EXCEPT ![d] = "receiving"]
  BY <1>1, <1>2 DEF BeginsRequest, phaseBar
<1> QED
  BY <1>3 DEF BeginsRequest, phaseBar, Lifecycle!Begin

LEMMA StreamRefines ==
    ASSUME IInv, NEW id \in Ids, NEW d \in RequestData, EndsStream(id, d)
    PROVE  Lifecycle!Offer(d) \/ UNCHANGED <<phaseBar, state # "CLOSED">>
<1>1. /\ fate \in [RequestData -> Fates]
      /\ newRequestCalls \in [Ids \X RequestData -> Nat]
      /\ fate[d] = "open"
      /\ state # "CLOSED"
      /\ UNCHANGED <<state, fate>>
  BY DEF IInv, Core, CoreTypeOK, MapAgrees, EndsStream
<1>2. \A i \in Ids : ~(newRequestCalls[<<i, d>>] > 0)
  BY <1>1, NoDataAssumption DEF EndsStream, IInv, Core, OffersAgree, MapAgrees, Mapped
<1>3. CASE newRequestCalls' = newRequestCalls
  BY <1>1, <1>3 DEF phaseBar
<1>4. CASE newRequestCalls' = [newRequestCalls EXCEPT ![<<id, d>>] = 1]
  <2>1. phaseBar[d] = "receiving"
    BY <1>1, <1>2 DEF phaseBar
  <2>2. phaseBar' = [phaseBar EXCEPT ![d] = "offered"]
    <3>1. \A i \in Ids, e \in RequestData :
             newRequestCalls'[<<i, e>>] = IF i = id /\ e = d THEN 1 ELSE newRequestCalls[<<i, e>>]
      BY <1>1, <1>4
    <3>2. phaseBar'[d] = "offered"
      BY <1>1, <3>1 DEF phaseBar
    <3>3. \A e \in RequestData \ {d} : phaseBar'[e] = phaseBar[e]
      BY <1>1, <3>1 DEF phaseBar
    <3> QED
      BY <3>2, <3>3 DEF phaseBar
  <2> QED
    BY <1>1, <2>1, <2>2 DEF Lifecycle!Offer
<1> QED
  BY <1>3, <1>4 DEF EndsStream

(* A request that ends alone or takes an emptied connection with it. *)
LEMMA EraseRefines ==
    ASSUME IInv, NEW id \in Ids, Mapped(id), state # "CLOSED",
           NEW outcome \in {"replied", "aborted"}, NEW q,
           EraseRequest(id, outcome, q), UNCHANGED newRequestCalls
    PROVE  /\ requestMap[id].data \in RequestData
           /\ fate[requestMap[id].data] = "open"
           /\ Lifecycle!EndOne(requestMap[id].data, outcome)
<1> DEFINE d == requestMap[id].data
           f == [fate EXCEPT ![d] = outcome]
<1>1. d \in RequestData /\ fate[d] = "open" /\ fate \in [RequestData -> Fates]
  BY DEF IInv, Core, CoreTypeOK, MapAgrees, Mapped, Entries, Absent
<1>2. LastMapped(id) => \A e \in RequestData \ {d} : fate[e] # "open"
  BY NoDataAssumption DEF IInv, Core, CoreTypeOK, MapAgrees, LastMapped, Mapped
<1>3. fate' = f
  BY <1>1, <1>2 DEF EraseRequest, CloseAndCleanup, Fates
<1>4. phaseBar' = [phaseBar EXCEPT ![d] = outcome]
  BY <1>1, <1>3 DEF phaseBar
<1>5. state' = "CLOSED" => LastMapped(id)
  BY DEF EraseRequest
<1>6. (state' = "CLOSED") => \A e \in RequestData \ {d} : phaseBar[e] \notin Lifecycle!Live
  BY <1>1, <1>2, <1>5 DEF phaseBar, Lifecycle!Live, Fates
<1> QED
  BY <1>1, <1>4, <1>6 DEF Lifecycle!EndOne

LEMMA DiscardRefines ==
    ASSUME IInv, NEW q, DiscardsRequests(q)
    PROVE  Lifecycle!Shutdown
<1>1. fate \in [RequestData -> Fates]
  BY DEF IInv, Core, CoreTypeOK
<1>2. phaseBar' = [d \in RequestData |->
                      IF phaseBar[d] \in Lifecycle!Live THEN "discarded" ELSE phaseBar[d]]
  BY <1>1 DEF DiscardsRequests, CloseAndCleanup, phaseBar, Lifecycle!Live, Fates
<1> QED
  BY <1>2 DEF DiscardsRequests, CloseAndCleanup, Lifecycle!Shutdown

LEMMA StepRefines ==
    ASSUME IInv, [Next]_vars
    PROVE  Lifecycle!LifecycleNext \/ UNCHANGED <<phaseBar, state # "CLOSED">>
<1>1. CASE KeepsRequests
  BY <1>1, KeepsRefines
<1>2. CASE \E id \in Ids, d \in RequestData : BeginsRequest(id, d)
  BY <1>2, BeginRefines DEF Lifecycle!LifecycleNext
<1>3. CASE \E id \in Ids : AbortsRequest(id)
  <2>1. PICK id \in Ids : AbortsRequest(id)
    BY <1>3
  <2>2. /\ requestMap[id].data \in RequestData
        /\ fate[requestMap[id].data] = "open"
        /\ Lifecycle!EndOne(requestMap[id].data, "aborted")
    BY <2>1, EraseRefines DEF AbortsRequest
  <2>3. Lifecycle!Abort(requestMap[id].data)
    BY <2>2, PhaseBar DEF Lifecycle!Abort, Lifecycle!Live
  <2> QED
    BY <2>2, <2>3 DEF Lifecycle!LifecycleNext
<1>4. CASE \E id \in Ids, d \in RequestData : RepliesToRequest(id, d)
  <2>1. PICK id \in Ids, d \in RequestData : RepliesToRequest(id, d)
    BY <1>4
  <2>2. fate[d] = "open" /\ Lifecycle!EndOne(d, "replied")
    BY <2>1, EraseRefines DEF RepliesToRequest
  <2>3. Lifecycle!Answer(d)
    BY <2>1, <2>2, PhaseBar DEF RepliesToRequest, Lifecycle!Answer
  <2> QED
    BY <2>3 DEF Lifecycle!LifecycleNext
<1>5. CASE \E q : DiscardsRequests(q)
  BY <1>5, DiscardRefines DEF Lifecycle!LifecycleNext
<1>6. CASE \E id \in Ids, d \in RequestData : EndsStream(id, d)
  BY <1>6, StreamRefines DEF Lifecycle!LifecycleNext
<1> QED
  BY <1>1, <1>2, <1>3, <1>4, <1>5, <1>6, StepKinds

(* The connection keeps every promise RequestLifecycle makes about the
   requests it carries. *)
THEOREM Refinement == Spec => ImplementsLifecycle
<1>1. IInv /\ [Next]_vars => [Lifecycle!LifecycleNext]_<<phaseBar, state # "CLOSED">>
  BY StepRefines
<1> QED
  BY <1>1, InitRefines, Invariance, PTL
     DEF Spec, ImplementsLifecycle, Lifecycle!LifecycleSpec, Lifecycle!lvars

LEMMA EndedStep ==
    ASSUME Lifecycle!LifecycleNext
    PROVE  \A r \in RequestData :
               phaseBar[r] \in Lifecycle!Ended => phaseBar'[r] = phaseBar[r]
<1> SUFFICES ASSUME NEW d \in RequestData,
                    phaseBar[d] \in Lifecycle!Ended
             PROVE  phaseBar'[d] = phaseBar[d]
  OBVIOUS
<1>1. phaseBar[d] \notin Lifecycle!Live \union {"unborn"}
  BY DEF Lifecycle!Live, Lifecycle!Ended
<1>2. CASE Lifecycle!Shutdown
  BY <1>1, <1>2 DEF Lifecycle!Shutdown
<1>3. ASSUME NEW e \in RequestData,
             Lifecycle!Begin(e) \/ Lifecycle!Offer(e) \/ Lifecycle!Answer(e) \/ Lifecycle!Abort(e)
      PROVE  phaseBar'[d] = phaseBar[d]
  <2>1. e # d
    BY <1>1, <1>3 DEF Lifecycle!Begin, Lifecycle!Offer, Lifecycle!Answer, Lifecycle!Abort,
       Lifecycle!Live
  <2>2. \E p : phaseBar' = [phaseBar EXCEPT ![e] = p]
    BY <1>3 DEF Lifecycle!Begin, Lifecycle!Offer, Lifecycle!Answer, Lifecycle!Abort,
       Lifecycle!EndOne
  <2>3. d \in DOMAIN phaseBar
    BY DEF phaseBar
  <2> QED
    BY <2>1, <2>2, <2>3
<1> QED
  BY <1>2, <1>3 DEF Lifecycle!LifecycleNext

(* No step of the connection changes how a request ended. *)
THEOREM EndsForGood == Spec => EndedStaysEnded
<1>1. IInv /\ [Next]_vars =>
          [\A r \in RequestData :
              phaseBar[r] \in Lifecycle!Ended => phaseBar'[r] = phaseBar[r]
          ]_<<phaseBar, state # "CLOSED">>
  BY EndedStep, StepRefines
<1> QED
  BY <1>1, Invariance, PTL DEF Spec, EndedStaysEnded, Lifecycle!EndedIsFinal, Lifecycle!lvars

=============================================================================
