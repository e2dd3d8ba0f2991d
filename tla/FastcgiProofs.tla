---------------------------- MODULE FastcgiProofs ----------------------------
(***************************************************************************)
(* The safety properties of Fastcgi, for any number of requests, ids and   *)
(* application threads, and that it implements Connection: whatever the    *)
(* application does with its handles, the connection sees each request     *)
(* answered at most once, after it was offered.                            *)
(***************************************************************************)
EXTENDS Fastcgi, LifecycleProofs, SequenceTheorems

Handlings == {"none", "queued", "held", "replied", "destroyed"}
Busy == [at : {"locked", "dtor"}, data : RequestData]
Notices == {NewRequest(d) : d \in RequestData} \union {CloseConn}

(* FTypeOK, what Connection keeps left out. *)
OwnTypeOK ==
    /\ registered \in {"no", "active", "erased"}
    /\ acceptorQ \in Seq(Notices)
    /\ handle \in [RequestData -> Handlings]
    /\ call \in [Threads -> {Idle} \union Busy]
    /\ crash \in {"none", "deadConnection", "deadReadLoop", "~Request"}

(* A handle exists from the moment its request is offered, and a reply was
   posted only through a handle that cannot post again. *)
HandlesAgree ==
    \A d \in RequestData :
        /\ handle[d] = "none" <=> \A id \in Ids : newRequestCalls[<<id, d>>] = 0
        /\ commitCalls[d] > 0 => handle[d] \in {"replied", "destroyed"}

(* The mutex and the reference count: one thread at a time is inside commit,
   cancel or ~Request of a request, and its reply is still to be posted. *)
CallsAgree ==
    /\ \A t \in Threads : call[t] # Idle =>
           /\ commitCalls[call[t].data] = 0
           /\ \/ handle[call[t].data] = "destroyed"
              \/ call[t].at = "locked" /\ handle[call[t].data] = "held"
    /\ \A t, u \in Threads : call[t] # Idle /\ call[t].data = call[u].data => t = u

(* The notice of the close is the last the connection posts, and the strand
   brings every request before it. *)
NoticesAgree(q) ==
    /\ \A i \in 1 .. Len(q) : q[i] = CloseConn =>
           i = Len(q) /\ registered = "active" /\ state = "CLOSED"
    /\ \A i \in 1 .. Len(q) : q[i] # CloseConn => handle[q[i].data] = "queued"
    /\ \A i, j \in 1 .. Len(q) : q[i] = q[j] => i = j
    /\ \A d \in RequestData : handle[d] = "queued" => \E i \in 1 .. Len(q) : q[i] = NewRequest(d)

RegistryAgrees ==
    /\ registered = "no" => reading = "unstarted"
    /\ registered # "active" => acceptorQ = <<>>
    /\ registered = "erased" => state = "CLOSED"

OwnInv == OwnTypeOK /\ HandlesAgree /\ CallsAgree /\ NoticesAgree(acceptorQ) /\ RegistryAgrees

FInv == IInv /\ OwnInv

-----------------------------------------------------------------------------
(* Sequences of notices. *)

LEMMA NoticeKinds ==
    /\ CloseConn \in Notices
    /\ \A d \in RequestData : NewRequest(d) \in Notices /\ NewRequest(d) # CloseConn
                              /\ NewRequest(d).data = d
    /\ \A n \in Notices : n # CloseConn => n.data \in RequestData /\ n = NewRequest(n.data)
  BY DEF Notices, NewRequest, CloseConn

LEMMA CallKinds ==
    /\ Idle \notin Busy /\ Idle.data = NoData
    /\ \A b \in Busy : b.data \in RequestData /\ b.data # NoData
                        /\ b.at \in {"locked", "dtor"} /\ b # Idle
    /\ \A d \in RequestData : [at |-> "locked", data |-> d] \in Busy
                              /\ [at |-> "dtor", data |-> d] \in Busy
  BY NoDataAssumption DEF Idle, Busy

-----------------------------------------------------------------------------
(* What a step of the connection may do to its callbacks. *)

CallsNobody ==
    /\ UNCHANGED <<newRequestCalls, closeCalls>>
    /\ state' = "CLOSED" <=> state = "CLOSED"

ReportsClose ==
    /\ UNCHANGED newRequestCalls
    /\ state # "CLOSED" /\ state' = "CLOSED"
    /\ closeCalls = 0 /\ closeCalls' = 1

OffersFirst(id, d) ==
    /\ state # "CLOSED"
    /\ UNCHANGED <<state, closeCalls>>
    /\ \A i \in Ids : newRequestCalls[<<i, d>>] = 0
    /\ newRequestCalls' = [newRequestCalls EXCEPT ![<<id, d>>] = 1]

LEMMA CallbackKinds ==
    ASSUME IInv, [Next]_vars
    PROVE  \/ CallsNobody
           \/ ReportsClose
           \/ \E id \in Ids, d \in RequestData : OffersFirst(id, d)
<1>1. IInv'
  BY StepKeepsIInv
<1>2. /\ closeCalls = IF state = "CLOSED" THEN 1 ELSE 0
      /\ closeCalls' = IF state' = "CLOSED" THEN 1 ELSE 0
  BY <1>1 DEF IInv, Core, CloseAgrees
<1>3. ASSUME UNCHANGED newRequestCalls, state = "CLOSED" => state' = "CLOSED"
      PROVE  CallsNobody \/ ReportsClose
  BY <1>2, <1>3 DEF CallsNobody, ReportsClose
<1>4. CASE KeepsRequests
  BY <1>3, <1>4 DEF KeepsRequests
<1>5. CASE \E id \in Ids, d \in RequestData : BeginsRequest(id, d)
  BY <1>3, <1>5 DEF BeginsRequest
<1>6. CASE \E id \in Ids : AbortsRequest(id)
  BY <1>3, <1>6 DEF AbortsRequest
<1>7. CASE \E id \in Ids, d \in RequestData : RepliesToRequest(id, d)
  BY <1>3, <1>7 DEF RepliesToRequest
<1>8. CASE \E q : DiscardsRequests(q)
  BY <1>3, <1>8 DEF DiscardsRequests
<1>9. CASE \E id \in Ids, d \in RequestData : EndsStream(id, d)
  <2>1. PICK id \in Ids, d \in RequestData : EndsStream(id, d)
    BY <1>9
  <2>2. CASE UNCHANGED newRequestCalls
    BY <1>3, <2>1, <2>2 DEF EndsStream
  <2>3. CASE newRequestCalls' = [newRequestCalls EXCEPT ![<<id, d>>] = 1]
    <3>1. fate[d] = "open"
      BY <2>1 DEF EndsStream, IInv, Core, MapAgrees
    <3>2. ASSUME NEW i \in Ids, newRequestCalls[<<i, d>>] # 0
          PROVE  FALSE
      <4>1. newRequestCalls[<<i, d>>] > 0
        BY <3>2 DEF IInv, Core, CoreTypeOK
      <4>2. requestMap[i].data = d
        BY <3>1, <4>1 DEF IInv, Core, OffersAgree
      <4>3. i = id
        BY <2>1, <4>2 DEF EndsStream, IInv, Core, MapAgrees
      <4> QED
        BY <2>1, <3>2, <4>3 DEF EndsStream
    <3> QED
      BY <1>2, <2>1, <2>3, <3>2 DEF EndsStream, OffersFirst
  <2> QED
    BY <2>1, <2>2, <2>3 DEF EndsStream
<1> QED
  BY <1>4, <1>5, <1>6, <1>7, <1>8, <1>9, StepKinds

-----------------------------------------------------------------------------
(* The refinement: the application's calls keep to AnswerRequest. *)
LEMMA StepIsConnectionStep ==
    ASSUME OwnTypeOK, CallsAgree, [FNext]_fvars
    PROVE  [Next]_vars
<1>1. CASE HandleAccept
  BY <1>1 DEF HandleAccept, FNext, fvars, Running, Next
<1>2. CASE ConnectionStep
  BY <1>2 DEF ConnectionStep, FNext, fvars, Running, Next
<1>3. CASE PacketSocketStep
  BY <1>3 DEF PacketSocketStep, FNext, fvars, Running, Next
<1>4. CASE UseDeadConnection \/ DeliverRequest \/ CloseConnection
  BY <1>4 DEF UseDeadConnection, DeliverRequest, CloseConnection
<1>5. CASE PeerDisconnects
  BY <1>5 DEF FNext, fvars, Running, Next
<1>6. ASSUME NEW t \in Threads, NEW d \in RequestData, LockRequest(t, d) \/ DestroyRequest(t, d)
      PROVE  UNCHANGED vars
  BY <1>6 DEF LockRequest, DestroyRequest
<1>7. ASSUME NEW t \in Threads, CancelInDestructor(t)
      PROVE  UNCHANGED vars
  BY <1>7 DEF CancelInDestructor
<1>8. ASSUME NEW t \in Threads, PostReply(t)
      PROVE  \E id \in Ids, d \in RequestData : AnswerRequest(id, d)
  <2>1. call[t] # Idle
    BY <1>8 DEF PostReply, Idle
  <2>2. call[t].data \in RequestData
    BY <2>1, CallKinds DEF OwnTypeOK
  <2>3. commitCalls[call[t].data] = 0
    BY <2>1 DEF CallsAgree
  <2> QED
    BY <1>8, <2>2, <2>3 DEF PostReply, AnswerRequest
<1>9. CASE UNCHANGED fvars
  BY <1>9 DEF fvars
<1>10. CASE FNext
  BY <1>1, <1>2, <1>3, <1>4, <1>5, <1>6, <1>7, <1>8, <1>10 DEF FNext, Running, Next, ApplicationStep
<1> QED
  BY <1>9, <1>10

-----------------------------------------------------------------------------
(* The invariant. *)
LEMMA InitOwn == FInit => OwnInv
<1> SUFFICES ASSUME FInit PROVE OwnInv
  OBVIOUS
<1>1. OwnTypeOK
  <2>1. acceptorQ \in Seq(Notices)
    BY EmptySeq DEF FInit
  <2>2. handle \in [RequestData -> Handlings] /\ call \in [Threads -> {Idle} \union Busy]
    BY DEF FInit, Handlings
  <2> QED
    BY <2>1, <2>2 DEF FInit, OwnTypeOK
<1>2. HandlesAgree /\ CallsAgree
  BY DEF FInit, Init, HandlesAgree, CallsAgree
<1>3. NoticesAgree(acceptorQ) /\ RegistryAgrees
  BY DEF FInit, Init, NoticesAgree, RegistryAgrees
<1> QED
  BY <1>1, <1>2, <1>3 DEF OwnInv

(* A connection that calls back is in the acceptor's map: it has not closed
   before, and a thread has locked it only if it has been read from. *)
LEMMA CallbackFindsActive ==
    ASSUME FInv, ConnectionAlive
    PROVE  registered # "no" /\ (state # "CLOSED" => registered = "active")
<1>1. ASSUME NEW d \in RequestData, Locked(d)
      PROVE  registered # "no"
  <2>1. PICK t \in Threads : call[t] # Idle /\ call[t].data = d
    BY <1>1, NoDataAssumption DEF Locked, Idle
  <2>2. handle[d] # "none"
    BY <2>1 DEF FInv, OwnInv, CallsAgree
  <2>3. PICK id \in Ids : newRequestCalls[<<id, d>>] # 0
    BY <2>2 DEF FInv, OwnInv, HandlesAgree
  <2>4. newRequestCalls[<<id, d>>] > 0
    BY <2>3 DEF FInv, IInv, Core, CoreTypeOK
  <2>5. fate[d] # "unborn"
    BY <2>4 DEF FInv, IInv, Core, OffersAgree
  <2> QED
    BY <2>5 DEF FInv, IInv, Rest, ReadingAgrees, OwnInv, RegistryAgrees
<1> QED
  BY <1>1 DEF ConnectionAlive, FInv, OwnInv, RegistryAgrees, OwnTypeOK

(* What the callbacks of a step post to the acceptor. *)
LEMMA CallbacksAre ==
    ASSUME FInv, [Next]_vars, WithCallbacks
    PROVE  \/ CallsNobody /\ UNCHANGED <<registered, acceptorQ, handle>>
           \/ /\ ReportsClose /\ registered = "active"
              /\ acceptorQ' = Append(acceptorQ, CloseConn)
              /\ UNCHANGED <<registered, handle>>
           \/ \E id \in Ids, d \in RequestData :
                 /\ OffersFirst(id, d) /\ registered = "active"
                 /\ acceptorQ' = Append(acceptorQ, NewRequest(d))
                 /\ handle' = [handle EXCEPT ![d] = "queued"]
                 /\ UNCHANGED registered
<1> newRequestCalls \in [Ids \X RequestData -> Nat] /\ closeCalls \in Nat
  BY DEF FInv, IInv, Core, CoreTypeOK
<1>1. CASE CallsNobody
  <2>1. /\ ~(closeCalls' > closeCalls)
        /\ \A i \in Ids, e \in RequestData :
               ~(newRequestCalls'[<<i, e>>] > newRequestCalls[<<i, e>>])
    BY <1>1 DEF CallsNobody
  <2> QED
    BY <1>1, <2>1 DEF WithCallbacks
<1>2. CASE ReportsClose
  <2>1. registered = "active"
    BY <1>2, CallbackFindsActive DEF WithCallbacks, ReportsClose
  <2>2. /\ closeCalls' # closeCalls
        /\ \A i \in Ids, e \in RequestData :
               ~(newRequestCalls'[<<i, e>>] > newRequestCalls[<<i, e>>])
    BY <1>2 DEF ReportsClose
  <2> QED
    BY <1>2, <2>1, <2>2 DEF WithCallbacks, HandleConnectionClose
<1>3. CASE \E id \in Ids, d \in RequestData : OffersFirst(id, d)
  <2>1. PICK id \in Ids, d \in RequestData : OffersFirst(id, d)
    BY <1>3
  <2>2. registered = "active"
    BY <2>1, CallbackFindsActive DEF WithCallbacks, OffersFirst
  <2>3. \A i \in Ids, e \in RequestData :
            newRequestCalls'[<<i, e>>] = IF i = id /\ e = d THEN 1 ELSE newRequestCalls[<<i, e>>]
    BY <2>1 DEF OffersFirst
  <2>4. closeCalls' = closeCalls /\ newRequestCalls[<<id, d>>] = 0
    BY <2>1 DEF OffersFirst
  <2>5. PICK i \in Ids, e \in RequestData :
             /\ newRequestCalls'[<<i, e>>] > newRequestCalls[<<i, e>>]
             /\ HandleNewRequest(e)
    BY <2>3, <2>4 DEF WithCallbacks
  <2>6. e = d
    BY <2>3, <2>5
  <2> QED
    BY <2>1, <2>2, <2>5, <2>6 DEF HandleNewRequest
<1> QED
  BY <1>1, <1>2, <1>3, CallbackKinds DEF FInv

(* The three steps of the acceptor's queue. *)
LEMMA PostedNotice ==
    ASSUME NEW n \in Notices, acceptorQ \in Seq(Notices),
           acceptorQ' = Append(acceptorQ, n)
    PROVE  /\ acceptorQ' \in Seq(Notices)
           /\ Len(acceptorQ') = Len(acceptorQ) + 1
           /\ \A i \in 1 .. Len(acceptorQ) : acceptorQ'[i] = acceptorQ[i]
           /\ acceptorQ'[Len(acceptorQ) + 1] = n
  BY AppendProperties, LenProperties

LEMMA TakenNotice ==
    ASSUME acceptorQ \in Seq(Notices), acceptorQ # <<>>, acceptorQ' = Tail(acceptorQ)
    PROVE  /\ acceptorQ' \in Seq(Notices)
           /\ Len(acceptorQ) \in Nat \ {0} /\ Len(acceptorQ') = Len(acceptorQ) - 1
           /\ \A i \in 1 .. Len(acceptorQ') : acceptorQ'[i] = acceptorQ[i + 1]
           /\ Head(acceptorQ) = acceptorQ[1] /\ Head(acceptorQ) \in Notices
  BY HeadTailProperties, LenProperties

LEMMA NoticesTyped ==
    ASSUME acceptorQ \in Seq(Notices)
    PROVE  Len(acceptorQ) \in Nat /\ \A i \in 1 .. Len(acceptorQ) : acceptorQ[i] \in Notices
  BY LenProperties, ElementOfSeq

(* A step of the connection, with its callbacks. *)
LEMMA CallbacksKeepOwn ==
    ASSUME FInv, [Next]_vars, WithCallbacks, UNCHANGED commitCalls
    PROVE  OwnInv'
<1> USE DEF FInv, OwnInv
<1>1. registered # "no" /\ UNCHANGED <<call, crash>>
  BY CallbackFindsActive DEF WithCallbacks
<1>2. CASE CallsNobody /\ UNCHANGED <<registered, acceptorQ, handle>>
  <2>1. OwnTypeOK' /\ HandlesAgree'
    BY <1>1, <1>2 DEF CallsNobody, OwnTypeOK, HandlesAgree
  <2>2. CallsAgree' /\ NoticesAgree(acceptorQ)' /\ RegistryAgrees'
    BY <1>1, <1>2 DEF CallsNobody, CallsAgree, NoticesAgree, RegistryAgrees
  <2> QED
    BY <2>1, <2>2
<1>3. CASE /\ ReportsClose /\ registered = "active"
           /\ acceptorQ' = Append(acceptorQ, CloseConn)
           /\ UNCHANGED <<registered, handle>>
  <2>1. /\ acceptorQ' \in Seq(Notices)
        /\ Len(acceptorQ') = Len(acceptorQ) + 1 /\ Len(acceptorQ) \in Nat
        /\ \A i \in 1 .. Len(acceptorQ) : acceptorQ'[i] = acceptorQ[i]
        /\ acceptorQ'[Len(acceptorQ) + 1] = CloseConn
    BY <1>3, PostedNotice, NoticesTyped, NoticeKinds DEF OwnTypeOK
  <2>2. \A i \in 1 .. Len(acceptorQ) : acceptorQ[i] # CloseConn
    BY <1>3 DEF NoticesAgree, ReportsClose
  <2>3. OwnTypeOK' /\ HandlesAgree' /\ CallsAgree' /\ RegistryAgrees'
    BY <1>1, <1>3, <2>1 DEF ReportsClose, OwnTypeOK, HandlesAgree, CallsAgree, RegistryAgrees
  <2>4. NoticesAgree(acceptorQ)'
    <3>1. /\ \A i \in 1 .. Len(acceptorQ') : acceptorQ'[i] = CloseConn =>
                 i = Len(acceptorQ') /\ registered' = "active" /\ state' = "CLOSED"
          /\ \A i \in 1 .. Len(acceptorQ') : acceptorQ'[i] # CloseConn =>
                 handle'[acceptorQ'[i].data] = "queued"
      BY <1>3, <2>1, <2>2 DEF NoticesAgree, ReportsClose
    <3>2. \A i, j \in 1 .. Len(acceptorQ') : acceptorQ'[i] = acceptorQ'[j] => i = j
      BY <2>1, <2>2 DEF NoticesAgree
    <3>3. \A d \in RequestData : handle'[d] = "queued" =>
              \E i \in 1 .. Len(acceptorQ') : acceptorQ'[i] = NewRequest(d)
      BY <1>3, <2>1 DEF NoticesAgree
    <3> QED
      BY <3>1, <3>2, <3>3 DEF NoticesAgree
  <2> QED
    BY <2>3, <2>4
<1>4. ASSUME NEW id \in Ids, NEW d \in RequestData,
             OffersFirst(id, d), registered = "active",
             acceptorQ' = Append(acceptorQ, NewRequest(d)),
             handle' = [handle EXCEPT ![d] = "queued"],
             UNCHANGED registered
      PROVE  OwnInv'
  <2>1. /\ acceptorQ' \in Seq(Notices)
        /\ Len(acceptorQ') = Len(acceptorQ) + 1 /\ Len(acceptorQ) \in Nat
        /\ \A i \in 1 .. Len(acceptorQ) : acceptorQ'[i] = acceptorQ[i]
        /\ acceptorQ'[Len(acceptorQ) + 1] = NewRequest(d)
        /\ \A i \in 1 .. Len(acceptorQ) : acceptorQ[i] \in Notices
    BY <1>4, PostedNotice, NoticesTyped, NoticeKinds DEF OwnTypeOK
  <2>2. handle[d] = "none"
    BY <1>4 DEF OffersFirst, HandlesAgree
  <2>3. \A e \in RequestData : handle'[e] = IF e = d THEN "queued" ELSE handle[e]
    BY <1>4 DEF OwnTypeOK
  <2>4. \A i \in 1 .. Len(acceptorQ) :
            /\ acceptorQ[i] # CloseConn
            /\ acceptorQ[i].data \in RequestData
            /\ handle[acceptorQ[i].data] = "queued"
            /\ acceptorQ[i].data # d
    BY <1>4, <2>1, <2>2, NoticeKinds DEF NoticesAgree, OffersFirst
  <2>5. NewRequest(d) # CloseConn /\ NewRequest(d).data = d
    BY NoticeKinds
  <2>6. OwnTypeOK'
    BY <1>1, <1>4, <2>1 DEF OwnTypeOK, Handlings
  <2>7. HandlesAgree'
    <3>1. \A i \in Ids, e \in RequestData :
              newRequestCalls'[<<i, e>>] = IF i = id /\ e = d THEN 1 ELSE newRequestCalls[<<i, e>>]
      BY <1>4 DEF OffersFirst, IInv, Core, CoreTypeOK
    <3>2. commitCalls'[d] = 0
      BY <2>2 DEF HandlesAgree, IInv, Rest
    <3> SUFFICES ASSUME NEW e \in RequestData
                 PROVE  /\ handle'[e] = "none" <=> \A i \in Ids : newRequestCalls'[<<i, e>>] = 0
                        /\ commitCalls'[e] > 0 => handle'[e] \in {"replied", "destroyed"}
      BY DEF HandlesAgree
    <3>3. CASE e = d
      <4>1. newRequestCalls'[<<id, d>>] = 1 /\ handle'[d] = "queued"
        BY <2>3, <3>1
      <4>2. ~(commitCalls'[d] > 0)
        BY <3>2
      <4> QED
        BY <3>3, <4>1, <4>2
    <3>4. CASE e # d
      BY <2>3, <3>1, <3>4 DEF HandlesAgree
    <3> QED
      BY <3>3, <3>4
  <2>8. CallsAgree'
    <3>1. \A t \in Threads : call[t] # Idle => call[t].data \in RequestData /\ call[t].data # d
      BY <2>2, CallKinds DEF OwnTypeOK, CallsAgree
    <3> QED
      BY <1>1, <2>3, <3>1 DEF CallsAgree
  <2>9. RegistryAgrees'
    BY <1>4 DEF RegistryAgrees
  <2>10. NoticesAgree(acceptorQ)'
    <3>1. /\ \A i \in 1 .. Len(acceptorQ') : acceptorQ'[i] # CloseConn
          /\ \A i \in 1 .. Len(acceptorQ') : handle'[acceptorQ'[i].data] = "queued"
      BY <2>1, <2>3, <2>4, <2>5
    <3>2. \A i, j \in 1 .. Len(acceptorQ') : acceptorQ'[i] = acceptorQ'[j] => i = j
      BY <2>1, <2>4, <2>5 DEF NoticesAgree
    <3>3. \A e \in RequestData : handle'[e] = "queued" =>
              \E i \in 1 .. Len(acceptorQ') : acceptorQ'[i] = NewRequest(e)
      BY <2>1, <2>3 DEF NoticesAgree
    <3> QED
      BY <3>1, <3>2, <3>3 DEF NoticesAgree
  <2> QED
    BY <2>6, <2>7, <2>8, <2>9, <2>10
<1> QED
  BY <1>2, <1>3, <1>4, CallbacksAre

(* A step of the application changes the calls and the handles only. *)
LEMMA OwnInvOf ==
    ASSUME OwnInv, OwnTypeOK', HandlesAgree', CallsAgree',
           UNCHANGED <<acceptorQ, registered, state, reading>>,
           \A d \in RequestData : handle'[d] = "queued" <=> handle[d] = "queued"
    PROVE  OwnInv'
<1> USE DEF OwnInv
<1>1. \A i \in 1 .. Len(acceptorQ) : acceptorQ[i] # CloseConn => acceptorQ[i].data \in RequestData
  BY NoticesTyped, NoticeKinds DEF OwnTypeOK
<1>2. NoticesAgree(acceptorQ)'
  BY <1>1 DEF NoticesAgree
<1> QED
  BY <1>2 DEF RegistryAgrees

LEMMA ApplicationKeepsOwn ==
    ASSUME FInv, NEW t \in Threads, ApplicationStep(t)
    PROVE  OwnInv'
<1> USE DEF FInv, OwnInv
<1>1. ASSUME NEW d \in RequestData, LockRequest(t, d)
      PROVE  OwnInv'
  <2>1. /\ handle[d] = "held" /\ call[t] = Idle /\ ~Locked(d)
        /\ call' = [call EXCEPT ![t] = [at |-> "locked", data |-> d]]
        /\ UNCHANGED <<newRequestCalls, commitCalls, state, reading, registered, acceptorQ, handle, crash>>
    BY <1>1 DEF LockRequest, MutexFree, vars
  <2>2. commitCalls[d] = 0
    BY <2>1 DEF HandlesAgree, IInv, Rest
  <2>3. \A u \in Threads : call[u] # Idle => call[u].data # d
    <3> SUFFICES ASSUME NEW u \in Threads, call[u] # Idle, call[u].data = d
                 PROVE  FALSE
      OBVIOUS
    <3>1. call[u] \in Busy /\ call[u].at = "locked"
      BY <2>1 DEF OwnTypeOK, CallsAgree
    <3>2. call[u] = [at |-> "locked", data |-> d]
      BY <3>1 DEF Busy
    <3> QED
      BY <2>1, <3>2 DEF Locked
  <2>4. OwnTypeOK' /\ HandlesAgree'
    BY <2>1, CallKinds DEF OwnTypeOK, HandlesAgree
  <2>5. \A u \in Threads : call'[u] = IF u = t THEN [at |-> "locked", data |-> d] ELSE call[u]
    BY <2>1 DEF OwnTypeOK
  <2>6. CallsAgree'
    <3>1. \A u \in Threads : call[u] = Idle => call[u].data # d
      BY CallKinds, NoDataAssumption
    <3> QED
      BY <2>1, <2>2, <2>3, <2>5, <3>1, CallKinds DEF CallsAgree
  <2> QED
    BY <2>1, <2>4, <2>6, OwnInvOf
<1>2. ASSUME NEW d \in RequestData, DestroyRequest(t, d)
      PROVE  OwnInv'
  <2>1. /\ handle[d] \in {"held", "replied"} /\ call[t] = Idle
        /\ \A u \in Threads : call[u].data # d
        /\ handle' = [handle EXCEPT ![d] = "destroyed"]
        /\ UNCHANGED <<newRequestCalls, commitCalls, state, reading, registered, acceptorQ, crash>>
    BY <1>2 DEF DestroyRequest, vars
  <2>2. \A e \in RequestData : handle'[e] = IF e = d THEN "destroyed" ELSE handle[e]
    BY <2>1 DEF OwnTypeOK
  <2>3. \/ call' = call
        \/ handle[d] = "held" /\ call' = [call EXCEPT ![t] = [at |-> "dtor", data |-> d]]
    BY <1>2 DEF DestroyRequest
  <2>4. OwnTypeOK'
    <3>1. handle' \in [RequestData -> Handlings]
      BY <2>1 DEF OwnTypeOK, Handlings
    <3>2. call' \in [Threads -> {Idle} \union Busy]
      BY <2>3, CallKinds DEF OwnTypeOK
    <3> QED
      BY <2>1, <3>1, <3>2 DEF OwnTypeOK
  <2>5. HandlesAgree'
    BY <2>1, <2>2 DEF HandlesAgree
  <2>6. \A u \in Threads : call[u] # Idle => call[u].data \in RequestData /\ call[u].data # d
    BY <2>1, CallKinds DEF OwnTypeOK
  <2>7. CASE call' = call
    <3>1. CallsAgree'
      BY <2>1, <2>2, <2>6, <2>7 DEF CallsAgree
    <3> QED
      BY <2>1, <2>2, <2>4, <2>5, <3>1, OwnInvOf
  <2>8. CASE handle[d] = "held" /\ call' = [call EXCEPT ![t] = [at |-> "dtor", data |-> d]]
    <3>1. commitCalls[d] = 0
      BY <2>8 DEF HandlesAgree, IInv, Rest
    <3>2. \A u \in Threads : call'[u] = IF u = t THEN [at |-> "dtor", data |-> d] ELSE call[u]
      BY <2>8 DEF OwnTypeOK
    <3>3. CallsAgree'
      BY <2>1, <2>2, <2>6, <3>1, <3>2, CallKinds DEF CallsAgree
    <3> QED
      BY <2>1, <2>2, <2>4, <2>5, <3>3, OwnInvOf
  <2> QED
    BY <2>3, <2>7, <2>8
<1>3. CASE PostReply(t)
  <2>1. call[t] \in Busy /\ call[t] # Idle /\ call[t].data \in RequestData
    BY <1>3, CallKinds DEF PostReply, OwnTypeOK, Idle
  <2> DEFINE d == call[t].data
  <2>2. /\ commitCalls' = [commitCalls EXCEPT ![d] = @ + 1]
        /\ handle' = [handle EXCEPT ![d] = IF @ = "held" THEN "replied" ELSE @]
        /\ call' = [call EXCEPT ![t] = Idle]
        /\ UNCHANGED <<newRequestCalls, state, reading, registered, acceptorQ, crash>>
    BY <1>3 DEF PostReply, CommitReply
  <2>3. \A e \in RequestData : handle'[e] = IF e = d /\ handle[e] = "held" THEN "replied" ELSE handle[e]
    BY <2>2 DEF OwnTypeOK
  <2>4. \A u \in Threads : call'[u] = IF u = t THEN Idle ELSE call[u]
    BY <2>2 DEF OwnTypeOK
  <2>5. \A e \in RequestData \ {d} : commitCalls'[e] = commitCalls[e]
    BY <2>2 DEF IInv, Rest
  <2>6. handle[d] \in {"held", "destroyed"}
    BY <2>1 DEF CallsAgree
  <2>7. d \in RequestData
    BY <2>1
  <2>8. \A u \in Threads : call[u] # Idle /\ u # t => call[u].data \in RequestData \ {d}
    BY <2>1, CallKinds DEF CallsAgree, OwnTypeOK
  <2> HIDE DEF d
  <2>9. OwnTypeOK'
    <3>1. handle' \in [RequestData -> Handlings]
      BY <2>2 DEF OwnTypeOK, Handlings
    <3>2. call' \in [Threads -> {Idle} \union Busy]
      BY <2>2 DEF OwnTypeOK
    <3> QED
      BY <2>2, <3>1, <3>2 DEF OwnTypeOK
  <2>10. HandlesAgree'
    BY <2>2, <2>3, <2>5, <2>6, <2>7 DEF HandlesAgree
  <2>11. CallsAgree'
    BY <2>3, <2>4, <2>5, <2>8, CallKinds, NoDataAssumption DEF CallsAgree
  <2> QED
    BY <2>2, <2>3, <2>9, <2>10, <2>11, OwnInvOf
<1>4. CASE CancelInDestructor(t)
  <2>1. /\ call[t].at = "dtor"
        /\ call' = call \/ call' = [call EXCEPT ![t] = [at |-> "locked", data |-> call[t].data]]
        /\ crash' \in {crash, "~Request"}
        /\ UNCHANGED <<newRequestCalls, commitCalls, state, reading, registered, acceptorQ, handle>>
    <3>1. call[t] \in Busy
      BY <1>4 DEF CancelInDestructor, OwnTypeOK, Idle
    <3>2. [call[t] EXCEPT !.at = "locked"] = [at |-> "locked", data |-> call[t].data]
      BY <3>1 DEF Busy
    <3> QED
      BY <1>4, <3>2 DEF CancelInDestructor, vars
  <2>2. call[t] # Idle /\ call[t].data \in RequestData
    BY <2>1, CallKinds DEF OwnTypeOK, Idle
  <2>3. handle[call[t].data] = "destroyed"
    BY <2>1, <2>2 DEF CallsAgree
  <2>4. OwnTypeOK'
    <3>1. call' \in [Threads -> {Idle} \union Busy]
      BY <2>1, <2>2, CallKinds DEF OwnTypeOK
    <3> QED
      BY <2>1, <3>1 DEF OwnTypeOK
  <2>5. HandlesAgree'
    BY <2>1 DEF HandlesAgree
  <2>6. CallsAgree'
    <3>1. CASE call' = call
      BY <2>1, <3>1 DEF CallsAgree
    <3>2. CASE call' = [call EXCEPT ![t] = [at |-> "locked", data |-> call[t].data]]
      <4>1. /\ \A u \in Threads : call'[u].data = call[u].data
            /\ \A u \in Threads : call'[u] # Idle <=> call[u] # Idle
            /\ \A u \in Threads \ {t} : call'[u] = call[u]
        BY <2>2, <3>2, CallKinds DEF OwnTypeOK
      <4> QED
        BY <2>1, <2>3, <4>1 DEF CallsAgree
    <3> QED
      BY <2>1, <3>1, <3>2
  <2> QED
    BY <2>1, <2>4, <2>5, <2>6, OwnInvOf
<1> QED
  BY <1>1, <1>2, <1>3, <1>4 DEF ApplicationStep

LEMMA DeliverKeepsOwn ==
    ASSUME FInv, DeliverRequest
    PROVE  OwnInv'
<1> USE DEF FInv, OwnInv
<1>1. /\ acceptorQ' \in Seq(Notices)
      /\ Len(acceptorQ) \in Nat \ {0} /\ Len(acceptorQ') = Len(acceptorQ) - 1
      /\ \A i \in 1 .. Len(acceptorQ') : acceptorQ'[i] = acceptorQ[i + 1]
      /\ Head(acceptorQ) = acceptorQ[1] /\ Head(acceptorQ) \in Notices
  BY TakenNotice DEF DeliverRequest, OwnTypeOK
<1> DEFINE d == Head(acceptorQ).data
<1>2. /\ d \in RequestData /\ acceptorQ[1] = NewRequest(d) /\ acceptorQ[1] # CloseConn
      /\ acceptorQ[1].data = d
  BY <1>1, NoticeKinds DEF DeliverRequest
<1>3. /\ handle' = [handle EXCEPT ![d] = "held"]
      /\ UNCHANGED <<newRequestCalls, commitCalls, state, reading, registered, call, crash>>
  BY DEF DeliverRequest, vars
<1> HIDE DEF d
<1>4. 1 \in 1 .. Len(acceptorQ) /\ acceptorQ # <<>>
  BY <1>1 DEF DeliverRequest
<1>5. handle[d] = "queued"
  BY <1>2, <1>4 DEF NoticesAgree
<1>6. \A e \in RequestData : handle'[e] = IF e = d THEN "held" ELSE handle[e]
  BY <1>3 DEF OwnTypeOK
<1>7. OwnTypeOK'
  BY <1>1, <1>3 DEF OwnTypeOK, Handlings
<1>8. HandlesAgree'
  BY <1>3, <1>5, <1>6 DEF HandlesAgree
<1>9. CallsAgree'
  <2>1. \A t \in Threads : call[t] # Idle => call[t].data \in RequestData /\ call[t].data # d
    BY <1>5, CallKinds DEF OwnTypeOK, CallsAgree
  <2> QED
    BY <1>3, <1>6, <2>1 DEF CallsAgree
<1>10. RegistryAgrees'
  BY <1>3, <1>4 DEF RegistryAgrees
<1>11. NoticesAgree(acceptorQ)'
  <2>1. \A i \in 1 .. Len(acceptorQ') : i + 1 \in 1 .. Len(acceptorQ) /\ i + 1 # 1
    BY <1>1
  <2>2. \A i \in 1 .. Len(acceptorQ') : acceptorQ'[i] = CloseConn =>
            i = Len(acceptorQ') /\ registered' = "active" /\ state' = "CLOSED"
    BY <1>1, <1>3, <2>1 DEF NoticesAgree
  <2>3. ASSUME NEW i \in 1 .. Len(acceptorQ'), acceptorQ'[i] # CloseConn
        PROVE  handle'[acceptorQ'[i].data] = "queued"
    <3>1. acceptorQ[i + 1] \in Notices /\ acceptorQ'[i] = acceptorQ[i + 1]
      BY <1>1, <2>1, NoticesTyped DEF OwnTypeOK
    <3>2. /\ acceptorQ[i + 1].data \in RequestData
          /\ acceptorQ[i + 1] = NewRequest(acceptorQ[i + 1].data)
      BY <2>3, <3>1, NoticeKinds
    <3>3. acceptorQ[i + 1] # acceptorQ[1]
      BY <1>4, <2>1 DEF NoticesAgree
    <3>4. acceptorQ[i + 1].data # d
      BY <1>2, <3>2, <3>3
    <3>5. handle[acceptorQ[i + 1].data] = "queued"
      BY <2>1, <2>3, <3>1 DEF NoticesAgree
    <3> QED
      BY <1>6, <3>1, <3>2, <3>4, <3>5
  <2>4. \A i, j \in 1 .. Len(acceptorQ') : acceptorQ'[i] = acceptorQ'[j] => i = j
    <3> SUFFICES ASSUME NEW i \in 1 .. Len(acceptorQ'), NEW j \in 1 .. Len(acceptorQ'),
                        acceptorQ'[i] = acceptorQ'[j]
                 PROVE  i = j
      OBVIOUS
    <3>1. acceptorQ[i + 1] = acceptorQ[j + 1]
      BY <1>1
    <3>2. i + 1 = j + 1
      BY <2>1, <3>1 DEF NoticesAgree
    <3> QED
      BY <3>2
  <2>5. ASSUME NEW e \in RequestData, handle'[e] = "queued"
        PROVE  \E i \in 1 .. Len(acceptorQ') : acceptorQ'[i] = NewRequest(e)
    <3>1. e # d /\ handle[e] = "queued"
      BY <1>6, <2>5
    <3>2. PICK i \in 1 .. Len(acceptorQ) : acceptorQ[i] = NewRequest(e)
      BY <3>1 DEF NoticesAgree
    <3>3. i # 1
      BY <1>2, <3>1, <3>2, NoticeKinds
    <3>4. i - 1 \in 1 .. Len(acceptorQ') /\ acceptorQ'[i - 1] = acceptorQ[i]
      BY <1>1, <3>3
    <3> QED
      BY <3>2, <3>4
  <2> QED
    BY <2>2, <2>3, <2>4, <2>5 DEF NoticesAgree
<1> QED
  BY <1>7, <1>8, <1>9, <1>10, <1>11

LEMMA CloseKeepsOwn ==
    ASSUME FInv, CloseConnection
    PROVE  OwnInv'
<1> USE DEF FInv, OwnInv
<1>1. /\ acceptorQ' \in Seq(Notices)
      /\ Len(acceptorQ) \in Nat \ {0} /\ Len(acceptorQ') = Len(acceptorQ) - 1
      /\ Head(acceptorQ) = acceptorQ[1]
  BY TakenNotice DEF CloseConnection, OwnTypeOK
<1>2. /\ acceptorQ[1] = CloseConn /\ registered' = "erased"
      /\ UNCHANGED <<newRequestCalls, commitCalls, state, reading, handle, call, crash>>
  BY <1>1 DEF CloseConnection, vars
<1>3. Len(acceptorQ) = 1 /\ state = "CLOSED"
  BY <1>1, <1>2 DEF NoticesAgree
<1>4. acceptorQ' = <<>> /\ Len(acceptorQ') = 0
  BY <1>1, <1>3, EmptySeq
<1>5. \A d \in RequestData : handle[d] # "queued"
  BY <1>2, <1>3, NoticeKinds DEF NoticesAgree
<1>6. OwnTypeOK' /\ HandlesAgree' /\ CallsAgree'
  BY <1>1, <1>2 DEF OwnTypeOK, HandlesAgree, CallsAgree
<1>7. NoticesAgree(acceptorQ)' /\ RegistryAgrees'
  BY <1>2, <1>3, <1>4, <1>5 DEF NoticesAgree, RegistryAgrees
<1> QED
  BY <1>6, <1>7

LEMMA StepKeepsFInv == FInv /\ [FNext]_fvars => FInv'
<1> SUFFICES ASSUME FInv, [FNext]_fvars PROVE FInv'
  OBVIOUS
<1> USE DEF FInv, OwnInv
<1>1. [Next]_vars
  BY StepIsConnectionStep
<1>2. IInv'
  BY <1>1, StepKeepsIInv
<1>3. CASE HandleAccept
  <2>1. /\ registered = "no" /\ registered' = "active"
        /\ UNCHANGED <<newRequestCalls, commitCalls, state, acceptorQ, handle, call, crash>>
    BY <1>3 DEF HandleAccept, Start
  <2>2. acceptorQ = <<>>
    BY <2>1 DEF RegistryAgrees
  <2>3. OwnTypeOK' /\ HandlesAgree' /\ CallsAgree' /\ RegistryAgrees'
    BY <2>1 DEF OwnTypeOK, HandlesAgree, CallsAgree, RegistryAgrees
  <2>4. NoticesAgree(acceptorQ)'
    BY <2>1, <2>2 DEF NoticesAgree
  <2> QED
    BY <1>2, <2>3, <2>4
<1>4. CASE ConnectionStep
  <2>1. UNCHANGED commitCalls
    BY <1>4 DEF ConnectionStep, ReadError, ReadBytes, HandlePacket, HandleControl,
       WriteOnClosedSocket, Abort, AbortAfterClose, HandleBeginRequest, HandleAbortRequest,
       HandleEndOfStream, CommitReplyImpl
  <2> QED
    BY <1>1, <1>2, <1>4, <2>1, CallbacksKeepOwn DEF ConnectionStep
<1>5. CASE PacketSocketStep
  <2>1. /\ UNCHANGED <<newRequestCalls, commitCalls, state, registered, acceptorQ, handle, call, crash>>
        /\ reading = "loop" \/ UNCHANGED reading
    BY <1>5 DEF PacketSocketStep, ReadLoopEnd, FlushProtocolSocket, avars
  <2>2. OwnTypeOK' /\ HandlesAgree' /\ CallsAgree' /\ RegistryAgrees'
    BY <2>1 DEF OwnTypeOK, HandlesAgree, CallsAgree, RegistryAgrees
  <2>3. NoticesAgree(acceptorQ)'
    BY <2>1 DEF NoticesAgree
  <2> QED
    BY <1>2, <2>2, <2>3
<1>6. CASE UseDeadConnection
  <2>1. /\ UNCHANGED <<newRequestCalls, commitCalls, state, reading, registered, acceptorQ, handle, call>>
        /\ crash' \in {"deadConnection", "deadReadLoop"}
    BY <1>6 DEF UseDeadConnection, vars
  <2>2. OwnTypeOK' /\ HandlesAgree' /\ CallsAgree' /\ RegistryAgrees'
    BY <2>1 DEF OwnTypeOK, HandlesAgree, CallsAgree, RegistryAgrees
  <2>3. NoticesAgree(acceptorQ)'
    BY <2>1 DEF NoticesAgree
  <2> QED
    BY <1>2, <2>2, <2>3
<1>7. CASE DeliverRequest
  BY <1>2, <1>7, DeliverKeepsOwn
<1>8. CASE CloseConnection
  BY <1>2, <1>8, CloseKeepsOwn
<1>9. CASE (PeerDisconnects /\ UNCHANGED avars) \/ UNCHANGED fvars
  <2>1. UNCHANGED <<newRequestCalls, commitCalls, state, reading, registered, acceptorQ, handle, call, crash>>
    BY <1>9 DEF PeerDisconnects, avars, fvars, vars
  <2>2. OwnTypeOK' /\ HandlesAgree' /\ CallsAgree' /\ RegistryAgrees'
    BY <2>1 DEF OwnTypeOK, HandlesAgree, CallsAgree, RegistryAgrees
  <2>3. NoticesAgree(acceptorQ)'
    BY <2>1 DEF NoticesAgree
  <2> QED
    BY <1>2, <2>2, <2>3
<1>10. ASSUME NEW t \in Threads, ApplicationStep(t)
       PROVE  FInv'
  BY <1>2, <1>10, ApplicationKeepsOwn
<1> QED
  BY <1>3, <1>4, <1>5, <1>6, <1>7, <1>8, <1>9, <1>10 DEF FNext

-----------------------------------------------------------------------------
(* FInv holds in every reachable state. *)
THEOREM FastcgiInvariance == FSpec => []FInv
<1>1. FInit => FInv
  BY InitOwn, InitIInv DEF FInit, FInv
<1> QED
  BY <1>1, StepKeepsFInv, PTL DEF FSpec

(* Every variable keeps its type: every thread is in a call for a request
   that exists, and both queues hold what their strands can run. *)
THEOREM FastcgiTypes == FSpec => []FTypeOK
<1>1. FInv => FTypeOK
  <2>1. IInv => TypeOK
    BY DEF IInv, Core, CoreTypeOK, Rest, Fates, TypeOK
  <2> QED
    BY <2>1 DEF FInv, OwnInv, OwnTypeOK, FTypeOK, Notices, Busy, Handlings
<1> QED
  BY <1>1, FastcgiInvariance, PTL

(* With its callers around it the connection is Connection: the mutex, the
   weak pointers and _hasReplied let each offered request be answered at
   most once. *)
THEOREM FastcgiImplements == FSpec => ImplementsConnection
<1>1. FInit => Init
  BY DEF FInit
<1>2. FInv /\ [FNext]_fvars => [Next]_vars
  BY StepIsConnectionStep DEF FInv, OwnInv
<1> QED
  BY <1>1, <1>2, FastcgiInvariance, PTL DEF FSpec, Spec, ImplementsConnection

(* What the server is promised about each request holds of the connection
   with all that calls it, not only of the connection by itself. *)
THEOREM FastcgiKeepsLifecycle == FSpec => ImplementsLifecycle
<1> QED
  BY FastcgiImplements, Refinement, PTL DEF ImplementsConnection

(* The assertions of closeConnection and handleConnectionClose hold: the
   acceptor is asked once to erase a connection it has. *)
THEOREM ErasesOnce == FSpec => []ErasedOnceAfterClose
<1>1. FInv => ErasedOnceAfterClose
  <2> SUFFICES ASSUME FInv PROVE ErasedOnceAfterClose
    OBVIOUS
  <2>1. DOMAIN acceptorQ = 1 .. Len(acceptorQ)
    BY LenProperties DEF FInv, OwnInv, OwnTypeOK
  <2> QED
    BY <2>1 DEF FInv, OwnInv, NoticesAgree, ErasedOnceAfterClose
<1> QED
  BY <1>1, FastcgiInvariance, PTL

(* No request is still on its way to the application when its connection
   leaves the acceptor's map. *)
THEOREM DeliversBeforeErase == FSpec => []NotErasedBeforeDelivery
<1>1. FInv => NotErasedBeforeDelivery
  BY DEF FInv, OwnInv, RegistryAgrees, NoticesAgree, NotErasedBeforeDelivery
<1> QED
  BY <1>1, FastcgiInvariance, PTL

(* Every callback of the connection finds its entry in the acceptor's map. *)
THEOREM FindsConnection == FSpec => CallbacksFindConnection
<1>1. FInv /\ [FNext]_fvars => [<<closeCalls, newRequestCalls>>' # <<closeCalls, newRequestCalls>>
                                   => registered = "active"]_fvars
  <2> SUFFICES ASSUME FInv, [FNext]_fvars,
                      <<closeCalls, newRequestCalls>>' # <<closeCalls, newRequestCalls>>
               PROVE  registered = "active"
    OBVIOUS
  <2>1. ConnectionStep
    BY DEF FNext, fvars, vars, HandleAccept, Start, PacketSocketStep, ReadLoopEnd,
       FlushProtocolSocket, UseDeadConnection, DeliverRequest, CloseConnection, PeerDisconnects,
       ApplicationStep, LockRequest, DestroyRequest, PostReply, CommitReply, CancelInDestructor
  <2>2. [Next]_vars
    BY StepIsConnectionStep DEF FInv, OwnInv
  <2> QED
    BY <2>1, <2>2, CallbacksAre DEF ConnectionStep, CallsNobody
<1> QED
  BY <1>1, FastcgiInvariance, PTL DEF FSpec, CallbacksFindConnection

=============================================================================
