-------------------------- MODULE ConnectionProofs --------------------------
(***************************************************************************)
(* The safety properties of Connection, for any request ids and any number *)
(* of requests, from one inductive invariant.                              *)
(***************************************************************************)
EXTENDS Connection, TLAPS

(* The connection, its socket and its close callback agree. *)
CloseAgrees ==
    /\ sockState = "CLOSED" <=> state = "CLOSED"
    /\ closeCalls = IF state = "CLOSED" THEN 1 ELSE 0

(* Nothing has happened before the first read, and a read loop that is still
   running on a closed connection found its map empty. *)
ReadingAgrees ==
    /\ reading \in {"unstarted", "armed"} =>
           /\ state = "OPEN" /\ requestMap = EmptyMap /\ strandQ = <<>>
           /\ \A d \in RequestData : fate[d] = "unborn"
    /\ reading = "abortTail" => state = "CLOSED"
    /\ reading \in {"loop", "abortTail"} /\ state = "CLOSED" =>
           requestMap = EmptyMap /\ peer = "gone"

(* The map holds the open requests, each under one id. *)
MapAgrees ==
    /\ \A i, j \in Ids : Mapped(i) /\ requestMap[i].data = requestMap[j].data => i = j
    /\ \A id \in Ids : Mapped(id) => fate[requestMap[id].data] = "open"
    /\ \A d \in RequestData : fate[d] = "open" => \E id \in Ids : requestMap[id].data = d

(* What has been offered was whole, and is known by one id. *)
OffersAgree ==
    /\ \A id \in Ids, d \in RequestData : newRequestCalls[<<id, d>>] > 0 =>
           fate[d] # "unborn" /\ (fate[d] = "open" => requestMap[id].data = d)
    /\ state = "CLOSED" => \A id \in Ids : requestMap[id].completed = {}

(* A posted reply was offered first, a posted flush was posted by close. *)
RepliesOffered(q, calls) ==
    \A n \in 1 .. Len(q) : q[n] # Flush => calls[<<q[n].id, q[n].data>>] > 0

NoFlush(q) == \A n \in 1 .. Len(q) : q[n] # Flush

StrandAgrees ==
    /\ RepliesOffered(strandQ, newRequestCalls)
    /\ sockState = "OPEN" => NoFlush(strandQ)

(* Only a failure of the socket discards requests. *)
DiscardsAgree ==
    peer = "up" => \A d \in RequestData : fate[d] # "discarded"

Fates == {"unborn", "open", "replied", "aborted", "discarded"}

(* The invariant in two parts: what a close and an erase carry through, and
   what concerns the read, the application and the process. *)
CoreTypeOK ==
    /\ state \in {"OPEN", "CLOSING", "CLOSED"}
    /\ sockState \in {"OPEN", "CLOSED"}
    /\ requestMap \in [Ids -> Entries \union {Absent}]
    /\ strandQ \in Seq(Handlers)
    /\ newRequestCalls \in [Ids \X RequestData -> Nat]
    /\ closeCalls \in Nat
    /\ fate \in [RequestData -> Fates]

Core ==
    /\ CoreTypeOK
    /\ CloseAgrees
    /\ MapAgrees
    /\ OfferedOnceWhenWhole
    /\ OffersAgree
    /\ StrandAgrees
    /\ DiscardsAgree

Rest ==
    /\ reading \in {"unstarted", "armed", "loop", "abortTail", "done"}
    /\ peer \in {"up", "gone"}
    /\ commitCalls \in [RequestData -> Nat]
    /\ failedAssert \in {"none", "writePacket", "handleTransceiverEvent",
                         "cleanupRequest", "flushProtocolSocket"}
    /\ ReadingAgrees
    /\ CleanClose
    /\ CleanupAssertionsHold

IInv == Core /\ Rest
-----------------------------------------------------------------------------
LEMMA TailOfHandlers ==
    ASSUME NEW q \in Seq(Handlers), q # <<>>, NEW calls
    PROVE  /\ Tail(q) \in Seq(Handlers)
           /\ RepliesOffered(q, calls) => RepliesOffered(Tail(q), calls)
           /\ NoFlush(q) => NoFlush(Tail(q))
  BY DEF RepliesOffered, NoFlush

LEMMA AppendHandler ==
    ASSUME NEW q \in Seq(Handlers), NEW h \in Handlers, NEW calls
    PROVE  /\ Append(q, h) \in Seq(Handlers)
           /\ RepliesOffered(q, calls)
              /\ (h # Flush => calls[<<h.id, h.data>>] > 0)
                 => RepliesOffered(Append(q, h), calls)
           /\ NoFlush(q) /\ h # Flush => NoFlush(Append(q, h))
  BY DEF RepliesOffered, NoFlush

LEMMA HandlerKinds ==
    /\ Flush \in Handlers
    /\ \A h \in Handlers : h # Flush =>
           \E id \in Ids, d \in RequestData : h = Reply(id, d)
    /\ \A id \in Ids, d \in RequestData : 
          /\ Reply(id, d) \in Handlers
          /\ Reply(id, d) # Flush
          /\ Reply(id, d).id = id
          /\ Reply(id, d).data = d
  BY DEF Handlers, Flush, Reply

LEMMA InitIInv == Init => IInv
<1> SUFFICES ASSUME Init PROVE IInv
  OBVIOUS
<1>1. CoreTypeOK
  BY NoDataAssumption DEF Init, CoreTypeOK, Fates, EmptyMap
<1>2. CloseAgrees /\ ReadingAgrees
  BY DEF Init, CloseAgrees, ReadingAgrees
<1>3. MapAgrees /\ OfferedOnceWhenWhole
  BY NoDataAssumption DEF Init, MapAgrees, OfferedOnceWhenWhole, Mapped, EmptyMap, Absent
<1>4. OffersAgree /\ StrandAgrees
  BY DEF Init, OffersAgree, StrandAgrees, RepliesOffered, NoFlush
<1>5. DiscardsAgree /\ CleanClose /\ CleanupAssertionsHold
  BY DEF Init, DiscardsAgree, CleanClose, CleanupAssertionsHold
<1> QED
  BY <1>1, <1>2, <1>3, <1>4, <1>5 DEF Init, IInv, Core, Rest

-----------------------------------------------------------------------------
(* A close leaves no request open, whatever it is given. *)
LEMMA CloseKeepsCore ==
    ASSUME Core, state # "CLOSED", 
           NEW f \in [RequestData -> Fates], NEW q \in Seq(Handlers),
           RepliesOffered(q, newRequestCalls),
           \A d \in RequestData : f[d] = "unborn" <=> fate[d] = "unborn",
           peer = "up" => \A d \in RequestData : f[d] \notin {"open", "discarded"},
           CloseAndCleanup(f, q), UNCHANGED <<newRequestCalls, peer>>
    PROVE  /\ Core'
           /\ state' = "CLOSED"
           /\ requestMap' = EmptyMap
           /\ peer = "up" => CleanClose'
<1>1. CoreTypeOK'
  <2>1. ClosePacketSocket(q) \in Seq(Handlers)
    BY AppendHandler, HandlerKinds DEF ClosePacketSocket
  <2>2. fate' \in [RequestData -> Fates]
    BY DEF CloseAndCleanup, Fates
  <2>3. requestMap' \in [Ids -> Entries \union {Absent}]
    BY DEF CloseAndCleanup, EmptyMap
  <2> QED
    BY <2>1, <2>2, <2>3 DEF CloseAndCleanup, Core, CoreTypeOK
<1>2. CloseAgrees'
  BY DEF CloseAndCleanup, Core, CloseAgrees
<1>3. MapAgrees' /\ OfferedOnceWhenWhole'
  BY NoDataAssumption DEF CloseAndCleanup, Core, CoreTypeOK, MapAgrees, OfferedOnceWhenWhole, Mapped,
     EmptyMap, Absent, Fates
<1>4. OffersAgree'
  BY DEF CloseAndCleanup, Core, CoreTypeOK, OffersAgree, EmptyMap, Absent, Fates
<1>5. StrandAgrees'
  <2>1. RepliesOffered(ClosePacketSocket(q), newRequestCalls)
    BY AppendHandler, HandlerKinds DEF ClosePacketSocket
  <2> QED
    BY <2>1 DEF CloseAndCleanup, StrandAgrees
<1>6. DiscardsAgree'
  BY DEF CloseAndCleanup, DiscardsAgree, Core, CoreTypeOK
<1>7. peer = "up" => CleanClose'
  BY DEF CloseAndCleanup, CleanClose, Core, CoreTypeOK, Fates
<1> QED
  BY <1>1, <1>2, <1>3, <1>4, <1>5, <1>6, <1>7 DEF Core, CloseAndCleanup

(* The socket failed: everything open is discarded. *)
LEMMA FailureKeepsCore ==
    ASSUME Core, state # "CLOSED", peer = "gone",
           NEW q \in Seq(Handlers), RepliesOffered(q, newRequestCalls),
           CloseAndCleanup(fate, q), UNCHANGED <<newRequestCalls, peer>>
    PROVE  Core' /\ state' = "CLOSED" /\ requestMap' = EmptyMap /\ CleanClose'
<1>1. fate \in [RequestData -> Fates]
  BY DEF Core, CoreTypeOK
<1>2. Core' /\ state' = "CLOSED" /\ requestMap' = EmptyMap
  BY <1>1, CloseKeepsCore, peer = "gone"
<1> QED
  BY <1>2, peer = "gone" DEF CleanClose

LEMMA EraseKeepsCore ==
    ASSUME Core, state # "CLOSED",
           NEW id \in Ids, Mapped(id), NEW outcome \in {"replied", "aborted"},
           NEW q \in Seq(Handlers), RepliesOffered(q, newRequestCalls),
           NoFlush(strandQ) => NoFlush(q),
           EraseRequest(id, outcome, q), UNCHANGED <<newRequestCalls, peer>>
    PROVE  /\ Core'
           /\ CleanClose'
           /\ state' = "CLOSED" => requestMap' = EmptyMap
<1> DEFINE d == requestMap[id].data
           f == [fate EXCEPT ![d] = outcome]
<1>1. d \in RequestData /\ fate[d] = "open"
  BY DEF Core, CoreTypeOK, MapAgrees, Mapped, Entries, Absent
<1>2. f \in [RequestData -> Fates]
  BY DEF Core, CoreTypeOK, Fates
<1>3. CASE LastMapped(id) /\ state = "CLOSING"
  <2>1. CloseAndCleanup(f, q)
    BY <1>3 DEF EraseRequest
  <2>2. \A e \in RequestData : f[e] # "open"
    BY <1>1, <1>3, NoDataAssumption DEF Core, CoreTypeOK, MapAgrees, LastMapped, Mapped
  <2>3. \A e \in RequestData : f[e] = "unborn" <=> fate[e] = "unborn"
    BY <1>1 DEF Core, CoreTypeOK
  <2>4. peer = "up" => \A e \in RequestData : f[e] \notin {"open", "discarded"}
    BY <2>2, <1>1 DEF Core, CoreTypeOK, DiscardsAgree
  <2>5. Core' /\ state' = "CLOSED" /\ requestMap' = EmptyMap /\ (peer = "up" => CleanClose')
    BY <1>2, <2>1, <2>3, <2>4, CloseKeepsCore
  <2> QED
    BY <2>5 DEF CleanClose
<1>4. CASE ~(LastMapped(id) /\ state = "CLOSING")
  <2>1. /\ requestMap' = [requestMap EXCEPT ![id] = Absent]
        /\ fate' = f
        /\ strandQ' = q
        /\ UNCHANGED <<state, sockState, closeCalls>>
    BY <1>4 DEF EraseRequest
  <2>2. CoreTypeOK' /\ CloseAgrees'
    BY <1>2, <2>1 DEF Core, CoreTypeOK, CloseAgrees
  <2>3. MapAgrees'
    BY <1>1, <2>1, NoDataAssumption DEF Core, CoreTypeOK, MapAgrees, Mapped, Absent
  <2>4. OfferedOnceWhenWhole'
    BY <1>1, <2>1 DEF Core, CoreTypeOK, OfferedOnceWhenWhole, Mapped, Absent
  <2>5. OffersAgree'
    BY <1>1, <2>1 DEF Core, CoreTypeOK, OffersAgree, MapAgrees, Mapped, Absent
  <2>6. StrandAgrees' /\ DiscardsAgree'
    BY <1>1, <2>1 DEF Core, CoreTypeOK, StrandAgrees, DiscardsAgree
  <2>7. state' # "CLOSED"
    BY <2>1
  <2> QED
    BY <2>2, <2>3, <2>4, <2>5, <2>6, <2>7 DEF Core, CleanClose
<1> QED
  BY <1>3, <1>4

-----------------------------------------------------------------------------
(* A posted reply that is still valid finds its request whole and the
   socket open. *)
LEMMA ValidReply ==
    ASSUME Core, strandQ # <<>>, Head(strandQ) # Flush,
           IsValidRequest(Head(strandQ).id, Head(strandQ).data)
    PROVE  \E id \in Ids, d \in RequestData :
               /\ Head(strandQ) = Reply(id, d)
               /\ Head(strandQ).id = id /\ Head(strandQ).data = d
               /\ Mapped(id) /\ requestMap[id].data = d
               /\ newRequestCalls[<<id, d>>] > 0
               /\ requestMap[id].completed = Completed
               /\ state # "CLOSED"
               /\ sockState = "OPEN"
<1>1. Head(strandQ) \in Handlers /\ 1 \in 1 .. Len(strandQ) /\ Head(strandQ) = strandQ[1]
  BY DEF Core, CoreTypeOK
<1>2. PICK id \in Ids, d \in RequestData : Head(strandQ) = Reply(id, d)
  BY <1>1, HandlerKinds
<1>3. Head(strandQ).id = id /\ Head(strandQ).data = d
  BY <1>2, HandlerKinds
<1>4. newRequestCalls[<<id, d>>] > 0
  BY <1>1, <1>3 DEF Core, StrandAgrees, RepliesOffered
<1>5. requestMap[id].data = d /\ Mapped(id)
  BY <1>3, NoDataAssumption DEF IsValidRequest, Mapped
<1>6. requestMap[id].completed = Completed
  BY <1>4, <1>5 DEF Core, OfferedOnceWhenWhole
<1>7. state # "CLOSED" /\ sockState = "OPEN"
  BY <1>6 DEF Core, CoreTypeOK, OffersAgree, CloseAgrees, Completed
<1> QED
  BY <1>2, <1>3, <1>4, <1>5, <1>6, <1>7

LEMMA StepKeepsIInv == IInv /\ [Next]_vars => IInv'
<1> SUFFICES ASSUME Core, Rest, [Next]_vars
             PROVE  Core' /\ Rest'
  BY DEF IInv
<1>1. CASE Start
  <2>1. Core'
    BY <1>1 DEF Start, Core, CoreTypeOK, CloseAgrees, MapAgrees, OfferedOnceWhenWhole,
       OffersAgree, StrandAgrees, DiscardsAgree, Mapped
  <2>2. Rest'
    BY <1>1 DEF Start, Rest, ReadingAgrees, CleanClose, CleanupAssertionsHold
  <2> QED
    BY <2>1, <2>2
<1>2. CASE ReadError
  <2>1. state # "CLOSED" /\ peer = "gone" /\ reading' = "done"
    BY <1>2 DEF ReadError, Rest, ReadingAgrees
  <2>2. Core' /\ CleanClose'
    <3>1. strandQ \in Seq(Handlers) /\ RepliesOffered(strandQ, newRequestCalls)
      BY DEF Core, CoreTypeOK, StrandAgrees
    <3> QED
      BY <1>2, <2>1, <3>1, FailureKeepsCore DEF ReadError
  <2>3. Rest'
    BY <1>2, <2>1, <2>2 DEF ReadError, Rest, ReadingAgrees, CleanupAssertionsHold
  <2> QED
    BY <2>2, <2>3
<1>3. CASE ReadBytes
  <2>1. Core'
    BY <1>3 DEF ReadBytes, Core, CoreTypeOK, CloseAgrees, MapAgrees, OfferedOnceWhenWhole,
       OffersAgree, StrandAgrees, DiscardsAgree, Mapped
  <2>2. Rest'
    BY <1>3 DEF ReadBytes, Rest, ReadingAgrees, CleanClose, CleanupAssertionsHold
  <2> QED
    BY <2>1, <2>2
<1>4. CASE ReadLoopEnd
  <2>1. Core'
    BY <1>4 DEF ReadLoopEnd, Core, CoreTypeOK, CloseAgrees, MapAgrees, OfferedOnceWhenWhole,
       OffersAgree, StrandAgrees, DiscardsAgree, Mapped
  <2>2. Rest'
    BY <1>4 DEF ReadLoopEnd, Rest, ReadingAgrees, CleanClose, CleanupAssertionsHold
  <2> QED
    BY <2>1, <2>2
<1>5. CASE HandleControl
  <2>1. state # "CLOSED" /\ peer = "gone"
    BY <1>5 DEF HandleControl, Core, CloseAgrees
  <2>2. Core' /\ CleanClose' /\ state' = "CLOSED" /\ requestMap' = EmptyMap
    <3>1. strandQ \in Seq(Handlers) /\ RepliesOffered(strandQ, newRequestCalls)
      BY DEF Core, CoreTypeOK, StrandAgrees
    <3> QED
      BY <1>5, <2>1, <3>1, FailureKeepsCore DEF HandleControl
  <2>3. Rest'
    BY <1>5, <2>1, <2>2 DEF HandleControl, AfterPacket, Rest, ReadingAgrees, CleanupAssertionsHold
  <2> QED
    BY <2>2, <2>3
<1>6. CASE WriteOnClosedSocket
  <2>1. Core'
    BY <1>6 DEF WriteOnClosedSocket, Abort, Core, CoreTypeOK, CloseAgrees, MapAgrees,
       OfferedOnceWhenWhole, OffersAgree, StrandAgrees, DiscardsAgree, Mapped
  <2>2. Rest'
    BY <1>6 DEF WriteOnClosedSocket, Abort, Rest, ReadingAgrees, CleanClose, CleanupAssertionsHold
  <2> QED
    BY <2>1, <2>2
<1>7. CASE AbortAfterClose
  <2>1. Core'
    BY <1>7 DEF AbortAfterClose, Core, CoreTypeOK, CloseAgrees, MapAgrees, OfferedOnceWhenWhole,
       OffersAgree, StrandAgrees, DiscardsAgree, Mapped
  <2>2. Rest'
    BY <1>7 DEF AbortAfterClose, Rest, ReadingAgrees, CleanClose, CleanupAssertionsHold
  <2> QED
    BY <2>1, <2>2
<1>8. ASSUME NEW id \in Ids, NEW keepConn \in BOOLEAN, HandleBeginRequest(id, keepConn)
      PROVE  Core' /\ Rest'
  <2>1. CASE ~keepConn /\ state = "CLOSED" /\ Abort("handleTransceiverEvent")
    <3>1. Core'
      BY <2>1 DEF Abort, Core, CoreTypeOK, CloseAgrees, MapAgrees, OfferedOnceWhenWhole,
         OffersAgree, StrandAgrees, DiscardsAgree, Mapped
    <3>2. Rest'
      BY <2>1 DEF Abort, Rest, ReadingAgrees, CleanClose, CleanupAssertionsHold
    <3> QED
      BY <3>1, <3>2
  <2>2. CASE /\ keepConn \/ state # "CLOSED"
             /\ state' = IF keepConn THEN state ELSE "CLOSING"
             /\ \E d \in RequestData :
                   /\ fate[d] = "unborn"
                   /\ fate' = [fate EXCEPT ![d] = "open"]
                   /\ requestMap' = [requestMap EXCEPT ![id] = [completed |-> {}, data |-> d]]
             /\ reading' = AfterPacket(sockState)
             /\ UNCHANGED <<sockState, strandQ, peer, newRequestCalls, commitCalls,
                            closeCalls, failedAssert>>
    <3>1. PICK d \in RequestData :
             /\ fate[d] = "unborn"
             /\ fate' = [fate EXCEPT ![d] = "open"]
             /\ requestMap' = [requestMap EXCEPT ![id] = [completed |-> {}, data |-> d]]
      BY <2>2
    <3>2. ~Mapped(id) /\ reading = "loop"
      BY <1>8 DEF HandleBeginRequest
    <3>3. \A other \in Ids : requestMap[other].data # d
      BY <3>1, NoDataAssumption DEF Core, MapAgrees, Mapped
    <3>4. CoreTypeOK' /\ CloseAgrees'
      BY <2>2, <3>1 DEF Core, CoreTypeOK, CloseAgrees, Fates, Entries
    <3>5. MapAgrees'
      BY <3>1, <3>2, <3>3, NoDataAssumption DEF Core, CoreTypeOK, MapAgrees, Mapped
    <3>6. newRequestCalls[<<id, d>>] = 0
      BY <3>1 DEF Core, CoreTypeOK, OffersAgree
    <3>7. OfferedOnceWhenWhole'
      BY <2>2, <3>1, <3>6, NoDataAssumption
         DEF Core, CoreTypeOK, OfferedOnceWhenWhole, Mapped, Completed
    <3>8. OffersAgree'
      BY <2>2, <3>1, <3>2, <3>3, NoDataAssumption DEF Core, CoreTypeOK, OffersAgree, MapAgrees, Mapped
    <3>9. StrandAgrees' /\ DiscardsAgree'
      BY <2>2, <3>1 DEF Core, CoreTypeOK, StrandAgrees, DiscardsAgree
    <3>10. Rest'
      BY <2>2, <3>1, <3>2 DEF AfterPacket, Core, CloseAgrees, CoreTypeOK, Rest, ReadingAgrees, CleanClose,
         CleanupAssertionsHold
    <3> QED
      BY <3>4, <3>5, <3>7, <3>8, <3>9, <3>10 DEF Core
  <2> QED
    BY <1>8, <2>1, <2>2 DEF HandleBeginRequest
<1>9. ASSUME NEW id \in Ids, HandleAbortRequest(id)
      PROVE  Core' /\ Rest'
  <2>1. /\ reading = "loop" /\ sockState = "OPEN" /\ state # "CLOSED"
        /\ UNCHANGED <<peer, newRequestCalls, commitCalls, failedAssert>>
        /\ strandQ \in Seq(Handlers) /\ RepliesOffered(strandQ, newRequestCalls)
    BY <1>9 DEF HandleAbortRequest, Core, CoreTypeOK, CloseAgrees, StrandAgrees
  <2>2. CASE Mapped(id) /\ EraseRequest(id, "aborted", strandQ) /\ reading' = AfterPacket(sockState')
    <3>1. Core' /\ CleanClose' /\ (state' = "CLOSED" => requestMap' = EmptyMap)
      BY <2>1, <2>2, EraseKeepsCore
    <3>2. Rest'
      BY <2>1, <2>2, <3>1 DEF AfterPacket, Core, CloseAgrees, CoreTypeOK, Rest, ReadingAgrees,
         CleanupAssertionsHold
    <3> QED
      BY <3>1, <3>2
  <2>3. CASE peer = "gone" /\ CloseAndCleanup(fate, strandQ) /\ reading' = "abortTail"
    <3>1. Core' /\ state' = "CLOSED" /\ requestMap' = EmptyMap /\ CleanClose'
      BY <2>1, <2>3, FailureKeepsCore
    <3>2. Rest'
      BY <2>1, <2>3, <3>1 DEF Rest, ReadingAgrees, CleanupAssertionsHold
    <3> QED
      BY <3>1, <3>2
  <2> QED
    BY <1>9, <2>2, <2>3 DEF HandleAbortRequest
<1>10. ASSUME NEW id \in Ids, NEW stream \in Completed, HandleEndOfStream(id, stream)
       PROVE  Core' /\ Rest'
  <2> DEFINE d == requestMap[id].data
             done == requestMap[id].completed \union {stream}
  <2>1. /\ reading = "loop" /\ Mapped(id) /\ stream \notin requestMap[id].completed
        /\ requestMap' = [requestMap EXCEPT ![id] = [completed |-> done, data |-> d]]
        /\ CheckForRequestReady(id)
        /\ reading' = AfterPacket(sockState)
        /\ UNCHANGED <<state, sockState, strandQ, peer, commitCalls, closeCalls,
                       fate, failedAssert>>
    BY <1>10 DEF HandleEndOfStream, Core, CoreTypeOK
  <2>2. d \in RequestData /\ fate[d] = "open" /\ requestMap[id] \in Entries
    BY <2>1 DEF Core, CoreTypeOK, MapAgrees, Mapped, Entries, Absent
  <2>4. /\ requestMap'[id].completed = done
        /\ \A i \in Ids : requestMap'[i].data = requestMap[i].data
        /\ \A i \in Ids \ {id} : requestMap'[i] = requestMap[i]
    BY <2>1 DEF Core, CoreTypeOK
  <2>5. newRequestCalls[<<id, d>>] = 0
    BY <2>1, <2>2 DEF Core, OfferedOnceWhenWhole
  <2>6. newRequestCalls' = IF done = Completed
                           THEN [newRequestCalls EXCEPT ![<<id, d>>] = 1]
                           ELSE newRequestCalls
    BY <2>1, <2>2, <2>4, <2>5 DEF CheckForRequestReady, Core, CoreTypeOK
  <2>7. \A i \in Ids, e \in RequestData :
           newRequestCalls'[<<i, e>>] =
               IF i = id /\ e = d /\ done = Completed THEN 1 ELSE newRequestCalls[<<i, e>>]
    BY <2>2, <2>6 DEF Core, CoreTypeOK
  <2>8. state # "CLOSED"
    BY <2>1 DEF Rest, ReadingAgrees, EmptyMap, Absent, Mapped
  <2>9. CoreTypeOK'
    <3>1. requestMap' \in [Ids -> Entries \union {Absent}]
      BY <2>1, <2>2 DEF Core, CoreTypeOK, Entries
    <3>2. newRequestCalls' \in [Ids \X RequestData -> Nat]
      BY <2>2, <2>6 DEF Core, CoreTypeOK
    <3> QED
      BY <2>1, <3>1, <3>2 DEF Core, CoreTypeOK
  <2>10. CloseAgrees' /\ DiscardsAgree'
    BY <2>1 DEF Core, CloseAgrees, DiscardsAgree
  <2>11. MapAgrees'
    BY <2>1, <2>4 DEF Core, MapAgrees, Mapped
  <2>12. OfferedOnceWhenWhole'
    <3> SUFFICES ASSUME NEW i \in Ids, Mapped(i)'
                 PROVE  newRequestCalls'[<<i, requestMap'[i].data>>] =
                            IF requestMap'[i].completed = Completed THEN 1 ELSE 0
      BY DEF OfferedOnceWhenWhole
    <3>1. Mapped(i) /\ requestMap[i].data \in RequestData
      BY <2>4 DEF Core, CoreTypeOK, Mapped, Entries, Absent
    <3>2. CASE i = id
      BY <2>2, <2>4, <2>5, <2>7, <3>2
    <3>3. CASE i # id
      BY <2>4, <2>7, <3>1, <3>3 DEF Core, OfferedOnceWhenWhole
    <3> QED
      BY <3>2, <3>3
  <2>13. OffersAgree'
    BY <2>1, <2>2, <2>4, <2>7, <2>8 DEF Core, OffersAgree
  <2>14. StrandAgrees'
    <3>1. RepliesOffered(strandQ, newRequestCalls')
      <4> SUFFICES ASSUME NEW n \in 1 .. Len(strandQ), strandQ[n] # Flush
                   PROVE  newRequestCalls'[<<strandQ[n].id, strandQ[n].data>>] > 0
        BY DEF RepliesOffered
      <4>1. newRequestCalls[<<strandQ[n].id, strandQ[n].data>>] > 0
        BY DEF Core, StrandAgrees, RepliesOffered
      <4>2. strandQ[n] \in Handlers
        BY DEF Core, CoreTypeOK
      <4>3. strandQ[n].id \in Ids /\ strandQ[n].data \in RequestData
        BY <4>2, HandlerKinds
      <4> QED
        BY <4>1, <4>3, <2>7
    <3> QED
      BY <2>1, <3>1 DEF Core, StrandAgrees
  <2>15. Rest'
    BY <2>1, <2>8 DEF AfterPacket, Core, CloseAgrees, CoreTypeOK, Rest, ReadingAgrees, CleanClose,
       CleanupAssertionsHold
  <2> QED
    BY <2>9, <2>10, <2>11, <2>12, <2>13, <2>14, <2>15 DEF Core
<1>11. CASE CommitReplyImpl
  <2>1. /\ strandQ # <<>> /\ Head(strandQ) # Flush /\ StrandFree
        /\ UNCHANGED <<reading, peer, newRequestCalls, commitCalls>>
    BY <1>11 DEF CommitReplyImpl
  <2>2. /\ Tail(strandQ) \in Seq(Handlers)
        /\ RepliesOffered(Tail(strandQ), newRequestCalls)
        /\ NoFlush(strandQ) => NoFlush(Tail(strandQ))
    BY <2>1, TailOfHandlers DEF Core, CoreTypeOK, StrandAgrees
  <2>3. reading \notin {"unstarted", "armed", "loop", "abortTail"}
    BY <2>1 DEF StrandFree, Rest, ReadingAgrees
  <2>4. CASE /\ strandQ' = Tail(strandQ)
             /\ UNCHANGED <<state, sockState, requestMap, closeCalls, fate, failedAssert>>
    <3>1. Core'
      BY <2>1, <2>2, <2>4 DEF Core, CoreTypeOK, CloseAgrees, MapAgrees, OfferedOnceWhenWhole,
         OffersAgree, StrandAgrees, DiscardsAgree, Mapped
    <3>2. Rest'
      BY <2>1, <2>3, <2>4 DEF Rest, ReadingAgrees, CleanClose, CleanupAssertionsHold
    <3> QED
      BY <3>1, <3>2
  <2>5. CASE IsValidRequest(Head(strandQ).id, Head(strandQ).data)
    <3>1. PICK id \in Ids, d \in RequestData :
               /\ Head(strandQ).id = id /\ Head(strandQ).data = d
               /\ Mapped(id)
               /\ requestMap[id].completed = Completed
               /\ state # "CLOSED"
               /\ sockState = "OPEN"
      BY <2>1, <2>5, ValidReply
    <3>2. CASE SendReplySucceeds(id)
      <4>1. Core' /\ CleanClose'
        BY <2>1, <2>2, <3>1, <3>2, EraseKeepsCore DEF SendReplySucceeds
      <4>2. failedAssert' = failedAssert
        BY <3>1, <3>2 DEF SendReplySucceeds, Completed
      <4>3. Rest'
        BY <2>1, <2>3, <4>1, <4>2 DEF Rest, ReadingAgrees, CleanupAssertionsHold
      <4> QED
        BY <4>1, <4>3
    <3>3. CASE SendReplyFails(id) /\ UNCHANGED failedAssert
      <4>1. Core' /\ CleanClose'
        BY <2>1, <2>2, <3>1, <3>3, FailureKeepsCore DEF SendReplyFails
      <4>2. Rest'
        BY <2>1, <2>3, <3>3, <4>1 DEF Rest, ReadingAgrees, CleanupAssertionsHold
      <4> QED
        BY <4>1, <4>2
    <3> QED
      BY <1>11, <2>4, <3>1, <3>2, <3>3 DEF CommitReplyImpl
  <2> QED
    BY <1>11, <2>4, <2>5 DEF CommitReplyImpl
<1>12. CASE FlushProtocolSocket
  <2>1. strandQ # <<>> /\ Head(strandQ) = Flush /\ strandQ' = Tail(strandQ)
    BY <1>12 DEF FlushProtocolSocket
  <2>2. /\ Tail(strandQ) \in Seq(Handlers)
        /\ RepliesOffered(Tail(strandQ), newRequestCalls)
        /\ NoFlush(strandQ) => NoFlush(Tail(strandQ))
    BY <2>1, TailOfHandlers DEF Core, CoreTypeOK, StrandAgrees
  <2>3. Core'
    BY <1>12, <2>1, <2>2 DEF FlushProtocolSocket, Core, CoreTypeOK, CloseAgrees, MapAgrees,
       OfferedOnceWhenWhole, OffersAgree, StrandAgrees, DiscardsAgree, Mapped
  <2>4. sockState = "CLOSED"
    <3>1. 1 \in 1 .. Len(strandQ) /\ strandQ[1] = Flush
      BY <2>1 DEF Core, CoreTypeOK
    <3> QED
      BY <3>1 DEF Core, CoreTypeOK, StrandAgrees, NoFlush
  <2>5. Rest'
    BY <1>12, <2>1, <2>4 DEF FlushProtocolSocket, Rest, ReadingAgrees, CleanClose,
       CleanupAssertionsHold
  <2> QED
    BY <2>3, <2>5
<1>13. CASE PeerDisconnects
  <2>1. Core'
    BY <1>13 DEF PeerDisconnects, Core, CoreTypeOK, CloseAgrees, MapAgrees, OfferedOnceWhenWhole,
       OffersAgree, StrandAgrees, DiscardsAgree, Mapped
  <2>2. Rest'
    BY <1>13 DEF PeerDisconnects, Rest, ReadingAgrees, CleanClose, CleanupAssertionsHold
  <2> QED
    BY <2>1, <2>2
<1>14. ASSUME NEW id \in Ids, NEW d \in RequestData, AnswerRequest(id, d)
       PROVE  Core' /\ Rest'
  <2>1. /\ strandQ' = Append(strandQ, Reply(id, d))
        /\ newRequestCalls[<<id, d>>] > 0
        /\ commitCalls' = [commitCalls EXCEPT ![d] = @ + 1]
        /\ UNCHANGED <<state, sockState, requestMap, reading, peer, newRequestCalls,
                       closeCalls, fate, failedAssert>>
    BY <1>14 DEF AnswerRequest, CommitReply
  <2>2. StrandAgrees' /\ strandQ' \in Seq(Handlers)
    <3>1. Reply(id, d) \in Handlers /\ Reply(id, d) # Flush
      BY HandlerKinds
    <3>2. RepliesOffered(strandQ', newRequestCalls)
      BY <2>1, <3>1, AppendHandler, HandlerKinds DEF Core, CoreTypeOK, StrandAgrees
    <3> QED
      BY <2>1, <3>1, <3>2, AppendHandler DEF Core, CoreTypeOK, StrandAgrees
  <2>3. Core'
    BY <2>1, <2>2 DEF Core, CoreTypeOK, CloseAgrees, MapAgrees, OfferedOnceWhenWhole,
       OffersAgree, DiscardsAgree, Mapped
  <2>4. reading \notin {"unstarted", "armed"}
    BY <2>1 DEF Core, OffersAgree, Rest, ReadingAgrees
  <2>5. Rest'
    BY <2>1, <2>4 DEF Rest, ReadingAgrees, CleanClose, CleanupAssertionsHold
  <2> QED
    BY <2>3, <2>5
<1>15. CASE UNCHANGED vars
  <2>1. Core'
    BY <1>15 DEF vars, Core, CoreTypeOK, CloseAgrees, MapAgrees, OfferedOnceWhenWhole,
       OffersAgree, StrandAgrees, DiscardsAgree, Mapped
  <2>2. Rest'
    BY <1>15 DEF vars, Rest, ReadingAgrees, CleanClose, CleanupAssertionsHold
  <2> QED
    BY <2>1, <2>2
<1> QED
  BY <1>1, <1>2, <1>3, <1>4, <1>5, <1>6, <1>7, <1>8, <1>9, <1>10, <1>11, <1>12, <1>13,
     <1>14, <1>15 DEF Next, HandlePacket

-----------------------------------------------------------------------------
(* The steps of Next by what they do to the requests. *)

KeepsRequests == UNCHANGED <<state, requestMap, newRequestCalls, fate>>

BeginsRequest(id, d) ==
    /\ fate[d] = "unborn"
    /\ fate' = [fate EXCEPT ![d] = "open"]
    /\ state' = "CLOSED" <=> state = "CLOSED"
    /\ UNCHANGED newRequestCalls

AbortsRequest(id) ==
    /\ Mapped(id)
    /\ state # "CLOSED"
    /\ EraseRequest(id, "aborted", strandQ)
    /\ UNCHANGED newRequestCalls

RepliesToRequest(id, d) ==
    /\ strandQ # <<>> /\ Head(strandQ) = Reply(id, d)
    /\ Mapped(id) /\ requestMap[id].data = d
    /\ newRequestCalls[<<id, d>>] > 0
    /\ state # "CLOSED"
    /\ EraseRequest(id, "replied", Tail(strandQ))
    /\ UNCHANGED newRequestCalls

DiscardsRequests(q) ==
    /\ state # "CLOSED"
    /\ CloseAndCleanup(fate, q)
    /\ UNCHANGED newRequestCalls

EndsStream(id, d) ==
    /\ Mapped(id) /\ requestMap[id].data = d
    /\ state # "CLOSED"
    /\ newRequestCalls[<<id, d>>] = 0
    /\ newRequestCalls' \in {newRequestCalls, [newRequestCalls EXCEPT ![<<id, d>>] = 1]}
    /\ UNCHANGED <<state, fate>>

LEMMA StepKinds ==
    ASSUME IInv, [Next]_vars
    PROVE  \/ KeepsRequests
           \/ \E id \in Ids, d \in RequestData : BeginsRequest(id, d)
           \/ \E id \in Ids : AbortsRequest(id)
           \/ \E id \in Ids, d \in RequestData : RepliesToRequest(id, d)
           \/ \E q : DiscardsRequests(q)
           \/ \E id \in Ids, d \in RequestData : EndsStream(id, d)
<1>1. CASE \/ Start \/ ReadBytes \/ ReadLoopEnd \/ WriteOnClosedSocket \/ AbortAfterClose
           \/ FlushProtocolSocket \/ PeerDisconnects \/ UNCHANGED vars
  BY <1>1 DEF Start, ReadBytes, ReadLoopEnd, WriteOnClosedSocket, AbortAfterClose, Abort,
     FlushProtocolSocket, PeerDisconnects, vars, KeepsRequests
<1>2. CASE ReadError \/ HandleControl
  <2>1. state # "CLOSED"
    BY <1>2 DEF ReadError, HandleControl, IInv, Core, CloseAgrees
  <2> QED
    BY <1>2, <2>1 DEF ReadError, HandleControl, DiscardsRequests
<1>3. ASSUME NEW id \in Ids, NEW keepConn \in BOOLEAN, HandleBeginRequest(id, keepConn)
      PROVE  KeepsRequests \/ \E d \in RequestData : BeginsRequest(id, d)
  BY <1>3 DEF HandleBeginRequest, Abort, KeepsRequests, BeginsRequest
<1>4. ASSUME NEW id \in Ids, HandleAbortRequest(id)
      PROVE  AbortsRequest(id) \/ \E q : DiscardsRequests(q)
  <2>1. state # "CLOSED"
    BY <1>4 DEF HandleAbortRequest, IInv, Core, CloseAgrees
  <2> QED
    BY <1>4, <2>1 DEF HandleAbortRequest, AbortsRequest, DiscardsRequests
<1>5. ASSUME NEW id \in Ids, NEW stream \in Completed, HandleEndOfStream(id, stream)
      PROVE  EndsStream(id, requestMap[id].data) /\ requestMap[id].data \in RequestData
  <2>1. Mapped(id) /\ stream \notin requestMap[id].completed /\ reading = "loop"
    BY <1>5 DEF HandleEndOfStream
  <2>2. requestMap[id].data \in RequestData
    BY <2>1 DEF IInv, Core, CoreTypeOK, Mapped, Entries, Absent
  <2>3. state # "CLOSED"
    BY <2>1 DEF IInv, Rest, ReadingAgrees, EmptyMap, Absent, Mapped
  <2>4. newRequestCalls[<<id, requestMap[id].data>>] = 0
    BY <2>1 DEF IInv, Core, OfferedOnceWhenWhole
  <2> QED
    BY <1>5, <2>1, <2>2, <2>3, <2>4
       DEF HandleEndOfStream, CheckForRequestReady, EndsStream, IInv, Core, CoreTypeOK
<1>6. CASE CommitReplyImpl
  <2>1. /\ strandQ # <<>> /\ Head(strandQ) # Flush
        /\ UNCHANGED newRequestCalls
    BY <1>6 DEF CommitReplyImpl
  <2>2. CASE IsValidRequest(Head(strandQ).id, Head(strandQ).data)
    <3>1. PICK id \in Ids, d \in RequestData :
              /\ Head(strandQ) = Reply(id, d)
              /\ Head(strandQ).id = id /\ Head(strandQ).data = d
              /\ Mapped(id) /\ requestMap[id].data = d
              /\ newRequestCalls[<<id, d>>] > 0
              /\ state # "CLOSED"
      BY <2>1, <2>2, ValidReply DEF IInv
    <3>2. SendReplySucceeds(id) \/ SendReplyFails(id)
      BY <1>6, <2>2, <3>1 DEF CommitReplyImpl
    <3> QED
      BY <2>1, <3>1, <3>2 DEF SendReplySucceeds, SendReplyFails, RepliesToRequest, DiscardsRequests
  <2>3. CASE ~IsValidRequest(Head(strandQ).id, Head(strandQ).data)
    BY <1>6, <2>3 DEF CommitReplyImpl, KeepsRequests
  <2> QED
    BY <2>2, <2>3
<1>7. ASSUME NEW id \in Ids, NEW d \in RequestData, AnswerRequest(id, d)
      PROVE  KeepsRequests
  BY <1>7 DEF AnswerRequest, CommitReply, KeepsRequests
<1> QED
  BY <1>1, <1>2, <1>3, <1>4, <1>5, <1>6, <1>7 DEF Next, HandlePacket

-----------------------------------------------------------------------------
(* IInv holds in every reachable state. *)
THEOREM Invariance == Spec => []IInv
  BY InitIInv, StepKeepsIInv, PTL DEF Spec

(* Every variable keeps its type, and every entry of the request map has its
   RequestData. *)
THEOREM TypeCorrect == Spec => []TypeOK
<1>1. IInv => TypeOK
  BY DEF IInv, Core, CoreTypeOK, Rest, Fates, TypeOK
<1> QED
  BY <1>1, Invariance, PTL

(* checkForRequestReady offers a request once, when both streams are
   complete. *)
THEOREM OffersOnce == Spec => []OfferedOnceWhenWhole
<1>1. IInv => OfferedOnceWhenWhole
  BY DEF IInv, Core
<1> QED
  BY <1>1, Invariance, PTL

(* closeAndCleanup runs at most once for a connection. *)
THEOREM ClosesOnce == Spec => []ClosedOnce
<1>1. IInv => ClosedOnce
  BY DEF IInv, Core, CloseAgrees, ClosedOnce
<1> QED
  BY <1>1, Invariance, PTL

(* While the web server is connected, a close costs no request. *)
THEOREM ClosesClean == Spec => []CleanClose
<1>1. IInv => CleanClose
  BY DEF IInv, Rest
<1> QED
  BY <1>1, Invariance, PTL

(* The assertions of cleanupRequest and flushProtocolSocket never fail. *)
THEOREM CleansUpSafely == Spec => []CleanupAssertionsHold
<1>1. IInv => CleanupAssertionsHold
  BY DEF IInv, Rest
<1> QED
  BY <1>1, Invariance, PTL

(* No step of a closed connection offers a request. *)
THEOREM ClosedOffersNothing == Spec => NothingOfferedAfterClose
<1>1. IInv /\ [Next]_vars => [state = "CLOSED" => UNCHANGED newRequestCalls]_vars
  BY StepKinds DEF KeepsRequests, BeginsRequest, AbortsRequest, RepliesToRequest,
     DiscardsRequests, EndsStream
<1> QED
  BY <1>1, Invariance, PTL DEF Spec, NothingOfferedAfterClose

(* Only the reply committed for a request ends it as replied. *)
THEOREM RepliesToItsOwn == Spec => ReplyEndsItsOwnRequest
<1> DEFINE Own == \A d \in RequestData : fate[d] # "replied" /\ fate'[d] = "replied" =>
                      \E id \in Ids : strandQ # <<>> /\ Head(strandQ) = Reply(id, d)
<1>1. IInv /\ [Next]_vars => Own
  <2> SUFFICES ASSUME IInv, [Next]_vars, NEW d \in RequestData,
                      fate[d] # "replied", fate'[d] = "replied"
               PROVE  \E id \in Ids : strandQ # <<>> /\ Head(strandQ) = Reply(id, d)
    OBVIOUS
  <2> fate \in [RequestData -> Fates]
    BY DEF IInv, Core, CoreTypeOK
  <2>1. ~KeepsRequests /\ ~(\E id \in Ids, e \in RequestData : EndsStream(id, e))
    BY DEF KeepsRequests, EndsStream
  <2>2. ~(\E id \in Ids, e \in RequestData : BeginsRequest(id, e))
    BY DEF BeginsRequest
  <2>3. ~(\E q : DiscardsRequests(q))
    BY DEF DiscardsRequests, CloseAndCleanup
  <2>4. ~(\E id \in Ids : AbortsRequest(id))
    BY DEF AbortsRequest, EraseRequest, CloseAndCleanup
  <2>5. ASSUME NEW id \in Ids, NEW e \in RequestData, RepliesToRequest(id, e)
        PROVE  e = d /\ strandQ # <<>> /\ Head(strandQ) = Reply(id, d)
    BY <2>5 DEF RepliesToRequest, EraseRequest, CloseAndCleanup
  <2> QED
    BY <2>1, <2>2, <2>3, <2>4, <2>5, StepKinds
<1>2. IInv /\ [Next]_vars => [Own]_vars
  BY <1>1
<1> QED
  BY <1>2, Invariance, PTL DEF Spec, ReplyEndsItsOwnRequest

=============================================================================
