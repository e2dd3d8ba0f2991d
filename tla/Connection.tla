----------------------------- MODULE Connection -----------------------------
(***************************************************************************)
(* One FastCGI connection: Connection.h with the ConnectionData it owns,   *)
(* the dispatch of RecordSocket.h and the open/closed state of             *)
(* PacketSocket.h.  All of them run in the connection's strand: one        *)
(* handler at a time, posted handlers in order.  handleRead is the one     *)
(* handler modelled in several steps (one per packet it delivers), because *)
(* other threads post to the strand while it runs.                         *)
(*                                                                         *)
(* The library is built with its BOOST_ASSERTs enabled, so a failed        *)
(* assertion stops the process.                                            *)
(*                                                                         *)
(* A handler that throws inside handleRead (unknown or duplicate request,  *)
(* stream already closed, FCGI_DATA, wrong version) loses its packet and   *)
(* changes nothing: such a packet is a stuttering step.                    *)
(***************************************************************************)
EXTENDS Naturals, Sequences

CONSTANTS Ids,          \* FastCGI request ids on the wire
          RequestData,  \* the RequestData objects that can be allocated
          NoData        \* the null RequestDataPtr

ASSUME NoDataAssumption == NoData \notin RequestData

VARIABLES
    state,           \* Connection::_state
    sockState,       \* PacketSocket::_state
    requestMap,      \* ConnectionData::_requestMap
    reading,         \* progress of the connection's one handleRead
    strandQ,         \* handlers posted to the connection's strand
    peer,            \* is the web server still at the other end?
    newRequestCalls, \* calls of _newRequestCallbackFn, by id and data
    commitCalls,     \* calls of commitReply, by data
    closeCalls,      \* calls of _closeCallbackFn
    fate,            \* history: what became of each RequestData
    failedAssert     \* the BOOST_ASSERT that stopped the process

vars == <<state, sockState, requestMap, reading, strandQ, peer,
          newRequestCalls, commitCalls, closeCalls, fate, failedAssert>>

IN_COMPLETED == "IN_COMPLETED"
PARAMS_COMPLETED == "PARAMS_COMPLETED"
Completed == {IN_COMPLETED, PARAMS_COMPLETED}

Absent == [completed |-> {}, data |-> NoData]
Entries == [completed : SUBSET Completed, data : RequestData]
EmptyMap == [id \in Ids |-> Absent]

Reply(id, d) == [op |-> "reply", id |-> id, data |-> d]
Flush == [op |-> "flush"]
Handlers == {Reply(id, d) : id \in Ids, d \in RequestData} \union {Flush}

TypeOK ==
    /\ state \in {"OPEN", "CLOSING", "CLOSED"}
    /\ sockState \in {"OPEN", "CLOSED"}
    /\ requestMap \in [Ids -> Entries \union {Absent}]
    /\ reading \in {"unstarted", "armed", "loop", "abortTail", "done"}
    /\ strandQ \in Seq(Handlers)
    /\ peer \in {"up", "gone"}
    /\ newRequestCalls \in [Ids \X RequestData -> Nat]
    /\ commitCalls \in [RequestData -> Nat]
    /\ closeCalls \in Nat
    /\ fate \in [RequestData -> {"unborn", "open", "replied", "aborted", "discarded"}]
    /\ failedAssert \in {"none", "writePacket", "handleTransceiverEvent",
                         "cleanupRequest", "flushProtocolSocket"}

Init ==
    /\ state = "OPEN"
    /\ sockState = "OPEN"
    /\ requestMap = EmptyMap
    /\ reading = "unstarted"
    /\ strandQ = <<>>
    /\ peer = "up"
    /\ newRequestCalls = [c \in Ids \X RequestData |-> 0]
    /\ commitCalls = [d \in RequestData |-> 0]
    /\ closeCalls = 0
    /\ fate = [d \in RequestData |-> "unborn"]
    /\ failedAssert = "none"

-----------------------------------------------------------------------------
Mapped(id) == requestMap[id].data # NoData

Abort(assertion) ==
    /\ failedAssert' = assertion
    /\ UNCHANGED <<state, sockState, requestMap, reading, strandQ, peer,
                   newRequestCalls, commitCalls, closeCalls, fate>>

(* PacketSocket::close: the first call shuts the socket down and posts
   flushProtocolSocket behind the handlers in q; later calls do nothing.
   A failed write has called it before its caller does. *)
ClosePacketSocket(q) == IF sockState = "CLOSED" THEN q ELSE Append(q, Flush)

(* Seeded fault: clear() reports the emptied map as an erase would, so that
   a winding-down connection closes inside its own close. *)
CloseAndCleanup_ClearNotifies(f, q) ==
    /\ requestMap' = EmptyMap
    /\ fate' = [d \in RequestData |-> IF f[d] = "open" THEN "discarded" ELSE f[d]]
    /\ sockState' = "CLOSED"
    /\ state' = "CLOSED"
    /\ closeCalls' = IF state = "CLOSING" THEN closeCalls + 2 ELSE closeCalls + 1
    /\ strandQ' = ClosePacketSocket(q)

(* f and q are the fates and the posted handlers when the close begins. *)
CloseAndCleanup(f, q) ==
    /\ requestMap' = EmptyMap
    /\ fate' = [d \in RequestData |-> IF f[d] = "open" THEN "discarded" ELSE f[d]]
    /\ sockState' = "CLOSED"
    /\ state' = "CLOSED"
    /\ closeCalls' = closeCalls + 1
    /\ strandQ' = ClosePacketSocket(q)

LastMapped(id) == \A other \in Ids \ {id} : ~Mapped(other)

(* Seeded fault: the connection winds down although requests are left. *)
EraseRequest_CloseEarly(id, outcome, q) ==
    LET f == [fate EXCEPT ![requestMap[id].data] = outcome]
    IN  \/ /\ state = "CLOSING"
           /\ CloseAndCleanup(f, q)
        \/ /\ state # "CLOSING"
           /\ requestMap' = [requestMap EXCEPT ![id] = Absent]
           /\ fate' = f
           /\ strandQ' = q
           /\ UNCHANGED <<state, sockState, closeCalls>>

(* Seeded fault: a connection that wound down is not closed when it empties. *)
EraseRequest_NeverClose(id, outcome, q) ==
    /\ requestMap' = [requestMap EXCEPT ![id] = Absent]
    /\ fate' = [fate EXCEPT ![requestMap[id].data] = outcome]
    /\ strandQ' = q
    /\ UNCHANGED <<state, sockState, closeCalls>>

(* Seeded fault: the entry of a request that ended stays in the map. *)
EraseRequest_KeepEntry(id, outcome, q) ==
    /\ fate' = [fate EXCEPT ![requestMap[id].data] = outcome]
    /\ strandQ' = q
    /\ UNCHANGED <<state, sockState, requestMap, closeCalls>>

(* _requestMap.erase, then checkForEmptyRequestMap and handleOnEmpty. *)
EraseRequest(id, outcome, q) ==
    LET f == [fate EXCEPT ![requestMap[id].data] = outcome]
    IN  \/ /\ LastMapped(id) /\ state = "CLOSING"
           /\ CloseAndCleanup(f, q)
        \/ /\ ~(LastMapped(id) /\ state = "CLOSING")
           /\ requestMap' = [requestMap EXCEPT ![id] = Absent]
           /\ fate' = f
           /\ strandQ' = q
           /\ UNCHANGED <<state, sockState, closeCalls>>

-----------------------------------------------------------------------------
(* The only asynchronous read of the connection. *)

Start ==
    /\ reading = "unstarted"
    /\ reading' = "armed"
    /\ UNCHANGED <<state, sockState, requestMap, strandQ, peer,
                   newRequestCalls, commitCalls, closeCalls, fate, failedAssert>>

ReadError ==
    /\ reading = "armed"
    /\ sockState = "OPEN"
    /\ peer = "gone"
    /\ reading' = "done"
    /\ CloseAndCleanup(fate, strandQ)
    /\ UNCHANGED <<peer, newRequestCalls, commitCalls, failedAssert>>

ReadBytes ==
    /\ reading = "armed"
    /\ reading' = IF sockState = "CLOSED" THEN "done" ELSE "loop"
    /\ UNCHANGED <<state, sockState, requestMap, strandQ, peer,
                   newRequestCalls, commitCalls, closeCalls, fate, failedAssert>>

(* No complete packet is left in the buffer.  Nothing reads again. *)
ReadLoopEnd ==
    /\ reading = "loop"
    /\ reading' = "done"
    /\ UNCHANGED <<state, sockState, requestMap, strandQ, peer,
                   newRequestCalls, commitCalls, closeCalls, fate, failedAssert>>

(* Seeded fault: the loop does not look at the socket after a packet. *)
AfterPacket_NoCloseCheck(sock) == "loop"

(* The loop leaves off after a packet that finds or leaves the socket
   closed, unless that packet's handler threw. *)
AfterPacket(sock) == IF sock = "CLOSED" THEN "done" ELSE "loop"

(* Packets answered at once with one record: FCGI_GET_VALUES, unknown types
   and FCGI_BEGIN_REQUEST for a role other than responder.  Written without
   error they change nothing here. *)
HandleControl ==
    /\ reading = "loop"
    /\ sockState = "OPEN"
    /\ peer = "gone"
    /\ CloseAndCleanup(fate, strandQ)
    /\ reading' = AfterPacket(sockState')
    /\ UNCHANGED <<peer, newRequestCalls, commitCalls, failedAssert>>

(* Any packet whose handler writes (those of HandleControl, and
   FCGI_ABORT_REQUEST) fails the assertion of writePacket once the socket
   is closed. *)
WriteOnClosedSocket ==
    /\ reading = "loop"
    /\ sockState = "CLOSED"
    /\ Abort("writePacket")

(* handleBeginRequest allocates a RequestData; without FCGI_KEEP_CONN the
   connection is told to wind down. *)
HandleBeginRequest(id, keepConn) ==
    /\ reading = "loop"
    /\ ~Mapped(id)
    /\ \/ /\ keepConn \/ state # "CLOSED"
          /\ state' = IF keepConn THEN state ELSE "CLOSING"
          /\ \E d \in RequestData :
                /\ fate[d] = "unborn"
                /\ fate' = [fate EXCEPT ![d] = "open"]
                /\ requestMap' = [requestMap EXCEPT ![id] = [completed |-> {}, data |-> d]]
          /\ reading' = AfterPacket(sockState)
          /\ UNCHANGED <<sockState, strandQ, peer, newRequestCalls, commitCalls,
                         closeCalls, failedAssert>>
       \/ /\ ~keepConn /\ state = "CLOSED"
          /\ Abort("handleTransceiverEvent")

(* FCGI_ABORT_REQUEST writes its record first.  When that write fails the
   connection closes, and the handler goes on to the abort callback. *)
HandleAbortRequest(id) ==
    /\ reading = "loop"
    /\ sockState = "OPEN"
    /\ \/ /\ Mapped(id)
          /\ EraseRequest(id, "aborted", strandQ)
          /\ reading' = AfterPacket(sockState')
       \/ /\ peer = "gone"
          /\ CloseAndCleanup(fate, strandQ)
          /\ reading' = "abortTail"
    /\ UNCHANGED <<peer, newRequestCalls, commitCalls, failedAssert>>

(* The abort callback after the failed write: the close has emptied the map,
   so handleAbortRequest throws, and the catch does not look at the socket:
   the loop goes on delivering packets. *)
AbortAfterClose ==
    /\ reading = "abortTail"
    /\ reading' = "loop"
    /\ UNCHANGED <<state, sockState, requestMap, strandQ, peer,
                   newRequestCalls, commitCalls, closeCalls, fate, failedAssert>>

(* Seeded fault: ready as soon as the params are complete. *)
CheckForRequestReady_ParamsOnly(id) ==
    newRequestCalls' =
        IF PARAMS_COMPLETED \in requestMap'[id].completed
        THEN [newRequestCalls EXCEPT ![<<id, requestMap[id].data>>] = @ + 1]
        ELSE newRequestCalls

CheckForRequestReady(id) ==
    newRequestCalls' =
        IF requestMap'[id].completed = Completed
        THEN [newRequestCalls EXCEPT ![<<id, requestMap[id].data>>] = @ + 1]
        ELSE newRequestCalls

(* Seeded fault: the end of a stream is accepted again. *)
HandleEndOfStream_Reopens(id, stream) ==
    /\ reading = "loop"
    /\ Mapped(id)
    /\ requestMap' = [requestMap EXCEPT ![id] =
                         [completed |-> @.completed \union {stream}, data |-> @.data]]
    /\ CheckForRequestReady(id)
    /\ reading' = AfterPacket(sockState)
    /\ UNCHANGED <<state, sockState, strandQ, peer, commitCalls, closeCalls,
                   fate, failedAssert>>

(* The empty packet that ends a stream of request id. Packets with content
   only append to the stream. *)
HandleEndOfStream(id, stream) ==
    /\ reading = "loop"
    /\ Mapped(id)
    /\ stream \notin requestMap[id].completed
    /\ requestMap' = [requestMap EXCEPT ![id] =
                         [completed |-> @.completed \union {stream}, data |-> @.data]]
    /\ CheckForRequestReady(id)
    /\ reading' = AfterPacket(sockState)
    /\ UNCHANGED <<state, sockState, strandQ, peer, commitCalls, closeCalls,
                   fate, failedAssert>>

-----------------------------------------------------------------------------
(* Handlers posted to the strand. *)

StrandFree == reading \notin {"loop", "abortTail"}

(* Seeded fault: requests are told apart by their id alone. *)
IsValidRequest_IdOnly(id, d) == Mapped(id)

IsValidRequest(id, d) == requestMap[id].data = d

(* Seeded fault: a failed write leaves the connection as it is. *)
SendReplyFails_KeepOpen(id) ==
    /\ peer = "gone"
    /\ strandQ' = Tail(strandQ)
    /\ UNCHANGED <<state, sockState, requestMap, closeCalls, fate>>

SendReplyFails(id) ==
    /\ peer = "gone"
    /\ CloseAndCleanup(fate, Tail(strandQ))

(* With the assertions of writePacket and cleanupRequest. *)
SendReplySucceeds(id) ==
    /\ EraseRequest(id, "replied", Tail(strandQ))
    /\ failedAssert' =
           IF sockState = "CLOSED" THEN "writePacket"
           ELSE IF IN_COMPLETED \notin requestMap[id].completed THEN "cleanupRequest"
           ELSE failedAssert

CommitReplyImpl ==
    /\ StrandFree
    /\ strandQ # <<>>
    /\ Head(strandQ) # Flush
    /\ LET id == Head(strandQ).id
           d == Head(strandQ).data
       IN  \/ /\ ~IsValidRequest(id, d)
              /\ strandQ' = Tail(strandQ)
              /\ UNCHANGED <<state, sockState, requestMap, closeCalls, fate, failedAssert>>
           \/ /\ IsValidRequest(id, d)
              /\ \/ SendReplySucceeds(id)
                 \/ /\ sockState = "OPEN"
                    /\ SendReplyFails(id)
                    /\ UNCHANGED failedAssert
    /\ UNCHANGED <<reading, peer, newRequestCalls, commitCalls>>

FlushProtocolSocket ==
    /\ StrandFree
    /\ strandQ # <<>>
    /\ Head(strandQ) = Flush
    /\ strandQ' = Tail(strandQ)
    /\ failedAssert' = IF sockState = "CLOSED" THEN failedAssert ELSE "flushProtocolSocket"
    /\ UNCHANGED <<state, sockState, requestMap, reading, peer, newRequestCalls,
                   commitCalls, closeCalls, fate>>

-----------------------------------------------------------------------------
(* Called from the application's threads. *)
CommitReply(id, d) ==
    /\ strandQ' = Append(strandQ, Reply(id, d))
    /\ commitCalls' = [commitCalls EXCEPT ![d] = @ + 1]
    /\ UNCHANGED <<state, sockState, requestMap, reading, peer, newRequestCalls,
                   closeCalls, fate, failedAssert>>

(* The application answers a request it was offered, once, at any later
   time: Fastcgi.tla shows that Fastcgi::Request keeps to this. *)
AnswerRequest(id, d) ==
    /\ newRequestCalls[<<id, d>>] > 0
    /\ commitCalls[d] = 0
    /\ CommitReply(id, d)

PeerDisconnects ==
    /\ peer = "up"
    /\ peer' = "gone"
    /\ UNCHANGED <<state, sockState, requestMap, reading, strandQ, newRequestCalls,
                   commitCalls, closeCalls, fate, failedAssert>>

HandlePacket ==
    \/ HandleControl
    \/ WriteOnClosedSocket
    \/ AbortAfterClose
    \/ \E id \in Ids :
        \/ \E keepConn \in BOOLEAN : HandleBeginRequest(id, keepConn)
        \/ HandleAbortRequest(id)
        \/ \E stream \in Completed : HandleEndOfStream(id, stream)

Next ==
    /\ failedAssert = "none"
    /\ \/ Start \/ ReadError \/ ReadBytes \/ ReadLoopEnd
       \/ HandlePacket
       \/ CommitReplyImpl \/ FlushProtocolSocket
       \/ PeerDisconnects
       \/ \E id \in Ids, d \in RequestData : AnswerRequest(id, d)

Spec == Init /\ [][Next]_vars

(* The io_service threads run every posted handler, a read buffer holds
   finitely many packets, and every Fastcgi::Request that stays open is
   answered in the end, by its destructor if not by the application. *)
Fairness ==
    /\ WF_vars(failedAssert = "none" /\ ReadLoopEnd)
    /\ WF_vars(failedAssert = "none" /\ AbortAfterClose)
    /\ WF_vars(failedAssert = "none" /\ CommitReplyImpl)
    /\ WF_vars(failedAssert = "none" /\ FlushProtocolSocket)
    /\ \A id \in Ids, d \in RequestData :
           WF_vars(failedAssert = "none" /\ fate[d] = "open" /\ AnswerRequest(id, d))

FairSpec == Spec /\ Fairness

-----------------------------------------------------------------------------
(* A request is handed to the acceptor exactly once, in the step that makes
   both of its streams complete: later packets for it are refused, so
   checkForRequestReady cannot fire again. *)
OfferedOnceWhenWhole ==
    \A id \in Ids : Mapped(id) =>
        newRequestCalls[<<id, requestMap[id].data>>] =
            IF requestMap[id].completed = Completed THEN 1 ELSE 0

(* However the socket fails, the requests end and the packets interleave,
   the acceptor is told once that the connection closed: Acceptor's
   closeConnection asserts that the connection is still in its map. *)
ClosedOnce == closeCalls <= 1

(* While the web server stays connected, the connection closes only when
   every request it carried was answered or aborted. *)
CleanClose ==
    state = "CLOSED" /\ peer = "up" =>
        \A d \in RequestData : fate[d] \in {"unborn", "replied", "aborted"}

(* A reply popped from the strand meets a request whose stdin is complete,
   and the posted flush meets a closed socket: the assertions of
   cleanupRequest and flushProtocolSocket hold. *)
CleanupAssertionsHold ==
    failedAssert \notin {"cleanupRequest", "flushProtocolSocket"}

(* Although packets are still delivered after a failed abort has closed the
   connection, none of them hands a request to the acceptor. *)
NothingOfferedAfterClose ==
    [][state = "CLOSED" => UNCHANGED newRequestCalls]_vars

(* A request is ended by a reply only while the strand runs the reply that
   was committed for that very request, not one left over from an aborted
   request with the same id. *)
ReplyEndsItsOwnRequest ==
    [][\A d \in RequestData : fate[d] # "replied" /\ fate'[d] = "replied" =>
          \E id \in Ids : strandQ # <<>> /\ Head(strandQ) = Reply(id, d)]_vars

(* A connection told to wind down, whose requests have all been received,
   closes. *)
WindDownCompletes ==
    (/\ state = "CLOSING"
     /\ reading = "done"
     /\ \A id \in Ids : Mapped(id) => requestMap[id].completed = Completed)
        ~> state = "CLOSED"

(* A request that was answered or cancelled does not stay open: its reply is
   sent, or the request is aborted or discarded. *)
CommitSettles ==
    \A d \in RequestData : commitCalls[d] > 0 ~> fate[d] # "open"

(* PacketSocket.h asserts that nothing is written to a closed socket. *)
NeverWritesOnClosedSocket == failedAssert # "writePacket"

-----------------------------------------------------------------------------
(* The connection implements RequestLifecycle. *)
phaseBar ==
    [d \in RequestData |->
        IF fate[d] # "open" THEN fate[d]
        ELSE IF \E id \in Ids : newRequestCalls[<<id, d>>] > 0 THEN "offered"
        ELSE "receiving"]

Lifecycle == INSTANCE RequestLifecycle
                 WITH Requests <- RequestData, phase <- phaseBar, open <- state # "CLOSED"

(* Every step of the connection is a step of the lifecycle of its requests,
   or changes nothing of it. *)
ImplementsLifecycle == Lifecycle!LifecycleSpec

(* A request that was answered, aborted or discarded stays so: its reply is
   not sent twice, nor after an abort. *)
EndedStaysEnded == Lifecycle!EndedIsFinal

=============================================================================
