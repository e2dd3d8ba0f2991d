------------------------------- MODULE Fastcgi -------------------------------
(***************************************************************************)
(* A connection with the objects around it: the Acceptor that owns it (its *)
(* _activeConnections entry and its strand), the Fastcgi::Request handles  *)
(* the application holds, and the application's threads calling commit,    *)
(* cancel and ~Request on them.                                            *)
(*                                                                         *)
(* The subject is who keeps what alive.  A Request has weak pointers to    *)
(* its connection and its RequestData and locks them while it posts a      *)
(* reply; the posted reply keeps the RequestData alive but holds the       *)
(* connection by its bare address, as do the socket's callbacks; only the  *)
(* acceptor's map owns the connection.                                     *)
(*                                                                         *)
(* The actions of Connection are used as they are; this module adds what   *)
(* their callbacks do and in which order other threads act.                *)
(***************************************************************************)
EXTENDS Connection

CONSTANT Threads   \* application threads that work on requests

VARIABLES
    registered,  \* the connection's place in Acceptor::_activeConnections
    acceptorQ,   \* handlers posted to the acceptor's strand
    handle,      \* the Fastcgi::Request made for each RequestData
    call,        \* the Request member function each thread is in
    crash        \* undefined behaviour or a failed assertion of Request.h

avars == <<registered, acceptorQ, handle, call, crash>>
fvars == <<vars, avars>>

NewRequest(d) == [op |-> "newRequest", data |-> d]
CloseConn == [op |-> "closeConnection"]

Idle == [at |-> "idle", data |-> NoData]

FTypeOK ==
    /\ TypeOK
    /\ registered \in {"no", "active", "erased"}
    /\ acceptorQ \in Seq({NewRequest(d) : d \in RequestData} \union {CloseConn})
    /\ handle \in [RequestData -> {"none", "queued", "held", "replied", "destroyed"}]
    /\ call \in [Threads -> {Idle} \union [at : {"locked", "dtor"}, data : RequestData]]
    /\ crash \in {"none", "deadConnection", "deadReadLoop", "~Request"}

FInit ==
    /\ Init
    /\ registered = "no"
    /\ acceptorQ = <<>>
    /\ handle = [d \in RequestData |-> "none"]
    /\ call = [t \in Threads |-> Idle]
    /\ crash = "none"

-----------------------------------------------------------------------------
(* Ownership. *)

(* A thread inside commit or cancel has locked both weak pointers. *)
Locked(d) == \E t \in Threads : call[t] = [at |-> "locked", data |-> d]

ConnectionAlive ==
    \/ registered = "active"
    \/ \E d \in RequestData : Locked(d)

DataAlive(d) ==
    \/ \E id \in Ids : requestMap[id].data = d
    \/ \E i \in DOMAIN strandQ : strandQ[i] # Flush /\ strandQ[i].data = d
    \/ Locked(d)

-----------------------------------------------------------------------------
(* The acceptor. *)

(* The map entry exists before the read that could call back is started. *)
HandleAccept ==
    /\ registered = "no"
    /\ Start
    /\ registered' = "active"
    /\ UNCHANGED <<acceptorQ, handle, call, crash>>

(* Seeded fault: the connection's strand erases the entry itself. *)
HandleConnectionClose_InPlace ==
    /\ registered' = "erased"
    /\ UNCHANGED acceptorQ

(* Seeded fault: the close is reported twice. *)
HandleConnectionClose_Twice ==
    /\ acceptorQ' = acceptorQ \o <<CloseConn, CloseConn>>
    /\ UNCHANGED registered

(* Seeded fault: nobody is told of the close. *)
HandleConnectionClose_Silent == UNCHANGED <<registered, acceptorQ>>

HandleConnectionClose ==
    /\ acceptorQ' = Append(acceptorQ, CloseConn)
    /\ UNCHANGED registered

HandleNewRequest(d) ==
    /\ acceptorQ' = Append(acceptorQ, NewRequest(d))
    /\ handle' = [handle EXCEPT ![d] = "queued"]
    /\ UNCHANGED registered

(* The callbacks a handler of the connection makes.  No handler makes both:
   offering a request does not close. *)
WithCallbacks ==
    /\ ConnectionAlive
    /\ \/ /\ closeCalls' > closeCalls
          /\ HandleConnectionClose
          /\ UNCHANGED handle
       \/ \E id \in Ids, d \in RequestData :
            /\ newRequestCalls'[<<id, d>>] > newRequestCalls[<<id, d>>]
            /\ HandleNewRequest(d)
       \/ /\ UNCHANGED <<closeCalls, newRequestCalls>>
          /\ UNCHANGED <<registered, acceptorQ, handle>>
    /\ UNCHANGED <<call, crash>>

ConnectionStep ==
    /\ ReadError \/ ReadBytes \/ HandlePacket \/ CommitReplyImpl
    /\ WithCallbacks

(* Handlers that need only the PacketSocket, which keeps itself alive. *)
PacketSocketStep ==
    /\ ReadLoopEnd \/ FlushProtocolSocket
    /\ UNCHANGED avars

(* A handler runs on the bare address of a destroyed connection, a posted
   commitReplyImpl or what is left of a read: undefined behaviour, modelled as
   the end of the process. *)
UseDeadConnection ==
    /\ registered = "erased"
    /\ ~ConnectionAlive
    /\ \/ /\ StrandFree
          /\ strandQ # <<>> /\ Head(strandQ) # Flush
          /\ crash' = "deadConnection"
       \/ /\ ~StrandFree
          /\ crash' = "deadReadLoop"
    /\ UNCHANGED <<vars, registered, acceptorQ, handle, call>>

(* The application's new-request function receives the handle. *)
DeliverRequest ==
    /\ acceptorQ # <<>>
    /\ Head(acceptorQ) # CloseConn
    /\ handle' = [handle EXCEPT ![Head(acceptorQ).data] = "held"]
    /\ acceptorQ' = Tail(acceptorQ)
    /\ UNCHANGED <<vars, registered, call, crash>>

CloseConnection ==
    /\ acceptorQ # <<>>
    /\ Head(acceptorQ) = CloseConn
    /\ registered' = "erased"
    /\ acceptorQ' = Tail(acceptorQ)
    /\ UNCHANGED <<vars, handle, call, crash>>

-----------------------------------------------------------------------------
(* Fastcgi::Request, called from any thread. *)

(* Seeded fault: commit and cancel do not take _commitMutex. *)
MutexFree_NoLock(d) == TRUE

MutexFree(d) == ~Locked(d)

(* commit and cancel up to the post: the mutex is taken and
   getConnectionAndRequestData locks both pointers.  When it cannot, or when
   the request has been answered, it throws to the caller and nothing
   changes. *)
LockRequest(t, d) ==
    /\ call[t] = Idle
    /\ handle[d] = "held"
    /\ MutexFree(d)
    /\ ConnectionAlive /\ DataAlive(d)
    /\ call' = [call EXCEPT ![t] = [at |-> "locked", data |-> d]]
    /\ UNCHANGED <<vars, registered, acceptorQ, handle, crash>>

(* commitReply, _dataWeakPtr.reset and _hasReplied = true, then the locked
   pointers are released. *)
PostReply(t) ==
    /\ call[t].at = "locked"
    /\ LET d == call[t].data
       IN  /\ \E id \in Ids :
                /\ newRequestCalls[<<id, d>>] > 0
                /\ CommitReply(id, d)
           /\ handle' = [handle EXCEPT ![d] = IF @ = "held" THEN "replied" ELSE @]
    /\ call' = [call EXCEPT ![t] = Idle]
    /\ UNCHANGED <<registered, acceptorQ, crash>>

(* Seeded fault: ~Request does not cancel. *)
DestroyRequest_NoCancel(t, d) ==
    /\ call[t] = Idle
    /\ handle[d] \in {"held", "replied"}
    /\ \A u \in Threads : call[u].data # d
    /\ handle' = [handle EXCEPT ![d] = "destroyed"]
    /\ UNCHANGED <<vars, registered, acceptorQ, call, crash>>

(* The last shared_ptr to the handle goes: ~Request asks isValid, and goes
   on to cancel if it is. *)
DestroyRequest(t, d) ==
    /\ call[t] = Idle
    /\ handle[d] \in {"held", "replied"}
    /\ \A u \in Threads : call[u].data # d
    /\ call' = IF handle[d] = "held" /\ ConnectionAlive /\ DataAlive(d)
               THEN [call EXCEPT ![t] = [at |-> "dtor", data |-> d]]
               ELSE call
    /\ handle' = [handle EXCEPT ![d] = "destroyed"]
    /\ UNCHANGED <<vars, registered, acceptorQ, crash>>

(* Seeded fault: cancel resets its weak pointer before it posts. *)
CancelInDestructor_ResetsFirst(t) ==
    /\ call[t].at = "dtor"
    /\ call' = [call EXCEPT ![t] = [at |-> "locked", data |-> NoData]]
    /\ UNCHANGED <<vars, registered, acceptorQ, handle, crash>>

(* The cancel of ~Request.  When it cannot lock any more it throws, and the
   catch asserts that this never happens. *)
CancelInDestructor(t) ==
    /\ call[t].at = "dtor"
    /\ LET d == call[t].data
       IN  \/ /\ ConnectionAlive /\ DataAlive(d)
              /\ call' = [call EXCEPT ![t].at = "locked"]
              /\ UNCHANGED crash
           \/ /\ ~(ConnectionAlive /\ DataAlive(d))
              /\ crash' = "~Request"
              /\ UNCHANGED call
    /\ UNCHANGED <<vars, registered, acceptorQ, handle>>

-----------------------------------------------------------------------------
Running == failedAssert = "none" /\ crash = "none"

ApplicationStep(t) ==
    \/ \E d \in RequestData : LockRequest(t, d) \/ DestroyRequest(t, d)
    \/ PostReply(t)
    \/ CancelInDestructor(t)

FNext ==
    /\ Running
    /\ \/ HandleAccept \/ ConnectionStep \/ PacketSocketStep
       \/ UseDeadConnection \/ DeliverRequest \/ CloseConnection
       \/ (PeerDisconnects /\ UNCHANGED avars)
       \/ \E t \in Threads : ApplicationStep(t)

FSpec == FInit /\ [][FNext]_fvars

(* The io_service's threads run both strands, application threads finish
   the calls they are in, and the application answers each request or lets
   go of it. *)
FFairness ==
    /\ WF_fvars(Running /\ PacketSocketStep)
    /\ WF_fvars(Running /\ AbortAfterClose /\ WithCallbacks)
    /\ WF_fvars(Running /\ CommitReplyImpl /\ WithCallbacks)
    /\ WF_fvars(Running /\ UseDeadConnection)
    /\ WF_fvars(Running /\ DeliverRequest)
    /\ WF_fvars(Running /\ CloseConnection)
    /\ \A t \in Threads : WF_fvars(Running /\ (PostReply(t) \/ CancelInDestructor(t)))
    /\ \A d \in RequestData :
           WF_fvars(Running /\ \E t \in Threads : LockRequest(t, d) \/ DestroyRequest(t, d))

FFairSpec == FSpec /\ FFairness

-----------------------------------------------------------------------------
(* The handles, their mutex and their weak pointers keep to what Connection
   assumes of the application: every step of the whole is a step of the
   connection, or none of its business. *)
ImplementsConnection == Spec

(* The connection is erased once, while it is in the map, and only after it
   has closed: the assertions of handleConnectionClose and closeConnection
   hold. *)
ErasedOnceAfterClose ==
    \A i \in DOMAIN acceptorQ : acceptorQ[i] = CloseConn =>
        /\ registered = "active"
        /\ state = "CLOSED"
        /\ \A j \in DOMAIN acceptorQ : acceptorQ[j] = CloseConn => i = j

(* Both strands are queues: a request on its way to the application arrives
   before its connection leaves the acceptor's map. *)
NotErasedBeforeDelivery ==
    registered = "erased" => \A d \in RequestData : handle[d] # "queued"

(* Connection callbacks find the connection in the map: the assertions of
   handleNewRequest and handleConnectionClose hold. *)
CallbacksFindConnection ==
    [][<<closeCalls, newRequestCalls>>' # <<closeCalls, newRequestCalls>>
          => registered = "active"]_fvars

(* A connection that closed is given back by the acceptor. *)
ClosedIsErased == state = "CLOSED" ~> (registered = "erased" \/ ~Running)

(* A request handed to the application ends: answered, cancelled by its
   destructor, aborted or discarded. *)
DeliveredIsSettled ==
    \A d \in RequestData : handle[d] = "held" ~> (fate[d] # "open" \/ ~Running)


(* The catch block of ~Request asserts that cancel cannot throw after
   isValid. *)
DestructorNeverThrows == crash # "~Request"

=============================================================================
