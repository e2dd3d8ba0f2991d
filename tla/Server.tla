------------------------------- MODULE Server -------------------------------
(***************************************************************************)
(* The application server: Server.h with its registry of request handlers, *)
(* RequestHandler.h and Server/Request.h.  What the FastCGI side does is   *)
(* RequestLifecycle, which Connection.tla implements: requests of one      *)
(* connection arrive, are aborted or lost, and are answered through it.    *)
(*                                                                         *)
(* All handlers, those of the connection's strand, of the acceptor's       *)
(* strand, of the request handlers' strands and of timers, run on the      *)
(* threads start() creates.  One handler of the acceptor's strand and the  *)
(* applications' handlers take several steps, because other threads act    *)
(* meanwhile.                                                              *)
(*                                                                         *)
(* The application's handlers are those of test/Server: handleRequest may  *)
(* answer the request, drops it, or keeps it for one callback that a timer *)
(* posts with postInStrand.  Exceptions thrown to it are caught by it.     *)
(***************************************************************************)
EXTENDS RequestLifecycle, Naturals, Sequences, FiniteSets

CONSTANTS Ids,        \* request ids: connection and FastCGI id
          IoThreads,  \* NO_OF_ASIO_USER_THREADS
          None

ASSUME ServerAssumption ==
    /\ IoThreads \in Nat \ {0}
    /\ None \notin Requests \union Ids

VARIABLES
    idOf,        \* the id under which each request arrived
    acceptorQ,   \* handlers posted to the acceptor's strand
    routing,     \* the request handleNewRequest is asking route() about
    handlers,    \* Server::_activeRequestHandlers
    hstate,      \* where the handler of each request is
    answeredBy,  \* who called commit or cancel: sets Fastcgi _hasReplied
    replies,     \* requests whose reply is posted to the connection's strand
    status,      \* Server::_status
    ioStopped,   \* has _ioService been stopped?
    main,        \* what the server's owner is doing
    crash        \* why the process ended

svars == <<phase, open, idOf, acceptorQ, routing, handlers, hstate, answeredBy,
           replies, status, ioStopped, main, crash>>

New(r) == [op |-> "new", request |-> r]
Delete(id) == [op |-> "delete", id |-> id]

InThread == {"handling", "callback", "dropping"}

STypeOK ==
    /\ LifecycleTypeOK
    /\ idOf \in [Requests -> Ids \union {None}]
    /\ acceptorQ \in Seq({New(r) : r \in Requests} \union {Delete(id) : id \in Ids})
    /\ routing \in Requests \union {None}
    /\ handlers \in [Ids -> Requests \union {None}]
    /\ hstate \in [Requests -> {"none", "posted", "waiting", "callbackPosted", "done"}
                                  \union InThread]
    /\ answeredBy \in [Requests -> {"nobody", "handler", "destructor"}]
    /\ replies \subseteq Requests
    /\ status \in {"STARTED", "STOPPED"}
    /\ ioStopped \in BOOLEAN
    /\ main \in {"idle", "joining", "destroying", "destroyed"}
    /\ crash \in {"none", "uncaught", "pureVirtual", "freedParams", "idInUse", "nothingToDelete"}

SInit ==
    /\ LifecycleInit
    /\ idOf = [r \in Requests |-> None]
    /\ acceptorQ = <<>>
    /\ routing = None
    /\ handlers = [id \in Ids |-> None]
    /\ hstate = [r \in Requests |-> "none"]
    /\ answeredBy = [r \in Requests |-> "nobody"]
    /\ replies = {}
    /\ status = "STOPPED"
    /\ ioStopped = FALSE
    /\ main = "idle"
    /\ crash = "none"

fcgiVars == <<phase, open, idOf>>
handlerVars == <<hstate, answeredBy, replies>>
ownerVars == <<status, ioStopped, main>>

-----------------------------------------------------------------------------
(* The threads that are inside a handler of the acceptor or of the
   application.  The others can take the next posted handler, until
   io_service::stop. *)
BusyThreads ==
    Cardinality({r \in Requests : hstate[r] \in InThread}) + (IF routing = None THEN 0 ELSE 1)

CanRun ==
    /\ status = "STARTED"
    /\ ~ioStopped
    /\ BusyThreads < IoThreads

(* The connection's strand, one handler at a time. *)

LiveIds == {idOf[r] : r \in {s \in Requests : phase[s] \in Live}}

(* The web server may use an id again as soon as the request that had it
   ended. *)
BeginRequest(r, id) ==
    /\ CanRun
    /\ id \notin LiveIds
    /\ Begin(r)
    /\ idOf' = [idOf EXCEPT ![r] = id]
    /\ UNCHANGED <<acceptorQ, routing, handlers, handlerVars, ownerVars, crash>>

OfferRequest(r) ==
    /\ CanRun
    /\ Offer(r)
    /\ acceptorQ' = Append(acceptorQ, New(r))
    /\ UNCHANGED <<idOf, routing, handlers, handlerVars, ownerVars, crash>>

LoseRequest ==
    /\ CanRun
    /\ Shutdown \/ \E r \in Requests : Abort(r)
    /\ UNCHANGED <<idOf, acceptorQ, routing, handlers, handlerVars, ownerVars, crash>>

(* A posted reply is written, fails to be, or comes too late. *)
SendReply(r) ==
    /\ CanRun
    /\ r \in replies
    /\ replies' = replies \ {r}
    /\ \/ phase[r] = "offered" /\ (Answer(r) \/ Shutdown)
       \/ phase[r] # "offered" /\ UNCHANGED lvars
    /\ UNCHANGED <<idOf, acceptorQ, routing, handlers, hstate, answeredBy, ownerVars, crash>>

-----------------------------------------------------------------------------
(* Fastcgi::Request as the server uses it. *)

Usable(r) == phase[r] = "offered" /\ answeredBy[r] = "nobody"

(* Seeded fault: a dropped request is not cancelled. *)
CancelIfUsable_Not(r) == UNCHANGED <<answeredBy, replies>>

(* ~Fastcgi::Request. *)
CancelIfUsable(r) ==
    IF Usable(r)
    THEN /\ answeredBy' = [answeredBy EXCEPT ![r] = "destructor"]
         /\ replies' = replies \union {r}
    ELSE UNCHANGED <<answeredBy, replies>>

-----------------------------------------------------------------------------
(* The acceptor's strand: Server::handleNewRequest and
   handleRequestDeleteImpl. *)

StrandHead(op) ==
    /\ routing = None
    /\ acceptorQ # <<>>
    /\ Head(acceptorQ).op = op

(* handleNewRequest up to the call of route.  getFCGIParams throws when the
   request has ended since it was posted, and nothing catches it; route is
   pure virtual again once the derived destructor is done. *)
EnterRoute ==
    /\ CanRun
    /\ StrandHead("new")
    /\ LET r == Head(acceptorQ).request
       IN  \/ /\ phase[r] = "offered" /\ main # "destroying"
              /\ routing' = r
              /\ UNCHANGED crash
           \/ /\ phase[r] = "offered" /\ main = "destroying"
              /\ crash' = "pureVirtual"
              /\ UNCHANGED routing
           \/ /\ phase[r] # "offered"
              /\ crash' = "uncaught"
              /\ UNCHANGED routing
    /\ acceptorQ' = Tail(acceptorQ)
    /\ UNCHANGED <<fcgiVars, handlers, handlerVars, ownerVars>>

(* route has a reference to the params inside the RequestData, which nobody
   keeps alive for it. *)
ReadFreedParams ==
    /\ routing # None
    /\ phase[routing] # "offered"
    /\ crash' = "freedParams"
    /\ UNCHANGED <<fcgiVars, acceptorQ, routing, handlers, handlerVars, ownerVars>>

(* route returns no handler: the request is let go. *)
RouteNowhere ==
    /\ routing # None
    /\ CancelIfUsable(routing)
    /\ routing' = None
    /\ UNCHANGED <<fcgiVars, acceptorQ, handlers, hstate, ownerVars, crash>>

(* Seeded fault: the entry of another handler is overwritten. *)
RegisterHandler_Overwrite(r) ==
    /\ handlers' = [handlers EXCEPT ![idOf[r]] = r]
    /\ hstate' = [hstate EXCEPT ![r] = "posted"]
    /\ UNCHANGED crash

(* The entry is new, or the assertion fails. *)
RegisterHandler(r) ==
    IF handlers[idOf[r]] = None
    THEN /\ handlers' = [handlers EXCEPT ![idOf[r]] = r]
         /\ hstate' = [hstate EXCEPT ![r] = "posted"]
         /\ UNCHANGED crash
    ELSE /\ crash' = "idInUse"
         /\ UNCHANGED <<handlers, hstate>>

RouteToHandler ==
    /\ routing # None
    /\ RegisterHandler(routing)
    /\ routing' = None
    /\ UNCHANGED <<fcgiVars, acceptorQ, answeredBy, replies, ownerVars>>

HandleRequestDeleteImpl ==
    /\ CanRun
    /\ StrandHead("delete")
    /\ LET id == Head(acceptorQ).id
       IN  /\ handlers' = [handlers EXCEPT ![id] = None]
           /\ crash' = IF handlers[id] = None THEN "nothingToDelete" ELSE crash
    /\ acceptorQ' = Tail(acceptorQ)
    /\ UNCHANGED <<fcgiVars, routing, handlerVars, ownerVars>>

-----------------------------------------------------------------------------
(* The request handlers, each in its own strand. *)

MoveHandler(r, from, to) ==
    /\ hstate[r] = from
    /\ hstate' = [hstate EXCEPT ![r] = to]

(* The posted handleRequest, the timer's handler, which calls postInStrand,
   and the callback that posts. *)
RunHandler(r) ==
    /\ CanRun
    /\ \/ MoveHandler(r, "posted", "handling")
       \/ MoveHandler(r, "waiting", "callbackPosted")
       \/ MoveHandler(r, "callbackPosted", "callback")
    /\ UNCHANGED <<fcgiVars, acceptorQ, routing, handlers, answeredBy, replies, ownerVars, crash>>

(* Seeded fault: the handler is queued for deletion with the reply, not
   with the end of its request. *)
CommitRequest_Deletes(r) ==
    /\ hstate[r] \in {"handling", "callback"}
    /\ Usable(r)
    /\ answeredBy' = [answeredBy EXCEPT ![r] = "handler"]
    /\ replies' = replies \union {r}
    /\ acceptorQ' = Append(acceptorQ, Delete(idOf[r]))
    /\ UNCHANGED <<fcgiVars, routing, handlers, hstate, ownerVars, crash>>

(* commit or cancel.  Throws to the handler when the request has ended or
   is answered. *)
CommitRequest(r) ==
    /\ hstate[r] \in {"handling", "callback"}
    /\ Usable(r)
    /\ answeredBy' = [answeredBy EXCEPT ![r] = "handler"]
    /\ replies' = replies \union {r}
    /\ UNCHANGED <<fcgiVars, acceptorQ, routing, handlers, hstate, ownerVars, crash>>

(* The handler starts a timer and keeps its request until it fires. *)
KeepRequest(r) ==
    /\ MoveHandler(r, "handling", "waiting")
    /\ UNCHANGED <<fcgiVars, acceptorQ, routing, handlers, answeredBy, replies, ownerVars, crash>>

(* Seeded fault: the handler is never deleted. *)
HandleRequestDelete_Skip(id) == UNCHANGED acceptorQ

(* Seeded fault: the deletion is posted twice. *)
HandleRequestDelete_Twice(id) == acceptorQ' = acceptorQ \o <<Delete(id), Delete(id)>>

(* A thread that stop() is waiting for reads _status while it is written. *)
HandleRequestDelete(id) ==
    \/ acceptorQ' = Append(acceptorQ, Delete(id))
    \/ status = "STOPPED" /\ UNCHANGED acceptorQ

(* Seeded fault: ~Server::Request lets go of the Fastcgi::Request before it
   calls the delete callback. *)
DestructorStep_CancelsFirst(r, to) ==
    /\ hstate' = [hstate EXCEPT ![r] = to]
    /\ \/ to = "done" /\ HandleRequestDelete(idOf[r]) /\ UNCHANGED <<answeredBy, replies>>
       \/ to = "dropping" /\ CancelIfUsable(r) /\ UNCHANGED acceptorQ

(* Seeded fault: the callback is bound to the request, not to its id. *)
DestructorStep_BindsRequest(r, to) ==
    /\ hstate' = [hstate EXCEPT ![r] = to]
    /\ \/ to = "dropping" /\ HandleRequestDelete(r) /\ UNCHANGED <<answeredBy, replies>>
       \/ to = "done" /\ CancelIfUsable(r) /\ UNCHANGED acceptorQ

(* ~Server::Request: first the delete callback, then its member, the
   Fastcgi::Request. *)
DestructorStep(r, to) ==
    /\ hstate' = [hstate EXCEPT ![r] = to]
    /\ \/ to = "dropping" /\ HandleRequestDelete(idOf[r]) /\ UNCHANGED <<answeredBy, replies>>
       \/ to = "done" /\ CancelIfUsable(r) /\ UNCHANGED acceptorQ

(* The handler lets go of its request. *)
DropRequest(r) ==
    /\ \/ hstate[r] \in {"handling", "callback"} /\ DestructorStep(r, "dropping")
       \/ hstate[r] = "dropping" /\ DestructorStep(r, "done")
    /\ UNCHANGED <<fcgiVars, routing, handlers, ownerVars, crash>>

-----------------------------------------------------------------------------
(* The owner of the server.  Calls that throw change nothing. *)

(* The io_service is not reset: threads started after a stop return from
   run at once. *)
Start ==
    /\ main = "idle"
    /\ status = "STOPPED"
    /\ status' = "STARTED"
    /\ UNCHANGED <<fcgiVars, acceptorQ, routing, handlers, handlerVars, ioStopped, main, crash>>

Stop ==
    /\ main \in {"idle", "destroying"}
    /\ status = "STARTED"
    /\ status' = "STOPPED"
    /\ ioStopped' = TRUE
    /\ main' = IF main = "idle" THEN "joining" ELSE main
    /\ UNCHANGED <<fcgiVars, acceptorQ, routing, handlers, handlerVars, crash>>

(* Seeded fault: stop returns without waiting for the threads. *)
Joined_NoWait == TRUE

Joined == BusyThreads = 0

StopReturns ==
    /\ status = "STOPPED"
    /\ main \in {"joining", "destroying"}
    /\ Joined
    /\ main' = IF main = "joining" THEN "idle" ELSE "destroyed"
    /\ UNCHANGED <<fcgiVars, acceptorQ, routing, handlers, handlerVars, status, ioStopped, crash>>

(* ~Server begins when the derived object, with its route, is gone; it stops
   a started server. *)
BeginDestruction ==
    /\ main = "idle"
    /\ main' = IF status = "STOPPED" THEN "destroyed" ELSE "destroying"
    /\ UNCHANGED <<fcgiVars, acceptorQ, routing, handlers, handlerVars, status, ioStopped, crash>>

-----------------------------------------------------------------------------
ConnectionStep ==
    \/ LoseRequest
    \/ \E r \in Requests :
        \/ \E id \in Ids : BeginRequest(r, id)
        \/ OfferRequest(r) \/ SendReply(r)

LeaveRoute == ReadFreedParams \/ RouteNowhere \/ RouteToHandler

HandlerStep(r) ==
    RunHandler(r) \/ KeepRequest(r) \/ DropRequest(r)

SNext ==
    /\ crash = "none"
    /\ \/ ConnectionStep
       \/ EnterRoute \/ LeaveRoute \/ HandleRequestDeleteImpl
       \/ \E r \in Requests : CommitRequest(r) \/ HandlerStep(r)
       \/ Start \/ Stop \/ StopReturns \/ BeginDestruction

SSpec == SInit /\ [][SNext]_svars

(* The threads run what is posted, timers fire, and the application's
   functions return.  A handler may never answer its request. *)
SFairness ==
    /\ WF_svars(crash = "none" /\ EnterRoute)
    /\ WF_svars(crash = "none" /\ LeaveRoute)
    /\ WF_svars(crash = "none" /\ HandleRequestDeleteImpl)
    /\ \A r \in Requests :
        /\ WF_svars(crash = "none" /\ SendReply(r))
        /\ WF_svars(crash = "none" /\ HandlerStep(r))

SFairSpec == SSpec /\ SFairness

-----------------------------------------------------------------------------
Stopped == status = "STOPPED" \/ ioStopped \/ crash # "none"

(* Only the registry owns a handler that waits for its timer, and the timer
   and postInStrand hold it by its bare address: it is registered under its
   own request as long as that request lives, however ids are used again. *)
RegisteredUntilDropped ==
    \A r \in Requests :
        hstate[r] \in {"posted", "handling", "waiting", "callbackPosted", "callback"}
            => handlers[idOf[r]] = r

(* A deletion names an id only: the handler it removes is the one whose
   request was dropped. *)
ErasesOnlyDropped ==
    [][\A r \in Requests :
          (\E id \in Ids : handlers[id] = r) /\ ~(\E id \in Ids : handlers'[id] = r)
              => hstate[r] \in {"dropping", "done"}]_svars

(* The assertion of handleRequestDeleteImpl holds. *)
DeleteFindsHandler == crash # "nothingToDelete"

(* ~Server::Request queues the deletion before its member cancels, so a
   request left to its destructor never stands in the way of the next one
   with its id: only one that was committed by its handler, or lost, can. *)
DestructorFreesId ==
    crash = "idInUse" =>
        \E r \in Requests : \E s \in Requests \ {r} :
            /\ idOf[s] = idOf[r]
            /\ handlers[idOf[r]] = r
            /\ answeredBy[r] = "handler" \/ phase[r] \in {"aborted", "discarded"}

(* stop waits for every handler that is running: from its return until the
   next start no thread of the server does anything, and the owner may destroy
   what its handlers use. *)
StoppedIsQuiet ==
    [][status = "STOPPED" /\ main \in {"idle", "destroyed"} =>
          UNCHANGED <<phase, open, acceptorQ, routing, handlers, hstate, replies, crash>>]_svars

(* A handler whose request was dropped leaves the registry. *)
HandlerReleased ==
    \A r \in Requests :
        hstate[r] = "dropping" ~> (Stopped \/ \A id \in Ids : handlers[id] # r)

(* A request that was posted to the server ends, although its handler may
   never answer it. *)
RequestSettled ==
    \A r \in Requests : phase[r] = "offered" ~> (Stopped \/ phase[r] \in Ended)

(* The acceptor need not check a request it posts, "as it will be cheked when
   it is going to be used": one that ended before it is used, or while route
   reads its params, must not end the process. *)
RequestOutlivesRouting == crash \notin {"uncaught", "freedParams"}

(* Server::handleNewRequest asserts that the id is not registered. *)
IdIsFree == crash # "idInUse"

=============================================================================
