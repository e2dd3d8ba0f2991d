---------------------------- MODULE ServerProofs ----------------------------
(***************************************************************************)
(* The safety properties of Server, for any number of requests, ids and io *)
(* threads.  The acceptor's strand is a queue of two kinds of handlers, the*)
(* requests that arrive and the deletions of handlers; what the registry   *)
(* holds at any time follows from what is still in that queue, and in      *)
(* which order.                                                            *)
(***************************************************************************)
EXTENDS Server, SequenceTheorems, FiniteSetTheorems, TLAPS

Early == {"unborn", "receiving"}
Lost == {"aborted", "discarded"}
Dropped == {"dropping", "done"}
Handled == {"posted", "handling", "waiting", "callbackPosted", "callback"}
Posts == {New(r) : r \in Requests} \union {Delete(id) : id \in Ids}

(* A request has an id once it began.  Nobody has it before it was offered,
   and nobody has answered it while the acceptor's strand has it. *)
RequestsAgree ==
    \A r \in Requests :
        /\ phase[r] # "unborn" => idOf[r] \in Ids
        /\ phase[r] \in Early \/ routing = r => hstate[r] = "none" /\ answeredBy[r] = "nobody"
        /\ phase[r] \in Early => routing # r
        /\ r \in replies \/ phase[r] = "replied" => answeredBy[r] # "nobody"
        /\ answeredBy[r] = "destructor" => hstate[r] \in {"none", "done"}

(* The web server uses an id for one live request at a time. *)
IdsAgree ==
    \A r, s \in Requests :
        phase[r] \in Live /\ phase[s] \in Live /\ idOf[r] = idOf[s] => r = s

(* A handler is registered under the id of its request. *)
EntriesAgree ==
    \A id \in Ids : handlers[id] # None =>
        idOf[handlers[id]] = id /\ hstate[handlers[id]] # "none"

(* What is posted to the acceptor's strand is posted once: a request that
   nobody has handled, and the deletion of a handler that was dropped. *)
NewsAgree(q) ==
    \A i \in 1 .. Len(q) : q[i].op = "new" =>
        /\ phase[q[i].request] \notin Early
        /\ hstate[q[i].request] = "none"
        /\ answeredBy[q[i].request] = "nobody"
        /\ routing # q[i].request

DeletesAgree(q) ==
    \A i \in 1 .. Len(q) : q[i].op = "delete" =>
        handlers[q[i].id] # None /\ hstate[handlers[q[i].id]] \in Dropped

PostedOnce(q) == \A i, j \in 1 .. Len(q) : q[i] = q[j] => i = j

(* Of two requests with one id on their way to the registry, the first was
   lost before the second began. *)
NewsInOrder(q) ==
    /\ \A i, j \in 1 .. Len(q) :
           i < j /\ q[i].op = "new" /\ q[j].op = "new" /\ idOf[q[i].request] = idOf[q[j].request]
               => phase[q[i].request] \in Lost
    /\ \A j \in 1 .. Len(q) :
           q[j].op = "new" /\ routing # None /\ idOf[routing] = idOf[q[j].request]
               => phase[routing] \in Lost

(* A request with the id of a registered handler follows the deletion of
   that handler, unless its request was committed or lost. *)
Excused(r) == answeredBy[r] = "handler" \/ phase[r] \in Lost

DeletesInOrder(q) ==
    \A id \in Ids : handlers[id] # None =>
        /\ \A j \in 1 .. Len(q) : q[j].op = "new" /\ idOf[q[j].request] = id =>
               Excused(handlers[id]) \/ \E i \in 1 .. (j - 1) : q[i] = Delete(id)
        /\ routing # None /\ idOf[routing] = id => Excused(handlers[id])

(* A dropped handler is registered only as long as its deletion is queued,
   until the server is stopped; and one whose request was answered by its
   destructor was queued for deletion while the server still ran. *)
DeletesPosted(q) ==
    \A id \in Ids : handlers[id] # None =>
        /\ hstate[handlers[id]] \in Dropped => ioStopped \/ \E i \in 1 .. Len(q) : q[i] = Delete(id)
        /\ answeredBy[handlers[id]] = "destructor" /\ phase[handlers[id]] = "replied"
               => \E i \in 1 .. Len(q) : q[i] = Delete(id)

(* Nothing is handled before the first start, or once stop has returned. *)
OwnerAgrees ==
    /\ status = "STOPPED" /\ ~ioStopped => routing = None /\ \A r \in Requests : hstate[r] = "none"
    /\ ioStopped /\ main \in {"idle", "destroyed"} =>
           routing = None /\ \A r \in Requests : hstate[r] \notin InThread
    /\ IsFiniteSet({r \in Requests : hstate[r] \in InThread})

QueueAgrees(q) ==
    /\ NewsAgree(q)
    /\ DeletesAgree(q)
    /\ PostedOnce(q)
    /\ NewsInOrder(q)
    /\ DeletesInOrder(q)
    /\ DeletesPosted(q)

SInv ==
    /\ STypeOK
    /\ RequestsAgree
    /\ IdsAgree
    /\ EntriesAgree
    /\ RegisteredUntilDropped
    /\ QueueAgrees(acceptorQ)
    /\ OwnerAgrees
    /\ DeleteFindsHandler
    /\ DestructorFreesId

-----------------------------------------------------------------------------
(* What the strand's queue holds. *)
LEMMA PostKinds ==
    /\ \A r \in Requests : New(r) \in Posts /\ New(r).op = "new" /\ New(r).request = r
    /\ \A id \in Ids : Delete(id) \in Posts /\ Delete(id).op = "delete" /\ Delete(id).id = id
    /\ \A n \in Posts :
           /\ n.op \in {"new", "delete"}
           /\ n.op = "new" => n.request \in Requests /\ n = New(n.request)
           /\ n.op = "delete" => n.id \in Ids /\ n = Delete(n.id)
<1>1. \A r \in Requests : New(r) \in Posts /\ New(r).op = "new" /\ New(r).request = r
  BY DEF Posts, New
<1>2. \A id \in Ids : Delete(id) \in Posts /\ Delete(id).op = "delete" /\ Delete(id).id = id
  BY DEF Posts, Delete
<1>3. ASSUME NEW r \in Requests
      PROVE  New(r).op = "new" /\ New(r) = New(New(r).request)
  BY DEF New
<1>4. ASSUME NEW id \in Ids
      PROVE  Delete(id).op = "delete" /\ Delete(id) = Delete(Delete(id).id)
  BY DEF Delete
<1>5. \A n \in Posts : (\E r \in Requests : n = New(r)) \/ (\E id \in Ids : n = Delete(id))
  BY DEF Posts
<1> QED
  BY <1>1, <1>2, <1>3, <1>4, <1>5

LEMMA QueueTyped ==
    ASSUME STypeOK
    PROVE  /\ acceptorQ \in Seq(Posts)
           /\ Len(acceptorQ) \in Nat
           /\ \A i \in 1 .. Len(acceptorQ) : acceptorQ[i] \in Posts
           /\ \A i \in 1 .. Len(acceptorQ) : acceptorQ[i].op = "new" =>
                  acceptorQ[i].request \in Requests /\ acceptorQ[i] = New(acceptorQ[i].request)
           /\ \A i \in 1 .. Len(acceptorQ) : acceptorQ[i].op = "delete" =>
                  acceptorQ[i].id \in Ids /\ acceptorQ[i] = Delete(acceptorQ[i].id)
<1>1. acceptorQ \in Seq(Posts)
  BY DEF STypeOK, Posts
<1>2. Len(acceptorQ) \in Nat /\ \A i \in 1 .. Len(acceptorQ) : acceptorQ[i] \in Posts
  BY <1>1, LenProperties, ElementOfSeq
<1> QED
  BY <1>1, <1>2, PostKinds

LEMMA Appended ==
    ASSUME STypeOK, NEW n \in Posts, acceptorQ' = Append(acceptorQ, n)
    PROVE  /\ acceptorQ' \in Seq(Posts)
           /\ Len(acceptorQ') = Len(acceptorQ) + 1
           /\ \A i \in 1 .. Len(acceptorQ) : acceptorQ'[i] = acceptorQ[i]
           /\ acceptorQ'[Len(acceptorQ) + 1] = n
  BY QueueTyped, AppendProperties, LenProperties

LEMMA Popped ==
    ASSUME STypeOK, acceptorQ # <<>>, acceptorQ' = Tail(acceptorQ)
    PROVE  /\ acceptorQ' \in Seq(Posts)
           /\ Len(acceptorQ) \in Nat \ {0} /\ Len(acceptorQ') = Len(acceptorQ) - 1
           /\ \A i \in 1 .. Len(acceptorQ') : acceptorQ'[i] = acceptorQ[i + 1]
           /\ Head(acceptorQ) = acceptorQ[1] /\ Head(acceptorQ) \in Posts
  BY QueueTyped, HeadTailProperties, LenProperties

LEMMA NoneIsNone == \A r \in Requests : r # None
  BY ServerAssumption

-----------------------------------------------------------------------------
LEMMA InitSInv == SInit => SInv
<1> SUFFICES ASSUME SInit PROVE SInv
  OBVIOUS
<1> USE DEF SInit, LifecycleInit
<1>1. STypeOK
  <2>1. LifecycleTypeOK
    BY DEF LifecycleTypeOK
  <2>2. acceptorQ \in Seq({New(r) : r \in Requests} \union {Delete(id) : id \in Ids})
    BY EmptySeq
  <2>3. ioStopped \in BOOLEAN
    OBVIOUS
  <2> QED
    BY <2>1, <2>2, <2>3 DEF STypeOK, InThread
<1>2. RequestsAgree /\ IdsAgree /\ EntriesAgree /\ RegisteredUntilDropped
  BY NoneIsNone DEF RequestsAgree, IdsAgree, EntriesAgree, RegisteredUntilDropped, Early, Live
<1>3. QueueAgrees(acceptorQ)
  BY DEF QueueAgrees, NewsAgree, DeletesAgree, PostedOnce, NewsInOrder, DeletesInOrder, DeletesPosted
<1>4. OwnerAgrees
  <2>1. {r \in Requests : hstate[r] \in InThread} = {}
    BY DEF InThread
  <2> QED
    BY <2>1, FS_EmptySet DEF OwnerAgrees
<1> QED
  BY <1>1, <1>2, <1>3, <1>4 DEF SInv, DeleteFindsHandler, DestructorFreesId

-----------------------------------------------------------------------------
(* The steps of the connection. *)

(* A step that ends requests: those in S are answered, others are lost. *)
EndsRequests ==
    /\ phase' \in [Requests -> {"unborn"} \union Live \union Ended]
    /\ open' \in BOOLEAN
    /\ \A r \in Requests :
           \/ phase'[r] = phase[r]
           \/ phase[r] \in Live /\ phase'[r] \in Lost
           \/ phase[r] = "offered" /\ phase'[r] = "replied" /\ r \in replies
    /\ replies' \subseteq replies
    /\ ~ioStopped
    /\ UNCHANGED <<idOf, acceptorQ, routing, handlers, hstate, answeredBy, ownerVars, crash>>

LEMMA LoseEnds ==
    ASSUME SInv, LoseRequest
    PROVE  EndsRequests
<1>1. phase \in [Requests -> {"unborn"} \union Live \union Ended] /\ open \in BOOLEAN
  BY DEF SInv, STypeOK, LifecycleTypeOK
<1>2. /\ UNCHANGED <<idOf, acceptorQ, routing, handlers, hstate, answeredBy, replies, ownerVars, crash>>
      /\ ~ioStopped
  BY DEF LoseRequest, CanRun, handlerVars
<1>3. CASE Shutdown
  BY <1>1, <1>2, <1>3 DEF Shutdown, EndsRequests, Live, Ended, Lost
<1>4. ASSUME NEW r \in Requests, Abort(r)
      PROVE  EndsRequests
  <2>1. phase' = [phase EXCEPT ![r] = "aborted"] /\ open' \in BOOLEAN /\ phase[r] \in Live
    BY <1>4 DEF Abort, EndOne
  <2> QED
    BY <1>1, <1>2, <2>1 DEF EndsRequests, Ended, Lost
<1> QED
  BY <1>3, <1>4 DEF LoseRequest

LEMMA ReplyEnds ==
    ASSUME SInv, NEW r \in Requests, SendReply(r)
    PROVE  EndsRequests
<1>1. phase \in [Requests -> {"unborn"} \union Live \union Ended] /\ open \in BOOLEAN
  BY DEF SInv, STypeOK, LifecycleTypeOK
<1>2. /\ UNCHANGED <<idOf, acceptorQ, routing, handlers, hstate, answeredBy, ownerVars, crash>>
      /\ ~ioStopped /\ r \in replies /\ replies' = replies \ {r}
  BY DEF SendReply, CanRun
<1>3. CASE Shutdown
  BY <1>1, <1>2, <1>3 DEF Shutdown, EndsRequests, Live, Ended, Lost
<1>4. CASE phase[r] = "offered" /\ Answer(r)
  <2>1. phase' = [phase EXCEPT ![r] = "replied"] /\ open' \in BOOLEAN
    BY <1>4 DEF Answer, EndOne
  <2> QED
    BY <1>1, <1>2, <1>4, <2>1 DEF EndsRequests, Ended
<1>5. CASE UNCHANGED lvars
  BY <1>1, <1>2, <1>5 DEF lvars, EndsRequests
<1> QED
  BY <1>3, <1>4, <1>5 DEF SendReply

LEMMA EndKeepsSInv ==
    ASSUME SInv, EndsRequests
    PROVE  SInv'
<1> USE DEF SInv, EndsRequests
<1>1. /\ \A r \in Requests : phase'[r] \in Early => phase'[r] = phase[r]
      /\ \A r \in Requests : phase[r] \notin Early => phase'[r] \notin Early
      /\ \A r \in Requests : phase[r] \in Lost => phase'[r] \in Lost
      /\ \A r \in Requests : phase'[r] \in Live => phase[r] \in Live
  BY DEF Early, Lost, Live
<1>2. STypeOK'
  BY DEF STypeOK, LifecycleTypeOK, ownerVars
<1>3. RequestsAgree'
  <2>1. \A r \in Requests : phase'[r] = "replied" => phase[r] = "replied" \/ r \in replies
    BY DEF Lost
  <2>2. \A r \in Requests : phase'[r] # "unborn" => phase[r] # "unborn"
    BY DEF Live
  <2> QED
    BY <1>1, <2>1, <2>2 DEF RequestsAgree
<1>4. IdsAgree' /\ EntriesAgree' /\ RegisteredUntilDropped'
  BY <1>1 DEF IdsAgree, EntriesAgree, RegisteredUntilDropped
<1>5. QueueAgrees(acceptorQ)'
  <2>1. NewsAgree(acceptorQ)' /\ DeletesAgree(acceptorQ)' /\ PostedOnce(acceptorQ)'
    BY <1>1, QueueTyped DEF QueueAgrees, NewsAgree, DeletesAgree, PostedOnce
  <2>2. NewsInOrder(acceptorQ)'
    BY <1>1, QueueTyped DEF QueueAgrees, NewsInOrder, STypeOK
  <2>3. DeletesInOrder(acceptorQ)'
    BY <1>1, QueueTyped DEF QueueAgrees, DeletesInOrder, Excused, STypeOK
  <2>4. DeletesPosted(acceptorQ)'
    <3> SUFFICES ASSUME NEW id \in Ids, handlers[id] # None
                 PROVE  /\ hstate[handlers[id]] \in Dropped => \E i \in 1 .. Len(acceptorQ) : acceptorQ[i] = Delete(id)
                        /\ answeredBy[handlers[id]] = "destructor" /\ phase'[handlers[id]] = "replied"
                               => \E i \in 1 .. Len(acceptorQ) : acceptorQ[i] = Delete(id)
      BY DEF DeletesPosted, ownerVars
    <3>1. handlers[id] \in Requests
      BY DEF STypeOK
    <3>2. hstate[handlers[id]] \in Dropped => \E i \in 1 .. Len(acceptorQ) : acceptorQ[i] = Delete(id)
      BY DEF QueueAgrees, DeletesPosted
    <3>3. answeredBy[handlers[id]] = "destructor" => hstate[handlers[id]] \in Dropped
      BY <3>1 DEF RequestsAgree, EntriesAgree, Dropped
    <3> QED
      BY <3>2, <3>3
  <2> QED
    BY <2>1, <2>2, <2>3, <2>4 DEF QueueAgrees
<1>6. OwnerAgrees'
  BY DEF OwnerAgrees, ownerVars
<1>7. DeleteFindsHandler' /\ DestructorFreesId'
  BY <1>1 DEF DeleteFindsHandler, DestructorFreesId, Lost
<1> QED
  BY <1>2, <1>3, <1>4, <1>5, <1>6, <1>7

(* A request that was offered keeps its id. *)
LEMMA BeginKeepsSInv ==
    ASSUME SInv, crash = "none", NEW r \in Requests, NEW id \in Ids, BeginRequest(r, id)
    PROVE  SInv'
<1> USE DEF SInv
<1>1. /\ phase[r] = "unborn" /\ id \notin LiveIds
      /\ phase' = [phase EXCEPT ![r] = "receiving"]
      /\ idOf' = [idOf EXCEPT ![r] = id]
      /\ UNCHANGED <<open, acceptorQ, routing, handlers, hstate, answeredBy, replies, status,
                      ioStopped, main, crash>>
  BY DEF BeginRequest, Begin, handlerVars, ownerVars
<1>2. /\ phase \in [Requests -> {"unborn"} \union Live \union Ended]
      /\ idOf \in [Requests -> Ids \union {None}]
  BY DEF STypeOK, LifecycleTypeOK
<1>3. /\ phase'[r] = "receiving" /\ idOf'[r] = id
      /\ \A s \in Requests \ {r} : phase'[s] = phase[s] /\ idOf'[s] = idOf[s]
  BY <1>1, <1>2
<1>4. STypeOK'
  <2>1. /\ phase' \in [Requests -> {"unborn"} \union Live \union Ended]
        /\ idOf' \in [Requests -> Ids \union {None}]
    BY <1>1, <1>2 DEF Live
  <2> QED
    BY <1>1, <2>1 DEF STypeOK, LifecycleTypeOK
<1>5. RequestsAgree'
  BY <1>1, <1>3 DEF RequestsAgree, Early
<1>6. IdsAgree'
  <2>1. \A s \in Requests : phase[s] \in Live => idOf[s] # id
    BY <1>1 DEF LiveIds
  <2> QED
    BY <1>3, <2>1 DEF IdsAgree
<1>7. \A s \in Requests : hstate[s] # "none" \/ phase[s] \notin Early \/ routing = s => s # r
  BY <1>1 DEF RequestsAgree, Early
<1>8. EntriesAgree'
  <2>1. \A i \in Ids : handlers[i] # None => handlers[i] \in Requests
    BY DEF STypeOK
  <2> QED
    BY <1>1, <1>3, <1>7, <2>1 DEF EntriesAgree
<1>9. RegisteredUntilDropped'
  BY <1>1, <1>3, <1>7 DEF RegisteredUntilDropped
<1>10. QueueAgrees(acceptorQ)'
  <2>1. \A i \in 1 .. Len(acceptorQ) : acceptorQ[i].op = "new" =>
           /\ acceptorQ[i].request \in Requests
           /\ acceptorQ[i].request # r
           /\ idOf'[acceptorQ[i].request] = idOf[acceptorQ[i].request]
           /\ phase'[acceptorQ[i].request] = phase[acceptorQ[i].request]
    BY <1>3, <1>7, QueueTyped DEF QueueAgrees, NewsAgree
  <2>2. routing # None => idOf'[routing] = idOf[routing] /\ phase'[routing] = phase[routing]
    BY <1>3, <1>7 DEF STypeOK
  <2>3. \A i \in Ids : handlers[i] # None => phase'[handlers[i]] = phase[handlers[i]]
    BY <1>3, <1>7 DEF STypeOK, EntriesAgree
  <2>4. NewsAgree(acceptorQ)' /\ DeletesAgree(acceptorQ)' /\ PostedOnce(acceptorQ)'
    BY <1>1, <2>1 DEF QueueAgrees, NewsAgree, DeletesAgree, PostedOnce
  <2>5. NewsInOrder(acceptorQ)'
    BY <1>1, <2>1, <2>2 DEF QueueAgrees, NewsInOrder
  <2>6. DeletesInOrder(acceptorQ)'
    BY <1>1, <2>1, <2>2, <2>3 DEF QueueAgrees, DeletesInOrder, Excused
  <2>7. DeletesPosted(acceptorQ)'
    BY <1>1, <2>3 DEF QueueAgrees, DeletesPosted
  <2> QED
    BY <2>4, <2>5, <2>6, <2>7 DEF QueueAgrees
<1>11. OwnerAgrees'
  BY <1>1 DEF OwnerAgrees
<1>12. DeleteFindsHandler' /\ DestructorFreesId'
  BY <1>1 DEF DeleteFindsHandler, DestructorFreesId
<1> QED
  BY <1>4, <1>5, <1>6, <1>8, <1>9, <1>10, <1>11, <1>12

(* A request with the id of one that is on its way, or of a registered
   handler, was begun after that one ended: unanswered, it was lost; answered
   by its destructor, its deletion is ahead in the queue. *)
LEMMA OfferKeepsSInv ==
    ASSUME SInv, crash = "none", NEW r \in Requests, OfferRequest(r)
    PROVE  SInv'
<1> USE DEF SInv
<1>1. /\ phase[r] = "receiving"
      /\ phase' = [phase EXCEPT ![r] = "offered"]
      /\ acceptorQ' = Append(acceptorQ, New(r))
      /\ UNCHANGED <<open, idOf, routing, handlers, hstate, answeredBy, replies, status, ioStopped,
                      main, crash>>
  BY DEF OfferRequest, Offer, handlerVars, ownerVars
<1>2. /\ phase \in [Requests -> {"unborn"} \union Live \union Ended]
      /\ phase' \in [Requests -> {"unborn"} \union Live \union Ended]
  BY <1>1 DEF STypeOK, LifecycleTypeOK, Live
<1>3. phase'[r] = "offered" /\ \A s \in Requests \ {r} : phase'[s] = phase[s]
  BY <1>1, <1>2
<1>4. /\ acceptorQ' \in Seq(Posts)
      /\ Len(acceptorQ') = Len(acceptorQ) + 1 /\ Len(acceptorQ) \in Nat
      /\ \A i \in 1 .. Len(acceptorQ) : acceptorQ'[i] = acceptorQ[i]
      /\ acceptorQ'[Len(acceptorQ) + 1] = New(r)
  BY <1>1, PostKinds, Appended, QueueTyped
<1>5. STypeOK'
  BY <1>1, <1>2, <1>4 DEF STypeOK, LifecycleTypeOK, Posts
<1>6. hstate[r] = "none" /\ answeredBy[r] = "nobody" /\ routing # r /\ idOf[r] \in Ids
  BY <1>1 DEF RequestsAgree, Early
<1>7. RequestsAgree'
  BY <1>1, <1>3, <1>6 DEF RequestsAgree, Early
<1>8. IdsAgree' /\ EntriesAgree' /\ RegisteredUntilDropped'
  BY <1>1, <1>3 DEF IdsAgree, EntriesAgree, RegisteredUntilDropped, Live
<1>9. \A i \in 1 .. Len(acceptorQ) : acceptorQ[i].op = "new" =>
         /\ acceptorQ[i].request \in Requests
         /\ acceptorQ[i].request # r
         /\ acceptorQ[i] # New(r)
         /\ phase'[acceptorQ[i].request] = phase[acceptorQ[i].request]
  <2>1. \A i \in 1 .. Len(acceptorQ) : acceptorQ[i].op = "new" =>
           acceptorQ[i].request \in Requests /\ acceptorQ[i].request # r
    BY <1>1, QueueTyped DEF QueueAgrees, NewsAgree, Early
  <2> QED
    BY <1>3, <2>1, PostKinds
<1>10. routing # None => routing \in Requests /\ phase'[routing] = phase[routing]
  BY <1>3, <1>6 DEF STypeOK
<1>11. \A id \in Ids : handlers[id] # None =>
          handlers[id] \in Requests /\ handlers[id] # r /\ phase'[handlers[id]] = phase[handlers[id]]
  BY <1>3, <1>6 DEF STypeOK, EntriesAgree
<1>12. \A s \in Requests \ {r} : phase[s] \notin Early /\ idOf[s] = idOf[r] =>
          phase[s] \in Lost \/ phase[s] = "replied"
  BY <1>1, <1>2 DEF IdsAgree, Early, Live, Ended, Lost
<1>13. NewsAgree(acceptorQ)'
  <2>1. \A i \in 1 .. Len(acceptorQ) : acceptorQ'[i].op = "new" =>
           /\ phase'[acceptorQ'[i].request] \notin Early
           /\ hstate[acceptorQ'[i].request] = "none"
           /\ answeredBy[acceptorQ'[i].request] = "nobody"
           /\ routing # acceptorQ'[i].request
    BY <1>4, <1>9 DEF QueueAgrees, NewsAgree
  <2>2. phase'[r] \notin Early /\ New(r).request = r
    BY <1>3, PostKinds DEF Early
  <2> QED
    BY <1>1, <1>4, <1>6, <2>1, <2>2 DEF NewsAgree
<1>14. DeletesAgree(acceptorQ)'
  BY <1>1, <1>4, PostKinds DEF QueueAgrees, DeletesAgree
<1>15. PostedOnce(acceptorQ)'
  <2>1. \A i \in 1 .. Len(acceptorQ) : acceptorQ[i] # New(r)
    BY <1>9, PostKinds
  <2> QED
    BY <1>4, <2>1 DEF QueueAgrees, PostedOnce
<1>16. NewsInOrder(acceptorQ)'
  <2>1. ASSUME NEW i \in 1 .. Len(acceptorQ), acceptorQ[i].op = "new",
               idOf[acceptorQ[i].request] = idOf[r]
        PROVE  phase[acceptorQ[i].request] \in Lost
    <3>1. phase[acceptorQ[i].request] \notin Early /\ answeredBy[acceptorQ[i].request] = "nobody"
      BY <2>1 DEF QueueAgrees, NewsAgree
    <3> QED
      BY <1>9, <1>12, <2>1, <3>1 DEF RequestsAgree
  <2>2. routing # None /\ idOf[routing] = idOf[r] => phase[routing] \in Lost
    BY <1>6, <1>10, <1>12 DEF RequestsAgree
  <2>3. /\ \A i, j \in 1 .. Len(acceptorQ) :
               i < j /\ acceptorQ[i].op = "new" /\ acceptorQ[j].op = "new"
               /\ idOf[acceptorQ[i].request] = idOf[acceptorQ[j].request]
                   => phase[acceptorQ[i].request] \in Lost
        /\ \A j \in 1 .. Len(acceptorQ) :
               acceptorQ[j].op = "new" /\ routing # None /\ idOf[routing] = idOf[acceptorQ[j].request]
                   => phase[routing] \in Lost
    BY DEF QueueAgrees, NewsInOrder
  <2>4. New(r).request = r
    BY PostKinds
  <2>5. ASSUME NEW i \in 1 .. Len(acceptorQ'), NEW j \in 1 .. Len(acceptorQ'),
               i < j, acceptorQ'[i].op = "new", acceptorQ'[j].op = "new",
               idOf[acceptorQ'[i].request] = idOf[acceptorQ'[j].request]
        PROVE  phase'[acceptorQ'[i].request] \in Lost
    <3>1. i \in 1 .. Len(acceptorQ) /\ acceptorQ'[i] = acceptorQ[i]
      BY <1>4, <2>5
    <3>2. CASE j \in 1 .. Len(acceptorQ)
      BY <1>4, <1>9, <2>3, <2>5, <3>1, <3>2
    <3>3. CASE j = Len(acceptorQ) + 1
      BY <1>4, <1>9, <2>1, <2>4, <2>5, <3>1, <3>3
    <3> QED
      BY <1>4, <3>2, <3>3
  <2>6. ASSUME NEW j \in 1 .. Len(acceptorQ'), acceptorQ'[j].op = "new",
               routing # None, idOf[routing] = idOf[acceptorQ'[j].request]
        PROVE  phase'[routing] \in Lost
    <3>1. CASE j \in 1 .. Len(acceptorQ)
      BY <1>4, <1>10, <2>3, <2>6, <3>1
    <3>2. CASE j = Len(acceptorQ) + 1
      BY <1>4, <1>10, <2>2, <2>4, <2>6, <3>2
    <3> QED
      BY <1>4, <3>1, <3>2
  <2> QED
    BY <1>1, <2>5, <2>6 DEF NewsInOrder
<1>17. DeletesInOrder(acceptorQ)'
  <2> SUFFICES ASSUME NEW id \in Ids, handlers[id] # None
               PROVE  /\ \A j \in 1 .. Len(acceptorQ') : acceptorQ'[j].op = "new" /\ idOf[acceptorQ'[j].request] = id =>
                             \/ answeredBy[handlers[id]] = "handler" \/ phase'[handlers[id]] \in Lost
                             \/ \E i \in 1 .. (j - 1) : acceptorQ'[i] = Delete(id)
                      /\ routing # None /\ idOf[routing] = id =>
                             answeredBy[handlers[id]] = "handler" \/ phase'[handlers[id]] \in Lost
    BY <1>1 DEF DeletesInOrder, Excused
  <2>1. /\ \A j \in 1 .. Len(acceptorQ) : acceptorQ[j].op = "new" /\ idOf[acceptorQ[j].request] = id =>
               Excused(handlers[id]) \/ \E i \in 1 .. (j - 1) : acceptorQ[i] = Delete(id)
        /\ routing # None /\ idOf[routing] = id => Excused(handlers[id])
    BY DEF QueueAgrees, DeletesInOrder
  <2>2. phase'[handlers[id]] = phase[handlers[id]] /\ handlers[id] \in Requests /\ handlers[id] # r
    BY <1>11
  <2>3. ASSUME NEW j \in 1 .. Len(acceptorQ), acceptorQ'[j].op = "new", idOf[acceptorQ'[j].request] = id
        PROVE  Excused(handlers[id]) \/ \E i \in 1 .. (j - 1) : acceptorQ'[i] = Delete(id)
    BY <1>4, <2>1, <2>3
  <2>4. ASSUME idOf[r] = id
        PROVE  Excused(handlers[id]) \/ \E i \in 1 .. Len(acceptorQ) : acceptorQ'[i] = Delete(id)
    <3>1. idOf[handlers[id]] = idOf[r] /\ hstate[handlers[id]] # "none"
      BY <2>4 DEF EntriesAgree
    <3>2. phase[handlers[id]] \in Lost \/ phase[handlers[id]] = "replied"
      BY <1>12, <2>2, <3>1 DEF RequestsAgree
    <3>3. phase[handlers[id]] = "replied" => answeredBy[handlers[id]] \in {"handler", "destructor"}
      BY <2>2 DEF RequestsAgree, STypeOK
    <3> QED
      BY <1>4, <3>2, <3>3 DEF Excused, QueueAgrees, DeletesPosted
  <2>5. New(r).request = r
    BY PostKinds
  <2>6. ASSUME NEW j \in 1 .. Len(acceptorQ'), acceptorQ'[j].op = "new", idOf[acceptorQ'[j].request] = id
        PROVE  Excused(handlers[id]) \/ \E i \in 1 .. (j - 1) : acceptorQ'[i] = Delete(id)
    <3>1. CASE j \in 1 .. Len(acceptorQ)
      BY <2>3, <2>6, <3>1
    <3>2. CASE j = Len(acceptorQ) + 1
      BY <1>4, <2>4, <2>5, <2>6, <3>2
    <3> QED
      BY <1>4, <3>1, <3>2
  <2> QED
    BY <2>1, <2>2, <2>6 DEF Excused
<1>18. DeletesPosted(acceptorQ)'
  BY <1>1, <1>4, <1>11 DEF QueueAgrees, DeletesPosted
<1>19. QueueAgrees(acceptorQ)'
  BY <1>13, <1>14, <1>15, <1>16, <1>17, <1>18 DEF QueueAgrees
<1>20. OwnerAgrees' /\ DeleteFindsHandler' /\ DestructorFreesId'
  BY <1>1 DEF OwnerAgrees, DeleteFindsHandler, DestructorFreesId
<1> QED
  BY <1>5, <1>7, <1>8, <1>19, <1>20

-----------------------------------------------------------------------------
(* The steps of the acceptor's strand. *)

(* What the queue still orders once its head is taken. *)
LEMMA PoppedOrder ==
    ASSUME SInv, acceptorQ # <<>>, acceptorQ' = Tail(acceptorQ)
    PROVE  /\ acceptorQ' \in Seq(Posts)
           /\ Len(acceptorQ) \in Nat \ {0} /\ Len(acceptorQ') = Len(acceptorQ) - 1
           /\ Head(acceptorQ) = acceptorQ[1]
           /\ \A i \in 1 .. Len(acceptorQ') :
                  /\ i + 1 \in 1 .. Len(acceptorQ)
                  /\ acceptorQ'[i] = acceptorQ[i + 1]
                  /\ acceptorQ'[i] # Head(acceptorQ)
           /\ PostedOnce(acceptorQ')
           /\ \A j \in 1 .. Len(acceptorQ'), id \in Ids :
                  Delete(id) # Head(acceptorQ) /\ (\E i \in 1 .. j : acceptorQ[i] = Delete(id))
                      => \E i \in 1 .. (j - 1) : acceptorQ'[i] = Delete(id)
           /\ \A id \in Ids :
                  Delete(id) # Head(acceptorQ) /\ (\E i \in 1 .. Len(acceptorQ) : acceptorQ[i] = Delete(id))
                      => \E i \in 1 .. Len(acceptorQ') : acceptorQ'[i] = Delete(id)
<1>1. /\ acceptorQ' \in Seq(Posts)
      /\ Len(acceptorQ) \in Nat \ {0} /\ Len(acceptorQ') = Len(acceptorQ) - 1
      /\ \A i \in 1 .. Len(acceptorQ') : acceptorQ'[i] = acceptorQ[i + 1]
      /\ Head(acceptorQ) = acceptorQ[1]
  BY Popped DEF SInv
<1>2. \A i \in 1 .. Len(acceptorQ') : i + 1 \in 1 .. Len(acceptorQ)
  BY <1>1
<1>3. \A i, j \in 1 .. Len(acceptorQ) : acceptorQ[i] = acceptorQ[j] => i = j
  BY DEF SInv, QueueAgrees, PostedOnce
<1>4. \A i \in 1 .. Len(acceptorQ') : acceptorQ'[i] # Head(acceptorQ)
  BY <1>1, <1>2, <1>3
<1>5. PostedOnce(acceptorQ')
  <2> SUFFICES ASSUME NEW i \in 1 .. Len(acceptorQ'), NEW j \in 1 .. Len(acceptorQ'),
                      acceptorQ'[i] = acceptorQ'[j]
               PROVE  i = j
    BY DEF PostedOnce
  <2>1. i + 1 = j + 1
    BY <1>1, <1>2, <1>3
  <2> QED
    BY <2>1
<1>6. ASSUME NEW j \in 1 .. Len(acceptorQ), NEW id \in Ids, Delete(id) # Head(acceptorQ),
             NEW i \in 1 .. j, acceptorQ[i] = Delete(id)
      PROVE  i - 1 \in 1 .. (j - 1) /\ acceptorQ'[i - 1] = Delete(id)
  <2>1. i # 1
    BY <1>1, <1>6
  <2> QED
    BY <1>1, <1>6, <2>1
<1>7. ASSUME NEW j \in 1 .. Len(acceptorQ'), NEW id \in Ids, Delete(id) # Head(acceptorQ),
             \E i \in 1 .. j : acceptorQ[i] = Delete(id)
      PROVE  \E i \in 1 .. (j - 1) : acceptorQ'[i] = Delete(id)
  <2>1. j \in 1 .. Len(acceptorQ)
    BY <1>1
  <2>2. PICK i \in 1 .. j : acceptorQ[i] = Delete(id)
    BY <1>7
  <2>3. i - 1 \in 1 .. (j - 1) /\ acceptorQ'[i - 1] = Delete(id)
    BY <1>6, <1>7, <2>1, <2>2
  <2> QED
    BY <2>3
<1>8. ASSUME NEW id \in Ids, Delete(id) # Head(acceptorQ),
             \E i \in 1 .. Len(acceptorQ) : acceptorQ[i] = Delete(id)
      PROVE  \E i \in 1 .. Len(acceptorQ') : acceptorQ'[i] = Delete(id)
  <2>1. Len(acceptorQ) \in 1 .. Len(acceptorQ)
    BY <1>1
  <2> QED
    BY <1>1, <1>6, <1>8, <2>1
<1> QED
  BY <1>1, <1>2, <1>4, <1>5, <1>7, <1>8

(* The request that route is asked about leaves the queue: what it waited
   behind has gone before it. *)
LEMMA EnterKeepsSInv ==
    ASSUME SInv, crash = "none", EnterRoute
    PROVE  SInv'
<1> USE DEF SInv
<1>1. /\ routing = None /\ acceptorQ # <<>> /\ Head(acceptorQ).op = "new"
      /\ acceptorQ' = Tail(acceptorQ)
      /\ status = "STARTED" /\ ~ioStopped
      /\ UNCHANGED <<phase, open, idOf, handlers, hstate, answeredBy, replies, status, ioStopped, main>>
      /\ \/ routing' = Head(acceptorQ).request /\ crash' = "none"
         \/ routing' = None /\ crash' \in {"uncaught", "pureVirtual"}
  BY DEF EnterRoute, StrandHead, CanRun, fcgiVars, handlerVars, ownerVars
<1>2. /\ acceptorQ' \in Seq(Posts)
      /\ Len(acceptorQ) \in Nat \ {0}
      /\ Head(acceptorQ) = acceptorQ[1]
      /\ \A i \in 1 .. Len(acceptorQ') :
             i + 1 \in 1 .. Len(acceptorQ) /\ acceptorQ'[i] = acceptorQ[i + 1] /\ acceptorQ'[i] # Head(acceptorQ)
      /\ PostedOnce(acceptorQ')
  BY <1>1, PoppedOrder
<1>3. 1 \in 1 .. Len(acceptorQ)
  BY <1>2
<1> DEFINE r == Head(acceptorQ).request
<1>4. /\ r \in Requests /\ Head(acceptorQ) = New(r) /\ acceptorQ[1].request = r
      /\ acceptorQ[1].op = "new"
  BY <1>1, <1>2, <1>3, QueueTyped
<1>5. \A id \in Ids : Delete(id) # Head(acceptorQ)
  BY <1>1, PostKinds
<1>6. /\ \A j \in 1 .. Len(acceptorQ'), id \in Ids :
             (\E i \in 1 .. j : acceptorQ[i] = Delete(id)) => \E i \in 1 .. (j - 1) : acceptorQ'[i] = Delete(id)
      /\ \A id \in Ids :
             (\E i \in 1 .. Len(acceptorQ) : acceptorQ[i] = Delete(id))
                 => \E i \in 1 .. Len(acceptorQ') : acceptorQ'[i] = Delete(id)
  BY <1>1, <1>5, PoppedOrder
<1>7. routing' \in {r, None} /\ crash' \in {"none", "uncaught", "pureVirtual"}
  BY <1>1
<1> HIDE DEF r
<1>8. phase[r] \notin Early /\ hstate[r] = "none" /\ answeredBy[r] = "nobody"
  BY <1>3, <1>4 DEF QueueAgrees, NewsAgree
<1>9. STypeOK'
  BY <1>1, <1>2, <1>4, <1>7 DEF STypeOK, LifecycleTypeOK, Posts
<1>10. RequestsAgree'
  BY <1>1, <1>7, <1>8, NoneIsNone DEF RequestsAgree
<1>11. IdsAgree' /\ EntriesAgree' /\ RegisteredUntilDropped'
  BY <1>1 DEF IdsAgree, EntriesAgree, RegisteredUntilDropped
<1>12. NewsAgree(acceptorQ)'
  <2>1. ASSUME NEW i \in 1 .. Len(acceptorQ'), acceptorQ'[i].op = "new"
        PROVE  /\ phase[acceptorQ'[i].request] \notin Early
               /\ hstate[acceptorQ'[i].request] = "none"
               /\ answeredBy[acceptorQ'[i].request] = "nobody"
               /\ acceptorQ'[i].request # r /\ acceptorQ'[i].request # None
    <3>1. acceptorQ'[i] = New(acceptorQ'[i].request) /\ acceptorQ'[i].request \in Requests
      BY <1>2, <2>1, QueueTyped
    <3>2. acceptorQ'[i].request # r
      BY <1>2, <1>4, <3>1
    <3> QED
      BY <1>2, <2>1, <3>1, <3>2, NoneIsNone DEF QueueAgrees, NewsAgree
  <2> QED
    BY <1>1, <1>7, <2>1 DEF NewsAgree
<1>13. DeletesAgree(acceptorQ)'
  BY <1>1, <1>2 DEF QueueAgrees, DeletesAgree
<1>14. NewsInOrder(acceptorQ)'
  <2>1. \A i, j \in 1 .. Len(acceptorQ') : i < j => i + 1 < j + 1
    BY <1>2
  <2>2. ASSUME NEW i \in 1 .. Len(acceptorQ'), NEW j \in 1 .. Len(acceptorQ'),
               i < j, acceptorQ'[i].op = "new", acceptorQ'[j].op = "new",
               idOf[acceptorQ'[i].request] = idOf[acceptorQ'[j].request]
        PROVE  phase[acceptorQ'[i].request] \in Lost
    <3>1. /\ i + 1 \in 1 .. Len(acceptorQ) /\ j + 1 \in 1 .. Len(acceptorQ)
          /\ acceptorQ'[i] = acceptorQ[i + 1] /\ acceptorQ'[j] = acceptorQ[j + 1]
      BY <1>2
    <3> QED
      BY <2>1, <2>2, <3>1 DEF QueueAgrees, NewsInOrder
  <2>3. \A j \in 1 .. Len(acceptorQ') : 1 < j + 1
    BY <1>2
  <2>4. \A j \in 1 .. Len(acceptorQ') :
           acceptorQ'[j].op = "new" /\ idOf[r] = idOf[acceptorQ'[j].request] => phase[r] \in Lost
    BY <1>2, <1>3, <1>4, <2>3 DEF QueueAgrees, NewsInOrder
  <2> QED
    BY <1>1, <1>7, <2>2, <2>4 DEF NewsInOrder
<1>15. DeletesInOrder(acceptorQ)'
  <2> SUFFICES ASSUME NEW id \in Ids, handlers[id] # None
               PROVE  /\ \A j \in 1 .. Len(acceptorQ') : acceptorQ'[j].op = "new" /\ idOf[acceptorQ'[j].request] = id =>
                             Excused(handlers[id]) \/ \E i \in 1 .. (j - 1) : acceptorQ'[i] = Delete(id)
                      /\ routing' # None /\ idOf[routing'] = id => Excused(handlers[id])
    BY <1>1 DEF DeletesInOrder, Excused
  <2>1. \A j \in 1 .. Len(acceptorQ) : acceptorQ[j].op = "new" /\ idOf[acceptorQ[j].request] = id =>
               Excused(handlers[id]) \/ \E i \in 1 .. (j - 1) : acceptorQ[i] = Delete(id)
    BY DEF QueueAgrees, DeletesInOrder
  <2>2. ASSUME NEW j \in 1 .. Len(acceptorQ'), acceptorQ'[j].op = "new", idOf[acceptorQ'[j].request] = id
        PROVE  Excused(handlers[id]) \/ \E i \in 1 .. (j - 1) : acceptorQ'[i] = Delete(id)
    <3>1. j + 1 \in 1 .. Len(acceptorQ) /\ acceptorQ'[j] = acceptorQ[j + 1] /\ (j + 1) - 1 = j
      BY <1>2
    <3> QED
      BY <1>6, <2>1, <2>2, <3>1
  <2>3. idOf[r] = id => Excused(handlers[id])
    <3>1. ~(\E i \in 1 .. (1 - 1) : acceptorQ[i] = Delete(id))
      OBVIOUS
    <3> QED
      BY <1>3, <1>4, <2>1, <3>1
  <2> QED
    BY <1>7, <2>2, <2>3
<1>16. DeletesPosted(acceptorQ)'
  BY <1>1, <1>6 DEF QueueAgrees, DeletesPosted
<1>17. QueueAgrees(acceptorQ)'
  BY <1>2, <1>12, <1>13, <1>14, <1>15, <1>16 DEF QueueAgrees
<1>18. OwnerAgrees'
  BY <1>1 DEF OwnerAgrees
<1>19. DeleteFindsHandler' /\ DestructorFreesId'
  BY <1>7 DEF DeleteFindsHandler, DestructorFreesId
<1> QED
  BY <1>9, <1>10, <1>11, <1>17, <1>18, <1>19

(* The handler that a deletion removes is the dropped one it was posted for. *)
LEMMA DeleteKeepsSInv ==
    ASSUME SInv, crash = "none", HandleRequestDeleteImpl
    PROVE  SInv'
<1> USE DEF SInv
<1>1. /\ routing = None /\ acceptorQ # <<>> /\ Head(acceptorQ).op = "delete"
      /\ acceptorQ' = Tail(acceptorQ)
      /\ UNCHANGED <<phase, open, idOf, routing, hstate, answeredBy, replies, status, ioStopped, main>>
  BY DEF HandleRequestDeleteImpl, StrandHead, fcgiVars, handlerVars, ownerVars
<1>2. /\ acceptorQ' \in Seq(Posts)
      /\ Len(acceptorQ) \in Nat \ {0}
      /\ Head(acceptorQ) = acceptorQ[1]
      /\ \A i \in 1 .. Len(acceptorQ') :
             i + 1 \in 1 .. Len(acceptorQ) /\ acceptorQ'[i] = acceptorQ[i + 1] /\ acceptorQ'[i] # Head(acceptorQ)
      /\ PostedOnce(acceptorQ')
  BY <1>1, PoppedOrder
<1>3. 1 \in 1 .. Len(acceptorQ)
  BY <1>2
<1> DEFINE gone == Head(acceptorQ).id
<1>4. /\ gone \in Ids /\ Head(acceptorQ) = Delete(gone) /\ acceptorQ[1].id = gone
      /\ acceptorQ[1].op = "delete"
  BY <1>1, <1>2, <1>3, QueueTyped
<1>5. handlers' = [handlers EXCEPT ![gone] = None]
  BY DEF HandleRequestDeleteImpl
<1>6. crash' = IF handlers[gone] = None THEN "nothingToDelete" ELSE crash
  BY DEF HandleRequestDeleteImpl
<1> HIDE DEF gone
<1>7. handlers[gone] # None /\ hstate[handlers[gone]] \in Dropped
  BY <1>3, <1>4 DEF QueueAgrees, DeletesAgree
<1>8. crash' = "none"
  BY <1>6, <1>7
<1>9. \A id \in Ids : handlers'[id] = IF id = gone THEN None ELSE handlers[id]
  BY <1>5 DEF STypeOK
<1>10. \A id \in Ids \ {gone} : Delete(id) # Head(acceptorQ)
  BY <1>4, PostKinds
<1>11. /\ \A j \in 1 .. Len(acceptorQ'), id \in Ids \ {gone} :
              (\E i \in 1 .. j : acceptorQ[i] = Delete(id)) => \E i \in 1 .. (j - 1) : acceptorQ'[i] = Delete(id)
       /\ \A id \in Ids \ {gone} :
              (\E i \in 1 .. Len(acceptorQ) : acceptorQ[i] = Delete(id))
                  => \E i \in 1 .. Len(acceptorQ') : acceptorQ'[i] = Delete(id)
  BY <1>1, <1>10, PoppedOrder
<1>12. STypeOK'
  <2>1. handlers' \in [Ids -> Requests \union {None}]
    BY <1>5 DEF STypeOK
  <2> QED
    BY <1>1, <1>2, <1>8, <2>1 DEF STypeOK, LifecycleTypeOK, Posts
<1>13. RequestsAgree' /\ IdsAgree' /\ EntriesAgree'
  BY <1>1, <1>9 DEF RequestsAgree, IdsAgree, EntriesAgree
<1>14. RegisteredUntilDropped'
  <2> SUFFICES ASSUME NEW r \in Requests,
                      hstate[r] \in {"posted", "handling", "waiting", "callbackPosted", "callback"}
               PROVE  handlers'[idOf[r]] = r
    BY <1>1 DEF RegisteredUntilDropped
  <2>1. handlers[idOf[r]] = r
    BY DEF RegisteredUntilDropped
  <2>2. idOf[r] \in Ids
    BY DEF RequestsAgree, Early
  <2> QED
    BY <1>7, <1>9, <2>1, <2>2 DEF Dropped
<1>15. NewsAgree(acceptorQ)'
  BY <1>1, <1>2 DEF QueueAgrees, NewsAgree
<1>16. DeletesAgree(acceptorQ)'
  <2> SUFFICES ASSUME NEW i \in 1 .. Len(acceptorQ'), acceptorQ'[i].op = "delete"
               PROVE  handlers'[acceptorQ'[i].id] # None /\ hstate[handlers'[acceptorQ'[i].id]] \in Dropped
    BY <1>1 DEF DeletesAgree
  <2>1. acceptorQ'[i] = Delete(acceptorQ'[i].id) /\ acceptorQ'[i].id \in Ids
    BY <1>2, QueueTyped
  <2>2. acceptorQ'[i].id # gone
    BY <1>2, <1>4, <2>1
  <2> QED
    BY <1>2, <1>9, <2>1, <2>2 DEF QueueAgrees, DeletesAgree
<1>17. NewsInOrder(acceptorQ)'
  <2>1. \A i, j \in 1 .. Len(acceptorQ') : i < j => i + 1 < j + 1
    BY <1>2
  <2> QED
    BY <1>1, <1>2, <2>1 DEF QueueAgrees, NewsInOrder
<1>18. DeletesInOrder(acceptorQ)'
  <2> SUFFICES ASSUME NEW id \in Ids \ {gone}, handlers[id] # None,
                      NEW j \in 1 .. Len(acceptorQ'),
                      acceptorQ'[j].op = "new", idOf[acceptorQ'[j].request] = id
               PROVE  Excused(handlers[id]) \/ \E i \in 1 .. (j - 1) : acceptorQ'[i] = Delete(id)
    BY <1>1, <1>9 DEF DeletesInOrder, Excused
  <2>1. j + 1 \in 1 .. Len(acceptorQ) /\ acceptorQ'[j] = acceptorQ[j + 1] /\ (j + 1) - 1 = j
    BY <1>2
  <2>2. Excused(handlers[id]) \/ \E i \in 1 .. j : acceptorQ[i] = Delete(id)
    BY <2>1 DEF QueueAgrees, DeletesInOrder
  <2> QED
    BY <1>11, <2>2
<1>19. DeletesPosted(acceptorQ)'
  BY <1>1, <1>9, <1>11 DEF QueueAgrees, DeletesPosted
<1>20. QueueAgrees(acceptorQ)'
  BY <1>2, <1>15, <1>16, <1>17, <1>18, <1>19 DEF QueueAgrees
<1>21. OwnerAgrees' /\ DeleteFindsHandler' /\ DestructorFreesId'
  BY <1>1, <1>8 DEF OwnerAgrees, DeleteFindsHandler, DestructorFreesId
<1> QED
  BY <1>12, <1>13, <1>14, <1>20, <1>21

-----------------------------------------------------------------------------
(* The steps of route, of the request handlers and of the owner. *)

(* Steps that leave the queue and the registry alone, and drop no handler. *)
KeepsQueue ==
    /\ UNCHANGED <<acceptorQ, handlers, phase, open, idOf>>
    /\ ioStopped => ioStopped'
    /\ routing' \in {routing, None}
    /\ \A r \in Requests :
           /\ hstate'[r] = "none" <=> hstate[r] = "none"
           /\ hstate'[r] \in Dropped <=> hstate[r] \in Dropped
           /\ hstate[r] = "none" /\ routing # r => answeredBy'[r] = answeredBy[r]
           /\ answeredBy[r] = "handler" => answeredBy'[r] = "handler"
           /\ answeredBy'[r] = "destructor" /\ phase[r] = "replied" => answeredBy[r] = "destructor"

LEMMA KeepsQueueAgrees ==
    ASSUME SInv, KeepsQueue
    PROVE  QueueAgrees(acceptorQ)'
<1> USE DEF SInv, KeepsQueue
<1>1. \A i \in 1 .. Len(acceptorQ) : acceptorQ[i].op = "new" =>
         acceptorQ[i].request \in Requests /\ acceptorQ[i].request # None
  BY QueueTyped, NoneIsNone
<1>2. \A id \in Ids : handlers[id] # None => handlers[id] \in Requests
  BY DEF STypeOK
<1>3. NewsAgree(acceptorQ)'
  BY <1>1 DEF QueueAgrees, NewsAgree
<1>4. DeletesAgree(acceptorQ)'
  BY <1>2, QueueTyped DEF QueueAgrees, DeletesAgree
<1>5. PostedOnce(acceptorQ)' /\ NewsInOrder(acceptorQ)'
  BY DEF QueueAgrees, PostedOnce, NewsInOrder
<1>6. DeletesInOrder(acceptorQ)'
  BY <1>2 DEF QueueAgrees, DeletesInOrder, Excused
<1>7. DeletesPosted(acceptorQ)'
  BY <1>2 DEF QueueAgrees, DeletesPosted
<1> QED
  BY <1>3, <1>4, <1>5, <1>6, <1>7 DEF QueueAgrees

(* What ~Fastcgi::Request does to a request. *)
LEMMA CancelKinds ==
    ASSUME SInv, NEW r \in Requests, CancelIfUsable(r)
    PROVE  \/ UNCHANGED <<answeredBy, replies>>
           \/ /\ phase[r] = "offered" /\ answeredBy[r] = "nobody"
              /\ answeredBy' = [answeredBy EXCEPT ![r] = "destructor"]
              /\ replies' = replies \union {r}
  BY DEF CancelIfUsable, Usable

LEMMA AnswerTypes ==
    ASSUME SInv, NEW r \in Requests, NEW by \in {"handler", "destructor"},
           answeredBy' = [answeredBy EXCEPT ![r] = by], replies' = replies \union {r}
    PROVE  /\ answeredBy' \in [Requests -> {"nobody", "handler", "destructor"}]
           /\ replies' \subseteq Requests
           /\ \A s \in Requests : answeredBy'[s] = IF s = r THEN by ELSE answeredBy[s]
  BY DEF SInv, STypeOK

LEMMA RouteKeepsSInv ==
    ASSUME SInv, crash = "none", LeaveRoute
    PROVE  SInv'
<1> USE DEF SInv
<1>1. routing \in Requests /\ routing # None
  BY DEF LeaveRoute, ReadFreedParams, RouteNowhere, RouteToHandler, STypeOK
<1>2. /\ hstate[routing] = "none" /\ answeredBy[routing] = "nobody"
      /\ phase[routing] \notin Early /\ idOf[routing] \in Ids
  BY <1>1 DEF RequestsAgree, Early
<1>3. CASE ReadFreedParams
  <2>1. /\ crash' = "freedParams"
        /\ UNCHANGED <<phase, open, idOf, acceptorQ, routing, handlers, hstate, answeredBy, replies,
                        status, ioStopped, main>>
    BY <1>3 DEF ReadFreedParams, fcgiVars, handlerVars, ownerVars
  <2>2. STypeOK'
    BY <2>1 DEF STypeOK, LifecycleTypeOK
  <2>3. RequestsAgree' /\ IdsAgree' /\ EntriesAgree' /\ RegisteredUntilDropped'
    BY <2>1 DEF RequestsAgree, IdsAgree, EntriesAgree, RegisteredUntilDropped
  <2>4. KeepsQueue
    BY <2>1 DEF KeepsQueue
  <2>5. OwnerAgrees' /\ DeleteFindsHandler' /\ DestructorFreesId'
    BY <2>1 DEF OwnerAgrees, DeleteFindsHandler, DestructorFreesId
  <2> QED
    BY <2>2, <2>3, <2>4, <2>5, KeepsQueueAgrees
<1>4. CASE RouteNowhere
  <2>1. /\ routing' = None
        /\ UNCHANGED <<phase, open, idOf, acceptorQ, handlers, hstate, status, ioStopped, main, crash>>
    BY <1>4 DEF RouteNowhere, fcgiVars, ownerVars
  <2>2. /\ answeredBy' \in [Requests -> {"nobody", "handler", "destructor"}]
        /\ replies' \subseteq Requests
        /\ \A s \in Requests \ {routing} : answeredBy'[s] = answeredBy[s] /\ (s \in replies' <=> s \in replies)
        /\ \/ answeredBy'[routing] = "nobody" /\ replies' = replies
           \/ answeredBy'[routing] = "destructor" /\ phase[routing] = "offered"
    <3>1. CASE UNCHANGED <<answeredBy, replies>>
      BY <1>2, <3>1 DEF STypeOK
    <3>2. CASE /\ phase[routing] = "offered"
               /\ answeredBy' = [answeredBy EXCEPT ![routing] = "destructor"]
               /\ replies' = replies \union {routing}
      BY <1>1, <3>2, AnswerTypes
    <3> QED
      BY <1>1, <1>4, <3>1, <3>2, CancelKinds DEF RouteNowhere
  <2>3. STypeOK'
    BY <2>1, <2>2 DEF STypeOK, LifecycleTypeOK
  <2>4. RequestsAgree'
    <3> SUFFICES ASSUME NEW s \in Requests
                 PROVE  /\ phase[s] # "unborn" => idOf[s] \in Ids
                        /\ phase[s] \in Early => hstate[s] = "none" /\ answeredBy'[s] = "nobody"
                        /\ s \in replies' \/ phase[s] = "replied" => answeredBy'[s] # "nobody"
                        /\ answeredBy'[s] = "destructor" => hstate[s] \in {"none", "done"}
      BY <2>1, NoneIsNone DEF RequestsAgree
    <3>1. CASE s = routing
      BY <1>1, <1>2, <2>2, <3>1 DEF RequestsAgree
    <3>2. CASE s # routing
      BY <2>2, <3>2 DEF RequestsAgree
    <3> QED
      BY <3>1, <3>2
  <2>5. IdsAgree' /\ EntriesAgree' /\ RegisteredUntilDropped'
    BY <2>1 DEF IdsAgree, EntriesAgree, RegisteredUntilDropped
  <2>6. KeepsQueue
    BY <1>1, <1>2, <2>1, <2>2 DEF KeepsQueue
  <2>7. OwnerAgrees' /\ DeleteFindsHandler' /\ DestructorFreesId'
    BY <2>1 DEF OwnerAgrees, DeleteFindsHandler, DestructorFreesId
  <2> QED
    BY <2>3, <2>4, <2>5, <2>6, <2>7, KeepsQueueAgrees
<1>5. CASE RouteToHandler /\ handlers[idOf[routing]] # None
  <2> DEFINE h == handlers[idOf[routing]]
  <2>1. /\ routing' = None /\ crash' = "idInUse"
        /\ UNCHANGED <<phase, open, idOf, acceptorQ, handlers, hstate, answeredBy, replies,
                        status, ioStopped, main>>
    BY <1>5 DEF RouteToHandler, RegisterHandler, fcgiVars, ownerVars
  <2>2. STypeOK'
    BY <2>1 DEF STypeOK, LifecycleTypeOK
  <2>3. RequestsAgree' /\ IdsAgree' /\ EntriesAgree' /\ RegisteredUntilDropped'
    BY <1>1, <2>1, NoneIsNone DEF RequestsAgree, IdsAgree, EntriesAgree, RegisteredUntilDropped
  <2>4. KeepsQueue
    BY <2>1 DEF KeepsQueue
  <2>5. OwnerAgrees' /\ DeleteFindsHandler'
    BY <2>1 DEF OwnerAgrees, DeleteFindsHandler
  <2>6. DestructorFreesId'
    <3>1. h \in Requests /\ h # routing /\ idOf[h] = idOf[routing] /\ handlers[idOf[h]] = h
      BY <1>2, <1>5 DEF STypeOK, EntriesAgree
    <3>2. Excused(h)
      BY <1>1, <1>2, <1>5 DEF QueueAgrees, DeletesInOrder
    <3>3. answeredBy[h] = "handler" \/ phase[h] \in {"aborted", "discarded"}
      BY <3>2 DEF Excused, Lost
    <3> HIDE DEF h
    <3> QED
      BY <1>1, <2>1, <3>1, <3>3 DEF DestructorFreesId
  <2> QED
    BY <2>2, <2>3, <2>4, <2>5, <2>6, KeepsQueueAgrees
<1>6. CASE RouteToHandler /\ handlers[idOf[routing]] = None
  <2>1. /\ routing' = None
        /\ handlers' = [handlers EXCEPT ![idOf[routing]] = routing]
        /\ hstate' = [hstate EXCEPT ![routing] = "posted"]
        /\ UNCHANGED <<phase, open, idOf, acceptorQ, answeredBy, replies, status, ioStopped, main, crash>>
    BY <1>6 DEF RouteToHandler, RegisterHandler, fcgiVars, ownerVars
  <2>2. STypeOK'
    <3>1. handlers' \in [Ids -> Requests \union {None}]
      BY <1>1, <2>1 DEF STypeOK
    <3>2. hstate' \in [Requests -> {"none", "posted", "waiting", "callbackPosted", "done"} \union InThread]
      BY <2>1 DEF STypeOK
    <3> QED
      BY <2>1, <3>1, <3>2 DEF STypeOK, LifecycleTypeOK
  <2>3. \A id \in Ids : handlers'[id] = IF id = idOf[routing] THEN routing ELSE handlers[id]
    BY <2>1 DEF STypeOK
  <2>4. \A s \in Requests : hstate'[s] = IF s = routing THEN "posted" ELSE hstate[s]
    BY <2>1 DEF STypeOK
  <2>5. \A id \in Ids : handlers[id] # None =>
           handlers[id] \in Requests /\ handlers[id] # routing /\ id # idOf[routing]
    BY <1>2, <1>6 DEF STypeOK, EntriesAgree
  <2>6. \A i \in 1 .. Len(acceptorQ) : acceptorQ[i].op = "new" =>
           acceptorQ[i].request \in Requests /\ acceptorQ[i].request # routing
    BY QueueTyped DEF QueueAgrees, NewsAgree
  <2>7. RequestsAgree'
    <3>1. \A s \in Requests : routing' # s
      BY <2>1, NoneIsNone
    <3> QED
      BY <1>1, <1>2, <2>1, <2>4, <3>1 DEF RequestsAgree
  <2>8. IdsAgree' /\ EntriesAgree'
    BY <1>1, <1>2, <2>1, <2>3, <2>4, <2>5 DEF IdsAgree, EntriesAgree
  <2>9. RegisteredUntilDropped'
    <3> SUFFICES ASSUME NEW s \in Requests,
                        hstate'[s] \in {"posted", "handling", "waiting", "callbackPosted", "callback"}
                 PROVE  handlers'[idOf[s]] = s
      BY <2>1 DEF RegisteredUntilDropped
    <3>1. CASE s = routing
      BY <1>2, <2>3, <3>1
    <3>2. CASE s # routing
      <4>1. handlers[idOf[s]] = s /\ hstate[s] # "none"
        BY <2>4, <3>2 DEF RegisteredUntilDropped
      <4>2. idOf[s] \in Ids
        BY <4>1 DEF RequestsAgree, Early
      <4> QED
        BY <1>6, <2>3, <4>1, <4>2, NoneIsNone
    <3> QED
      BY <3>1, <3>2
  <2>10. QueueAgrees(acceptorQ)'
    <3>1. NewsAgree(acceptorQ)'
      BY <2>1, <2>4, <2>6, NoneIsNone DEF QueueAgrees, NewsAgree
    <3>2. DeletesAgree(acceptorQ)'
      BY <2>1, <2>3, <2>4, <2>5, QueueTyped DEF QueueAgrees, DeletesAgree
    <3>3. PostedOnce(acceptorQ)' /\ NewsInOrder(acceptorQ)'
      BY <2>1 DEF QueueAgrees, PostedOnce, NewsInOrder
    <3>4. DeletesInOrder(acceptorQ)'
      <4> SUFFICES ASSUME NEW id \in Ids, handlers'[id] # None, NEW j \in 1 .. Len(acceptorQ),
                          acceptorQ[j].op = "new", idOf[acceptorQ[j].request] = id
                   PROVE  Excused(handlers'[id]) \/ \E i \in 1 .. (j - 1) : acceptorQ[i] = Delete(id)
        BY <2>1 DEF DeletesInOrder, Excused
      <4>1. CASE id = idOf[routing]
        BY <1>1, <2>3, <4>1 DEF QueueAgrees, NewsInOrder, Excused
      <4>2. CASE id # idOf[routing]
        BY <2>3, <4>2 DEF QueueAgrees, DeletesInOrder
      <4> QED
        BY <4>1, <4>2
    <3>5. DeletesPosted(acceptorQ)'
      BY <1>2, <2>1, <2>3, <2>4, <2>5 DEF QueueAgrees, DeletesPosted, Dropped
    <3> QED
      BY <3>1, <3>2, <3>3, <3>4, <3>5 DEF QueueAgrees
  <2>11. OwnerAgrees'
    <3>1. {s \in Requests : hstate'[s] \in InThread} = {s \in Requests : hstate[s] \in InThread}
      BY <1>2, <2>4 DEF InThread
    <3> QED
      BY <1>1, <2>1, <3>1 DEF OwnerAgrees
  <2>12. DeleteFindsHandler' /\ DestructorFreesId'
    BY <2>1 DEF DeleteFindsHandler, DestructorFreesId
  <2> QED
    BY <2>2, <2>7, <2>8, <2>9, <2>10, <2>11, <2>12
<1> QED
  BY <1>3, <1>4, <1>5, <1>6 DEF LeaveRoute

-----------------------------------------------------------------------------
(* The steps of the request handlers. *)

(* A request that has a handler began, is not being routed, and is the only
   one that has the handler; a request the owner's stop has to wait for is in
   a thread. *)
LEMMA HandledKnown ==
    ASSUME SInv, NEW r \in Requests, hstate[r] # "none"
    PROVE  phase[r] \notin Early /\ routing # r /\ idOf[r] \in Ids
  BY DEF SInv, RequestsAgree, Early

LEMMA MovedState ==
    ASSUME SInv, NEW r \in Requests, NEW to \in Handled \union Dropped, hstate[r] # "none",
           hstate' = [hstate EXCEPT ![r] = to]
    PROVE  /\ hstate' \in [Requests -> {"none", "posted", "waiting", "callbackPosted", "done"} \union InThread]
           /\ \A s \in Requests : hstate'[s] = IF s = r THEN to ELSE hstate[s]
           /\ \A s \in Requests : hstate'[s] = "none" <=> hstate[s] = "none"
<1>1. to \in {"posted", "waiting", "callbackPosted", "done"} \union InThread /\ to # "none"
  BY DEF Handled, Dropped, InThread
<1>2. hstate \in [Requests -> {"none", "posted", "waiting", "callbackPosted", "done"} \union InThread]
  BY DEF SInv, STypeOK
<1> QED
  BY <1>1, <1>2

LEMMA MovedOwner ==
    ASSUME SInv, NEW r \in Requests, NEW to \in Handled \union Dropped, hstate[r] # "none",
           hstate' = [hstate EXCEPT ![r] = to],
           ~ioStopped \/ hstate[r] \in InThread,
           UNCHANGED <<routing, status, ioStopped, main>>
    PROVE  OwnerAgrees'
<1> DEFINE Busy == {s \in Requests : hstate[s] \in InThread}
           BusyNow == {s \in Requests : hstate'[s] \in InThread}
<1>1. \A s \in Requests : hstate'[s] = IF s = r THEN to ELSE hstate[s]
  BY MovedState
<1>2. IsFiniteSet(BusyNow)
  <2>1. IsFiniteSet(Busy)
    BY DEF SInv, OwnerAgrees
  <2>2. BusyNow \subseteq Busy \union {r}
    BY <1>1
  <2> HIDE DEF Busy, BusyNow
  <2>3. IsFiniteSet(Busy \union {r})
    BY <2>1, FS_AddElement
  <2> QED
    BY <2>2, <2>3, FS_Subset
<1>3. ~(status = "STOPPED" /\ ~ioStopped)
  BY DEF SInv, OwnerAgrees
<1>4. ~(ioStopped /\ main \in {"idle", "destroyed"})
  BY DEF SInv, OwnerAgrees
<1> QED
  BY <1>2, <1>3, <1>4 DEF OwnerAgrees

(* A handler that runs or waits keeps its entry. *)
LEMMA MoveKeepsSInv ==
    ASSUME SInv, crash = "none", NEW r \in Requests, RunHandler(r) \/ KeepRequest(r)
    PROVE  SInv'
<1> USE DEF SInv
<1>1. PICK to \in Handled : hstate' = [hstate EXCEPT ![r] = to]
  BY DEF RunHandler, KeepRequest, MoveHandler, Handled
<1>2. /\ hstate[r] \in Handled
      /\ ~ioStopped \/ hstate[r] \in InThread
      /\ UNCHANGED <<phase, open, idOf, acceptorQ, routing, handlers, answeredBy, replies,
                      status, ioStopped, main, crash>>
  BY DEF RunHandler, KeepRequest, MoveHandler, CanRun, Handled, InThread, fcgiVars, ownerVars
<1>3. hstate[r] # "none" /\ hstate[r] \notin Dropped /\ to \notin Dropped
  BY <1>2 DEF Handled, Dropped
<1>4. /\ hstate' \in [Requests -> {"none", "posted", "waiting", "callbackPosted", "done"} \union InThread]
      /\ \A s \in Requests : hstate'[s] = IF s = r THEN to ELSE hstate[s]
      /\ \A s \in Requests : hstate'[s] = "none" <=> hstate[s] = "none"
  BY <1>1, <1>3, MovedState
<1>5. STypeOK'
  BY <1>2, <1>4 DEF STypeOK, LifecycleTypeOK
<1>6. RequestsAgree'
  <2>1. answeredBy[r] # "destructor"
    BY <1>2 DEF RequestsAgree, Handled
  <2> QED
    BY <1>2, <1>4, <2>1 DEF RequestsAgree
<1>7. IdsAgree'
  BY <1>2 DEF IdsAgree
<1>8. EntriesAgree'
  <2>1. \A id \in Ids : handlers[id] # None => handlers[id] \in Requests
    BY DEF STypeOK
  <2> QED
    BY <1>2, <1>4, <2>1 DEF EntriesAgree
<1>9. RegisteredUntilDropped'
  BY <1>2, <1>4 DEF RegisteredUntilDropped, Handled
<1>10. KeepsQueue
  BY <1>2, <1>3, <1>4 DEF KeepsQueue
<1>11. OwnerAgrees'
  BY <1>1, <1>2, <1>3, MovedOwner
<1>12. DeleteFindsHandler' /\ DestructorFreesId'
  BY <1>2 DEF DeleteFindsHandler, DestructorFreesId
<1> QED
  BY <1>5, <1>6, <1>7, <1>8, <1>9, <1>10, <1>11, <1>12, <1>2, KeepsQueueAgrees

(* The answer of a handler leaves its entry and its deletion alone. *)
LEMMA CommitKeepsSInv ==
    ASSUME SInv, crash = "none", NEW r \in Requests, CommitRequest(r)
    PROVE  SInv'
<1> USE DEF SInv
<1>1. /\ hstate[r] \in {"handling", "callback"} /\ phase[r] = "offered"
      /\ answeredBy' = [answeredBy EXCEPT ![r] = "handler"]
      /\ replies' = replies \union {r}
      /\ UNCHANGED <<phase, open, idOf, acceptorQ, routing, handlers, hstate, status, ioStopped, main, crash>>
  BY DEF CommitRequest, Usable, fcgiVars, ownerVars
<1>2. /\ answeredBy' \in [Requests -> {"nobody", "handler", "destructor"}]
      /\ replies' \subseteq Requests
      /\ \A s \in Requests : answeredBy'[s] = IF s = r THEN "handler" ELSE answeredBy[s]
  BY <1>1, AnswerTypes
<1>3. STypeOK'
  BY <1>1, <1>2 DEF STypeOK, LifecycleTypeOK
<1>4. RequestsAgree'
  <2>1. phase[r] \notin Early /\ routing # r
    BY <1>1, HandledKnown
  <2> QED
    BY <1>1, <1>2, <2>1 DEF RequestsAgree
<1>5. IdsAgree' /\ EntriesAgree' /\ RegisteredUntilDropped'
  BY <1>1 DEF IdsAgree, EntriesAgree, RegisteredUntilDropped
<1>6. KeepsQueue
  BY <1>1, <1>2 DEF KeepsQueue
<1>7. OwnerAgrees' /\ DeleteFindsHandler' /\ DestructorFreesId'
  BY <1>1 DEF OwnerAgrees, DeleteFindsHandler, DestructorFreesId
<1> QED
  BY <1>1, <1>3, <1>4, <1>5, <1>6, <1>7, KeepsQueueAgrees

(* The queue with the deletion of a handler behind it. *)
LEMMA DeletionPosted ==
    ASSUME SInv, NEW r \in Requests, hstate[r] \in Handled, HandleRequestDelete(idOf[r])
    PROVE  /\ acceptorQ' \in Seq(Posts)
           /\ \A i \in 1 .. Len(acceptorQ) : i \in 1 .. Len(acceptorQ') /\ acceptorQ'[i] = acceptorQ[i]
           /\ \A i \in 1 .. Len(acceptorQ') :
                  i \in 1 .. Len(acceptorQ) \/ (i = Len(acceptorQ) + 1 /\ acceptorQ'[i] = Delete(idOf[r]))
           /\ ioStopped \/ \E i \in 1 .. Len(acceptorQ') : acceptorQ'[i] = Delete(idOf[r])
<1>1. hstate[r] # "none" /\ idOf[r] \in Ids
  BY HandledKnown DEF Handled
<1>2. acceptorQ \in Seq(Posts) /\ Len(acceptorQ) \in Nat
  BY QueueTyped DEF SInv
<1>3. CASE acceptorQ' = Append(acceptorQ, Delete(idOf[r]))
  <2>1. Delete(idOf[r]) \in Posts
    BY <1>1, PostKinds
  <2>2. /\ acceptorQ' \in Seq(Posts)
        /\ Len(acceptorQ') = Len(acceptorQ) + 1
        /\ \A i \in 1 .. Len(acceptorQ) : acceptorQ'[i] = acceptorQ[i]
        /\ acceptorQ'[Len(acceptorQ) + 1] = Delete(idOf[r])
    BY <1>3, <2>1, Appended DEF SInv
  <2>3. Len(acceptorQ) + 1 \in 1 .. Len(acceptorQ')
    BY <1>2, <2>2
  <2>4. \A i \in 1 .. Len(acceptorQ) : i \in 1 .. Len(acceptorQ')
    BY <1>2, <2>2
  <2>5. \A i \in 1 .. Len(acceptorQ') : i \in 1 .. Len(acceptorQ) \/ i = Len(acceptorQ) + 1
    BY <1>2, <2>2
  <2> QED
    BY <2>2, <2>3, <2>4, <2>5
<1>4. CASE status = "STOPPED" /\ acceptorQ' = acceptorQ
  <2>1. ioStopped
    BY <1>1, <1>4 DEF SInv, OwnerAgrees
  <2> QED
    BY <1>2, <1>4, <2>1
<1> QED
  BY <1>3, <1>4 DEF HandleRequestDelete

(* The deletion is queued, once, while the handler is still registered. *)
LEMMA LetGoKeepsSInv ==
    ASSUME SInv, crash = "none", NEW r \in Requests, hstate[r] \in {"handling", "callback"}, DropRequest(r)
    PROVE  SInv'
<1> USE DEF SInv
<1>1. /\ hstate' = [hstate EXCEPT ![r] = "dropping"]
      /\ HandleRequestDelete(idOf[r])
      /\ UNCHANGED <<phase, open, idOf, routing, handlers, answeredBy, replies, status, ioStopped, main, crash>>
  BY DEF DropRequest, DestructorStep, fcgiVars, ownerVars
<1>2. hstate[r] \in Handled /\ hstate[r] \in InThread /\ hstate[r] # "none" /\ hstate[r] \notin Dropped
  BY DEF Handled, InThread, Dropped
<1>3. "dropping" \in Handled \union Dropped /\ "dropping" \in Dropped
  BY DEF Dropped
<1>4. /\ hstate' \in [Requests -> {"none", "posted", "waiting", "callbackPosted", "done"} \union InThread]
      /\ \A s \in Requests : hstate'[s] = IF s = r THEN "dropping" ELSE hstate[s]
      /\ \A s \in Requests : hstate'[s] = "none" <=> hstate[s] = "none"
  BY <1>1, <1>2, <1>3, MovedState
<1>5. /\ acceptorQ' \in Seq(Posts)
      /\ \A i \in 1 .. Len(acceptorQ) : i \in 1 .. Len(acceptorQ') /\ acceptorQ'[i] = acceptorQ[i]
      /\ \A i \in 1 .. Len(acceptorQ') :
             i \in 1 .. Len(acceptorQ) \/ (i = Len(acceptorQ) + 1 /\ acceptorQ'[i] = Delete(idOf[r]))
      /\ ioStopped \/ \E i \in 1 .. Len(acceptorQ') : acceptorQ'[i] = Delete(idOf[r])
  BY <1>1, <1>2, DeletionPosted
<1>6. idOf[r] \in Ids /\ handlers[idOf[r]] = r
  BY <1>2, HandledKnown DEF RegisteredUntilDropped, Handled
<1>7. /\ Delete(idOf[r]).op = "delete" /\ Delete(idOf[r]).id = idOf[r]
      /\ \A id \in Ids : Delete(id).id = id
  BY <1>6, PostKinds
<1>8. \A i \in 1 .. Len(acceptorQ') : acceptorQ'[i].op = "new" =>
         i \in 1 .. Len(acceptorQ) /\ acceptorQ'[i] = acceptorQ[i]
  BY <1>5, <1>7
<1>9. \A id \in Ids : handlers[id] # None => handlers[id] \in Requests
  BY DEF STypeOK
<1>10. STypeOK'
  BY <1>1, <1>4, <1>5 DEF STypeOK, LifecycleTypeOK, Posts
<1>11. RequestsAgree'
  <2>1. answeredBy[r] # "destructor"
    BY <1>2 DEF RequestsAgree, Handled
  <2> QED
    BY <1>1, <1>4, <2>1 DEF RequestsAgree
<1>12. IdsAgree' /\ EntriesAgree' /\ RegisteredUntilDropped'
  <2>1. IdsAgree'
    BY <1>1 DEF IdsAgree
  <2>2. EntriesAgree'
    BY <1>1, <1>4, <1>9 DEF EntriesAgree
  <2>3. RegisteredUntilDropped'
    BY <1>1, <1>4 DEF RegisteredUntilDropped
  <2> QED
    BY <2>1, <2>2, <2>3
<1>13. NewsAgree(acceptorQ)'
  BY <1>1, <1>4, <1>8, QueueTyped DEF QueueAgrees, NewsAgree
<1>14. DeletesAgree(acceptorQ)'
  <2> SUFFICES ASSUME NEW i \in 1 .. Len(acceptorQ'), acceptorQ'[i].op = "delete"
               PROVE  handlers[acceptorQ'[i].id] # None /\ hstate'[handlers[acceptorQ'[i].id]] \in Dropped
    BY <1>1 DEF DeletesAgree
  <2>1. CASE i \in 1 .. Len(acceptorQ)
    <3>1. acceptorQ'[i] = acceptorQ[i] /\ acceptorQ[i].id \in Ids
      BY <1>5, <2>1, QueueTyped
    <3>2. handlers[acceptorQ[i].id] # None /\ hstate[handlers[acceptorQ[i].id]] \in Dropped
      BY <2>1, <3>1 DEF QueueAgrees, DeletesAgree
    <3> QED
      BY <1>3, <1>4, <1>9, <3>1, <3>2
  <2>2. CASE acceptorQ'[i] = Delete(idOf[r])
    BY <1>3, <1>4, <1>6, <1>7, <2>2, NoneIsNone
  <2> QED
    BY <1>5, <2>1, <2>2
<1>15. PostedOnce(acceptorQ)'
  <2>1. \A i \in 1 .. Len(acceptorQ) : acceptorQ[i] # Delete(idOf[r])
    BY <1>2, <1>6, <1>7 DEF QueueAgrees, DeletesAgree
  <2> SUFFICES ASSUME NEW i \in 1 .. Len(acceptorQ'), NEW j \in 1 .. Len(acceptorQ'),
                      acceptorQ'[i] = acceptorQ'[j]
               PROVE  i = j
    BY DEF PostedOnce
  <2>2. CASE i \in 1 .. Len(acceptorQ) /\ j \in 1 .. Len(acceptorQ)
    BY <1>5, <2>2 DEF QueueAgrees, PostedOnce
  <2> QED
    BY <1>5, <2>1, <2>2
<1>16. NewsInOrder(acceptorQ)'
  BY <1>1, <1>8 DEF QueueAgrees, NewsInOrder
<1>17. DeletesInOrder(acceptorQ)'
  <2> SUFFICES ASSUME NEW id \in Ids, handlers[id] # None
               PROVE  /\ \A j \in 1 .. Len(acceptorQ') : acceptorQ'[j].op = "new" /\ idOf[acceptorQ'[j].request] = id =>
                             Excused(handlers[id]) \/ \E i \in 1 .. (j - 1) : acceptorQ'[i] = Delete(id)
                      /\ routing # None /\ idOf[routing] = id => Excused(handlers[id])
    BY <1>1 DEF DeletesInOrder, Excused
  <2>1. routing # None /\ idOf[routing] = id => Excused(handlers[id])
    BY DEF QueueAgrees, DeletesInOrder
  <2>2. ASSUME NEW j \in 1 .. Len(acceptorQ'), acceptorQ'[j].op = "new", idOf[acceptorQ'[j].request] = id
        PROVE  Excused(handlers[id]) \/ \E i \in 1 .. (j - 1) : acceptorQ'[i] = Delete(id)
    <3>1. j \in 1 .. Len(acceptorQ) /\ acceptorQ'[j] = acceptorQ[j]
      BY <1>8, <2>2
    <3>2. \A i \in 1 .. (j - 1) : acceptorQ'[i] = acceptorQ[i]
      BY <1>5, <3>1, QueueTyped
    <3> QED
      BY <2>2, <3>1, <3>2 DEF QueueAgrees, DeletesInOrder
  <2> QED
    BY <2>1, <2>2
<1>18. DeletesPosted(acceptorQ)'
  <2> SUFFICES ASSUME NEW id \in Ids, handlers[id] # None
               PROVE  /\ hstate'[handlers[id]] \in Dropped =>
                             ioStopped \/ \E i \in 1 .. Len(acceptorQ') : acceptorQ'[i] = Delete(id)
                      /\ answeredBy[handlers[id]] = "destructor" /\ phase[handlers[id]] = "replied"
                             => \E i \in 1 .. Len(acceptorQ') : acceptorQ'[i] = Delete(id)
    BY <1>1 DEF DeletesPosted
  <2>1. \A i \in 1 .. Len(acceptorQ) : acceptorQ[i] = Delete(id) =>
           i \in 1 .. Len(acceptorQ') /\ acceptorQ'[i] = Delete(id)
    BY <1>5
  <2>2. CASE handlers[id] = r
    <3>1. id = idOf[r] /\ answeredBy[r] # "destructor"
      BY <1>2, <2>2 DEF EntriesAgree, RequestsAgree, Handled
    <3> QED
      BY <1>5, <2>2, <3>1
  <2>3. CASE handlers[id] # r
    BY <1>4, <1>9, <2>1, <2>3 DEF QueueAgrees, DeletesPosted
  <2> QED
    BY <2>2, <2>3
<1>19. QueueAgrees(acceptorQ)'
  BY <1>13, <1>14, <1>15, <1>16, <1>17, <1>18 DEF QueueAgrees
<1>20. OwnerAgrees'
  BY <1>1, <1>2, <1>3, MovedOwner
<1>21. DeleteFindsHandler' /\ DestructorFreesId'
  BY <1>1 DEF DeleteFindsHandler, DestructorFreesId
<1> QED
  BY <1>10, <1>11, <1>12, <1>19, <1>20, <1>21

(* The request is answered, if it still can be, behind the deletion of its
   handler. *)
LEMMA DoneKeepsSInv ==
    ASSUME SInv, crash = "none", NEW r \in Requests, hstate[r] = "dropping", DropRequest(r)
    PROVE  SInv'
<1> USE DEF SInv
<1>1. /\ hstate' = [hstate EXCEPT ![r] = "done"]
      /\ CancelIfUsable(r)
      /\ UNCHANGED <<phase, open, idOf, acceptorQ, routing, handlers, status, ioStopped, main, crash>>
  BY DEF DropRequest, DestructorStep, fcgiVars, ownerVars
<1>2. "done" \in Dropped /\ "dropping" \in Dropped /\ "dropping" \in InThread
  BY DEF Dropped, InThread
<1>3. /\ hstate' \in [Requests -> {"none", "posted", "waiting", "callbackPosted", "done"} \union InThread]
      /\ \A s \in Requests : hstate'[s] = IF s = r THEN "done" ELSE hstate[s]
      /\ \A s \in Requests : hstate'[s] = "none" <=> hstate[s] = "none"
  BY <1>1, <1>2, MovedState
<1>4. /\ answeredBy' \in [Requests -> {"nobody", "handler", "destructor"}]
      /\ replies' \subseteq Requests
      /\ \A s \in Requests \ {r} : answeredBy'[s] = answeredBy[s] /\ (s \in replies' <=> s \in replies)
      /\ \/ answeredBy'[r] = answeredBy[r] /\ (r \in replies' <=> r \in replies)
         \/ answeredBy'[r] = "destructor" /\ answeredBy[r] = "nobody" /\ phase[r] = "offered"
  <2>1. CASE UNCHANGED <<answeredBy, replies>>
    BY <2>1 DEF STypeOK
  <2>2. CASE /\ phase[r] = "offered" /\ answeredBy[r] = "nobody"
             /\ answeredBy' = [answeredBy EXCEPT ![r] = "destructor"]
             /\ replies' = replies \union {r}
    BY <2>2, AnswerTypes
  <2> QED
    BY <1>1, <2>1, <2>2, CancelKinds
<1>5. STypeOK'
  BY <1>1, <1>3, <1>4 DEF STypeOK, LifecycleTypeOK
<1>6. RequestsAgree'
  <2>1. phase[r] \notin Early /\ routing # r /\ idOf[r] \in Ids
    BY HandledKnown
  <2> QED
    BY <1>1, <1>3, <1>4, <2>1 DEF RequestsAgree
<1>7. IdsAgree' /\ EntriesAgree' /\ RegisteredUntilDropped'
  <2>1. \A id \in Ids : handlers[id] # None => handlers[id] \in Requests
    BY DEF STypeOK
  <2>2. IdsAgree'
    BY <1>1 DEF IdsAgree
  <2>3. EntriesAgree'
    BY <1>1, <1>3, <2>1 DEF EntriesAgree
  <2>4. RegisteredUntilDropped'
    BY <1>1, <1>3 DEF RegisteredUntilDropped
  <2> QED
    BY <2>2, <2>3, <2>4
<1>8. KeepsQueue
  <2>1. \A s \in Requests : hstate'[s] \in Dropped <=> hstate[s] \in Dropped
    BY <1>2, <1>3
  <2> QED
    BY <1>1, <1>3, <1>4, <2>1 DEF KeepsQueue
<1>9. OwnerAgrees'
  BY <1>1, <1>2, MovedOwner
<1>10. DeleteFindsHandler' /\ DestructorFreesId'
  BY <1>1 DEF DeleteFindsHandler, DestructorFreesId
<1> QED
  BY <1>1, <1>5, <1>6, <1>7, <1>8, <1>9, <1>10, KeepsQueueAgrees

-----------------------------------------------------------------------------
(* The steps of the owner. *)

(* The threads have all left their handlers. *)
LEMMA JoinedIsQuiet ==
    ASSUME SInv, Joined
    PROVE  routing = None /\ \A r \in Requests : hstate[r] \notin InThread
<1> DEFINE Busy == {r \in Requests : hstate[r] \in InThread}
<1>1. IsFiniteSet(Busy)
  BY DEF SInv, OwnerAgrees
<1>2. Cardinality(Busy) + (IF routing = None THEN 0 ELSE 1) = 0
  BY DEF Joined, BusyThreads
<1> HIDE DEF Busy
<1>3. Cardinality(Busy) \in Nat
  BY <1>1, FS_CardinalityType
<1>4. Cardinality(Busy) = 0 /\ routing = None
  BY <1>2, <1>3
<1>5. Busy = {}
  BY <1>1, <1>4, FS_EmptySet
<1> QED
  BY <1>4, <1>5 DEF Busy

LEMMA OwnerKeepsSInv ==
    ASSUME SInv, crash = "none", Start \/ Stop \/ StopReturns \/ BeginDestruction
    PROVE  SInv'
<1> USE DEF SInv
<1>1. /\ UNCHANGED <<phase, open, idOf, acceptorQ, routing, handlers, hstate, answeredBy, replies, crash>>
      /\ ioStopped => ioStopped'
  BY DEF Start, Stop, StopReturns, BeginDestruction, fcgiVars, handlerVars
<1>2. /\ status' \in {"STARTED", "STOPPED"} /\ ioStopped' \in BOOLEAN
      /\ main' \in {"idle", "joining", "destroying", "destroyed"}
  <2>1. /\ status \in {"STARTED", "STOPPED"} /\ ioStopped \in BOOLEAN
        /\ main \in {"idle", "joining", "destroying", "destroyed"}
    BY DEF STypeOK
  <2> QED
    BY <2>1 DEF Start, Stop, StopReturns, BeginDestruction
<1>3. STypeOK'
  BY <1>1, <1>2 DEF STypeOK, LifecycleTypeOK
<1>4. RequestsAgree' /\ IdsAgree' /\ EntriesAgree' /\ RegisteredUntilDropped'
  BY <1>1 DEF RequestsAgree, IdsAgree, EntriesAgree, RegisteredUntilDropped
<1>5. QueueAgrees(acceptorQ)'
  <2>1. KeepsQueue
    BY <1>1 DEF KeepsQueue
  <2> QED
    BY <1>1, <2>1, KeepsQueueAgrees
<1>6. OwnerAgrees'
  <2>1. IsFiniteSet({r \in Requests : hstate'[r] \in InThread})
    BY <1>1 DEF OwnerAgrees
  <2>2. status' = "STOPPED" /\ ~ioStopped' => routing = None /\ \A r \in Requests : hstate[r] = "none"
    BY DEF Start, Stop, StopReturns, BeginDestruction, OwnerAgrees
  <2>3. ioStopped' /\ main' \in {"idle", "destroyed"} =>
           routing = None /\ \A r \in Requests : hstate[r] \notin InThread
    <3>1. CASE Start
      BY <3>1 DEF Start, OwnerAgrees
    <3>2. CASE Stop
      BY <3>2 DEF Stop
    <3>3. CASE StopReturns
      BY <3>3, JoinedIsQuiet DEF StopReturns
    <3>4. CASE BeginDestruction
      BY <3>4 DEF BeginDestruction, OwnerAgrees
    <3> QED
      BY <3>1, <3>2, <3>3, <3>4
  <2> QED
    BY <1>1, <2>1, <2>2, <2>3 DEF OwnerAgrees
<1>7. DeleteFindsHandler' /\ DestructorFreesId'
  BY <1>1 DEF DeleteFindsHandler, DestructorFreesId
<1> QED
  BY <1>3, <1>4, <1>5, <1>6, <1>7

-----------------------------------------------------------------------------
LEMMA StepKeepsSInv == SInv /\ [SNext]_svars => SInv'
<1> SUFFICES ASSUME SInv, [SNext]_svars PROVE SInv'
  OBVIOUS
<1>1. CASE UNCHANGED svars
  <2> USE <1>1 DEF svars, SInv
  <2>1. STypeOK' /\ RequestsAgree' /\ IdsAgree' /\ EntriesAgree'
    BY DEF STypeOK, LifecycleTypeOK, RequestsAgree, IdsAgree, EntriesAgree
  <2>2. RegisteredUntilDropped' /\ OwnerAgrees' /\ DeleteFindsHandler' /\ DestructorFreesId'
    BY DEF RegisteredUntilDropped, OwnerAgrees, DeleteFindsHandler, DestructorFreesId
  <2>3. KeepsQueue
    BY DEF KeepsQueue
  <2> QED
    BY <2>1, <2>2, <2>3, KeepsQueueAgrees
<1>2. ASSUME crash = "none", ConnectionStep
      PROVE  SInv'
  <2>1. CASE LoseRequest
    BY <2>1, LoseEnds, EndKeepsSInv
  <2>2. ASSUME NEW r \in Requests, NEW id \in Ids, BeginRequest(r, id)
        PROVE  SInv'
    BY <1>2, <2>2, BeginKeepsSInv
  <2>3. ASSUME NEW r \in Requests, OfferRequest(r)
        PROVE  SInv'
    BY <1>2, <2>3, OfferKeepsSInv
  <2>4. ASSUME NEW r \in Requests, SendReply(r)
        PROVE  SInv'
    BY <2>4, ReplyEnds, EndKeepsSInv
  <2> QED
    BY <1>2, <2>1, <2>2, <2>3, <2>4 DEF ConnectionStep
<1>3. ASSUME crash = "none", EnterRoute \/ LeaveRoute \/ HandleRequestDeleteImpl
      PROVE  SInv'
  BY <1>3, EnterKeepsSInv, RouteKeepsSInv, DeleteKeepsSInv
<1>4. ASSUME crash = "none", NEW r \in Requests, CommitRequest(r) \/ HandlerStep(r)
      PROVE  SInv'
  <2>1. CASE CommitRequest(r)
    BY <1>4, <2>1, CommitKeepsSInv
  <2>2. CASE RunHandler(r) \/ KeepRequest(r)
    BY <1>4, <2>2, MoveKeepsSInv
  <2>3. CASE DropRequest(r)
    <3>1. hstate[r] \in {"handling", "callback"} \/ hstate[r] = "dropping"
      BY <2>3 DEF DropRequest
    <3> QED
      BY <1>4, <2>3, <3>1, LetGoKeepsSInv, DoneKeepsSInv
  <2> QED
    BY <1>4, <2>1, <2>2, <2>3 DEF HandlerStep
<1>5. ASSUME crash = "none", Start \/ Stop \/ StopReturns \/ BeginDestruction
      PROVE  SInv'
  BY <1>5, OwnerKeepsSInv
<1> QED
  BY <1>1, <1>2, <1>3, <1>4, <1>5 DEF SNext

(* The registry, the strand's queue and the requests agree, in every state
   the server can reach. *)
THEOREM ServerInvariance == SSpec => []SInv
<1>1. SInit => SInv
  BY InitSInv
<1>2. SInv /\ [SNext]_svars => SInv'
  BY StepKeepsSInv
<1> QED
  BY <1>1, <1>2, PTL DEF SSpec

(* The state of the server is what Server.h and RequestHandler.h declare. *)
THEOREM ServerTypes == SSpec => []STypeOK
<1>1. SInv => STypeOK
  BY DEF SInv
<1> QED
  BY <1>1, ServerInvariance, PTL

(* A handler that its timer or its strand still refers to is registered, so
   it exists: _activeRequestHandlers alone owns it. *)
THEOREM KeepsHandler == SSpec => []RegisteredUntilDropped
<1>1. SInv => RegisteredUntilDropped
  BY DEF SInv
<1> QED
  BY <1>1, ServerInvariance, PTL

(* handleRequestDeleteImpl finds the handler it is to delete. *)
THEOREM DeletesOnce == SSpec => []DeleteFindsHandler
<1>1. SInv => DeleteFindsHandler
  BY DEF SInv
<1> QED
  BY <1>1, ServerInvariance, PTL

(* An id is in use at handleNewRequest only for a request that was committed
   by its handler or lost, never for one its destructor answered. *)
THEOREM FreesId == SSpec => []DestructorFreesId
<1>1. SInv => DestructorFreesId
  BY DEF SInv
<1> QED
  BY <1>1, ServerInvariance, PTL

(* A step takes a handler out of the registry only by the deletion that was
   posted for it. *)
LEMMA RegistryShrinks ==
    ASSUME SInv, SNext, NEW id \in Ids, handlers[id] # None, handlers'[id] # handlers[id]
    PROVE  hstate[handlers[id]] \in Dropped
<1> USE DEF SInv
<1>1. CASE HandleRequestDeleteImpl
  <2> DEFINE gone == Head(acceptorQ).id
  <2>1. /\ acceptorQ # <<>> /\ Head(acceptorQ).op = "delete"
        /\ handlers' = [handlers EXCEPT ![gone] = None]
        /\ acceptorQ' = Tail(acceptorQ)
    BY <1>1 DEF HandleRequestDeleteImpl, StrandHead
  <2>2. Head(acceptorQ) = acceptorQ[1] /\ 1 \in 1 .. Len(acceptorQ)
    BY <2>1, Popped
  <2>3. hstate[handlers[gone]] \in Dropped
    BY <2>1, <2>2 DEF QueueAgrees, DeletesAgree
  <2>4. id = gone
    BY <2>1 DEF STypeOK
  <2> QED
    BY <2>3, <2>4
<1>2. CASE LeaveRoute
  <2>1. \/ handlers' = handlers
        \/ handlers[idOf[routing]] = None /\ handlers' = [handlers EXCEPT ![idOf[routing]] = routing]
    BY <1>2 DEF LeaveRoute, ReadFreedParams, RouteNowhere, RouteToHandler, RegisterHandler
  <2> QED
    BY <2>1 DEF STypeOK
<1>3. CASE ConnectionStep \/ EnterRoute
  <2>1. handlers' = handlers
    BY <1>3 DEF ConnectionStep, LoseRequest, BeginRequest, OfferRequest, SendReply, EnterRoute
  <2> QED
    BY <2>1
<1>4. ASSUME NEW r \in Requests, CommitRequest(r) \/ HandlerStep(r)
      PROVE  FALSE
  BY <1>4 DEF CommitRequest, HandlerStep, RunHandler, KeepRequest, DropRequest
<1>5. CASE Start \/ Stop \/ StopReturns \/ BeginDestruction
  BY <1>5 DEF Start, Stop, StopReturns, BeginDestruction
<1> QED
  BY <1>1, <1>2, <1>3, <1>4, <1>5 DEF SNext

(* A deletion, which names an id only, removes the handler it was posted
   for, however often the id was used meanwhile. *)
THEOREM ErasesDropped == SSpec => ErasesOnlyDropped
<1>1. ASSUME SInv, [SNext]_svars
      PROVE  [\A r \in Requests :
                 (\E id \in Ids : handlers[id] = r) /\ ~(\E id \in Ids : handlers'[id] = r)
                     => hstate[r] \in {"dropping", "done"}]_svars
  <2> SUFFICES ASSUME SNext, NEW r \in Requests,
                      \E id \in Ids : handlers[id] = r, ~(\E id \in Ids : handlers'[id] = r)
               PROVE  hstate[r] \in {"dropping", "done"}
    BY <1>1
  <2>1. PICK id \in Ids : handlers[id] = r
    OBVIOUS
  <2>2. handlers[id] # None /\ handlers'[id] # handlers[id]
    BY <2>1, NoneIsNone
  <2> QED
    BY <1>1, <2>1, <2>2, RegistryShrinks DEF Dropped
<1> QED
  BY <1>1, ServerInvariance, PTL DEF SSpec, ErasesOnlyDropped

(* From the return of stop until the next start no step is left to a thread. *)
THEOREM StopIsQuiet == SSpec => StoppedIsQuiet
<1>1. ASSUME SInv, [SNext]_svars
      PROVE  [status = "STOPPED" /\ main \in {"idle", "destroyed"} =>
                 UNCHANGED <<phase, open, acceptorQ, routing, handlers, hstate, replies, crash>>]_svars
  <2> SUFFICES ASSUME SNext, status = "STOPPED", main \in {"idle", "destroyed"}
               PROVE  UNCHANGED <<phase, open, acceptorQ, routing, handlers, hstate, replies, crash>>
    BY <1>1
  <2>1. ~CanRun
    BY DEF CanRun
  <2>2. routing = None /\ \A r \in Requests : hstate[r] \notin InThread
    BY <1>1 DEF SInv, OwnerAgrees, STypeOK, InThread
  <2>3. ~ConnectionStep /\ ~EnterRoute /\ ~HandleRequestDeleteImpl
    BY <2>1 DEF ConnectionStep, LoseRequest, BeginRequest, OfferRequest, SendReply, EnterRoute,
                HandleRequestDeleteImpl
  <2>4. ~LeaveRoute
    BY <2>2 DEF LeaveRoute, ReadFreedParams, RouteNowhere, RouteToHandler
  <2>5. \A r \in Requests : ~CommitRequest(r) /\ ~HandlerStep(r)
    BY <2>1, <2>2 DEF CommitRequest, HandlerStep, RunHandler, KeepRequest, DropRequest, MoveHandler, InThread
  <2>6. Start \/ Stop \/ StopReturns \/ BeginDestruction
    BY <2>3, <2>4, <2>5 DEF SNext
  <2> QED
    BY <2>6 DEF Start, Stop, StopReturns, BeginDestruction, fcgiVars, handlerVars
<1> QED
  BY <1>1, ServerInvariance, PTL DEF SSpec, StoppedIsQuiet

=============================================================================
