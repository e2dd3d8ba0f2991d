------------------------------ MODULE Acceptor ------------------------------
(***************************************************************************)
(* Acceptor.h with many connections: ids that wrap, accepts that fail, and *)
(* the map of active connections, which the acceptor's strand changes      *)
(* while the strands of the connections look things up in it.              *)
(*                                                                         *)
(* A change of the map is two steps, HandleAccept and FinishAccept or      *)
(* CloseConnection and FinishErase.  A lookup in another strand between    *)
(* them is a data race: it finds the entry or it does not.  One lookup is  *)
(* itself a change when it misses, that of operator[] in handleNewRequest. *)
(*                                                                         *)
(* Of a connection this module knows what Connection.tla shows: it calls   *)
(* back when it is started, closes once, and is silent afterwards.         *)
(***************************************************************************)
EXTENDS Naturals, FiniteSets, SequencesExt

CONSTANTS Conns,    \* connections
          NoConn,   \* no entry
          Empty,    \* an entry that holds no connection
          IdCount   \* 2^32: _nextConnectionId is an unsigned int

ASSUME AcceptorAssumption ==
    /\ {NoConn, Empty} \intersect Conns = {} /\ NoConn # Empty
    /\ IdCount \in Nat \ {0}

ConnectionIds == 0..(IdCount - 1)

VARIABLES listening,         \* is an async_accept outstanding?
          acceptFailed,      \* has one reported an error?
          nextConnectionId,
          activeConnections,
          changing,          \* the change of the map that is in progress
          strandQ,           \* connection ids of the posted closeConnections
          phase,             \* how far each connection is
          newRequest,        \* the last request posted, and its handle's connection
          idOf,              \* the id each connection's callbacks are bound to
          accepted,          \* how many connections were accepted
          acceptedAt,        \* which of them each connection was
          failed             \* the assertion that stopped the process, or "emptyEntry"

mapVars == <<activeConnections, changing>>
acceptVars == <<listening, acceptFailed, nextConnectionId, idOf, accepted, acceptedAt>>
connVars == <<strandQ, phase, newRequest>>
acvars == <<mapVars, acceptVars, connVars, failed>>

NoChange == [op |-> "none"]
NoRequest == [op |-> "none"]
NewRequest(c, conn) == [op |-> "newRequest", from |-> c, conn |-> conn]

ATypeOK ==
    /\ listening \in BOOLEAN /\ acceptFailed \in BOOLEAN
    /\ nextConnectionId \in ConnectionIds
    /\ activeConnections \in [ConnectionIds -> Conns \union {NoConn, Empty}]
    /\ changing \in {NoChange} \union [op : {"insert", "erase"}, id : ConnectionIds, conn : Conns]
    /\ strandQ \in Seq(ConnectionIds)
    /\ phase \in [Conns -> {"none", "open", "closed", "destroyed"}]
    /\ newRequest \in {NoRequest} \union
                        [op : {"newRequest"}, from : Conns, conn : Conns \union {Empty}]
    /\ idOf \in [Conns -> ConnectionIds]
    /\ accepted \in Nat
    /\ acceptedAt \in [Conns -> Nat]
    /\ failed \in {"none", "handleAccept", "closeConnection",
                   "handleConnectionClose", "handleNewRequest", "emptyEntry"}

AInit ==
    /\ listening = TRUE
    /\ acceptFailed = FALSE
    /\ nextConnectionId = 0
    /\ activeConnections = [id \in ConnectionIds |-> NoConn]
    /\ changing = NoChange
    /\ strandQ = <<>>
    /\ phase = [c \in Conns |-> "none"]
    /\ newRequest = NoRequest
    /\ idOf = [c \in Conns |-> 0]
    /\ accepted = 0
    /\ acceptedAt = [c \in Conns |-> 0]
    /\ failed = "none"

-----------------------------------------------------------------------------
(* The acceptor's strand, which is free when the map is not being changed. *)

StrandFree == changing = NoChange

(* Seeded fault: ids are not counted but taken from the size of the map. *)
NewConnectionId_MapSize ==
    Cardinality({id \in ConnectionIds : activeConnections[id] # NoConn}) % IdCount

NewConnectionId == nextConnectionId

(* Seeded fault: the counter is wider than the ids. *)
NextConnectionId_Wider == nextConnectionId + 1

NextConnectionId == (nextConnectionId + 1) % IdCount

(* Seeded fault: the callbacks are bound to the counter, which has gone on. *)
BoundId_Counter == NextConnectionId

BoundId == NewConnectionId

(* Seeded fault: nobody looks whether the id is in use. *)
IdInUse_Ignored(id) == FALSE

IdInUse(id) == activeConnections[id] # NoConn

(* The callbacks are bound to the id, the assertion looks it up. *)
HandleAccept(c) ==
    /\ listening /\ StrandFree
    /\ phase[c] = "none"
    /\ listening' = FALSE
    /\ accepted' = accepted + 1
    /\ nextConnectionId' = NextConnectionId
    /\ IF IdInUse(NewConnectionId)
       THEN failed' = "handleAccept" /\ UNCHANGED <<changing, idOf, acceptedAt>>
       ELSE /\ changing' = [op |-> "insert", id |-> NewConnectionId, conn |-> c]
            /\ idOf' = [idOf EXCEPT ![c] = BoundId]
            /\ acceptedAt' = [acceptedAt EXCEPT ![c] = accepted]
            /\ UNCHANGED failed
    /\ UNCHANGED <<acceptFailed, activeConnections, connVars>>

(* The entry is made, the connection started, the next accept started. *)
FinishAccept ==
    /\ changing.op = "insert"
    /\ listening' = TRUE
    /\ activeConnections' = [activeConnections EXCEPT ![changing.id] = changing.conn]
    /\ phase' = [phase EXCEPT ![changing.conn] = "open"]
    /\ changing' = NoChange
    /\ UNCHANGED <<acceptFailed, nextConnectionId, idOf, accepted, acceptedAt, strandQ,
                   newRequest, failed>>

(* No other accept is started. *)
AcceptFails ==
    /\ listening /\ StrandFree
    /\ listening' = FALSE
    /\ acceptFailed' = TRUE
    /\ UNCHANGED <<nextConnectionId, idOf, accepted, acceptedAt, mapVars, connVars, failed>>

CloseConnection ==
    /\ strandQ # <<>> /\ StrandFree
    /\ strandQ' = Tail(strandQ)
    /\ LET id == Head(strandQ)
       IN  IF activeConnections[id] = NoConn
           THEN failed' = "closeConnection" /\ UNCHANGED changing
           ELSE /\ changing' = [op |-> "erase", id |-> id, conn |-> activeConnections[id]]
                /\ UNCHANGED failed
    /\ UNCHANGED <<acceptVars, activeConnections, phase, newRequest>>

(* Seeded fault: the entry that is erased is the first of the map. *)
Erased_First == CHOOSE id \in ConnectionIds :
    /\ activeConnections[id] # NoConn
    /\ \A other \in ConnectionIds : activeConnections[other] # NoConn => id <= other

Erased == changing.id

(* The map's was the last reference that owns the connection. *)
FinishErase ==
    /\ changing.op = "erase"
    /\ activeConnections' = [activeConnections EXCEPT ![Erased] = NoConn]
    /\ phase' = [phase EXCEPT ![activeConnections[Erased]] = "destroyed"]
    /\ changing' = NoChange
    /\ UNCHANGED <<acceptVars, strandQ, newRequest, failed>>

-----------------------------------------------------------------------------
(* The connections' strands. *)

MayFind(c) == activeConnections[idOf[c]] # NoConn

MayMiss(c) == ~MayFind(c) \/ ~StrandFree

(* Seeded fault: the close is posted twice. *)
Closes_Twice(id) == <<id, id>>

(* Seeded fault: the close is not posted. *)
Closes_None(id) == <<>>

(* What handleConnectionClose posts. *)
Closes(id) == <<id>>

HandleConnectionClose(c) ==
    /\ phase[c] = "open"
    /\ \/ /\ MayFind(c)
          /\ strandQ' = strandQ \o Closes(idOf[c])
          /\ phase' = [phase EXCEPT ![c] = "closed"]
          /\ UNCHANGED failed
       \/ /\ MayMiss(c)
          /\ failed' = "handleConnectionClose"
          /\ UNCHANGED <<strandQ, phase>>
    /\ UNCHANGED <<mapVars, acceptVars, newRequest>>

(* The assertion looks the id up, and operator[] looks it up again for the
   handle.  When operator[] misses it puts an empty entry under the id, in this
   strand, and the handle has no connection.  The acceptor's strand is changing
   the map then: what a map holds after two changes at once is undefined, and
   nothing is modelled of what follows. *)
HandleNewRequest(c) ==
    /\ phase[c] = "open"
    /\ \/ /\ MayFind(c)
          /\ newRequest' = NewRequest(c, activeConnections[idOf[c]])
          /\ UNCHANGED <<activeConnections, failed>>
       \/ /\ MayFind(c) /\ MayMiss(c)
          /\ activeConnections' = [activeConnections EXCEPT ![idOf[c]] = Empty]
          /\ newRequest' = NewRequest(c, Empty)
          /\ failed' = "emptyEntry"
       \/ /\ MayMiss(c)
          /\ failed' = "handleNewRequest"
          /\ UNCHANGED <<activeConnections, newRequest>>
    /\ UNCHANGED <<changing, acceptVars, strandQ, phase>>

-----------------------------------------------------------------------------
(* Nothing is modelled after a failed assertion or a racing insertion. *)
Running == failed = "none"

AcceptorStep == FinishAccept \/ CloseConnection \/ FinishErase

ANext ==
    /\ Running
    /\ \/ AcceptorStep \/ AcceptFails
       \/ \E c \in Conns : HandleAccept(c) \/ HandleConnectionClose(c) \/ HandleNewRequest(c)

ASpec == AInit /\ [][ANext]_acvars

(* The io_service runs the handlers of the acceptor's strand. *)
AFairSpec == ASpec /\ WF_acvars(Running /\ AcceptorStep)

-----------------------------------------------------------------------------
(* A connection that was started and not given back is the entry under the id
   its callbacks are bound to: nothing overwrites or erases it.  The one that
   can lose it is an open one whose own lookup put an empty entry there. *)
EntryIsOwn ==
    \A c \in Conns : phase[c] \in {"open", "closed"} =>
        \/ activeConnections[idOf[c]] = c
        \/ failed = "emptyEntry" /\ newRequest = NewRequest(c, Empty)

(* The handle of a request refers to the connection the request came from,
   however ids are used again: its reply goes to no other web server.  Only one
   that is made while another entry changes may refer to none. *)
HandleIsOwn ==
    newRequest # NoRequest =>
        \/ newRequest.conn = newRequest.from
        \/ newRequest.conn = Empty /\ failed = "emptyEntry"

(* A close on its way to the acceptor's strand is the only one for its entry,
   which is a connection that closed: the assertion of closeConnection holds. *)
CloseIsOwn ==
    /\ failed # "closeConnection"
    /\ \A i \in DOMAIN strandQ :
        /\ \E c \in Conns : phase[c] = "closed" /\ activeConnections[strandQ[i]] = c
        /\ changing.op = "erase" => changing.id # strandQ[i]
        /\ \A j \in DOMAIN strandQ : strandQ[i] = strandQ[j] => i = j

(* The assertion of handleAccept fails only when the counter has gone round
   once since the connection that still has the id was accepted. *)
IdReusedOnlyAfterWrap ==
    failed = "handleAccept" =>
        \E c \in Conns : /\ phase[c] \in {"open", "closed"}
                         /\ accepted - acceptedAt[c] = IdCount + 1

(* A connection's callback misses its entry, in the assertions as in
   operator[], only in a race with a change of another entry. *)
MissOnlyInRace ==
    failed \in {"handleConnectionClose", "handleNewRequest", "emptyEntry"} =>
        /\ ~StrandFree
        /\ \A c \in Conns : phase[c] = "open" => changing.id # idOf[c]

(* Every connection that closed is given back, while the process runs and only
   the acceptor's strand changes the map. *)
ClosedLeavesMap ==
    \A c \in Conns : phase[c] = "closed" ~> (phase[c] = "destroyed" \/ ~Running)

=============================================================================
