--------------------------- MODULE AcceptorProofs ---------------------------
(* The map of the acceptor keeps every connection under its own id until the
   close that names it, for any number of connections and of ids. *)
EXTENDS Acceptor, SequenceTheorems, TLAPS

(* What is in the map is the connection whose callbacks are bound there. *)
EntriesAgree ==
    failed # "emptyEntry" => \A id \in ConnectionIds : activeConnections[id] # NoConn =>
        /\ activeConnections[id] \in Conns
        /\ phase[activeConnections[id]] \in {"open", "closed"}
        /\ idOf[activeConnections[id]] = id

(* An entry in the making is free and its connection not started; one that is
   erased is that of a connection that closed. *)
ChangeAgrees ==
    /\ changing.op = "insert" =>
          /\ activeConnections[changing.id] = NoConn
          /\ phase[changing.conn] = "none"
          /\ idOf[changing.conn] = changing.id
    /\ changing.op = "erase" =>
          /\ activeConnections[changing.id] = changing.conn
          /\ phase[changing.conn] = "closed"

HasId(c) ==
    \/ phase[c] \in {"open", "closed"}
    \/ changing.op = "insert" /\ changing.conn = c

Age(c) == accepted - acceptedAt[c]

(* The counter has gone on by the age of a connection, round at most once. *)
CounterAgrees ==
    failed # "handleAccept" =>
        \A c \in Conns : HasId(c) =>
            /\ Age(c) \in 1..IdCount
            /\ idOf[c] + Age(c) \in {nextConnectionId, nextConnectionId + IdCount}

AInv ==
    /\ ATypeOK
    /\ EntryIsOwn /\ EntriesAgree /\ HandleIsOwn /\ ChangeAgrees
    /\ CloseIsOwn
    /\ CounterAgrees
    /\ IdReusedOnlyAfterWrap
    /\ MissOnlyInRace

-----------------------------------------------------------------------------
(* The counter goes on by one, or back to zero. *)
LEMMA NextIdCases ==
    ASSUME NEW id \in ConnectionIds
    PROVE  /\ (id + 1) % IdCount \in ConnectionIds
           /\ (id + 1) % IdCount = IF id + 1 = IdCount THEN 0 ELSE id + 1
<1>1. CASE id + 1 = IdCount
  BY <1>1, AcceptorAssumption, SMT DEF ConnectionIds
<1>2. CASE id + 1 < IdCount
  BY <1>2, AcceptorAssumption, SMT DEF ConnectionIds
<1> QED  BY <1>1, <1>2, AcceptorAssumption, SMT DEF ConnectionIds

LEMMA AInitInv == AInit => AInv
<1> SUFFICES ASSUME AInit PROVE AInv
  OBVIOUS
<1>1. ATypeOK
  <2>1. 0 \in ConnectionIds
    BY AcceptorAssumption DEF ConnectionIds
  <2>2. strandQ \in Seq(ConnectionIds) /\ newRequest = NoRequest
    BY DEF AInit
  <2>3. listening \in BOOLEAN /\ acceptFailed \in BOOLEAN
    BY DEF AInit
  <2> QED  BY <2>1, <2>2, <2>3 DEF AInit, ATypeOK
<1> QED
  BY <1>1 DEF AInit, AInv, EntryIsOwn, EntriesAgree, HandleIsOwn, ChangeAgrees, CloseIsOwn,
              CounterAgrees, HasId, IdReusedOnlyAfterWrap, MissOnlyInRace, NoChange

(* A new connection gets the counter's id, which nobody has, or the assertion
   fails because the connection that has it is a whole round older. *)
LEMMA AcceptKeepsInv ==
    ASSUME AInv, Running, NEW c \in Conns, HandleAccept(c)
    PROVE  AInv'
<1> DEFINE next == nextConnectionId
<1>0. next \in ConnectionIds /\ NextConnectionId \in ConnectionIds
  BY NextIdCases DEF AInv, ATypeOK, NextConnectionId
<1>1. CASE activeConnections[next] # NoConn
  <2>1. /\ failed' = "handleAccept" /\ accepted' = accepted + 1
        /\ nextConnectionId' = NextConnectionId
        /\ UNCHANGED <<changing, idOf, acceptedAt, activeConnections, strandQ, phase, newRequest,
                       acceptFailed>>
        /\ listening' = FALSE
    BY <1>1 DEF HandleAccept, IdInUse, NewConnectionId, connVars
  <2>2. ATypeOK'
    <3>1. accepted' \in Nat /\ nextConnectionId' \in ConnectionIds
      BY <1>0, <2>1 DEF AInv, ATypeOK
    <3>2. acceptFailed' \in BOOLEAN /\ listening' \in BOOLEAN
      BY <2>1 DEF AInv, ATypeOK
    <3> HIDE DEF next
    <3> QED  BY <2>1, <3>1, <3>2 DEF AInv, ATypeOK
  <2>3. PICK d \in Conns : d = activeConnections[next]
    BY <1>0, <1>1 DEF AInv, EntriesAgree, Running
  <2>4. phase[d] \in {"open", "closed"} /\ idOf[d] = next
    BY <1>0, <1>1, <2>3 DEF AInv, EntriesAgree, Running
  <2>5. Age(d) = IdCount
    <3>1. Age(d) \in 1..IdCount /\ next + Age(d) \in {next, next + IdCount}
      BY <2>4 DEF AInv, CounterAgrees, HasId, Running
    <3> QED  BY <1>0, <3>1, AcceptorAssumption DEF ConnectionIds
  <2>6. accepted' - acceptedAt'[d] = IdCount + 1
    BY <2>1, <2>5, AcceptorAssumption DEF Age, AInv, ATypeOK
  <2>7. IdReusedOnlyAfterWrap'
    BY <2>1, <2>4, <2>6 DEF IdReusedOnlyAfterWrap
  <2> QED
    BY <2>1, <2>2, <2>7 DEF AInv, Running, EntryIsOwn, EntriesAgree, HandleIsOwn, ChangeAgrees,
                            CloseIsOwn, CounterAgrees, MissOnlyInRace
<1>2. CASE activeConnections[next] = NoConn
  <2>1. /\ changing' = [op |-> "insert", id |-> next, conn |-> c]
        /\ idOf' = [idOf EXCEPT ![c] = next]
        /\ acceptedAt' = [acceptedAt EXCEPT ![c] = accepted]
        /\ accepted' = accepted + 1
        /\ nextConnectionId' = NextConnectionId
        /\ UNCHANGED <<failed, activeConnections, strandQ, phase, newRequest, acceptFailed>>
        /\ listening' = FALSE
        /\ changing = NoChange /\ phase[c] = "none"
    BY <1>2 DEF HandleAccept, IdInUse, NewConnectionId, BoundId, connVars, StrandFree
  <2>2. ATypeOK'
    <3>1. accepted' \in Nat /\ nextConnectionId' \in ConnectionIds
      BY <1>0, <2>1 DEF AInv, ATypeOK
    <3>2. acceptFailed' \in BOOLEAN /\ listening' \in BOOLEAN
      BY <2>1 DEF AInv, ATypeOK
    <3>3. /\ idOf' \in [Conns -> ConnectionIds]
          /\ acceptedAt' \in [Conns -> Nat]
      BY <1>0, <2>1 DEF AInv, ATypeOK
    <3>4. changing' \in [op : {"insert", "erase"}, id : ConnectionIds, conn : Conns]
      BY <1>0, <2>1
    <3> HIDE DEF next
    <3> QED  BY <2>1, <3>1, <3>2, <3>3, <3>4 DEF AInv, ATypeOK
  <2>3. EntryIsOwn' /\ EntriesAgree' /\ HandleIsOwn'
    BY <2>1 DEF AInv, ATypeOK, EntryIsOwn, EntriesAgree, HandleIsOwn
  <2>4. ChangeAgrees'
    BY <1>2, <2>1 DEF AInv, ATypeOK, ChangeAgrees
  <2>5. CloseIsOwn'
    BY <2>1 DEF AInv, CloseIsOwn
  <2>6. CounterAgrees'
    <3> SUFFICES ASSUME NEW d \in Conns, HasId(d)'
                 PROVE  /\ Age(d)' \in 1..IdCount
                        /\ idOf'[d] + Age(d)' \in {NextConnectionId, NextConnectionId + IdCount}
      BY <2>1 DEF CounterAgrees
    <3>1. CASE d = c
      <4>1. Age(d)' = 1 /\ idOf'[d] = next
        BY <2>1, <3>1 DEF Age, AInv, ATypeOK
      <4> QED  BY <1>0, <4>1, NextIdCases, AcceptorAssumption DEF NextConnectionId, ConnectionIds
    <3>2. CASE d # c
      <4>1. phase[d] \in {"open", "closed"}
        BY <2>1, <3>2 DEF HasId
      <4>2. /\ Age(d) \in 1..IdCount
            /\ idOf[d] + Age(d) \in {next, next + IdCount}
        BY <4>1 DEF AInv, CounterAgrees, HasId, Running
      <4>3. idOf[d] # next
        BY <1>2, <4>1, AcceptorAssumption DEF AInv, EntryIsOwn, Running
      <4>4. idOf[d] \in ConnectionIds
        BY DEF AInv, ATypeOK
      <4>5. Age(d)' = Age(d) + 1 /\ idOf'[d] = idOf[d]
        <5>1. acceptedAt'[d] = acceptedAt[d] /\ idOf'[d] = idOf[d]
          BY <2>1, <3>2 DEF AInv, ATypeOK
        <5>2. accepted \in Nat /\ acceptedAt[d] \in Nat
          BY DEF AInv, ATypeOK
        <5> QED  BY <2>1, <5>1, <5>2 DEF Age
      <4> HIDE DEF next
      <4>6. NextConnectionId = IF next + 1 = IdCount THEN 0 ELSE next + 1
        BY <1>0, NextIdCases DEF next, NextConnectionId
      <4> QED  BY <1>0, <4>2, <4>3, <4>4, <4>5, <4>6, AcceptorAssumption DEF ConnectionIds
    <3> QED  BY <3>1, <3>2
  <2> QED
    BY <2>1, <2>2, <2>3, <2>4, <2>5, <2>6 DEF AInv, Running, IdReusedOnlyAfterWrap, MissOnlyInRace
<1> QED  BY <1>1, <1>2

LEMMA FinishAcceptKeepsInv ==
    ASSUME AInv, Running, FinishAccept
    PROVE  AInv'
<1> DEFINE c == changing.conn
           new == changing.id
<1>1. /\ c \in Conns /\ new \in ConnectionIds /\ changing.op = "insert"
      /\ activeConnections[new] = NoConn /\ phase[c] = "none" /\ idOf[c] = new
  BY DEF AInv, ATypeOK, NoChange, ChangeAgrees, FinishAccept
<1>2. /\ activeConnections' = [activeConnections EXCEPT ![new] = c]
      /\ phase' = [phase EXCEPT ![c] = "open"]
      /\ changing' = NoChange /\ listening' = TRUE
      /\ UNCHANGED <<acceptFailed, nextConnectionId, idOf, accepted, acceptedAt, strandQ, newRequest,
                     failed>>
  BY DEF FinishAccept
<1> HIDE DEF c, new
<1>3. ATypeOK'
  BY <1>1, <1>2 DEF AInv, ATypeOK
<1>4. EntryIsOwn' /\ EntriesAgree' /\ HandleIsOwn'
  BY <1>1, <1>2, AcceptorAssumption DEF AInv, ATypeOK, EntryIsOwn, EntriesAgree, HandleIsOwn, Running
<1>5. ChangeAgrees' /\ MissOnlyInRace' /\ IdReusedOnlyAfterWrap'
  BY <1>2 DEF ChangeAgrees, NoChange, Running, MissOnlyInRace, IdReusedOnlyAfterWrap
<1>6. CloseIsOwn'
  <2>1. \A i \in DOMAIN strandQ : strandQ[i] # new /\ strandQ[i] \in ConnectionIds
    BY <1>1, AcceptorAssumption, ElementOfSeq, LenProperties DEF AInv, ATypeOK, CloseIsOwn
  <2> QED  BY <1>1, <1>2, <2>1 DEF AInv, ATypeOK, CloseIsOwn, NoChange
<1>7. CounterAgrees'
  <2>1. \A d \in Conns : HasId(d)' => HasId(d)
    BY <1>1, <1>2 DEF HasId, NoChange, c, AInv, ATypeOK
  <2> QED  BY <1>2, <2>1 DEF AInv, CounterAgrees, Age
<1> QED  BY <1>3, <1>4, <1>5, <1>6, <1>7 DEF AInv

LEMMA CloseConnectionKeepsInv ==
    ASSUME AInv, Running, CloseConnection
    PROVE  AInv'
<1> DEFINE id == Head(strandQ)
<1>1. /\ strandQ \in Seq(ConnectionIds) /\ strandQ # <<>>
      /\ id \in ConnectionIds /\ strandQ' = Tail(strandQ)
  BY HeadTailProperties DEF AInv, ATypeOK, CloseConnection
<1>2. PICK c \in Conns : phase[c] = "closed" /\ activeConnections[id] = c
  <2>1. 1 \in DOMAIN strandQ /\ id = strandQ[1]
    BY <1>1, LenProperties, EmptySeq
  <2> QED  BY <2>1 DEF AInv, CloseIsOwn
<1>3. /\ changing' = [op |-> "erase", id |-> id, conn |-> c]
      /\ changing = NoChange
      /\ UNCHANGED <<listening, acceptFailed, nextConnectionId, idOf, accepted, acceptedAt,
                     activeConnections, phase, newRequest, failed>>
  BY <1>2, AcceptorAssumption DEF CloseConnection, acceptVars, StrandFree
<1>4. /\ strandQ' \in Seq(ConnectionIds)
      /\ \A i \in DOMAIN strandQ' :
            i + 1 \in DOMAIN strandQ /\ strandQ'[i] = strandQ[i + 1] /\ i + 1 # 1 /\ i \in Nat
  <2>1. /\ Tail(strandQ) \in Seq(ConnectionIds)
        /\ Len(Tail(strandQ)) = Len(strandQ) - 1
        /\ \A i \in 1..Len(Tail(strandQ)) : Tail(strandQ)[i] = strandQ[i + 1]
    BY <1>1, HeadTailProperties
  <2>2. /\ DOMAIN strandQ = 1..Len(strandQ) /\ Len(strandQ) \in Nat
        /\ DOMAIN Tail(strandQ) = 1..Len(Tail(strandQ))
    BY <1>1, <2>1, LenProperties
  <2> QED  BY <1>1, <2>1, <2>2
<1>5. 1 \in DOMAIN strandQ /\ id = strandQ[1]
  BY <1>1, LenProperties, EmptySeq
<1> HIDE DEF id
<1>6. ATypeOK'
  BY <1>1, <1>2, <1>3, <1>4 DEF AInv, ATypeOK
<1>7. EntryIsOwn' /\ EntriesAgree' /\ HandleIsOwn' /\ ChangeAgrees'
  BY <1>2, <1>3 DEF AInv, EntryIsOwn, EntriesAgree, HandleIsOwn, ChangeAgrees
<1>8. CloseIsOwn'
  <2> SUFFICES ASSUME NEW i \in DOMAIN strandQ'
               PROVE  /\ \E d \in Conns : phase[d] = "closed" /\ activeConnections[strandQ'[i]] = d
                      /\ id # strandQ'[i]
                      /\ \A j \in DOMAIN strandQ' : strandQ'[i] = strandQ'[j] => i = j
    BY <1>3 DEF AInv, CloseIsOwn
  <2>1. i + 1 \in DOMAIN strandQ /\ strandQ'[i] = strandQ[i + 1] /\ i + 1 # 1 /\ i \in Nat
    BY <1>4
  <2>2. \E d \in Conns : phase[d] = "closed" /\ activeConnections[strandQ'[i]] = d
    BY <2>1 DEF AInv, CloseIsOwn
  <2>3. id # strandQ'[i]
    BY <1>5, <2>1 DEF AInv, CloseIsOwn
  <2>4. ASSUME NEW j \in DOMAIN strandQ', strandQ'[i] = strandQ'[j] PROVE i = j
    <3>1. j + 1 \in DOMAIN strandQ /\ strandQ'[j] = strandQ[j + 1] /\ j \in Nat
      BY <1>4
    <3>2. i + 1 = j + 1
      BY <2>1, <2>4, <3>1 DEF AInv, CloseIsOwn
    <3> QED  BY <2>1, <3>1, <3>2
  <2> QED  BY <2>2, <2>3, <2>4
<1>9. CounterAgrees'
  BY <1>3 DEF AInv, CounterAgrees, HasId, Age
<1> QED
  BY <1>3, <1>6, <1>7, <1>8, <1>9 DEF AInv, Running, IdReusedOnlyAfterWrap, MissOnlyInRace

LEMMA FinishEraseKeepsInv ==
    ASSUME AInv, Running, FinishErase
    PROVE  AInv'
<1> DEFINE c == changing.conn
           old == changing.id
<1>1. /\ c \in Conns /\ old \in ConnectionIds /\ changing.op = "erase"
      /\ activeConnections[old] = c /\ phase[c] = "closed"
  BY DEF AInv, ATypeOK, NoChange, ChangeAgrees, FinishErase
<1>2. /\ activeConnections' = [activeConnections EXCEPT ![old] = NoConn]
      /\ phase' = [phase EXCEPT ![c] = "destroyed"]
      /\ changing' = NoChange
      /\ UNCHANGED <<listening, acceptFailed, nextConnectionId, idOf, accepted, acceptedAt,
                     strandQ, newRequest, failed>>
  BY <1>1 DEF FinishErase, Erased, acceptVars
<1>3. \A i \in DOMAIN strandQ : strandQ[i] # old
  BY <1>1 DEF AInv, CloseIsOwn
<1> HIDE DEF c, old
<1>4. ATypeOK'
  BY <1>1, <1>2 DEF AInv, ATypeOK
<1>5. EntryIsOwn' /\ EntriesAgree' /\ HandleIsOwn'
  BY <1>1, <1>2, AcceptorAssumption DEF AInv, ATypeOK, EntryIsOwn, EntriesAgree, HandleIsOwn, Running
<1>6. ChangeAgrees' /\ MissOnlyInRace' /\ IdReusedOnlyAfterWrap'
  BY <1>2 DEF ChangeAgrees, NoChange, Running, MissOnlyInRace, IdReusedOnlyAfterWrap
<1>7. CloseIsOwn'
  <2> SUFFICES ASSUME NEW i \in DOMAIN strandQ
               PROVE  \E d \in Conns : phase'[d] = "closed" /\ activeConnections'[strandQ[i]] = d
    BY <1>2 DEF AInv, CloseIsOwn, NoChange
  <2>1. strandQ[i] \in ConnectionIds
    BY ElementOfSeq, LenProperties DEF AInv, ATypeOK
  <2>2. PICK d \in Conns : phase[d] = "closed" /\ activeConnections[strandQ[i]] = d
    BY DEF AInv, CloseIsOwn
  <2>3. d # c
    BY <1>1, <1>3, <2>1, <2>2, AcceptorAssumption DEF AInv, EntriesAgree, Running
  <2> QED  BY <1>2, <1>3, <2>1, <2>2, <2>3 DEF AInv, ATypeOK
<1>8. CounterAgrees'
  <2>1. \A d \in Conns : HasId(d)' => HasId(d)
    BY <1>1, <1>2 DEF HasId, NoChange, AInv, ATypeOK
  <2> QED  BY <1>2, <2>1 DEF AInv, CounterAgrees, Age
<1> QED  BY <1>4, <1>5, <1>6, <1>7, <1>8 DEF AInv

(* No entry that changes is that of an open connection. *)
LEMMA OpenIsNotChanging ==
    ASSUME AInv, Running, NEW c \in Conns, phase[c] = "open"
    PROVE  /\ activeConnections[idOf[c]] = c
           /\ changing # NoChange => changing.id # idOf[c]
<1>1. activeConnections[idOf[c]] = c
  BY DEF AInv, EntryIsOwn, Running
<1>2. changing # NoChange => changing.op \in {"insert", "erase"}
  BY DEF AInv, ATypeOK
<1> QED  BY <1>1, <1>2, AcceptorAssumption DEF AInv, ChangeAgrees

LEMMA ConnectionCloseKeepsInv ==
    ASSUME AInv, Running, NEW c \in Conns, HandleConnectionClose(c)
    PROVE  AInv'
<1> DEFINE id == idOf[c]
<1>1. phase[c] = "open" /\ activeConnections[id] = c /\ id \in ConnectionIds
  BY OpenIsNotChanging DEF HandleConnectionClose, AInv, ATypeOK
<1>2. changing # NoChange => changing.id # id
  BY <1>1, OpenIsNotChanging
<1>3. UNCHANGED <<activeConnections, changing, listening, acceptFailed, nextConnectionId, idOf,
                  accepted, acceptedAt, newRequest>>
  BY DEF HandleConnectionClose, mapVars, acceptVars
<1>4. CASE failed' = "handleConnectionClose" /\ UNCHANGED <<strandQ, phase>> /\ MayMiss(c)
  <2>1. ~StrandFree
    BY <1>1, <1>4, AcceptorAssumption DEF MayMiss, MayFind
  <2>2. MissOnlyInRace'
    BY <1>3, <1>4, <2>1, OpenIsNotChanging DEF MissOnlyInRace, StrandFree
  <2> QED
    BY <1>3, <1>4, <2>2 DEF AInv, ATypeOK, EntryIsOwn, EntriesAgree, HandleIsOwn, ChangeAgrees,
                            CloseIsOwn, CounterAgrees, HasId, Age, IdReusedOnlyAfterWrap, Running
<1>5. CASE /\ strandQ' = strandQ \o <<id>>
           /\ phase' = [phase EXCEPT ![c] = "closed"]
           /\ failed' = failed
  <2> DEFINE n == Len(strandQ)
  <2>1. /\ strandQ \in Seq(ConnectionIds) /\ n \in Nat
        /\ strandQ' = Append(strandQ, id)
        /\ strandQ' \in Seq(ConnectionIds)
        /\ DOMAIN strandQ' = 1..(n + 1) /\ DOMAIN strandQ = 1..n
        /\ strandQ'[n + 1] = id
        /\ \A i \in 1..n : strandQ'[i] = strandQ[i]
    BY <1>1, <1>5, LenProperties, AppendProperties DEF AInv, ATypeOK
  <2>2. \A i \in 1..n : strandQ[i] # id
    BY <1>1, <2>1 DEF AInv, CloseIsOwn
  <2> HIDE DEF id, n
  <2>3. ATypeOK'
    BY <1>3, <1>5, <2>1 DEF AInv, ATypeOK
  <2>4. EntryIsOwn' /\ EntriesAgree' /\ HandleIsOwn'
    BY <1>1, <1>3, <1>5 DEF AInv, ATypeOK, EntryIsOwn, EntriesAgree, HandleIsOwn, Running
  <2>5. ChangeAgrees'
    BY <1>1, <1>3, <1>5 DEF AInv, ATypeOK, ChangeAgrees, NoChange
  <2>6. CloseIsOwn'
    <3> SUFFICES ASSUME NEW i \in 1..(n + 1)
                 PROVE  /\ \E d \in Conns : phase'[d] = "closed"
                                            /\ activeConnections[strandQ'[i]] = d
                        /\ changing.op = "erase" => changing.id # strandQ'[i]
                        /\ \A j \in 1..(n + 1) : strandQ'[i] = strandQ'[j] => i = j
      BY <1>3, <1>5, <2>1 DEF AInv, CloseIsOwn
    <3>1. CASE i = n + 1
      <4>1. phase'[c] = "closed" /\ activeConnections[strandQ'[i]] = c
        BY <1>1, <1>5, <2>1, <3>1 DEF AInv, ATypeOK
      <4>2. changing.op = "erase" => changing.id # strandQ'[i]
        BY <1>2, <2>1, <3>1 DEF NoChange
      <4> QED  BY <4>1, <4>2, <2>1, <2>2, <3>1
    <3>2. CASE i \in 1..n
      <4>1. PICK d \in Conns : phase[d] = "closed" /\ activeConnections[strandQ'[i]] = d
        BY <2>1, <3>2 DEF AInv, CloseIsOwn
      <4>2. phase'[d] = "closed"
        BY <1>5, <4>1 DEF AInv, ATypeOK
      <4>3. changing.op = "erase" => changing.id # strandQ'[i]
        BY <2>1, <3>2 DEF AInv, CloseIsOwn
      <4>4. ASSUME NEW j \in 1..(n + 1), strandQ'[i] = strandQ'[j] PROVE i = j
        <5>1. j \in 1..n
          BY <2>1, <2>2, <3>2, <4>4
        <5> QED  BY <2>1, <3>2, <4>4, <5>1 DEF AInv, CloseIsOwn
      <4> QED  BY <4>1, <4>2, <4>3, <4>4
    <3> QED  BY <2>1, <3>1, <3>2
  <2>7. CounterAgrees'
    <3>1. \A d \in Conns : HasId(d)' => HasId(d)
      BY <1>1, <1>3, <1>5 DEF HasId, AInv, ATypeOK
    <3> QED  BY <1>3, <1>5, <3>1 DEF AInv, CounterAgrees, Age
  <2> QED
    BY <1>5, <2>3, <2>4, <2>5, <2>6, <2>7 DEF AInv, Running, IdReusedOnlyAfterWrap, MissOnlyInRace
<1> QED  BY <1>4, <1>5 DEF HandleConnectionClose, Closes

(* The handle is made of the connection's own entry; a lookup that misses,
   whichever of the two, does so while another entry changes. *)
LEMMA NewRequestKeepsInv ==
    ASSUME AInv, Running, NEW c \in Conns, HandleNewRequest(c)
    PROVE  AInv'
<1> DEFINE id == idOf[c]
<1>1. /\ phase[c] = "open" /\ activeConnections[id] = c /\ id \in ConnectionIds
      /\ changing # NoChange => changing.id # id
  BY OpenIsNotChanging DEF HandleNewRequest, AInv, ATypeOK
<1>2. UNCHANGED <<changing, listening, acceptFailed, nextConnectionId, idOf, accepted, acceptedAt,
                  strandQ, phase>>
  BY DEF HandleNewRequest, acceptVars
<1>3. MayMiss(c) => ~StrandFree
  BY <1>1, AcceptorAssumption DEF MayMiss, MayFind
<1>4. ~StrandFree => \A d \in Conns : phase[d] = "open" => changing.id # idOf[d]
  BY OpenIsNotChanging DEF StrandFree
<1>5. CounterAgrees'
  BY <1>2 DEF AInv, CounterAgrees, HasId, Age, Running
<1>6. CASE newRequest' = NewRequest(c, c) /\ UNCHANGED <<activeConnections, failed>>
  <2>1. ATypeOK'
    BY <1>2, <1>6 DEF AInv, ATypeOK, NewRequest
  <2>2. HandleIsOwn'
    BY <1>6 DEF HandleIsOwn, NewRequest
  <2> QED
    BY <1>2, <1>5, <1>6, <2>1, <2>2 DEF AInv, EntryIsOwn, EntriesAgree, ChangeAgrees, CloseIsOwn,
                                        IdReusedOnlyAfterWrap, MissOnlyInRace, Running
<1>7. CASE /\ activeConnections' = [activeConnections EXCEPT ![id] = Empty]
           /\ newRequest' = NewRequest(c, Empty)
           /\ failed' = "emptyEntry"
           /\ MayMiss(c)
  <2> HIDE DEF id
  <2>1. ATypeOK'
    BY <1>1, <1>2, <1>7 DEF AInv, ATypeOK, NewRequest
  <2>2. HandleIsOwn'
    BY <1>7 DEF HandleIsOwn, NewRequest
  <2>3. EntryIsOwn' /\ EntriesAgree'
    <3>1. ASSUME NEW d \in Conns, phase[d] \in {"open", "closed"}, d # c
          PROVE  activeConnections'[idOf[d]] = d
      <4>1. activeConnections[idOf[d]] = d /\ idOf[d] \in ConnectionIds
        BY <3>1 DEF AInv, ATypeOK, EntryIsOwn, Running
      <4> QED
        BY <1>1, <1>7, <3>1, <4>1 DEF AInv, ATypeOK
    <3> QED
      BY <1>2, <1>7, <3>1 DEF EntryIsOwn, EntriesAgree
  <2>4. ChangeAgrees'
    <3>1. changing # NoChange => activeConnections'[changing.id] = activeConnections[changing.id]
      BY <1>1, <1>7 DEF AInv, ATypeOK
    <3> QED
      BY <1>2, <3>1 DEF AInv, ChangeAgrees, NoChange
  <2>5. CloseIsOwn'
    <3> SUFFICES ASSUME NEW i \in DOMAIN strandQ
                 PROVE  \E d \in Conns : phase[d] = "closed" /\ activeConnections'[strandQ[i]] = d
      BY <1>2, <1>7 DEF AInv, CloseIsOwn
    <3>1. strandQ[i] \in ConnectionIds
      BY ElementOfSeq, LenProperties DEF AInv, ATypeOK
    <3>2. PICK d \in Conns : phase[d] = "closed" /\ activeConnections[strandQ[i]] = d
      BY DEF AInv, CloseIsOwn
    <3> QED
      BY <1>1, <1>7, <3>1, <3>2 DEF AInv, ATypeOK
  <2>6. MissOnlyInRace' /\ IdReusedOnlyAfterWrap'
    BY <1>2, <1>3, <1>4, <1>7 DEF MissOnlyInRace, IdReusedOnlyAfterWrap, StrandFree
  <2> QED
    BY <1>5, <1>7, <2>1, <2>2, <2>3, <2>4, <2>5, <2>6 DEF AInv
<1>8. CASE /\ failed' = "handleNewRequest" /\ MayMiss(c)
           /\ UNCHANGED <<activeConnections, newRequest>>
  <2>1. MissOnlyInRace' /\ IdReusedOnlyAfterWrap'
    BY <1>2, <1>3, <1>4, <1>8 DEF MissOnlyInRace, IdReusedOnlyAfterWrap, StrandFree
  <2>2. ATypeOK'
    BY <1>2, <1>8 DEF AInv, ATypeOK
  <2> QED
    BY <1>2, <1>5, <1>8, <2>1, <2>2 DEF AInv, EntryIsOwn, EntriesAgree, HandleIsOwn, ChangeAgrees,
                                        CloseIsOwn, Running
<1> QED
  BY <1>1, <1>6, <1>7, <1>8 DEF HandleNewRequest

LEMMA AStepInv == AInv /\ [ANext]_acvars => AInv'
<1> SUFFICES ASSUME AInv, [ANext]_acvars PROVE AInv'
  OBVIOUS
<1> USE DEF ANext
<1>1. CASE Running /\ \E c \in Conns : HandleAccept(c)
  BY <1>1, AcceptKeepsInv
<1>2. CASE Running /\ FinishAccept
  BY <1>2, FinishAcceptKeepsInv
<1>3. CASE Running /\ AcceptFails
  <2>1. /\ UNCHANGED <<activeConnections, changing, strandQ, phase, newRequest, nextConnectionId,
                       idOf, accepted, acceptedAt, failed>>
        /\ listening' = FALSE /\ acceptFailed' = TRUE
    BY <1>3 DEF AcceptFails, mapVars, connVars
  <2>2. ATypeOK'
    BY <2>1 DEF AInv, ATypeOK
  <2> QED
    BY <2>1, <2>2 DEF AInv, EntryIsOwn, EntriesAgree, HandleIsOwn, ChangeAgrees, CloseIsOwn,
                      CounterAgrees, HasId, Age, IdReusedOnlyAfterWrap, MissOnlyInRace, StrandFree
<1>4. CASE Running /\ CloseConnection
  BY <1>4, CloseConnectionKeepsInv
<1>5. CASE Running /\ FinishErase
  BY <1>5, FinishEraseKeepsInv
<1>6. CASE Running /\ \E c \in Conns : HandleConnectionClose(c)
  BY <1>6, ConnectionCloseKeepsInv
<1>7. CASE Running /\ \E c \in Conns : HandleNewRequest(c)
  BY <1>7, NewRequestKeepsInv
<1>8. CASE UNCHANGED acvars
  BY <1>8 DEF acvars, mapVars, acceptVars, connVars, AInv, ATypeOK, EntryIsOwn, EntriesAgree,
              HandleIsOwn, ChangeAgrees, CloseIsOwn, CounterAgrees, HasId, Age, IdReusedOnlyAfterWrap,
              MissOnlyInRace, StrandFree
<1> QED  BY <1>1, <1>2, <1>3, <1>4, <1>5, <1>6, <1>7, <1>8 DEF AcceptorStep

(* The invariant of the acceptor holds in every reachable state. *)
THEOREM AInvariance == ASpec => []AInv
<1> QED  BY AInitInv, AStepInv, PTL DEF ASpec

(* Every variable keeps its type: ids stay in range, round the counter. *)
THEOREM AcceptorTypes == ASpec => []ATypeOK
<1>1. AInv => ATypeOK
  BY DEF AInv
<1> QED  BY <1>1, AInvariance, PTL

(* A connection is the entry under its id until it is given back, or until an
   empty entry takes its place in a race. *)
THEOREM KeepsEntries == ASpec => []EntryIsOwn
<1>1. AInv => EntryIsOwn
  BY DEF AInv
<1> QED  BY <1>1, AInvariance, PTL

(* No handle refers to another connection than the one its request is of. *)
THEOREM HandlesRefer == ASpec => []HandleIsOwn
<1>1. AInv => HandleIsOwn
  BY DEF AInv
<1> QED  BY <1>1, AInvariance, PTL

(* Every queued close is the only one of a connection that closed. *)
THEOREM ClosesItsOwn == ASpec => []CloseIsOwn
<1>1. AInv => CloseIsOwn
  BY DEF AInv
<1> QED  BY <1>1, AInvariance, PTL

(* The id assertion fails only after a whole round of the counter. *)
THEOREM CollidesOnlyAfterWrap == ASpec => []IdReusedOnlyAfterWrap
<1>1. AInv => IdReusedOnlyAfterWrap
  BY DEF AInv
<1> QED  BY <1>1, AInvariance, PTL

(* The callbacks' assertions fail only in a race with another entry. *)
THEOREM MissesOnlyInRace == ASpec => []MissOnlyInRace
<1>1. AInv => MissOnlyInRace
  BY DEF AInv
<1> QED  BY <1>1, AInvariance, PTL

=============================================================================
