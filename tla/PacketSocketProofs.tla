------------------------- MODULE PacketSocketProofs -------------------------
(***************************************************************************)
(* What PacketSocket reads, for every stream of packets the web server may *)
(* send and every way its bytes may be cut: the read loop never takes      *)
(* anything but a header for one, and passes the packets on in order.      *)
(* And what it writes, for buffers of every length: the records of a reply *)
(* are the reply.  The two have an invariant each.                         *)
(***************************************************************************)
EXTENDS PacketSocket, InductionFacts, SequenceTheorems

(* Where the bytes that may arrive end. *)
StreamEnd == StartOf(stream, Len(stream) + 1)

(* The loop is at the start of packet k: of the packets before it, those of
   our version were passed on, and no other. *)
AtPacket(k) ==
    /\ consumed = StartOf(stream, k)
    /\ \A j \in DOMAIN delivered : delivered[j] < k
    /\ \A i \in 1 .. (k - 1) : stream[i].ok => Contains(delivered, i)

(* Unless what is in the buffer is used up: then the loop finds no header. *)
LoopAgrees == reading = "loop" => consumed = received \/ \E k \in DOMAIN stream : AtPacket(k)

(* Before the one read nothing was taken from the buffer. *)
ReadOnce ==
    reading \in {"unstarted", "armed"} =>
        delivered = <<>> /\ (state = "OPEN" => received = 0)

PInv ==
    /\ PTypeOK
    /\ arrived <= StreamEnd
    /\ flushPosted => state = "CLOSED"
    /\ ReadOnce
    /\ LoopAgrees
    /\ DeliveredInOrder

-----------------------------------------------------------------------------
(* The packets of a stream follow each other, each with room for a header. *)
LEMMA StreamFacts ==
    ASSUME NEW packets \in Streams
    PROVE  /\ Len(packets) \in Nat /\ DOMAIN packets = 1 .. Len(packets)
           /\ \A i \in 1 .. Len(packets) : packets[i] \in Packets
           /\ \A i \in 1 .. (Len(packets) + 1) : StartOf(packets, i) \in Nat
           /\ StartOf(packets, 1) = 0
           /\ \A i \in 1 .. Len(packets) :
                  /\ packets[i].end = StartOf(packets, i + 1)
                  /\ packets[i].end \in Nat
                  /\ StartOf(packets, i) + HeaderLen <= packets[i].end
<1>1. packets \in Seq(Packets)
  BY PacketAssumption
<1>2. Len(packets) \in Nat /\ DOMAIN packets = 1 .. Len(packets)
  BY <1>1, LenProperties
<1>3. \A i \in 1 .. Len(packets) : packets[i] \in Packets
  BY <1>1, ElementOfSeq
<1>4. \A i \in 1 .. Len(packets) : packets[i].end \in Nat /\ packets[i].pad \in Nat
  BY <1>3 DEF Packets
<1>5. StartOf(packets, 1) = 0
  BY DEF StartOf
<1>6. \A i \in 1 .. Len(packets) : packets[i].end = StartOf(packets, i + 1)
  BY <1>2 DEF StartOf
<1>7. \A i \in 1 .. (Len(packets) + 1) : StartOf(packets, i) \in Nat
  BY <1>2, <1>4 DEF StartOf
<1>8. \A i \in 1 .. Len(packets) : StartOf(packets, i) + HeaderLen + packets[i].pad <= packets[i].end
  BY <1>2, PacketAssumption
<1>9. HeaderLen \in Nat
  BY PacketAssumption
<1>10. ASSUME NEW i \in 1 .. Len(packets)
       PROVE  StartOf(packets, i) + HeaderLen <= packets[i].end
  <2>1. StartOf(packets, i) \in Nat
    BY <1>2, <1>7
  <2> QED
    BY <1>4, <1>8, <1>9, <2>1
<1> QED
  BY <1>2, <1>3, <1>4, <1>5, <1>6, <1>7, <1>10

(* A later packet starts at least a header behind an earlier one. *)
LEMMA StartsGrow ==
    ASSUME NEW packets \in Streams
    PROVE  \A i, j \in 1 .. (Len(packets) + 1) :
               i < j => StartOf(packets, i) + HeaderLen <= StartOf(packets, j)
<1> DEFINE L == Len(packets)
           Start(i) == StartOf(packets, i)
           Far == {n \in Nat : \A i \in 1 .. L : i + n + 1 <= L + 1 => Start(i) + HeaderLen <= Start(i + n + 1)}
<1>1. /\ L \in Nat
      /\ \A i \in 1 .. (L + 1) : Start(i) \in Nat
      /\ \A i \in 1 .. L : Start(i) + HeaderLen <= Start(i + 1)
  BY StreamFacts
<1>2. HeaderLen \in Nat
  BY PacketAssumption
<1> HIDE DEF L, Start
<1>3. 0 \in Far
  BY <1>1
<1>4. ASSUME NEW n \in Nat, n \in Far
      PROVE  n + 1 \in Far
  <2> SUFFICES ASSUME NEW i \in 1 .. L, i + (n + 1) + 1 <= L + 1
               PROVE  Start(i) + HeaderLen <= Start(i + (n + 1) + 1)
    OBVIOUS
  <2>1. i + n + 1 \in 1 .. L /\ i + n + 1 <= L + 1 /\ (i + n + 1) + 1 = i + (n + 1) + 1
    BY <1>1
  <2>2. Start(i) + HeaderLen <= Start(i + n + 1)
    BY <1>4, <2>1
  <2>3. Start(i + n + 1) + HeaderLen <= Start(i + (n + 1) + 1)
    BY <1>1, <2>1
  <2>4. Start(i) \in Nat /\ Start(i + n + 1) \in Nat /\ Start(i + (n + 1) + 1) \in Nat
    BY <1>1, <2>1
  <2> QED
    BY <1>2, <2>2, <2>3, <2>4
<1> HIDE DEF Far
<1>5. \A n \in Nat : n \in Far
  BY <1>3, <1>4, SetInduction
<1>6. ASSUME NEW i \in 1 .. (L + 1), NEW j \in 1 .. (L + 1), i < j
      PROVE  Start(i) + HeaderLen <= Start(j)
  <2>1. j - i - 1 \in Nat /\ i \in 1 .. L /\ i + (j - i - 1) + 1 = j /\ j <= L + 1
    BY <1>1, <1>6
  <2>2. j - i - 1 \in Far
    BY <1>5, <2>1
  <2> QED
    BY <2>1, <2>2 DEF Far
<1> QED
  BY <1>6 DEF L, Start

(* Nothing is read behind the last packet, and no two packets start at one
   place. *)
LEMMA StartsDiffer ==
    ASSUME NEW packets \in Streams,
           NEW i \in 1 .. (Len(packets) + 1), NEW j \in 1 .. (Len(packets) + 1),
           StartOf(packets, i) = StartOf(packets, j)
    PROVE  i = j
<1>1. HeaderLen \in Nat \ {0}
  BY PacketAssumption
<1>2. StartOf(packets, i) \in Nat /\ i \in Nat /\ j \in Nat
  BY StreamFacts
<1>3. ~(i < j) /\ ~(j < i)
  BY <1>1, <1>2, StartsGrow
<1> QED
  BY <1>2, <1>3

-----------------------------------------------------------------------------
(* The state in numbers. *)
LEMMA Known ==
    ASSUME PTypeOK
    PROVE  /\ stream \in Streams /\ Len(stream) \in Nat /\ DOMAIN stream = 1 .. Len(stream)
           /\ arrived \in Nat /\ received \in Nat /\ consumed \in Nat
           /\ consumed <= received /\ received <= arrived
           /\ StreamEnd \in Nat
           /\ delivered \in Seq(DOMAIN stream)
           /\ Len(delivered) \in Nat /\ DOMAIN delivered = 1 .. Len(delivered)
           /\ \A j \in 1 .. Len(delivered) : delivered[j] \in 1 .. Len(stream)
<1>1. stream \in Streams /\ delivered \in Seq(DOMAIN stream)
  BY DEF PTypeOK
<1>2. /\ Len(stream) \in Nat /\ DOMAIN stream = 1 .. Len(stream)
      /\ \A i \in 1 .. (Len(stream) + 1) : StartOf(stream, i) \in Nat
  BY <1>1, StreamFacts
<1>3. StreamEnd \in Nat
  BY <1>2 DEF StreamEnd
<1>4. arrived \in Nat /\ received \in Nat /\ consumed \in Nat /\ consumed <= received /\ received <= arrived
  BY DEF PTypeOK
<1>5. Len(delivered) \in Nat /\ DOMAIN delivered = 1 .. Len(delivered)
  BY <1>1, LenProperties
<1>6. \A j \in 1 .. Len(delivered) : delivered[j] \in 1 .. Len(stream)
  BY <1>1, <1>2, ElementOfSeq
<1> QED
  BY <1>1, <1>2, <1>3, <1>4, <1>5, <1>6

(* What was passed on whole stays so when more is read. *)
LEMMA OrderKept ==
    ASSUME PTypeOK, DeliveredInOrder, UNCHANGED <<stream, delivered>>,
           received' \in Nat, received <= received'
    PROVE  DeliveredInOrder'
<1>1. \A k \in DOMAIN delivered : Whole(delivered[k])'
  <2> SUFFICES ASSUME NEW k \in DOMAIN delivered
               PROVE  stream[delivered[k]].end <= received'
    BY DEF Whole
  <2>1. stream[delivered[k]].end \in Nat
    BY Known, StreamFacts
  <2>2. stream[delivered[k]].end <= received
    BY DEF DeliveredInOrder, Whole
  <2> QED
    BY <2>1, <2>2, Known
<1> QED
  BY <1>1 DEF DeliveredInOrder, Contains

(* A step that does not read. *)
LEMMA ReadKept ==
    ASSUME PInv, PTypeOK', arrived' <= StreamEnd, flushPosted' => state' = "CLOSED",
           state' = "OPEN" => state = "OPEN",
           UNCHANGED <<stream, received, consumed, delivered>>,
           reading' = reading \/ (reading = "unstarted" /\ reading' = "armed") \/ reading' = "done"
    PROVE  PInv'
<1> USE DEF PInv
<1>1. arrived' <= StreamEnd'
  BY DEF StreamEnd
<1>2. ReadOnce'
  BY DEF ReadOnce
<1>3. LoopAgrees'
  <2>1. reading' = "loop" => reading = "loop"
    OBVIOUS
  <2>2. \A k \in DOMAIN stream : AtPacket(k) => AtPacket(k)'
    BY DEF AtPacket, Contains
  <2> QED
    BY <2>1, <2>2 DEF LoopAgrees
<1>4. DeliveredInOrder'
  BY OrderKept, Known
<1> QED
  BY <1>1, <1>2, <1>3, <1>4

(* The loop at a header is at the packet the header is of. *)
LEMMA AtHeader ==
    ASSUME PInv, NEW i \in DOMAIN stream, HeaderOf(i)
    PROVE  AtPacket(i)
<1> USE DEF PInv
<1>1. reading = "loop" /\ consumed = StartOf(stream, i) /\ received - consumed >= HeaderLen
  BY DEF HeaderOf, Buffered
<1>2. consumed # received
  BY <1>1, Known, PacketAssumption
<1>3. PICK k \in DOMAIN stream : AtPacket(k)
  BY <1>1, <1>2 DEF LoopAgrees
<1>4. i \in 1 .. (Len(stream) + 1) /\ k \in 1 .. (Len(stream) + 1)
  BY Known
<1>5. StartOf(stream, i) = StartOf(stream, k) /\ stream \in Streams
  BY <1>1, <1>3, Known DEF AtPacket
<1>6. i = k
  BY <1>4, <1>5, StartsDiffer
<1> QED
  BY <1>3, <1>6

(* Past a whole packet the loop is at the next one, or has used up all that
   can have arrived. *)
LEMMA NextPacket ==
    ASSUME PInv, NEW i \in DOMAIN stream, Whole(i), consumed' = stream[i].end,
           UNCHANGED <<stream, received>>,
           \A j \in DOMAIN delivered' : delivered'[j] < i + 1,
           \A p \in 1 .. i : stream[p].ok => Contains(delivered', p)
    PROVE  consumed' = received' \/ \E k \in DOMAIN stream' : AtPacket(k)'
<1> USE DEF PInv
<1>1. i \in 1 .. Len(stream) /\ Len(stream) \in Nat /\ DOMAIN stream = 1 .. Len(stream)
  BY Known
<1>2. stream[i].end = StartOf(stream, i + 1) /\ stream[i].end \in Nat
  BY <1>1, Known, StreamFacts
<1>3. CASE i = Len(stream)
  <2>1. stream[i].end = StreamEnd
    BY <1>2, <1>3 DEF StreamEnd
  <2>2. received <= stream[i].end /\ stream[i].end <= received
    BY <2>1, Known DEF Whole
  <2> QED
    BY <1>2, <2>2, Known
<1>4. CASE i # Len(stream)
  <2>1. i + 1 \in DOMAIN stream /\ (i + 1) - 1 = i
    BY <1>1, <1>4
  <2>2. AtPacket(i + 1)'
    BY <1>2, <2>1 DEF AtPacket
  <2> QED
    BY <2>1, <2>2
<1> QED
  BY <1>3, <1>4

-----------------------------------------------------------------------------
LEMMA InitPInv == PInit => PInv
<1> SUFFICES ASSUME PInit PROVE PInv
  OBVIOUS
<1> USE DEF PInit
<1>1. delivered \in Seq(DOMAIN stream) /\ DOMAIN delivered = {}
  BY EmptySeq
<1>2. PTypeOK
  <2>1. flushPosted \in BOOLEAN
    OBVIOUS
  <2>2. promised \in [Replies -> Answers \union {Unanswered}]
    OBVIOUS
  <2> QED
    BY <1>1, <2>1, <2>2 DEF PTypeOK
<1>3. arrived <= StreamEnd
  BY <1>2, Known
<1>4. ReadOnce /\ LoopAgrees /\ DeliveredInOrder
  BY <1>1 DEF ReadOnce, LoopAgrees, DeliveredInOrder
<1> QED
  BY <1>2, <1>3, <1>4 DEF PInv

(* Writing may close the socket; it reads nothing. *)
LEMMA WritesKeep ==
    ASSUME PTypeOK, flushPosted => state = "CLOSED",
           UNCHANGED <<state, flushPosted>> \/ Close
    PROVE  /\ state' \in {"OPEN", "CLOSED"} /\ flushPosted' \in BOOLEAN
           /\ flushPosted' => state' = "CLOSED"
           /\ state' = "OPEN" => state = "OPEN"
<1>1. CASE UNCHANGED <<state, flushPosted>>
  BY <1>1 DEF PTypeOK
<1>2. CASE Close
  <2>1. state' = "CLOSED"
    BY <1>2 DEF Close
  <2>2. flushPosted' \in BOOLEAN
    BY <1>2 DEF Close
  <2> QED
    BY <2>1, <2>2
<1> QED
  BY <1>1, <1>2

LEMMA SendKeepsPInv ==
    ASSUME PInv, NEW r \in Replies, SendReply(r)
    PROVE  PInv'
<1> USE DEF PInv
<1>1. PICK answer \in Answers : promised' = [promised EXCEPT ![r] = answer]
  BY DEF SendReply
<1>2. UNCHANGED <<stream, received, consumed, reading, delivered, arrived, peer>>
  BY DEF SendReply, readVars
<1>3. UNCHANGED <<state, flushPosted>> \/ Close
  BY DEF SendReply, WriteFails
<1>4. /\ state' \in {"OPEN", "CLOSED"} /\ flushPosted' \in BOOLEAN
      /\ flushPosted' => state' = "CLOSED"
      /\ state' = "OPEN" => state = "OPEN"
  BY <1>3, WritesKeep
<1>5. PTypeOK'
  <2>1. promised' \in [Replies -> Answers \union {Unanswered}]
    BY <1>1 DEF PTypeOK
  <2> QED
    BY <1>2, <1>4, <2>1 DEF PTypeOK
<1> QED
  BY <1>2, <1>4, <1>5, ReadKept

LEMMA HandleReadKeepsPInv ==
    ASSUME PInv, HandleRead
    PROVE  PInv'
<1> USE DEF PInv
<1>1. /\ reading = "armed"
      /\ UNCHANGED <<stream, consumed, delivered, arrived, peer, promised, wire>>
  BY DEF HandleRead
<1>2. CASE /\ state = "OPEN" /\ arrived > 0
           /\ received' \in 1 .. (IF arrived < BufferSize THEN arrived ELSE BufferSize)
           /\ reading' = "loop"
           /\ UNCHANGED <<state, flushPosted>>
  <2>1. delivered = <<>> /\ consumed = 0 /\ received = 0
    BY <1>1, <1>2, Known DEF ReadOnce
  <2>2. received' \in 0 .. arrived
    BY <1>2, Known, PacketAssumption
  <2>3. PTypeOK'
    <3>1. consumed' \in 0 .. received'
      BY <1>1, <2>1, <2>2, Known
    <3> QED
      BY <1>1, <1>2, <2>2, <3>1 DEF PTypeOK
  <2>4. DOMAIN delivered = {}
    BY <2>1, EmptySeq
  <2>5. Len(stream) # 0
    BY <1>2, Known, StreamFacts DEF StreamEnd
  <2>6. 1 \in DOMAIN stream
    BY <2>5, Known
  <2>7. AtPacket(1)'
    BY <1>1, <2>1, <2>4, Known, StreamFacts DEF AtPacket
  <2>8. LoopAgrees'
    BY <1>1, <2>6, <2>7 DEF LoopAgrees
  <2>9. ReadOnce' /\ DeliveredInOrder'
    BY <1>1, <1>2, <2>4 DEF ReadOnce, DeliveredInOrder
  <2> QED
    BY <1>1, <1>2, <2>3, <2>8, <2>9 DEF StreamEnd
<1>3. CASE ~(arrived > 0 /\ reading' = "loop")
  <2>1. /\ reading' = "done" /\ received' = received
        /\ UNCHANGED <<state, flushPosted>> \/ Close
    BY <1>3 DEF HandleRead
  <2>2. /\ state' \in {"OPEN", "CLOSED"} /\ flushPosted' \in BOOLEAN
        /\ flushPosted' => state' = "CLOSED"
        /\ state' = "OPEN" => state = "OPEN"
    BY <2>1, WritesKeep
  <2>3. PTypeOK'
    BY <1>1, <2>1, <2>2 DEF PTypeOK
  <2> QED
    BY <1>1, <2>1, <2>2, <2>3, ReadKept
<1> QED
  BY <1>2, <1>3 DEF HandleRead

(* What is left of the stream is skipped, but nothing is read any more. *)
LEMMA FlushKeepsPInv ==
    ASSUME PInv, FlushProtocolSocket
    PROVE  PInv'
<1> USE DEF PInv
<1>1. /\ reading # "loop" /\ state = "CLOSED" /\ flushPosted' = FALSE
      /\ received' = arrived /\ consumed' = arrived
      /\ UNCHANGED <<stream, reading, delivered, arrived, state, peer, promised, wire>>
  BY DEF FlushProtocolSocket
<1>2. PTypeOK'
  <2>1. received' \in 0 .. arrived /\ consumed' \in 0 .. received'
    BY <1>1, Known
  <2>2. flushPosted' \in BOOLEAN
    BY <1>1
  <2> QED
    BY <1>1, <2>1, <2>2 DEF PTypeOK
<1>3. DeliveredInOrder'
  BY <1>1, Known, OrderKept
<1>4. ReadOnce' /\ LoopAgrees'
  BY <1>1 DEF ReadOnce, LoopAgrees
<1> QED
  BY <1>1, <1>2, <1>3, <1>4 DEF StreamEnd

(* A packet of another version is skipped, with what is there of it. *)
LEMMA RejectKeepsPInv ==
    ASSUME PInv, NEW i \in DOMAIN stream, RejectVersion(i)
    PROVE  PInv'
<1> USE DEF PInv
<1>1. /\ HeaderOf(i) /\ ~stream[i].ok /\ Consume(i)
      /\ UNCHANGED <<stream, received, reading, delivered, arrived, state, flushPosted, peer,
                      promised, wire>>
  BY DEF RejectVersion
<1>2. AtPacket(i) /\ i \in 1 .. Len(stream) /\ stream[i].end \in Nat
  BY <1>1, AtHeader, Known, StreamFacts
<1>3. PTypeOK'
  <2>1. consumed' \in 0 .. received
    BY <1>1, <1>2, Known DEF Consume, Whole
  <2> QED
    BY <1>1, <2>1 DEF PTypeOK
<1>4. LoopAgrees'
  <2>1. CASE Whole(i)
    <3>1. consumed' = stream[i].end
      BY <1>1, <2>1 DEF Consume
    <3>2. \A j \in DOMAIN delivered' : delivered'[j] < i + 1
      BY <1>1, <1>2, Known DEF AtPacket
    <3>3. \A p \in 1 .. i : stream[p].ok => Contains(delivered', p)
      <4>1. \A p \in 1 .. i : p = i \/ p \in 1 .. (i - 1)
        BY <1>2
      <4> QED
        BY <1>1, <1>2, <4>1 DEF AtPacket
    <3> QED
      BY <1>1, <2>1, <3>1, <3>2, <3>3, NextPacket DEF LoopAgrees
  <2>2. CASE ~Whole(i)
    BY <1>1, <2>2 DEF Consume, LoopAgrees
  <2> QED
    BY <2>1, <2>2
<1>5. DeliveredInOrder'
  BY <1>1, Known, OrderKept
<1>6. ReadOnce'
  BY <1>1 DEF ReadOnce, HeaderOf
<1> QED
  BY <1>1, <1>3, <1>4, <1>5, <1>6 DEF StreamEnd

(* A packet is passed on behind those before it, and consumed whole. *)
LEMMA DeliverKeepsPInv ==
    ASSUME PInv, NEW i \in DOMAIN stream, DeliverPacket(i)
    PROVE  PInv'
<1> USE DEF PInv
<1>1. /\ HeaderOf(i) /\ stream[i].ok /\ Whole(i)
      /\ delivered' = Append(delivered, i)
      /\ consumed' = stream[i].end
      /\ UNCHANGED <<stream, received, arrived, peer, promised>>
  BY DEF DeliverPacket, Deliverable, Consume
<1>2. reading = "loop" /\ reading' \in {"loop", "done"}
  BY <1>1 DEF DeliverPacket, HandleData, HandleControl, HandleAbort, HeaderOf
<1>3. UNCHANGED <<state, flushPosted>> \/ Close
  BY DEF DeliverPacket, HandleData, HandleControl, HandleAbort, WriteFails
<1>4. /\ state' \in {"OPEN", "CLOSED"} /\ flushPosted' \in BOOLEAN
      /\ flushPosted' => state' = "CLOSED"
  BY <1>3, WritesKeep
<1>5. AtPacket(i) /\ i \in 1 .. Len(stream) /\ stream[i].end \in Nat
  BY <1>1, AtHeader, Known, StreamFacts
<1>6. /\ delivered' \in Seq(DOMAIN stream)
      /\ Len(delivered') = Len(delivered) + 1
      /\ DOMAIN delivered' = 1 .. (Len(delivered) + 1)
      /\ \A j \in 1 .. Len(delivered) : delivered'[j] = delivered[j]
      /\ delivered'[Len(delivered) + 1] = i
  <2>1. delivered' \in Seq(DOMAIN stream) /\ Len(delivered') = Len(delivered) + 1
    BY <1>1, Known, AppendProperties
  <2>2. DOMAIN delivered' = 1 .. (Len(delivered) + 1)
    BY <2>1, LenProperties
  <2> QED
    BY <1>1, <2>1, <2>2, Known, AppendProperties
<1>7. \A p : Contains(delivered, p) => Contains(delivered', p)
  BY <1>6, Known DEF Contains
<1>8. Contains(delivered', i)
  BY <1>6, Known DEF Contains
<1>9. \A j \in 1 .. Len(delivered) : delivered[j] < i
  BY <1>5, Known DEF AtPacket
<1>10. \A p \in 1 .. i : stream[p].ok => Contains(delivered', p)
  <2>1. \A p \in 1 .. i : p = i \/ p \in 1 .. (i - 1)
    BY <1>5
  <2> QED
    BY <1>5, <1>7, <1>8, <2>1 DEF AtPacket
<1>11. PTypeOK'
  <2>1. consumed' \in 0 .. received
    BY <1>1, <1>5, Known DEF Whole
  <2> QED
    BY <1>1, <1>2, <1>4, <1>6, <2>1 DEF PTypeOK
<1>12. LoopAgrees'
  <2>1. \A j \in DOMAIN delivered' : delivered'[j] < i + 1
    <3>1. \A j \in DOMAIN delivered' : j \in 1 .. Len(delivered) \/ j = Len(delivered) + 1
      BY <1>6, Known
    <3>2. \A j \in 1 .. Len(delivered) : delivered[j] \in Nat
      BY Known
    <3> QED
      BY <1>5, <1>6, <1>9, <3>1, <3>2
  <2> QED
    BY <1>1, <1>10, <2>1, NextPacket DEF LoopAgrees
<1>13. DeliveredInOrder'
  <2>1. \A j \in DOMAIN delivered' : j \in 1 .. Len(delivered) \/ j = Len(delivered) + 1
    BY <1>6, Known
  <2>2. ASSUME NEW j \in DOMAIN delivered', NEW k \in DOMAIN delivered', j < k
        PROVE  delivered'[j] < delivered'[k]
    <3>1. j \in 1 .. Len(delivered)
      BY <1>6, <2>2, Known
    <3>2. CASE k \in 1 .. Len(delivered)
      BY <1>6, <2>2, <3>1, <3>2, Known DEF DeliveredInOrder
    <3>3. CASE k = Len(delivered) + 1
      BY <1>6, <1>9, <3>1, <3>3
    <3> QED
      BY <2>1, <3>2, <3>3
  <2>3. ASSUME NEW k \in DOMAIN delivered'
        PROVE  /\ stream[delivered'[k]].ok /\ stream[delivered'[k]].end <= received
               /\ \A p \in 1 .. delivered'[k] : stream[p].ok => Contains(delivered', p)
    <3>1. CASE k \in 1 .. Len(delivered)
      <4>1. delivered'[k] = delivered[k]
        BY <1>6, <3>1
      <4>2. /\ stream[delivered[k]].ok /\ Whole(delivered[k])
            /\ \A p \in 1 .. delivered[k] : stream[p].ok => Contains(delivered, p)
        BY <3>1, Known DEF DeliveredInOrder
      <4> QED
        BY <1>1, <1>7, <4>1, <4>2 DEF Whole
    <3>2. CASE k = Len(delivered) + 1
      BY <1>1, <1>6, <1>10, <3>2 DEF Whole
    <3> QED
      BY <2>1, <3>1, <3>2
  <2> QED
    BY <1>1, <2>2, <2>3 DEF DeliveredInOrder, Whole
<1>14. ReadOnce'
  BY <1>2 DEF ReadOnce
<1> QED
  BY <1>1, <1>4, <1>11, <1>12, <1>13, <1>14 DEF StreamEnd

LEMMA StepKeepsPInv == PInv /\ [PNext]_pvars => PInv'
<1> SUFFICES ASSUME PInv, [PNext]_pvars PROVE PInv'
  OBVIOUS
<1> USE DEF PInv
<1>1. CASE UNCHANGED pvars
  <2>1. PTypeOK'
    BY <1>1 DEF pvars, readVars, PTypeOK
  <2> QED
    BY <1>1, <2>1, ReadKept DEF pvars, readVars
<1>2. CASE StartRead
  <2>1. PTypeOK'
    BY <1>2 DEF StartRead, PTypeOK
  <2> QED
    BY <1>2, <2>1, ReadKept DEF StartRead
<1>3. CASE HandleRead
  BY <1>3, HandleReadKeepsPInv
<1>4. CASE LoopEnd
  <2>1. PTypeOK'
    BY <1>4 DEF LoopEnd, PTypeOK
  <2> QED
    BY <1>4, <2>1, ReadKept DEF LoopEnd
<1>5. CASE \E i \in DOMAIN stream : RejectVersion(i) \/ DeliverPacket(i)
  BY <1>5, RejectKeepsPInv, DeliverKeepsPInv
<1>6. CASE FlushProtocolSocket
  BY <1>6, FlushKeepsPInv
<1>7. CASE \E r \in Replies : SendReply(r)
  BY <1>7, SendKeepsPInv
<1>8. CASE BytesArrive
  <2>1. /\ UNCHANGED <<stream, received, consumed, reading, delivered, state, flushPosted, peer, promised>>
        /\ arrived' \in 1 .. StreamEnd /\ arrived' > arrived
    BY <1>8 DEF BytesArrive, readVars, StreamEnd
  <2>2. PTypeOK'
    <3>1. received \in 0 .. arrived'
      BY <2>1, Known
    <3> QED
      BY <2>1, <3>1 DEF PTypeOK
  <2>3. arrived' <= StreamEnd
    BY <2>1, Known
  <2> QED
    BY <2>1, <2>2, <2>3, ReadKept
<1>9. CASE PeerDisconnects
  <2>1. PTypeOK'
    BY <1>9 DEF PeerDisconnects, readVars, PTypeOK
  <2> QED
    BY <1>9, <2>1, ReadKept DEF PeerDisconnects, readVars
<1> QED
  BY <1>1, <1>2, <1>3, <1>4, <1>5, <1>6, <1>7, <1>8, <1>9 DEF PNext, LoopStep

-----------------------------------------------------------------------------
(* The invariant holds whatever arrives, and however it is cut. *)
THEOREM PacketInvariance == PSpec => []PInv
<1> QED
  BY InitPInv, StepKeepsPInv, PTL DEF PSpec

(* No more is taken from the buffer than was read, nor read than arrived. *)
THEOREM PacketTypes == PSpec => []PTypeOK
<1>1. PInv => PTypeOK
  BY DEF PInv
<1> QED
  BY <1>1, PacketInvariance, PTL

(* handleRead passes on every packet of our version it comes to, whole, once
   and in order. *)
THEOREM DeliversInOrder == PSpec => []DeliveredInOrder
<1>1. PInv => DeliveredInOrder
  BY DEF PInv
<1> QED
  BY <1>1, PacketInvariance, PTL

(* What handleRead takes for a header is the header of a packet. *)
THEOREM AlignsHeaders == PSpec => []HeadersAligned
<1>1. PInv => HeadersAligned
  <2> SUFFICES ASSUME PInv, reading = "loop", Buffered >= HeaderLen
               PROVE  \E i \in DOMAIN stream : consumed = StartOf(stream, i)
    BY DEF HeadersAligned
  <2>1. consumed # received
    BY Known, PacketAssumption DEF PInv, Buffered
  <2> QED
    BY <2>1 DEF PInv, LoopAgrees, AtPacket
<1> QED
  BY <1>1, PacketInvariance, PTL

-----------------------------------------------------------------------------
(* Writing: the recursive functions of the model first. *)

(* Whether f holds what was seen of the records, one after the other. *)
Watches(f, records, r) ==
    /\ f[0] = EmptyView
    /\ \A n \in 1 .. Len(records) : f[n] = Seen(f[n - 1], records[n], r)

(* The recursive function of View is one that watches the records. *)
LEMMA ViewWatches ==
    ASSUME NEW records, Len(records) \in Nat, NEW r
    PROVE  \E f : View(records, r) = f[Len(records)] /\ Watches(f, records, r)
<1> DEFINE Holds(f, m) ==
               f = [n \in 0 .. m |-> IF n = 0 THEN EmptyView ELSE Seen(f[n - 1], records[n], r)]
           Reached == {m \in Nat : \E f : Holds(f, m)}
           views == CHOOSE f : Holds(f, Len(records))
<1>1. View(records, r) = views[Len(records)]
  BY DEF View
<1>2. 0 \in Reached
  <2>1. Holds([n \in 0 .. 0 |-> EmptyView], 0)
    OBVIOUS
  <2> QED
    BY <2>1
<1>3. ASSUME NEW m \in Nat, m \in Reached PROVE m + 1 \in Reached
  <2>1. PICK f : Holds(f, m)
    BY <1>3
  <2> DEFINE h == [n \in 0 .. (m + 1) |->
                      IF n <= m THEN f[n] ELSE Seen(f[m], records[n], r)]
  <2>2. ASSUME NEW n \in 0 .. (m + 1)
        PROVE  h[n] = IF n = 0 THEN EmptyView ELSE Seen(h[n - 1], records[n], r)
    <3>1. CASE n = 0
      BY <2>1, <3>1
    <3>2. CASE n # 0 /\ n <= m
      BY <2>1, <3>2
    <3>3. CASE n = m + 1
      BY <3>3
    <3> QED
      BY <3>1, <3>2, <3>3
  <2>3. h = [n \in 0 .. (m + 1) |-> h[n]]
    OBVIOUS
  <2>4. Holds(h, m + 1)
    <3> HIDE DEF h
    <3> QED
      BY <2>2, <2>3
  <2>5. \E g : Holds(g, m + 1)
    <3> HIDE DEF h, Holds
    <3> QED
      BY <2>4
  <2> QED
    BY <2>5
<1>4. Len(records) \in Reached
  <2> HIDE DEF Reached
  <2> QED
    BY <1>2, <1>3, SetInduction
<1>5. Holds(views, Len(records))
  <2> HIDE DEF Holds
  <2>1. \E f : Holds(f, Len(records))
    BY <1>4
  <2> QED
    BY <2>1
<1> HIDE DEF views
<1>6. views[0] = EmptyView
  BY <1>5
<1>7. \A n \in 1 .. Len(records) : views[n] = Seen(views[n - 1], records[n], r)
  BY <1>5
<1> QED
  BY <1>1, <1>6, <1>7 DEF Watches

(* What was seen after m records depends on those m records only. *)
LEMMA WatchesAgree ==
    ASSUME NEW f, NEW g, NEW s, NEW t, NEW r, NEW m \in Nat,
           Len(s) \in Nat, Len(t) \in Nat, m <= Len(s), m <= Len(t),
           Watches(f, s, r), Watches(g, t, r),
           \A i \in 1 .. m : s[i] = t[i]
    PROVE  f[m] = g[m]
<1> DEFINE Same == {n \in Nat : n <= m => f[n] = g[n]}
<1>1. 0 \in Same
  BY DEF Watches
<1>2. ASSUME NEW n \in Nat, n \in Same PROVE n + 1 \in Same
  <2>1. CASE n + 1 <= m
    <3>1. n + 1 \in 1 .. Len(s) /\ n + 1 \in 1 .. Len(t) /\ n + 1 \in 1 .. m /\ (n + 1) - 1 = n
      BY <2>1
    <3>2. f[n + 1] = Seen(f[n], s[n + 1], r) /\ g[n + 1] = Seen(g[n], t[n + 1], r)
      BY <3>1 DEF Watches
    <3>3. f[n] = g[n]
      BY <1>2, <2>1
    <3> QED
      BY <3>1, <3>2, <3>3
  <2> QED
    BY <2>1
<1>3. m \in Same
  <2> HIDE DEF Same
  <2> QED
    BY <1>1, <1>2, SetInduction
<1> QED
  BY <1>3

(* Before any record there is nothing to see. *)
LEMMA ViewOfNothing ==
    ASSUME NEW r
    PROVE  View(<<>>, r) = EmptyView
<1>1. Len(<<>>) = 0
  BY EmptySeq
<1>2. PICK f : View(<<>>, r) = f[Len(<<>>)] /\ Watches(f, <<>>, r)
  BY <1>1, ViewWatches
<1> QED
  BY <1>1, <1>2 DEF Watches

(* One more record is seen by what was made of those before it. *)
LEMMA ViewOfNext ==
    ASSUME NEW S, NEW s \in Seq(S), NEW x \in S, NEW r
    PROVE  View(Append(s, x), r) = Seen(View(s, r), x, r)
<1> DEFINE t == Append(s, x)
<1>1. /\ Len(s) \in Nat /\ Len(t) = Len(s) + 1
      /\ \A i \in 1 .. Len(s) : s[i] = t[i]
      /\ t[Len(s) + 1] = x
  BY AppendProperties, LenProperties
<1> HIDE DEF t
<1>2. PICK f : View(s, r) = f[Len(s)] /\ Watches(f, s, r)
  BY <1>1, ViewWatches
<1>3. PICK g : View(t, r) = g[Len(t)] /\ Watches(g, t, r)
  BY <1>1, ViewWatches
<1>4. f[Len(s)] = g[Len(s)]
  BY <1>1, <1>2, <1>3, WatchesAgree
<1>5. Len(t) \in 1 .. Len(t) /\ Len(t) - 1 = Len(s)
  BY <1>1
<1>6. g[Len(t)] = Seen(g[Len(s)], x, r)
  BY <1>1, <1>3, <1>5 DEF Watches
<1> QED
  BY <1>2, <1>3, <1>4, <1>6 DEF t

-----------------------------------------------------------------------------
(* Writing t after s, one record at a time. *)
LEMMA PartFacts ==
    ASSUME NEW S, NEW s \in Seq(S), NEW t \in Seq(S)
    PROVE  /\ s \o SubSeq(t, 1, 0) = s
           /\ s \o SubSeq(t, 1, Len(t)) = s \o t
           /\ \A n \in 0 .. Len(t) : s \o SubSeq(t, 1, n) \in Seq(S)
           /\ \A n \in Nat : n + 1 <= Len(t) =>
                  s \o SubSeq(t, 1, n + 1) = Append(s \o SubSeq(t, 1, n), t[n + 1])
<1>1. Len(t) \in Nat /\ \A i \in 1 .. Len(t) : t[i] \in S
  BY LenProperties, ElementOfSeq
<1>2. \A n \in 0 .. Len(t) : SubSeq(t, 1, n) \in Seq(S)
  <2> SUFFICES ASSUME NEW n \in 0 .. Len(t) PROVE SubSeq(t, 1, n) \in Seq(S)
    OBVIOUS
  <2> QED
    BY <1>1, SubSeqProperties
<1>3. SubSeq(t, 1, 0) = <<>>
  BY SubSeqEmpty
<1>4. s \o SubSeq(t, 1, 0) = s
  BY <1>3, ConcatEmptySeq
<1>5. s \o SubSeq(t, 1, Len(t)) = s \o t
  BY SubSeqFull
<1>6. \A n \in 0 .. Len(t) : s \o SubSeq(t, 1, n) \in Seq(S)
  BY <1>2, ConcatProperties
<1>7. ASSUME NEW n \in Nat, n + 1 <= Len(t)
      PROVE  s \o SubSeq(t, 1, n + 1) = Append(s \o SubSeq(t, 1, n), t[n + 1])
  <2>1. 1 \in 1 .. Len(t) /\ n + 1 \in 1 .. Len(t) /\ n \in 0 .. Len(t) /\ (n + 1) - 1 = n
    BY <1>1, <1>7
  <2>2. SubSeq(t, 1, n + 1) = SubSeq(t, 1, n) \o <<t[n + 1]>>
    BY <2>1, SubSeqRecursiveSecond
  <2>3. SubSeq(t, 1, n) \in Seq(S) /\ t[n + 1] \in S
    BY <1>1, <1>2, <2>1
  <2>4. <<t[n + 1]>> \in Seq(S)
    BY <2>3
  <2>5. s \o (SubSeq(t, 1, n) \o <<t[n + 1]>>) = (s \o SubSeq(t, 1, n)) \o <<t[n + 1]>>
    BY <2>3, <2>4, ConcatAssociative
  <2>6. (s \o SubSeq(t, 1, n)) \o <<t[n + 1]>> = Append(s \o SubSeq(t, 1, n), t[n + 1])
    BY <1>6, <2>1, <2>3, AppendIsConcat
  <2> QED
    BY <2>2, <2>5, <2>6
<1> QED
  BY <1>4, <1>5, <1>6, <1>7

(* Records of other requests, and of types that are skipped, show nothing. *)
LEMMA OthersUnseen ==
    ASSUME NEW S, NEW s \in Seq(S), NEW t \in Seq(S), NEW r,
           \A i \in 1 .. Len(t) : t[i].id # r \/ t[i].type \notin ReplyTypes
    PROVE  \A n \in 0 .. Len(t) : View(s \o SubSeq(t, 1, n), r) = View(s, r)
<1> DEFINE Same == {n \in Nat : n <= Len(t) => View(s \o SubSeq(t, 1, n), r) = View(s, r)}
<1>1. Len(t) \in Nat
  BY LenProperties
<1>2. 0 \in Same
  BY PartFacts
<1>3. ASSUME NEW n \in Nat, n \in Same PROVE n + 1 \in Same
  <2>1. CASE n + 1 <= Len(t)
    <3>1. n + 1 \in 1 .. Len(t) /\ n \in 0 .. Len(t)
      BY <1>1, <2>1
    <3> DEFINE part == s \o SubSeq(t, 1, n)
    <3>2. s \o SubSeq(t, 1, n + 1) = Append(part, t[n + 1])
      BY <2>1, PartFacts
    <3>3. part \in Seq(S) /\ t[n + 1] \in S
      BY <3>1, PartFacts, ElementOfSeq
    <3>4. View(part, r) = View(s, r)
      BY <1>1, <1>3, <2>1
    <3> HIDE DEF part
    <3>5. View(Append(part, t[n + 1]), r) = Seen(View(part, r), t[n + 1], r)
      BY <3>3, ViewOfNext
    <3>6. Seen(View(part, r), t[n + 1], r) = View(part, r)
      BY <3>1 DEF Seen, Decode
    <3>7. View(s \o SubSeq(t, 1, n + 1), r) = View(s, r)
      BY <3>2, <3>4, <3>5, <3>6
    <3> QED
      BY <3>7
  <2> QED
    BY <2>1
<1>4. \A n \in Nat : n \in Same
  <2> HIDE DEF Same
  <2> QED
    BY <1>2, <1>3, SetInduction
<1> QED
  BY <1>1, <1>4

-----------------------------------------------------------------------------
(* The recursive function of ChunkLengths. *)
LEMMA ChunksExist ==
    ASSUME NEW length \in Nat
    PROVE  \E c : /\ ChunkLengths(length) = c[length]
                  /\ \A n \in 0 .. length :
                        c[n] = IF n <= MaxContent THEN <<n>>
                               ELSE <<MaxContent>> \o c[n - MaxContent]
<1> DEFINE Holds(f, m) ==
               f = [n \in 0 .. m |-> IF n <= MaxContent THEN <<n>>
                                     ELSE <<MaxContent>> \o f[n - MaxContent]]
           Reached == {m \in Nat : \E f : Holds(f, m)}
           chunks == CHOOSE f : Holds(f, length)
<1> USE PacketAssumption
<1>1. ChunkLengths(length) = chunks[length]
  BY DEF ChunkLengths
<1>2. 0 \in Reached
  <2>1. Holds([n \in 0 .. 0 |-> <<n>>], 0)
    OBVIOUS
  <2> QED
    BY <2>1
<1>3. ASSUME NEW m \in Nat, m \in Reached PROVE m + 1 \in Reached
  <2>1. PICK f : Holds(f, m)
    BY <1>3
  <2>2. \A n \in 0 .. m :
            f[n] = IF n <= MaxContent THEN <<n>> ELSE <<MaxContent>> \o f[n - MaxContent]
    BY ONLY <2>1
  <2> DEFINE last == IF m + 1 <= MaxContent THEN <<m + 1>>
                     ELSE <<MaxContent>> \o f[(m + 1) - MaxContent]
             h == [n \in 0 .. (m + 1) |-> IF n <= m THEN f[n] ELSE last]
  <2>3. ASSUME NEW n \in 0 .. (m + 1)
        PROVE  h[n] = IF n <= MaxContent THEN <<n>> ELSE <<MaxContent>> \o h[n - MaxContent]
    <3>1. CASE n <= m
      <4>1. n > MaxContent => n - MaxContent \in 0 .. m
        BY <3>1
      <4>2. f[n] = IF n <= MaxContent THEN <<n>> ELSE <<MaxContent>> \o f[n - MaxContent]
        BY <2>2, <3>1
      <4>3. n > MaxContent => h[n - MaxContent] = f[n - MaxContent]
        BY <4>1
      <4>4. h[n] = f[n]
        BY <3>1
      <4> HIDE DEF h
      <4> QED
        BY <4>2, <4>3, <4>4
    <3>2. CASE n = m + 1
      <4>1. n > MaxContent => n - MaxContent \in 0 .. m
        BY <3>2
      <4>2. n > MaxContent => h[n - MaxContent] = f[n - MaxContent]
        BY <4>1
      <4>3. h[n] = last
        BY <3>2
      <4> HIDE DEF h
      <4> QED
        BY <3>2, <4>2, <4>3
    <3> QED
      BY <3>1, <3>2
  <2>4. h = [n \in 0 .. (m + 1) |-> h[n]]
    OBVIOUS
  <2>5. Holds(h, m + 1)
    <3> HIDE DEF h
    <3> QED
      BY <2>3, <2>4
  <2>6. \E g : Holds(g, m + 1)
    <3> HIDE DEF h, Holds
    <3> QED
      BY <2>5
  <2> HIDE DEF h, Holds, last
  <2> QED
    BY <2>6
<1>4. length \in Reached
  <2> HIDE DEF Reached
  <2> QED
    BY <1>2, <1>3, SetInduction
<1>5. Holds(chunks, length)
  <2> HIDE DEF Holds
  <2>1. \E f : Holds(f, length)
    BY <1>4
  <2> QED
    BY <2>1
<1> HIDE DEF chunks
<1>6. \A n \in 0 .. length :
          chunks[n] = IF n <= MaxContent THEN <<n>> ELSE <<MaxContent>> \o chunks[n - MaxContent]
  BY <1>5
<1> QED
  BY <1>1, <1>6

(* The lengths in c add up to n, and are those of records. *)
Cuts(c, n) ==
    /\ c \in Seq(0 .. MaxContent) /\ Len(c) \in Nat \ {0}
    /\ n # 0 => \A i \in 1 .. Len(c) : c[i] # 0
    /\ \E sum \in [0 .. Len(c) -> Nat] :
          /\ sum[0] = 0 /\ sum[Len(c)] = n
          /\ \A i \in 1 .. Len(c) : sum[i] = sum[i - 1] + c[i]

(* Content that fits is one record. *)
LEMMA CutsOne ==
    ASSUME NEW n \in 0 .. MaxContent
    PROVE  Cuts(<<n>>, n)
<1>1. <<n>> \in Seq(0 .. MaxContent) /\ Len(<<n>>) = 1 /\ <<n>>[1] = n
  OBVIOUS
<1> DEFINE sum == [i \in 0 .. 1 |-> IF i = 0 THEN 0 ELSE n]
<1>2. /\ sum \in [0 .. 1 -> Nat] /\ sum[0] = 0 /\ sum[1] = n
      /\ \A i \in 1 .. 1 : sum[i] = sum[i - 1] + n
  BY PacketAssumption
<1> HIDE DEF sum
<1>3. \A i \in 1 .. 1 : sum[i] = sum[i - 1] + <<n>>[i]
  BY <1>2
<1>4. \E f \in [0 .. Len(<<n>>) -> Nat] :
          /\ f[0] = 0 /\ f[Len(<<n>>)] = n
          /\ \A i \in 1 .. Len(<<n>>) : f[i] = f[i - 1] + <<n>>[i]
  BY <1>1, <1>2, <1>3
<1>5. n # 0 => \A i \in 1 .. Len(<<n>>) : <<n>>[i] # 0
  OBVIOUS
<1> QED
  BY <1>1, <1>4, <1>5 DEF Cuts

(* A full record before them makes the lengths add up to that much more. *)
LEMMA CutsMore ==
    ASSUME NEW n \in Nat, n # 0, NEW c, Cuts(c, n)
    PROVE  Cuts(<<MaxContent>> \o c, n + MaxContent)
<1> DEFINE d == <<MaxContent>> \o c
<1>1. MaxContent \in Nat \ {0}
  BY PacketAssumption
<1>2. /\ c \in Seq(0 .. MaxContent) /\ Len(c) \in Nat \ {0}
      /\ \A i \in 1 .. Len(c) : c[i] # 0
  BY DEF Cuts
<1>3. PICK sum \in [0 .. Len(c) -> Nat] :
          /\ sum[0] = 0 /\ sum[Len(c)] = n
          /\ \A i \in 1 .. Len(c) : sum[i] = sum[i - 1] + c[i]
  BY DEF Cuts
<1>4. <<MaxContent>> \in Seq(0 .. MaxContent) /\ Len(<<MaxContent>>) = 1 /\ <<MaxContent>>[1] = MaxContent
  BY <1>1
<1>5. /\ d \in Seq(0 .. MaxContent)
      /\ Len(d) = 1 + Len(c)
      /\ \A i \in 1 .. 1 + Len(c) : d[i] = IF i <= 1 THEN <<MaxContent>>[i] ELSE c[i - 1]
  BY <1>2, <1>4, ConcatProperties
<1>6. d[1] = MaxContent /\ \A i \in 1 .. Len(c) : d[i + 1] = c[i]
  BY <1>2, <1>4, <1>5
<1> HIDE DEF d
<1>7. \A i \in 1 .. Len(d) : d[i] # 0
  <2> SUFFICES ASSUME NEW i \in 1 .. Len(d) PROVE d[i] # 0
    OBVIOUS
  <2>1. CASE i = 1
    BY <1>1, <1>6, <2>1
  <2>2. CASE i # 1
    <3>1. i - 1 \in 1 .. Len(c) /\ (i - 1) + 1 = i
      BY <1>2, <1>5, <2>2
    <3> QED
      BY <1>2, <1>6, <3>1
  <2> QED
    BY <2>1, <2>2
<1> DEFINE more == [i \in 0 .. Len(d) |-> IF i = 0 THEN 0 ELSE MaxContent + sum[i - 1]]
<1>8. more \in [0 .. Len(d) -> Nat] /\ more[0] = 0 /\ more[Len(d)] = n + MaxContent
  BY <1>1, <1>2, <1>3, <1>5
<1>9. \A i \in 1 .. Len(d) : more[i] = more[i - 1] + d[i]
  <2> SUFFICES ASSUME NEW i \in 1 .. Len(d) PROVE more[i] = more[i - 1] + d[i]
    OBVIOUS
  <2>1. CASE i = 1
    BY <1>1, <1>3, <1>6, <2>1
  <2>2. CASE i # 1
    <3>1. /\ i - 1 \in 1 .. Len(c) /\ (i - 1) + 1 = i
          /\ (i - 1) - 1 \in 0 .. Len(c) /\ i - 1 \in 0 .. Len(c) /\ i - 1 \in 0 .. Len(d)
      BY <1>2, <1>5, <2>2
    <3>2. c[i - 1] \in 0 .. MaxContent
      BY <1>2, <3>1, ElementOfSeq
    <3>3. d[(i - 1) + 1] = c[i - 1]
      BY <1>6, <3>1
    <3>4. d[i] = c[i - 1] /\ c[i - 1] \in Nat
      BY <1>1, <3>1, <3>2, <3>3
    <3>5. sum[i - 1] = sum[(i - 1) - 1] + c[i - 1]
      BY <1>3, <3>1
    <3>6. sum[(i - 1) - 1] \in Nat
      BY <1>3, <3>1
    <3>7. more[i] = MaxContent + sum[i - 1] /\ more[i - 1] = MaxContent + sum[(i - 1) - 1]
      BY <2>2, <3>1
    <3> HIDE DEF more
    <3> QED
      BY <1>1, <3>4, <3>5, <3>6, <3>7
  <2> QED
    BY <2>1, <2>2
<1> HIDE DEF more
<1>10. Len(d) \in Nat \ {0}
  BY <1>2, <1>5
<1>11. Cuts(d, n + MaxContent)
  BY <1>5, <1>7, <1>8, <1>9, <1>10 DEF Cuts
<1> QED
  BY <1>11 DEF d

(* writePacket's loop sends every byte, and no empty record but one for no
   content. *)
LEMMA ChunksAdd ==
    ASSUME NEW length \in Nat
    PROVE  Cuts(ChunkLengths(length), length)
<1>1. PICK c : /\ ChunkLengths(length) = c[length]
               /\ \A n \in 0 .. length :
                     c[n] = IF n <= MaxContent THEN <<n>> ELSE <<MaxContent>> \o c[n - MaxContent]
  BY ChunksExist
<1> DEFINE Cut == {m \in Nat : \A n \in 0 .. m : n <= length => Cuts(c[n], n)}
<1>2. MaxContent \in Nat \ {0}
  BY PacketAssumption
<1>3. ASSUME NEW n \in 0 .. length, n <= MaxContent PROVE Cuts(c[n], n)
  <2>1. c[n] = <<n>>
    BY <1>1, <1>3
  <2>2. n \in 0 .. MaxContent
    BY <1>2, <1>3
  <2> QED
    BY <2>1, <2>2, CutsOne
<1>4. 0 \in Cut
  <2>1. \A n \in 0 .. 0 : n <= length => Cuts(c[n], n)
    BY <1>2, <1>3
  <2> QED
    BY <2>1
<1>5. ASSUME NEW m \in Nat, m \in Cut PROVE m + 1 \in Cut
  <2>1. ASSUME NEW n \in 0 .. (m + 1), n <= length PROVE Cuts(c[n], n)
    <3>1. n \in 0 .. length
      BY <2>1
    <3>2. CASE n <= MaxContent
      BY <1>3, <3>1, <3>2
    <3>3. CASE n > MaxContent
      <4>1. n - MaxContent \in 0 .. m /\ n - MaxContent <= length
        BY <1>2, <2>1, <3>3
      <4>2. n - MaxContent \in Nat /\ n - MaxContent # 0
        BY <1>2, <3>3
      <4>3. Cuts(c[n - MaxContent], n - MaxContent)
        BY <1>5, <4>1
      <4>4. ~(n <= MaxContent)
        BY <1>2, <3>1, <3>3
      <4> DEFINE rest == <<MaxContent>> \o c[n - MaxContent]
      <4>5. c[n] = IF n <= MaxContent THEN <<n>> ELSE rest
        BY <1>1, <3>1
      <4> HIDE DEF rest
      <4>6. c[n] = rest
        BY <4>4, <4>5
      <4>7. c[n] = <<MaxContent>> \o c[n - MaxContent]
        BY <4>6 DEF rest
      <4>8. (n - MaxContent) + MaxContent = n
        BY <1>2
      <4>9. Cuts(<<MaxContent>> \o c[n - MaxContent], (n - MaxContent) + MaxContent)
        BY <4>2, <4>3, CutsMore
      <4> QED
        BY <4>7, <4>8, <4>9
    <3> QED
      BY <1>2, <3>2, <3>3
  <2> QED
    BY <2>1
<1>6. length \in Cut
  <2> HIDE DEF Cut
  <2> QED
    BY <1>4, <1>5, SetInduction
<1> QED
  BY <1>1, <1>6

-----------------------------------------------------------------------------
(* What may be on the wire. *)
WireTypes == ReplyTypes \union {"CONTROL", "REQUEST_COMPLETE"}
WireRecords == [type : WireTypes, id : Replies \union {0}, length : Nat]

(* The content in one or more records of one type and request, whose length
   fields say what they hold. *)
Holding(records, type, id, length) ==
    /\ records \in Seq(WireRecords) /\ Len(records) \in Nat
    /\ \A i \in 1 .. Len(records) : records[i].type = type /\ records[i].id = id
    /\ length # 0 => \A i \in 1 .. Len(records) : records[i].length # 0
    /\ \E sum \in [0 .. Len(records) -> Nat] :
          /\ sum[0] = 0 /\ sum[Len(records)] = length
          /\ \A i \in 1 .. Len(records) : sum[i] = sum[i - 1] + records[i].length

(* writePacket loses no byte and reorders none, and writes no empty record
   among others, which would end the stream. *)
LEMMA RecordsHold ==
    ASSUME NEW type \in WireTypes, NEW id \in Replies \union {0}, NEW length \in Nat
    PROVE  Holding(Records(type, id, length), type, id, length)
<1> DEFINE records == Records(type, id, length)
<1> DEFINE c == ChunkLengths(length)
<1>1. Cuts(c, length)
  BY ChunksAdd
<1>2. records = [i \in DOMAIN c |-> [type |-> type, id |-> id, length |-> c[i] % (MaxContent + 1)]]
  BY DEF Records
<1> HIDE DEF c, records
<1>3. c \in Seq(0 .. MaxContent) /\ Len(c) \in Nat \ {0} /\ DOMAIN c = 1 .. Len(c)
  BY <1>1, LenProperties DEF Cuts
<1>4. \A i \in 1 .. Len(c) : c[i] \in 0 .. MaxContent
  BY <1>3, ElementOfSeq
<1>5. \A k \in 0 .. MaxContent : k % (MaxContent + 1) = k
  BY PacketAssumption
<1>6. \A i \in 1 .. Len(c) : records[i] = [type |-> type, id |-> id, length |-> c[i]]
  BY <1>2, <1>3, <1>4, <1>5
<1>7. \A i \in 1 .. Len(c) : records[i] \in WireRecords
  <2> SUFFICES ASSUME NEW i \in 1 .. Len(c) PROVE records[i] \in WireRecords
    OBVIOUS
  <2>1. records[i] = [type |-> type, id |-> id, length |-> c[i]] /\ c[i] \in Nat
    BY <1>4, <1>6, PacketAssumption
  <2> QED
    BY <2>1 DEF WireRecords
<1>8. records \in [1 .. Len(c) -> WireRecords]
  BY <1>2, <1>3, <1>7
<1>9. records \in Seq(WireRecords) /\ Len(records) = Len(c)
  BY <1>3, <1>8
<1>10. \A i \in 1 .. Len(c) : records[i].type = type /\ records[i].id = id /\ records[i].length = c[i]
  <2> SUFFICES ASSUME NEW i \in 1 .. Len(c)
               PROVE  records[i].type = type /\ records[i].id = id /\ records[i].length = c[i]
    OBVIOUS
  <2>1. records[i] = [type |-> type, id |-> id, length |-> c[i]]
    BY <1>6
  <2> QED
    BY <2>1
<1>11. length # 0 => \A i \in 1 .. Len(c) : c[i] # 0
  BY <1>1 DEF Cuts
<1>12. PICK sum \in [0 .. Len(c) -> Nat] :
          /\ sum[0] = 0 /\ sum[Len(c)] = length
          /\ \A i \in 1 .. Len(c) : sum[i] = sum[i - 1] + c[i]
  BY <1>1 DEF Cuts
<1>13. \A i \in 1 .. Len(c) : sum[i] = sum[i - 1] + records[i].length
  BY <1>10, <1>12
<1>14. \A i \in 1 .. Len(c) : records[i].length = c[i]
  BY <1>10
<1>15. length # 0 => \A i \in 1 .. Len(records) : records[i].length # 0
  BY <1>9, <1>11, <1>14
<1>16. \A i \in 1 .. Len(records) : records[i].type = type /\ records[i].id = id
  BY <1>9, <1>10
<1>17. Holding(records, type, id, length)
  BY <1>3, <1>9, <1>12, <1>13, <1>15, <1>16 DEF Holding
<1> QED
  BY <1>17 DEF records

(* Content that fits one record is one record. *)
LEMMA OneRecord ==
    ASSUME NEW type, NEW id, NEW length \in {0, 1}
    PROVE  Records(type, id, length) = <<[type |-> type, id |-> id, length |-> length]>>
<1>1. MaxContent \in Nat \ {0} /\ length <= MaxContent /\ length \in 0 .. length /\ length \in Nat
  BY PacketAssumption
<1>2. ChunkLengths(length) = <<length>>
  BY <1>1, ChunksExist
<1>3. length % (MaxContent + 1) = length
  BY <1>1
<1>4. DOMAIN <<length>> = 1 .. 1 /\ <<length>>[1] = length
  OBVIOUS
<1> QED
  BY <1>2, <1>3, <1>4 DEF Records

-----------------------------------------------------------------------------
(* What was seen of a reply that has not ended. *)
Part(bytes, ended) == [bytes |-> bytes, ended |-> ended, late |-> FALSE]

Bytes == [ReplyTypes -> Nat]

Outputs == {"STDOUT", "STDERR"}

(* Which matches any answer. *)
LEMMA PartMatches ==
    ASSUME NEW bytes, NEW ended \in SUBSET Outputs, NEW answer
    PROVE  Matches(Part(bytes, ended), answer)
BY DEF Matches, Part, Outputs

(* Whatever part of t is written after s, the request's answer matches. *)
Safe(s, t, r, answer) ==
    \A n \in 0 .. Len(t) : Matches(View(s \o SubSeq(t, 1, n), r), answer)

(* And when all of t is written it has made view of it. *)
Shows(s, t, r, answer, view) ==
    t \in Seq(WireRecords) /\ Safe(s, t, r, answer) /\ View(s \o t, r) = view

(* k more bytes of an output. *)
Grown(more, bytes, type, k) == more = [bytes EXCEPT ![type] = @ + k]

(* An output that has not ended. *)
Open(type, ended) == type \in Outputs /\ ended \in SUBSET Outputs /\ type \notin ended

(* An empty record ends it. *)
Ends(next, ended, type, k) == next = IF k = 0 THEN ended \union {type} ELSE ended

(* What a record holds. *)
Is(x, type, id, length) == x.type = type /\ x.id = id /\ x.length = length

(* One more record of an output that has not ended. *)
LEMMA OutputSeen ==
    ASSUME NEW bytes, NEW ended, NEW type, Open(type, ended), NEW r,
           NEW x, NEW k, Is(x, type, r, k),
           NEW grown, Grown(grown, bytes, type, k), NEW next, Ends(next, ended, type, k)
    PROVE  Seen(Part(bytes, ended), x, r) = Part(grown, next)
<1> DEFINE v == Part(bytes, ended)
<1>1. v.bytes = bytes /\ v.ended = ended /\ ~v.late
  BY DEF Part
<1>2. /\ type \in ReplyTypes /\ type # "END_REQUEST" /\ "END_REQUEST" \notin ended
      /\ type \notin ended
  BY DEF Open, Outputs, ReplyTypes
<1>3. x.type = type /\ x.id = r /\ x.length = k
  BY DEF Is
<1>4. ~(v.late \/ x.type \in v.ended \/ "END_REQUEST" \in v.ended)
  BY <1>1, <1>2, <1>3
<1>5. (v.late \/ x.type \in v.ended \/ "END_REQUEST" \in v.ended) = FALSE
  BY <1>4
<1>6. Seen(v, x, r) = Decode(v, x)
  BY <1>3 DEF Seen
<1>7. Decode(v, x) =
          [bytes |-> [v.bytes EXCEPT ![x.type] = @ + x.length],
           ended |-> IF x.length = 0 \/ x.type = "END_REQUEST"
                     THEN v.ended \union {x.type} ELSE v.ended,
           late  |-> v.late \/ x.type \in v.ended \/ "END_REQUEST" \in v.ended]
  BY <1>2, <1>3 DEF Decode
<1>8. (IF x.length = 0 \/ x.type = "END_REQUEST" THEN v.ended \union {x.type} ELSE v.ended) =
          next
  BY <1>1, <1>2, <1>3 DEF Ends
<1>9. [v.bytes EXCEPT ![x.type] = @ + x.length] = grown
  BY <1>1, <1>3 DEF Grown
<1> HIDE DEF v
<1>10. Seen(v, x, r) = Part(grown, next)
  BY <1>5, <1>6, <1>7, <1>8, <1>9 DEF Part
<1> QED
  BY <1>10 DEF v

(* One with content. *)
LEMMA OutputGrows ==
    ASSUME NEW bytes, NEW ended, NEW type, Open(type, ended), NEW r,
           NEW x, NEW k, k # 0, Is(x, type, r, k),
           NEW grown, Grown(grown, bytes, type, k)
    PROVE  Seen(Part(bytes, ended), x, r) = Part(grown, ended)
<1>1. Ends(ended, ended, type, k)
  BY DEF Ends
<1> QED
  BY <1>1, OutputSeen

(* One without. *)
LEMMA OutputEnds ==
    ASSUME NEW bytes \in Bytes, NEW ended, NEW type, Open(type, ended), NEW r,
           NEW x, Is(x, type, r, 0)
    PROVE  Seen(Part(bytes, ended), x, r) = Part(bytes, ended \union {type})
<1>1. Grown(bytes, bytes, type, 0)
  BY DEF Grown, Bytes, Open, Outputs, ReplyTypes
<1> DEFINE next == ended \union {type}
<1>2. Ends(next, ended, type, 0)
  BY DEF Ends
<1> HIDE DEF next
<1>3. Seen(Part(bytes, ended), x, r) = Part(bytes, next)
  BY <1>1, <1>2, OutputSeen
<1> QED
  BY <1>3 DEF next

(* The content of a buffer, if there is any. *)
Content(type, id, length) == IF length # 0 THEN Records(type, id, length) ELSE <<>>

(* Its records show it, and end nothing. *)
LEMMA ContentSeen ==
    ASSUME NEW s \in Seq(WireRecords), NEW r \in Replies,
           NEW bytes \in Bytes, NEW ended \in SUBSET Outputs,
           View(s, r) = Part(bytes, ended),
           NEW type \in Outputs, type \notin ended, NEW length \in Nat,
           NEW all, Grown(all, bytes, type, length),
           NEW answer
    PROVE  Shows(s, Content(type, r, length), r, answer, Part(all, ended))
<1> DEFINE t == Content(type, r, length)
<1>1. t = IF length # 0 THEN Records(type, r, length) ELSE <<>>
  BY DEF Content
<1> SUFFICES /\ t \in Seq(WireRecords) /\ Safe(s, t, r, answer)
             /\ View(s \o t, r) = Part(all, ended)
  BY DEF Shows
<1> HIDE DEF t
<1>2. CASE length = 0
  <2>1. t = <<>> /\ t \in Seq(WireRecords) /\ Len(t) = 0
    BY <1>1, <1>2, EmptySeq
  <2>2. s \o t = s /\ s \o SubSeq(t, 1, 0) = s
    BY <2>1, PartFacts, ConcatEmptySeq
  <2>3. all = bytes
    BY <1>2 DEF Grown, Bytes, Outputs, ReplyTypes
  <2>4. Matches(View(s, r), answer)
    BY PartMatches
  <2>5. \A n \in 0 .. Len(t) : n = 0
    BY <2>1
  <2> QED
    BY <2>1, <2>2, <2>3, <2>4, <2>5 DEF Safe
<1>3. CASE length # 0
  <2>1. t = Records(type, r, length) /\ type \in WireTypes /\ r \in Replies \union {0}
    BY <1>1, <1>3 DEF WireTypes, Outputs, ReplyTypes
  <2>2. /\ t \in Seq(WireRecords) /\ Len(t) \in Nat
        /\ \A i \in 1 .. Len(t) : t[i].type = type /\ t[i].id = r /\ t[i].length # 0
    BY <1>3, <2>1, RecordsHold DEF Holding
  <2>3. Holding(t, type, r, length)
    BY <2>1, RecordsHold
  <2>4. PICK sum \in [0 .. Len(t) -> Nat] :
            /\ sum[0] = 0 /\ sum[Len(t)] = length
            /\ \A i \in 1 .. Len(t) : sum[i] = sum[i - 1] + t[i].length
    BY <2>3 DEF Holding
  <2> DEFINE after(n) == View(s \o SubSeq(t, 1, n), r)
             more(n) == [bytes EXCEPT ![type] = @ + sum[n]]
             Right == {m \in Nat : m <= Len(t) => after(m) = Part(more(m), ended)}
  <2>5. \A m \in 0 .. Len(t) : more(m) \in Bytes
    <3> SUFFICES ASSUME NEW m \in 0 .. Len(t) PROVE more(m) \in Bytes
      OBVIOUS
    <3>1. sum[m] \in Nat
      BY <2>2, <2>4
    <3>2. bytes[type] \in Nat
      BY DEF Bytes, Outputs, ReplyTypes
    <3> DEFINE y == bytes[type] + sum[m]
    <3>3. y \in Nat
      BY <3>1, <3>2
    <3> HIDE DEF y
    <3>4. [bytes EXCEPT ![type] = y] \in Bytes
      BY <3>3 DEF Bytes
    <3> QED
      BY <3>4 DEF y
  <2>6. 0 \in Right
    <3>1. after(0) = View(s, r)
      BY <2>2, PartFacts
    <3>2. more(0) = bytes
      BY <2>4 DEF Bytes, Outputs, ReplyTypes
    <3> QED
      BY <3>1, <3>2
  <2>7. ASSUME NEW m \in Nat, m \in Right PROVE m + 1 \in Right
    <3>1. CASE m + 1 <= Len(t)
      <4> DEFINE x == t[m + 1]
                 part == s \o SubSeq(t, 1, m)
      <4>1. m + 1 \in 1 .. Len(t) /\ m \in 0 .. Len(t) /\ (m + 1) - 1 = m
        BY <2>2, <3>1
      <4>2. s \o SubSeq(t, 1, m + 1) = Append(part, x)
        BY <2>2, <3>1, PartFacts
      <4>3. part \in Seq(WireRecords) /\ x \in WireRecords
        BY <2>2, <4>1, PartFacts, ElementOfSeq
      <4>4. View(part, r) = Part(more(m), ended)
        BY <2>7, <4>1
      <4>5. x.type = type /\ x.id = r /\ x.length # 0 /\ x.length \in Nat
        BY <2>2, <4>1, <4>3 DEF WireRecords
      <4>6. sum[m + 1] = sum[m] + x.length /\ sum[m] \in Nat
        BY <2>4, <4>1
      <4> HIDE DEF x, part
      <4>7. View(Append(part, x), r) = Seen(View(part, r), x, r)
        BY <4>3, ViewOfNext
      <4>8. more(m) \in Bytes
        BY <2>5, <4>1
      <4>9. Grown(more(m + 1), more(m), type, x.length)
        BY <4>5, <4>6 DEF Grown, Bytes, Outputs, ReplyTypes
      <4> DEFINE old == more(m)
                 new == more(m + 1)
                 k == x.length
      <4>10. Grown(new, old, type, k) /\ k # 0 /\ Is(x, type, r, k) /\ Open(type, ended)
        BY <4>5, <4>8, <4>9 DEF Open, Is
      <4> HIDE DEF old, new, k
      <4>11. Seen(Part(old, ended), x, r) = Part(new, ended)
        BY <4>10, OutputGrows
      <4>12. Seen(Part(more(m), ended), x, r) = Part(more(m + 1), ended)
        BY <4>11 DEF old, new
      <4> HIDE DEF more
      <4>13. after(m + 1) = Part(more(m + 1), ended)
        BY <4>2, <4>4, <4>7, <4>12
      <4> HIDE DEF after
      <4> QED
        BY <4>13
    <3> QED
      BY <3>1
  <2>8. \A m \in Nat : m \in Right
    <3> HIDE DEF Right
    <3> QED
      BY <2>6, <2>7, SetInduction
  <2>9. \A n \in 0 .. Len(t) : after(n) = Part(more(n), ended)
    BY <2>2, <2>8
  <2>10. \A n \in 0 .. Len(t) : Matches(after(n), answer)
    <3> SUFFICES ASSUME NEW n \in 0 .. Len(t) PROVE Matches(after(n), answer)
      OBVIOUS
    <3>1. after(n) = Part(more(n), ended)
      BY <2>9
    <3> HIDE DEF after, more
    <3>2. Matches(Part(more(n), ended), answer)
      BY PartMatches
    <3> QED
      BY <3>1, <3>2
  <2>11. after(Len(t)) = Part(more(Len(t)), ended)
    BY <2>2, <2>9
  <2>12. all = more(Len(t))
    BY <2>4 DEF Grown
  <2>13. after(Len(t)) = View(s \o t, r)
    BY <2>2, PartFacts
  <2> HIDE DEF more, after
  <2>14. View(s \o t, r) = Part(all, ended)
    BY <2>11, <2>12, <2>13
  <2> QED
    BY <2>2, <2>10, <2>14 DEF Safe
<1> QED
  BY <1>2, <1>3

(* A single record, written or not. *)
LEMMA OneWritten ==
    ASSUME NEW s \in Seq(WireRecords), NEW x \in WireRecords, NEW r,
           NEW n \in 0 .. Len(<<x>>)
    PROVE  View(s \o SubSeq(<<x>>, 1, n), r) \in {View(s, r), Seen(View(s, r), x, r)}
<1>1. <<x>> \in Seq(WireRecords) /\ Len(<<x>>) = 1 /\ <<x>>[1] = x
  OBVIOUS
<1>2. s \o SubSeq(<<x>>, 1, 0) = s
  BY <1>1, PartFacts
<1>3. s \o SubSeq(<<x>>, 1, 1) = s \o <<x>> /\ s \o <<x>> = Append(s, x)
  BY <1>1, PartFacts, AppendIsConcat
<1>4. View(Append(s, x), r) = Seen(View(s, r), x, r)
  BY ViewOfNext
<1>5. n = 0 \/ n = 1
  BY <1>1
<1> QED
  BY <1>2, <1>3, <1>4, <1>5

(* The empty record that ends an output. *)
LEMMA EndSeen ==
    ASSUME NEW s \in Seq(WireRecords), NEW r \in Replies,
           NEW bytes \in Bytes, NEW ended \in SUBSET Outputs,
           View(s, r) = Part(bytes, ended),
           NEW type \in Outputs, type \notin ended,
           NEW all, all = ended \union {type},
           NEW answer
    PROVE  Shows(s, Records(type, r, 0), r, answer, Part(bytes, all))
<1> DEFINE t == Records(type, r, 0)
<1> DEFINE x == [type |-> type, id |-> r, length |-> 0]
<1>1. t = <<x>> /\ x \in WireRecords /\ x.type = type /\ x.id = r /\ x.length = 0
  BY OneRecord DEF WireRecords, WireTypes, Outputs, ReplyTypes
<1> SUFFICES /\ t \in Seq(WireRecords) /\ Safe(s, t, r, answer)
             /\ View(s \o t, r) = Part(bytes, all)
  BY DEF Shows
<1> HIDE DEF x, t
<1>2. Is(x, type, r, 0) /\ Open(type, ended)
  BY <1>1 DEF Is, Open
<1>3. Seen(Part(bytes, ended), x, r) = Part(bytes, all)
  BY <1>2, OutputEnds
<1>4. Matches(Part(bytes, ended), answer) /\ Matches(Part(bytes, all), answer)
  BY PartMatches
<1>5. \A n \in 0 .. Len(t) : Matches(View(s \o SubSeq(t, 1, n), r), answer)
  <2> SUFFICES ASSUME NEW n \in 0 .. Len(t) PROVE Matches(View(s \o SubSeq(t, 1, n), r), answer)
    OBVIOUS
  <2>1. View(s \o SubSeq(t, 1, n), r) \in {View(s, r), Seen(View(s, r), x, r)}
    BY <1>1, OneWritten
  <2> QED
    BY <1>3, <1>4, <2>1
<1>6. t \in Seq(WireRecords) /\ s \o t = Append(s, x)
  <2>1. x \in WireRecords
    BY <1>1
  <2>2. <<x>> \in Seq(WireRecords)
    BY <2>1
  <2>3. t \in Seq(WireRecords)
    BY <1>1, <2>2
  <2>4. Append(s, x) = s \o <<x>>
    BY <1>1, AppendIsConcat
  <2> QED
    BY <1>1, <2>3, <2>4
<1>7. View(s \o t, r) = Part(bytes, all)
  BY <1>1, <1>3, <1>6, ViewOfNext
<1> QED
  BY <1>5, <1>6, <1>7 DEF Safe

-----------------------------------------------------------------------------
(* The first n of the records of t and then of u. *)
LEMMA PartOfConcat ==
    ASSUME NEW S, NEW t \in Seq(S), NEW u \in Seq(S), NEW n \in 0 .. Len(t \o u)
    PROVE  /\ n <= Len(t) => SubSeq(t \o u, 1, n) = SubSeq(t, 1, n)
           /\ n > Len(t) => /\ n - Len(t) \in 0 .. Len(u)
                            /\ SubSeq(t \o u, 1, n) = t \o SubSeq(u, 1, n - Len(t))
<1> DEFINE w == t \o u
<1>1. /\ Len(t) \in Nat /\ Len(u) \in Nat /\ w \in Seq(S) /\ Len(w) = Len(t) + Len(u)
      /\ \A i \in 1 .. Len(t) : w[i] = t[i]
      /\ \A i \in 1 .. Len(u) : w[Len(t) + i] = u[i]
  <2>1. /\ w \in Seq(S) /\ Len(w) = Len(t) + Len(u)
        /\ \A i \in 1 .. Len(t) + Len(u) : w[i] = IF i <= Len(t) THEN t[i] ELSE u[i - Len(t)]
    BY ConcatProperties
  <2>2. Len(t) \in Nat /\ Len(u) \in Nat
    BY LenProperties
  <2> HIDE DEF w
  <2>3. \A i \in 1 .. Len(t) : w[i] = t[i]
    BY <2>1, <2>2
  <2>4. \A i \in 1 .. Len(u) : w[Len(t) + i] = u[i]
    <3> SUFFICES ASSUME NEW i \in 1 .. Len(u) PROVE w[Len(t) + i] = u[i]
      OBVIOUS
    <3>1. /\ Len(t) + i \in 1 .. Len(t) + Len(u) /\ ~(Len(t) + i <= Len(t))
          /\ (Len(t) + i) - Len(t) = i
      BY <2>2
    <3> QED
      BY <2>1, <3>1
  <2> QED
    BY <2>1, <2>2, <2>3, <2>4
<1> HIDE DEF w
<1>2. n \in Nat /\ n <= Len(t) + Len(u)
  BY <1>1 DEF w
<1>3. \A i \in 1 .. Len(t) : t[i] \in S
  BY ElementOfSeq
<1>4. \A i \in 1 .. Len(u) : u[i] \in S
  BY ElementOfSeq
<1>5. \A i \in 1 .. Len(w) : w[i] \in S
  BY <1>1, ElementOfSeq
<1>6. /\ SubSeq(w, 1, n) \in Seq(S) /\ Len(SubSeq(w, 1, n)) = n
      /\ \A i \in 1 .. n : SubSeq(w, 1, n)[i] = w[i]
  <2>1. 1 \in Int /\ n \in Int /\ \A i \in 1 .. n : w[i] \in S
    BY <1>1, <1>2, <1>5
  <2>2. /\ SubSeq(w, 1, n) \in Seq(S)
        /\ Len(SubSeq(w, 1, n)) = IF 1 <= n THEN n - 1 + 1 ELSE 0
        /\ \A i \in 1 .. n - 1 + 1 : SubSeq(w, 1, n)[i] = w[1 + i - 1]
    BY <2>1, SubSeqProperties
  <2> QED
    BY <1>2, <2>2
<1>7. ASSUME n <= Len(t) PROVE SubSeq(w, 1, n) = SubSeq(t, 1, n)
  <2>1. 1 \in Int /\ n \in Int /\ \A i \in 1 .. n : t[i] \in S
    BY <1>1, <1>2, <1>3, <1>7
  <2>2. /\ SubSeq(t, 1, n) \in Seq(S)
        /\ Len(SubSeq(t, 1, n)) = IF 1 <= n THEN n - 1 + 1 ELSE 0
        /\ \A i \in 1 .. n - 1 + 1 : SubSeq(t, 1, n)[i] = t[1 + i - 1]
    BY <2>1, SubSeqProperties
  <2>3. Len(SubSeq(t, 1, n)) = n /\ \A i \in 1 .. n : SubSeq(t, 1, n)[i] = t[i]
    BY <1>2, <2>2
  <2>4. \A i \in 1 .. n : SubSeq(w, 1, n)[i] = SubSeq(t, 1, n)[i]
    BY <1>1, <1>2, <1>6, <1>7, <2>3
  <2> QED
    BY <1>6, <2>2, <2>3, <2>4, SeqEqual
<1>8. ASSUME n > Len(t)
      PROVE  /\ n - Len(t) \in 0 .. Len(u)
             /\ SubSeq(w, 1, n) = t \o SubSeq(u, 1, n - Len(t))
  <2> DEFINE k == n - Len(t)
             v == SubSeq(u, 1, k)
  <2>1. k \in 0 .. Len(u) /\ n = Len(t) + k
    BY <1>1, <1>2, <1>8
  <2> HIDE DEF k
  <2>2. 1 \in Int /\ k \in Int /\ \A i \in 1 .. k : u[i] \in S
    BY <1>1, <1>4, <2>1
  <2>3. /\ v \in Seq(S)
        /\ Len(v) = IF 1 <= k THEN k - 1 + 1 ELSE 0
        /\ \A i \in 1 .. k - 1 + 1 : v[i] = u[1 + i - 1]
    BY <2>2, SubSeqProperties
  <2>4. v \in Seq(S) /\ Len(v) = k /\ \A i \in 1 .. k : v[i] = u[i]
    BY <1>1, <2>1, <2>3
  <2> HIDE DEF v
  <2>5. /\ t \o v \in Seq(S) /\ Len(t \o v) = Len(t) + Len(v)
        /\ \A i \in 1 .. Len(t) + Len(v) : (t \o v)[i] = IF i <= Len(t) THEN t[i] ELSE v[i - Len(t)]
    BY <2>4, ConcatProperties
  <2>6. ASSUME NEW i \in 1 .. n PROVE SubSeq(w, 1, n)[i] = (t \o v)[i]
    <3>1. CASE i <= Len(t)
      BY <1>1, <1>6, <2>1, <2>4, <2>5, <3>1
    <3>2. CASE ~(i <= Len(t))
      <4>1. i - Len(t) \in 1 .. k /\ i - Len(t) \in 1 .. Len(u) /\ Len(t) + (i - Len(t)) = i
        BY <1>1, <2>1, <3>2
      <4>2. w[i] = u[i - Len(t)]
        BY <1>1, <4>1
      <4>3. (t \o v)[i] = v[i - Len(t)]
        BY <1>1, <2>1, <2>4, <2>5, <3>2
      <4> QED
        BY <1>6, <2>4, <4>1, <4>2, <4>3
    <3> QED
      BY <3>1, <3>2
  <2>7. SubSeq(w, 1, n) = t \o v
    BY <1>6, <2>1, <2>4, <2>5, <2>6, SeqEqual
  <2> QED
    BY <2>1, <2>7 DEF k, v
<1> QED
  BY <1>7, <1>8 DEF w

(* What matches while t is written, and then while u is, does all along. *)
LEMMA SafeConcat ==
    ASSUME NEW s \in Seq(WireRecords), NEW t \in Seq(WireRecords), NEW u \in Seq(WireRecords),
           NEW r, NEW answer, Safe(s, t, r, answer),
           NEW v, v = s \o t, Safe(v, u, r, answer)
    PROVE  Safe(s, t \o u, r, answer)
<1>1. t \o u \in Seq(WireRecords) /\ s \o (t \o u) = (s \o t) \o u
  BY ConcatProperties, ConcatAssociative
<1>2. ASSUME NEW n \in 0 .. Len(t \o u)
      PROVE  Matches(View(s \o SubSeq(t \o u, 1, n), r), answer)
  <2>1. Len(t) \in Nat /\ Len(u) \in Nat /\ n \in Nat
    BY <1>1, LenProperties
  <2>2. CASE n <= Len(t)
    <3>1. SubSeq(t \o u, 1, n) = SubSeq(t, 1, n) /\ n \in 0 .. Len(t)
      BY <2>1, <2>2, PartOfConcat
    <3> QED
      BY <3>1 DEF Safe
  <2>3. CASE n > Len(t)
    <3> DEFINE k == n - Len(t)
    <3>1. SubSeq(t \o u, 1, n) = t \o SubSeq(u, 1, k) /\ k \in 0 .. Len(u)
      BY <2>3, PartOfConcat
    <3> HIDE DEF k
    <3>2. SubSeq(u, 1, k) \in Seq(WireRecords)
      <4>1. \A i \in 1 .. k : u[i] \in WireRecords
        BY <2>1, <3>1, ElementOfSeq
      <4> QED
        BY <2>1, <3>1, <4>1, SubSeqProperties
    <3> DEFINE z == SubSeq(u, 1, k)
    <3>3. z \in Seq(WireRecords)
      BY <3>2
    <3> HIDE DEF z
    <3>4. s \o (t \o z) = (s \o t) \o z
      BY <3>3, ConcatAssociative
    <3>5. s \o (t \o SubSeq(u, 1, k)) = (s \o t) \o SubSeq(u, 1, k)
      BY <3>4 DEF z
    <3>6. Matches(View((s \o t) \o SubSeq(u, 1, k), r), answer)
      BY <3>1 DEF Safe
    <3> QED
      BY <3>1, <3>5, <3>6
  <2> QED
    BY <2>1, <2>2, <2>3
<1> QED
  BY <1>1, <1>2 DEF Safe

(* The provers expand \o wherever they see it. *)
Joins(w, s, t) == w = s \o t

(* The same, with what was made of it in the end. *)
LEMMA ShowsConcat ==
    ASSUME NEW s \in Seq(WireRecords), NEW t, NEW u, NEW r, NEW answer, NEW v, NEW w,
           NEW st, Joins(st, s, t), Shows(s, t, r, answer, v), Shows(st, u, r, answer, w),
           NEW tu, Joins(tu, t, u), NEW stu, Joins(stu, st, u)
    PROVE  Shows(s, tu, r, answer, w) /\ Joins(stu, s, tu)
<1>1. t \in Seq(WireRecords) /\ u \in Seq(WireRecords)
  BY DEF Shows
<1>2. st = s \o t /\ tu = t \o u /\ stu = st \o u
  BY DEF Joins
<1>3. t \o u \in Seq(WireRecords) /\ (s \o t) \o u = s \o (t \o u)
  BY <1>1, ConcatProperties, ConcatAssociative
<1>4. Joins(stu, s, tu)
  BY <1>2, <1>3 DEF Joins
<1>5. Safe(s, t \o u, r, answer)
  BY <1>1, <1>2, SafeConcat DEF Shows
<1>6. View(stu, r) = w
  BY <1>2 DEF Shows
<1> QED
  BY <1>2, <1>3, <1>4, <1>5, <1>6 DEF Shows, Joins

(* The records of one request. *)
RecordsOf(r) == {x \in WireRecords : x.id = r}

(* writePacket writes records of the type and the request it is given. *)
LEMMA RecordsOfOne ==
    ASSUME NEW type \in WireTypes, NEW r \in Replies \union {0}, NEW length \in Nat
    PROVE  /\ Records(type, r, length) \in Seq(RecordsOf(r))
           /\ \A i \in 1 .. Len(Records(type, r, length)) : Records(type, r, length)[i].type = type
<1> DEFINE t == Records(type, r, length)
<1>1. Holding(t, type, r, length)
  BY RecordsHold
<1> HIDE DEF t
<1>2. /\ t \in Seq(WireRecords) /\ Len(t) \in Nat
      /\ \A i \in 1 .. Len(t) : t[i].type = type
      /\ \A i \in 1 .. Len(t) : t[i].id = r
  BY <1>1 DEF Holding
<1>3. \A i \in 1 .. Len(t) : t[i] \in RecordsOf(r)
  BY <1>2, ElementOfSeq DEF RecordsOf
<1>4. t \in [1 .. Len(t) -> WireRecords]
  BY <1>2, LenProperties
<1>5. t \in [1 .. Len(t) -> RecordsOf(r)]
  BY <1>3, <1>4
<1>6. t \in Seq(RecordsOf(r))
  BY <1>2, <1>5
<1> QED
  BY <1>2, <1>6 DEF t

(* A reply is made of records of its request. *)
LEMMA ReplyIsOfOne ==
    ASSUME NEW r \in Replies, NEW answer \in Answers
    PROVE  ReplyRecords(r, answer) \in Seq(RecordsOf(r))
<1>1. answer.out \in Nat /\ answer.err \in Nat
  BY PacketAssumption
<1>2. {"STDOUT", "STDERR", "END_REQUEST"} \subseteq WireTypes /\ r \in Replies \union {0}
  BY DEF WireTypes, ReplyTypes
<1>3. <<>> \in Seq(RecordsOf(r))
  BY EmptySeq
<1> DEFINE a == IF answer.out # 0 THEN Records("STDOUT", r, answer.out) ELSE <<>>
           b == IF answer.err # 0 THEN Records("STDERR", r, answer.err) ELSE <<>>
           c == Records("STDOUT", r, 0)
           d == Records("STDERR", r, 0)
           e == Records("END_REQUEST", r, 1)
<1>4. a \in Seq(RecordsOf(r)) /\ b \in Seq(RecordsOf(r))
  BY <1>1, <1>2, <1>3, RecordsOfOne
<1>5. c \in Seq(RecordsOf(r)) /\ d \in Seq(RecordsOf(r)) /\ e \in Seq(RecordsOf(r))
  BY <1>2, RecordsOfOne
<1>6. ReplyRecords(r, answer) = a \o b \o c \o d \o e
  BY DEF ReplyRecords
<1> HIDE DEF a, b, c, d, e
<1>7. a \o b \in Seq(RecordsOf(r))
  BY <1>4, ConcatProperties
<1>8. a \o b \o c \in Seq(RecordsOf(r))
  BY <1>5, <1>7, ConcatProperties
<1>9. a \o b \o c \o d \in Seq(RecordsOf(r))
  BY <1>5, <1>8, ConcatProperties
<1>10. a \o b \o c \o d \o e \in Seq(RecordsOf(r))
  BY <1>5, <1>9, ConcatProperties
<1> QED
  BY <1>6, <1>10

(* Wherever the writing of a reply stops, the web server has made of it
   nothing but the answer. *)
LEMMA ReplySafe ==
    ASSUME NEW s \in Seq(WireRecords), NEW r \in Replies, NEW answer \in Answers,
           View(s, r) = EmptyView
    PROVE  Safe(s, ReplyRecords(r, answer), r, answer)
<1>1. answer.out \in Nat /\ answer.err \in Nat
  BY PacketAssumption
<1> DEFINE a == Content("STDOUT", r, answer.out)
           b == Content("STDERR", r, answer.err)
           c == Records("STDOUT", r, 0)
           d == Records("STDERR", r, 0)
           x == [type |-> "END_REQUEST", id |-> r, length |-> 1]
           none == [t \in ReplyTypes |-> 0]
           out == [none EXCEPT !["STDOUT"] = @ + answer.out]
           both == [out EXCEPT !["STDERR"] = @ + answer.err]
<1>2. ReplyRecords(r, answer) = a \o b \o c \o d \o <<x>>
  BY OneRecord DEF ReplyRecords, Content
<1>3. /\ none \in Bytes /\ out \in Bytes /\ both \in Bytes
      /\ both["STDOUT"] = answer.out /\ both["STDERR"] = answer.err
  BY <1>1 DEF Bytes, ReplyTypes
<1>4. Grown(out, none, "STDOUT", answer.out) /\ Grown(both, out, "STDERR", answer.err)
  BY DEF Grown
<1>5. {} \in SUBSET Outputs /\ {"STDOUT"} \in SUBSET Outputs /\ {"STDOUT", "STDERR"} \in SUBSET Outputs
  BY DEF Outputs
<1>6. "STDOUT" \notin {} /\ "STDERR" \notin {} /\ "STDERR" \notin {"STDOUT"}
  OBVIOUS
<1>7. {"STDOUT"} = {} \union {"STDOUT"} /\ {"STDOUT", "STDERR"} = {"STDOUT"} \union {"STDERR"}
  OBVIOUS
<1>8. "STDOUT" \in Outputs /\ "STDERR" \in Outputs /\ Outputs = {"STDOUT", "STDERR"}
  BY DEF Outputs
<1>9. View(s, r) = Part(none, {})
  BY DEF EmptyView, Part
<1> HIDE DEF none, out, both
<1> DEFINE s1 == s \o a
           s2 == s1 \o b
           s3 == s2 \o c
           s4 == s3 \o d
           ended == {"STDOUT", "STDERR"}
           p1 == Part(out, {})
           p2 == Part(both, {})
           p3 == Part(both, {"STDOUT"})
           p4 == Part(both, ended)
<1>10. Shows(s, a, r, answer, Part(out, {}))
  BY <1>1, <1>3, <1>4, <1>5, <1>6, <1>8, <1>9, ContentSeen
<1>11. s1 \in Seq(WireRecords) /\ View(s1, r) = Part(out, {})
  BY <1>10, ConcatProperties DEF Shows
<1> HIDE DEF s1
<1>12. Shows(s1, b, r, answer, Part(both, {}))
  BY <1>1, <1>3, <1>4, <1>5, <1>6, <1>8, <1>11, ContentSeen
<1>13. s2 \in Seq(WireRecords) /\ View(s2, r) = Part(both, {})
  BY <1>11, <1>12, ConcatProperties DEF Shows
<1> HIDE DEF s2
<1>14. Shows(s2, c, r, answer, Part(both, {"STDOUT"}))
  BY <1>3, <1>5, <1>6, <1>7, <1>8, <1>13, EndSeen
<1>15. s3 \in Seq(WireRecords) /\ View(s3, r) = Part(both, {"STDOUT"})
  BY <1>13, <1>14, ConcatProperties DEF Shows
<1> HIDE DEF s3
<1>16. Shows(s3, d, r, answer, Part(both, ended))
  BY <1>3, <1>5, <1>6, <1>7, <1>8, <1>15, EndSeen
<1>17. s4 \in Seq(WireRecords) /\ View(s4, r) = Part(both, ended)
  BY <1>15, <1>16, ConcatProperties DEF Shows
<1> HIDE DEF s4
<1>18. x \in WireRecords /\ <<x>> \in Seq(WireRecords)
  BY DEF WireRecords, WireTypes, ReplyTypes
<1>19. Matches(Part(both, ended), answer)
  BY <1>5, PartMatches
<1>20. Matches(Seen(Part(both, ended), x, r), answer)
  BY <1>3 DEF Matches, Seen, Decode, Part, ReplyTypes, Bytes
<1> HIDE DEF x, ended
<1>21. Safe(s4, <<x>>, r, answer)
  <2> SUFFICES ASSUME NEW n \in 0 .. Len(<<x>>)
               PROVE  Matches(View(s4 \o SubSeq(<<x>>, 1, n), r), answer)
    BY DEF Safe
  <2>1. View(s4 \o SubSeq(<<x>>, 1, n), r) \in {View(s4, r), Seen(View(s4, r), x, r)}
    BY <1>17, <1>18, OneWritten
  <2> QED
    BY <1>17, <1>19, <1>20, <2>1
<1> HIDE DEF a, b, c, d
<1>22. s1 = s \o a /\ s2 = s1 \o b /\ s3 = s2 \o c /\ s4 = s3 \o d
  BY DEF s1, s2, s3, s4
<1>23. Shows(s, a, r, answer, p1) /\ Shows(s1, b, r, answer, p2) /\ Shows(s2, c, r, answer, p3)
       /\ Shows(s3, d, r, answer, p4)
  BY <1>10, <1>12, <1>14, <1>16
<1> HIDE DEF p1, p2, p3, p4
<1> DEFINE ab == a \o b
           abc == ab \o c
           abcd == abc \o d
<1>24. /\ Joins(s1, s, a) /\ Joins(s2, s1, b) /\ Joins(s3, s2, c) /\ Joins(s4, s3, d)
       /\ Joins(ab, a, b) /\ Joins(abc, ab, c) /\ Joins(abcd, abc, d)
  BY <1>22 DEF Joins
<1> HIDE DEF ab, abc, abcd
<1>25. Shows(s, ab, r, answer, p2) /\ Joins(s2, s, ab)
  BY <1>23, <1>24, ShowsConcat
<1>26. Shows(s, abc, r, answer, p3) /\ Joins(s3, s, abc)
  BY <1>23, <1>24, <1>25, ShowsConcat
<1>27. Shows(s, abcd, r, answer, p4) /\ Joins(s4, s, abcd)
  BY <1>23, <1>24, <1>26, ShowsConcat
<1>28. Safe(s, abcd \o <<x>>, r, answer)
  BY <1>18, <1>21, <1>27, SafeConcat DEF Shows, Joins
<1> QED
  BY <1>2, <1>28 DEF ab, abc, abcd

-----------------------------------------------------------------------------
(* Nothing was written of an answer that was not given. *)
UnansweredUnseen == \A r \in Replies : promised[r] = Unanswered => View(wire, r) = EmptyView

(* The invariant of what is written. *)
WInv ==
    /\ wire \in Seq(WireRecords)
    /\ promised \in [Replies -> Answers \union {Unanswered}]
    /\ UnansweredUnseen
    /\ AnswersDecode

(* Nothing is promised or written at first. *)
LEMMA InitWInv == PInit => WInv
<1> SUFFICES ASSUME PInit PROVE WInv
  OBVIOUS
<1>1. wire = <<>> /\ promised = [r \in Replies |-> Unanswered]
  BY DEF PInit
<1>2. \A r : View(wire, r) = EmptyView
  BY <1>1, ViewOfNothing
<1>3. \A answer : Matches(EmptyView, answer)
  BY DEF Matches, EmptyView
<1>4. wire \in Seq(WireRecords)
  BY <1>1, EmptySeq
<1>5. promised \in [Replies -> Answers \union {Unanswered}]
  BY <1>1
<1> QED
  BY <1>2, <1>3, <1>4, <1>5 DEF WInv, UnansweredUnseen, AnswersDecode

(* An answer and the mark for none are told apart. *)
LEMMA AnswersAnswer == Unanswered \notin Answers
<1> SUFFICES ASSUME Unanswered \in Answers PROVE FALSE
  OBVIOUS
<1>1. Unanswered \in [out : Nat, err : Nat]
  BY PacketAssumption
<1>2. DOMAIN Unanswered = {"out", "err"}
  BY <1>1
<1>3. DOMAIN Unanswered = {"out"}
  BY DEF Unanswered
<1>4. "err" \in {"out"}
  BY <1>2, <1>3
<1> QED
  BY <1>4

(* All of the records are written, or those before the one that fails. *)
LEMMA PartIsWritten ==
    ASSUME NEW records \in Seq(WireRecords), wire \in Seq(WireRecords),
           WriteAll(records) \/ WriteFails(records)
    PROVE  \E n \in 0 .. Len(records) : wire' = wire \o SubSeq(records, 1, n)
<1>1. Len(records) \in Nat
  BY LenProperties
<1>2. CASE WriteAll(records)
  <2>1. wire' = wire \o records /\ Len(records) \in 0 .. Len(records)
    BY <1>1, <1>2 DEF WriteAll
  <2>2. wire' = wire \o SubSeq(records, 1, Len(records))
    BY <2>1, PartFacts
  <2> QED
    BY <2>1, <2>2
<1>3. CASE WriteFails(records)
  <2>1. PICK n \in 0 .. (Len(records) - 1) : wire' = wire \o SubSeq(records, 1, n)
    BY <1>3 DEF WriteFails
  <2>2. n \in 0 .. Len(records)
    BY <1>1, <2>1
  <2> QED
    BY <2>1, <2>2
<1> QED
  BY <1>2, <1>3

(* Records that no answer is made of change nothing in what was made of the
   answers. *)
LEMMA OthersKeepWInv ==
    ASSUME WInv, NEW t \in Seq(WireRecords), NEW n \in 0 .. Len(t),
           \A i \in 1 .. Len(t) : t[i].type \notin ReplyTypes,
           wire' = wire \o SubSeq(t, 1, n), promised' = promised
    PROVE  WInv'
<1>1. wire \in Seq(WireRecords)
  BY DEF WInv
<1>2. wire' \in Seq(WireRecords)
  BY <1>1, PartFacts
<1>3. \A r \in Replies : View(wire', r) = View(wire, r)
  <2> SUFFICES ASSUME NEW r \in Replies PROVE View(wire', r) = View(wire, r)
    OBVIOUS
  <2> QED
    BY <1>1, OthersUnseen
<1>4. UnansweredUnseen'
  BY <1>3 DEF WInv, UnansweredUnseen
<1>5. AnswersDecode'
  BY <1>3 DEF WInv, AnswersDecode
<1> QED
  BY <1>2, <1>4, <1>5 DEF WInv

(* sendReply, to its end or to a write that fails. *)
LEMMA SendKeepsWInv ==
    ASSUME WInv, NEW r \in Replies, SendReply(r)
    PROVE  WInv'
<1>1. PICK answer \in Answers :
          /\ promised' = [promised EXCEPT ![r] = answer]
          /\ WriteAll(ReplyRecords(r, answer)) \/ WriteFails(ReplyRecords(r, answer))
  BY DEF SendReply
<1> DEFINE t == ReplyRecords(r, answer)
<1>2. t \in Seq(RecordsOf(r))
  BY ReplyIsOfOne
<1>3. WriteAll(t) \/ WriteFails(t)
  BY <1>1
<1>4. View(wire, r) = EmptyView /\ wire \in Seq(WireRecords)
  BY DEF SendReply, WInv, UnansweredUnseen
<1>5. Safe(wire, t, r, answer)
  BY <1>4, ReplySafe
<1> HIDE DEF t
<1>6. RecordsOf(r) \subseteq WireRecords
  BY DEF RecordsOf
<1>7. t \in Seq(WireRecords)
  BY <1>2, <1>6, SeqMonotonic
<1>8. PICK n \in 0 .. Len(t) : wire' = wire \o SubSeq(t, 1, n)
  BY <1>3, <1>4, <1>7, PartIsWritten
<1>9. wire' \in Seq(WireRecords)
  BY <1>4, <1>7, <1>8, PartFacts
<1>10. \A i \in 1 .. Len(t) : t[i].id = r
  <2> SUFFICES ASSUME NEW i \in 1 .. Len(t) PROVE t[i].id = r
    OBVIOUS
  <2>1. t[i] \in RecordsOf(r)
    BY <1>2, ElementOfSeq
  <2> QED
    BY <2>1 DEF RecordsOf
<1>11. \A q \in Replies : q # r => View(wire', q) = View(wire, q)
  <2> SUFFICES ASSUME NEW q \in Replies, q # r PROVE View(wire', q) = View(wire, q)
    OBVIOUS
  <2> QED
    BY <1>4, <1>7, <1>8, <1>10, OthersUnseen
<1>12. /\ promised' \in [Replies -> Answers \union {Unanswered}]
       /\ promised'[r] = answer /\ \A q \in Replies : q # r => promised'[q] = promised[q]
  BY <1>1 DEF WInv
<1>13. Matches(View(wire', r), promised'[r])
  BY <1>5, <1>8, <1>12 DEF Safe
<1>14. UnansweredUnseen'
  BY <1>11, <1>12, AnswersAnswer DEF WInv, UnansweredUnseen
<1>15. AnswersDecode'
  BY <1>11, <1>12, <1>13 DEF WInv, AnswersDecode
<1> QED
  BY <1>9, <1>12, <1>14, <1>15 DEF WInv

(* The handlers of packets write only records that no answer is made of. *)
LEMMA DeliverKeepsWInv ==
    ASSUME WInv, NEW i, DeliverPacket(i)
    PROVE  WInv'
<1>1. promised' = promised /\ wire \in Seq(WireRecords)
  BY DEF DeliverPacket, WInv
<1>2. CASE HandleData(i)
  BY <1>1, <1>2 DEF HandleData, WInv, UnansweredUnseen, AnswersDecode
<1>3. ASSUME NEW type \in {"CONTROL", "REQUEST_COMPLETE"}, NEW id \in Replies \union {0},
             NEW t, t = Records(type, id, 1), WriteAll(t) \/ WriteFails(t)
      PROVE  WInv'
  <2>1. type \in WireTypes /\ type \notin ReplyTypes
    BY DEF WireTypes, ReplyTypes
  <2>2. t \in Seq(WireRecords) /\ \A k \in 1 .. Len(t) : t[k].type = type
    BY <1>3, <2>1, RecordsHold DEF Holding
  <2>3. PICK n \in 0 .. Len(t) : wire' = wire \o SubSeq(t, 1, n)
    BY <1>1, <1>3, <2>2, PartIsWritten
  <2> QED
    BY <1>1, <2>1, <2>2, <2>3, OthersKeepWInv
<1>4. CASE HandleControl(i)
  <2>1. WriteAll(ControlRecords) \/ WriteFails(ControlRecords)
    BY <1>4 DEF HandleControl
  <2> QED
    BY <1>3, <2>1 DEF ControlRecords
<1>5. CASE HandleAbort(i)
  <2>1. PICK r \in Replies : WriteAll(AbortRecords(r)) \/ WriteFails(AbortRecords(r))
    BY <1>5 DEF HandleAbort
  <2> QED
    BY <1>3, <2>1 DEF AbortRecords
<1> QED
  BY <1>2, <1>4, <1>5 DEF DeliverPacket

(* Nothing else is written. *)
LEMMA StepKeepsWInv == WInv /\ [PNext]_pvars => WInv'
<1> SUFFICES ASSUME WInv, [PNext]_pvars PROVE WInv'
  OBVIOUS
<1>1. ASSUME UNCHANGED <<promised, wire>> PROVE WInv'
  BY <1>1 DEF WInv, UnansweredUnseen, AnswersDecode
<1>2. CASE StartRead \/ HandleRead \/ LoopEnd \/ FlushProtocolSocket \/ BytesArrive \/ PeerDisconnects
  <2>1. UNCHANGED <<promised, wire>>
    BY <1>2 DEF StartRead, HandleRead, LoopEnd, FlushProtocolSocket, BytesArrive, PeerDisconnects
  <2> QED
    BY <1>1, <2>1
<1>3. ASSUME NEW i \in DOMAIN stream, RejectVersion(i) PROVE WInv'
  BY <1>1, <1>3 DEF RejectVersion
<1>4. ASSUME NEW i \in DOMAIN stream, DeliverPacket(i) PROVE WInv'
  BY <1>4, DeliverKeepsWInv
<1>5. ASSUME NEW r \in Replies, SendReply(r) PROVE WInv'
  BY <1>5, SendKeepsWInv
<1>6. CASE UNCHANGED pvars
  BY <1>1, <1>6 DEF pvars
<1> QED
  BY <1>2, <1>3, <1>4, <1>5, <1>6 DEF PNext, LoopStep

(* What the web server makes of the records is the answer that was given,
   whatever its lengths, its companions on the wire and the write that fails. *)
THEOREM DecodesAnswers == PSpec => []AnswersDecode
<1>1. WInv => AnswersDecode
  BY DEF WInv
<1> QED
  BY <1>1, InitWInv, StepKeepsWInv, PTL DEF PSpec

=============================================================================
