---------------------------- MODULE PacketSocket ----------------------------
(***************************************************************************)
(* The byte stream under one connection, both ways: PacketSocket.h, and    *)
(* the records RecordSocket.h writes through it.                           *)
(*                                                                         *)
(* The web server's bytes are a sequence of packets, of which the model    *)
(* keeps where each ends in the stream.  Offsets count from the start of   *)
(* the stream: the input buffer holds the bytes from consumed to received. *)
(* A reply is two lengths, those of its out and err buffers; a record on   *)
(* the wire is its type, its request id and the length its header states.  *)
(*                                                                         *)
(* Everything runs in the connection's strand: a reply is not sent while   *)
(* handleRead is in its loop.  A write on a closed socket fails its        *)
(* assertion, which is the subject of Connection.tla; here it is not made. *)
(***************************************************************************)
EXTENDS Naturals, SequencesExt

CONSTANTS Streams,     \* what the web server may send: sequences of packets
          HeaderLen,   \* FCGI_HEADER_LEN
          BufferSize,  \* BUFFER_INCREMENT_SIZE
          MaxContent,  \* 0xffff: the longest content of a record
          Replies,     \* the ids of the requests that are answered
          Answers      \* the lengths of the out and err buffers of an answer

(* The kinds of packets differ in what their handlers do to the socket. *)
Packets == [end : Nat, pad : Nat, ok : BOOLEAN, kind : {"data", "control", "abort"}]

StartOf(packets, i) == IF i = 1 THEN 0 ELSE packets[i - 1].end

ASSUME PacketAssumption ==
    /\ HeaderLen \in Nat \ {0} /\ BufferSize \in Nat /\ MaxContent \in Nat \ {0}
    /\ Answers \subseteq [out : Nat, err : Nat]
    /\ \A packets \in Streams :
        /\ packets \in Seq(Packets)
        /\ \A i \in DOMAIN packets :
              StartOf(packets, i) + HeaderLen + packets[i].pad <= packets[i].end

VARIABLES stream,      \* the packets of this connection
          arrived,     \* bytes of it that reached our socket
          received,    \* bytes of it that were read
          consumed,    \* bytes of it taken out of _inputBuffer
          reading,     \* progress of the one asynchronous read
          delivered,   \* packets passed to _newPacketCallbackFn
          state,       \* PacketSocket::_state
          flushPosted, \* is flushProtocolSocket posted?
          peer,        \* is the web server still there?
          promised,    \* what sendReply was given for each request
          wire         \* the records written

readVars == <<stream, received, consumed, reading, delivered>>
pvars == <<readVars, arrived, state, flushPosted, peer, promised, wire>>

Unanswered == [out |-> 0]

PTypeOK ==
    /\ stream \in Streams
    /\ arrived \in Nat /\ received \in 0..arrived /\ consumed \in 0..received
    /\ reading \in {"unstarted", "armed", "loop", "done"}
    /\ delivered \in Seq(DOMAIN stream)
    /\ state \in {"OPEN", "CLOSED"}
    /\ flushPosted \in BOOLEAN
    /\ peer \in {"up", "gone"}
    /\ promised \in [Replies -> Answers \union {Unanswered}]

PInit ==
    /\ stream \in Streams
    /\ arrived = 0 /\ received = 0 /\ consumed = 0
    /\ reading = "unstarted"
    /\ delivered = <<>>
    /\ state = "OPEN"
    /\ flushPosted = FALSE
    /\ peer = "up"
    /\ promised = [r \in Replies |-> Unanswered]
    /\ wire = <<>>

-----------------------------------------------------------------------------
(* Writing. *)

(* Seeded fault: the loop of writePacket ends only after a short record. *)
ChunkLengths_UntilShort(length) ==
    LET chunks[n \in 0..length] ==
            IF n < MaxContent THEN <<n>> ELSE <<MaxContent>> \o chunks[n - MaxContent]
    IN  chunks[length]

(* writePacket cuts its content into records; no content is one record. *)
ChunkLengths(length) ==
    LET chunks[n \in 0..length] ==
            IF n <= MaxContent THEN <<n>> ELSE <<MaxContent>> \o chunks[n - MaxContent]
    IN  chunks[length]

(* The length field of a header has just enough bits for MaxContent. *)
Records(type, id, length) ==
    LET lengths == ChunkLengths(length)
    IN  [i \in DOMAIN lengths |->
            [type |-> type, id |-> id, length |-> lengths[i] % (MaxContent + 1)]]

(* Fixed bodies are one unit of content, and shorter than MaxContent. *)
ControlRecords == Records("CONTROL", 0, 1)
AbortRecords(id) == Records("REQUEST_COMPLETE", id, 1)

(* sendReply. *)
ReplyRecords(id, answer) ==
    (IF answer.out # 0 THEN Records("STDOUT", id, answer.out) ELSE <<>>)
    \o (IF answer.err # 0 THEN Records("STDERR", id, answer.err) ELSE <<>>)
    \o Records("STDOUT", id, 0)
    \o Records("STDERR", id, 0)
    \o Records("END_REQUEST", id, 1)

Close ==
    /\ state' = "CLOSED"
    /\ flushPosted' = (flushPosted \/ state = "OPEN")

WriteAll(records) == state = "OPEN" /\ wire' = wire \o records

(* Synchronous writes up to the first that fails, which closes the socket. *)
WriteFails(records) ==
    /\ state = "OPEN"
    /\ peer = "gone"
    /\ \E n \in 0..(Len(records) - 1) : wire' = wire \o SubSeq(records, 1, n)
    /\ Close

SendReply(r) ==
    /\ reading # "loop"
    /\ promised[r] = Unanswered
    /\ \E answer \in Answers :
        /\ promised' = [promised EXCEPT ![r] = answer]
        /\ \/ WriteAll(ReplyRecords(r, answer)) /\ UNCHANGED <<state, flushPosted>>
           \/ WriteFails(ReplyRecords(r, answer))
    /\ UNCHANGED <<readVars, arrived, peer>>

-----------------------------------------------------------------------------
(* Reading. *)

StartRead ==
    /\ reading = "unstarted"
    /\ reading' = "armed"
    /\ UNCHANGED <<stream, received, consumed, delivered, arrived, state, flushPosted, peer,
                   promised, wire>>

(* The handler of the read, up to its loop.  When close was called before it
   runs it returns, whether the read was cancelled or had completed. *)
HandleRead ==
    /\ reading = "armed"
    /\ \/ /\ state = "OPEN" /\ arrived > 0
          /\ received' \in 1..(IF arrived < BufferSize THEN arrived ELSE BufferSize)
          /\ reading' = "loop"
          /\ UNCHANGED <<state, flushPosted>>
       \/ /\ state = "OPEN" /\ peer = "gone"
          /\ reading' = "done"
          /\ Close
          /\ UNCHANGED received
       \/ /\ state = "CLOSED"
          /\ reading' = "done"
          /\ UNCHANGED <<received, state, flushPosted>>
    /\ UNCHANGED <<stream, consumed, delivered, arrived, peer, promised, wire>>

Buffered == received - consumed

(* The header at the start of the buffer is that of packet i. *)
HeaderOf(i) ==
    /\ reading = "loop"
    /\ Buffered >= HeaderLen
    /\ consumed = StartOf(stream, i)

Whole(i) == stream[i].end <= received

(* Seeded fault: the padding is left in the buffer. *)
Consume_NoPadding(i) == consumed' = stream[i].end - stream[i].pad

(* Seeded fault: more is taken than there is. *)
Consume_Unclamped(i) == consumed' = stream[i].end

(* streambuf::consume takes no more than there is. *)
Consume(i) == consumed' = IF Whole(i) THEN stream[i].end ELSE received

(* Seeded fault: a record of another version stays in the buffer. *)
RejectVersion_Break(i) ==
    /\ HeaderOf(i)
    /\ ~stream[i].ok
    /\ reading' = "done"
    /\ UNCHANGED <<stream, received, consumed, delivered, arrived, state, flushPosted, peer,
                   promised, wire>>

(* The version is looked at before the length: a record that is not whole
   is rejected too. *)
RejectVersion(i) ==
    /\ HeaderOf(i)
    /\ ~stream[i].ok
    /\ Consume(i)
    /\ UNCHANGED <<stream, received, reading, delivered, arrived, state, flushPosted, peer,
                   promised, wire>>

(* Seeded fault: a packet is delivered before its content is there. *)
Deliverable_Early(i) == HeaderOf(i) /\ stream[i].ok

Deliverable(i) == HeaderOf(i) /\ stream[i].ok /\ Whole(i)

(* Stdin, params and begin requests; any of them may throw, which changes
   nothing as long as the socket is open. *)
HandleData(i) ==
    /\ stream[i].kind = "data"
    /\ reading' \in IF state = "OPEN" THEN {"loop"} ELSE {"loop", "done"}
    /\ UNCHANGED <<state, flushPosted, wire>>

(* Packets answered at once. *)
HandleControl(i) ==
    /\ stream[i].kind = "control"
    /\ \/ WriteAll(ControlRecords) /\ UNCHANGED <<state, flushPosted, reading>>
       \/ WriteFails(ControlRecords) /\ reading' = "done"

(* An abort may close the connection that it leaves without requests.  The
   handler of one whose record cannot be written throws, and the loop goes
   on. *)
HandleAbort(i) ==
    /\ stream[i].kind = "abort"
    /\ \E r \in Replies :
        \/ /\ WriteAll(AbortRecords(r))
           /\ \/ UNCHANGED <<state, flushPosted, reading>>
              \/ Close /\ reading' = "done"
        \/ WriteFails(AbortRecords(r)) /\ UNCHANGED reading

DeliverPacket(i) ==
    /\ Deliverable(i)
    /\ delivered' = Append(delivered, i)
    /\ Consume(i)
    /\ HandleData(i) \/ HandleControl(i) \/ HandleAbort(i)
    /\ UNCHANGED <<stream, received, arrived, peer, promised>>

(* Too little is left.  Nothing reads again. *)
LoopEnd ==
    /\ reading = "loop"
    /\ \A i \in DOMAIN stream : HeaderOf(i) => stream[i].ok /\ ~Whole(i)
    /\ reading' = "done"
    /\ UNCHANGED <<stream, received, consumed, delivered, arrived, state, flushPosted, peer,
                   promised, wire>>

(* What was and was not read is thrown away. *)
FlushProtocolSocket ==
    /\ flushPosted
    /\ reading # "loop"
    /\ flushPosted' = FALSE
    /\ received' = arrived /\ consumed' = arrived
    /\ UNCHANGED <<stream, reading, delivered, arrived, state, peer, promised, wire>>

-----------------------------------------------------------------------------
(* The web server. *)
BytesArrive ==
    /\ peer = "up"
    /\ arrived' \in {n \in 1..StartOf(stream, Len(stream) + 1) : n > arrived}
    /\ UNCHANGED <<readVars, state, flushPosted, peer, promised, wire>>

PeerDisconnects ==
    /\ peer = "up"
    /\ peer' = "gone"
    /\ UNCHANGED <<readVars, arrived, state, flushPosted, promised, wire>>

LoopStep == LoopEnd \/ \E i \in DOMAIN stream : RejectVersion(i) \/ DeliverPacket(i)

PNext ==
    \/ StartRead \/ HandleRead \/ LoopStep \/ FlushProtocolSocket
    \/ \E r \in Replies : SendReply(r)
    \/ BytesArrive \/ PeerDisconnects

PSpec == PInit /\ [][PNext]_pvars

(* The io_service runs the read's handler, which runs to its end. *)
PFairSpec == PSpec /\ WF_pvars(StartRead) /\ WF_pvars(HandleRead) /\ WF_pvars(LoopStep)

-----------------------------------------------------------------------------
(* Packets are passed on in the order they were sent, each one whole, none
   twice, and none left out but those of another version: however the bytes
   were cut, whatever the handlers threw. *)
DeliveredInOrder ==
    /\ \A j, k \in DOMAIN delivered : j < k => delivered[j] < delivered[k]
    /\ \A k \in DOMAIN delivered :
        /\ stream[delivered[k]].ok /\ Whole(delivered[k])
        /\ \A i \in 1..delivered[k] : stream[i].ok => Contains(delivered, i)

(* What handleRead takes for a header is one: it never reads content or
   padding as a header, also after records it rejected unread. *)
HeadersAligned ==
    reading = "loop" /\ Buffered >= HeaderLen =>
        \E i \in DOMAIN stream : consumed = StartOf(stream, i)

(* What the web server makes of the records for one request: the bytes of
   each stream, the streams that ended, and whether anything came for a
   stream or a request that had ended.  It skips types it does not know. *)
ReplyTypes == {"STDOUT", "STDERR", "END_REQUEST"}

EmptyView == [bytes |-> [t \in ReplyTypes |-> 0], ended |-> {}, late |-> FALSE]

Decode(view, record) ==
    IF record.type \notin ReplyTypes THEN view
    ELSE [bytes |-> [view.bytes EXCEPT ![record.type] = @ + record.length],
          ended |-> IF record.length = 0 \/ record.type = "END_REQUEST"
                    THEN view.ended \union {record.type} ELSE view.ended,
          late  |-> view.late \/ record.type \in view.ended \/ "END_REQUEST" \in view.ended]

(* The records of other requests are not part of it. *)
Seen(view, record, r) == IF record.id = r THEN Decode(view, record) ELSE view

View(records, r) ==
    LET views[n \in 0..Len(records)] ==
            IF n = 0 THEN EmptyView ELSE Seen(views[n - 1], records[n], r)
    IN  views[Len(records)]

(* Whatever lengths the buffers have, an answer that ends is the answer that
   was given: both streams whole and ended once, before the request ends,
   also when an abort or another request's answer comes in between. *)
Matches(view, answer) ==
    /\ ~view.late
    /\ "END_REQUEST" \in view.ended =>
          /\ {"STDOUT", "STDERR"} \subseteq view.ended
          /\ view.bytes["STDOUT"] = answer.out
          /\ view.bytes["STDERR"] = answer.err

AnswersDecode == \A r \in Replies : Matches(View(wire, r), promised[r])

(* A packet that came whole with the first read reaches its handler, or the
   socket is closed. *)
FirstReadIsDelivered ==
    \A i \in 1..3 :
        (i \in DOMAIN stream /\ reading = "loop" /\ stream[i].ok /\ Whole(i))
            ~> (Contains(delivered, i) \/ state = "CLOSED")

(* handleRead "Calls the newPacketCallbackFn when a complete packet is
   received": every packet that arrived whole is delivered. *)
ArrivedIsDelivered ==
    \A i \in 1..3 :
        (i \in DOMAIN stream /\ stream[i].ok /\ arrived >= stream[i].end)
            ~> (Contains(delivered, i) \/ state = "CLOSED")

=============================================================================
