--------------------------- MODULE MCPacketSocket ---------------------------
(* Instances of PacketSocket for TLC: headers of two bytes, a buffer that
   holds two packets, streams with a packet that does not fit, one of another
   version, padding, and packets whose handlers write. *)
EXTENDS PacketSocket

Packet(end, pad, ok, kind) == [end |-> end, pad |-> pad, ok |-> ok, kind |-> kind]

MCStreams == {
    <<Packet(3, 0, TRUE, "data"), Packet(6, 1, TRUE, "abort"), Packet(8, 0, TRUE, "data")>>,
    <<Packet(3, 0, FALSE, "data"), Packet(5, 0, TRUE, "control"), Packet(8, 1, TRUE, "data")>>,
    <<Packet(4, 2, TRUE, "abort"), Packet(7, 0, FALSE, "abort")>>}

(* Empty buffers, content that fills its last record and content that does not. *)
MCAnswers == {[out |-> 0, err |-> 0], [out |-> 4, err |-> 3], [out |-> 0, err |-> 2]}
=============================================================================
