---------------------------- MODULE MCPairParse ----------------------------
(* Instances of PairParse for TLC: bytes of two bits, lists of up to two
   pairs with names and values of one- and four-byte lengths, zero included,
   cut off anywhere, and every byte sequence up to five long. *)
EXTENDS PairParse

MCStrings == {<<>>, <<1>>, <<2, 3>>, <<3, 0, 1>>}
MCLists == BoundedSeq(PairsOf(MCStrings), 2)
MCOthers == BoundedSeq(Bytes, 5)
=============================================================================
