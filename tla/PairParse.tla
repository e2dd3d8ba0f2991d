------------------------------ MODULE PairParse ------------------------------
(***************************************************************************)
(* PairParseFunctions.h: ParsePairs, step by step, over what WritePair     *)
(* writes, over what is left of it when its end is cut off, and over       *)
(* arbitrary bytes.                                                        *)
(*                                                                         *)
(* A byte has Base values.  A length below half of that is one byte, any   *)
(* other is four, the first of them with its highest bit set.              *)
(***************************************************************************)
EXTENDS Integers, SequencesExt

CONSTANTS Base,    \* 256
          Lists,   \* lists of pairs that are written and parsed again
          Others   \* byte sequences that nobody wrote

Bytes == 0..(Base - 1)
Half == Base \div 2
PairsOf(S) == [key : S, value : S]

(* Four bytes less the highest bit hold the length of a name or a value; of a
   longer one WritePair would write the length without what does not fit. *)
Limit == Half * (Base * Base * Base)
Strings == {s \in Seq(Bytes) : Len(s) < Limit}

ASSUME PairAssumption ==
    /\ Base \in Nat \ {0} /\ Base % 2 = 0
    /\ \A list \in Lists : list \in Seq(PairsOf(Strings))
    /\ Others \subseteq Seq(Bytes)

VARIABLES written,     \* the pairs of the input, if it was written
          isWritten,
          data,
          m,
          pc,          \* the statement ParsePairs is at
          nameLength,
          valueLength,
          key,
          pairs,
          readTo       \* the end of what was read of data

inputVars == <<written, isWritten, data>>
pairVars == <<inputVars, m, pc, nameLength, valueLength, key, pairs, readTo>>

-----------------------------------------------------------------------------
(* WritePair. *)

(* Seeded fault: a length of Half is written as one byte. *)
EncodeLength_OffByOne(k) ==
    IF k <= Half THEN <<k>>
    ELSE <<Half + ((k \div (Base * Base * Base)) % Half), (k \div (Base * Base)) % Base, (k \div Base) % Base, k % Base>>

EncodeLength(k) ==
    IF k < Half THEN <<k>>
    ELSE <<Half + ((k \div (Base * Base * Base)) % Half), (k \div (Base * Base)) % Base, (k \div Base) % Base, k % Base>>

WritePair(buffer, pair) ==
    buffer \o EncodeLength(Len(pair.key)) \o EncodeLength(Len(pair.value))
           \o pair.key \o pair.value

Encode(list) ==
    LET buffers[n \in 0..Len(list)] ==
            IF n = 0 THEN <<>> ELSE WritePair(buffers[n - 1], list[n])
    IN  buffers[Len(list)]

-----------------------------------------------------------------------------
(* ParsePairs. *)

PairInit ==
    /\ \/ /\ isWritten = TRUE
          /\ written \in Lists
          /\ \E n \in 0..Len(Encode(written)) : data = SubSeq(Encode(written), 1, n)
       \/ /\ isWritten = FALSE
          /\ written = <<>>
          /\ data \in Others
    /\ m = 0
    /\ pc = "nameLength"
    /\ nameLength = 0 /\ valueLength = 0
    /\ key = <<>>
    /\ pairs = [k \in {} |-> <<>>]
    /\ readTo = 0

Left == Len(data) - m

(* Bytes beyond the end could be anything. *)
Byte(i) == IF i < Len(data) THEN data[i + 1] ELSE 0

(* Seeded fault: three bytes are enough for a long length. *)
LongLengthFits_OffByOne == Left >= 3

LongLengthFits == Left >= 4

(* A length at m, of one or of four bytes. *)
DecodeLength(length) ==
    \/ /\ Byte(m) < Half
       /\ length' = Byte(m)
       /\ m' = m + 1
    \/ /\ Byte(m) >= Half /\ LongLengthFits
       /\ length' = (Byte(m) % Half) * (Base * Base * Base) + Byte(m + 1) * (Base * Base)
                    + Byte(m + 2) * Base + Byte(m + 3)
       /\ m' = m + 4

LengthIsCutOff ==
    /\ Byte(m) >= Half /\ ~LongLengthFits
    /\ pc' = "done"
    /\ readTo' = m + 1
    /\ UNCHANGED <<m, nameLength, valueLength>>

(* The loop's condition and the length of the name. *)
ParseNameLength ==
    /\ pc = "nameLength"
    /\ m < Len(data)
    /\ \/ LengthIsCutOff
       \/ /\ DecodeLength(nameLength)
          /\ readTo' = m'
          /\ pc' = IF m' >= Len(data) THEN "done" ELSE "valueLength"
          /\ UNCHANGED valueLength
    /\ UNCHANGED <<inputVars, key, pairs>>

LoopEnd ==
    /\ pc = "nameLength"
    /\ m >= Len(data)
    /\ pc' = "done"
    /\ UNCHANGED <<inputVars, m, nameLength, valueLength, key, pairs, readTo>>

ParseValueLength ==
    /\ pc = "valueLength"
    /\ \/ LengthIsCutOff
       \/ /\ DecodeLength(valueLength)
          /\ readTo' = m'
          /\ pc' = "name"
          /\ UNCHANGED nameLength
    /\ UNCHANGED <<inputVars, key, pairs>>

(* A name or a value of the given length. *)
Take(length) == SubSeq(data, m + 1, m + length)

ParseName ==
    /\ pc = "name"
    /\ IF Left < nameLength
       THEN pc' = "done" /\ UNCHANGED <<m, key, readTo>>
       ELSE /\ key' = Take(nameLength)
            /\ m' = m + nameLength
            /\ readTo' = m'
            /\ pc' = "value"
    /\ UNCHANGED <<inputVars, nameLength, valueLength, pairs>>

(* Seeded fault: a later pair replaces an earlier one of the same name. *)
Insert_Replace(value) ==
    pairs' = [k \in DOMAIN pairs \union {key} |-> IF k = key THEN value ELSE pairs[k]]

(* map::insert keeps an entry that is there. *)
Insert(value) ==
    pairs' = [k \in DOMAIN pairs \union {key} |-> IF k \in DOMAIN pairs THEN pairs[k] ELSE value]

ParseValue ==
    /\ pc = "value"
    /\ IF Left < valueLength
       THEN pc' = "done" /\ UNCHANGED <<m, pairs, readTo>>
       ELSE /\ Insert(Take(valueLength))
            /\ m' = m + valueLength
            /\ readTo' = m'
            /\ pc' = "nameLength"
    /\ UNCHANGED <<inputVars, nameLength, valueLength, key>>

ParseStep == ParseNameLength \/ LoopEnd \/ ParseValueLength \/ ParseName \/ ParseValue

PairSpec == PairInit /\ [][ParseStep]_pairVars

-----------------------------------------------------------------------------
(* Whatever the bytes are, nothing is read behind the last of them: no length
   that is cut off, no name or value that is longer than what is left; and m
   stays where the difference of the two unsigned numbers does not wrap. *)
ReadsInBounds == m <= Len(data) /\ readTo <= Len(data)

PairTypeOK ==
    /\ data \in Seq(Bytes)
    /\ m \in Nat /\ readTo \in Nat
    /\ pc \in {"nameLength", "valueLength", "name", "value", "done"}
    /\ nameLength \in Nat /\ valueLength \in Nat
    /\ key \in Seq(Bytes)
    /\ pairs \in UNION {[K -> Seq(Bytes)] : K \in SUBSET Seq(Bytes)}

(* The pairs that are whole in what was not cut off. *)
WholePairs ==
    LET WholeUpTo(k) == Len(Encode(SubSeq(written, 1, k))) <= Len(data)
        last == CHOOSE k \in 0..Len(written) :
                   WholeUpTo(k) /\ \A j \in 0..Len(written) : WholeUpTo(j) => j <= k
    IN  SubSeq(written, 1, last)

(* The value of a name is that of the first pair that has it. *)
FirstOf(list) ==
    [k \in {list[i].key : i \in DOMAIN list} |->
        list[CHOOSE i \in DOMAIN list :
                /\ list[i].key = k
                /\ \A j \in DOMAIN list : list[j].key = k => i <= j].value]

(* ParsePairs takes WritePair back: wherever its end was cut off, it finds
   the pairs that are whole and nothing else, at every length. *)
ParsesWholePairs == pc = "done" /\ isWritten => pairs = FirstOf(WholePairs)

=============================================================================
