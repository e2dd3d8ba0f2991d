-------------------------- MODULE PairParseProofs --------------------------
(***************************************************************************)
(* ParsePairs reads nothing behind the end of its input, whatever the      *)
(* input is; and what it finds in what WritePair wrote are the pairs that  *)
(* were written, as many of them as are whole.  Both for every number of   *)
(* values a byte may have, for every list and wherever it is cut off.      *)
(***************************************************************************)
EXTENDS PairParse, InductionFacts, SequenceTheorems, TLAPS

(* Bytes are numbers, and half of them are left when the highest bit is cut
   off. *)
LEMMA BytesAreNat == Half \in Nat \ {0} /\ Bytes \subseteq Nat
BY PairAssumption, SMT DEF Half, Bytes

(* Division of natural numbers. *)
LEMMA DivideNat ==
    ASSUME NEW a \in Nat, NEW b \in Nat, b > 0
    PROVE  /\ a \div b \in Nat /\ a % b \in Nat /\ a % b < b
           /\ a = (a \div b) * b + (a % b)
BY SMT

(* A greater number of whole parts is a greater product. *)
LEMMA TimesMonotonic ==
    ASSUME NEW p \in Nat, NEW q \in Nat, NEW b \in Nat, p < q
    PROVE  p * b + b <= q * b
<1>1. PICK d \in Nat : q = p + 1 + d
  <2>1. q - p - 1 \in Nat /\ q = p + 1 + (q - p - 1)
    OBVIOUS
  <2> QED  BY <2>1
<1>2. (p + 1 + d) * b = p * b + b + d * b
  BY SMT
<1>3. d * b \in Nat /\ p * b \in Nat
  BY SMT
<1> QED  BY <1>1, <1>2, <1>3, SMT

(* A product of a sum. *)
LEMMA Distributes ==
    ASSUME NEW a \in Nat, NEW b \in Nat, NEW c \in Nat, NEW d \in Nat
    PROVE  (a * b + c) * d = a * (b * d) + c * d
BY SMT

(* There is one quotient and one remainder. *)
LEMMA DivideUnique ==
    ASSUME NEW a \in Nat, NEW b \in Nat, b > 0,
           NEW q \in Nat, NEW r \in Nat, r < b, a = q * b + r
    PROVE  a \div b = q /\ a % b = r
<1> DEFINE p == a \div b
           s == a % b
<1>1. p \in Nat /\ s \in Nat /\ s < b /\ a = p * b + s
  BY DivideNat
<1> HIDE DEF p, s
<1>2. p * b \in Nat /\ q * b \in Nat
  BY <1>1, SMT
<1>3. CASE p < q
  BY <1>1, <1>2, <1>3, TimesMonotonic
<1>4. CASE q < p
  BY <1>1, <1>2, <1>4, TimesMonotonic
<1>5. CASE p = q
  BY <1>1, <1>2, <1>5 DEF p, s
<1> QED  BY <1>1, <1>3, <1>4, <1>5

(* Dividing twice. *)
LEMMA DivideTwice ==
    ASSUME NEW a \in Nat, NEW b \in Nat, b > 0, NEW c \in Nat, c > 0
    PROVE  (a \div b) \div c = a \div (b * c)
<1> DEFINE q == a \div b
           r == a % b
           p == q \div c
           s == q % c
           d == b * c
           rest == s * b + r
<1>1. q \in Nat /\ r \in Nat /\ r < b /\ a = q * b + r
  BY DivideNat
<1> HIDE DEF q, r
<1>2. p \in Nat /\ s \in Nat /\ s < c /\ q = p * c + s
  BY <1>1, DivideNat
<1> HIDE DEF p, s
<1>3. d \in Nat /\ c * b = d
  BY SMT
<1>4. (p * c + s) * b = p * (b * c) + s * b
  BY <1>2, SMT
<1>5. a = p * d + rest
  <2>1. s * b \in Nat /\ p * d \in Nat
    BY <1>2, <1>3, SMT
  <2> HIDE DEF d
  <2>2. q * b = p * d + s * b
    BY <1>2, <1>4 DEF d
  <2> QED  BY <1>1, <2>1, <2>2
<1>6. s * b + b <= d
  BY <1>2, <1>3, TimesMonotonic
<1>7. rest \in Nat /\ rest < d
  <2>1. s * b \in Nat
    BY <1>2, SMT
  <2> HIDE DEF d
  <2> QED  BY <1>1, <1>3, <1>6, <2>1
<1> HIDE DEF d, rest
<1>8. a \div d = p
  BY <1>2, <1>3, <1>5, <1>7, DivideUnique
<1> QED  BY <1>8 DEF d, p, q

-----------------------------------------------------------------------------
(* The number that four bytes are read as. *)
Joined(a, b, c, d) ==
    (a % Half) * (Base * Base * Base) + b * (Base * Base) + c * Base + d

(* w is the length n in one byte or in four. *)
IsLength(w, n) ==
    /\ w \in Seq(Bytes)
    /\ \/ Len(w) = 1 /\ n < Half /\ w[1] = n
       \/ Len(w) = 4 /\ w[1] >= Half /\ Joined(w[1], w[2], w[3], w[4]) = n

(* The four parts of a length make it up again. *)
LEMMA PartsJoin ==
    ASSUME NEW n \in Nat, n < Limit,
           NEW p, p = n \div (Base * Base * Base),
           NEW q, q = (n \div (Base * Base)) % Base,
           NEW r, r = (n \div Base) % Base,
           NEW s, s = n % Base
    PROVE  /\ p \in Nat /\ q \in Nat /\ r \in Nat /\ s \in Nat
           /\ p < Half /\ q < Base /\ r < Base /\ s < Base
           /\ n = p * (Base * Base * Base) + q * (Base * Base) + r * Base + s
<1> DEFINE square == Base * Base
           cube == Base * Base * Base
           n1 == n \div Base
           n2 == n \div square
           n3 == n \div cube
<1>1. Base \in Nat /\ Base > 0
  BY PairAssumption
<1>2. square \in Nat /\ square > 0 /\ cube = square * Base /\ cube \in Nat /\ cube > 0
  <2>1. square \in Nat /\ square > 0
    BY <1>1, SMT
  <2>2. cube = square * Base
    OBVIOUS
  <2> HIDE DEF square, cube
  <2>3. cube \in Nat /\ cube > 0
    BY <1>1, <2>1, <2>2, SMT
  <2> QED  BY <2>1, <2>2, <2>3
<1>3. n2 = n1 \div Base
  BY <1>1, DivideTwice
<1>4. n3 = n2 \div Base
  <2> HIDE DEF square, cube
  <2>1. (n \div square) \div Base = n \div (square * Base)
    BY <1>1, <1>2, DivideTwice
  <2> QED  BY <1>2, <2>1
<1>5. p = n3 /\ q = n2 % Base /\ r = n1 % Base /\ Limit = Half * cube
  BY DEF Limit
<1>6. n1 \in Nat /\ s \in Nat /\ s < Base /\ n = n1 * Base + s
  BY <1>1, DivideNat
<1> HIDE DEF n1
<1>7. n2 \in Nat /\ r \in Nat /\ r < Base /\ n1 = n2 * Base + r
  BY <1>1, <1>3, <1>5, <1>6, DivideNat
<1> HIDE DEF n2
<1>8. n3 \in Nat /\ q \in Nat /\ q < Base /\ n2 = n3 * Base + q
  BY <1>1, <1>4, <1>5, <1>7, DivideNat
<1>9. p < Half
  <2>1. Half \in Nat
    BY BytesAreNat
  <2>2. n = (n \div cube) * cube + (n % cube) /\ n % cube \in Nat
    <3> HIDE DEF cube
    <3> QED  BY <1>2, DivideNat
  <2> HIDE DEF cube, n3
  <2>3. p * cube <= n
    <3>1. p * cube \in Nat
      BY <1>2, <1>5, <1>8, SMT
    <3> QED  BY <1>5, <2>2, <3>1 DEF n3
  <2>4. SUFFICES ASSUME ~(p < Half) PROVE FALSE
    OBVIOUS
  <2>5. Half * cube <= p * cube
    <3>1. CASE p = Half
      <4>1. p * cube \in Nat
        BY <1>2, <1>5, <1>8, SMT
      <4> QED  BY <3>1, <4>1
    <3>2. CASE Half < p
      <4>1. Half * cube + cube <= p * cube
        BY <1>2, <1>5, <1>8, <2>1, <3>2, TimesMonotonic
      <4>2. p * cube \in Nat /\ Half * cube \in Nat
        BY <1>2, <1>5, <1>8, <2>1, SMT
      <4> QED  BY <1>2, <4>1, <4>2
    <3> QED  BY <1>5, <1>8, <2>1, <2>4, <3>1, <3>2
  <2>6. p * cube \in Nat /\ Half * cube \in Nat
    BY <1>2, <1>5, <1>8, <2>1, SMT
  <2> QED  BY <1>5, <2>3, <2>5, <2>6
<1>10. n = p * cube + q * square + r * Base + s
  <2>1. Base * square = cube
    BY <1>1, SMT
  <2>2. (n2 * Base + r) * Base = n2 * square + r * Base
    BY <1>1, <1>7, Distributes
  <2>3. (n3 * Base + q) * square = n3 * cube + q * square
    <3> HIDE DEF square, cube, n3
    <3>1. (n3 * Base + q) * square = n3 * (Base * square) + q * square
      BY <1>1, <1>2, <1>8, Distributes
    <3> QED  BY <2>1, <3>1
  <2>4. n2 * square = n3 * cube + q * square
    BY <1>8, <2>3
  <2>5. n1 * Base = n2 * square + r * Base
    BY <1>7, <2>2
  <2>6. n3 * cube \in Nat /\ q * square \in Nat /\ r * Base \in Nat
    <3> HIDE DEF square, cube, n3
    <3> QED  BY <1>1, <1>2, <1>7, <1>8, SMT
  <2> HIDE DEF square, cube, n3
  <2> QED  BY <1>5, <1>6, <2>4, <2>5, <2>6
<1> QED  BY <1>5, <1>6, <1>7, <1>8, <1>9, <1>10

(* What EncodeLength writes is the length. *)
LEMMA EncodeLengthIsLength ==
    ASSUME NEW n \in Nat, n < Limit
    PROVE  IsLength(EncodeLength(n), n)
<1>1. Half \in Nat /\ Half > 0 /\ Half + Half = Base /\ Base \in Nat
  BY PairAssumption, SMT DEF Half
<1>2. CASE n < Half
  <2>1. EncodeLength(n) = <<n>>
    BY <1>2 DEF EncodeLength
  <2>2. n \in Bytes
    BY <1>1, <1>2 DEF Bytes
  <2>3. <<n>> \in Seq(Bytes) /\ Len(<<n>>) = 1 /\ <<n>>[1] = n
    BY <2>2
  <2> QED  BY <1>2, <2>1, <2>3 DEF IsLength
<1>3. CASE ~(n < Half)
  <2> DEFINE p == n \div (Base * Base * Base)
             q == (n \div (Base * Base)) % Base
             r == (n \div Base) % Base
             s == n % Base
             first == Half + (p % Half)
             w == <<first, q, r, s>>
  <2>1. EncodeLength(n) = w
    BY <1>3 DEF EncodeLength
  <2>2. /\ p \in Nat /\ q \in Nat /\ r \in Nat /\ s \in Nat
        /\ p < Half /\ q < Base /\ r < Base /\ s < Base
        /\ n = p * (Base * Base * Base) + q * (Base * Base) + r * Base + s
    <3> HIDE DEF p, q, r, s
    <3> QED  BY PartsJoin DEF p, q, r, s
  <2> HIDE DEF p, q, r, s
  <2>3. p % Half = p
    BY <1>1, <2>2, SMT
  <2>4. first = Half + p /\ first % Half = p
    BY <1>1, <2>2, <2>3, SMT
  <2>5. first \in Bytes /\ q \in Bytes /\ r \in Bytes /\ s \in Bytes
    BY <1>1, <2>2, <2>4 DEF Bytes
  <2> HIDE DEF first
  <2>6. w \in Seq(Bytes) /\ Len(w) = 4 /\ w[1] = first /\ w[2] = q /\ w[3] = r /\ w[4] = s
    BY <2>5
  <2>7. w[1] >= Half
    BY <1>1, <2>2, <2>4, <2>6
  <2>8. Joined(w[1], w[2], w[3], w[4]) = n
    BY <2>2, <2>4, <2>6 DEF Joined
  <2> HIDE DEF w
  <2> QED  BY <2>1, <2>6, <2>7, <2>8 DEF IsLength
<1> QED  BY <1>2, <1>3

-----------------------------------------------------------------------------
(* s stands in w behind the first at elements. *)
Stands(w, at, s) ==
    /\ at + Len(s) <= Len(w)
    /\ \A i \in 1..Len(s) : w[at + i] = s[i]

(* What is appended stands at the end. *)
LEMMA StandsLast ==
    ASSUME NEW w \in Seq(Bytes), NEW s \in Seq(Bytes), NEW ws, ws = w \o s
    PROVE  /\ ws \in Seq(Bytes) /\ Len(ws) = Len(w) + Len(s)
           /\ Stands(ws, Len(w), s)
<1>1. Len(w) \in Nat /\ Len(s) \in Nat
  BY LenProperties
<1>2. ws \in Seq(Bytes) /\ Len(ws) = Len(w) + Len(s)
  BY ConcatProperties
<1>3. ASSUME NEW i \in 1..Len(s) PROVE ws[Len(w) + i] = s[i]
  <2>1. Len(w) + i \in 1..(Len(w) + Len(s)) /\ ~(Len(w) + i <= Len(w))
        /\ (Len(w) + i) - Len(w) = i
    BY <1>1
  <2> QED  BY <2>1, ConcatProperties
<1> QED  BY <1>1, <1>2, <1>3 DEF Stands

(* What stands somewhere still does after something is appended. *)
LEMMA StandsBefore ==
    ASSUME NEW w \in Seq(Bytes), NEW u \in Seq(Bytes), NEW wu, wu = w \o u,
           NEW s \in Seq(Bytes), NEW at \in Nat, Stands(w, at, s)
    PROVE  Stands(wu, at, s)
<1>1. Len(w) \in Nat /\ Len(u) \in Nat /\ Len(s) \in Nat
  BY LenProperties
<1>2. Len(wu) = Len(w) + Len(u) /\ at + Len(s) <= Len(w)
  BY ConcatProperties DEF Stands
<1>3. ASSUME NEW i \in 1..Len(s) PROVE wu[at + i] = s[i]
  <2>1. at + i \in 1..(Len(w) + Len(u)) /\ at + i <= Len(w)
    BY <1>1, <1>2
  <2>2. wu[at + i] = w[at + i]
    BY <2>1, ConcatProperties
  <2> QED  BY <2>2 DEF Stands
<1> QED  BY <1>1, <1>2, <1>3 DEF Stands

-----------------------------------------------------------------------------
(* Where the four parts of the pair x are when it begins behind the first at
   elements. *)
AtValueLength(at, x) == at + Len(EncodeLength(Len(x.key)))
AtName(at, x) == AtValueLength(at, x) + Len(EncodeLength(Len(x.value)))
AtValue(at, x) == AtName(at, x) + Len(x.key)
AtEnd(at, x) == AtValue(at, x) + Len(x.value)

(* WritePair's four parts stand where they should. *)
PairStands(w, at, x) ==
    /\ Stands(w, at, EncodeLength(Len(x.key)))
    /\ Stands(w, AtValueLength(at, x), EncodeLength(Len(x.value)))
    /\ Stands(w, AtName(at, x), x.key)
    /\ Stands(w, AtValue(at, x), x.value)

(* The parts of a pair are bytes, and each begins behind the one before. *)
LEMMA PartsAreBytes ==
    ASSUME NEW x \in PairsOf(Strings), NEW at \in Nat
    PROVE  /\ IsLength(EncodeLength(Len(x.key)), Len(x.key))
           /\ IsLength(EncodeLength(Len(x.value)), Len(x.value))
           /\ EncodeLength(Len(x.key)) \in Seq(Bytes)
           /\ EncodeLength(Len(x.value)) \in Seq(Bytes)
           /\ x.key \in Seq(Bytes) /\ x.value \in Seq(Bytes)
           /\ Len(x.key) \in Nat /\ Len(x.value) \in Nat
           /\ Len(EncodeLength(Len(x.key))) \in Nat \ {0}
           /\ Len(EncodeLength(Len(x.value))) \in Nat \ {0}
           /\ AtValueLength(at, x) \in Nat /\ AtName(at, x) \in Nat
           /\ AtValue(at, x) \in Nat /\ AtEnd(at, x) \in Nat
           /\ at < AtValueLength(at, x) /\ AtValueLength(at, x) < AtName(at, x)
           /\ AtName(at, x) <= AtValue(at, x) /\ AtValue(at, x) <= AtEnd(at, x)
<1>1. x.key \in Strings /\ x.value \in Strings
  BY DEF PairsOf
<1>2. /\ x.key \in Seq(Bytes) /\ Len(x.key) < Limit
      /\ x.value \in Seq(Bytes) /\ Len(x.value) < Limit
  BY <1>1 DEF Strings
<1>3. Len(x.key) \in Nat /\ Len(x.value) \in Nat
  BY <1>2, LenProperties
<1>4. /\ IsLength(EncodeLength(Len(x.key)), Len(x.key))
      /\ IsLength(EncodeLength(Len(x.value)), Len(x.value))
  BY <1>2, <1>3, EncodeLengthIsLength
<1>5. /\ EncodeLength(Len(x.key)) \in Seq(Bytes)
      /\ EncodeLength(Len(x.value)) \in Seq(Bytes)
      /\ Len(EncodeLength(Len(x.key))) \in Nat \ {0}
      /\ Len(EncodeLength(Len(x.value))) \in Nat \ {0}
  BY <1>4 DEF IsLength
<1> DEFINE a == Len(EncodeLength(Len(x.key)))
           b == Len(EncodeLength(Len(x.value)))
           c == Len(x.key)
           d == Len(x.value)
<1>6. /\ AtValueLength(at, x) = at + a /\ AtName(at, x) = at + a + b
      /\ AtValue(at, x) = at + a + b + c /\ AtEnd(at, x) = at + a + b + c + d
  BY DEF AtValueLength, AtName, AtValue, AtEnd
<1>7. a \in Nat \ {0} /\ b \in Nat \ {0} /\ c \in Nat /\ d \in Nat
  BY <1>3, <1>5
<1> HIDE DEF a, b, c, d
<1>8. /\ AtValueLength(at, x) \in Nat /\ AtName(at, x) \in Nat
      /\ AtValue(at, x) \in Nat /\ AtEnd(at, x) \in Nat
      /\ at < AtValueLength(at, x) /\ AtValueLength(at, x) < AtName(at, x)
      /\ AtName(at, x) <= AtValue(at, x) /\ AtValue(at, x) <= AtEnd(at, x)
  BY <1>6, <1>7
<1> QED  BY <1>2, <1>3, <1>4, <1>5, <1>8

(* WritePair writes the pair behind what the buffer holds. *)
LEMMA WrittenPairStands ==
    ASSUME NEW b \in Seq(Bytes), NEW x \in PairsOf(Strings), NEW bx, bx = WritePair(b, x)
    PROVE  /\ bx \in Seq(Bytes)
           /\ Len(bx) = AtEnd(Len(b), x)
           /\ PairStands(bx, Len(b), x)
           /\ \A at \in Nat : \A s \in Seq(Bytes) : Stands(b, at, s) => Stands(bx, at, s)
<1> DEFINE nl == EncodeLength(Len(x.key))
           vl == EncodeLength(Len(x.value))
           b1 == b \o nl
           b2 == b1 \o vl
           k == x.key
           b3 == b2 \o k
<1>1. Len(b) \in Nat
  BY LenProperties
<1>2. nl \in Seq(Bytes) /\ vl \in Seq(Bytes) /\ k \in Seq(Bytes) /\ x.value \in Seq(Bytes)
  BY <1>1, PartsAreBytes
<1>3. bx = b3 \o x.value
  BY DEF WritePair
<1> HIDE DEF nl, vl, k, b1
<1>4. b1 \in Seq(Bytes) /\ Len(b1) = Len(b) + Len(nl) /\ Stands(b1, Len(b), nl)
  BY <1>2, StandsLast DEF b1
<1> HIDE DEF b2
<1>5. b2 \in Seq(Bytes) /\ Len(b2) = Len(b1) + Len(vl) /\ Stands(b2, Len(b1), vl)
  BY <1>2, <1>4, StandsLast DEF b2
<1> HIDE DEF b3
<1>6. b3 \in Seq(Bytes) /\ Len(b3) = Len(b2) + Len(k) /\ Stands(b3, Len(b2), k)
  BY <1>2, <1>5, StandsLast DEF b3
<1>7. bx \in Seq(Bytes) /\ Len(bx) = Len(b3) + Len(x.value) /\ Stands(bx, Len(b3), x.value)
  BY <1>2, <1>3, <1>6, StandsLast
<1>8. /\ Len(b1) = AtValueLength(Len(b), x) /\ Len(b2) = AtName(Len(b), x)
      /\ Len(b3) = AtValue(Len(b), x) /\ Len(bx) = AtEnd(Len(b), x)
  BY <1>4, <1>5, <1>6, <1>7 DEF AtValueLength, AtName, AtValue, AtEnd, nl, vl, k
<1>9. Len(b1) \in Nat /\ Len(b2) \in Nat /\ Len(b3) \in Nat
  BY <1>4, <1>5, <1>6, LenProperties
<1>10. ASSUME NEW at \in Nat, NEW s \in Seq(Bytes)
       PROVE  /\ Stands(b, at, s) => Stands(b1, at, s)
              /\ Stands(b1, at, s) => Stands(b2, at, s)
              /\ Stands(b2, at, s) => Stands(b3, at, s)
              /\ Stands(b3, at, s) => Stands(bx, at, s)
  <2>1. Stands(b, at, s) => Stands(b1, at, s)
    BY <1>2, StandsBefore DEF b1
  <2>2. Stands(b1, at, s) => Stands(b2, at, s)
    BY <1>2, <1>4, StandsBefore DEF b2
  <2>3. Stands(b2, at, s) => Stands(b3, at, s)
    BY <1>2, <1>5, StandsBefore DEF b3
  <2>4. Stands(b3, at, s) => Stands(bx, at, s)
    BY <1>2, <1>3, <1>6, StandsBefore
  <2> QED  BY <2>1, <2>2, <2>3, <2>4
<1>11. /\ Stands(bx, Len(b), nl) /\ Stands(bx, Len(b1), vl)
       /\ Stands(bx, Len(b2), k) /\ Stands(bx, Len(b3), x.value)
  BY <1>1, <1>2, <1>4, <1>5, <1>6, <1>7, <1>9, <1>10
<1>12. PairStands(bx, Len(b), x)
  BY <1>8, <1>11 DEF PairStands, nl, vl, k
<1> QED  BY <1>7, <1>8, <1>10, <1>12

-----------------------------------------------------------------------------
(* f holds the buffer after each of the pairs of a list. *)
Fills(f, list) ==
    \A n \in 0..Len(list) :
        f[n] = IF n = 0 THEN <<>> ELSE WritePair(f[n - 1], list[n])

(* Encode is what the recursion it is defined by comes to. *)
LEMMA EncodeFills ==
    ASSUME NEW list, Len(list) \in Nat
    PROVE  \E f : Encode(list) = f[Len(list)] /\ Fills(f, list)
<1> DEFINE Holds(f, l) ==
               f = [n \in 0..l |-> IF n = 0 THEN <<>> ELSE WritePair(f[n - 1], list[n])]
           Reached == {l \in Nat : \E f : Holds(f, l)}
           buffers == CHOOSE f : Holds(f, Len(list))
<1>1. Encode(list) = buffers[Len(list)]
  BY DEF Encode
<1>2. 0 \in Reached
  <2>1. Holds([n \in 0..0 |-> <<>>], 0)
    OBVIOUS
  <2> QED  BY <2>1
<1>3. ASSUME NEW l \in Nat, l \in Reached PROVE l + 1 \in Reached
  <2>1. PICK f : Holds(f, l)
    BY <1>3
  <2> DEFINE h == [n \in 0..(l + 1) |-> IF n <= l THEN f[n] ELSE WritePair(f[l], list[n])]
  <2>2. ASSUME NEW n \in 0..(l + 1)
        PROVE  h[n] = IF n = 0 THEN <<>> ELSE WritePair(h[n - 1], list[n])
    <3>1. CASE n = 0
      BY <2>1, <3>1
    <3>2. CASE n # 0 /\ n <= l
      BY <2>1, <3>2
    <3>3. CASE n = l + 1
      BY <3>3
    <3> QED  BY <3>1, <3>2, <3>3
  <2>3. h = [n \in 0..(l + 1) |-> h[n]]
    OBVIOUS
  <2>4. Holds(h, l + 1)
    <3> HIDE DEF h
    <3> QED  BY <2>2, <2>3
  <2>5. \E g : Holds(g, l + 1)
    <3> HIDE DEF h, Holds
    <3> QED  BY <2>4
  <2> QED  BY <2>5
<1>4. Len(list) \in Reached
  <2> HIDE DEF Reached
  <2> QED  BY <1>2, <1>3, SetInduction
<1>5. \E f : Holds(f, Len(list))
  BY <1>4
<1>6. Holds(buffers, Len(list))
  <2> HIDE DEF Holds
  <2> QED  BY <1>5
<1>7. Fills(buffers, list)
  <2> HIDE DEF buffers
  <2> QED  BY <1>6 DEF Fills
<1> QED  BY <1>1, <1>7

(* Lists that begin alike are written alike. *)
LEMMA FillsAgree ==
    ASSUME NEW f, NEW g, NEW s, NEW t, NEW l \in Nat,
           Len(s) \in Nat, Len(t) \in Nat, l <= Len(s), l <= Len(t),
           Fills(f, s), Fills(g, t),
           \A i \in 1..l : s[i] = t[i]
    PROVE  f[l] = g[l]
<1> DEFINE Same == {n \in Nat : n <= l => f[n] = g[n]}
<1>1. 0 \in Same
  BY DEF Fills
<1>2. ASSUME NEW n \in Nat, n \in Same PROVE n + 1 \in Same
  <2>1. CASE n + 1 <= l
    <3>1. n + 1 \in 1..Len(s) /\ n + 1 \in 1..Len(t) /\ n + 1 \in 1..l /\ (n + 1) - 1 = n
      BY <2>1
    <3>2. f[n + 1] = WritePair(f[n], s[n + 1]) /\ g[n + 1] = WritePair(g[n], t[n + 1])
      BY <3>1 DEF Fills
    <3>3. f[n] = g[n]
      BY <1>2, <2>1
    <3> QED  BY <3>1, <3>2, <3>3
  <2> QED  BY <2>1
<1>3. l \in Same
  <2> HIDE DEF Same
  <2> QED  BY <1>1, <1>2, SetInduction
<1> QED  BY <1>3

-----------------------------------------------------------------------------
(* What the first n pairs of a list are written as. *)
Written(list, n) == Encode(SubSeq(list, 1, n))

(* WritePair takes what is written of a list one pair further. *)
LEMMA WrittenGrows ==
    ASSUME NEW S, NEW list \in Seq(S)
    PROVE  /\ Written(list, 0) = <<>>
           /\ Written(list, Len(list)) = Encode(list)
           /\ \A n \in Nat : n < Len(list) =>
                  Written(list, n + 1) = WritePair(Written(list, n), list[n + 1])
<1>1. Len(list) \in Nat
  BY LenProperties
<1>2. PICK f : Encode(list) = f[Len(list)] /\ Fills(f, list)
  BY <1>1, EncodeFills
<1>3. ASSUME NEW n \in 0..Len(list) PROVE Written(list, n) = f[n]
  <2> DEFINE t == SubSeq(list, 1, n)
  <2>1. Len(t) = n /\ \A i \in 1..n : t[i] = list[i]
    BY <1>1, SubSeqProperties
  <2> HIDE DEF t
  <2>2. PICK g : Encode(t) = g[Len(t)] /\ Fills(g, t)
    BY <1>1, <2>1, EncodeFills
  <2>3. n \in Nat /\ n <= Len(list) /\ n <= Len(t) /\ Len(t) \in Nat
    BY <1>1, <2>1
  <2>4. g[n] = f[n]
    BY <1>1, <1>2, <2>1, <2>2, <2>3, FillsAgree
  <2> QED  BY <2>1, <2>2, <2>4 DEF Written, t
<1>4. f[0] = <<>>
  BY <1>1, <1>2 DEF Fills
<1>5. ASSUME NEW n \in Nat, n < Len(list) PROVE f[n + 1] = WritePair(f[n], list[n + 1])
  <2>1. n + 1 \in 0..Len(list) /\ n + 1 # 0 /\ (n + 1) - 1 = n
    BY <1>1, <1>5
  <2> QED  BY <1>2, <2>1 DEF Fills
<1>6. ASSUME NEW n \in Nat, n < Len(list)
      PROVE  Written(list, n + 1) = WritePair(Written(list, n), list[n + 1])
  <2>1. n \in 0..Len(list) /\ n + 1 \in 0..Len(list)
    BY <1>1, <1>6
  <2> QED  BY <1>3, <1>5, <1>6, <2>1
<1>7. 0 \in 0..Len(list) /\ Len(list) \in 0..Len(list)
  BY <1>1
<1> QED  BY <1>2, <1>3, <1>4, <1>6, <1>7

-----------------------------------------------------------------------------
(* Where the n+1st pair of a list begins. *)
Start(list, n) == Len(Written(list, n))

(* Whatever is written are bytes. *)
LEMMA WrittenIsBytes ==
    ASSUME NEW list \in Seq(PairsOf(Strings))
    PROVE  \A n \in 0..Len(list) : Written(list, n) \in Seq(Bytes)
<1> DEFINE Good == {n \in Nat : n <= Len(list) => Written(list, n) \in Seq(Bytes)}
<1>1. Len(list) \in Nat /\ \A i \in 1..Len(list) : list[i] \in PairsOf(Strings)
  BY LenProperties, ElementOfSeq
<1>2. 0 \in Good
  <2>1. Written(list, 0) = <<>>
    BY WrittenGrows
  <2>2. Written(list, 0) \in Seq(Bytes)
    BY <2>1, EmptySeq
  <2> QED  BY <2>2
<1>3. ASSUME NEW n \in Nat, n \in Good PROVE n + 1 \in Good
  <2>1. CASE n + 1 <= Len(list)
    <3>1. n < Len(list) /\ n + 1 \in 1..Len(list) /\ Written(list, n) \in Seq(Bytes)
      BY <1>1, <1>3, <2>1
    <3>2. Written(list, n + 1) = WritePair(Written(list, n), list[n + 1])
      BY <3>1, WrittenGrows
    <3>3. list[n + 1] \in PairsOf(Strings)
      BY <1>1, <3>1
    <3>4. Written(list, n + 1) \in Seq(Bytes)
      BY <3>1, <3>2, <3>3, WrittenPairStands
    <3> QED  BY <3>4
  <2> QED  BY <1>1, <2>1
<1>4. \A n \in Nat : n \in Good
  <2> HIDE DEF Good
  <2> QED  BY <1>2, <1>3, SetInduction
<1> QED  BY <1>1, <1>4

(* A pair begins where the one before it ends. *)
LEMMA PairsFollow ==
    ASSUME NEW list \in Seq(PairsOf(Strings))
    PROVE  /\ Start(list, 0) = 0
           /\ Start(list, Len(list)) = Len(Encode(list))
           /\ Encode(list) \in Seq(Bytes)
           /\ \A n \in 0..Len(list) : Start(list, n) \in Nat
           /\ \A n \in Nat : n < Len(list) =>
                  Start(list, n + 1) = AtEnd(Start(list, n), list[n + 1])
<1>1. Len(list) \in Nat /\ \A i \in 1..Len(list) : list[i] \in PairsOf(Strings)
  BY LenProperties, ElementOfSeq
<1>2. Start(list, 0) = 0
  BY WrittenGrows, EmptySeq DEF Start
<1>3. Len(list) \in 0..Len(list)
  BY <1>1
<1>4. Encode(list) \in Seq(Bytes) /\ Start(list, Len(list)) = Len(Encode(list))
  BY <1>3, WrittenIsBytes, WrittenGrows DEF Start
<1>5. ASSUME NEW n \in 0..Len(list) PROVE Start(list, n) \in Nat
  <2>1. Written(list, n) \in Seq(Bytes)
    BY WrittenIsBytes
  <2> QED  BY <2>1, LenProperties DEF Start
<1>6. ASSUME NEW n \in Nat, n < Len(list)
      PROVE  Start(list, n + 1) = AtEnd(Start(list, n), list[n + 1])
  <2>1. n \in 0..Len(list) /\ n + 1 \in 1..Len(list)
    BY <1>1, <1>6
  <2>2. Written(list, n) \in Seq(Bytes) /\ list[n + 1] \in PairsOf(Strings)
    BY <1>1, <2>1, WrittenIsBytes
  <2>3. Written(list, n + 1) = WritePair(Written(list, n), list[n + 1])
    BY <1>6, WrittenGrows
  <2> QED  BY <2>2, <2>3, WrittenPairStands DEF Start
<1> QED  BY <1>2, <1>4, <1>5, <1>6

(* Later pairs do not begin earlier. *)
LEMMA StartsGrow ==
    ASSUME NEW list \in Seq(PairsOf(Strings)), NEW i \in Nat, NEW j \in Nat,
           i <= j, j <= Len(list)
    PROVE  Start(list, i) <= Start(list, j)
<1> DEFINE Later == {n \in Nat : i <= n /\ n <= Len(list) => Start(list, i) <= Start(list, n)}
<1>1. Len(list) \in Nat /\ \A k \in 1..Len(list) : list[k] \in PairsOf(Strings)
  BY LenProperties, ElementOfSeq
<1>2. 0 \in Later
  <2>1. 0 \in 0..Len(list)
    BY <1>1
  <2>2. Start(list, 0) \in Nat
    BY <2>1, PairsFollow
  <2> QED  BY <2>2
<1>3. ASSUME NEW n \in Nat, n \in Later PROVE n + 1 \in Later
  <2> SUFFICES ASSUME i <= n + 1, n + 1 <= Len(list)
               PROVE  Start(list, i) <= Start(list, n + 1)
    OBVIOUS
  <2>1. n \in 0..Len(list) /\ n + 1 \in 1..Len(list) /\ n + 1 \in 0..Len(list) /\ n < Len(list)
    BY <1>1
  <2>2. Start(list, n) \in Nat /\ Start(list, n + 1) \in Nat
    BY <2>1, PairsFollow
  <2>3. CASE i = n + 1
    BY <2>2, <2>3
  <2>4. CASE i # n + 1
    <3>1. i <= n /\ i \in 0..Len(list)
      BY <2>1, <2>4
    <3>2. Start(list, i) <= Start(list, n) /\ Start(list, i) \in Nat
      BY <1>3, <2>1, <3>1, PairsFollow
    <3>3. Start(list, n + 1) = AtEnd(Start(list, n), list[n + 1])
      BY <2>1, PairsFollow
    <3>4. list[n + 1] \in PairsOf(Strings)
      BY <1>1, <2>1
    <3>5. Start(list, n) <= AtEnd(Start(list, n), list[n + 1])
      <4> DEFINE at == Start(list, n)
                 x == list[n + 1]
      <4>1. at \in Nat /\ x \in PairsOf(Strings)
        BY <2>2, <3>4
      <4> HIDE DEF at, x
      <4>2. /\ AtValueLength(at, x) \in Nat /\ AtName(at, x) \in Nat
            /\ AtValue(at, x) \in Nat /\ AtEnd(at, x) \in Nat
            /\ at < AtValueLength(at, x) /\ AtValueLength(at, x) < AtName(at, x)
            /\ AtName(at, x) <= AtValue(at, x) /\ AtValue(at, x) <= AtEnd(at, x)
        BY <4>1, PartsAreBytes
      <4>3. at <= AtEnd(at, x)
        BY <4>1, <4>2
      <4> QED  BY <4>3 DEF at, x
    <3> QED  BY <2>2, <3>2, <3>3, <3>5
  <2> QED  BY <2>3, <2>4
<1>4. j \in Later
  <2> HIDE DEF Later
  <2> QED  BY <1>2, <1>3, SetInduction
<1> QED  BY <1>4

(* Every pair stands in what the list is written as. *)
LEMMA PairsStand ==
    ASSUME NEW list \in Seq(PairsOf(Strings)), NEW k \in Nat, k < Len(list)
    PROVE  PairStands(Encode(list), Start(list, k), list[k + 1])
<1> DEFINE x == list[k + 1]
           at == Start(list, k)
           Held == {n \in Nat : k < n /\ n <= Len(list) => PairStands(Written(list, n), at, x)}
<1>1. Len(list) \in Nat /\ \A i \in 1..Len(list) : list[i] \in PairsOf(Strings)
  BY LenProperties, ElementOfSeq
<1>2. x \in PairsOf(Strings) /\ at \in Nat
  BY <1>1, PairsFollow
<1>3. 0 \in Held
  OBVIOUS
<1>4. ASSUME NEW n \in Nat, n \in Held PROVE n + 1 \in Held
  <2> SUFFICES ASSUME k < n + 1, n + 1 <= Len(list)
               PROVE  PairStands(Written(list, n + 1), at, x)
    OBVIOUS
  <2>1. n < Len(list) /\ n \in 0..Len(list) /\ n + 1 \in 1..Len(list)
    BY <1>1
  <2> DEFINE b == Written(list, n)
             y == list[n + 1]
             bx == WritePair(b, y)
  <2>2. Written(list, n + 1) = bx
    BY <2>1, WrittenGrows
  <2>3. b \in Seq(Bytes) /\ y \in PairsOf(Strings)
    BY <1>1, <2>1, WrittenIsBytes
  <2>4. k = n => b = Written(list, k) /\ y = x
    OBVIOUS
  <2>5. k # n => PairStands(b, at, x)
    BY <1>4, <2>1
  <2> HIDE DEF b, y, bx, x
  <2>6. PairStands(bx, Len(b), y)
    BY <2>3, WrittenPairStands DEF bx
  <2>7. ASSUME NEW a \in Nat, NEW s \in Seq(Bytes), Stands(b, a, s) PROVE Stands(bx, a, s)
    BY <2>3, <2>7, WrittenPairStands DEF bx
  <2>8. CASE k = n
    BY <2>2, <2>4, <2>6, <2>8 DEF Start
  <2>9. CASE k # n
    <3> HIDE DEF at
    <3>1. PairStands(b, at, x)
      BY <2>5, <2>9
    <3>2. /\ EncodeLength(Len(x.key)) \in Seq(Bytes)
          /\ EncodeLength(Len(x.value)) \in Seq(Bytes)
          /\ x.key \in Seq(Bytes) /\ x.value \in Seq(Bytes)
          /\ AtValueLength(at, x) \in Nat /\ AtName(at, x) \in Nat /\ AtValue(at, x) \in Nat
      BY <1>2, PartsAreBytes
    <3>3. PairStands(bx, at, x)
      BY <1>2, <2>7, <3>1, <3>2 DEF PairStands
    <3> QED  BY <2>2, <3>3
  <2> QED  BY <2>8, <2>9
<1>5. \A n \in Nat : n \in Held
  <2> HIDE DEF Held
  <2> QED  BY <1>3, <1>4, SetInduction
<1>6. PairStands(Written(list, Len(list)), at, x)
  BY <1>1, <1>5
<1>7. Written(list, Len(list)) = Encode(list)
  BY WrittenGrows
<1> QED  BY <1>6, <1>7

-----------------------------------------------------------------------------
(* The i-th pair of a list is the first of its name. *)
IsFirst(list, k, i) ==
    /\ list[i].key = k
    /\ \A j \in DOMAIN list : list[j].key = k => i <= j

(* The names in a list. *)
Names(list) == {list[i].key : i \in DOMAIN list}

(* Every name in a list is that of a first pair. *)
LEMMA FirstExists ==
    ASSUME NEW S, NEW list \in Seq(S), NEW k \in Names(list)
    PROVE  \E i \in DOMAIN list : IsFirst(list, k, i)
<1> DEFINE T == {i \in DOMAIN list : list[i].key = k}
<1>1. DOMAIN list \subseteq Nat
  BY LenProperties
<1>2. T # {} /\ T \subseteq Nat
  BY <1>1 DEF Names
<1>3. PICK i \in T : \A j \in T : i <= j
  <2> HIDE DEF T
  <2> QED  BY <1>2, LeastNatural
<1> QED  BY <1>3 DEF IsFirst

(* FirstOf gives each name the value of its first pair. *)
LEMMA FirstOfIs ==
    ASSUME NEW S, NEW list \in Seq(S)
    PROVE  /\ FirstOf(list) = [k \in Names(list) |-> FirstOf(list)[k]]
           /\ \A k \in Names(list) : \A i \in DOMAIN list :
                  IsFirst(list, k, i) => FirstOf(list)[k] = list[i].value
<1> DEFINE Chosen(k) == CHOOSE i \in DOMAIN list : IsFirst(list, k, i)
<1>1. FirstOf(list) = [k \in Names(list) |-> list[Chosen(k)].value]
  BY DEF FirstOf, Names, IsFirst
<1>2. ASSUME NEW k \in Names(list), NEW i \in DOMAIN list, IsFirst(list, k, i)
      PROVE  Chosen(k) = i
  <2>1. IsFirst(list, k, Chosen(k)) /\ Chosen(k) \in DOMAIN list
    BY FirstExists
  <2>2. Chosen(k) <= i /\ i <= Chosen(k)
    BY <1>2, <2>1 DEF IsFirst
  <2>3. Chosen(k) \in Nat /\ i \in Nat
    BY <1>2, <2>1, LenProperties DEF IsFirst
  <2> QED  BY <2>2, <2>3
<1> HIDE DEF Chosen
<1> QED  BY <1>1, <1>2

(* f with an entry for a name that has none yet. *)
With(f, name, value) ==
    [k \in DOMAIN f \union {name} |-> IF k \in DOMAIN f THEN f[k] ELSE value]

(* t is s and x. *)
Longer(t, s, x) == t = Append(s, x)

(* The first pairs of one more pair: insert keeps an entry that is there. *)
LEMMA FirstOfNext ==
    ASSUME NEW S, NEW s \in Seq(S), NEW x \in S, NEW t, Longer(t, s, x),
           NEW nm, nm = x.key, NEW v, v = x.value
    PROVE  FirstOf(t) = With(FirstOf(s), nm, v)
<1>1. /\ Len(s) \in Nat /\ t \in Seq(S) /\ Len(t) = Len(s) + 1
      /\ DOMAIN s = 1..Len(s) /\ DOMAIN t = 1..(Len(s) + 1)
      /\ \A i \in 1..Len(s) : t[i] = s[i]
      /\ t[Len(s) + 1] = x
  BY AppendProperties, LenProperties DEF Longer
<1>2. DOMAIN FirstOf(s) = Names(s) /\ DOMAIN FirstOf(t) = Names(t)
  <2>1. FirstOf(s) = [k \in Names(s) |-> FirstOf(s)[k]]
    BY FirstOfIs
  <2>2. FirstOf(t) = [k \in Names(t) |-> FirstOf(t)[k]]
    BY <1>1, FirstOfIs
  <2> QED  BY <2>1, <2>2
<1>3. Names(t) = Names(s) \union {nm}
  <2>1. ASSUME NEW i \in 1..(Len(s) + 1) PROVE i \in 1..Len(s) \/ i = Len(s) + 1
    BY <1>1
  <2>2. \A i \in 1..Len(s) : i \in 1..(Len(s) + 1)
    BY <1>1
  <2>3. Len(s) + 1 \in 1..(Len(s) + 1)
    BY <1>1
  <2> QED  BY <1>1, <2>1, <2>2, <2>3 DEF Names
<1>4. ASSUME NEW k \in Names(s) PROVE FirstOf(t)[k] = FirstOf(s)[k]
  <2>1. PICK i \in DOMAIN s : IsFirst(s, k, i)
    BY FirstExists
  <2>2. FirstOf(s)[k] = s[i].value
    BY <2>1, FirstOfIs
  <2>3. IsFirst(t, k, i)
    <3>1. i \in DOMAIN t /\ t[i].key = k
      BY <1>1, <2>1 DEF IsFirst
    <3>2. ASSUME NEW j \in DOMAIN t, t[j].key = k PROVE i <= j
      <4>1. CASE j \in 1..Len(s)
        BY <1>1, <2>1, <3>2, <4>1 DEF IsFirst
      <4>2. CASE j = Len(s) + 1
        BY <1>1, <4>2
      <4> QED  BY <1>1, <4>1, <4>2
    <3> QED  BY <3>1, <3>2 DEF IsFirst
  <2>4. k \in Names(t) /\ i \in DOMAIN t
    BY <1>1, <1>3
  <2>5. FirstOf(t)[k] = t[i].value
    BY <1>1, <2>3, <2>4, FirstOfIs
  <2> QED  BY <1>1, <2>2, <2>5
<1>5. x.key \notin Names(s) => FirstOf(t)[x.key] = x.value
  <2> SUFFICES ASSUME x.key \notin Names(s) PROVE FirstOf(t)[x.key] = x.value
    OBVIOUS
  <2>1. IsFirst(t, x.key, Len(s) + 1)
    <3>1. Len(s) + 1 \in DOMAIN t /\ t[Len(s) + 1].key = x.key
      BY <1>1
    <3>2. ASSUME NEW j \in DOMAIN t, t[j].key = x.key PROVE Len(s) + 1 <= j
      <4>1. j \notin 1..Len(s)
        BY <1>1, <3>2 DEF Names
      <4> QED  BY <1>1, <4>1
    <3> QED  BY <3>1, <3>2 DEF IsFirst
  <2> DEFINE k == x.key
             l == Len(s) + 1
  <2>2. k \in Names(t) /\ IsFirst(t, k, l) /\ l \in DOMAIN t
    BY <1>1, <1>3, <2>1
  <2>3. FirstOf(t)[k] = t[l].value
    <3> HIDE DEF k, l
    <3> QED  BY <1>1, <2>2, FirstOfIs
  <2> QED  BY <1>1, <2>3
<1>6. FirstOf(t) = [k \in Names(t) |-> FirstOf(t)[k]]
  BY <1>1, FirstOfIs
<1> QED  BY <1>2, <1>3, <1>4, <1>5, <1>6 DEF With

(* Without pairs there are no names. *)
LEMMA FirstOfNothing == FirstOf(<<>>) = [k \in {} |-> <<>>]
<1>1. DOMAIN <<>> = {}
  OBVIOUS
<1>2. Names(<<>>) = {}
  BY <1>1 DEF Names
<1>3. FirstOf(<<>>) = [k \in Names(<<>>) |-> FirstOf(<<>>)[k]]
  <2>1. <<>> \in Seq({})
    BY EmptySeq
  <2> QED  BY <2>1, FirstOfIs
<1> QED  BY <1>2, <1>3

-----------------------------------------------------------------------------
(* The loop tests m before the length of a name, and once more before the
   length of a value; names and values are compared with what is left. *)
PairInv ==
    /\ PairTypeOK
    /\ ReadsInBounds
    /\ pc = "valueLength" => m < Len(data)

(* A byte is a number, read inside data or behind it. *)
LEMMA ByteIsNat ==
    ASSUME data \in Seq(Bytes), NEW i \in Nat
    PROVE  Byte(i) \in Nat
<1>1. CASE i < Len(data)
  <2>1. i + 1 \in 1..Len(data)
    BY <1>1, LenProperties
  <2>2. data[i + 1] \in Bytes
    BY <2>1, ElementOfSeq
  <2> QED  BY <1>1, <2>2, BytesAreNat DEF Byte
<1>2. CASE ~(i < Len(data))
  BY <1>2 DEF Byte
<1> QED  BY <1>1, <1>2

(* A length of four bytes is a number. *)
LEMMA LongLengthIsNat ==
    ASSUME NEW a \in Nat, NEW b \in Nat, NEW c \in Nat, NEW d \in Nat
    PROVE  (a % Half) * (Base * Base * Base) + b * (Base * Base) + c * Base + d \in Nat
<1> DEFINE top == a % Half
           square == Base * Base
           cube == Base * Base * Base
<1>1. top \in Nat
  BY BytesAreNat, SMT
<1>2. square \in Nat
  BY PairAssumption, SMT
<1>3. cube \in Nat
  BY <1>2, PairAssumption, SMT
<1>4. top * cube \in Nat
  <2> HIDE DEF top, cube
  <2> QED  BY <1>1, <1>3, SMT
<1>5. b * square \in Nat
  <2> HIDE DEF square
  <2> QED  BY <1>2, SMT
<1>6. c * Base \in Nat
  BY PairAssumption, SMT
<1> QED  BY <1>4, <1>5, <1>6, SMT

(* A length that is decoded is a number, of one byte or of four. *)
LEMMA DecodedIsNat ==
    ASSUME PairTypeOK
    PROVE  /\ Byte(m) \in Nat
           /\ (Byte(m) % Half) * (Base * Base * Base) + Byte(m + 1) * (Base * Base)
              + Byte(m + 2) * Base + Byte(m + 3) \in Nat
<1>1. data \in Seq(Bytes) /\ m \in Nat
  BY DEF PairTypeOK
<1>2. m + 1 \in Nat /\ m + 2 \in Nat /\ m + 3 \in Nat
  BY <1>1
<1>3. Byte(m) \in Nat
  BY <1>1, ByteIsNat
<1>4. Byte(m + 1) \in Nat
  BY <1>1, <1>2, ByteIsNat
<1>5. Byte(m + 2) \in Nat
  BY <1>1, <1>2, ByteIsNat
<1>6. Byte(m + 3) \in Nat
  BY <1>1, <1>2, ByteIsNat
<1> QED  BY <1>3, <1>4, <1>5, <1>6, LongLengthIsNat

(* All of a length that is decoded is there. *)
LEMMA DecodedInBounds ==
    ASSUME PairTypeOK, m < Len(data),
           m' = m + 1 \/ (LongLengthFits /\ m' = m + 4)
    PROVE  m' \in Nat /\ m' <= Len(data)
<1>1. Len(data) \in Nat /\ m \in Nat
  BY LenProperties DEF PairTypeOK
<1> QED  BY <1>1 DEF LongLengthFits, Left

(* A name or a value that is taken is bytes of data. *)
LEMMA TakenIsBytes ==
    ASSUME PairTypeOK, NEW length \in Nat, ~(Left < length), ReadsInBounds
    PROVE  /\ Take(length) \in Seq(Bytes)
           /\ m + length \in Nat /\ m + length <= Len(data)
<1>1. Len(data) \in Nat
  BY LenProperties DEF PairTypeOK
<1>2. m + length \in Nat /\ m + length <= Len(data)
  BY <1>1, SMT DEF PairTypeOK, Left
<1>3. m + 1 \in 1..(Len(data) + 1) /\ m + length \in (m + 1 - 1)..Len(data)
  BY <1>1, <1>2, SMT DEF PairTypeOK
<1> QED  BY <1>2, <1>3, SubSeqProperties DEF PairTypeOK, Take

-----------------------------------------------------------------------------
(* Any input may be parsed. *)
LEMMA PairInitInv == PairInit => PairInv
<1> SUFFICES ASSUME PairInit PROVE PairInv
  OBVIOUS
<1>1. data \in Seq(Bytes)
  <2>1. CASE isWritten = TRUE /\ written \in Lists
    <3>1. PICK n \in 0..Len(Encode(written)) : data = SubSeq(Encode(written), 1, n)
      BY <2>1 DEF PairInit
    <3>2. Encode(written) \in Seq(Bytes)
      <4>1. written \in Seq(PairsOf(Strings))
        BY <2>1, PairAssumption
      <4> QED  BY <4>1, PairsFollow
    <3>3. Len(Encode(written)) \in Nat
      BY <3>2, LenProperties
    <3> QED  BY <3>1, <3>2, <3>3, SubSeqProperties
  <2>2. CASE data \in Others
    BY <2>2, PairAssumption
  <2> QED  BY <2>1, <2>2 DEF PairInit
<1>2. pairs \in UNION {[K -> Seq(Bytes)] : K \in SUBSET Seq(Bytes)}
  <2>1. pairs \in [{} -> Seq(Bytes)]
    BY DEF PairInit
  <2>2. {} \in SUBSET Seq(Bytes)
    OBVIOUS
  <2> QED  BY <2>1, <2>2
<1>3. 0 <= Len(data)
  BY <1>1, LenProperties
<1>4. key \in Seq(Bytes)
  BY DEF PairInit
<1> QED  BY <1>1, <1>2, <1>3, <1>4 DEF PairInit, PairInv, PairTypeOK, ReadsInBounds

(* One step for each statement of the loop. *)
LEMMA PairStepInv == PairInv /\ [ParseStep]_pairVars => PairInv'
<1> SUFFICES ASSUME PairInv, [ParseStep]_pairVars PROVE PairInv'
  OBVIOUS
<1> USE DEF PairInv, ReadsInBounds
<1>1. Len(data) \in Nat /\ m \in Nat
  BY LenProperties DEF PairTypeOK
<1>2. CASE ParseNameLength
  <2>1. m < Len(data) /\ data' = data /\ key' = key /\ pairs' = pairs
    BY <1>2 DEF ParseNameLength, inputVars
  <2>2. CASE LengthIsCutOff
    BY <1>1, <2>1, <2>2 DEF LengthIsCutOff, PairTypeOK
  <2>3. CASE ~LengthIsCutOff
    <3>1. /\ DecodeLength(nameLength) /\ readTo' = m'
          /\ pc' = IF m' >= Len(data) THEN "done" ELSE "valueLength"
          /\ valueLength' = valueLength
      BY <1>2, <2>3 DEF ParseNameLength
    <3>2. nameLength' \in Nat
      BY <3>1, DecodedIsNat DEF DecodeLength
    <3>3. m' \in Nat /\ m' <= Len(data)
      BY <2>1, <3>1, DecodedInBounds DEF DecodeLength
    <3> QED  BY <1>1, <2>1, <3>1, <3>2, <3>3 DEF PairTypeOK
  <2> QED  BY <2>2, <2>3
<1>3. CASE LoopEnd
  BY <1>3 DEF LoopEnd, inputVars, PairTypeOK
<1>4. CASE ParseValueLength
  <2>1. m < Len(data) /\ data' = data /\ key' = key /\ pairs' = pairs
    BY <1>4 DEF ParseValueLength, inputVars
  <2>2. CASE LengthIsCutOff
    BY <1>1, <2>1, <2>2 DEF LengthIsCutOff, PairTypeOK
  <2>3. CASE ~LengthIsCutOff
    <3>1. /\ DecodeLength(valueLength) /\ readTo' = m'
          /\ pc' = "name" /\ nameLength' = nameLength
      BY <1>4, <2>3 DEF ParseValueLength
    <3>2. valueLength' \in Nat
      BY <3>1, DecodedIsNat DEF DecodeLength
    <3>3. m' \in Nat /\ m' <= Len(data)
      BY <2>1, <3>1, DecodedInBounds DEF DecodeLength
    <3> QED  BY <1>1, <2>1, <3>1, <3>2, <3>3 DEF PairTypeOK
  <2> QED  BY <2>2, <2>3
<1>5. CASE ParseName
  <2>1. CASE Left < nameLength
    BY <1>5, <2>1 DEF ParseName, inputVars, PairTypeOK
  <2>2. CASE ~(Left < nameLength)
    <3>1. /\ Take(nameLength) \in Seq(Bytes)
          /\ m + nameLength \in Nat /\ m + nameLength <= Len(data)
      BY <2>2, TakenIsBytes DEF PairTypeOK
    <3> QED  BY <1>5, <2>2, <3>1 DEF ParseName, inputVars, PairTypeOK
  <2> QED  BY <2>1, <2>2
<1>6. CASE ParseValue
  <2>1. CASE Left < valueLength
    BY <1>6, <2>1 DEF ParseValue, inputVars, PairTypeOK
  <2>2. CASE ~(Left < valueLength)
    <3>1. /\ Take(valueLength) \in Seq(Bytes)
          /\ m + valueLength \in Nat /\ m + valueLength <= Len(data)
      BY <2>2, TakenIsBytes DEF PairTypeOK
    <3>2. pairs' = [k \in DOMAIN pairs \union {key} |->
                       IF k \in DOMAIN pairs THEN pairs[k] ELSE Take(valueLength)]
      BY <1>6, <2>2 DEF ParseValue, Insert
    <3>3. pairs' \in [DOMAIN pairs \union {key} -> Seq(Bytes)]
      BY <3>1, <3>2 DEF PairTypeOK
    <3>4. DOMAIN pairs \union {key} \in SUBSET Seq(Bytes)
      BY DEF PairTypeOK
    <3> QED  BY <1>6, <2>2, <3>1, <3>3, <3>4 DEF ParseValue, inputVars, PairTypeOK
  <2> QED  BY <2>1, <2>2
<1>7. CASE UNCHANGED pairVars
  BY <1>7 DEF pairVars, inputVars, PairTypeOK
<1> QED  BY <1>2, <1>3, <1>4, <1>5, <1>6, <1>7 DEF ParseStep

(* The invariant holds while any input is parsed. *)
THEOREM PairInvariance == PairSpec => []PairInv
<1> QED  BY PairInitInv, PairStepInv, PTL DEF PairSpec

(* ParsePairs never reads behind its input. *)
THEOREM NeverReadsBehind == PairSpec => []ReadsInBounds
<1>1. PairInv => ReadsInBounds
  BY DEF PairInv
<1> QED  BY <1>1, PairInvariance, PTL

-----------------------------------------------------------------------------
(* data is what is left of w when its end is cut off. *)
IsCut(w) ==
    /\ Len(data) <= Len(w)
    /\ \A i \in 1..Len(data) : data[i] = w[i]

(* What is read of a length at m. *)
LEMMA LengthRead ==
    ASSUME NEW w \in Seq(Bytes), IsCut(w), data \in Seq(Bytes),
           m \in Nat, m < Len(data),
           NEW l, NEW n \in Nat, IsLength(l, n), Stands(w, m, l)
    PROVE  \/ Byte(m) < Half /\ Byte(m) = n /\ Len(l) = 1
           \/ /\ Byte(m) >= Half /\ Len(l) = 4
              /\ LongLengthFits => Joined(Byte(m), Byte(m + 1), Byte(m + 2), Byte(m + 3)) = n
              /\ ~LongLengthFits => m + 4 > Len(data)
<1>1. Len(data) \in Nat /\ Len(w) \in Nat /\ l \in Seq(Bytes) /\ Half \in Nat
  BY LenProperties, BytesAreNat DEF IsLength
<1>2. ASSUME NEW i \in 1..Len(l), m + i <= Len(data) PROVE w[m + i] = l[i] /\ data[m + i] = l[i]
  <2>1. m + i \in 1..Len(data)
    BY <1>1, <1>2
  <2>2. data[m + i] = w[m + i]
    BY <2>1 DEF IsCut
  <2> QED  BY <2>2 DEF Stands
<1>3. Byte(m) = data[m + 1]
  BY DEF Byte
<1>4. CASE Len(l) = 1 /\ n < Half /\ l[1] = n
  <2>1. 1 \in 1..Len(l) /\ m + 1 <= Len(data)
    BY <1>1, <1>4
  <2>2. Byte(m) = n
    BY <1>2, <1>3, <1>4, <2>1
  <2> QED  BY <1>4, <2>2
<1>5. CASE Len(l) = 4 /\ l[1] >= Half /\ Joined(l[1], l[2], l[3], l[4]) = n
  <2>1. 1 \in 1..Len(l) /\ m + 1 <= Len(data)
    BY <1>1, <1>5
  <2>2. Byte(m) = l[1]
    BY <1>2, <1>3, <2>1
  <2>3. ASSUME LongLengthFits
        PROVE  Joined(Byte(m), Byte(m + 1), Byte(m + 2), Byte(m + 3)) = n
    <3>1. m + 4 <= Len(data)
      BY <1>1, <2>3 DEF LongLengthFits, Left
    <3>2. /\ Byte(m + 1) = data[m + 2] /\ Byte(m + 2) = data[m + 3] /\ Byte(m + 3) = data[m + 4]
      <4>1. /\ m + 1 < Len(data) /\ m + 2 < Len(data) /\ m + 3 < Len(data)
            /\ (m + 1) + 1 = m + 2 /\ (m + 2) + 1 = m + 3 /\ (m + 3) + 1 = m + 4
        BY <1>1, <3>1
      <4> QED  BY <4>1 DEF Byte
    <3>3. /\ 2 \in 1..Len(l) /\ 3 \in 1..Len(l) /\ 4 \in 1..Len(l)
          /\ m + 2 <= Len(data) /\ m + 3 <= Len(data)
      BY <1>1, <1>5, <3>1
    <3>4. data[m + 2] = l[2] /\ data[m + 3] = l[3] /\ data[m + 4] = l[4]
      BY <1>2, <3>1, <3>3
    <3> QED  BY <1>5, <2>2, <3>2, <3>4
  <2>4. ~LongLengthFits => m + 4 > Len(data)
    BY <1>1 DEF LongLengthFits, Left
  <2> QED  BY <1>5, <2>2, <2>3, <2>4
<1> QED  BY <1>4, <1>5 DEF IsLength

(* A name or a value that is there is taken as it was written. *)
LEMMA PartTaken ==
    ASSUME NEW w \in Seq(Bytes), IsCut(w), data \in Seq(Bytes), m \in Nat,
           NEW s \in Seq(Bytes), Stands(w, m, s),
           NEW n, n = Len(s), ~(Left < n)
    PROVE  Take(n) = s /\ m + n <= Len(data)
<1>1. Len(data) \in Nat /\ n \in Nat /\ Len(w) \in Nat
  BY LenProperties
<1>2. m + n <= Len(data)
  BY <1>1 DEF Left
<1>3. m + 1 \in 1..(Len(data) + 1) /\ m + n \in (m + 1 - 1)..Len(data) /\ (m + n) - (m + 1) + 1 = n
  BY <1>1, <1>2
<1>4. /\ Take(n) \in Seq(Bytes) /\ Len(Take(n)) = n
      /\ \A i \in 1..n : Take(n)[i] = data[(m + 1) + i - 1]
  BY <1>3, SubSeqProperties DEF Take
<1>5. ASSUME NEW i \in 1..n PROVE Take(n)[i] = s[i]
  <2>1. (m + 1) + i - 1 = m + i /\ m + i \in 1..Len(data)
    BY <1>1, <1>2
  <2>2. Take(n)[i] = data[m + i] /\ data[m + i] = w[m + i]
    BY <1>4, <2>1 DEF IsCut
  <2> QED  BY <2>2 DEF Stands
<1>6. Take(n) = s
  <2> DEFINE t == Take(n)
  <2>1. t \in Seq(Bytes) /\ Len(t) = Len(s) /\ \A i \in 1..Len(t) : t[i] = s[i]
    BY <1>4, <1>5
  <2> HIDE DEF t
  <2>2. t = s
    BY <2>1, SeqEqual
  <2> QED  BY <2>2 DEF t
<1> QED  BY <1>2, <1>6

-----------------------------------------------------------------------------
(* The input that was written. *)
InputInv ==
    /\ written \in Seq(PairsOf(Strings))
    /\ IsCut(Encode(written))

(* k pairs have been taken, and the rest of the loop's state is about the
   next one. *)
AtPair(k) ==
    LET begin == Start(written, k)
        next == written[k + 1]
    IN  /\ pairs = FirstOf(SubSeq(written, 1, k))
        /\ begin <= Len(data)
        /\ pc = "nameLength" => m = begin
        /\ pc \in {"valueLength", "name", "value"} => k < Len(written)
        /\ pc = "valueLength" => m = AtValueLength(begin, next)
        /\ pc = "name" => m = AtName(begin, next)
        /\ pc = "value" => m = AtValue(begin, next) /\ key = next.key
        /\ pc \in {"valueLength", "name"} => nameLength = Len(next.key)
        /\ pc \in {"name", "value"} => valueLength = Len(next.value)
        /\ pc = "done" => k = Len(written) \/ Start(written, k + 1) > Len(data)

(* However far the loop is in what was written, it is at one of its pairs. *)
RoundTripInv == isWritten => InputInv /\ \E k \in 0..Len(written) : AtPair(k)

(* What is known of the pair x that begins at b. *)
Laid(b, x) ==
    /\ b \in Nat
    /\ x.key \in Seq(Bytes) /\ x.value \in Seq(Bytes)
    /\ Len(x.key) \in Nat /\ Len(x.value) \in Nat
    /\ IsLength(EncodeLength(Len(x.key)), Len(x.key))
    /\ IsLength(EncodeLength(Len(x.value)), Len(x.value))
    /\ AtValueLength(b, x) \in Nat /\ AtName(b, x) \in Nat
    /\ AtValue(b, x) \in Nat /\ AtEnd(b, x) \in Nat
    /\ b < AtValueLength(b, x) /\ AtValueLength(b, x) < AtName(b, x)
    /\ AtName(b, x) <= AtValue(b, x) /\ AtValue(b, x) <= AtEnd(b, x)

(* The next pair is laid out in the input behind those that were taken. *)
LEMMA AboutNextPair ==
    ASSUME InputInv, NEW k \in Nat, k < Len(written),
           NEW b, b = Start(written, k), NEW x, x = written[k + 1]
    PROVE  /\ Laid(b, x)
           /\ PairStands(Encode(written), b, x)
           /\ Start(written, k + 1) = AtEnd(b, x)
<1>1. written \in Seq(PairsOf(Strings)) /\ Len(written) \in Nat
  BY LenProperties DEF InputInv
<1>2. k \in 0..Len(written) /\ k + 1 \in 1..Len(written)
  BY <1>1
<1>3. x \in PairsOf(Strings)
  BY <1>1, <1>2, ElementOfSeq
<1>4. b \in Nat /\ Start(written, k + 1) = AtEnd(b, x)
  BY <1>1, <1>2, PairsFollow
<1>5. PairStands(Encode(written), b, x)
  BY <1>1, PairsStand
<1>6. Laid(b, x)
  BY <1>3, <1>4, PartsAreBytes DEF Laid
<1> QED  BY <1>4, <1>5, <1>6

(* A length that is read is the one that was written. *)
LEMMA LengthFound ==
    ASSUME InputInv, PairInv, m < Len(data), Encode(written) \in Seq(Bytes),
           NEW l, NEW n \in Nat, IsLength(l, n), Stands(Encode(written), m, l)
    PROVE  /\ LengthIsCutOff => m + Len(l) > Len(data)
           /\ DecodeLength(nameLength) => nameLength' = n /\ m' = m + Len(l)
           /\ DecodeLength(valueLength) => valueLength' = n /\ m' = m + Len(l)
<1>1. data \in Seq(Bytes) /\ m \in Nat /\ IsCut(Encode(written))
  BY DEF PairInv, PairTypeOK, InputInv
<1> DEFINE w == Encode(written)
<1>2. w \in Seq(Bytes) /\ IsCut(w) /\ Stands(w, m, l)
  BY <1>1
<1> HIDE DEF w
<1>3. \/ Byte(m) < Half /\ Byte(m) = n /\ Len(l) = 1
      \/ /\ Byte(m) >= Half /\ Len(l) = 4
         /\ LongLengthFits => Joined(Byte(m), Byte(m + 1), Byte(m + 2), Byte(m + 3)) = n
         /\ ~LongLengthFits => m + 4 > Len(data)
  BY <1>1, <1>2, LengthRead
<1>4. Byte(m) \in Nat /\ Half \in Nat
  <2>1. CASE m + 1 \in 1..Len(data)
    <3>1. data[m + 1] \in Bytes
      BY <1>1, <2>1, ElementOfSeq
    <3> QED  BY <3>1, BytesAreNat DEF Byte
  <2>2. CASE ~(m + 1 \in 1..Len(data))
    <3>1. Len(data) \in Nat
      BY <1>1, LenProperties
    <3> QED  BY <1>1, <2>2, <3>1
  <2> QED  BY <2>1, <2>2, BytesAreNat
<1> DEFINE long == Joined(Byte(m), Byte(m + 1), Byte(m + 2), Byte(m + 3))
<1> HIDE DEF long
<1>5. (Byte(m) < Half) <=> ~(Byte(m) >= Half)
  BY <1>4
<1>6. /\ Byte(m) < Half => Byte(m) = n /\ Len(l) = 1
      /\ Byte(m) >= Half => Len(l) = 4
      /\ Byte(m) >= Half /\ LongLengthFits => long = n
      /\ Byte(m) >= Half /\ ~LongLengthFits => m + 4 > Len(data)
  BY <1>3, <1>5 DEF long
<1>7. LengthIsCutOff => m + Len(l) > Len(data)
  <2>1. LengthIsCutOff => Byte(m) >= Half /\ ~LongLengthFits
    BY DEF LengthIsCutOff
  <2> QED  BY <1>6, <2>1
<1>8. ASSUME DecodeLength(nameLength) PROVE nameLength' = n /\ m' = m + Len(l)
  <2>1. \/ Byte(m) < Half /\ nameLength' = Byte(m) /\ m' = m + 1
        \/ /\ Byte(m) >= Half /\ LongLengthFits /\ m' = m + 4
           /\ nameLength' = long
    BY <1>8 DEF DecodeLength, Joined, long
  <2> QED  BY <1>6, <2>1
<1>9. ASSUME DecodeLength(valueLength) PROVE valueLength' = n /\ m' = m + Len(l)
  <2>1. \/ Byte(m) < Half /\ valueLength' = Byte(m) /\ m' = m + 1
        \/ /\ Byte(m) >= Half /\ LongLengthFits /\ m' = m + 4
           /\ valueLength' = long
    BY <1>9 DEF DecodeLength, Joined, long
  <2> QED  BY <1>6, <2>1
<1> QED  BY <1>7, <1>8, <1>9

-----------------------------------------------------------------------------
(* A length, a name and a value of the next pair are found where they
   stand. *)
LEMMA StepAtPair ==
    ASSUME InputInv, PairInv, NEW k \in 0..Len(written), AtPair(k), ParseStep
    PROVE  \E j \in 0..Len(written) : AtPair(j)'
<1> DEFINE b == Start(written, k)
           x == written[k + 1]
           w == Encode(written)
           nl == EncodeLength(Len(x.key))
           vl == EncodeLength(Len(x.value))
<1>1. /\ written \in Seq(PairsOf(Strings)) /\ Len(written) \in Nat /\ k \in Nat
      /\ data \in Seq(Bytes) /\ Len(data) \in Nat /\ m \in Nat /\ m <= Len(data)
      /\ IsCut(w) /\ w \in Seq(Bytes)
  <2>1. written \in Seq(PairsOf(Strings)) /\ IsCut(w)
    BY DEF InputInv
  <2>2. w \in Seq(Bytes)
    BY <2>1, PairsFollow
  <2> QED  BY <2>1, <2>2, LenProperties DEF PairInv, PairTypeOK, ReadsInBounds
<1>2. /\ pairs = FirstOf(SubSeq(written, 1, k)) /\ b <= Len(data)
      /\ pc = "nameLength" => m = b
      /\ pc \in {"valueLength", "name", "value"} => k < Len(written)
      /\ pc = "valueLength" => m = AtValueLength(b, x)
      /\ pc = "name" => m = AtName(b, x)
      /\ pc = "value" => m = AtValue(b, x) /\ key = x.key
      /\ pc \in {"valueLength", "name"} => nameLength = Len(x.key)
      /\ pc \in {"name", "value"} => valueLength = Len(x.value)
  BY DEF AtPair
<1> HIDE DEF b, x, w
<1>3. k < Len(written) =>
          Laid(b, x) /\ PairStands(w, b, x) /\ Start(written, k + 1) = AtEnd(b, x)
  BY <1>1, AboutNextPair DEF b, x, w
<1>4. /\ AtValueLength(b, x) = b + Len(nl)
      /\ AtName(b, x) = AtValueLength(b, x) + Len(vl)
      /\ AtValue(b, x) = AtName(b, x) + Len(x.key)
      /\ AtEnd(b, x) = AtValue(b, x) + Len(x.value)
  BY DEF AtValueLength, AtName, AtValue, AtEnd
<1>5. written' = written /\ data' = data /\ b = Start(written', k) /\ x = written'[k + 1]
  BY DEF ParseStep, ParseNameLength, LoopEnd, ParseValueLength, ParseName, ParseValue, inputVars, b, x
<1>6. CASE ParseNameLength
  <2>1. /\ pc = "nameLength" /\ m < Len(data) /\ m = b /\ pairs' = pairs
        /\ \/ LengthIsCutOff
           \/ /\ DecodeLength(nameLength)
              /\ pc' = IF m' >= Len(data) THEN "done" ELSE "valueLength"
    BY <1>2, <1>6 DEF ParseNameLength
  <2>2. k < Len(written)
    <3>1. Start(written, Len(written)) = Len(w) /\ Len(data) <= Len(w)
      BY <1>1, PairsFollow DEF IsCut, w
    <3>2. k # Len(written)
      BY <1>1, <2>1, <3>1, LenProperties DEF b
    <3> QED  BY <1>1, <3>2
  <2>3. Laid(b, x) /\ PairStands(w, b, x) /\ Start(written, k + 1) = AtEnd(b, x)
    BY <1>3, <2>2
  <2>4. IsLength(nl, Len(x.key)) /\ Stands(w, m, nl) /\ Len(x.key) \in Nat
    BY <2>1, <2>3 DEF Laid, PairStands
  <2>5. /\ LengthIsCutOff => m + Len(nl) > Len(data)
        /\ DecodeLength(nameLength) => nameLength' = Len(x.key) /\ m' = m + Len(nl)
    <3> HIDE DEF nl
    <3> QED  BY <1>1, <2>1, <2>4, LengthFound DEF w
  <2>6. CASE AtValueLength(b, x) >= Len(data) /\ pc' = "done"
    <3>1. AtEnd(b, x) > Len(data)
      BY <1>1, <2>3, <2>6 DEF Laid
    <3>2. Start(written', k + 1) > Len(data')
      BY <1>5, <2>3, <3>1
    <3>3. AtPair(k)'
      BY <1>2, <1>5, <2>1, <2>6, <3>2 DEF AtPair
    <3> QED  BY <1>5, <3>3
  <2>7. CASE /\ pc' = "valueLength" /\ nameLength' = Len(x.key)
             /\ m' = AtValueLength(b, x)
    <3>1. AtPair(k)'
      BY <1>2, <1>5, <2>1, <2>2, <2>7 DEF AtPair
    <3> QED  BY <1>5, <3>1
  <2>8. CASE LengthIsCutOff
    <3>1. pc' = "done"
      BY <2>8 DEF LengthIsCutOff
    <3>2. AtValueLength(b, x) >= Len(data)
      BY <1>1, <1>4, <2>1, <2>3, <2>5, <2>8 DEF Laid
    <3> QED  BY <2>6, <3>1, <3>2
  <2>9. CASE ~LengthIsCutOff
    <3>1. nameLength' = Len(x.key) /\ m' = AtValueLength(b, x)
      BY <1>4, <2>1, <2>5, <2>9
    <3> QED  BY <2>1, <2>6, <2>7, <2>9, <3>1
  <2> QED  BY <2>8, <2>9
<1>7. CASE LoopEnd
  <2>1. pc = "nameLength" /\ m = b /\ m >= Len(data) /\ pc' = "done" /\ pairs' = pairs
    BY <1>2, <1>7 DEF LoopEnd
  <2>2. k < Len(written) => Start(written', k + 1) > Len(data')
    <3> SUFFICES ASSUME k < Len(written) PROVE Start(written', k + 1) > Len(data')
      OBVIOUS
    <3>1. AtEnd(b, x) > Len(data)
      BY <1>1, <1>3, <2>1 DEF Laid
    <3> QED  BY <1>3, <1>5, <3>1
  <2>3. k = Len(written') \/ Start(written', k + 1) > Len(data')
    BY <1>1, <1>5, <2>2
  <2>4. AtPair(k)'
    BY <1>2, <1>5, <2>1, <2>3 DEF AtPair
  <2> QED  BY <1>5, <2>4
<1>8. CASE ParseValueLength
  <2>1. /\ pc = "valueLength" /\ m < Len(data) /\ m = AtValueLength(b, x)
        /\ nameLength = Len(x.key) /\ pairs' = pairs /\ k < Len(written)
        /\ nameLength' = nameLength
        /\ \/ LengthIsCutOff
           \/ DecodeLength(valueLength) /\ pc' = "name"
    BY <1>2, <1>8 DEF ParseValueLength, PairInv, LengthIsCutOff
  <2>2. Laid(b, x) /\ PairStands(w, b, x) /\ Start(written, k + 1) = AtEnd(b, x)
    BY <1>3, <2>1
  <2>3. IsLength(vl, Len(x.value)) /\ Stands(w, m, vl) /\ Len(x.value) \in Nat
    BY <2>1, <2>2 DEF Laid, PairStands
  <2>4. /\ LengthIsCutOff => m + Len(vl) > Len(data)
        /\ DecodeLength(valueLength) => valueLength' = Len(x.value) /\ m' = m + Len(vl)
    <3> HIDE DEF vl
    <3> QED  BY <1>1, <2>1, <2>3, LengthFound DEF w
  <2>5. CASE LengthIsCutOff
    <3>1. pc' = "done"
      BY <2>5 DEF LengthIsCutOff
    <3>2. AtName(b, x) > Len(data)
      BY <1>4, <2>1, <2>4, <2>5
    <3>3. AtEnd(b, x) > Len(data)
      BY <1>1, <2>2, <3>2 DEF Laid
    <3>4. Start(written', k + 1) > Len(data')
      BY <1>5, <2>2, <3>3
    <3>5. AtPair(k)'
      BY <1>2, <1>5, <2>1, <3>1, <3>4 DEF AtPair
    <3> QED  BY <1>5, <3>5
  <2>6. CASE ~LengthIsCutOff
    <3>1. valueLength' = Len(x.value) /\ m' = AtName(b, x) /\ pc' = "name"
      BY <1>4, <2>1, <2>4, <2>6
    <3>2. AtPair(k)'
      BY <1>2, <1>5, <2>1, <3>1 DEF AtPair
    <3> QED  BY <1>5, <3>2
  <2> QED  BY <2>5, <2>6
<1>9. CASE ParseName
  <2>1. /\ pc = "name" /\ m = AtName(b, x) /\ nameLength = Len(x.key)
        /\ valueLength = Len(x.value) /\ pairs' = pairs /\ k < Len(written)
        /\ valueLength' = valueLength
    BY <1>2, <1>9 DEF ParseName
  <2>2. Laid(b, x) /\ PairStands(w, b, x) /\ Start(written, k + 1) = AtEnd(b, x)
    BY <1>3, <2>1
  <2>3. CASE Left < nameLength
    <3>1. pc' = "done"
      BY <1>9, <2>3 DEF ParseName
    <3>2. AtValue(b, x) > Len(data)
      <4>1. m + nameLength > Len(data)
        BY <1>1, <2>1, <2>2, <2>3 DEF Laid, Left
      <4> QED  BY <1>4, <2>1, <4>1
    <3>3. AtEnd(b, x) > Len(data)
      BY <1>1, <2>2, <3>2 DEF Laid
    <3>4. Start(written', k + 1) > Len(data')
      BY <1>5, <2>2, <3>3
    <3>5. AtPair(k)'
      BY <1>2, <1>5, <2>1, <3>1, <3>4 DEF AtPair
    <3> QED  BY <1>5, <3>5
  <2>4. CASE ~(Left < nameLength)
    <3>1. key' = Take(nameLength) /\ m' = m + nameLength /\ pc' = "value"
      BY <1>9, <2>4 DEF ParseName
    <3>2. x.key \in Seq(Bytes) /\ Stands(w, m, x.key)
      BY <2>1, <2>2 DEF Laid, PairStands
    <3>3. Take(nameLength) = x.key
      <4> DEFINE s == x.key
      <4>1. s \in Seq(Bytes) /\ Stands(w, m, s) /\ nameLength = Len(s)
        BY <2>1, <3>2
      <4> HIDE DEF s
      <4>2. Take(nameLength) = s
        BY <1>1, <2>4, <4>1, PartTaken
      <4> QED  BY <4>2 DEF s
    <3>4. key' = x.key /\ m' = AtValue(b, x) /\ valueLength' = Len(x.value)
      BY <1>4, <2>1, <3>1, <3>3
    <3>5. AtPair(k)'
      BY <1>2, <1>5, <2>1, <3>1, <3>4 DEF AtPair
    <3> QED  BY <1>5, <3>5
  <2> QED  BY <2>3, <2>4
<1>10. CASE ParseValue
  <2>1. /\ pc = "value" /\ m = AtValue(b, x) /\ key = x.key
        /\ valueLength = Len(x.value) /\ k < Len(written)
    BY <1>2, <1>10 DEF ParseValue
  <2>2. Laid(b, x) /\ PairStands(w, b, x) /\ Start(written, k + 1) = AtEnd(b, x)
    BY <1>3, <2>1
  <2>3. CASE Left < valueLength
    <3>1. pc' = "done" /\ pairs' = pairs
      BY <1>10, <2>3 DEF ParseValue
    <3>2. AtEnd(b, x) > Len(data)
      <4>1. m + valueLength > Len(data)
        BY <1>1, <2>1, <2>2, <2>3 DEF Laid, Left
      <4> QED  BY <1>4, <2>1, <4>1
    <3>3. Start(written', k + 1) > Len(data')
      BY <1>5, <2>2, <3>2
    <3>4. AtPair(k)'
      BY <1>2, <1>5, <3>1, <3>3 DEF AtPair
    <3> QED  BY <1>5, <3>4
  <2>4. CASE ~(Left < valueLength)
    <3>1. Insert(Take(valueLength)) /\ m' = m + valueLength /\ pc' = "nameLength"
      BY <1>10, <2>4 DEF ParseValue
    <3>2. Take(valueLength) = x.value /\ m + valueLength <= Len(data)
      <4> DEFINE s == x.value
      <4>1. s \in Seq(Bytes) /\ Stands(w, m, s) /\ valueLength = Len(s)
        BY <2>1, <2>2 DEF Laid, PairStands
      <4> HIDE DEF s
      <4>2. Take(valueLength) = s /\ m + valueLength <= Len(data)
        BY <1>1, <2>4, <4>1, PartTaken
      <4> QED  BY <4>2 DEF s
    <3>3. m' = Start(written', k + 1) /\ Start(written', k + 1) <= Len(data')
      BY <1>4, <1>5, <2>1, <2>2, <3>1, <3>2
    <3>4. pairs' = FirstOf(SubSeq(written, 1, k + 1))
      <4> DEFINE s == SubSeq(written, 1, k)
                 t == SubSeq(written, 1, k + 1)
                 S == PairsOf(Strings)
      <4>1. s \in Seq(S) /\ x \in S /\ Longer(t, s, x)
        <5>1. k \in 0..Len(written) /\ k + 1 \in 1..Len(written) /\ 1 \in 1..Len(written) /\ (k + 1) - 1 = k
          BY <1>1, <2>1
        <5>2. s \in Seq(S)
          BY <1>1, <5>1, SubSeqProperties
        <5>3. x \in S
          BY <1>1, <5>1, ElementOfSeq DEF x
        <5>4. t = s \o <<x>>
          BY <1>1, <5>1, SubSeqRecursiveSecond DEF x
        <5> HIDE DEF s, t, S
        <5> QED  BY <5>2, <5>3, <5>4, AppendIsConcat DEF Longer
      <4>2. pairs = FirstOf(s)
        BY <1>2
      <4> DEFINE nm == x.key
                 v == x.value
      <4> HIDE DEF s, t, S
      <4>3. FirstOf(t) = With(FirstOf(s), nm, v)
        <5> HIDE DEF nm, v
        <5> QED  BY <4>1, FirstOfNext DEF nm, v
      <4>4. pairs' = FirstOf(t)
        BY <2>1, <3>1, <3>2, <4>2, <4>3 DEF Insert, With
      <4> QED  BY <4>4 DEF t
    <3>5. AtPair(k + 1)'
      BY <1>5, <3>1, <3>3, <3>4 DEF AtPair
    <3>6. k + 1 \in 0..Len(written)
      BY <1>1, <2>1
    <3> QED  BY <3>5, <3>6
  <2> QED  BY <2>3, <2>4
<1> QED  BY <1>6, <1>7, <1>8, <1>9, <1>10 DEF ParseStep

(* What is written is cut off somewhere, and no pair has been taken. *)
LEMMA RoundTripInit == PairInit => RoundTripInv
<1> SUFFICES ASSUME PairInit, isWritten PROVE RoundTripInv
  BY DEF RoundTripInv
<1> DEFINE w == Encode(written)
<1>1. written \in Lists /\ \E n \in 0..Len(w) : data = SubSeq(w, 1, n)
  BY DEF PairInit
<1>2. written \in Seq(PairsOf(Strings))
  BY <1>1, PairAssumption
<1>3. w \in Seq(Bytes)
  BY <1>2, PairsFollow
<1>4. Len(w) \in Nat /\ Len(written) \in Nat
  BY <1>2, <1>3, LenProperties
<1>5. IsCut(w)
  <2>1. PICK n \in 0..Len(w) : data = SubSeq(w, 1, n)
    BY <1>1
  <2> HIDE DEF w
  <2>2. Len(data) = n /\ \A i \in 1..n : data[i] = w[i]
    BY <1>3, <1>4, <2>1, SubSeqProperties
  <2> QED  BY <1>4, <2>1, <2>2 DEF IsCut
<1>6. AtPair(0)
  <2>1. Start(written, 0) = 0
    BY <1>2, PairsFollow
  <2>2. pairs = FirstOf(SubSeq(written, 1, 0))
    <3>1. SubSeq(written, 1, 0) = <<>>
      BY SubSeqEmpty
    <3> QED  BY <3>1, FirstOfNothing DEF PairInit
  <2>3. 0 <= Len(data)
    <3>1. data \in Seq(Bytes)
      BY PairInitInv DEF PairInv, PairTypeOK
    <3> QED  BY <3>1, LenProperties
  <2>4. pc = "nameLength" /\ m = 0
    BY DEF PairInit
  <2> QED  BY <2>1, <2>2, <2>3, <2>4 DEF AtPair
<1>7. 0 \in 0..Len(written)
  BY <1>4
<1> QED  BY <1>2, <1>5, <1>6, <1>7 DEF RoundTripInv, InputInv

(* One more step of the loop is at the same pair or at the next one. *)
LEMMA RoundTripStep == PairInv /\ RoundTripInv /\ [ParseStep]_pairVars => RoundTripInv'
<1> SUFFICES ASSUME PairInv, RoundTripInv, [ParseStep]_pairVars, isWritten'
             PROVE  InputInv' /\ \E k \in 0..Len(written') : AtPair(k)'
  BY DEF RoundTripInv
<1>1. isWritten' = isWritten /\ written' = written /\ data' = data
  BY DEF ParseStep, ParseNameLength, LoopEnd, ParseValueLength, ParseName, ParseValue,
         inputVars, pairVars
<1>2. InputInv /\ \E k \in 0..Len(written) : AtPair(k)
  BY <1>1 DEF RoundTripInv
<1>3. InputInv'
  BY <1>1, <1>2 DEF InputInv, IsCut
<1>4. PICK k \in 0..Len(written) : AtPair(k)
  BY <1>2
<1>5. CASE ParseStep
  <2>1. \E j \in 0..Len(written) : AtPair(j)'
    BY <1>2, <1>4, <1>5, StepAtPair
  <2> QED  BY <1>1, <1>3, <2>1
<1>6. CASE UNCHANGED pairVars
  <2>1. AtPair(k)'
    BY <1>4, <1>6 DEF AtPair, pairVars, inputVars
  <2> QED  BY <1>1, <1>3, <2>1
<1> QED  BY <1>5, <1>6

(* The pairs that are taken when the loop is left are those that are whole. *)
LEMMA WholeWhenDone == PairInv /\ RoundTripInv => ParsesWholePairs
<1> SUFFICES ASSUME PairInv, RoundTripInv, pc = "done", isWritten
             PROVE  pairs = FirstOf(WholePairs)
  BY DEF ParsesWholePairs
<1> DEFINE WholeUpTo(i) == Start(written, i) <= Len(data)
           IsLast(i) == WholeUpTo(i) /\ \A j \in 0..Len(written) : WholeUpTo(j) => j <= i
           last == CHOOSE i \in 0..Len(written) : IsLast(i)
<1>1. written \in Seq(PairsOf(Strings)) /\ Len(written) \in Nat /\ Len(data) \in Nat
  BY LenProperties DEF RoundTripInv, InputInv, PairInv, PairTypeOK
<1>2. PICK k \in 0..Len(written) : AtPair(k)
  BY DEF RoundTripInv
<1>3. /\ pairs = FirstOf(SubSeq(written, 1, k))
      /\ WholeUpTo(k)
      /\ k = Len(written) \/ Start(written, k + 1) > Len(data)
  BY <1>2 DEF AtPair
<1>4. \A j \in 0..Len(written) : WholeUpTo(j) => j <= k
  <2> SUFFICES ASSUME NEW j \in 0..Len(written), Start(written, j) <= Len(data), j > k
               PROVE  FALSE
    BY <1>1
  <2>1. /\ k + 1 \in Nat /\ j \in Nat /\ k + 1 <= j /\ j <= Len(written)
        /\ k + 1 \in 0..Len(written)
    BY <1>1
  <2>2. Start(written, k + 1) <= Start(written, j)
    BY <1>1, <2>1, StartsGrow
  <2>3. Start(written, k + 1) \in Nat /\ Start(written, j) \in Nat
    BY <1>1, <2>1, PairsFollow
  <2> QED  BY <1>1, <1>3, <2>1, <2>2, <2>3
<1>5. IsLast(k)
  BY <1>3, <1>4
<1>6. last \in 0..Len(written) /\ IsLast(last)
  <2> HIDE DEF IsLast
  <2> QED  BY <1>2, <1>5
<1>7. last = k
  <2>1. last <= k /\ k <= last
    BY <1>3, <1>4, <1>6
  <2> HIDE DEF last
  <2> QED  BY <1>1, <1>6, <2>1
<1>8. WholePairs = SubSeq(written, 1, last)
  BY DEF WholePairs, Start, Written
<1> QED  BY <1>3, <1>7, <1>8

(* Both invariants hold together. *)
THEOREM RoundTripInvariance == PairSpec => [](PairInv /\ RoundTripInv)
<1> QED  BY PairInitInv, PairStepInv, RoundTripInit, RoundTripStep, PTL DEF PairSpec

(* What was written is found again: every whole pair and nothing else, by the
   first value of its name. *)
THEOREM TakesPairsBack == PairSpec => []ParsesWholePairs
<1> QED  BY RoundTripInvariance, WholeWhenDone, PTL

=============================================================================
