---------------------------- MODULE StreamProofs ----------------------------
(***************************************************************************)
(* Proofs about the two readers of a stream, which has to be read as it    *)
(* was written wherever it is cut.                                         *)
(*                                                                         *)
(* The first part is about the SLCAN line, for any frames, times and       *)
(* noise, any buffer and any number of lines and of bytes lost.  What      *)
(* EncodeFrame writes DecodeLine reads back, whatever an adapter puts      *)
(* after it.  The invariant: what the decoder has begun and what is on its *)
(* way make up every line that is whole.  It is kept byte by byte, so it   *)
(* does not matter where reads cut the stream.                             *)
(*                                                                         *)
(* The second part is about a captured DoIP connection, for any messages,  *)
(* any segments, any packets missing, repeated or reordered, and any first *)
(* sequence number.  The invariant: every packet carries a stretch of what *)
(* was written, and that only grows.  What segments are joined to is a     *)
(* stretch again, and what is read at the header of a message is that      *)
(* message.                                                                *)
(*                                                                         *)
(* The third part is about the vehicle such a capture shows when it lacks  *)
(* nothing.  The invariants: the packets tile what went out, and an answer *)
(* lies behind its request and before the next one to its ECU.  Sorting,   *)
(* joining, reading and merging keep that order, so that the fold pairs    *)
(* every final answer with its request and learns what it reveals.         *)
(***************************************************************************)
EXTENDS SlcanLine, Reconstruction, SequenceTheorems, FiniteSetTheorems, WellFoundedInduction, TLAPS

-----------------------------------------------------------------------------
\* Induction over the natural numbers, for a set.
LEMMA NatBySets ==
  ASSUME NEW A, 0 \in A, \A n \in Nat : n \in A => n + 1 \in A
  PROVE  \A n \in Nat : n \in A
<1> SUFFICES ASSUME NEW n \in Nat, n \notin A PROVE FALSE
  OBVIOUS
<1> DEFINE T == {0 .. k : k \in {j \in 0 .. n : j \notin A}}
           R == StrictSubsetOrdering(Nat)
           S == FiniteSubsetsOf(Nat)
<1>1. IsWellFoundedOn(R, S)
  BY FS_StrictSubsetOrderingWellFounded
<1>2. T \subseteq S
  <2>1. \A k \in 0 .. n : 0 .. k \in SUBSET Nat /\ IsFiniteSet(0 .. k)
    BY FS_Interval
  <2> QED
    BY <2>1 DEF FiniteSubsetsOf
<1>3. T # {}
  <2>1. 0 .. n \in T
    OBVIOUS
  <2> QED
    BY <2>1
<1> HIDE DEF R, S
<1>4. PICK x \in T : \A y \in T : <<y, x>> \notin R
  BY <1>1, <1>2, <1>3, WFMin
<1>5. PICK k \in 0 .. n : x = 0 .. k /\ k \notin A
  OBVIOUS
<1>6. k # 0 /\ k - 1 \in Nat /\ k - 1 \in 0 .. n
  BY <1>5
<1>7. 0 .. (k - 1) \subseteq 0 .. k /\ 0 .. (k - 1) # 0 .. k
  <2>1. k \in 0 .. k /\ k \notin 0 .. (k - 1)
    BY <1>6
  <2>2. 0 .. (k - 1) \subseteq 0 .. k
    BY <1>6
  <2>3. QED
    BY <2>1, <2>2
<1>8. <<0 .. (k - 1), 0 .. k>> \in R
  <2>1. 0 .. (k - 1) \in SUBSET Nat /\ 0 .. k \in SUBSET Nat
    BY <1>6
  <2> QED
    BY <1>7, <2>1 DEF R, StrictSubsetOrdering
<1>9. 0 .. (k - 1) \notin T
  BY <1>4, <1>5, <1>8
<1>10. k - 1 \in A
  BY <1>6, <1>9
<1> QED
  BY <1>5, <1>6, <1>10

-----------------------------------------------------------------------------
(***************************************************************************)
(* Decoding what was encoded                                               *)
(***************************************************************************)
LEMMA DigitsDiffer ==
  ASSUME NEW m \in 0 .. 15, NEW n \in 0 .. 15, HexDigits[m + 1] = HexDigits[n + 1]
  PROVE  m = n
BY DEF HexDigits

LEMMA DigitOfNibble ==
  ASSUME NEW n \in 0 .. 15
  PROVE  /\ HexDigits[n + 1] \in DOMAIN Nibble
         /\ Nibble[HexDigits[n + 1]] = n
         /\ HexDigits[n + 1] \in Characters
         /\ HexDigits[n + 1] \notin {"CR", "BEL", "+"}
<1>1. DOMAIN HexDigits = 1 .. 16
  BY DEF HexDigits
<1>2. HexDigits[n + 1] \in ToSet(HexDigits)
  BY <1>1 DEF ToSet
<1>3. DOMAIN Nibble = ToSet(HexDigits)
  BY DEF Nibble
<1>4. Nibble[HexDigits[n + 1]] = CHOOSE m \in 0 .. 15 : HexDigits[m + 1] = HexDigits[n + 1]
  BY <1>2 DEF Nibble
<1>5. Nibble[HexDigits[n + 1]] = n
  BY <1>4, DigitsDiffer
<1>6. HexDigits[n + 1] \notin {"CR", "BEL", "+"}
  BY DEF HexDigits
<1> QED BY <1>2, <1>3, <1>5, <1>6, SlcanAssumption

Spells(chars, len, nibbles) ==
  Len(chars) = len /\ \A k \in 1 .. len : chars[k] = HexDigits[nibbles[k] + 1]

\* Digits written at a place of a line are the number read there.
LEMMA NumberOfHex ==
  ASSUME NEW chars, NEW len \in Nat, NEW nibbles \in [1 .. len -> 0 .. 15],
         Spells(chars, len, nibbles)
  PROVE  Number(chars) = nibbles
<1> USE DEF Spells
<1>1. \A k \in 1 .. len : /\ chars[k] \in DOMAIN Nibble
                          /\ Nibble[chars[k]] = nibbles[k]
                          /\ chars[k] # "+"
  <2> TAKE k \in 1 .. len
  <2>1. nibbles[k] \in 0 .. 15
    OBVIOUS
  <2> QED BY <2>1, DigitOfNibble
<1>2. IsHex(chars) /\ ~(Len(chars) > 1 /\ chars[1] = "+")
  BY <1>1 DEF IsHex
<1> DEFINE value == [k \in 1 .. Len(chars) |-> Nibble[chars[k]]]
<1>3. value = nibbles
  BY <1>1
<1>4. Number(chars) = value
  <2> HIDE DEF value
  <2>1. Number(chars) = CASE IsHex(chars) -> value
      [] Len(chars) > 1 /\ chars[1] = "+" /\ IsHex(Tail(chars)) ->
           [k \in 1 .. Len(chars) |-> IF k = 1 THEN 0 ELSE Nibble[chars[k]]]
      [] OTHER -> <<>>
    BY Zenon DEF Number, value
  <2> QED BY <1>2, <2>1
<1> QED BY <1>3, <1>4

\* One sequence after another, place by place.
Joins(r, S, s, m, t, n) ==
  /\ r \in Seq(S)
  /\ Len(r) = m + n
  /\ \A k \in 1 .. m : r[k] = s[k]
  /\ \A k \in 1 .. n : r[m + k] = t[k]

LEMMA Joined ==
  ASSUME NEW S, NEW s \in Seq(S), NEW t \in Seq(S), NEW m \in Nat, Len(s) = m,
         NEW n \in Nat, Len(t) = n
  PROVE  Joins(s \o t, S, s, m, t, n)
<1>1. /\ s \o t \in Seq(S)
      /\ Len(s \o t) = m + n
      /\ \A i \in 1 .. m + n : (s \o t)[i] = IF i <= m THEN s[i] ELSE t[i - m]
  BY ConcatProperties
<1>2. \A k \in 1 .. n : m + k \in 1 .. m + n /\ ~(m + k <= m) /\ (m + k) - m = k
  OBVIOUS
<1>3. \A k \in 1 .. m : k \in 1 .. m + n
  OBVIOUS
<1> QED BY <1>1, <1>2, <1>3 DEF Joins

Writes(chars, n, nibbles) ==
  chars \in Seq(Characters) /\ Spells(chars, n, nibbles)

LEMMA HexOf ==
  ASSUME NEW n \in Nat, NEW nibbles \in [1 .. n -> 0 .. 15]
  PROVE  Writes(Hex(nibbles), n, nibbles)
<1>1. Hex(nibbles) = [k \in 1 .. n |-> HexDigits[nibbles[k] + 1]]
  BY DEF Hex
<1>2. \A k \in 1 .. n : HexDigits[nibbles[k] + 1] \in Characters
  BY DigitOfNibble
<1>3. Hex(nibbles) \in [1 .. n -> Characters]
  BY <1>1, <1>2
<1> QED BY <1>1, <1>3 DEF Writes, Spells

LEMMA FrameType ==
  ASSUME NEW frame \in Frames
  PROVE  /\ IdLength(frame.extended) \in {3, 8}
         /\ frame.id \in [1 .. IdLength(frame.extended) -> 0 .. 15]
         /\ DataLengthCode(frame) \in 0 .. 8
         /\ Len(frame.data) \in Nat
         /\ Len(frame.data) = IF frame.remote THEN 0 ELSE 2 * DataLengthCode(frame)
         /\ frame.data \in [1 .. Len(frame.data) -> 0 .. 15]
         /\ Kind(frame) \in {"t", "T", "r", "R"}
<1>1. /\ frame.extended \in BOOLEAN /\ frame.remote \in BOOLEAN
      /\ frame.id \in Seq(0 .. 15) /\ Len(frame.id) = IdLength(frame.extended)
      /\ frame.remoteLength \in 0 .. 8
      /\ frame.data \in Seq(0 .. 15)
      /\ frame.remote => frame.data = <<>>
  BY SlcanAssumption
<1>2. PICK n \in 0 .. 8 : Len(frame.data) = 2 * n
  BY SlcanAssumption
<1>3. /\ frame.data \in [1 .. Len(frame.data) -> 0 .. 15]
      /\ frame.id \in [1 .. IdLength(frame.extended) -> 0 .. 15]
  BY <1>1, LenProperties
<1>4. ~frame.remote => DataLengthCode(frame) = n
  <2>1. (2 * n) \div 2 = n
    OBVIOUS
  <2> QED BY <1>2, <2>1 DEF DataLengthCode
<1>5. frame.remote => DataLengthCode(frame) \in 0 .. 8 /\ Len(frame.data) = 0
  BY <1>1, EmptySeq DEF DataLengthCode
<1> QED BY <1>1, <1>2, <1>3, <1>4, <1>5 DEF IdLength, Kind

\* The characters of an encoded frame with something after it, place by place:
\* the kind, the identifier, at L the length, then the data, and after R the rest.
Encoded(chars, frame, time, I, D, L, R) ==
  /\ chars \in Seq(Characters)
  /\ Len(chars) = R + Len(time)
  /\ chars[1] = Kind(frame)
  /\ \A k \in 1 .. I : chars[1 + k] = HexDigits[frame.id[k] + 1]
  /\ chars[L] = HexDigits[DataLengthCode(frame) + 1]
  /\ \A k \in 1 .. D : chars[L + k] = HexDigits[frame.data[k] + 1]
  /\ \A k \in 1 .. Len(time) : chars[R + k] = time[k]

LEMMA EncodedFrame ==
  ASSUME NEW frame \in Frames, NEW time \in Seq(Characters), NEW I \in Nat, NEW D \in Nat,
         I = IdLength(frame.extended), D = Len(frame.data),
         NEW L \in Nat, L = I + 2, NEW R \in Nat, R = L + D
  PROVE  Encoded(EncodeFrame(frame) \o time, frame, time, I, D, L, R)
<1> DEFINE a == <<Kind(frame)>>
           b == Hex(frame.id)
           c == Hex(<<DataLengthCode(frame)>>)
           d == Hex(frame.data)
<1>1. a \in Seq(Characters) /\ Len(a) = 1 /\ a[1] = Kind(frame)
  BY FrameType, SlcanAssumption
<1>2. /\ b \in Seq(Characters) /\ Len(b) = I
      /\ \A k \in 1 .. I : b[k] = HexDigits[frame.id[k] + 1]
  <2>1. Writes(b, I, frame.id)
    BY FrameType, HexOf
  <2> QED BY <2>1 DEF Writes, Spells
<1>3. /\ c \in Seq(Characters) /\ Len(c) = 1
      /\ c[1] = HexDigits[DataLengthCode(frame) + 1]
  <2> DEFINE n == DataLengthCode(frame)
             one == <<n>>
  <2>1. one \in [1 .. 1 -> 0 .. 15] /\ one[1] = n
    BY FrameType
  <2> HIDE DEF n, one
  <2>2. /\ Hex(one) \in Seq(Characters) /\ Len(Hex(one)) = 1
        /\ Hex(one)[1] = HexDigits[n + 1]
    <3>1. Writes(Hex(one), 1, one)
      BY <2>1, HexOf
    <3> QED BY <2>1, <3>1 DEF Writes, Spells
  <2> QED BY <2>2 DEF n, one
<1>4. /\ d \in Seq(Characters) /\ Len(d) = D
      /\ \A k \in 1 .. D : d[k] = HexDigits[frame.data[k] + 1]
  <2>1. Writes(d, D, frame.data)
    BY FrameType, HexOf
  <2> QED BY <2>1 DEF Writes, Spells
<1>5. EncodeFrame(frame) = ((a \o b) \o c) \o d
  BY DEF EncodeFrame
<1>6. Len(time) \in Nat
  BY LenProperties
<1> HIDE DEF a, b, c, d
<1> DEFINE ab == a \o b
           K == 1 + I
<1>7. /\ ab \in Seq(Characters) /\ Len(ab) = K /\ K \in Nat
      /\ ab[1] = a[1] /\ \A k \in 1 .. I : ab[1 + k] = b[k]
  <2>1. Joins(ab, Characters, a, 1, b, I)
    BY <1>1, <1>2, Joined
  <2> HIDE DEF ab
  <2> QED BY <2>1 DEF Joins
<1>8. /\ K + 1 = L /\ L + D = R /\ \A k \in 1 .. I : 1 + k \in 1 .. K
      /\ 1 \in 1 .. K /\ 1 \in 1 .. 1
      /\ 1 .. K \subseteq 1 .. L /\ 1 .. L \subseteq 1 .. R /\ L \in 1 .. L
      /\ \A k \in 1 .. D : L + k \in 1 .. R
  OBVIOUS
<1> HIDE DEF ab, K
<1> DEFINE abc == ab \o c
<1>9. /\ abc \in Seq(Characters) /\ Len(abc) = L
      /\ \A k \in 1 .. K : abc[k] = ab[k]
      /\ abc[L] = c[1]
  <2>1. /\ abc \in Seq(Characters) /\ Len(abc) = K + 1
        /\ \A k \in 1 .. K : abc[k] = ab[k]
        /\ \A k \in 1 .. 1 : abc[K + k] = c[k]
    <3>1. Joins(abc, Characters, ab, K, c, 1)
      BY <1>3, <1>7, Joined
    <3> HIDE DEF abc
    <3> QED BY <3>1 DEF Joins
  <2>2. abc[K + 1] = c[1]
    BY <1>8, <2>1
  <2> QED BY <1>8, <2>1, <2>2
<1> HIDE DEF abc
<1> DEFINE abcd == abc \o d
<1>10. /\ abcd \in Seq(Characters) /\ Len(abcd) = R
       /\ \A k \in 1 .. L : abcd[k] = abc[k]
       /\ \A k \in 1 .. D : abcd[L + k] = d[k]
  <2>1. Joins(abcd, Characters, abc, L, d, D)
    BY <1>4, <1>9, Joined
  <2> HIDE DEF abcd
  <2> QED BY <1>8, <2>1 DEF Joins
<1> HIDE DEF abcd
<1> DEFINE chars == abcd \o time
<1>11. /\ chars \in Seq(Characters) /\ Len(chars) = R + Len(time)
       /\ \A k \in 1 .. R : chars[k] = abcd[k]
       /\ \A k \in 1 .. Len(time) : chars[R + k] = time[k]
  <2>1. Joins(chars, Characters, abcd, R, time, Len(time))
    BY <1>6, <1>10, Joined
  <2> HIDE DEF chars
  <2> QED BY <2>1 DEF Joins
<1> HIDE DEF chars
<1>12. \A k \in 1 .. K : chars[k] = ab[k]
  BY <1>8, <1>9, <1>10, <1>11
<1>13. chars[1] = Kind(frame)
  BY <1>1, <1>7, <1>8, <1>12
<1>14. \A k \in 1 .. I : chars[1 + k] = HexDigits[frame.id[k] + 1]
  BY <1>2, <1>7, <1>8, <1>12
<1>15. chars[L] = HexDigits[DataLengthCode(frame) + 1]
  BY <1>3, <1>8, <1>9, <1>10, <1>11
<1>16. \A k \in 1 .. D : chars[L + k] = HexDigits[frame.data[k] + 1]
  BY <1>4, <1>8, <1>10, <1>11
<1> QED BY <1>5, <1>11, <1>13, <1>14, <1>15, <1>16 DEF Encoded, chars, abcd, abc, ab

\* text is a line that fits and shows what shows says.
Whole(text, shows) ==
  IsText(text) /\ Len(text) <= MaxLine /\ DecodeLine(text) = shows

LEMMA DataOfHex ==
  ASSUME NEW rest, NEW n \in 0 .. 8, Len(rest) \in Nat, Len(rest) >= 2 * n,
         NEW nibbles \in [1 .. 2 * n -> 0 .. 15],
         \A k \in 1 .. 2 * n : rest[k] = HexDigits[nibbles[k] + 1]
  PROVE  DataOf(rest, n) = <<nibbles>>
<1> DEFINE byte(k) == Number(SubSeq(rest, 2 * k - 1, 2 * k))
           pair(k) == [i \in 1 .. 2 |-> nibbles[2 * k - 2 + i]]
<1>1. ASSUME NEW k \in 1 .. n PROVE byte(k) = pair(k) /\ byte(k) # <<>>
  <2> DEFINE chars == SubSeq(rest, 2 * k - 1, 2 * k)
             p == pair(k)
  <2>1. /\ 2 * k - 1 \in 1 .. 2 * n /\ 2 * k \in 1 .. 2 * n
        /\ 2 * k - 2 + 1 = 2 * k - 1 /\ 2 * k - 2 + 2 = 2 * k
    OBVIOUS
  <2>2. p \in [1 .. 2 -> 0 .. 15] /\ p[1] = nibbles[2 * k - 1] /\ p[2] = nibbles[2 * k]
    BY <2>1
  <2>3. Len(chars) = 2 /\ chars[1] = rest[2 * k - 1] /\ chars[2] = rest[2 * k]
    <3> DEFINE a == 2 * k - 1
               z == 2 * k
    <3>1. a \in Int /\ z \in Int /\ z - a + 1 = 2 /\ a <= z /\ a + 1 - 1 = a /\ a + 2 - 1 = z
      OBVIOUS
    <3> HIDE DEF a, z
    <3>2. /\ Len(SubSeq(rest, a, z)) = IF a <= z THEN z - a + 1 ELSE 0
          /\ \A i \in 1 .. z - a + 1 : SubSeq(rest, a, z)[i] = rest[a + i - 1]
      <4> DEFINE S == {rest[i] : i \in a .. z}
      <4>1. \A i \in a .. z : rest[i] \in S
        OBVIOUS
      <4> HIDE DEF S
      <4> QED BY <3>1, <4>1, SubSeqProperties
    <3> QED BY <3>1, <3>2 DEF a, z
  <2>4. \A i \in 1 .. 2 : chars[i] = HexDigits[p[i] + 1]
    <3>1. chars[1] = HexDigits[p[1] + 1]
      BY <2>1, <2>2, <2>3
    <3>2. chars[2] = HexDigits[p[2] + 1]
      BY <2>1, <2>2, <2>3
    <3> HIDE DEF chars, p
    <3> QED BY <3>1, <3>2
  <2> HIDE DEF chars, p
  <2>5. Number(chars) = p
    <3>1. Spells(chars, 2, p)
      BY <2>3, <2>4 DEF Spells
    <3> QED BY <2>2, <3>1, NumberOfHex
  <2>6. p # <<>>
    <3>1. DOMAIN p = 1 .. 2 /\ DOMAIN <<>> = {} /\ 1 \in 1 .. 2
      BY <2>2
    <3> QED BY <3>1
  <2> QED BY <2>5, <2>6 DEF chars, p
<1>2. ASSUME NEW k \in 1 .. 2 * n
      PROVE  byte((k + 1) \div 2)[2 - (k % 2)] = nibbles[k]
  <2> DEFINE h == (k + 1) \div 2
             i == 2 - (k % 2)
  <2>1. h \in 1 .. n /\ i \in 1 .. 2 /\ 2 * h - 2 + i = k
    OBVIOUS
  <2>2. byte(h) = pair(h)
    BY <1>1, <2>1
  <2> HIDE DEF h, i, byte
  <2>3. byte(h)[i] = nibbles[k]
    BY <2>1, <2>2
  <2> QED BY <2>3 DEF h, i
<1> DEFINE all == [k \in 1 .. 2 * n |-> byte((k + 1) \div 2)[2 - (k % 2)]]
<1> HIDE DEF byte
<1>3. all = nibbles
  BY <1>2
<1>4. DataOf(rest, n) = IF Len(rest) < 2 * n \/ \E k \in 1 .. n : byte(k) = <<>>
                        THEN <<>> ELSE <<all>>
  BY DEF DataOf, byte
<1>5. \A k \in 1 .. n : byte(k) # <<>>
  BY <1>1
<1> HIDE DEF all
<1>6. ~(Len(rest) < 2 * n)
  OBVIOUS
<1> QED BY <1>3, <1>4, <1>5, <1>6

LEMMA FrameDecoded ==
  ASSUME NEW frame \in Frames, NEW time \in Times
  PROVE  Whole(EncodeFrame(frame) \o time, <<frame>>)
<1> DEFINE chars == EncodeFrame(frame) \o time
           I == IdLength(frame.extended)
           D == Len(frame.data)
           L == I + 2
           R == L + D
           n == DataLengthCode(frame)
<1>1. IsText(time) /\ Len(chars) <= MaxLine
  BY LineAssumption
<1>2. time \in Seq(Characters) /\ Len(time) \in Nat
  BY <1>1, LenProperties DEF IsText
<1>3. /\ I \in {3, 8} /\ D \in Nat /\ n \in 0 .. 8
      /\ D = IF frame.remote THEN 0 ELSE 2 * n
      /\ frame.id \in [1 .. I -> 0 .. 15]
      /\ frame.data \in [1 .. D -> 0 .. 15]
      /\ Kind(frame) \in {"t", "T", "r", "R"}
  BY FrameType
<1>4. I \in Nat /\ L \in Nat /\ R \in Nat /\ I = L - 2
  BY <1>3
<1>5. /\ chars \in Seq(Characters)
      /\ Len(chars) = R + Len(time)
      /\ chars[1] = Kind(frame)
      /\ \A k \in 1 .. I : chars[1 + k] = HexDigits[frame.id[k] + 1]
      /\ chars[L] = HexDigits[n + 1]
      /\ \A k \in 1 .. D : chars[L + k] = HexDigits[frame.data[k] + 1]
      /\ \A k \in 1 .. Len(time) : chars[R + k] = time[k]
  <2>1. Encoded(chars, frame, time, I, D, L, R)
    BY <1>2, <1>3, <1>4, EncodedFrame
  <2> HIDE DEF chars, I, D
  <2> QED BY <2>1 DEF Encoded
<1>6. /\ frame = [extended |-> frame.extended, remote |-> frame.remote, id |-> frame.id,
                  data |-> frame.data, remoteLength |-> frame.remoteLength]
      /\ frame.extended \in BOOLEAN /\ frame.remote \in BOOLEAN
      /\ frame.remoteLength = IF frame.remote THEN n ELSE 0
      /\ frame.remote => frame.data = <<>>
  BY SlcanAssumption DEF DataLengthCode
<1>7. /\ chars[1] \in {"T", "R"} <=> frame.extended
      /\ chars[1] \in {"r", "R"} <=> frame.remote
  BY <1>5, <1>6 DEF Kind
<1> HIDE DEF chars, I, D, n
<1>8. IsText(chars)
  <2>1. ASSUME NEW k \in 1 .. Len(chars) PROVE chars[k] \notin {"CR", "BEL"}
    <3>1. CASE k = 1
      BY <1>3, <1>5, <3>1
    <3>2. CASE k \in 2 .. L - 1
      <4>1. k - 1 \in 1 .. I /\ 1 + (k - 1) = k
        BY <1>4, <3>2
      <4>2. chars[k] = HexDigits[frame.id[k - 1] + 1] /\ frame.id[k - 1] \in 0 .. 15
        BY <1>3, <1>5, <4>1
      <4> QED BY <4>2, DigitOfNibble
    <3>3. CASE k = L
      <4>1. n \in 0 .. 15
        BY <1>3
      <4> QED BY <1>5, <3>3, <4>1, DigitOfNibble
    <3>4. CASE k \in L + 1 .. R
      <4>1. k - L \in 1 .. D /\ L + (k - L) = k
        BY <1>3, <1>4, <3>4
      <4>2. chars[k] = HexDigits[frame.data[k - L] + 1] /\ frame.data[k - L] \in 0 .. 15
        BY <1>3, <1>5, <4>1
      <4> QED BY <4>2, DigitOfNibble
    <3>5. CASE k \in R + 1 .. Len(chars)
      <4>1. k - R \in 1 .. Len(time) /\ R + (k - R) = k
        BY <1>2, <1>4, <1>5, <3>5
      <4>2. chars[k] = time[k - R]
        BY <1>5, <4>1
      <4> QED BY <1>1, <4>1, <4>2 DEF IsText
    <3> QED BY <1>2, <1>3, <1>4, <1>5, <3>1, <3>2, <3>3, <3>4, <3>5
  <2> QED BY <1>5, <2>1 DEF IsText
<1>9. Number(SubSeq(chars, 2, L - 1)) = frame.id
  <2> DEFINE part == SubSeq(chars, 2, L - 1)
  <2>1. \A i \in 2 .. L - 1 : chars[i] \in Characters
    BY <1>2, <1>4, <1>5, ElementOfSeq, <1>3
  <2>2. Len(part) = I /\ \A k \in 1 .. I : part[k] = chars[2 + k - 1]
    <3>1. L - 1 \in Int /\ (L - 1) - 2 + 1 = I /\ 2 <= L - 1
      BY <1>3, <1>4
    <3> QED BY <2>1, <3>1, SubSeqProperties
  <2>3. \A k \in 1 .. I : part[k] = HexDigits[frame.id[k] + 1]
    <3>1. \A k \in 1 .. I : 2 + k - 1 = 1 + k
      BY <1>4
    <3> QED BY <1>5, <2>2, <3>1
  <2> HIDE DEF part
  <2>4. Number(part) = frame.id
    <3>1. Spells(part, I, frame.id)
      BY <2>2, <2>3 DEF Spells
    <3> QED BY <1>3, <1>4, <3>1, NumberOfHex
  <2> QED BY <2>4 DEF part
<1>10. Number(<<chars[L]>>) = <<n>>
  <2> DEFINE one == <<n>>
             part == <<chars[L]>>
  <2>1. one \in [1 .. 1 -> 0 .. 15] /\ one[1] = n /\ Len(part) = 1 /\ part[1] = chars[L]
    BY <1>3
  <2> HIDE DEF one, part
  <2>2. Number(part) = one
    <3>1. Spells(part, 1, one)
      BY <1>5, <2>1 DEF Spells
    <3> QED BY <2>1, <3>1, NumberOfHex
  <2> QED BY <2>2 DEF one, part
<1>11. ~frame.remote => DataOf(SubSeq(chars, L + 1, Len(chars)), n) = <<frame.data>>
  <2>1. SUFFICES ASSUME ~frame.remote
                 PROVE  DataOf(SubSeq(chars, L + 1, Len(chars)), n) = <<frame.data>>
    OBVIOUS
  <2> DEFINE rest == SubSeq(chars, L + 1, Len(chars))
  <2>2. D = 2 * n
    BY <1>3, <2>1
  <2>3. Len(rest) = D + Len(time) /\ \A k \in 1 .. D : rest[k] = chars[L + k]
    <3> DEFINE a == L + 1
               z == Len(chars)
    <3>1. /\ a \in Int /\ z \in Int /\ z - a + 1 = D + Len(time) /\ D + Len(time) \in Nat
          /\ (a <= z \/ D + Len(time) = 0)
          /\ a \in Nat \ {0}
          /\ \A k \in 1 .. D : k \in 1 .. z - a + 1 /\ a + k - 1 = L + k
      BY <1>2, <1>3, <1>4, <1>5
    <3>2. \A i \in a .. z : chars[i] \in Characters
      BY <1>5, <3>1, ElementOfSeq
    <3> HIDE DEF a, z
    <3>3. /\ Len(SubSeq(chars, a, z)) = IF a <= z THEN z - a + 1 ELSE 0
          /\ \A i \in 1 .. z - a + 1 : SubSeq(chars, a, z)[i] = chars[a + i - 1]
      BY <3>1, <3>2, SubSeqProperties
    <3> QED BY <3>1, <3>3 DEF a, z
  <2> HIDE DEF rest
  <2>4. Len(rest) \in Nat /\ Len(rest) >= 2 * n
    BY <1>2, <1>3, <2>2, <2>3
  <2>5. \A k \in 1 .. 2 * n : rest[k] = HexDigits[frame.data[k] + 1]
    BY <1>5, <2>2, <2>3
  <2>6. DataOf(rest, n) = <<frame.data>>
    BY <1>3, <2>2, <2>4, <2>5, DataOfHex
  <2> QED BY <2>6 DEF rest
<1> DEFINE x == chars[1] \in {"T", "R"}
           y == chars[1] \in {"r", "R"}
           header == 1 + IdLength(x) + 1
           id == Number(SubSeq(chars, 2, header - 1))
           length == Number(<<chars[header]>>)
           data == DataOf(SubSeq(chars, header + 1, Len(chars)), length[1])
           shown(bytes) ==
             [extended |-> x, remote |-> y, id |-> id, data |-> bytes,
              remoteLength |-> IF y THEN length[1] ELSE 0]
           inner == CASE length[1] > 8 -> <<>>
                      [] length[1] <= 8 /\ y -> <<shown(<<>>)>>
                      [] OTHER -> IF data = <<>> THEN <<>> ELSE <<shown(data[1])>>
<1>12. DecodeFrameLine(chars) =
         CASE Len(chars) < header -> <<>>
           [] Len(chars) >= header /\ (id = <<>> \/ length = <<>>) -> <<>>
           [] Len(chars) >= header /\ id # <<>> /\ length # <<>> -> inner
  BY Zenon DEF DecodeFrameLine
<1>13. x = frame.extended /\ y = frame.remote
  <2>1. x \in BOOLEAN /\ y \in BOOLEAN
    OBVIOUS
  <2>2. (x <=> frame.extended) /\ (y <=> frame.remote)
    BY <1>7, Zenon
  <2> HIDE DEF x, y
  <2> QED BY <1>6, <2>1, <2>2, Zenon
<1> HIDE DEF x, y
<1>14. header = L
  BY <1>4, <1>13 DEF I
<1> HIDE DEF header
<1>15. id = frame.id /\ length = <<n>>
  BY <1>9, <1>10, <1>14
<1>16. id # <<>> /\ length # <<>> /\ length[1] = n
  <2>1. DOMAIN frame.id = 1 .. I /\ 1 \in 1 .. I
    BY <1>3
  <2>2. DOMAIN <<>> = {}
    OBVIOUS
  <2>3. frame.id # <<>>
    BY <2>1, <2>2
  <2>4. <<n>> # <<>> /\ <<n>>[1] = n
    OBVIOUS
  <2> HIDE DEF id, length
  <2> QED BY <1>15, <2>3, <2>4
<1>17. ~frame.remote => data = <<frame.data>>
  BY <1>11, <1>14, <1>16
<1> HIDE DEF id, length, data
<1>18. Len(chars) >= header /\ ~(Len(chars) < header)
  BY <1>2, <1>3, <1>4, <1>5, <1>14
<1>19. DecodeFrameLine(chars) = inner
  <2> HIDE DEF inner
  <2> QED BY <1>12, <1>16, <1>18
<1>20. inner = <<frame>>
  <2>1. ~(length[1] > 8) /\ length[1] <= 8
    BY <1>3, <1>16
  <2>2. ASSUME NEW bytes, bytes = frame.data PROVE shown(bytes) = frame
    <3>1. (IF y THEN length[1] ELSE 0) = frame.remoteLength
      BY <1>6, <1>13, <1>16
    <3>2. shown(bytes) = [extended |-> frame.extended, remote |-> frame.remote,
                          id |-> frame.id, data |-> frame.data,
                          remoteLength |-> frame.remoteLength]
      BY <1>13, <1>15, <2>2, <3>1, Zenon
    <3> QED BY <1>6, <3>2, Zenon
  <2>3. CASE frame.remote
    <3>1. y /\ shown(<<>>) = frame
      BY <1>6, <1>13, <2>2, <2>3, Zenon
    <3> HIDE DEF shown
    <3> QED BY <2>1, <3>1
  <2>4. CASE ~frame.remote
    <3>1. data = <<frame.data>> /\ data[1] = frame.data /\ data # <<>>
      BY <1>17, <2>4
    <3>2. ~y /\ shown(data[1]) = frame
      BY <1>13, <2>2, <2>4, <3>1, Zenon
    <3> HIDE DEF shown
    <3> QED BY <2>1, <3>1, <3>2
  <2> QED BY <2>3, <2>4
<1>21. DecodeLine(chars) = DecodeFrameLine(chars)
  <2>1. chars # <<>>
    BY <1>2, <1>4, <1>5, <1>18, <1>3
  <2> QED BY <1>3, <1>5, <2>1 DEF DecodeLine
<1> QED BY <1>1, <1>8, <1>19, <1>20, <1>21 DEF Whole, chars

LEMMA AcknowledgementDecoded ==
  ASSUME NEW reply \in {<<>>, <<"z">>}
  PROVE  Whole(reply, <<>>)
<1>1. CASE reply = <<>>
  BY <1>1, EmptySeq, SlcanAssumption DEF Whole, IsText, DecodeLine
<1>2. CASE reply = <<"z">>
  <2>1. reply \in Seq(Characters) /\ Len(reply) = 1 /\ reply[1] = "z"
    BY <1>2, SlcanAssumption
  <2> QED BY <2>1, SlcanAssumption DEF Whole, IsText, DecodeLine
<1> QED BY <1>1, <1>2

\* Whatever the characters, they show one frame or none.
LEMMA ShowsAtMostOne ==
  ASSUME NEW chars, Len(chars) \in Nat
  PROVE  \/ DecodeLine(chars) = <<>>
         \/ \E f : DecodeLine(chars) = <<f>>
<1> DEFINE One(shows) == shows = <<>> \/ \E f : shows = <<f>>
<1> DEFINE x == chars[1] \in {"T", "R"}
           y == chars[1] \in {"r", "R"}
           header == 1 + IdLength(x) + 1
           id == Number(SubSeq(chars, 2, header - 1))
           length == Number(<<chars[header]>>)
           data == DataOf(SubSeq(chars, header + 1, Len(chars)), length[1])
           shown(bytes) ==
             [extended |-> x, remote |-> y, id |-> id, data |-> bytes,
              remoteLength |-> IF y THEN length[1] ELSE 0]
           inner == CASE length[1] > 8 -> <<>>
                      [] length[1] <= 8 /\ y -> <<shown(<<>>)>>
                      [] OTHER -> IF data = <<>> THEN <<>> ELSE <<shown(data[1])>>
<1>1. DecodeFrameLine(chars) =
         CASE Len(chars) < header -> <<>>
           [] Len(chars) >= header /\ (id = <<>> \/ length = <<>>) -> <<>>
           [] Len(chars) >= header /\ id # <<>> /\ length # <<>> -> inner
  BY Zenon DEF DecodeFrameLine
<1>2. header \in Nat
  BY DEF IdLength
<1> HIDE DEF id, length, data, header, shown, x, y
<1>3. One(inner)
  OBVIOUS
<1> HIDE DEF inner
<1>4. One(DecodeFrameLine(chars))
  BY <1>1, <1>2, <1>3
<1> HIDE DEF One
<1>5. One(<<>>)
  BY DEF One
<1>6. DecodeLine(chars) = DecodeFrameLine(chars) \/ DecodeLine(chars) = <<>>
  BY DEF DecodeLine
<1>7. One(DecodeLine(chars))
  BY <1>4, <1>5, <1>6
<1> QED BY <1>7 DEF One

-----------------------------------------------------------------------------
(***************************************************************************)
(* The invariant.  Of each intact line, what the decoder has begun and     *)
(* what is still on its way make up the line; a line that is read shows    *)
(* its frame.  Its operators take the variables as parameters because the  *)
(* decoder reads byte by byte and a step of the specification reads many.  *)
(***************************************************************************)
LineBytes == [char : Characters, of : Nat]
Lines == [shows : {<<>>} \cup {<<f>> : f \in Frames}, intact : BOOLEAN]
Decodings == [at : Nat, frame : {DecodeLine(chars)[1] : chars \in Seq(Characters)}]

Typed(s, e, l, p, d) ==
  /\ s \in Seq(Lines) /\ e \in BOOLEAN /\ l \in Seq(LineBytes)
  /\ p \in Seq(Characters) /\ d \in Seq(Decodings)

\* Bytes come line by line, and a terminator is the last of its line.
InOrder(s, l) ==
  /\ \A j \in 1 .. Len(l) : /\ l[j].of \in 1 .. Len(s) + 1
                            /\ l[j].char = "CR" => l[j].of <= Len(s)
  /\ \A j, k \in 1 .. Len(l) :
       j < k => l[j].of <= l[k].of /\ (l[j].char = "CR" => l[j].of < l[k].of)

\* What has been decoded is of lines before those on their way.
Decoded(s, l, d) ==
  /\ \A j \in 1 .. Len(d) : /\ d[j].at <= Len(s)
                            /\ \A k \in 1 .. Len(l) : d[j].at < l[k].of
  /\ \A j, k \in 1 .. Len(d) : j < k => d[j].at < d[k].at

Past(l, n) == \A k \in 1 .. Len(l) : l[k].of > n

ShownAt(d, n) == {x.frame : x \in {y \in ToSet(d) : y.at = n}}

\* Line n is on its way from i to c: rejections, from b on the end of text, and a
\* terminator.
Block(l, n, text, i, b, c) ==
  /\ i \in 1 .. b /\ b \in 1 .. c /\ c \in 1 .. Len(l)
  /\ \A j \in i .. c : l[j].of = n
  /\ \A j \in i .. b - 1 : l[j].char = "BEL"
  /\ l[c].char = "CR"
  /\ c - b <= Len(text)
  /\ \A j \in b .. c - 1 : l[j].char = text[Len(text) - c + 1 + j]

\* Line n is text.  Either the line before it is not read yet, or the decoder has
\* what is missing.
Waiting(l, p, n, text, i, b, c) ==
  /\ Block(l, n, text, i, b, c)
  /\ \/ i = 1 /\ p = SubSeq(text, 1, Len(text) - (c - b))
     \/ i > 1 /\ c - b = Len(text) /\ l[i - 1].char = "CR" /\ l[i - 1].of = n - 1

IsWaiting(l, p, n, shows) ==
  \E text : Whole(text, shows) /\ \E i, b, c \in Nat : Waiting(l, p, n, text, i, b, c)

LinesKept(s, l, p, d) ==
  \A n \in 1 .. Len(s) :
    s[n].intact => /\ Past(l, n) => ShownAt(d, n) = ToSet(s[n].shows)
                   /\ ~Past(l, n) => IsWaiting(l, p, n, s[n].shows)

\* From i on there is room for a line that is said next.
Room(s, l, p, i) ==
  /\ i \in 1 .. Len(l) + 1
  /\ \A j \in i .. Len(l) : l[j].char = "BEL" /\ l[j].of = Len(s) + 1
  /\ \/ i = 1 /\ p = <<>>
     \/ i > 1 /\ l[i - 1].char = "CR" /\ l[i - 1].of = Len(s)

NextFits(s, e, l, p) == e => \E i \in Nat : Room(s, l, p, i)

LineInv(s, e, l, p, d) ==
  /\ Typed(s, e, l, p, d)
  /\ InOrder(s, l)
  /\ Decoded(s, l, d)
  /\ LinesKept(s, l, p, d)
  /\ NextFits(s, e, l, p)

-----------------------------------------------------------------------------
(***************************************************************************)
(* Reading a byte                                                          *)
(***************************************************************************)
Decoders == [partial : Seq(Characters), decoded : Seq(Decodings), rejections : Nat]

\* What a byte does to the decoder.
Fed(d, byte, r) ==
  /\ r \in Decoders
  /\ byte.char = "BEL" => r.partial = d.partial /\ r.decoded = d.decoded
  /\ byte.char \notin {"BEL", "CR"} =>
       /\ r.decoded = d.decoded
       /\ Len(d.partial) < MaxLine => r.partial = Append(d.partial, byte.char)
  /\ byte.char = "CR" =>
       /\ r.partial = <<>>
       /\ DecodeLine(d.partial) = <<>> => r.decoded = d.decoded
       /\ \A f : DecodeLine(d.partial) = <<f>> =>
            r.decoded = Append(d.decoded, [at |-> byte.of, frame |-> f])

LEMMA DecoderFields ==
  ASSUME NEW d \in Decoders
  PROVE  /\ d.partial \in Seq(Characters) /\ d.decoded \in Seq(Decodings) /\ d.rejections \in Nat
         /\ \A p \in Seq(Characters) : /\ [d EXCEPT !.partial = p] \in Decoders
                                       /\ [d EXCEPT !.partial = p].partial = p
                                       /\ [d EXCEPT !.partial = p].decoded = d.decoded
         /\ \A n \in Nat : /\ [d EXCEPT !.rejections = n] \in Decoders
                           /\ [d EXCEPT !.rejections = n].partial = d.partial
                           /\ [d EXCEPT !.rejections = n].decoded = d.decoded
BY DEF Decoders

LEMMA FeedByteDoes ==
  ASSUME NEW d \in Decoders, NEW byte \in LineBytes
  PROVE  Fed(d, byte, FeedByte(d, byte))
<1> DEFINE p == d.partial
           q == d.decoded
           r == FeedByte(d, byte)
<1>1. /\ p \in Seq(Characters) /\ q \in Seq(Decodings) /\ d.rejections \in Nat
      /\ byte.char \in Characters /\ byte.of \in Nat /\ Len(p) \in Nat
  BY DecoderFields, LenProperties DEF LineBytes
<1>2. CASE byte.char = "BEL"
  <2>1. r = [d EXCEPT !.rejections = d.rejections + 1]
    BY <1>2 DEF FeedByte
  <2>2. d.rejections + 1 \in Nat
    BY <1>1
  <2>3. r \in Decoders /\ r.partial = p /\ r.decoded = q
    <3> DEFINE n == d.rejections + 1
               u == [d EXCEPT !.rejections = n]
    <3> HIDE DEF n
    <3>1. n \in Nat
      BY <2>2 DEF n
    <3>2. u \in Decoders /\ u.partial = d.partial /\ u.decoded = d.decoded
      BY <3>1, DecoderFields
    <3>3. r = u
      BY <2>1 DEF n
    <3> HIDE DEF u, r
    <3> QED BY <3>2, <3>3
  <2> HIDE DEF r
  <2> QED BY <1>2, <2>3 DEF Fed, r
<1>3. CASE byte.char \notin {"BEL", "CR"}
  <2> DEFINE p2 == IF Len(p) >= MaxLine THEN <<>> ELSE Append(p, byte.char)
  <2>1. r = [d EXCEPT !.partial = p2]
    BY <1>3 DEF FeedByte, PushCharacter
  <2>2. p2 \in Seq(Characters)
    BY <1>1, EmptySeq, AppendProperties
  <2>3. Len(p) < MaxLine => p2 = Append(p, byte.char)
    BY <1>1, SlcanAssumption
  <2> HIDE DEF p2
  <2>4. r \in Decoders /\ r.partial = p2 /\ r.decoded = q
    <3> DEFINE u == [d EXCEPT !.partial = p2]
    <3>1. u \in Decoders /\ u.partial = p2 /\ u.decoded = d.decoded
      BY <2>2, DecoderFields
    <3>2. r = u
      BY <2>1
    <3> HIDE DEF u, r
    <3> QED BY <3>1, <3>2
  <2> HIDE DEF r
  <2> QED BY <1>3, <2>3, <2>4 DEF Fed, r
<1>4. CASE byte.char = "CR"
  <2> DEFINE shows == DecodeLine(p)
             more == [k \in DOMAIN shows |-> [at |-> byte.of, frame |-> shows[k]]]
             q2 == q \o more
  <2>1. r = [d EXCEPT !.partial = <<>>, !.decoded = q2]
    BY <1>4 DEF FeedByte, EndLine
  <2>2. shows = <<>> => q2 = q
    <3>1. shows = <<>> => more = <<>>
      OBVIOUS
    <3> QED BY <1>1, <3>1, ConcatEmptySeq
  <2>3. ASSUME NEW f, shows = <<f>>
        PROVE  /\ q2 = Append(q, [at |-> byte.of, frame |-> f])
               /\ q2 \in Seq(Decodings)
    <3> DEFINE x == [at |-> byte.of, frame |-> f]
    <3>1. more = <<x>>
      BY <2>3
    <3>2. f \in {DecodeLine(chars)[1] : chars \in Seq(Characters)}
      <4>1. f = DecodeLine(p)[1]
        BY <2>3
      <4> QED BY <1>1, <4>1
    <3>3. x \in Decodings
      BY <1>1, <3>2 DEF Decodings
    <3> HIDE DEF x, more
    <3>4. Append(q, x) = q \o <<x>> /\ Append(q, x) \in Seq(Decodings)
      BY <1>1, <3>3, AppendProperties, AppendIsConcat
    <3> QED BY <3>1, <3>4 DEF x
  <2>4. q2 \in Seq(Decodings)
    BY <1>1, <2>2, <2>3, ShowsAtMostOne
  <2>5. <<>> \in Seq(Characters)
    BY EmptySeq
  <2> HIDE DEF q2
  <2>6. r \in Decoders /\ r.partial = <<>> /\ r.decoded = q2
    <3> DEFINE e == <<>>
               u == [d EXCEPT !.partial = e, !.decoded = q2]
    <3>1. e \in Seq(Characters)
      BY <2>5
    <3>2. r = u
      BY <2>1
    <3> HIDE DEF e, r
    <3>3. u \in Decoders /\ u.partial = e /\ u.decoded = q2
      BY <2>4, <3>1 DEF Decoders
    <3> HIDE DEF u
    <3> QED BY <3>2, <3>3 DEF e
  <2> HIDE DEF r
  <2> QED BY <1>4, <2>2, <2>3, <2>6 DEF Fed, r
<1> QED BY <1>2, <1>3, <1>4

LEMMA WholeText ==
  ASSUME NEW text, NEW shows, Whole(text, shows)
  PROVE  /\ text \in Seq(Characters) /\ Len(text) \in Nat /\ Len(text) <= MaxLine
         /\ \A k \in 1 .. Len(text) : text[k] \in Characters /\ text[k] \notin {"CR", "BEL"}
BY LenProperties, ElementOfSeq DEF Whole, IsText

\* l2 is l without its first byte.
Rest(l, l2) ==
  /\ l2 \in Seq(LineBytes)
  /\ Len(l2) \in Nat /\ Len(l) = Len(l2) + 1
  /\ \A j \in 1 .. Len(l2) : l2[j] = l[j + 1]

Before(k) == IF k > 1 THEN k - 1 ELSE 1

LEMMA BlockMovesOn ==
  ASSUME NEW l, NEW l2, Rest(l, l2), NEW n, NEW text, Len(text) \in Nat,
         NEW i \in Nat, NEW b \in Nat, NEW c \in Nat, Block(l, n, text, i, b, c), c > 1
  PROVE  Block(l2, n, text, Before(i), Before(b), c - 1)
<1> DEFINE i2 == Before(i)
           b2 == Before(b)
           m == Len(l2)
           t == Len(text)
<1>1. /\ i \in 1 .. b /\ b \in 1 .. c /\ c \in 1 .. m + 1 /\ m \in Nat
      /\ c - b <= t /\ t \in Nat
  BY DEF Block, Rest
<1>2. /\ i2 \in 1 .. b2 /\ b2 \in 1 .. c - 1 /\ c - 1 \in 1 .. m /\ (c - 1) - b2 <= t
      /\ \A j \in i2 .. c - 1 : j + 1 \in i .. c /\ j \in 1 .. m
      /\ \A j \in i2 .. b2 - 1 : j + 1 \in i .. b - 1 /\ j \in 1 .. m
      /\ \A j \in b2 .. (c - 1) - 1 : /\ j + 1 \in b .. c - 1 /\ j \in 1 .. m
                                      /\ t - c + 1 + (j + 1) = t - (c - 1) + 1 + j
      /\ (c - 1) + 1 = c
  BY <1>1 DEF Before
<1> HIDE DEF i2, b2
<1>3. \A j \in 1 .. m : l2[j] = l[j + 1]
  BY DEF Rest
<1>4. \A j \in i2 .. c - 1 : l2[j].of = n
  <2> TAKE j \in i2 .. c - 1
  <2>1. l2[j] = l[j + 1] /\ j + 1 \in i .. c
    BY <1>2, <1>3
  <2> QED BY <2>1 DEF Block
<1>5. \A j \in i2 .. b2 - 1 : l2[j].char = "BEL"
  <2> TAKE j \in i2 .. b2 - 1
  <2>1. l2[j] = l[j + 1] /\ j + 1 \in i .. b - 1
    BY <1>2, <1>3
  <2> QED BY <2>1 DEF Block
<1>6. l2[c - 1].char = "CR"
  BY <1>2, <1>3 DEF Block
<1>7. \A j \in b2 .. (c - 1) - 1 : l2[j].char = text[t - (c - 1) + 1 + j]
  <2> TAKE j \in b2 .. (c - 1) - 1
  <2>1. l2[j] = l[j + 1] /\ j + 1 \in b .. c - 1
    BY <1>2, <1>3
  <2>2. l[j + 1].char = text[t - c + 1 + (j + 1)]
    BY <2>1 DEF Block
  <2> QED BY <1>2, <2>1, <2>2
<1> QED BY <1>2, <1>4, <1>5, <1>6, <1>7 DEF Block, i2, b2

\* Reading a byte of the stream, a line that waits is read or waits on.
LEMMA WaitingMovesOn ==
  ASSUME NEW l, NEW l2, Rest(l, l2), NEW n, NEW text, NEW shows, Whole(text, shows),
         NEW i \in Nat, NEW b \in Nat, NEW c \in Nat,
         NEW d \in Decoders, Waiting(l, d.partial, n, text, i, b, c),
         NEW r, Fed(d, l[1], r)
  PROVE  \/ d.partial = text /\ l[1].char = "CR" /\ l[1].of = n
         \/ Waiting(l2, r.partial, n, text, Before(i), Before(b), c - 1)
<1> DEFINE p == d.partial
           t == Len(text)
<1>1. /\ text \in Seq(Characters) /\ t \in Nat /\ t <= MaxLine
      /\ \A k \in 1 .. t : text[k] \in Characters /\ text[k] \notin {"CR", "BEL"}
  BY WholeText
<1>2. /\ i \in 1 .. b /\ b \in 1 .. c /\ c \in 1 .. Len(l) /\ c - b <= t
      /\ Len(l) = Len(l2) + 1 /\ Len(l2) \in Nat
  BY DEF Waiting, Block, Rest
<1>3. p \in Seq(Characters)
  BY DecoderFields
<1>4. CASE c = 1
  <2>1. i = 1 /\ b = 1
    BY <1>2, <1>4
  <2>2. p = SubSeq(text, 1, t - (c - b))
    BY <2>1 DEF Waiting
  <2>3. t - (c - b) = t
    BY <1>1, <1>4, <2>1
  <2>4. p = text
    BY <1>1, <2>2, <2>3, SubSeqFull
  <2>5. l[1].char = "CR" /\ l[1].of = n
    BY <1>4, <2>1 DEF Waiting, Block
  <2> QED BY <2>4, <2>5
<1>5. CASE c > 1
  <2>1. Block(l2, n, text, Before(i), Before(b), c - 1)
    BY <1>1, <1>5, BlockMovesOn DEF Waiting
  <2>2. CASE i > 2
    <3>1. c - b = t /\ l[i - 1].char = "CR" /\ l[i - 1].of = n - 1
      BY <2>2 DEF Waiting
    <3>2. /\ Before(i) = i - 1 /\ Before(b) = b - 1 /\ (c - 1) - (b - 1) = c - b
          /\ i - 1 > 1 /\ (i - 1) - 1 \in 1 .. Len(l2) /\ ((i - 1) - 1) + 1 = i - 1
      BY <1>2, <2>2 DEF Before
    <3>3. l2[(i - 1) - 1] = l[i - 1]
      BY <3>2 DEF Rest
    <3> QED BY <2>1, <3>1, <3>2, <3>3 DEF Waiting
  <2>3. CASE i = 2
    <3>1. c - b = t /\ l[1].char = "CR"
      BY <2>3 DEF Waiting
    <3>2. Before(i) = 1 /\ Before(b) = b - 1 /\ (c - 1) - (b - 1) = c - b /\ t - (c - b) = 0
      BY <1>1, <1>2, <2>3, <3>1 DEF Before
    <3>3. r.partial = <<>>
      BY <3>1 DEF Fed
    <3>4. SubSeq(text, 1, 0) = <<>>
      BY SubSeqEmpty
    <3> QED BY <2>1, <3>2, <3>3, <3>4 DEF Waiting
  <2>4. CASE i = 1 /\ b > 1
    <3>1. l[1].char = "BEL"
      <4>1. 1 \in i .. b - 1
        BY <2>4
      <4> QED BY <4>1 DEF Waiting, Block
    <3>2. r.partial = p
      BY <3>1 DEF Fed
    <3>3. p = SubSeq(text, 1, t - (c - b))
      BY <2>4 DEF Waiting
    <3>4. Before(i) = 1 /\ Before(b) = b - 1 /\ (c - 1) - (b - 1) = c - b
      BY <1>2, <2>4 DEF Before
    <3> QED BY <2>1, <3>2, <3>3, <3>4 DEF Waiting
  <2>5. CASE i = 1 /\ b = 1
    <3> DEFINE m == t - (c - 1)
    <3>1. /\ m \in Nat /\ m + 1 \in 1 .. t /\ t - c + 1 + 1 = m + 1 /\ 1 \in b .. c - 1
          /\ t - ((c - 1) - 1) = m + 1 /\ m < MaxLine
      BY <1>1, <1>2, <1>5, <2>5, SlcanAssumption
    <3>2. l[1].char = text[m + 1]
      BY <3>1 DEF Waiting, Block
    <3>3. p = SubSeq(text, 1, m)
      BY <2>5 DEF Waiting
    <3> HIDE DEF m
    <3>4. Len(p) = m
      <4>1. \A k \in 1 .. m : text[k] \in Characters
        BY <1>1, <3>1
      <4> QED BY <3>1, <3>3, <4>1, SubSeqProperties
    <3>5. r.partial = Append(p, text[m + 1])
      <4>1. l[1].char \notin {"BEL", "CR"}
        BY <1>1, <3>1, <3>2
      <4> QED BY <3>1, <3>2, <3>4, <4>1 DEF Fed
    <3>6. SubSeq(text, 1, m + 1) = SubSeq(text, 1, (m + 1) - 1) \o <<text[m + 1]>>
      <4>1. 1 \in 1 .. Len(text) /\ m + 1 \in 1 .. Len(text)
        BY <1>1, <3>1
      <4> QED BY <1>1, <4>1, SubSeqRecursiveSecond
    <3>7. Append(p, text[m + 1]) = SubSeq(text, 1, m + 1)
      <4>1. (m + 1) - 1 = m /\ text[m + 1] \in Characters
        BY <1>1, <3>1
      <4> QED BY <1>3, <3>3, <3>6, <4>1, AppendIsConcat
    <3>8. r.partial = SubSeq(text, 1, t - ((c - 1) - 1))
      BY <3>1, <3>5, <3>7
    <3>9. Before(i) = 1 /\ Before(b) = 1
      BY <2>5 DEF Before
    <3> QED BY <2>1, <3>8, <3>9 DEF Waiting
  <2> QED BY <1>2, <2>2, <2>3, <2>4, <2>5
<1> QED BY <1>2, <1>4, <1>5

LEMMA ShownOfMore ==
  ASSUME NEW d \in Seq(Decodings), NEW x \in Decodings, NEW n
  PROVE  ShownAt(Append(d, x), n) = ShownAt(d, n) \cup (IF x.at = n THEN {x.frame} ELSE {})
<1>1. ToSet(Append(d, x)) = ToSet(d) \cup {x}
  <2>1. /\ Len(d) \in Nat /\ DOMAIN d = 1 .. Len(d)
        /\ Append(d, x) \in Seq(Decodings) /\ Len(Append(d, x)) = Len(d) + 1
        /\ \A i \in 1 .. Len(d) : Append(d, x)[i] = d[i]
        /\ Append(d, x)[Len(d) + 1] = x
    BY LenProperties, AppendProperties
  <2>2. DOMAIN Append(d, x) = 1 .. Len(d) + 1
    BY <2>1, LenProperties
  <2>3. 1 .. Len(d) + 1 = (1 .. Len(d)) \cup {Len(d) + 1}
    BY <2>1
  <2> QED BY <2>1, <2>2, <2>3 DEF ToSet
<1> QED BY <1>1 DEF ShownAt

LEMMA ShownOfNone ==
  ASSUME NEW d \in Seq(Decodings), NEW n, \A j \in 1 .. Len(d) : d[j].at # n
  PROVE  ShownAt(d, n) = {}
BY LenProperties DEF ShownAt, ToSet

LEMMA InOrderRest ==
  ASSUME NEW s, Len(s) \in Nat, NEW l, NEW l2, Rest(l, l2), InOrder(s, l)
  PROVE  /\ InOrder(s, l2)
         /\ \A k \in 1 .. Len(l2) : l[1].of <= l2[k].of /\ (l[1].char = "CR" => l[1].of < l2[k].of)
         /\ \A n : Past(l, n) => Past(l2, n)
         /\ l[1].of \in Nat /\ (l[1].char = "CR" => l[1].of <= Len(s))
<1>1. /\ Len(l2) \in Nat /\ Len(l) = Len(l2) + 1
      /\ \A j \in 1 .. Len(l2) : l2[j] = l[j + 1] /\ j + 1 \in 1 .. Len(l) /\ 1 < j + 1
      /\ 1 \in 1 .. Len(l)
  BY DEF Rest
<1>2. \A j \in 1 .. Len(l2) : /\ l2[j].of \in 1 .. Len(s) + 1
                              /\ l2[j].char = "CR" => l2[j].of <= Len(s)
  BY <1>1 DEF InOrder
<1>3. ASSUME NEW j \in 1 .. Len(l2), NEW k \in 1 .. Len(l2), j < k
      PROVE  l2[j].of <= l2[k].of /\ (l2[j].char = "CR" => l2[j].of < l2[k].of)
  <2>1. j + 1 < k + 1
    BY <1>1, <1>3
  <2> QED BY <1>1, <2>1 DEF InOrder
<1>4. ASSUME NEW k \in 1 .. Len(l2)
      PROVE  l[1].of <= l2[k].of /\ (l[1].char = "CR" => l[1].of < l2[k].of)
  BY <1>1 DEF InOrder
<1>5. \A n : Past(l, n) => Past(l2, n)
  BY <1>1 DEF Past
<1>6. l[1].of \in Nat /\ (l[1].char = "CR" => l[1].of <= Len(s))
  BY <1>1 DEF InOrder
<1> QED BY <1>2, <1>3, <1>4, <1>5, <1>6 DEF InOrder

LEMMA RoomMovesOn ==
  ASSUME NEW s, NEW l, NEW l2, Rest(l, l2), NEW i \in Nat, NEW d, Room(s, l, d.partial, i),
         NEW r, Fed(d, l[1], r)
  PROVE  Room(s, l2, r.partial, Before(i))
<1>1. /\ Len(l2) \in Nat /\ Len(l) = Len(l2) + 1
      /\ \A j \in 1 .. Len(l2) : l2[j] = l[j + 1]
      /\ i \in 1 .. Len(l2) + 2
  BY DEF Rest, Room
<1>2. /\ Before(i) \in 1 .. Len(l2) + 1
      /\ \A j \in Before(i) .. Len(l2) : j \in 1 .. Len(l2) /\ j + 1 \in i .. Len(l)
  BY <1>1 DEF Before
<1>3. ASSUME NEW j \in Before(i) .. Len(l2)
      PROVE  l2[j].char = "BEL" /\ l2[j].of = Len(s) + 1
  <2>1. l2[j] = l[j + 1] /\ j + 1 \in i .. Len(l)
    BY <1>1, <1>2
  <2> QED BY <2>1 DEF Room
<1>4. CASE i > 2
  <2>1. Before(i) = i - 1 /\ i - 1 > 1 /\ l2[(i - 1) - 1] = l[i - 1]
    <3>1. (i - 1) - 1 \in 1 .. Len(l2) /\ ((i - 1) - 1) + 1 = i - 1
      BY <1>1, <1>4
    <3> QED BY <1>1, <1>4, <3>1 DEF Before
  <2>2. l[i - 1].char = "CR" /\ l[i - 1].of = Len(s)
    BY <1>4 DEF Room
  <2> QED BY <1>2, <1>3, <2>1, <2>2 DEF Room
<1>5. CASE i = 2
  <2>1. l[1].char = "CR" /\ Before(i) = 1
    BY <1>5 DEF Room, Before
  <2>2. r.partial = <<>>
    BY <2>1 DEF Fed
  <2> QED BY <1>2, <1>3, <2>1, <2>2 DEF Room
<1>6. CASE i = 1
  <2>1. l[1].char = "BEL" /\ d.partial = <<>>
    <3>1. 1 \in i .. Len(l)
      BY <1>1, <1>6
    <3> QED BY <1>6, <3>1 DEF Room
  <2>2. r.partial = <<>> /\ Before(i) = 1
    BY <1>6, <2>1 DEF Fed, Before
  <2> QED BY <1>2, <1>3, <2>2 DEF Room
<1> QED BY <1>1, <1>4, <1>5, <1>6

\* The invariant is kept byte by byte.
LEMMA InvariantAfterAByte ==
  ASSUME NEW s, NEW e, NEW l, NEW l2, Rest(l, l2), NEW d \in Decoders,
         LineInv(s, e, l, d.partial, d.decoded), NEW r, Fed(d, l[1], r)
  PROVE  LineInv(s, e, l2, r.partial, r.decoded)
<1> DEFINE p == d.partial
           q == d.decoded
           n1 == l[1].of
<1>1. /\ Len(s) \in Nat /\ s \in Seq(Lines) /\ e \in BOOLEAN /\ l \in Seq(LineBytes)
      /\ p \in Seq(Characters) /\ Len(p) \in Nat /\ q \in Seq(Decodings) /\ Len(q) \in Nat
      /\ l2 \in Seq(LineBytes) /\ Len(l2) \in Nat /\ Len(l) = Len(l2) + 1
      /\ \A j \in 1 .. Len(l2) : l2[j] = l[j + 1] /\ j + 1 \in 1 .. Len(l)
      /\ 1 \in 1 .. Len(l)
  BY LenProperties DEF LineInv, Typed, Rest
<1>2. r \in Decoders /\ r.partial \in Seq(Characters) /\ r.decoded \in Seq(Decodings)
  BY DecoderFields DEF Fed
<1>3. Typed(s, e, l2, r.partial, r.decoded)
  BY <1>1, <1>2 DEF Typed
<1>4. /\ InOrder(s, l2)
      /\ \A k \in 1 .. Len(l2) : n1 <= l2[k].of /\ (l[1].char = "CR" => n1 < l2[k].of)
      /\ \A n : Past(l, n) => Past(l2, n)
      /\ n1 \in Nat /\ (l[1].char = "CR" => n1 <= Len(s))
  BY <1>1, InOrderRest DEF LineInv
<1>5. NextFits(s, e, l2, r.partial)
  <2>1. ASSUME e PROVE \E i \in Nat : Room(s, l2, r.partial, i)
    <3>1. PICK i \in Nat : Room(s, l, d.partial, i)
      BY <2>1 DEF LineInv, NextFits
    <3>2. Room(s, l2, r.partial, Before(i))
      BY <3>1, RoomMovesOn
    <3>3. Before(i) \in Nat
      BY <3>2 DEF Room
    <3> QED BY <3>2, <3>3
  <2> QED BY <2>1 DEF NextFits
\* Either nothing new is decoded, or a frame of the line that ends.
<1>6. \/ r.decoded = q
      \/ /\ l[1].char = "CR"
         /\ \E f : /\ DecodeLine(p) = <<f>>
                   /\ r.decoded = Append(q, [at |-> n1, frame |-> f])
                   /\ [at |-> n1, frame |-> f] \in Decodings
  <2>1. CASE l[1].char = "CR"
    <3>1. CASE DecodeLine(p) = <<>>
      BY <2>1, <3>1 DEF Fed
    <3>2. ASSUME NEW f, DecodeLine(p) = <<f>>
          PROVE  /\ r.decoded = Append(q, [at |-> n1, frame |-> f])
                 /\ [at |-> n1, frame |-> f] \in Decodings
      <4>1. f \in {DecodeLine(chars)[1] : chars \in Seq(Characters)}
        <5>1. f = DecodeLine(p)[1]
          BY <3>2
        <5> QED BY <1>1, <5>1
      <4>2. [at |-> n1, frame |-> f] \in Decodings
        BY <1>4, <4>1 DEF Decodings
      <4> QED BY <2>1, <3>2, <4>2 DEF Fed
    <3> QED BY <1>1, <2>1, <3>1, <3>2, ShowsAtMostOne
  <2>2. CASE l[1].char # "CR"
    BY <2>2 DEF Fed
  <2> QED BY <2>1, <2>2
<1>7. \A j \in 1 .. Len(q) : q[j].at < n1 /\ q[j].at <= Len(s) /\ q[j].at \in Nat
  <2>1. \A j \in 1 .. Len(q) : q[j] \in Decodings
    BY <1>1, ElementOfSeq
  <2> QED BY <1>1, <2>1 DEF LineInv, Decoded, Decodings
<1>8. Decoded(s, l2, r.decoded)
  <2>1. Decoded(s, l2, q)
    <3>1. \A j \in 1 .. Len(q) : \A k \in 1 .. Len(l2) : q[j].at < l2[k].of
      BY <1>1 DEF LineInv, Decoded
    <3> QED BY <3>1 DEF LineInv, Decoded
  <2>2. ASSUME NEW x \in Decodings, x.at = n1, l[1].char = "CR", r.decoded = Append(q, x)
        PROVE  Decoded(s, l2, r.decoded)
    <3> DEFINE q2 == Append(q, x)
               m == Len(q)
    <3>1. /\ Len(q2) = m + 1
          /\ \A j \in 1 .. m : q2[j] = q[j]
          /\ q2[m + 1] = x
      BY <1>1, AppendProperties
    <3> HIDE DEF q2
    <3>2. \A j \in 1 .. m + 1 : j \in 1 .. m \/ j = m + 1
      BY <1>1
    <3>3. \A j \in 1 .. m + 1 : q2[j].at <= Len(s)
      BY <1>4, <1>7, <2>2, <3>1, <3>2
    <3>4. \A j \in 1 .. m + 1 : \A k \in 1 .. Len(l2) : q2[j].at < l2[k].of
      BY <1>4, <2>1, <2>2, <3>1, <3>2 DEF Decoded
    <3>5. ASSUME NEW j \in 1 .. m + 1, NEW k \in 1 .. m + 1, j < k
          PROVE  q2[j].at < q2[k].at
      <4>1. j \in 1 .. m
        BY <1>1, <3>5
      <4>2. CASE k \in 1 .. m
        BY <2>1, <3>1, <3>5, <4>1, <4>2 DEF Decoded
      <4>3. CASE k = m + 1
        BY <1>7, <2>2, <3>1, <4>1, <4>3
      <4> QED BY <3>2, <4>2, <4>3
    <3> QED BY <2>2, <3>1, <3>3, <3>4, <3>5 DEF Decoded, q2
  <2> QED BY <1>6, <2>1, <2>2
<1>9. ASSUME NEW n \in 1 .. Len(s), s[n].intact
      PROVE  /\ Past(l2, n) => ShownAt(r.decoded, n) = ToSet(s[n].shows)
             /\ ~Past(l2, n) => IsWaiting(l2, r.partial, n, s[n].shows)
  <2>1. CASE Past(l, n)
    <3>1. Past(l2, n) /\ n < n1
      BY <1>1, <1>4, <2>1 DEF Past
    <3>2. ShownAt(r.decoded, n) = ShownAt(q, n)
      <4>1. n # n1
        BY <1>4, <3>1
      <4>2. ASSUME NEW x \in Decodings, x.at = n1, r.decoded = Append(q, x)
            PROVE  ShownAt(r.decoded, n) = ShownAt(q, n)
        <5>1. ShownAt(Append(q, x), n) = ShownAt(q, n) \cup {}
          <6>1. x.at # n
            BY <4>1, <4>2
          <6>2. ShownAt(Append(q, x), n)
                  = ShownAt(q, n) \cup (IF x.at = n THEN {x.frame} ELSE {})
            BY <1>1, ShownOfMore
          <6> QED BY <6>1, <6>2
        <5> QED BY <4>2, <5>1
      <4> QED BY <1>6, <4>2
    <3> QED BY <1>9, <2>1, <3>1, <3>2 DEF LineInv, LinesKept
  <2>2. CASE ~Past(l, n)
    <3>1. PICK text : /\ Whole(text, s[n].shows)
                      /\ \E i, b, c \in Nat : Waiting(l, p, n, text, i, b, c)
      BY <1>9, <2>2 DEF LineInv, LinesKept, IsWaiting
    <3>2. PICK i \in Nat, b \in Nat, c \in Nat : Waiting(l, p, n, text, i, b, c)
      BY <3>1
    <3>3. CASE Waiting(l2, r.partial, n, text, Before(i), Before(b), c - 1)
      <4>1. c - 1 \in 1 .. Len(l2) /\ l2[c - 1].of = n
        <5>1. Before(i) \in 1 .. Before(b) /\ Before(b) \in 1 .. c - 1 /\ c - 1 \in 1 .. Len(l2)
          BY <3>3 DEF Waiting, Block
        <5>2. c - 1 \in Before(i) .. c - 1
          BY <5>1
        <5> QED BY <3>3, <5>1, <5>2 DEF Waiting, Block
      <4>2. ~Past(l2, n)
        BY <4>1 DEF Past
      <4>3. Before(i) \in Nat /\ Before(b) \in Nat /\ c - 1 \in Nat
        BY <1>1, <4>1 DEF Before
      <4>4. IsWaiting(l2, r.partial, n, s[n].shows)
        BY <3>1, <3>3, <4>3 DEF IsWaiting
      <4> QED BY <4>2, <4>4
    <3>4. CASE p = text /\ l[1].char = "CR" /\ n1 = n
      <4>1. Past(l2, n)
        BY <1>4, <3>4 DEF Past
      <4>2. ShownAt(q, n) = {}
        <5>1. \A j \in 1 .. Len(q) : q[j].at # n
          BY <1>4, <1>7, <3>4
        <5> QED BY <1>1, <5>1, ShownOfNone
      <4>3. DecodeLine(p) = s[n].shows
        BY <3>1, <3>4 DEF Whole
      <4>4. CASE DecodeLine(p) = <<>>
        <5>1. r.decoded = q
          BY <3>4, <4>4 DEF Fed
        <5>2. ToSet(<<>>) = {}
          BY DEF ToSet
        <5> QED BY <4>1, <4>2, <4>3, <4>4, <5>1, <5>2
      <4>5. ASSUME NEW f, DecodeLine(p) = <<f>>
            PROVE  ShownAt(r.decoded, n) = ToSet(s[n].shows)
        <5> DEFINE x == [at |-> n1, frame |-> f]
        <5>1. r.decoded = Append(q, x)
          BY <3>4, <4>5 DEF Fed
        <5>2. x \in Decodings
          <6>1. f \in {DecodeLine(chars)[1] : chars \in Seq(Characters)}
            <7>1. f = DecodeLine(p)[1]
              BY <4>5
            <7> QED BY <1>1, <7>1
          <6> QED BY <1>4, <6>1 DEF Decodings
        <5>3. x.at = n /\ x.frame = f
          BY <3>4
        <5> HIDE DEF x
        <5>4. ShownAt(r.decoded, n) = {f}
          BY <1>1, <4>2, <5>1, <5>2, <5>3, ShownOfMore
        <5>5. ToSet(<<f>>) = {f}
          BY DEF ToSet
        <5> QED BY <4>3, <4>5, <5>4, <5>5
      <4> QED BY <1>1, <4>1, <4>4, <4>5, ShowsAtMostOne
    <3> QED BY <3>1, <3>2, <3>3, <3>4, WaitingMovesOn
  <2> QED BY <2>1, <2>2
<1> QED BY <1>3, <1>4, <1>5, <1>8, <1>9 DEF LineInv, LinesKept

-----------------------------------------------------------------------------
(***************************************************************************)
(* Reading many bytes.  Feed is a recursive function; what it keeps is     *)
(* found by induction over a set of numbers.                               *)
(***************************************************************************)

\* f is the decoder after each of the first m bytes.
Reads(f, d, bytes, m) ==
  /\ f \in [0 .. m -> Decoders]
  /\ f[0] = d
  /\ \A k \in 1 .. m : f[k] = FeedByte(f[k - 1], bytes[k])

LEMMA ReadingExists ==
  ASSUME NEW d \in Decoders, NEW bytes \in Seq(LineBytes)
  PROVE  \E f : Reads(f, d, bytes, Len(bytes))
<1> DEFINE N == Len(bytes)
           A == {m \in Nat : m <= N => \E f : Reads(f, d, bytes, m)}
<1>1. N \in Nat /\ \A k \in 1 .. N : bytes[k] \in LineBytes
  BY LenProperties, ElementOfSeq
<1>2. 0 \in A
  <2>1. Reads([k \in 0 .. 0 |-> d], d, bytes, 0)
    BY DEF Reads
  <2> QED BY <2>1
<1>3. ASSUME NEW m \in Nat, m \in A PROVE m + 1 \in A
  <2>1. SUFFICES ASSUME m + 1 <= N PROVE \E f : Reads(f, d, bytes, m + 1)
    OBVIOUS
  <2>2. PICK f : Reads(f, d, bytes, m)
    BY <1>1, <1>3, <2>1
  <2> DEFINE next == FeedByte(f[m], bytes[m + 1])
             g == [k \in 0 .. (m + 1) |-> IF k = m + 1 THEN next ELSE f[k]]
  <2>3. next \in Decoders
    <3>1. f[m] \in Decoders /\ bytes[m + 1] \in LineBytes
      BY <1>1, <2>1, <2>2 DEF Reads
    <3> QED BY <3>1, FeedByteDoes DEF Fed
  <2>4. next = FeedByte(f[m], bytes[m + 1])
    OBVIOUS
  <2> HIDE DEF next
  <2>5. /\ \A k \in 0 .. m : g[k] = f[k]
        /\ g[m + 1] = next
        /\ DOMAIN g = 0 .. (m + 1)
    OBVIOUS
  <2>6. g \in [0 .. (m + 1) -> Decoders]
    BY <2>2, <2>3 DEF Reads
  <2> HIDE DEF g
  <2>7. g[0] = d
    BY <2>2, <2>5 DEF Reads
  <2>8. ASSUME NEW k \in 1 .. (m + 1) PROVE g[k] = FeedByte(g[k - 1], bytes[k])
    <3>1. CASE k = m + 1
      <4>1. k - 1 = m /\ m \in 0 .. m
        BY <3>1
      <4> QED BY <2>4, <2>5, <3>1, <4>1
    <3>2. CASE k # m + 1
      <4>1. k \in 1 .. m /\ k \in 0 .. m /\ k - 1 \in 0 .. m
        BY <3>2
      <4> QED BY <2>2, <2>5, <4>1 DEF Reads
    <3> QED BY <3>1, <3>2
  <2> QED BY <2>6, <2>7, <2>8 DEF Reads
<1> HIDE DEF A
<1>4. N \in A
  BY <1>1, <1>2, <1>3, NatBySets
<1> QED BY <1>1, <1>4 DEF A

LEMMA FeedReads ==
  ASSUME NEW d \in Decoders, NEW bytes \in Seq(LineBytes)
  PROVE  \E f : Reads(f, d, bytes, Len(bytes)) /\ Feed(d, bytes) = f[Len(bytes)]
<1> DEFINE N == Len(bytes)
           R(f) == [k \in 0 .. N |-> IF k = 0 THEN d ELSE FeedByte(f[k - 1], bytes[k])]
           r == CHOOSE f : f = R(f)
<1>1. N \in Nat /\ \A k \in 1 .. N : bytes[k] \in LineBytes
  BY LenProperties, ElementOfSeq
<1>2. Feed(d, bytes) = r[N]
  BY DEF Feed
<1>3. PICK g : Reads(g, d, bytes, N)
  BY ReadingExists
<1> HIDE DEF N
<1>4. g = R(g)
  <2>1. ASSUME NEW k \in 0 .. N, k # 0 PROVE g[k] = FeedByte(g[k - 1], bytes[k])
    <3>1. k \in 1 .. N
      BY <1>1, <2>1
    <3> QED BY <1>3, <3>1 DEF Reads
  <2> QED BY <1>3, <2>1 DEF Reads
<1> HIDE DEF R
<1>5. r = R(r)
  BY <1>4, Zenon
<1> HIDE DEF r
<1>6. \A k \in 0 .. N : r[k] = IF k = 0 THEN d ELSE FeedByte(r[k - 1], bytes[k])
  BY <1>5 DEF R
<1> DEFINE A == {k \in Nat : k \in 0 .. N => r[k] \in Decoders}
<1>7. 0 \in A
  BY <1>1, <1>6
<1>8. ASSUME NEW k \in Nat, k \in A PROVE k + 1 \in A
  <2>1. SUFFICES ASSUME k + 1 \in 0 .. N PROVE r[k + 1] \in Decoders
    OBVIOUS
  <2>2. k \in 0 .. N /\ k + 1 # 0 /\ (k + 1) - 1 = k /\ k + 1 \in 1 .. N
    BY <1>1, <2>1
  <2>3. r[k] \in Decoders
    BY <1>8, <2>2
  <2>4. r[k + 1] = FeedByte(r[k], bytes[k + 1])
    BY <1>6, <2>1, <2>2
  <2> QED BY <1>1, <2>2, <2>3, <2>4, FeedByteDoes DEF Fed
<1> HIDE DEF A
<1>9. \A k \in Nat : k \in A
  BY <1>7, <1>8, NatBySets
<1>10. \A k \in 0 .. N : r[k] \in Decoders
  BY <1>9 DEF A
<1>11. r \in [0 .. N -> Decoders]
  BY <1>5, <1>10 DEF R
<1>12. r[0] = d
  BY <1>1, <1>6
<1>13. \A k \in 1 .. N : r[k] = FeedByte(r[k - 1], bytes[k])
  <2>1. \A k \in 1 .. N : k \in 0 .. N /\ k # 0
    BY <1>1
  <2> QED BY <1>6, <2>1
<1>14. Reads(r, d, bytes, N)
  BY <1>11, <1>12, <1>13 DEF Reads
<1> QED BY <1>2, <1>14 DEF N

\* What is left of l after k bytes, byte by byte.
LEMMA LeftOf ==
  ASSUME NEW l \in Seq(LineBytes), NEW k \in 0 .. Len(l)
  PROVE  LET left == SubSeq(l, k + 1, Len(l))
         IN  /\ left \in Seq(LineBytes)
             /\ Len(left) = Len(l) - k
             /\ \A j \in 1 .. Len(l) - k : left[j] = l[k + j]
<1> DEFINE n == Len(l)
           a == k + 1
           left == SubSeq(l, a, n)
<1>1. n \in Nat /\ \A i \in 1 .. n : l[i] \in LineBytes
  BY LenProperties, ElementOfSeq
<1>2. a \in Int /\ k \in 0 .. n /\ \A i \in a .. n : i \in 1 .. n
  BY <1>1
<1>3. n - a + 1 = n - k /\ (~(a <= n) => n - k = 0) /\ \A j \in 1 .. n - k : a + j - 1 = k + j
  BY <1>1
<1>4. \A i \in a .. n : l[i] \in LineBytes
  BY <1>1, <1>2
<1> HIDE DEF a, n
<1>5. /\ SubSeq(l, a, n) \in Seq(LineBytes)
      /\ Len(SubSeq(l, a, n)) = IF a <= n THEN n - a + 1 ELSE 0
      /\ \A i \in 1 .. n - a + 1 : SubSeq(l, a, n)[i] = l[a + i - 1]
  BY <1>1, <1>2, <1>4, SubSeqProperties
<1> HIDE DEF left
<1>6. left \in Seq(LineBytes) /\ Len(left) = n - k /\ \A j \in 1 .. n - k : left[j] = l[k + j]
  BY <1>3, <1>5 DEF left
<1> QED BY <1>6 DEF left, n, a

\* However many bytes a read takes.
LEMMA InvariantAfterARead ==
  ASSUME NEW s, NEW e, NEW l, NEW d \in Decoders, LineInv(s, e, l, d.partial, d.decoded),
         NEW n \in 1 .. Len(l), NEW r, r = Feed(d, SubSeq(l, 1, n))
  PROVE  /\ r \in Decoders
         /\ LineInv(s, e, SubSeq(l, n + 1, Len(l)), r.partial, r.decoded)
<1> DEFINE bytes == SubSeq(l, 1, n)
           Left(k) == SubSeq(l, k + 1, Len(l))
<1>1. /\ l \in Seq(LineBytes) /\ Len(l) \in Nat
      /\ \A i \in 1 .. Len(l) : l[i] \in LineBytes
  BY LenProperties, ElementOfSeq DEF LineInv, Typed
<1>2. bytes \in Seq(LineBytes) /\ Len(bytes) = n /\ \A k \in 1 .. n : bytes[k] = l[k]
  <2>1. 1 \in Int /\ n \in Int /\ 1 <= n /\ n - 1 + 1 = n /\ \A k \in 1 .. n : 1 + k - 1 = k
    BY <1>1
  <2>2. \A i \in 1 .. n : l[i] \in LineBytes
    BY <1>1
  <2>3. /\ SubSeq(l, 1, n) \in Seq(LineBytes)
        /\ Len(SubSeq(l, 1, n)) = IF 1 <= n THEN n - 1 + 1 ELSE 0
        /\ \A i \in 1 .. n - 1 + 1 : SubSeq(l, 1, n)[i] = l[1 + i - 1]
    BY <2>1, <2>2, SubSeqProperties
  <2> HIDE DEF bytes
  <2> QED BY <2>1, <2>3 DEF bytes
<1>3. PICK f : Reads(f, d, bytes, n) /\ r = f[n]
  BY <1>2, FeedReads
<1> HIDE DEF bytes
<1> DEFINE A == {k \in Nat : k <= n => LineInv(s, e, Left(k), f[k].partial, f[k].decoded)}
<1>4. 0 \in A
  <2>1. Left(0) = l
    <3>1. /\ Left(0) \in Seq(LineBytes) /\ Len(Left(0)) = Len(l)
          /\ \A j \in 1 .. Len(l) : Left(0)[j] = l[j]
      <4>1. 0 \in 0 .. Len(l) /\ Len(l) - 0 = Len(l) /\ \A j \in 1 .. Len(l) : 0 + j = j
        BY <1>1
      <4> HIDE DEF Left
      <4> QED BY <1>1, <4>1, LeftOf DEF Left
    <3> HIDE DEF Left
    <3> QED BY <1>1, <3>1, SeqEqual
  <2>2. f[0] = d
    BY <1>3 DEF Reads
  <2> HIDE DEF Left
  <2> QED BY <2>1, <2>2
<1>5. ASSUME NEW k \in Nat, k \in A PROVE k + 1 \in A
  <2>1. SUFFICES ASSUME k + 1 <= n
                 PROVE  LineInv(s, e, Left(k + 1), f[k + 1].partial, f[k + 1].decoded)
    OBVIOUS
  <2> DEFINE m == k + 1
             before == Left(k)
             after == Left(m)
  <2>2. /\ k \in 0 .. Len(l) /\ m \in 0 .. Len(l) /\ m \in 1 .. n /\ k \in 0 .. n /\ m - 1 = k
        /\ Len(l) - k = (Len(l) - m) + 1 /\ 1 \in 1 .. Len(l) - k /\ Len(l) - m \in Nat
        /\ \A j \in 1 .. Len(l) - m : /\ j + 1 \in 1 .. Len(l) - k
                                      /\ m + j = k + (j + 1)
    BY <1>1, <2>1
  <2>3. LineInv(s, e, before, f[k].partial, f[k].decoded)
    BY <1>5, <2>2
  <2> HIDE DEF m
  <2>4. /\ before \in Seq(LineBytes) /\ Len(before) = Len(l) - k
        /\ \A j \in 1 .. Len(l) - k : before[j] = l[k + j]
    BY <1>1, <2>2, LeftOf
  <2>5. /\ after \in Seq(LineBytes) /\ Len(after) = Len(l) - m
        /\ \A j \in 1 .. Len(l) - m : after[j] = l[m + j]
    BY <1>1, <2>2, LeftOf
  <2> HIDE DEF before, after
  <2>6. Rest(before, after)
    <3>1. \A j \in 1 .. Len(l) - m : after[j] = before[j + 1]
      <4> TAKE j \in 1 .. Len(l) - m
      <4>1. j + 1 \in 1 .. Len(l) - k /\ m + j = k + (j + 1)
        BY <2>2
      <4>2. before[j + 1] = l[k + (j + 1)]
        BY <2>4, <4>1
      <4> QED BY <2>5, <4>1, <4>2
    <3> QED BY <2>2, <2>4, <2>5, <3>1 DEF Rest
  <2>7. before[1] = bytes[m]
    <3>1. k + 1 = m
      BY DEF m
    <3> QED BY <1>2, <2>2, <2>4, <3>1
  <2>8. f[k] \in Decoders /\ f[m] = FeedByte(f[k], before[1]) /\ before[1] \in LineBytes
    <3>1. bytes[m] \in LineBytes
      BY <1>2, <2>2, ElementOfSeq
    <3> QED BY <1>3, <2>2, <2>7, <3>1 DEF Reads
  <2>9. Fed(f[k], before[1], f[m])
    BY <2>8, FeedByteDoes
  <2>10. LineInv(s, e, after, f[m].partial, f[m].decoded)
    BY <2>3, <2>6, <2>8, <2>9, InvariantAfterAByte
  <2> QED BY <2>10 DEF m, after
<1> HIDE DEF A
<1>6. n \in A
  BY <1>1, <1>4, <1>5, NatBySets
<1>7. LineInv(s, e, Left(n), f[n].partial, f[n].decoded)
  BY <1>1, <1>6 DEF A
<1>8. r \in Decoders
  <2>1. n \in 0 .. n
    BY <1>1
  <2> QED BY <1>3, <2>1 DEF Reads
<1> QED BY <1>3, <1>7, <1>8

-----------------------------------------------------------------------------
(***************************************************************************)
(* More on the line                                                        *)
(***************************************************************************)
\* l2 is l with these characters of line n after it.
Adds(l, l2, chars, n) ==
  /\ l2 \in Seq(LineBytes)
  /\ Len(l2) = Len(l) + Len(chars)
  /\ \A j \in 1 .. Len(l) : l2[j] = l[j]
  /\ \A j \in Len(l) + 1 .. Len(l) + Len(chars) :
       l2[j].char = chars[j - Len(l)] /\ l2[j].of = n

\* These characters follow the lines of s, and s2 has no fewer.
Grows(s, s2, l, l2, chars) ==
  /\ Len(s) \in Nat /\ Len(s2) \in Nat /\ Len(s2) >= Len(s)
  /\ Len(l) \in Nat /\ Len(chars) \in Nat
  /\ Adds(l, l2, chars, Len(s) + 1)

\* A terminator among them is their last, of a line of s2.
EndsAtMost(s, s2, chars) ==
  \A k \in 1 .. Len(chars) : chars[k] = "CR" => k = Len(chars) /\ Len(s2) = Len(s) + 1

LEMMA BytesAdd ==
  ASSUME NEW l \in Seq(LineBytes), NEW chars \in Seq(Characters), NEW n \in Nat
  PROVE  Adds(l, l \o Bytes(chars, n), chars, n)
<1> DEFINE more == Bytes(chars, n)
           t == Len(chars)
           m == Len(l)
<1>1. /\ t \in Nat /\ m \in Nat /\ DOMAIN chars = 1 .. t
      /\ \A k \in 1 .. t : chars[k] \in Characters
  BY LenProperties, ElementOfSeq
<1>2. more \in [1 .. t -> LineBytes] /\ \A k \in 1 .. t : more[k] = [char |-> chars[k], of |-> n]
  BY <1>1 DEF Bytes, LineBytes
<1>3. more \in Seq(LineBytes) /\ Len(more) = t
  BY <1>1, <1>2
<1> HIDE DEF more, t, m
<1>4. Joins(l \o more, LineBytes, l, m, more, t)
  BY <1>1, <1>3, Joined DEF m
<1> DEFINE l2 == l \o more
<1> HIDE DEF l2
<1>5. ASSUME NEW j \in m + 1 .. m + t PROVE l2[j].char = chars[j - m] /\ l2[j].of = n
  <2> DEFINE k == j - m
  <2>1. k \in 1 .. t /\ m + k = j
    BY <1>1 DEF m, t
  <2> HIDE DEF k
  <2>2. l2[m + k] = more[k]
    BY <1>4, <2>1 DEF Joins, l2
  <2>3. more[k] = [char |-> chars[k], of |-> n]
    BY <1>2, <2>1 DEF more, t
  <2> QED BY <2>1, <2>2, <2>3 DEF k
<1>6. l2 \in Seq(LineBytes) /\ Len(l2) = m + t /\ \A j \in 1 .. m : l2[j] = l[j]
  BY <1>4 DEF Joins, l2
<1>7. Adds(l, l2, chars, n)
  BY <1>5, <1>6 DEF Adds, m, t
<1> QED BY <1>7 DEF l2, more

LEMMA InOrderMore ==
  ASSUME NEW s, NEW s2, NEW l, NEW l2, NEW chars, Grows(s, s2, l, l2, chars), InOrder(s, l),
         EndsAtMost(s, s2, chars)
  PROVE  InOrder(s2, l2)
<1> DEFINE m == Len(l)
           t == Len(chars)
           n == Len(s) + 1
<1> USE DEF Grows, EndsAtMost
<1>1. Len(l2) = m + t /\ m \in Nat /\ t \in Nat
  BY DEF Adds
<1>2. \A j \in 1 .. m : /\ l2[j] = l[j] /\ l2[j].of \in 1 .. n
                        /\ l2[j].char = "CR" => l2[j].of < n
  BY DEF Adds, InOrder
<1>3. ASSUME NEW j \in m + 1 .. m + t
      PROVE  l2[j].of = n /\ (l2[j].char = "CR" => j = m + t /\ Len(s2) = n)
  <2>1. j - m \in 1 .. t /\ (j - m = t => j = m + t)
    BY <1>1
  <2> QED BY <2>1 DEF Adds
<1>4. \A j, k \in 1 .. m :
        j < k => l2[j].of <= l2[k].of /\ (l2[j].char = "CR" => l2[j].of < l2[k].of)
  BY <1>2 DEF InOrder
<1>5. \A j \in 1 .. m + t : j \in 1 .. m \/ j \in m + 1 .. m + t
  BY <1>1
<1> HIDE DEF m, t
<1>6. ASSUME NEW j \in 1 .. m + t
      PROVE  l2[j].of \in 1 .. Len(s2) + 1 /\ (l2[j].char = "CR" => l2[j].of <= Len(s2))
  BY <1>2, <1>3, <1>5
<1>7. ASSUME NEW j \in 1 .. m + t, NEW k \in 1 .. m + t, j < k
      PROVE  l2[j].of <= l2[k].of /\ (l2[j].char = "CR" => l2[j].of < l2[k].of)
  <2>1. CASE k \in 1 .. m
    <3>1. j \in 1 .. m
      BY <1>1, <1>7, <2>1
    <3> QED BY <1>4, <1>7, <2>1, <3>1
  <2>2. CASE k \in m + 1 .. m + t
    <3>1. l2[k].of = n
      BY <1>3, <2>2
    <3>2. CASE j \in 1 .. m
      BY <1>2, <3>1, <3>2
    <3>3. CASE j \in m + 1 .. m + t
      <4>1. j # m + t
        BY <1>1, <1>7
      <4>2. l2[j].of = n /\ l2[j].char # "CR"
        BY <1>3, <3>3, <4>1
      <4> QED BY <3>1, <4>2
    <3> QED BY <1>5, <3>2, <3>3
  <2> QED BY <1>5, <2>1, <2>2
<1> QED BY <1>1, <1>6, <1>7 DEF InOrder

LEMMA DecodedMore ==
  ASSUME NEW s, NEW s2, NEW l, NEW l2, NEW chars, Grows(s, s2, l, l2, chars),
         NEW d \in Seq(Decodings), Decoded(s, l, d)
  PROVE  Decoded(s2, l2, d)
<1> DEFINE m == Len(l)
           t == Len(chars)
<1> USE DEF Grows
<1>1. \A j \in 1 .. Len(d) : d[j].at \in Nat /\ d[j].at <= Len(s)
  <2>1. \A j \in 1 .. Len(d) : d[j] \in Decodings
    BY ElementOfSeq
  <2> QED BY <2>1 DEF Decodings, Decoded
<1>2. ASSUME NEW j \in 1 .. Len(d), NEW k \in 1 .. m + t PROVE d[j].at < l2[k].of
  <2>1. CASE k \in 1 .. m
    BY <2>1 DEF Decoded, Adds
  <2>2. CASE k \notin 1 .. m
    <3>1. k \in m + 1 .. m + t
      BY <2>2
    <3>2. l2[k].of = Len(s) + 1
      BY <3>1 DEF Adds
    <3> QED BY <1>1, <3>2
  <2> QED BY <2>1, <2>2
<1>3. Len(l2) = m + t
  BY DEF Adds
<1>4. \A j \in 1 .. Len(d) : d[j].at <= Len(s2)
  BY <1>1
<1> QED BY <1>2, <1>3, <1>4 DEF Decoded

\* Lines that were there are kept.
LEMMA KeptMore ==
  ASSUME NEW s, NEW s2, NEW l, NEW l2, NEW chars, Grows(s, s2, l, l2, chars),
         NEW p, NEW d, LinesKept(s, l, p, d),
         NEW n \in 1 .. Len(s), s[n].intact
  PROVE  /\ Past(l2, n) => ShownAt(d, n) = ToSet(s[n].shows)
         /\ ~Past(l2, n) => IsWaiting(l2, p, n, s[n].shows)
<1> DEFINE m == Len(l)
           t == Len(chars)
<1> USE DEF Grows
<1>1. Len(l2) = m + t /\ \A j \in 1 .. m : l2[j] = l[j] /\ j \in 1 .. m + t
  BY DEF Adds
<1>2. Past(l, n) => Past(l2, n)
  <2>1. ASSUME Past(l, n), NEW k \in 1 .. m + t PROVE l2[k].of > n
    <3>1. CASE k \in 1 .. m
      BY <1>1, <2>1, <3>1 DEF Past
    <3>2. CASE k \notin 1 .. m
      <4>1. k \in m + 1 .. m + t
        BY <3>2
      <4>2. l2[k].of = Len(s) + 1
        BY <4>1 DEF Adds
      <4> QED BY <4>2
    <3> QED BY <3>1, <3>2
  <2> QED BY <1>1, <2>1 DEF Past
<1>3. Past(l2, n) => Past(l, n)
  BY <1>1 DEF Past
<1>4. ASSUME NEW text, NEW i \in Nat, NEW b \in Nat, NEW c \in Nat,
             Waiting(l, p, n, text, i, b, c)
      PROVE  Waiting(l2, p, n, text, i, b, c)
  <2>1. i \in 1 .. b /\ b \in 1 .. c /\ c \in 1 .. m /\ c - b <= Len(text)
    BY <1>4 DEF Waiting, Block
  <2>2. \A j \in i .. c : j \in 1 .. m /\ l2[j] = l[j]
    BY <1>1, <2>1
  <2>3. (i > 1 => l2[i - 1] = l[i - 1]) /\ c \in 1 .. Len(l2) /\ c \in i .. c
    BY <1>1, <2>1
  <2>4. \A j \in i .. c : l2[j].of = n
    BY <1>4, <2>2 DEF Waiting, Block
  <2>5. ASSUME NEW j \in i .. b - 1 PROVE l2[j].char = "BEL"
    <3>1. j \in i .. c
      BY <2>1
    <3> QED BY <1>4, <2>2, <3>1 DEF Waiting, Block
  <2>6. l2[c].char = "CR"
    BY <1>4, <2>2, <2>3 DEF Waiting, Block
  <2>7. ASSUME NEW j \in b .. c - 1 PROVE l2[j].char = text[Len(text) - c + 1 + j]
    <3>1. j \in i .. c
      BY <2>1
    <3> QED BY <1>4, <2>2, <3>1 DEF Waiting, Block
  <2>8. Block(l2, n, text, i, b, c)
    BY <2>1, <2>3, <2>4, <2>5, <2>6, <2>7 DEF Block
  <2> QED BY <1>4, <2>3, <2>8 DEF Waiting
<1>5. IsWaiting(l, p, n, s[n].shows) => IsWaiting(l2, p, n, s[n].shows)
  BY <1>4 DEF IsWaiting
<1> QED BY <1>2, <1>3, <1>5 DEF LinesKept

\* A line that is said waits: either the one before it is on its way, or the
\* decoder has begun none.
LEMMA SaidLineWaits ==
  ASSUME NEW s, Len(s) \in Nat, NEW l, Len(l) \in Nat, NEW p, NEW i \in Nat, Room(s, l, p, i),
         NEW text \in Seq(Characters), NEW l2, Adds(l, l2, Append(text, "CR"), Len(s) + 1)
  PROVE  Waiting(l2, p, Len(s) + 1, text, i, Len(l) + 1, Len(l) + Len(text) + 1)
<1> DEFINE m == Len(l)
           t == Len(text)
           n == Len(s) + 1
           chars == Append(text, "CR")
           b == m + 1
           c == m + t + 1
<1>1. /\ t \in Nat /\ Len(chars) = t + 1
      /\ \A k \in 1 .. t : chars[k] = text[k]
      /\ chars[t + 1] = "CR"
  BY LenProperties, AppendProperties, SlcanAssumption
<1>2. /\ Len(l2) = m + (t + 1)
      /\ \A j \in 1 .. m : l2[j] = l[j]
      /\ \A j \in m + 1 .. m + (t + 1) : l2[j].char = chars[j - m] /\ l2[j].of = n
  BY <1>1 DEF Adds
<1>3. i \in 1 .. m + 1
  BY DEF Room
<1> HIDE DEF m, t, chars
<1>4. /\ m \in Nat /\ c = m + (t + 1) /\ c \in 1 .. m + (t + 1) /\ b \in 1 .. c /\ i \in 1 .. b
      /\ c - b = t /\ c \in m + 1 .. m + (t + 1) /\ c - m = t + 1
  BY <1>1, <1>3 DEF m
<1>5. ASSUME NEW j \in i .. c PROVE l2[j].of = n
  <2>1. CASE j \in m + 1 .. m + (t + 1)
    BY <1>2, <2>1
  <2>2. CASE j \notin m + 1 .. m + (t + 1)
    <3>1. j \in 1 .. m /\ j \in i .. m
      BY <1>3, <1>4, <2>2
    <3> QED BY <1>2, <3>1 DEF Room, m
  <2> QED BY <2>1, <2>2
<1>6. ASSUME NEW j \in i .. b - 1 PROVE l2[j].char = "BEL"
  <2>1. j \in 1 .. m /\ j \in i .. m
    BY <1>3, <1>4
  <2> QED BY <1>2, <2>1 DEF Room, m
<1>7. l2[c].char = "CR"
  BY <1>1, <1>2, <1>4
<1>8. ASSUME NEW j \in b .. c - 1 PROVE l2[j].char = text[t - c + 1 + j]
  <2>1. j \in m + 1 .. m + (t + 1) /\ j - m \in 1 .. t /\ t - c + 1 + j = j - m
    BY <1>1, <1>4
  <2> QED BY <1>1, <1>2, <2>1
<1>9. Block(l2, n, text, i, b, c)
  <2>1. c - b <= t
    BY <1>1, <1>4
  <2> HIDE DEF b, c, n
  <2> QED BY <1>2, <1>4, <1>5, <1>6, <1>7, <1>8, <2>1 DEF Block, t
<1>10. CASE i = 1
  <2>1. p = <<>> /\ t - (c - b) = 0
    BY <1>1, <1>4, <1>10 DEF Room
  <2>2. SubSeq(text, 1, 0) = <<>>
    BY SubSeqEmpty
  <2> HIDE DEF b, c, n
  <2>3. Waiting(l2, p, n, text, i, b, c)
    BY <1>9, <1>10, <2>1, <2>2 DEF Waiting, t
  <2> QED BY <2>3 DEF n, b, c, m, t
<1>11. CASE i > 1
  <2>1. l[i - 1].char = "CR" /\ l[i - 1].of = n - 1 /\ i - 1 \in 1 .. m
    BY <1>3, <1>4, <1>11 DEF Room
  <2>2. l2[i - 1] = l[i - 1]
    BY <1>2, <2>1
  <2> HIDE DEF b, c, n
  <2>3. Waiting(l2, p, n, text, i, b, c)
    BY <1>4, <1>9, <1>11, <2>1, <2>2 DEF Waiting, t
  <2> QED BY <2>3 DEF n, b, c, m, t
<1> QED BY <1>3, <1>4, <1>10, <1>11

LEMMA InvariantAfterALine ==
  ASSUME NEW s, NEW e, NEW l, NEW p, NEW d, LineInv(s, e, l, p, d),
         NEW text, NEW shows \in {<<>>} \cup {<<f>> : f \in Frames}, Whole(text, shows),
         NEW s2, s2 = Append(s, [shows |-> shows, intact |-> e]),
         NEW l2, l2 = l \o Bytes(Append(text, "CR"), Len(s) + 1)
  PROVE  LineInv(s2, TRUE, l2, p, d)
<1> DEFINE n == Len(s) + 1
           m == Len(l)
           t == Len(text)
           chars == Append(text, "CR")
           x == [shows |-> shows, intact |-> e]
<1>1. /\ Len(s) \in Nat /\ s \in Seq(Lines) /\ e \in BOOLEAN /\ l \in Seq(LineBytes) /\ m \in Nat
      /\ p \in Seq(Characters) /\ d \in Seq(Decodings)
  BY LenProperties DEF LineInv, Typed
<1>2. InOrder(s, l) /\ Decoded(s, l, d) /\ LinesKept(s, l, p, d)
  BY DEF LineInv
<1>3. /\ text \in Seq(Characters) /\ t \in Nat
      /\ \A k \in 1 .. t : text[k] \notin {"CR", "BEL"}
  BY WholeText
<1>4. /\ chars \in Seq(Characters) /\ Len(chars) = t + 1 /\ Len(chars) \in Nat
      /\ \A k \in 1 .. t : chars[k] = text[k]
      /\ chars[t + 1] = "CR"
  BY <1>3, AppendProperties, SlcanAssumption
<1>5. x \in Lines /\ x.shows = shows /\ x.intact = e
  BY <1>1 DEF Lines
<1> HIDE DEF x
<1>6. /\ s2 \in Seq(Lines) /\ Len(s2) = n /\ n \in Nat
      /\ \A k \in 1 .. Len(s) : s2[k] = s[k]
      /\ s2[n] = x
  BY <1>1, <1>5, AppendProperties DEF x
<1> HIDE DEF chars
<1>7. Adds(l, l2, chars, n)
  BY <1>1, <1>4, <1>6, BytesAdd DEF chars
<1>8. Typed(s2, TRUE, l2, p, d)
  BY <1>1, <1>6, <1>7 DEF Typed, Adds
<1>9. Grows(s, s2, l, l2, chars)
  BY <1>1, <1>4, <1>6, <1>7 DEF Grows
<1>10. InOrder(s2, l2)
  <2>1. EndsAtMost(s, s2, chars)
    <3>1. \A k \in 1 .. t + 1 : k \in 1 .. t \/ k = t + 1
      BY <1>3
    <3> QED BY <1>3, <1>4, <1>6, <3>1 DEF EndsAtMost
  <2> QED BY <1>9, <1>2, <2>1, InOrderMore
<1>11. Decoded(s2, l2, d)
  BY <1>1, <1>9, <1>2, DecodedMore
<1>12. /\ Len(l2) = m + (t + 1) /\ m + (t + 1) \in 1 .. Len(l2)
       /\ l2[m + (t + 1)].char = "CR" /\ l2[m + (t + 1)].of = n
  <2>1. /\ m + (t + 1) \in m + 1 .. m + (t + 1) /\ (m + (t + 1)) - m = t + 1
        /\ m + (t + 1) \in 1 .. m + (t + 1)
    BY <1>1, <1>3
  <2> QED BY <1>4, <1>7, <2>1 DEF Adds
<1>13. ASSUME NEW k \in 1 .. Len(s2), s2[k].intact
       PROVE  /\ Past(l2, k) => ShownAt(d, k) = ToSet(s2[k].shows)
              /\ ~Past(l2, k) => IsWaiting(l2, p, k, s2[k].shows)
  <2>1. CASE k \in 1 .. Len(s)
    <3>1. s2[k] = s[k] /\ s[k].intact
      BY <1>6, <1>13, <2>1
    <3> QED BY <1>9, <1>2, <2>1, <3>1, KeptMore
  <2>2. CASE k = n
    <3>1. ~Past(l2, k)
      BY <1>6, <1>12, <2>2 DEF Past
    <3>2. e
      BY <1>5, <1>6, <1>13, <2>2
    <3>3. PICK i \in Nat : Room(s, l, p, i)
      BY <3>2 DEF LineInv, NextFits
    <3>4. Waiting(l2, p, n, text, i, m + 1, m + t + 1)
      BY <1>1, <1>3, <1>7, <3>3, SaidLineWaits DEF chars
    <3>5. m + 1 \in Nat /\ m + t + 1 \in Nat
      BY <1>1, <1>3
    <3>6. s2[k].shows = shows
      BY <1>5, <1>6, <2>2
    <3>7. IsWaiting(l2, p, n, shows)
      BY <3>4, <3>5 DEF IsWaiting
    <3> QED BY <2>2, <3>1, <3>6, <3>7
  <2> QED BY <1>1, <1>6, <2>1, <2>2
<1>14. NextFits(s2, TRUE, l2, p)
  <2> DEFINE i == m + (t + 1) + 1
  <2>1. /\ i \in 1 .. Len(l2) + 1 /\ i > 1 /\ i - 1 = m + (t + 1) /\ i \in Nat
        /\ \A j \in i .. Len(l2) : FALSE
    BY <1>1, <1>3, <1>12
  <2>2. Room(s2, l2, p, i)
    BY <1>6, <1>12, <2>1 DEF Room
  <2> QED BY <2>1, <2>2 DEF NextFits
<1> QED BY <1>8, <1>10, <1>11, <1>13, <1>14 DEF LineInv, LinesKept

\* A rejection.
LEMMA InvariantAfterABell ==
  ASSUME NEW s, NEW e, NEW l, NEW p, NEW d, LineInv(s, e, l, p, d),
         NEW l2, l2 = Append(l, [char |-> "BEL", of |-> Len(s) + 1])
  PROVE  LineInv(s, e, l2, p, d)
<1> DEFINE n == Len(s) + 1
           m == Len(l)
           x == [char |-> "BEL", of |-> n]
           chars == <<"BEL">>
<1>1. /\ Len(s) \in Nat /\ s \in Seq(Lines) /\ e \in BOOLEAN /\ l \in Seq(LineBytes) /\ m \in Nat
      /\ p \in Seq(Characters) /\ d \in Seq(Decodings) /\ n \in Nat
  BY LenProperties DEF LineInv, Typed
<1>2. InOrder(s, l) /\ Decoded(s, l, d) /\ LinesKept(s, l, p, d)
  BY DEF LineInv
<1>3. x \in LineBytes /\ x.char = "BEL" /\ x.of = n
  BY <1>1, SlcanAssumption DEF LineBytes
<1> HIDE DEF x
<1>4. /\ l2 \in Seq(LineBytes) /\ Len(l2) = m + 1
      /\ \A j \in 1 .. m : l2[j] = l[j]
      /\ l2[m + 1] = x
  BY <1>1, <1>3, AppendProperties DEF x
<1>5. Len(chars) = 1 /\ chars[1] = "BEL"
  OBVIOUS
<1> HIDE DEF chars
<1>6. Adds(l, l2, chars, n)
  <2>1. ASSUME NEW j \in m + 1 .. m + 1 PROVE l2[j].char = chars[j - m] /\ l2[j].of = n
    <3>1. j = m + 1 /\ j - m = 1
      BY <1>1
    <3> QED BY <1>3, <1>4, <1>5, <3>1
  <2> QED BY <1>4, <1>5, <2>1 DEF Adds
<1>7. Typed(s, e, l2, p, d)
  BY <1>1, <1>4 DEF Typed
<1>8. Grows(s, s, l, l2, chars)
  BY <1>1, <1>5, <1>6 DEF Grows
<1>9. InOrder(s, l2)
  <2>1. EndsAtMost(s, s, chars)
    BY <1>5 DEF EndsAtMost
  <2> QED BY <1>8, <1>2, <2>1, InOrderMore
<1>10. Decoded(s, l2, d)
  BY <1>1, <1>8, <1>2, DecodedMore
<1>11. LinesKept(s, l2, p, d)
  <2> SUFFICES ASSUME NEW k \in 1 .. Len(s), s[k].intact
               PROVE  /\ Past(l2, k) => ShownAt(d, k) = ToSet(s[k].shows)
                      /\ ~Past(l2, k) => IsWaiting(l2, p, k, s[k].shows)
    BY DEF LinesKept
  <2> QED BY <1>8, <1>2, KeptMore
<1>12. ASSUME e PROVE \E i \in Nat : Room(s, l2, p, i)
  <2>1. PICK i \in Nat : Room(s, l, p, i)
    BY <1>12 DEF LineInv, NextFits
  <2>2. i \in 1 .. m + 1 /\ i \in 1 .. Len(l2) + 1
    BY <1>1, <1>4, <2>1 DEF Room
  <2>3. ASSUME NEW j \in i .. Len(l2) PROVE l2[j].char = "BEL" /\ l2[j].of = n
    <3>1. CASE j = m + 1
      BY <1>3, <1>4, <3>1
    <3>2. CASE j # m + 1
      <4>1. j \in 1 .. m /\ j \in i .. m
        BY <1>1, <1>4, <2>2, <3>2
      <4> QED BY <1>4, <2>1, <4>1 DEF Room
    <3> QED BY <3>1, <3>2
  <2>4. i > 1 => l2[i - 1] = l[i - 1]
    BY <1>1, <1>4, <2>2
  <2>5. Room(s, l2, p, i)
    BY <2>1, <2>2, <2>3, <2>4 DEF Room
  <2> QED BY <2>5
<1> QED BY <1>7, <1>9, <1>10, <1>11, <1>12 DEF LineInv, NextFits

\* Noise: what is said next goes with it.
LEMMA InvariantAfterNoise ==
  ASSUME NEW s, NEW e, NEW l, NEW p, NEW d, LineInv(s, e, l, p, d),
         NEW noise \in Noise, NEW l2, l2 = l \o Bytes(noise, Len(s) + 1)
  PROVE  LineInv(s, FALSE, l2, p, d)
<1>1. /\ Len(s) \in Nat /\ s \in Seq(Lines) /\ l \in Seq(LineBytes) /\ Len(l) \in Nat
      /\ p \in Seq(Characters) /\ d \in Seq(Decodings)
  BY LenProperties DEF LineInv, Typed
<1>2. InOrder(s, l) /\ Decoded(s, l, d) /\ LinesKept(s, l, p, d)
  BY DEF LineInv
<1>3. /\ noise \in Seq(Characters) /\ Len(noise) \in Nat
      /\ \A k \in 1 .. Len(noise) : noise[k] # "CR"
  BY LineAssumption, LenProperties
<1>4. Adds(l, l2, noise, Len(s) + 1)
  BY <1>1, <1>3, BytesAdd
<1>5. Typed(s, FALSE, l2, p, d)
  BY <1>1, <1>4 DEF Typed, Adds
<1>6. Grows(s, s, l, l2, noise)
  BY <1>1, <1>3, <1>4 DEF Grows
<1>7. InOrder(s, l2)
  <2>1. EndsAtMost(s, s, noise)
    BY <1>3 DEF EndsAtMost
  <2> QED BY <1>6, <1>2, <2>1, InOrderMore
<1>8. Decoded(s, l2, d)
  BY <1>1, <1>6, <1>2, DecodedMore
<1>9. LinesKept(s, l2, p, d)
  <2> SUFFICES ASSUME NEW k \in 1 .. Len(s), s[k].intact
               PROVE  /\ Past(l2, k) => ShownAt(d, k) = ToSet(s[k].shows)
                      /\ ~Past(l2, k) => IsWaiting(l2, p, k, s[k].shows)
    BY DEF LinesKept
  <2> QED BY <1>6, <1>2, KeptMore
<1> QED BY <1>5, <1>7, <1>8, <1>9 DEF LineInv, NextFits

-----------------------------------------------------------------------------
(***************************************************************************)
(* Less on the line                                                        *)
(***************************************************************************)
\* l2 is l without its byte at k; At(k, j) is where its j-th byte was.
At(k, j) == IF j < k THEN j ELSE j + 1

Loses(l, l2, k) ==
  /\ k \in 1 .. Len(l)
  /\ l2 \in Seq(LineBytes)
  /\ Len(l2) \in Nat /\ Len(l) = Len(l2) + 1
  /\ \A j \in 1 .. Len(l2) : l2[j] = l[At(k, j)]

LEMMA RemoveAtLoses ==
  ASSUME NEW l \in Seq(LineBytes), NEW k \in 1 .. Len(l)
  PROVE  Loses(l, RemoveAt(l, k), k)
<1> DEFINE n == Len(l)
           h == k - 1
           z == k + 1
           a == SubSeq(l, 1, h)
           b == SubSeq(l, z, n)
<1>1. n \in Nat /\ k \in 1 .. n /\ \A i \in 1 .. n : l[i] \in LineBytes
  BY LenProperties, ElementOfSeq
<1>2. /\ h \in Int /\ h - 1 + 1 = h /\ (~(1 <= h) => h = 0) /\ h \in Nat
      /\ \A i \in 1 .. h : i \in 1 .. n /\ 1 + i - 1 = i
  BY <1>1
<1>3. /\ z \in Int /\ n - z + 1 = n - k /\ (~(z <= n) => n - k = 0) /\ n - k \in Nat
      /\ \A i \in z .. n : i \in 1 .. n
      /\ \A i \in 1 .. n - k : z + i - 1 = k + i
  BY <1>1
<1>4. a \in Seq(LineBytes) /\ Len(a) = h /\ \A i \in 1 .. h : a[i] = l[i]
  <2>1. /\ SubSeq(l, 1, h) \in Seq(LineBytes)
        /\ Len(SubSeq(l, 1, h)) = IF 1 <= h THEN h - 1 + 1 ELSE 0
        /\ \A i \in 1 .. h - 1 + 1 : SubSeq(l, 1, h)[i] = l[1 + i - 1]
    <3>1. 1 \in Int /\ \A i \in 1 .. h : l[i] \in LineBytes
      BY <1>1, <1>2
    <3> HIDE DEF h
    <3> QED BY <1>2, <3>1, SubSeqProperties
  <2> HIDE DEF h, a
  <2> QED BY <1>2, <2>1 DEF a
<1>5. b \in Seq(LineBytes) /\ Len(b) = n - k /\ \A i \in 1 .. n - k : b[i] = l[k + i]
  <2>1. /\ SubSeq(l, z, n) \in Seq(LineBytes)
        /\ Len(SubSeq(l, z, n)) = IF z <= n THEN n - z + 1 ELSE 0
        /\ \A i \in 1 .. n - z + 1 : SubSeq(l, z, n)[i] = l[z + i - 1]
    <3>1. \A i \in z .. n : l[i] \in LineBytes
      BY <1>1, <1>3
    <3> HIDE DEF z, n
    <3> QED BY <1>1, <1>3, <3>1, SubSeqProperties
  <2> HIDE DEF z, n, b
  <2> QED BY <1>3, <2>1 DEF b
<1> HIDE DEF a, b
<1> DEFINE l2 == a \o b
<1>6. /\ l2 \in Seq(LineBytes) /\ Len(l2) = h + (n - k)
      /\ \A i \in 1 .. h : l2[i] = a[i]
      /\ \A i \in 1 .. n - k : l2[h + i] = b[i]
  <2>1. Joins(l2, LineBytes, a, h, b, n - k)
    BY <1>2, <1>3, <1>4, <1>5, Joined
  <2> HIDE DEF l2
  <2> QED BY <2>1 DEF Joins
<1> HIDE DEF l2
<1>7. ASSUME NEW j \in 1 .. n - 1 PROVE l2[j] = l[At(k, j)]
  <2>1. CASE j < k
    <3>1. j \in 1 .. h /\ At(k, j) = j
      BY <1>1, <2>1 DEF At
    <3> QED BY <1>4, <1>6, <3>1
  <2>2. CASE ~(j < k)
    <3> DEFINE i == j - h
    <3>1. i \in 1 .. n - k /\ h + i = j /\ At(k, j) = k + i
      BY <1>1, <2>2 DEF At
    <3> HIDE DEF i
    <3> QED BY <1>5, <1>6, <3>1
  <2> QED BY <2>1, <2>2
<1>8. Len(l2) = n - 1 /\ Len(l2) \in Nat /\ n = Len(l2) + 1
  BY <1>1, <1>6
<1>9. Loses(l, l2, k)
  BY <1>1, <1>6, <1>7, <1>8 DEF Loses
<1>10. RemoveAt(l, k) = l2
  BY DEF RemoveAt, l2, a, b
<1> QED BY <1>9, <1>10

LEMMA AtGrows ==
  ASSUME NEW l, NEW l2, NEW k, Loses(l, l2, k)
  PROVE  /\ \A j \in 1 .. Len(l2) : At(k, j) \in 1 .. Len(l) /\ At(k, j) # k
         /\ \A i, j \in 1 .. Len(l2) : i < j => At(k, i) < At(k, j)
         /\ k \in Nat /\ Len(l) \in Nat
BY DEF Loses, At

LEMMA InOrderLess ==
  ASSUME NEW s, NEW s2, Len(s2) = Len(s), NEW l, NEW l2, NEW k, Loses(l, l2, k), InOrder(s, l)
  PROVE  InOrder(s2, l2)
<1>1. \A j \in 1 .. Len(l2) : At(k, j) \in 1 .. Len(l) /\ l2[j] = l[At(k, j)]
  BY AtGrows DEF Loses
<1>2. \A j \in 1 .. Len(l2) : /\ l2[j].of \in 1 .. Len(s2) + 1
                              /\ l2[j].char = "CR" => l2[j].of <= Len(s2)
  BY <1>1 DEF InOrder
<1>3. ASSUME NEW i \in 1 .. Len(l2), NEW j \in 1 .. Len(l2), i < j
      PROVE  l2[i].of <= l2[j].of /\ (l2[i].char = "CR" => l2[i].of < l2[j].of)
  <2>1. At(k, i) < At(k, j)
    BY <1>3, AtGrows
  <2>2. At(k, i) \in 1 .. Len(l) /\ At(k, j) \in 1 .. Len(l)
    BY <1>1
  <2> QED BY <1>1, <2>1, <2>2 DEF InOrder
<1> QED BY <1>2, <1>3 DEF InOrder

LEMMA DecodedLess ==
  ASSUME NEW s, NEW s2, Len(s2) = Len(s), NEW l, NEW l2, NEW k, Loses(l, l2, k),
         NEW d, Decoded(s, l, d)
  PROVE  Decoded(s2, l2, d)
<1>1. \A j \in 1 .. Len(l2) : At(k, j) \in 1 .. Len(l) /\ l2[j] = l[At(k, j)]
  BY AtGrows DEF Loses
<1> QED BY <1>1 DEF Decoded

\* A line of which nothing is lost but rejections waits on.
LEMMA WaitingLess ==
  ASSUME NEW l, NEW l2, NEW k, Loses(l, l2, k), NEW p, NEW n \in Nat, NEW text, NEW shows,
         Whole(text, shows),
         NEW i \in Nat, NEW b \in Nat, NEW c \in Nat, Waiting(l, p, n, text, i, b, c),
         l[k].of = n => l[k].char = "BEL",
         l[k].of = n - 1 => l[k].char # "CR"
  PROVE  \E i2, b2, c2 \in Nat : Waiting(l2, p, n, text, i2, b2, c2)
<1> DEFINE m == Len(l2)
           t == Len(text)
<1>1. /\ m \in Nat /\ Len(l) = m + 1 /\ k \in 1 .. m + 1
      /\ \A j \in 1 .. m : l2[j] = l[At(k, j)]
  BY DEF Loses
<1>2. /\ i \in 1 .. b /\ b \in 1 .. c /\ c \in 1 .. m + 1 /\ c - b <= t
      /\ \A j \in i .. c : l[j].of = n
      /\ \A j \in i .. b - 1 : l[j].char = "BEL"
      /\ l[c].char = "CR"
      /\ \A j \in b .. c - 1 : l[j].char = text[t - c + 1 + j]
  BY <1>1 DEF Waiting, Block
<1>3. /\ i = 1 => p = SubSeq(text, 1, t - (c - b))
      /\ i > 1 => c - b = t /\ l[i - 1].char = "CR" /\ l[i - 1].of = n - 1
  BY <1>2 DEF Waiting
<1>4. t \in Nat /\ \A j \in 1 .. t : text[j] \notin {"CR", "BEL"}
  BY WholeText
<1> HIDE DEF m, t
<1>5. \A j \in 1 .. m : /\ j < k => l2[j] = l[j]
                        /\ j >= k => l2[j] = l[j + 1]
  <2> TAKE j \in 1 .. m
  <2>1. (j < k => At(k, j) = j) /\ (j >= k => At(k, j) = j + 1)
    BY <1>1 DEF At
  <2> QED BY <1>1, <2>1
<1>6. \A j \in 1 .. m : j < k \/ j >= k
  BY <1>1
<1>7. CASE k > c
  <2>1. c \in 1 .. m /\ \A j \in i .. c : j \in 1 .. m /\ j < k
    BY <1>1, <1>2, <1>7
  <2>2. \A j \in i .. c : l2[j] = l[j]
    BY <1>5, <2>1
  <2>3. /\ \A j \in i .. b - 1 : j \in i .. c
        /\ \A j \in b .. c - 1 : j \in i .. c
        /\ c \in i .. c
    BY <1>2
  <2>4. Block(l2, n, text, i, b, c)
    BY <1>2, <2>1, <2>2, <2>3 DEF Block, m, t
  <2>5. i > 1 => l2[i - 1] = l[i - 1]
    <3>1. i > 1 => i - 1 \in 1 .. m /\ i - 1 < k
      BY <1>1, <1>2, <1>7
    <3> QED BY <1>5, <3>1
  <2>6. Waiting(l2, p, n, text, i, b, c)
    <3>1. i = 1 \/ i > 1
      BY <1>2
    <3> QED BY <1>3, <2>4, <2>5, <3>1 DEF Waiting, t
  <2> QED BY <2>6
<1>8. ~(k \in b .. c)
  <2>1. ASSUME k = c PROVE FALSE
    <3>1. l[k].of = n /\ l[k].char = "CR"
      BY <1>2, <2>1
    <3> QED BY <3>1
  <2>2. ASSUME k \in b .. c - 1 PROVE FALSE
    <3>1. l[k].of = n /\ l[k].char = text[t - c + 1 + k]
      BY <1>2, <2>2
    <3>2. t - c + 1 + k \in 1 .. t
      BY <1>2, <1>4, <2>2
    <3> QED BY <1>4, <3>1, <3>2
  <2> QED BY <1>2, <2>1, <2>2
<1>9. CASE k \in i .. b - 1
  <2>1. /\ i \in 1 .. b - 1 /\ b - 1 \in 1 .. c - 1 /\ c - 1 \in 1 .. m
        /\ (c - 1) - (b - 1) = c - b
        /\ \A j \in b - 1 .. (c - 1) - 1 : j \in 1 .. m /\ j >= k /\ j + 1 \in b .. c - 1
        /\ c - 1 >= k /\ (c - 1) + 1 = c
    BY <1>1, <1>2, <1>9
  <2>2. ASSUME NEW j \in i .. c - 1 PROVE l2[j].of = n
    <3>1. j \in 1 .. m /\ j \in i .. c /\ j + 1 \in i .. c
      BY <1>1, <1>2, <1>9
    <3>2. l2[j] = l[j] \/ l2[j] = l[j + 1]
      BY <1>6, <1>5, <3>1
    <3> QED BY <1>2, <3>1, <3>2
  <2>3. ASSUME NEW j \in i .. (b - 1) - 1 PROVE l2[j].char = "BEL"
    <3>1. j \in 1 .. m /\ j \in i .. b - 1 /\ j + 1 \in i .. b - 1
      BY <1>1, <1>2, <1>9
    <3>2. l2[j] = l[j] \/ l2[j] = l[j + 1]
      BY <1>6, <1>5, <3>1
    <3> QED BY <1>2, <3>1, <3>2
  <2>4. l2[c - 1].char = "CR"
    BY <1>2, <1>5, <2>1
  <2>5. ASSUME NEW j \in b - 1 .. (c - 1) - 1
        PROVE  l2[j].char = text[t - (c - 1) + 1 + j]
    <3>1. l2[j] = l[j + 1] /\ j + 1 \in b .. c - 1
      BY <1>5, <2>1
    <3>2. t - c + 1 + (j + 1) = t - (c - 1) + 1 + j
      BY <1>2, <1>4
    <3> QED BY <1>2, <3>1, <3>2
  <2>6. Block(l2, n, text, i, b - 1, c - 1)
    <3>1. (c - 1) - (b - 1) <= t
      BY <1>2, <2>1
    <3> QED BY <2>1, <2>2, <2>3, <2>4, <2>5, <3>1 DEF Block, m, t
  <2>7. i > 1 => l2[i - 1] = l[i - 1]
    <3>1. i > 1 => i - 1 \in 1 .. m /\ i - 1 < k
      BY <1>1, <1>2, <1>9
    <3> QED BY <1>5, <3>1
  <2>8. Waiting(l2, p, n, text, i, b - 1, c - 1)
    <3>1. i = 1 \/ i > 1
      BY <1>2
    <3> QED BY <1>3, <2>1, <2>6, <2>7, <3>1 DEF Waiting, t
  <2>9. b - 1 \in Nat /\ c - 1 \in Nat
    BY <2>1
  <2> QED BY <2>8, <2>9
<1>10. CASE k < i
  <2>1. i > 1 /\ k # i - 1
    <3>1. i > 1
      BY <1>1, <1>10
    <3> QED BY <1>3, <3>1
  <2>2. /\ k < i - 1 /\ i - 1 \in 1 .. b - 1 /\ b - 1 \in 1 .. c - 1 /\ c - 1 \in 1 .. m
        /\ i - 1 > 1 /\ (c - 1) - (b - 1) = c - b
        /\ \A j \in i - 1 .. c - 1 : j \in 1 .. m /\ j >= k /\ j + 1 \in i .. c
        /\ \A j \in i - 1 .. (b - 1) - 1 : j \in i - 1 .. c - 1 /\ j + 1 \in i .. b - 1
        /\ \A j \in b - 1 .. (c - 1) - 1 : j \in i - 1 .. c - 1 /\ j + 1 \in b .. c - 1
        /\ c - 1 \in i - 1 .. c - 1 /\ (c - 1) + 1 = c
        /\ (i - 1) - 1 \in 1 .. m /\ (i - 1) - 1 >= k /\ ((i - 1) - 1) + 1 = i - 1
    BY <1>1, <1>2, <1>10, <2>1
  <2>3. \A j \in i - 1 .. c - 1 : l2[j] = l[j + 1]
    BY <1>5, <2>2
  <2>4. \A j \in i - 1 .. c - 1 : l2[j].of = n
    BY <1>2, <2>2, <2>3
  <2>5. \A j \in i - 1 .. (b - 1) - 1 : l2[j].char = "BEL"
    BY <1>2, <2>2, <2>3
  <2>6. l2[c - 1].char = "CR"
    BY <1>2, <2>2, <2>3
  <2>7. ASSUME NEW j \in b - 1 .. (c - 1) - 1
        PROVE  l2[j].char = text[t - (c - 1) + 1 + j]
    <3>1. l2[j] = l[j + 1] /\ j + 1 \in b .. c - 1
      BY <2>2, <2>3
    <3>2. t - c + 1 + (j + 1) = t - (c - 1) + 1 + j
      BY <1>2, <1>4
    <3> QED BY <1>2, <3>1, <3>2
  <2>8. Block(l2, n, text, i - 1, b - 1, c - 1)
    <3>1. (c - 1) - (b - 1) <= t
      BY <1>2, <2>2
    <3> QED BY <2>2, <2>4, <2>5, <2>6, <2>7, <3>1 DEF Block, m, t
  <2>9. l2[(i - 1) - 1] = l[i - 1]
    BY <1>5, <2>2
  <2>10. Waiting(l2, p, n, text, i - 1, b - 1, c - 1)
    BY <1>3, <2>1, <2>2, <2>8, <2>9 DEF Waiting, t
  <2>11. i - 1 \in Nat /\ b - 1 \in Nat /\ c - 1 \in Nat
    BY <2>2
  <2> QED BY <2>10, <2>11
<1> QED BY <1>1, <1>2, <1>7, <1>8, <1>9, <1>10

LEMMA SpoiledLine ==
  ASSUME NEW x \in Lines
  PROVE  /\ [x EXCEPT !.intact = FALSE] \in Lines
         /\ [x EXCEPT !.intact = FALSE].shows = x.shows
         /\ [x EXCEPT !.intact = FALSE].intact = FALSE
BY DEF Lines

\* s2 is s with these lines spoiled.
Spoils(s, s2, hit) ==
  /\ s2 \in Seq(Lines) /\ Len(s2) = Len(s) /\ Len(s) \in Nat
  /\ \A m \in 1 .. Len(s) : /\ s2[m].shows = s[m].shows
                            /\ s2[m].intact => s[m].intact /\ m \notin hit

LEMMA HitSpoils ==
  ASSUME NEW s \in Seq(Lines), NEW hit,
         NEW s2, s2 = [m \in DOMAIN s |->
           IF m \in hit THEN [s[m] EXCEPT !.intact = FALSE] ELSE s[m]]
  PROVE  Spoils(s, s2, hit)
<1> DEFINE n == Len(s)
           Spoilt(x) == [x EXCEPT !.intact = FALSE]
<1>1. n \in Nat /\ DOMAIN s = 1 .. n /\ \A m \in 1 .. n : s[m] \in Lines
  BY LenProperties, ElementOfSeq
<1>2. \A m \in 1 .. n : /\ Spoilt(s[m]) \in Lines
                        /\ Spoilt(s[m]).shows = s[m].shows
                        /\ Spoilt(s[m]).intact = FALSE
  BY <1>1, SpoiledLine
<1> HIDE DEF n, Spoilt
<1>3. s2 = [m \in 1 .. n |-> IF m \in hit THEN Spoilt(s[m]) ELSE s[m]]
  BY <1>1 DEF Spoilt
<1>4. s2 \in [1 .. n -> Lines]
  BY <1>1, <1>2, <1>3
<1>5. s2 \in Seq(Lines) /\ Len(s2) = n
  BY <1>1, <1>4
<1>6. ASSUME NEW m \in 1 .. n
      PROVE  s2[m].shows = s[m].shows /\ (s2[m].intact => s[m].intact /\ m \notin hit)
  <2>1. CASE m \in hit
    <3>1. s2[m] = Spoilt(s[m])
      BY <1>3, <2>1
    <3>2. s2[m].shows = s[m].shows /\ s2[m].intact = FALSE
      BY <1>2, <3>1
    <3> QED BY <3>2
  <2>2. CASE m \notin hit
    <3>1. s2[m] = s[m]
      BY <1>3, <2>2
    <3> QED BY <2>2, <3>1
  <2> QED BY <2>1, <2>2
<1> QED BY <1>1, <1>5, <1>6 DEF Spoils, n

LEMMA RoomLess ==
  ASSUME NEW s, NEW s2, Len(s2) = Len(s), NEW l, NEW l2, NEW k, Loses(l, l2, k), NEW p,
         NEW i \in Nat, Room(s, l, p, i), ~(l[k].char = "CR" /\ l[k].of = Len(s))
  PROVE  \E i2 \in Nat : Room(s2, l2, p, i2)
<1> DEFINE m == Len(l2)
<1>1. /\ m \in Nat /\ Len(l) = m + 1 /\ k \in 1 .. m + 1
      /\ \A j \in 1 .. m : l2[j] = l[At(k, j)]
  BY DEF Loses
<1>2. /\ i \in 1 .. m + 2
      /\ \A j \in i .. m + 1 : l[j].char = "BEL" /\ l[j].of = Len(s) + 1
  BY <1>1 DEF Room
<1>3. /\ i = 1 => p = <<>>
      /\ i > 1 => l[i - 1].char = "CR" /\ l[i - 1].of = Len(s)
  BY <1>2 DEF Room
<1> HIDE DEF m
<1>4. \A j \in 1 .. m : /\ j < k => l2[j] = l[j]
                        /\ j >= k => l2[j] = l[j + 1]
  <2> TAKE j \in 1 .. m
  <2>1. (j < k => At(k, j) = j) /\ (j >= k => At(k, j) = j + 1)
    BY <1>1 DEF At
  <2> QED BY <1>1, <2>1
<1>5. CASE k >= i
  <2>1. i \in 1 .. m + 1
    BY <1>1, <1>2, <1>5
  <2>2. ASSUME NEW j \in i .. m PROVE l2[j].char = "BEL" /\ l2[j].of = Len(s2) + 1
    <3>1. j \in 1 .. m /\ j \in i .. m + 1 /\ j + 1 \in i .. m + 1
      BY <1>1, <2>1
    <3>2. l2[j] = l[j] \/ l2[j] = l[j + 1]
      BY <1>1, <1>4, <3>1
    <3> QED BY <1>2, <3>1, <3>2
  <2>3. i > 1 => l2[i - 1] = l[i - 1]
    <3>1. i > 1 => i - 1 \in 1 .. m /\ i - 1 < k
      BY <1>1, <1>5, <2>1
    <3> QED BY <1>4, <3>1
  <2>4. Room(s2, l2, p, i)
    <3>1. i = 1 \/ i > 1
      BY <2>1
    <3> QED BY <1>3, <2>1, <2>2, <2>3, <3>1 DEF Room, m
  <2> QED BY <2>4
<1>6. CASE k < i
  <2>1. i > 1 /\ k # i - 1
    <3>1. i > 1
      BY <1>1, <1>6
    <3> QED BY <1>3, <3>1
  <2>2. /\ i - 1 \in 1 .. m + 1 /\ i - 1 > 1 /\ i - 1 \in Nat
        /\ (i - 1) - 1 \in 1 .. m /\ (i - 1) - 1 >= k /\ ((i - 1) - 1) + 1 = i - 1
        /\ \A j \in i - 1 .. m : j \in 1 .. m /\ j >= k /\ j + 1 \in i .. m + 1
    BY <1>1, <1>2, <1>6, <2>1
  <2>3. \A j \in i - 1 .. m : l2[j].char = "BEL" /\ l2[j].of = Len(s2) + 1
    BY <1>2, <1>4, <2>2
  <2>4. l2[(i - 1) - 1] = l[i - 1]
    BY <1>4, <2>2
  <2>5. Room(s2, l2, p, i - 1)
    BY <1>3, <2>1, <2>2, <2>3, <2>4 DEF Room, m
  <2> QED BY <2>2, <2>5
<1> QED BY <1>1, <1>2, <1>5, <1>6

\* A lost byte.
LEMMA InvariantAfterALoss ==
  ASSUME NEW s, NEW e, NEW l, NEW p, NEW d, LineInv(s, e, l, p, d), NEW k \in 1 .. Len(l),
         NEW hit,
         l[k].char = "CR" => hit = {l[k].of, l[k].of + 1},
         l[k].char \notin {"CR", "BEL"} => hit = {l[k].of},
         NEW s2, Spoils(s, s2, hit),
         NEW e2, e2 = (e /\ ~(l[k].char = "CR" /\ l[k].of = Len(s))),
         NEW l2, l2 = RemoveAt(l, k)
  PROVE  LineInv(s2, e2, l2, p, d)
<1>1. /\ l \in Seq(LineBytes) /\ Len(l) \in Nat /\ p \in Seq(Characters) /\ d \in Seq(Decodings)
      /\ e \in BOOLEAN /\ l[k] \in LineBytes
  BY LenProperties, ElementOfSeq DEF LineInv, Typed
<1>2. InOrder(s, l) /\ Decoded(s, l, d) /\ LinesKept(s, l, p, d) /\ NextFits(s, e, l, p)
  BY DEF LineInv
<1>3. Loses(l, l2, k)
  BY <1>1, RemoveAtLoses
<1>4. s2 \in Seq(Lines) /\ Len(s2) = Len(s) /\ Len(s) \in Nat
  BY DEF Spoils
<1>5. e2 \in BOOLEAN
  BY <1>1
<1>6. Typed(s2, e2, l2, p, d)
  BY <1>1, <1>3, <1>4, <1>5 DEF Typed, Loses
<1>7. InOrder(s2, l2)
  BY <1>2, <1>3, <1>4, InOrderLess
<1>8. Decoded(s2, l2, d)
  BY <1>2, <1>3, <1>4, DecodedLess
<1>9. ASSUME NEW n \in 1 .. Len(s2), s2[n].intact
      PROVE  /\ Past(l2, n) => ShownAt(d, n) = ToSet(s2[n].shows)
             /\ ~Past(l2, n) => IsWaiting(l2, p, n, s2[n].shows)
  <2>1. n \in 1 .. Len(s) /\ s[n].intact /\ n \notin hit /\ s2[n].shows = s[n].shows /\ n \in Nat
    BY <1>4, <1>9 DEF Spoils
  <2>2. CASE Past(l, n)
    <3>1. Past(l2, n)
      <4>1. \A j \in 1 .. Len(l2) : At(k, j) \in 1 .. Len(l) /\ l2[j] = l[At(k, j)]
        BY <1>3, AtGrows DEF Loses
      <4> QED BY <2>2, <4>1 DEF Past
    <3> QED BY <1>2, <2>1, <2>2, <3>1 DEF LinesKept
  <2>3. CASE ~Past(l, n)
    <3>1. PICK text : /\ Whole(text, s[n].shows)
                      /\ \E i, b, c \in Nat : Waiting(l, p, n, text, i, b, c)
      BY <1>2, <2>1, <2>3 DEF LinesKept, IsWaiting
    <3>2. PICK i \in Nat, b \in Nat, c \in Nat : Waiting(l, p, n, text, i, b, c)
      BY <3>1
    <3>3. l[k].of = n => l[k].char = "BEL"
      BY <2>1
    <3>4. l[k].of = n - 1 => l[k].char # "CR"
      <4>1. SUFFICES ASSUME l[k].of = n - 1, l[k].char = "CR" PROVE FALSE
        OBVIOUS
      <4>2. l[k].of + 1 = n
        BY <2>1, <4>1
      <4> QED BY <2>1, <4>1, <4>2
    <3>5. PICK i2 \in Nat, b2 \in Nat, c2 \in Nat : Waiting(l2, p, n, text, i2, b2, c2)
      BY <1>3, <2>1, <3>1, <3>2, <3>3, <3>4, WaitingLess
    <3>6. IsWaiting(l2, p, n, s2[n].shows)
      BY <2>1, <3>1, <3>5 DEF IsWaiting
    <3>7. ~Past(l2, n)
      <4>1. c2 \in 1 .. Len(l2) /\ l2[c2].of = n
        <5>1. i2 \in 1 .. b2 /\ b2 \in 1 .. c2 /\ c2 \in 1 .. Len(l2)
          BY <3>5 DEF Waiting, Block
        <5>2. c2 \in i2 .. c2
          BY <5>1
        <5> QED BY <3>5, <5>1, <5>2 DEF Waiting, Block
      <4> QED BY <2>1, <4>1 DEF Past
    <3> QED BY <3>6, <3>7
  <2> QED BY <2>2, <2>3
<1>10. ASSUME e2 PROVE \E i \in Nat : Room(s2, l2, p, i)
  <2>1. e /\ ~(l[k].char = "CR" /\ l[k].of = Len(s))
    BY <1>10
  <2>2. PICK i \in Nat : Room(s, l, p, i)
    BY <1>2, <2>1 DEF NextFits
  <2> QED BY <1>3, <1>4, <2>1, <2>2, RoomLess
<1> QED BY <1>6, <1>7, <1>8, <1>9, <1>10 DEF LineInv, LinesKept, NextFits

-----------------------------------------------------------------------------
(***************************************************************************)
(* The specification                                                       *)
(***************************************************************************)
IInv == LineInv(said, ended, line, partial, decoded) /\ rejections \in Nat

LEMMA InitIInv == Init => IInv
<1> SUFFICES ASSUME Init PROVE IInv
  OBVIOUS
<1> USE DEF Init
<1>1. /\ Len(said) = 0 /\ Len(line) = 0 /\ Len(decoded) = 0
      /\ said \in Seq(Lines) /\ line \in Seq(LineBytes) /\ decoded \in Seq(Decodings)
      /\ partial \in Seq(Characters) /\ ended = TRUE /\ partial = <<>>
  BY EmptySeq
<1>2. Typed(said, ended, line, partial, decoded)
  BY <1>1 DEF Typed
<1>3. \A j \in 1 .. 0 : FALSE
  OBVIOUS
<1>4. InOrder(said, line) /\ Decoded(said, line, decoded)
      /\ LinesKept(said, line, partial, decoded)
  BY <1>1, <1>3 DEF InOrder, Decoded, LinesKept
<1>5. Room(said, line, partial, 1)
  BY <1>1, <1>3 DEF Room
<1>6. NextFits(said, ended, line, partial)
  BY <1>5 DEF NextFits
<1> QED BY <1>2, <1>4, <1>6 DEF IInv, LineInv

LEMMA SaidKeepsIInv ==
  ASSUME IInv, NEW text, NEW shows \in {<<>>} \cup {<<f>> : f \in Frames}, Whole(text, shows),
         SayLine(shows, text)
  PROVE  IInv'
<1>1. LineInv(said, ended, line, partial, decoded) /\ rejections \in Nat
  BY DEF IInv
<1>2. /\ said' = Append(said, [shows |-> shows, intact |-> ended]) /\ ended' = TRUE
      /\ line' = line \o Bytes(Append(text, "CR"), Len(said) + 1)
      /\ partial' = partial /\ decoded' = decoded /\ rejections' = rejections
  BY DEF SayLine
<1>3. LineInv(said', TRUE, line', partial, decoded)
  BY <1>1, <1>2, InvariantAfterALine
<1> QED BY <1>1, <1>2, <1>3 DEF IInv

LEMMA NextIInv == IInv /\ [Next]_vars => IInv'
<1> SUFFICES ASSUME IInv, [Next]_vars PROVE IInv'
  OBVIOUS
<1>1. LineInv(said, ended, line, partial, decoded) /\ rejections \in Nat
  BY DEF IInv
<1>2. CASE SayFrame
  <2>1. PICK frame \in Frames, time \in Times : SayLine(<<frame>>, EncodeFrame(frame) \o time)
    BY <1>2 DEF SayFrame
  <2>2. Whole(EncodeFrame(frame) \o time, <<frame>>)
    BY FrameDecoded
  <2> QED BY <2>1, <2>2, SaidKeepsIInv
<1>3. CASE Acknowledge
  <2>1. PICK reply \in {<<>>, <<"z">>} : SayLine(<<>>, reply)
    BY <1>3 DEF Acknowledge
  <2>2. Whole(reply, <<>>)
    BY AcknowledgementDecoded
  <2> QED BY <2>1, <2>2, SaidKeepsIInv
<1>4. CASE Ring
  <2>1. /\ line' = Append(line, [char |-> "BEL", of |-> Len(said) + 1])
        /\ said' = said /\ ended' = ended /\ partial' = partial /\ decoded' = decoded
        /\ rejections' = rejections
    BY <1>4 DEF Ring
  <2>2. LineInv(said, ended, line', partial, decoded)
    BY <1>1, <2>1, InvariantAfterABell
  <2> QED BY <1>1, <2>1, <2>2 DEF IInv
<1>5. CASE Babble
  <2>1. PICK noise \in Noise : line' = line \o Bytes(noise, Len(said) + 1)
    BY <1>5 DEF Babble
  <2>2. /\ said' = said /\ ended' = FALSE /\ partial' = partial /\ decoded' = decoded
        /\ rejections' = rejections
    BY <1>5 DEF Babble
  <2>3. LineInv(said, FALSE, line', partial, decoded)
    BY <1>1, <2>1, InvariantAfterNoise
  <2> QED BY <1>1, <2>2, <2>3 DEF IInv
<1>6. CASE LoseByte
  <2> DEFINE Hit(k) == CASE line[k].char = "CR" -> {line[k].of, line[k].of + 1}
                         [] line[k].char = "BEL" -> {}
                         [] OTHER -> {line[k].of}
  <2>1. PICK k \in 1 .. Len(line) :
          /\ line' = RemoveAt(line, k)
          /\ said' = [m \in DOMAIN said |->
               IF m \in Hit(k) THEN [said[m] EXCEPT !.intact = FALSE] ELSE said[m]]
          /\ ended' = (ended /\ ~(line[k].char = "CR" /\ line[k].of = Len(said)))
    BY <1>6, Zenon DEF LoseByte
  <2>2. partial' = partial /\ decoded' = decoded /\ rejections' = rejections
    BY <1>6 DEF LoseByte
  <2> DEFINE hit == Hit(k)
  <2>3. /\ line[k].char = "CR" => hit = {line[k].of, line[k].of + 1}
        /\ line[k].char \notin {"CR", "BEL"} => hit = {line[k].of}
    OBVIOUS
  <2> HIDE DEF Hit, hit
  <2>4. said \in Seq(Lines)
    BY <1>1 DEF LineInv, Typed
  <2>5. Spoils(said, said', hit)
    BY <2>1, <2>4, HitSpoils DEF hit
  <2>6. LineInv(said', ended', line', partial, decoded)
    BY <1>1, <2>1, <2>3, <2>5, InvariantAfterALoss
  <2> QED BY <1>1, <2>2, <2>6 DEF IInv
<1>7. CASE ReceiveFrames
  <2>1. PICK n \in 1 .. Len(line) :
          LET fed == Feed(Starting, SubSeq(line, 1, n))
          IN  /\ partial' = fed.partial
              /\ decoded' = fed.decoded
              /\ rejections' = fed.rejections
              /\ line' = SubSeq(line, n + 1, Len(line))
    BY <1>7 DEF ReceiveFrames
  <2>2. said' = said /\ ended' = ended
    BY <1>7 DEF ReceiveFrames
  <2> DEFINE d == Starting
             r == Feed(Starting, SubSeq(line, 1, n))
  <2>3. d \in Decoders /\ d.partial = partial /\ d.decoded = decoded
    BY <1>1 DEF LineInv, Typed, Decoders, Starting, Decoder
  <2>4. partial' = r.partial /\ decoded' = r.decoded /\ rejections' = r.rejections
    BY <2>1
  <2>5. r = Feed(d, SubSeq(line, 1, n))
    OBVIOUS
  <2> HIDE DEF d, r
  <2>6. /\ r \in Decoders
        /\ LineInv(said, ended, SubSeq(line, n + 1, Len(line)), r.partial, r.decoded)
    BY <1>1, <2>3, <2>5, InvariantAfterARead
  <2>7. r.rejections \in Nat
    BY <2>6, DecoderFields
  <2> QED BY <2>1, <2>2, <2>4, <2>6, <2>7 DEF IInv
<1>8. CASE UNCHANGED vars
  BY <1>8 DEF vars, IInv
<1> QED BY <1>2, <1>3, <1>4, <1>5, <1>6, <1>7, <1>8 DEF Next

LEMMA IInvImpliesWholeLines == IInv => WholeLinesArriveOnce
<1> SUFFICES ASSUME IInv PROVE WholeLinesArriveOnce
  OBVIOUS
<1>1. LinesKept(said, line, partial, decoded) /\ Decoded(said, line, decoded)
  BY DEF IInv, LineInv
<1>2. ASSUME NEW n \in 1 .. Len(said), said[n].intact, IsRead(n)
      PROVE  {d.frame : d \in {e \in ToSet(decoded) : e.at = n}} = ToSet(said[n].shows)
  <2>1. Past(line, n)
    BY <1>2 DEF IsRead, Past
  <2>2. ShownAt(decoded, n) = ToSet(said[n].shows)
    BY <1>1, <1>2, <2>1 DEF LinesKept
  <2> QED BY <2>2 DEF ShownAt
<1> QED BY <1>1, <1>2 DEF WholeLinesArriveOnce, Decoded

\* Of the lines an adapter says, each one that arrives whole shows its frame
\* once and in its place, and an acknowledgement or a rejection shows none,
\* however reads cut the stream and whatever bytes are lost between.
THEOREM LinesArriveOnce == Spec => []WholeLinesArriveOnce
BY InitIInv, NextIInv, IInvImpliesWholeLines, PTL DEF Spec

-----------------------------------------------------------------------------
(***************************************************************************)
(* What was written in a direction, for any sequence of messages: where    *)
(* each message begins and ends, and what its cells are.                   *)
(***************************************************************************)
Cells == [flow : Flows, n : Nat, offset : Nat]

CellsIn(flow, ms, n) ==
  [offset \in 1 .. ms[n].length + 1 |-> [flow |-> flow, n |-> n, offset |-> offset]]

UpTo(flow, ms, n) ==
  LET upTo[k \in 0 .. n] == IF k = 0 THEN <<>> ELSE upTo[k - 1] \o CellsIn(flow, ms, k)
  IN  upTo[n]

\* u is the stream after each of the first n messages.
Streams(u, flow, ms, n) ==
  u = [k \in 0 .. n |-> IF k = 0 THEN <<>> ELSE u[k - 1] \o CellsIn(flow, ms, k)]

LEMMA StreamsExist ==
  ASSUME NEW flow, NEW ms
  PROVE  \A n \in Nat : \E u : Streams(u, flow, ms, n)
<1> DEFINE A == {n \in Nat : \E u : Streams(u, flow, ms, n)}
<1>1. 0 \in A
  <2>1. Streams([k \in 0 .. 0 |-> <<>>], flow, ms, 0)
    BY DEF Streams
  <2> QED BY <2>1
<1>2. ASSUME NEW n \in Nat, n \in A PROVE n + 1 \in A
  <2>1. PICK u : Streams(u, flow, ms, n)
    BY <1>2
  <2> DEFINE next == u[n] \o CellsIn(flow, ms, n + 1)
             v == [k \in 0 .. (n + 1) |-> IF k = n + 1 THEN next ELSE u[k]]
  <2>2. /\ \A k \in 0 .. n : u[k] = IF k = 0 THEN <<>> ELSE u[k - 1] \o CellsIn(flow, ms, k)
        /\ next = u[n] \o CellsIn(flow, ms, n + 1)
    BY <2>1 DEF Streams
  <2> HIDE DEF next
  <2>3. /\ \A k \in 0 .. n : v[k] = u[k]
        /\ v[n + 1] = next
        /\ v = [k \in 0 .. (n + 1) |-> v[k]]
    OBVIOUS
  <2> HIDE DEF v
  <2>4. ASSUME NEW k \in 0 .. (n + 1)
        PROVE  v[k] = IF k = 0 THEN <<>> ELSE v[k - 1] \o CellsIn(flow, ms, k)
    <3>1. CASE k = n + 1
      <4>1. k - 1 = n /\ k - 1 \in 0 .. n /\ k # 0
        BY <3>1
      <4> QED BY <2>2, <2>3, <3>1, <4>1
    <3>2. CASE k # n + 1
      <4>1. k \in 0 .. n /\ (k # 0 => k - 1 \in 0 .. n)
        BY <3>2
      <4> QED BY <2>2, <2>3, <4>1
    <3> QED BY <3>1, <3>2
  <2>5. v = [k \in 0 .. (n + 1) |-> IF k = 0 THEN <<>> ELSE v[k - 1] \o CellsIn(flow, ms, k)]
    BY <2>3, <2>4
  <2>6. Streams(v, flow, ms, n + 1)
    BY <2>5 DEF Streams
  <2> QED BY <2>6
<1> HIDE DEF A
<1>3. \A n \in Nat : n \in A
  BY <1>1, <1>2, NatBySets
<1> QED BY <1>3 DEF A

\* One message after the other.
LEMMA StreamGrows ==
  ASSUME NEW flow, NEW ms
  PROVE  /\ UpTo(flow, ms, 0) = <<>>
         /\ \A n \in Nat :
              UpTo(flow, ms, n + 1) = UpTo(flow, ms, n) \o CellsIn(flow, ms, n + 1)
<1> DEFINE F(n) == CHOOSE u : Streams(u, flow, ms, n)
<1>1. \A n \in Nat : Streams(F(n), flow, ms, n)
  <2> TAKE n \in Nat
  <2>1. \E u : Streams(u, flow, ms, n)
    BY StreamsExist
  <2> QED BY <2>1, Zenon
<1>2. \A n \in Nat : UpTo(flow, ms, n) = F(n)[n]
  BY DEF UpTo, Streams
<1> HIDE DEF F
<1>3. \A n \in Nat : \A k \in 0 .. n :
        F(n)[k] = IF k = 0 THEN <<>> ELSE F(n)[k - 1] \o CellsIn(flow, ms, k)
  BY <1>1 DEF Streams
<1>4. ASSUME NEW n \in Nat PROVE F(n + 1)[n] = F(n)[n]
  <2> DEFINE A == {k \in Nat : k <= n => F(n + 1)[k] = F(n)[k]}
  <2>1. 0 \in A
    <3>1. 0 \in 0 .. n /\ 0 \in 0 .. (n + 1) /\ n + 1 \in Nat
      OBVIOUS
    <3> QED BY <1>3, <3>1
  <2>2. ASSUME NEW k \in Nat, k \in A PROVE k + 1 \in A
    <3>1. SUFFICES ASSUME k + 1 <= n PROVE F(n + 1)[k + 1] = F(n)[k + 1]
      OBVIOUS
    <3>2. /\ k + 1 \in 0 .. n /\ k + 1 \in 0 .. (n + 1) /\ n + 1 \in Nat
          /\ k + 1 # 0 /\ (k + 1) - 1 = k /\ k <= n
      BY <3>1
    <3>3. F(n + 1)[k] = F(n)[k]
      BY <2>2, <3>2
    <3>4. /\ F(n + 1)[k + 1] = F(n + 1)[(k + 1) - 1] \o CellsIn(flow, ms, k + 1)
          /\ F(n)[k + 1] = F(n)[(k + 1) - 1] \o CellsIn(flow, ms, k + 1)
      BY <1>3, <3>2
    <3> QED BY <3>2, <3>3, <3>4
  <2> HIDE DEF A
  <2>3. n \in A
    BY <2>1, <2>2, NatBySets
  <2> QED BY <2>3 DEF A
<1>5. UpTo(flow, ms, 0) = <<>>
  <2>1. 0 \in 0 .. 0
    OBVIOUS
  <2> QED BY <1>2, <1>3, <2>1
<1>6. ASSUME NEW n \in Nat
      PROVE  UpTo(flow, ms, n + 1) = UpTo(flow, ms, n) \o CellsIn(flow, ms, n + 1)
  <2>1. n + 1 \in Nat /\ n + 1 \in 0 .. (n + 1) /\ n + 1 # 0 /\ (n + 1) - 1 = n
    OBVIOUS
  <2>2. F(n + 1)[n + 1] = F(n + 1)[(n + 1) - 1] \o CellsIn(flow, ms, n + 1)
    BY <1>3, <2>1
  <2> QED BY <1>2, <1>4, <2>1, <2>2
<1> QED BY <1>5, <1>6

\* Where message n ends, in cells from the start.
EndsAt(flow, ms, n) == Len(UpTo(flow, ms, n))

\* The cells of s up to message n are those of the messages, one after the other.
Placed(s, flow, ms, n) ==
  /\ s \in Seq(Cells)
  /\ \A p \in 1 .. Len(s) :
       /\ s[p].flow = flow /\ s[p].n \in 1 .. n
       /\ p = EndsAt(flow, ms, s[p].n - 1) + s[p].offset
  /\ \A m \in 0 .. n : EndsAt(flow, ms, m) \in 0 .. Len(s)
  /\ \A m \in 1 .. n : \A p \in EndsAt(flow, ms, m - 1) + 1 .. EndsAt(flow, ms, m) :
       s[p] = [flow |-> flow, n |-> m, offset |-> p - EndsAt(flow, ms, m - 1)]

\* Lengths of n messages, each of at most so many cells of payload.
Lengths(ms, n, most) == \A m \in 1 .. n : ms[m].length \in 1 .. most

LEMMA CellsOfAMessage ==
  ASSUME NEW flow \in Flows, NEW ms, NEW m \in Nat, ms[m].length \in Nat
  PROVE  /\ CellsIn(flow, ms, m) \in Seq(Cells)
         /\ Len(CellsIn(flow, ms, m)) = ms[m].length + 1
         /\ \A j \in 1 .. ms[m].length + 1 :
              CellsIn(flow, ms, m)[j] = [flow |-> flow, n |-> m, offset |-> j]
<1> DEFINE l == ms[m].length + 1
<1>1. l \in Nat /\ 1 .. l \subseteq Nat
  OBVIOUS
<1> HIDE DEF l
<1>2. CellsIn(flow, ms, m) = [j \in 1 .. l |-> [flow |-> flow, n |-> m, offset |-> j]]
  BY DEF CellsIn, l
<1>3. \A j \in 1 .. l : [flow |-> flow, n |-> m, offset |-> j] \in Cells
  BY <1>1 DEF Cells
<1>4. CellsIn(flow, ms, m) \in [1 .. l -> Cells]
  BY <1>2, <1>3
<1>5. CellsIn(flow, ms, m) \in Seq(Cells) /\ Len(CellsIn(flow, ms, m)) = l
  BY <1>1, <1>4
<1> QED BY <1>2, <1>5 DEF l

LEMMA StreamIsPlaced ==
  ASSUME NEW flow \in Flows, NEW ms, NEW N \in Nat, NEW most \in Nat, Lengths(ms, N, most)
  PROVE  \A n \in 0 .. N :
           /\ Placed(UpTo(flow, ms, n), flow, ms, n)
           /\ EndsAt(flow, ms, n) \in Nat
           /\ EndsAt(flow, ms, n) <= n * (most + 1)
           /\ n # 0 => EndsAt(flow, ms, n) = EndsAt(flow, ms, n - 1) + ms[n].length + 1
<1> DEFINE U(n) == UpTo(flow, ms, n)
           E(n) == EndsAt(flow, ms, n)
           P(n) == /\ Placed(U(n), flow, ms, n)
                   /\ E(n) \in Nat
                   /\ E(n) <= n * (most + 1)
                   /\ n # 0 => E(n) = E(n - 1) + ms[n].length + 1
           A == {n \in Nat : n <= N => P(n)}
<1>0. \A n \in Nat : E(n) = Len(U(n))
  BY DEF EndsAt
<1>1. 0 \in A
  <2>1. U(0) = <<>> /\ Len(<<>>) = 0 /\ <<>> \in Seq(Cells) /\ 0 * (most + 1) = 0
    BY StreamGrows, EmptySeq
  <2>2. Placed(<<>>, flow, ms, 0)
    <3>1. EndsAt(flow, ms, 0) = 0
      BY <1>0, <2>1
    <3> QED BY <2>1, <3>1 DEF Placed
  <2> QED BY <1>0, <2>1, <2>2
<1>2. ASSUME NEW n \in Nat, n \in A PROVE n + 1 \in A
  <2>0. SUFFICES ASSUME n + 1 <= N PROVE P(n + 1)
    OBVIOUS
  <2> DEFINE s == U(n)
             c == CellsIn(flow, ms, n + 1)
             t == U(n + 1)
             l == ms[n + 1].length
  <2>1. n <= N /\ n + 1 \in 1 .. N /\ n + 1 \in Nat /\ n + 1 # 0 /\ (n + 1) - 1 = n
    BY <2>0
  <2>2. l \in 1 .. most /\ l \in Nat
    BY <2>1 DEF Lengths
  <2>3. /\ c \in Seq(Cells) /\ Len(c) = l + 1
        /\ \A j \in 1 .. l + 1 : c[j] = [flow |-> flow, n |-> n + 1, offset |-> j]
    BY <2>1, <2>2, CellsOfAMessage
  <2>4. t = s \o c
    BY StreamGrows
  <2>5. P(n)
    BY <1>2, <2>1
  <2>6. s \in Seq(Cells) /\ E(n) = Len(s) /\ E(n) \in Nat /\ E(n + 1) = Len(t)
    BY <1>0, <2>1, <2>5 DEF Placed
  <2> HIDE DEF l, c, s, t
  <2>7. /\ t \in Seq(Cells) /\ Len(t) = Len(s) + (l + 1)
        /\ \A i \in 1 .. Len(s) + (l + 1) : t[i] = IF i <= Len(s) THEN s[i] ELSE c[i - Len(s)]
    BY <2>3, <2>4, <2>6, ConcatProperties
  <2>8. E(n + 1) = E(n) + l + 1 /\ E(n + 1) \in Nat
    BY <2>2, <2>6, <2>7
  <2>9. E(n + 1) <= (n + 1) * (most + 1)
    <3>1. (n + 1) * (most + 1) = n * (most + 1) + (most + 1)
      OBVIOUS
    <3>2. E(n) <= n * (most + 1) /\ n * (most + 1) \in Nat
      BY <2>5
    <3> HIDE DEF E, P
    <3> QED BY <2>2, <2>6, <2>8, <3>1, <3>2
  <2>10. Placed(s, flow, ms, n)
    BY <2>5 DEF s
  <2>11. \A m \in 0 .. n : EndsAt(flow, ms, m) \in 0 .. Len(s)
    BY <2>10 DEF Placed
  <2>12. ASSUME NEW p \in 1 .. Len(t)
         PROVE  /\ t[p].flow = flow /\ t[p].n \in 1 .. (n + 1)
                /\ p = EndsAt(flow, ms, t[p].n - 1) + t[p].offset
    <3>1. CASE p <= Len(s)
      <4>1. p \in 1 .. Len(s) /\ t[p] = s[p]
        BY <2>2, <2>6, <2>7, <3>1
      <4>2. /\ s[p].flow = flow /\ s[p].n \in 1 .. n
            /\ p = EndsAt(flow, ms, s[p].n - 1) + s[p].offset
        BY <2>10, <4>1 DEF Placed
      <4> QED BY <4>1, <4>2
    <3>2. CASE ~(p <= Len(s))
      <4>1. p - Len(s) \in 1 .. l + 1 /\ t[p] = c[p - Len(s)]
        BY <2>2, <2>6, <2>7, <3>2
      <4>2. t[p] = [flow |-> flow, n |-> n + 1, offset |-> p - Len(s)]
        BY <2>3, <4>1
      <4>3. t[p].flow = flow /\ t[p].n = n + 1 /\ t[p].offset = p - Len(s)
        BY <4>2
      <4>4. t[p].n - 1 = n /\ t[p].n \in 1 .. (n + 1)
        BY <4>3
      <4>5. EndsAt(flow, ms, t[p].n - 1) = Len(s)
        BY <2>6, <4>4
      <4>6. p = Len(s) + (p - Len(s))
        BY <2>6
      <4> QED BY <4>3, <4>4, <4>5, <4>6
    <3> QED BY <3>1, <3>2
  <2>13. \A m \in 0 .. (n + 1) : EndsAt(flow, ms, m) \in 0 .. Len(t)
    <3> TAKE m \in 0 .. (n + 1)
    <3>1. CASE m \in 0 .. n
      BY <2>2, <2>6, <2>7, <2>11, <3>1
    <3>2. CASE m = n + 1
      BY <2>6, <3>2, <2>8
    <3> QED BY <3>1, <3>2
  <2>14. ASSUME NEW m \in 1 .. (n + 1),
                NEW p \in EndsAt(flow, ms, m - 1) + 1 .. EndsAt(flow, ms, m)
         PROVE  t[p] = [flow |-> flow, n |-> m, offset |-> p - EndsAt(flow, ms, m - 1)]
    <3>1. CASE m = n + 1
      <4>1. EndsAt(flow, ms, m - 1) = Len(s) /\ EndsAt(flow, ms, m) = Len(t)
        BY <2>1, <2>6, <3>1
      <4>2. p - Len(s) \in 1 .. l + 1 /\ p \in 1 .. Len(s) + (l + 1) /\ ~(p <= Len(s))
        BY <2>2, <2>6, <2>7, <4>1
      <4> QED BY <2>3, <2>7, <3>1, <4>1, <4>2
    <3>2. CASE m # n + 1
      <4>1. m \in 1 .. n
        BY <3>2
      <4>2. s[p] = [flow |-> flow, n |-> m, offset |-> p - EndsAt(flow, ms, m - 1)]
        BY <2>10, <4>1 DEF Placed
      <4>3. EndsAt(flow, ms, m) <= Len(s) /\ EndsAt(flow, ms, m) \in Nat /\ EndsAt(flow, ms, m - 1) \in Nat
        <5>1. m \in 0 .. n /\ m - 1 \in 0 .. n
          BY <4>1
        <5> QED BY <5>1, <2>6, <2>11
      <4>4. p \in 1 .. Len(s)
        BY <2>6, <4>3
      <4> QED BY <2>2, <2>6, <2>7, <4>2, <4>4
    <3> QED BY <3>1, <3>2
  <2>15. Placed(t, flow, ms, n + 1)
    BY <2>7, <2>12, <2>13, <2>14 DEF Placed
  <2> QED BY <2>1, <2>8, <2>9, <2>15 DEF t, l
<1> HIDE DEF A
<1>3. \A n \in Nat : n \in A
  BY <1>1, <1>2, NatBySets
<1>4. \A n \in 0 .. N : n \in Nat /\ n <= N
  OBVIOUS
<1> QED BY <1>3, <1>4 DEF A

LEMMA EndsInOrder ==
  ASSUME NEW flow \in Flows, NEW ms, NEW N \in Nat, NEW most \in Nat, Lengths(ms, N, most)
  PROVE  \A j \in 0 .. N : \A i \in 0 .. j : EndsAt(flow, ms, i) <= EndsAt(flow, ms, j)
<1> TAKE j \in 0 .. N
<1>1. Placed(UpTo(flow, ms, j), flow, ms, j)
  BY StreamIsPlaced
<1> QED BY <1>1 DEF Placed, EndsAt

\* A message is the cells from its header on.
LEMMA MessageCells ==
  ASSUME NEW flow \in Flows, NEW ms, NEW N \in Nat, NEW most \in Nat, Lengths(ms, N, most),
         NEW s, s = UpTo(flow, ms, N),
         NEW p \in 1 .. Len(s), s[p].offset = 1, NEW m, m = s[p].n
  PROVE  /\ s[p].flow = flow /\ m \in 1 .. N
         /\ p = EndsAt(flow, ms, m - 1) + 1
         /\ EndsAt(flow, ms, m) = p + ms[m].length
         /\ EndsAt(flow, ms, m) <= Len(s)
         /\ SubSeq(s, p, EndsAt(flow, ms, m)) = CellsIn(flow, ms, m)
         /\ CellsIn(flow, ms, m)[1] = [flow |-> flow, n |-> m, offset |-> 1]
<1> DEFINE E(k) == EndsAt(flow, ms, k)
           l == ms[m].length
<1>1. Placed(s, flow, ms, N)
  BY StreamIsPlaced
<1>2. /\ s \in Seq(Cells) /\ Len(s) \in Nat
      /\ \A i \in 1 .. Len(s) : s[i] \in Cells
      /\ s[p].flow = flow /\ m \in 1 .. N /\ p = E(m - 1) + s[p].offset
      /\ E(m) \in 0 .. Len(s) /\ E(m - 1) \in 0 .. Len(s)
      /\ \A i \in E(m - 1) + 1 .. E(m) :
           s[i] = [flow |-> flow, n |-> m, offset |-> i - E(m - 1)]
  BY <1>1, LenProperties, ElementOfSeq DEF Placed
<1>3. l \in 1 .. most /\ E(m) = E(m - 1) + l + 1
  <2>1. m \in 0 .. N /\ m # 0
    BY <1>2
  <2>2. l \in 1 .. most
    BY <1>2 DEF Lengths
  <2>3. E(m) = E(m - 1) + ms[m].length + 1
    BY <2>1, StreamIsPlaced
  <2> QED BY <2>2, <2>3
<1>4. /\ CellsIn(flow, ms, m) \in Seq(Cells)
      /\ Len(CellsIn(flow, ms, m)) = l + 1
      /\ \A j \in 1 .. l + 1 :
           CellsIn(flow, ms, m)[j] = [flow |-> flow, n |-> m, offset |-> j]
  <2>1. m \in Nat /\ l \in Nat
    BY <1>2, <1>3
  <2> QED BY <2>1, CellsOfAMessage
<1> DEFINE c == CellsIn(flow, ms, m)
           e == E(m)
           b == E(m - 1)
<1>5. /\ p = b + 1 /\ e = p + l /\ e \in Nat /\ b \in Nat /\ l \in Nat /\ e <= Len(s)
      /\ \A i \in p .. e : s[i] = [flow |-> flow, n |-> m, offset |-> i - b]
      /\ c \in Seq(Cells) /\ Len(c) = l + 1
      /\ \A j \in 1 .. l + 1 : c[j] = [flow |-> flow, n |-> m, offset |-> j]
  <2>1. l \in Nat /\ e \in Nat /\ b \in Nat /\ e <= Len(s)
    BY <1>2, <1>3
  <2>2. b + 1 .. e = p .. e /\ p = b + 1 /\ e = p + l
    <3>1. p = b + 1
      BY <1>2
    <3> QED BY <1>3, <2>1, <3>1
  <2>3. \A i \in p .. e : s[i] = [flow |-> flow, n |-> m, offset |-> i - b]
    BY <1>2, <2>2
  <2> QED BY <1>4, <2>1, <2>2, <2>3
<1> HIDE DEF c, e, b, l, E
<1>6. SubSeq(s, p, e) = c
  <2>1. p \in Int /\ e \in Int /\ \A i \in p .. e : s[i] \in Cells
    BY <1>2, <1>5
  <2>2. /\ SubSeq(s, p, e) \in Seq(Cells)
        /\ Len(SubSeq(s, p, e)) = IF p <= e THEN e - p + 1 ELSE 0
        /\ \A i \in 1 .. e - p + 1 : SubSeq(s, p, e)[i] = s[p + i - 1]
    BY <2>1, SubSeqProperties
  <2>3. Len(SubSeq(s, p, e)) = l + 1 /\ e - p + 1 = l + 1
    BY <1>5, <2>2
  <2>4. ASSUME NEW i \in 1 .. l + 1 PROVE SubSeq(s, p, e)[i] = c[i]
    <3>1. p + i - 1 \in p .. e /\ (p + i - 1) - b = i
      BY <1>5
    <3>2. SubSeq(s, p, e)[i] = s[p + i - 1]
      BY <2>2, <2>3
    <3>3. s[p + i - 1] = [flow |-> flow, n |-> m, offset |-> i]
      BY <1>5, <3>1
    <3> QED BY <1>5, <3>2, <3>3
  <2> QED BY <1>5, <2>2, <2>3, <2>4, SeqEqual
<1>7. c[1] = [flow |-> flow, n |-> m, offset |-> 1]
  BY <1>5
<1> QED BY <1>2, <1>5, <1>6, <1>7 DEF c, e, b, l, E

-----------------------------------------------------------------------------
Part(s, a, l) == SubSeq(s, a + 1, a + l)

\* cells are those of s behind the first a.
Stretch(cells, s, a) ==
  /\ a \in Nat /\ a + Len(cells) <= Len(s)
  /\ cells = SubSeq(s, a + 1, a + Len(cells))

LEMMA StretchCells ==
  ASSUME NEW s \in Seq(Cells), NEW a \in Nat, NEW l \in Nat, a + l <= Len(s)
  PROVE  /\ SubSeq(s, a + 1, a + l) \in Seq(Cells)
         /\ Len(SubSeq(s, a + 1, a + l)) = l
         /\ \A i \in 1 .. l : SubSeq(s, a + 1, a + l)[i] = s[a + i]
<1> DEFINE m == a + 1
           n == a + l
<1>1. Len(s) \in Nat /\ \A i \in 1 .. Len(s) : s[i] \in Cells
  BY LenProperties, ElementOfSeq
<1>2. m \in Int /\ n \in Int /\ (\A i \in m .. n : i \in 1 .. Len(s)) /\ n - m + 1 = l
      /\ (~(m <= n) => l = 0) /\ \A i \in 1 .. l : m + i - 1 = a + i
  BY <1>1
<1> HIDE DEF m, n
<1>3. \A i \in m .. n : s[i] \in Cells
  BY <1>1, <1>2
<1>4. /\ SubSeq(s, m, n) \in Seq(Cells)
      /\ Len(SubSeq(s, m, n)) = IF m <= n THEN n - m + 1 ELSE 0
      /\ \A i \in 1 .. n - m + 1 : SubSeq(s, m, n)[i] = s[m + i - 1]
  BY <1>2, <1>3, SubSeqProperties
<1>5. /\ SubSeq(s, m, n) \in Seq(Cells)
      /\ Len(SubSeq(s, m, n)) = l
      /\ \A i \in 1 .. l : SubSeq(s, m, n)[i] = s[a + i]
  BY <1>2, <1>4
<1> QED BY <1>5 DEF m, n

LEMMA StretchIs ==
  ASSUME NEW s \in Seq(Cells), NEW cells, NEW a, Len(cells) \in Nat, Stretch(cells, s, a)
  PROVE  cells \in Seq(Cells) /\ \A i \in 1 .. Len(cells) : cells[i] = s[a + i]
<1> DEFINE n == Len(cells)
           t == SubSeq(s, a + 1, a + n)
<1>1. a \in Nat /\ n \in Nat /\ a + n <= Len(s) /\ cells = t
  BY DEF Stretch
<1> HIDE DEF n
<1>2. t \in Seq(Cells) /\ \A i \in 1 .. n : t[i] = s[a + i]
  BY <1>1, StretchCells
<1> HIDE DEF t
<1> QED BY <1>1, <1>2 DEF n

\* A part of a stretch is one itself.
LEMMA StretchOfStretch ==
  ASSUME NEW s \in Seq(Cells), NEW cells, NEW a, Len(cells) \in Nat, Stretch(cells, s, a),
         NEW b \in Nat, NEW l \in Nat, b + l <= Len(cells)
  PROVE  Part(cells, b, l) = Part(s, a + b, l)
<1>1. a \in Nat /\ a + Len(cells) <= Len(s)
  BY DEF Stretch
<1>2. cells \in Seq(Cells) /\ \A i \in 1 .. Len(cells) : cells[i] = s[a + i]
  BY StretchIs
<1>3. Len(s) \in Nat /\ a + b \in Nat /\ (a + b) + l <= Len(s)
  BY <1>1, LenProperties
<1> DEFINE c == SubSeq(cells, b + 1, b + l)
           t == SubSeq(s, (a + b) + 1, (a + b) + l)
<1>4. c \in Seq(Cells) /\ Len(c) = l /\ \A i \in 1 .. l : c[i] = cells[b + i]
  BY <1>2, StretchCells
<1>5. t \in Seq(Cells) /\ Len(t) = l /\ \A i \in 1 .. l : t[i] = s[(a + b) + i]
  BY <1>3, StretchCells
<1> HIDE DEF c, t
<1>6. ASSUME NEW i \in 1 .. l PROVE c[i] = t[i]
  <2>1. b + i \in 1 .. Len(cells) /\ a + (b + i) = (a + b) + i
    BY <1>1
  <2>2. cells[b + i] = s[a + (b + i)]
    BY <1>2, <2>1
  <2> QED BY <1>4, <1>5, <2>1, <2>2
<1>7. c = t
  BY <1>4, <1>5, <1>6, SeqEqual
<1> QED BY <1>7 DEF c, t, Part

\* What was joined is a stretch of what was written in a direction.
Reading(stream, flow, most, a) ==
  /\ flow \in Flows /\ Len(messages[flow]) \in Nat /\ most \in Nat
  /\ Lengths(messages[flow], Len(messages[flow]), most)
  /\ Len(stream.bytes) \in Nat
  /\ Stretch(stream.bytes, UpTo(flow, messages[flow], Len(messages[flow])), a)

\* The header at an offset is one of message m, and the message is there.
Framed(stream, flow, a, o, m) ==
  /\ m \in 1 .. Len(messages[flow]) /\ HeaderAt(stream, o).flow = flow
  /\ a + o = EndsAt(flow, messages[flow], m - 1)
  /\ EndAt(stream, o) \in o + 1 .. Len(stream.bytes)
  /\ a + EndAt(stream, o) = EndsAt(flow, messages[flow], m)
  /\ SubSeq(stream.bytes, o + 1, EndAt(stream, o)) = CellsIn(flow, messages[flow], m)
  /\ CellsIn(flow, messages[flow], m)[1] = [flow |-> flow, n |-> m, offset |-> 1]

\* What is read at a header is the message it is the header of.
LEMMA FramedMessage ==
  ASSUME NEW stream, NEW flow, NEW most, NEW a, Reading(stream, flow, most, a),
         NEW o \in 0 .. Len(stream.bytes), IsFramed(stream, o)
  PROVE  Framed(stream, flow, a, o, HeaderAt(stream, o).n)
<1> DEFINE ms == messages[flow]
           N == Len(ms)
           s == UpTo(flow, ms, N)
           c == stream.bytes
           p == a + (o + 1)
           m == HeaderAt(stream, o).n
<1>0. /\ flow \in Flows /\ N \in Nat /\ most \in Nat /\ Lengths(ms, N, most)
      /\ Len(c) \in Nat /\ Stretch(c, s, a)
  BY DEF Reading
<1> HIDE DEF N
<1>1. Placed(s, flow, ms, N)
  <2>1. N \in 0 .. N
    BY <1>0
  <2> HIDE DEF ms
  <2> QED BY <1>0, <2>1, StreamIsPlaced
<1>2. s \in Seq(Cells) /\ Len(s) \in Nat
  BY <1>1, LenProperties DEF Placed
<1>3. a \in Nat /\ a + Len(c) <= Len(s)
  BY <1>0 DEF Stretch
<1>4. o + 1 \in 1 .. Len(c) /\ c[o + 1].offset = 1 /\ EndAt(stream, o) <= Len(c)
      /\ HeaderAt(stream, o) = c[o + 1]
  BY DEF IsFramed, HeaderAt
<1>5. \A i \in 1 .. Len(c) : c[i] = s[a + i]
  <2>1. Stretch(c, s, a) /\ Len(c) \in Nat
    BY <1>0
  <2> HIDE DEF s, c
  <2> QED BY <1>2, <2>1, StretchIs
<1>6. p \in 1 .. Len(s) /\ c[o + 1] = s[p] /\ s[p].offset = 1 /\ m = s[p].n
  BY <1>2, <1>3, <1>4, <1>5
<1>7. /\ s[p].flow = flow /\ m \in 1 .. N
      /\ p = EndsAt(flow, ms, m - 1) + 1
      /\ EndsAt(flow, ms, m) = p + ms[m].length
      /\ EndsAt(flow, ms, m) <= Len(s)
      /\ SubSeq(s, p, EndsAt(flow, ms, m)) = CellsIn(flow, ms, m)
      /\ CellsIn(flow, ms, m)[1] = [flow |-> flow, n |-> m, offset |-> 1]
  <2>1. s = UpTo(flow, ms, N)
    OBVIOUS
  <2> HIDE DEF s, p, ms, m
  <2> QED BY <1>0, <1>6, <2>1, MessageCells
<1>8. EndAt(stream, o) = o + 1 + ms[m].length
  BY <1>4, <1>6, <1>7 DEF EndAt, MessageAt
<1> DEFINE l == ms[m].length
<1>9. l \in 1 .. most
  BY <1>0, <1>7 DEF Lengths
<1>10. EndsAt(flow, ms, m - 1) \in Nat
  <2>1. m - 1 \in 0 .. N
    BY <1>0, <1>7
  <2> HIDE DEF ms, m
  <2> QED BY <1>0, <2>1, StreamIsPlaced
<1> HIDE DEF l
<1>11. EndAt(stream, o) = o + (1 + l) /\ l \in Nat /\ o \in Nat /\ Len(c) \in Nat
  BY <1>0, <1>8, <1>9 DEF l
<1>12. SubSeq(c, o + 1, EndAt(stream, o)) = SubSeq(s, p, EndsAt(flow, ms, m))
  <2>1. Stretch(c, s, a) /\ Len(c) \in Nat
    BY <1>0
  <2>2. p = EndsAt(flow, ms, m - 1) + 1 /\ EndsAt(flow, ms, m) = p + l
    BY <1>7 DEF l
  <2> DEFINE k == 1 + l
  <2> HIDE DEF s, c, ms
  <2>3. k \in Nat /\ o + k <= Len(c) /\ EndAt(stream, o) = o + k
    BY <1>4, <1>11
  <2>5. a + o + 1 = p /\ a + o + k = EndsAt(flow, ms, m)
    BY <1>3, <1>11, <2>2
  <2> HIDE DEF k
  <2>6. Part(c, o, k) = Part(s, a + o, k)
    BY <1>2, <1>11, <2>1, <2>3, StretchOfStretch
  <2>4. SubSeq(c, o + 1, o + k) = SubSeq(s, a + o + 1, a + o + k)
    BY <2>6 DEF Part
  <2> QED BY <2>3, <2>4, <2>5
<1>13. SubSeq(c, o + 1, EndAt(stream, o)) = CellsIn(flow, ms, m)
  BY <1>7, <1>12
<1>14. /\ a + o = EndsAt(flow, ms, m - 1)
       /\ EndAt(stream, o) \in o + 1 .. Len(c)
       /\ a + EndAt(stream, o) = EndsAt(flow, ms, m)
  <2> HIDE DEF s, c, ms
  <2>1. p = EndsAt(flow, ms, m - 1) + 1 /\ EndAt(stream, o) = o + 1 + l /\ EndAt(stream, o) <= Len(c)
    BY <1>4, <1>7, <1>8 DEF l
  <2>2. EndsAt(flow, ms, m) = p + l
    BY <1>7 DEF l
  <2> QED BY <1>3, <1>9, <1>10, <2>1, <2>2
<1> QED BY <1>4, <1>6, <1>7, <1>13, <1>14 DEF Framed, N

-----------------------------------------------------------------------------
(***************************************************************************)
(* ReadMessages, a recursive function from one offset to a later one.      *)
(***************************************************************************)
\* What the function is at an offset, by what it is at later ones.
ReadOn(f, stream, offset) ==
  IF IsFramed(stream, offset)
    THEN ReadAt(stream, offset) \o f[EndAt(stream, offset)] ELSE <<>>

\* Every message ends behind its header.
MovesOn(stream) ==
  /\ Len(stream.bytes) \in Nat
  /\ \A o \in 0 .. Len(stream.bytes) :
       IsFramed(stream, o) => EndAt(stream, o) \in o + 1 .. Len(stream.bytes)

LEMMA ReadingBackExists ==
  ASSUME NEW stream, MovesOn(stream)
  PROVE  \E f : f = [o \in 0 .. Len(stream.bytes) |-> ReadOn(f, stream, o)]
<1> DEFINE L == Len(stream.bytes)
           Is(f, k) == f = [o \in L - k .. L |-> ReadOn(f, stream, o)]
           A == {k \in Nat : k <= L => \E f : Is(f, k)}
<1>1. L \in Nat
  BY DEF MovesOn
<1>2. \A o \in 0 .. L : IsFramed(stream, o) => EndAt(stream, o) \in o + 1 .. L
  BY DEF MovesOn
<1> HIDE DEF L
<1>3. 0 \in A
  <2> DEFINE f == [o \in L .. L |-> <<>>]
  <2>1. ~IsFramed(stream, L)
    <3>1. L \in 0 .. L /\ L + 1 .. L = {}
      BY <1>1
    <3> QED BY <1>2, <3>1
  <2>2. \A o \in L .. L : ReadOn(f, stream, o) = <<>>
    <3>1. \A o \in L .. L : o = L
      BY <1>1
    <3> QED BY <2>1, <3>1 DEF ReadOn
  <2>3. L - 0 = L
    BY <1>1
  <2>4. f = [o \in L .. L |-> ReadOn(f, stream, o)]
    BY <2>2
  <2> HIDE DEF f
  <2>5. Is(f, 0)
    BY <2>3, <2>4
  <2> QED BY <2>5
<1>4. ASSUME NEW k \in Nat, k \in A PROVE k + 1 \in A
  <2>1. SUFFICES ASSUME k + 1 <= L PROVE \E f : Is(f, k + 1)
    OBVIOUS
  <2>2. k <= L
    BY <1>1, <2>1
  <2>3. PICK f : Is(f, k)
    BY <1>4, <2>2
  <2> DEFINE b == L - (k + 1)
             next == ReadOn(f, stream, b)
             g == [o \in b .. L |-> IF o = b THEN next ELSE f[o]]
  <2>4. b \in Nat /\ b \in 0 .. L /\ b + 1 = L - k /\ b \in b .. L
    BY <1>1, <2>1
  <2>5. \A o \in L - k .. L : f[o] = ReadOn(f, stream, o)
    BY <2>3
  <2>6. next = ReadOn(f, stream, b)
    OBVIOUS
  <2> HIDE DEF next, b
  <2>7. /\ g[b] = next
        /\ \A o \in b + 1 .. L : g[o] = f[o]
        /\ g = [o \in b .. L |-> g[o]]
    BY <1>1, <2>4
  <2> HIDE DEF g
  <2>8. ASSUME NEW o \in b .. L PROVE ReadOn(g, stream, o) = ReadOn(f, stream, o)
    <3>1. CASE IsFramed(stream, o)
      <4>1. EndAt(stream, o) \in o + 1 .. L
        BY <1>2, <2>4, <3>1
      <4>2. EndAt(stream, o) \in b + 1 .. L
        BY <1>1, <2>4, <4>1
      <4> QED BY <2>7, <4>2 DEF ReadOn
    <3>2. CASE ~IsFramed(stream, o)
      BY <3>2 DEF ReadOn
    <3> QED BY <3>1, <3>2
  <2>9. ASSUME NEW o \in b .. L PROVE g[o] = ReadOn(g, stream, o)
    <3>1. CASE o = b
      BY <2>6, <2>7, <2>8, <3>1
    <3>2. CASE o # b
      <4>1. o \in b + 1 .. L /\ o \in L - k .. L
        BY <1>1, <2>4, <3>2
      <4> QED BY <2>5, <2>7, <2>8, <4>1
    <3> QED BY <3>1, <3>2
  <2>10. g = [o \in b .. L |-> ReadOn(g, stream, o)]
    BY <2>7, <2>9
  <2>11. Is(g, k + 1)
    BY <2>10 DEF b
  <2> QED BY <2>11
<1> HIDE DEF A
<1>5. L \in A
  BY <1>1, <1>3, <1>4, NatBySets
<1>6. PICK f : Is(f, L)
  BY <1>1, <1>5 DEF A
<1>7. L - L = 0
  BY <1>1
<1> QED BY <1>6, <1>7 DEF L

\* The messages of read are whole messages of a direction that begin behind the
\* first a cells, each once and in order.
Faithful(read, flow, a) ==
  /\ \A k \in 1 .. Len(read) :
       /\ read[k].cells[1].flow = flow
       /\ read[k].cells[1].n \in 1 .. Len(messages[flow])
       /\ read[k].cells = CellsIn(flow, messages[flow], read[k].cells[1].n)
       /\ a <= EndsAt(flow, messages[flow], read[k].cells[1].n - 1)
  /\ \A j, k \in 1 .. Len(read) : j < k => read[j].cells[1].n < read[k].cells[1].n

LEMMA ReadIsFaithful ==
  ASSUME NEW stream, NEW flow, NEW most, NEW a, Reading(stream, flow, most, a)
  PROVE  /\ \E T : ReadMessages(stream) \in Seq(T)
         /\ Faithful(ReadMessages(stream), flow, a)
<1> DEFINE ms == messages[flow]
           N == Len(ms)
           L == Len(stream.bytes)
           Read(o) == [at |-> ArrivalOf(stream, o),
                       cells |-> SubSeq(stream.bytes, o + 1, EndAt(stream, o))]
           T == {Read(o) : o \in 0 .. L}
           r == CHOOSE f : f = [o \in 0 .. Len(stream.bytes) |-> ReadOn(f, stream, o)]
           n(o) == HeaderAt(stream, o).n
           E(i) == EndsAt(flow, ms, i)
<1>0. /\ flow \in Flows /\ N \in Nat /\ most \in Nat /\ Lengths(ms, N, most)
      /\ L \in Nat /\ a \in Nat
  BY DEF Reading, Stretch
<1>1. ASSUME NEW o \in 0 .. L, IsFramed(stream, o)
      PROVE  /\ n(o) \in 1 .. N /\ a + o = E(n(o) - 1)
             /\ EndAt(stream, o) \in o + 1 .. L
             /\ a + EndAt(stream, o) = E(n(o))
             /\ Read(o).cells = CellsIn(flow, ms, n(o))
             /\ Read(o).cells[1].flow = flow /\ Read(o).cells[1].n = n(o)
  <2>1. Framed(stream, flow, a, o, n(o))
    BY <1>1, FramedMessage
  <2> DEFINE m == n(o)
             c == SubSeq(stream.bytes, o + 1, EndAt(stream, o))
  <2>2. /\ m \in 1 .. N
        /\ a + o = E(m - 1)
        /\ EndAt(stream, o) \in o + 1 .. L
        /\ a + EndAt(stream, o) = E(m)
        /\ c = CellsIn(flow, ms, m)
        /\ CellsIn(flow, ms, m)[1] = [flow |-> flow, n |-> m, offset |-> 1]
    BY <2>1 DEF Framed
  <2>3. Read(o).cells = c
    OBVIOUS
  <2> HIDE DEF c, E, Read, ms, m
  <2>4. c[1].flow = flow /\ c[1].n = m
    BY <2>2
  <2> QED BY <2>2, <2>3, <2>4 DEF m
<1>2. MovesOn(stream)
  BY <1>0, <1>1 DEF MovesOn
<1>3. \E f : f = [o \in 0 .. Len(stream.bytes) |-> ReadOn(f, stream, o)]
  BY <1>2, ReadingBackExists
<1>4. r = [o \in 0 .. Len(stream.bytes) |-> ReadOn(r, stream, o)]
  BY <1>3, Zenon
<1>5. ReadMessages(stream) = r[0]
  BY DEF ReadMessages, ReadOn
<1> HIDE DEF r
<1>6. \A o \in 0 .. L : r[o] = ReadOn(r, stream, o)
  BY <1>4
<1>7. \A o \in 0 .. L : IsFramed(stream, o) =>
        /\ ReadAt(stream, o) \in Seq(T)
        /\ Len(ReadAt(stream, o)) \in {0, 1}
        /\ Len(ReadAt(stream, o)) = 1 => ReadAt(stream, o)[1] = Read(o)
  <2> TAKE o \in 0 .. L
  <2>1. Read(o) \in T
    OBVIOUS
  <2> DEFINE x == Read(o)
  <2>2. ReadAt(stream, o) \in {<<>>, <<x>>}
    BY DEF ReadAt
  <2> HIDE DEF x, T
  <2>5. x \in T
    BY <2>1 DEF x
  <2>3. <<>> \in Seq(T) /\ <<x>> \in Seq(T) /\ Len(<<>>) = 0 /\ Len(<<x>>) = 1 /\ <<x>>[1] = x
    BY <2>5
  <2>4. ReadAt(stream, o) = <<>> \/ ReadAt(stream, o) = <<x>>
    BY <2>2
  <2>6. /\ ReadAt(stream, o) \in Seq(T)
        /\ Len(ReadAt(stream, o)) \in {0, 1}
        /\ Len(ReadAt(stream, o)) = 1 => ReadAt(stream, o)[1] = x
    <3>1. CASE ReadAt(stream, o) = <<>>
      BY <2>3, <3>1
    <3>2. CASE ReadAt(stream, o) = <<x>>
      BY <2>3, <3>2
    <3> QED BY <2>4, <3>1, <3>2
  <2> HIDE DEF Read
  <2> QED BY <2>6 DEF x
<1> DEFINE P(o) == r[o] \in Seq(T) /\ Faithful(r[o], flow, a + o)
           A == {k \in Nat : k <= L => \A o \in L - k .. L : P(o)}
<1>8. P(L)
  <2>1. ~IsFramed(stream, L)
    <3>1. L \in 0 .. L /\ L + 1 .. L = {}
      BY <1>0
    <3> QED BY <1>1, <3>1
  <2>2. r[L] = <<>>
    BY <1>0, <1>6, <2>1 DEF ReadOn
  <2>3. <<>> \in Seq(T) /\ Len(<<>>) = 0 /\ 1 .. 0 = {}
    BY EmptySeq
  <2> QED BY <2>2, <2>3 DEF Faithful
<1>9. ASSUME NEW o \in 0 .. L, \A e \in o + 1 .. L : P(e) PROVE P(o)
  <2>1. CASE ~IsFramed(stream, o)
    <3>1. r[o] = <<>>
      BY <1>6, <2>1 DEF ReadOn
    <3>2. <<>> \in Seq(T) /\ Len(<<>>) = 0 /\ 1 .. 0 = {}
      BY EmptySeq
    <3> QED BY <3>1, <3>2 DEF Faithful
  <2>2. CASE IsFramed(stream, o)
    <3> DEFINE e == EndAt(stream, o)
               h == ReadAt(stream, o)
               t == r[e]
               m == n(o)
               x == Read(o)
    <3>1. /\ m \in 1 .. N /\ a + o = E(m - 1) /\ e \in o + 1 .. L /\ a + e = E(m)
          /\ x.cells = CellsIn(flow, ms, m) /\ x.cells[1].flow = flow /\ x.cells[1].n = m
      BY <1>1, <2>2
    <3>2. h \in Seq(T) /\ Len(h) \in {0, 1} /\ (Len(h) = 1 => h[1] = x)
      BY <1>7, <2>2
    <3>3. t \in Seq(T) /\ Faithful(t, flow, a + e)
      BY <1>9, <3>1
    <3>4. r[o] = h \o t
      BY <1>6, <2>2 DEF ReadOn
    <3> HIDE DEF e, h, t, m, x, T, P, ms
    <3>5. /\ r[o] \in Seq(T) /\ Len(r[o]) = Len(h) + Len(t)
          /\ \A i \in 1 .. Len(h) + Len(t) : r[o][i] = IF i <= Len(h) THEN h[i] ELSE t[i - Len(h)]
      BY <3>2, <3>3, <3>4, ConcatProperties
    <3>6. Len(t) \in Nat
      BY <3>3, LenProperties
    <3>7. ASSUME NEW i \in 1 .. Len(t)
          PROVE  /\ t[i].cells[1].flow = flow
                 /\ t[i].cells[1].n \in 1 .. N
                 /\ t[i].cells = CellsIn(flow, ms, t[i].cells[1].n)
                 /\ a + e <= E(t[i].cells[1].n - 1)
                 /\ m < t[i].cells[1].n
                 /\ a + o <= E(t[i].cells[1].n - 1)
      <4> DEFINE d == t[i].cells[1].n
      <4>1. /\ t[i].cells[1].flow = flow
            /\ d \in 1 .. N
            /\ t[i].cells = CellsIn(flow, ms, d)
            /\ a + e <= E(d - 1)
        BY <3>3 DEF Faithful, ms
      <4> HIDE DEF d
      <4>2. E(m) <= E(d - 1)
        BY <3>1, <4>1
      <4>3. d - 1 \in 0 .. N /\ m \in 0 .. N /\ m - 1 \in 0 .. N /\ d \in 0 .. N /\ m # 0
        BY <1>0, <3>1, <4>1
      <4>4. E(m) \in Nat /\ E(m - 1) \in Nat /\ E(d - 1) \in Nat
        BY <1>0, <4>3, StreamIsPlaced
      <4>5. E(m - 1) < E(m)
        BY <1>0, <3>1, <4>4
      <4>6. d <= m => E(d - 1) <= E(m - 1)
        <5>1. d <= m => d - 1 \in 0 .. m - 1
          BY <1>0, <4>1, <4>3
        <5> QED BY <1>0, <4>3, <5>1, EndsInOrder
      <4>7. m < d
        BY <4>1, <3>1, <4>2, <4>4, <4>5, <4>6
      <4>8. a + o <= E(d - 1)
        BY <1>0, <3>1, <4>1, <4>4
      <4> QED BY <4>1, <4>7, <4>8 DEF d
    <3>8. ASSUME NEW i \in 1 .. Len(r[o])
          PROVE  \/ Len(h) = 1 /\ i = 1 /\ r[o][i] = x
                 \/ i - Len(h) \in 1 .. Len(t) /\ r[o][i] = t[i - Len(h)]
      BY <3>2, <3>5, <3>6
    <3>9. ASSUME NEW i \in 1 .. Len(r[o])
          PROVE  /\ r[o][i].cells[1].flow = flow
                 /\ r[o][i].cells[1].n \in 1 .. N
                 /\ r[o][i].cells = CellsIn(flow, ms, r[o][i].cells[1].n)
                 /\ a + o <= E(r[o][i].cells[1].n - 1)
      <4>1. CASE Len(h) = 1 /\ i = 1 /\ r[o][i] = x
        <5>1. a + o <= E(m - 1)
          BY <1>0, <3>1
        <5> QED BY <3>1, <4>1, <5>1
      <4>2. CASE i - Len(h) \in 1 .. Len(t) /\ r[o][i] = t[i - Len(h)]
        BY <3>7, <4>2
      <4> QED BY <3>8, <4>1, <4>2
    <3>10. ASSUME NEW i \in 1 .. Len(r[o]), NEW j \in 1 .. Len(r[o]), i < j
           PROVE  r[o][i].cells[1].n < r[o][j].cells[1].n
      <4>1. CASE i - Len(h) \in 1 .. Len(t) /\ r[o][i] = t[i - Len(h)]
        <5>1. j - Len(h) \in 1 .. Len(t) /\ r[o][j] = t[j - Len(h)] /\ i - Len(h) < j - Len(h)
          BY <3>2, <3>6, <3>8, <3>10, <4>1
        <5> QED BY <3>3, <4>1, <5>1 DEF Faithful
      <4>2. CASE Len(h) = 1 /\ i = 1 /\ r[o][i] = x
        <5>1. j - Len(h) \in 1 .. Len(t) /\ r[o][j] = t[j - Len(h)]
          BY <3>8, <3>10, <4>2
        <5> QED BY <3>1, <3>7, <4>2, <5>1
      <4> QED BY <3>8, <4>1, <4>2
    <3>11. Faithful(r[o], flow, a + o)
      BY <3>9, <3>10 DEF Faithful, ms
    <3> QED BY <3>5, <3>11 DEF P
  <2> QED BY <2>1, <2>2
<1> HIDE DEF P
<1>10. 0 \in A
  <2>1. \A o \in L - 0 .. L : o = L
    BY <1>0
  <2> QED BY <1>8, <2>1
<1>11. ASSUME NEW k \in Nat, k \in A PROVE k + 1 \in A
  <2>1. SUFFICES ASSUME k + 1 <= L, NEW o \in L - (k + 1) .. L PROVE P(o)
    OBVIOUS
  <2>2. \A e \in L - k .. L : P(e)
    BY <1>0, <1>11, <2>1
  <2>3. o \in 0 .. L /\ \A e \in o + 1 .. L : e \in L - k .. L
    BY <1>0, <2>1
  <2> QED BY <1>9, <2>2, <2>3
<1> HIDE DEF A
<1>12. L \in A
  BY <1>0, <1>10, <1>11, NatBySets
<1>13. P(0)
  <2>1. L - L = 0 /\ 0 \in 0 .. L
    BY <1>0
  <2> QED BY <1>0, <1>12, <2>1 DEF A
<1>14. r[0] \in Seq(T) /\ Faithful(r[0], flow, a)
  <2>1. a + 0 = a
    BY <1>0
  <2> QED BY <1>13, <2>1 DEF P
<1> QED BY <1>5, <1>14

-----------------------------------------------------------------------------
(***************************************************************************)
(* JoinTcpStream.  Fewer cells are written than there are sequence         *)
(* numbers, so a segment that has the number that is expected continues    *)
(* what is there, in whatever order segments come.                         *)
(***************************************************************************)
LEMMA ProductOrder ==
  ASSUME NEW M \in Nat \ {0}, NEW p \in Nat, NEW q \in Nat, M * q < M * p + M
  PROVE  q <= p
<1>1. SUFFICES ASSUME q >= p + 1 PROVE FALSE
  OBVIOUS
<1>2. M * q >= M * (p + 1)
  BY <1>1
<1>3. M * (p + 1) = M * p + M
  OBVIOUS
<1> QED BY <1>2, <1>3

LEMMA Remainder ==
  ASSUME NEW M \in Nat \ {0}, NEW p \in Nat, NEW r \in 0 .. M - 1
  PROVE  (M * p + r) % M = r
<1> DEFINE x == M * p + r
           q == x \div M
           s == x % M
<1>1. x \in Nat
  OBVIOUS
<1>2. q \in Nat /\ s \in 0 .. M - 1 /\ x = M * q + s
  BY <1>1
<1>3. M * p \in Nat /\ M * q \in Nat /\ M * q + s = M * p + r
  BY <1>2
<1> HIDE DEF q, s, x
<1>4. M * q < M * p + M /\ M * p < M * q + M
  BY <1>2, <1>3
<1>5. p <= q /\ q <= p
  BY <1>2, <1>4, ProductOrder
<1>6. p = q
  BY <1>2, <1>5
<1>7. s = r
  BY <1>2, <1>3, <1>6
<1> QED BY <1>7 DEF s, x

LEMMA SequenceNumbers ==
  ASSUME NEW M \in Nat \ {0}, NEW x \in Nat
  PROVE  /\ x % M \in Nat
         /\ \A l \in Nat : ((x % M) + l) % M = (x + l) % M
         /\ \A y \in Nat : x % M = y % M /\ x < y + M /\ y < x + M => x = y
<1> DEFINE q == x \div M
           r == x % M
<1>1. q \in Nat /\ r \in 0 .. M - 1 /\ x = M * q + r
  OBVIOUS
<1>2. r \in Nat
  BY <1>1
<1>3. ASSUME NEW l \in Nat PROVE ((x % M) + l) % M = (x + l) % M
  <2> DEFINE p == (r + l) \div M
             s == (r + l) % M
  <2>1. r + l \in Nat
    BY <1>2
  <2>2. p \in Nat /\ s \in 0 .. M - 1 /\ r + l = M * p + s
    BY <2>1
  <2>3. s = (r + l) % M
    OBVIOUS
  <2> HIDE DEF q, r, p, s
  <2>4. x + l = M * q + M * p + s
    BY <1>1, <2>2
  <2>5. M * q + M * p = M * (q + p)
    BY <1>1, <2>2
  <2> DEFINE u == q + p
  <2>6. u \in Nat /\ x + l = M * u + s
    BY <1>1, <2>2, <2>4, <2>5
  <2> HIDE DEF u
  <2>7. (x + l) % M = s
    BY <2>2, <2>6, Remainder
  <2> QED BY <2>3, <2>7 DEF r
<1>4. ASSUME NEW y \in Nat, x % M = y % M, x < y + M, y < x + M PROVE x = y
  <2> DEFINE p == y \div M
             s == y % M
  <2>1. p \in Nat /\ s \in 0 .. M - 1 /\ y = M * p + s /\ s = r
    BY <1>4
  <2> HIDE DEF p, s, q, r
  <2>2. M * q < M * p + M /\ M * p < M * q + M
    BY <1>1, <1>4, <2>1
  <2>3. p <= q /\ q <= p
    BY <1>1, <2>1, <2>2, ProductOrder
  <2>4. p = q
    BY <1>1, <2>1, <2>3
  <2> QED BY <1>1, <2>1, <2>4
<1> QED BY <1>2, <1>3, <1>4

\* A packet with a segment of s, a stream that begins with the number f.
Carries(packet, s, f) ==
  /\ Len(packet.cells) \in Nat
  /\ \E from \in 0 .. Len(s) : /\ Stretch(packet.cells, s, from)
                               /\ packet.sequence = (f + from) % SequenceModulus

\* What is joined are cells of s without a gap; after them the next is expected.
ContinuesAt(stream, s, f, a) ==
  /\ Stretch(stream.bytes, s, a)
  /\ IF stream.expected = <<>> THEN stream.bytes = <<>>
       ELSE stream.expected[1] = (f + (a + Len(stream.bytes))) % SequenceModulus

Continues(stream, s, f) ==
  /\ stream = [bytes |-> stream.bytes, starts |-> stream.starts,
               expected |-> stream.expected, whole |-> stream.whole]
  /\ Len(stream.bytes) \in Nat
  /\ \E a : ContinuesAt(stream, s, f, a)

LEMMA WholeChanged ==
  ASSUME NEW b, NEW t, NEW e, NEW w, NEW v
  PROVE  [[bytes |-> b, starts |-> t, expected |-> e, whole |-> w] EXCEPT !.whole = v]
           = [bytes |-> b, starts |-> t, expected |-> e, whole |-> v]
OBVIOUS

\* Two stretches one behind the other are one.
LEMMA StretchesMeet ==
  ASSUME NEW s \in Seq(Cells), NEW c, NEW d, Len(c) \in Nat, Len(d) \in Nat, NEW a,
         Stretch(c, s, a), Stretch(d, s, a + Len(c))
  PROVE  Len(c \o d) = Len(c) + Len(d) /\ Stretch(c \o d, s, a)
<1> DEFINE k == Len(c)
           l == Len(d)
           m == a + 1
           e == a + k
           n == e + l
<1>1. Len(s) \in Nat
  BY LenProperties
<1>2. /\ a \in Nat /\ e <= Len(s) /\ n <= Len(s) /\ k \in Nat /\ l \in Nat
      /\ c = SubSeq(s, m, e) /\ d = SubSeq(s, e + 1, n)
  BY DEF Stretch
<1>3. c \in Seq(Cells) /\ d \in Seq(Cells)
  BY StretchIs
<1>4. m \in 1 .. Len(s) + 1 /\ e \in m - 1 .. Len(s) /\ n \in e .. Len(s) /\ n = a + (k + l)
  BY <1>1, <1>2
<1> HIDE DEF m, e, n
<1>5. SubSeq(s, m, e) \o SubSeq(s, e + 1, n) = SubSeq(s, m, n)
  BY <1>4, ConcatAdjacentSubSeq
<1>6. Len(c \o d) = k + l
  BY <1>3, ConcatProperties
<1>7. c \o d = SubSeq(s, m, n)
  BY <1>2, <1>5
<1> QED BY <1>2, <1>4, <1>6, <1>7 DEF Stretch, m

LEMMA ExtendContinues ==
  ASSUME SequenceModulus \in Nat \ {0}, NEW s \in Seq(Cells), NEW f \in Nat, NEW stream, NEW packet,
         Len(stream.bytes) \in Nat, Len(packet.cells) \in Nat,
         NEW a, Stretch(stream.bytes, s, a), Stretch(packet.cells, s, a + Len(stream.bytes)),
         packet.sequence = (f + (a + Len(stream.bytes))) % SequenceModulus
  PROVE  Continues(Extend(stream, packet), s, f)
<1> DEFINE c == stream.bytes
           d == packet.cells
           new == Extend(stream, packet)
           number == (packet.sequence + Len(d)) % SequenceModulus
           x == f + (a + Len(c))
<1>1. Len(c \o d) = Len(c) + Len(d) /\ Stretch(c \o d, s, a)
  BY StretchesMeet
<1>2. /\ new = [bytes |-> new.bytes, starts |-> new.starts,
                expected |-> new.expected, whole |-> new.whole]
      /\ new.bytes = c \o d /\ new.expected = <<number>>
  BY DEF Extend
<1>3. a \in Nat /\ Len(c) \in Nat /\ Len(d) \in Nat
  BY DEF Stretch
<1>4. x \in Nat /\ x + Len(d) = f + (a + (Len(c) + Len(d)))
  <2> HIDE DEF c, d
  <2> QED BY <1>3
<1>5. number = (f + (a + (Len(c) + Len(d)))) % SequenceModulus
  <2>1. number = ((x % SequenceModulus) + Len(d)) % SequenceModulus
    OBVIOUS
  <2> HIDE DEF number, x
  <2>2. ((x % SequenceModulus) + Len(d)) % SequenceModulus = (x + Len(d)) % SequenceModulus
    BY <1>3, <1>4, SequenceNumbers
  <2> QED BY <1>4, <2>1, <2>2
<1> HIDE DEF c, d, new, number
<1>6. new.expected # <<>> /\ new.expected[1] = number
  BY <1>2
<1>7. Len(new.bytes) \in Nat
  BY <1>1, <1>2, <1>3
<1>8. ContinuesAt(new, s, f, a)
  BY <1>1, <1>2, <1>5, <1>6 DEF ContinuesAt
<1>9. Continues(new, s, f)
  BY <1>2, <1>7, <1>8 DEF Continues
<1> QED BY <1>9 DEF new

LEMMA JoinContinues ==
  ASSUME SequenceModulus \in Nat \ {0}, NEW s \in Seq(Cells), Len(s) < SequenceModulus,
         NEW f \in Nat, NEW stream, NEW packet,
         Continues(stream, s, f), Carries(packet, s, f)
  PROVE  Continues(Join(stream, packet), s, f)
<1>1. Len(s) \in Nat
  BY LenProperties
<1>2. PICK a : ContinuesAt(stream, s, f, a)
  BY DEF Continues
<1>3. PICK from : /\ Stretch(packet.cells, s, from)
                  /\ packet.sequence = (f + from) % SequenceModulus
  BY DEF Carries
<1>4. /\ a \in Nat /\ a + Len(stream.bytes) <= Len(s) /\ Len(stream.bytes) \in Nat
      /\ from \in Nat /\ from + Len(packet.cells) <= Len(s) /\ Len(packet.cells) \in Nat
  BY <1>2, <1>3 DEF Continues, ContinuesAt, Carries, Stretch
<1>5. CASE stream.expected = <<>>
  <2>1. Join(stream, packet) = Extend(stream, packet)
    BY <1>5 DEF Join
  <2>2. stream.bytes = <<>> /\ Len(stream.bytes) = 0
    BY <1>2, <1>5 DEF ContinuesAt
  <2>3. Stretch(stream.bytes, s, from)
    <3>1. from + 1 \in Int /\ from + 0 \in Int /\ from + 0 < from + 1 /\ from + 0 <= Len(s)
      BY <1>4, <1>1
    <3>2. SubSeq(s, from + 1, from + 0) = <<>>
      BY <3>1, SubSeqEmpty
    <3> QED BY <1>4, <2>2, <3>1, <3>2 DEF Stretch
  <2>4. from + Len(stream.bytes) = from
    BY <1>4, <2>2
  <2>5. Continues(Extend(stream, packet), s, f)
    BY <1>3, <1>4, <2>3, <2>4, ExtendContinues
  <2> QED BY <2>1, <2>5
<1>6. CASE stream.expected # <<>> /\ Join(stream, packet) = Extend(stream, packet)
            /\ packet.sequence = stream.expected[1]
  <2> DEFINE x == f + (a + Len(stream.bytes))
             y == f + from
  <2>1. x % SequenceModulus = y % SequenceModulus
    BY <1>2, <1>3, <1>6 DEF ContinuesAt
  <2>2. x \in Nat /\ y \in Nat /\ x < y + SequenceModulus /\ y < x + SequenceModulus
    BY <1>1, <1>4
  <2> HIDE DEF x, y
  <2>3. x = y
    BY <2>1, <2>2, SequenceNumbers
  <2>4. from = a + Len(stream.bytes)
    BY <1>4, <2>3 DEF x, y
  <2>5. Stretch(stream.bytes, s, a)
    BY <1>2 DEF ContinuesAt
  <2>6. Continues(Extend(stream, packet), s, f)
    BY <1>3, <1>4, <2>4, <2>5, ExtendContinues
  <2> QED BY <1>6, <2>6
<1>7. CASE Join(stream, packet) = stream
  BY <1>7
<1>8. CASE Join(stream, packet) = [stream EXCEPT !.whole = FALSE]
  <2> DEFINE new == [stream EXCEPT !.whole = FALSE]
  <2>1. stream = [bytes |-> stream.bytes, starts |-> stream.starts,
                  expected |-> stream.expected, whole |-> stream.whole]
    BY DEF Continues
  <2> DEFINE b == stream.bytes
             t == stream.starts
             e == stream.expected
             w == stream.whole
             no == FALSE
  <2>2. stream = [bytes |-> b, starts |-> t, expected |-> e, whole |-> w]
    BY <2>1
  <2>3. new = [stream EXCEPT !.whole = no]
    OBVIOUS
  <2> HIDE DEF new, b, t, e, w, no
  <2>6. new = [bytes |-> b, starts |-> t, expected |-> e, whole |-> no]
    BY <2>2, <2>3, WholeChanged
  <2>7. /\ new = [bytes |-> new.bytes, starts |-> new.starts,
                  expected |-> new.expected, whole |-> new.whole]
        /\ new.bytes = stream.bytes /\ new.expected = stream.expected
    BY <2>6 DEF b, e
  <2>4. ContinuesAt(new, s, f, a)
    BY <1>2, <2>7 DEF ContinuesAt
  <2>5. Continues(new, s, f)
    BY <1>4, <2>7, <2>4 DEF Continues
  <2> QED BY <1>8, <2>5 DEF new
<1> QED BY <1>5, <1>6, <1>7, <1>8 DEF Join

\* The rounds of JoinTcpStream.
LEMMA JoinRounds ==
  ASSUME NEW segments, Len(segments) \in Nat
  PROVE  \E j : /\ j[0] = NothingJoined /\ JoinTcpStream(segments) = j[Len(segments)]
               /\ \A k \in 1 .. Len(segments) : j[k] = Join(j[k - 1], segments[k])
<1> DEFINE L == Len(segments)
           J(g, k) == IF k = 0 THEN NothingJoined ELSE Join(g[k - 1], segments[k])
           Is(g, n) == g = [k \in 0 .. n |-> J(g, k)]
           j == CHOOSE g : Is(g, L)
<1>1. JoinTcpStream(segments) = j[L]
  BY DEF JoinTcpStream
<1>2. \A n \in Nat : \E g : Is(g, n)
  <2> DEFINE A == {n \in Nat : \E g : Is(g, n)}
  <2>1. 0 \in A
    <3>1. Is([k \in 0 .. 0 |-> NothingJoined], 0)
      OBVIOUS
    <3> QED BY <3>1
  <2>2. ASSUME NEW n \in Nat, n \in A PROVE n + 1 \in A
    <3>1. PICK g : Is(g, n)
      BY <2>2
    <3> DEFINE next == Join(g[n], segments[n + 1])
               h == [k \in 0 .. (n + 1) |-> IF k = n + 1 THEN next ELSE g[k]]
    <3>2. \A k \in 0 .. n : g[k] = J(g, k)
      BY <3>1
    <3>3. next = Join(g[n], segments[n + 1])
      OBVIOUS
    <3> HIDE DEF next
    <3>4. /\ \A k \in 0 .. n : h[k] = g[k]
          /\ h[n + 1] = next
          /\ h = [k \in 0 .. (n + 1) |-> h[k]]
      OBVIOUS
    <3> HIDE DEF h
    <3>5. ASSUME NEW k \in 0 .. (n + 1) PROVE h[k] = J(h, k)
      <4>1. CASE k = n + 1
        <5>1. k - 1 = n /\ k - 1 \in 0 .. n /\ k # 0
          BY <4>1
        <5> QED BY <3>3, <3>4, <4>1, <5>1
      <4>2. CASE k # n + 1
        <5>1. k \in 0 .. n /\ (k # 0 => k - 1 \in 0 .. n)
          BY <4>2
        <5> QED BY <3>2, <3>4, <5>1
      <4> QED BY <4>1, <4>2
    <3> HIDE DEF J
    <3>6. Is(h, n + 1)
      BY <3>4, <3>5
    <3> QED BY <3>6
  <2> HIDE DEF A
  <2>3. \A n \in Nat : n \in A
    BY <2>1, <2>2, NatBySets
  <2> QED BY <2>3 DEF A
<1> HIDE DEF Is
<1>3. Is(j, L)
  <2>1. \E g : Is(g, L)
    BY <1>2
  <2> QED BY <2>1, Zenon
<1> HIDE DEF j
<1>4. \A k \in 0 .. L : j[k] = IF k = 0 THEN NothingJoined ELSE Join(j[k - 1], segments[k])
  BY <1>3 DEF Is
<1>5. j[0] = NothingJoined /\ \A k \in 1 .. L : j[k] = Join(j[k - 1], segments[k])
  BY <1>4
<1> QED BY <1>1, <1>5 DEF L

LEMMA JoinTcpStreamContinues ==
  ASSUME SequenceModulus \in Nat \ {0}, NEW s \in Seq(Cells), Len(s) < SequenceModulus,
         NEW f \in Nat, NEW segments, Len(segments) \in Nat,
         \A k \in 1 .. Len(segments) : Carries(segments[k], s, f)
  PROVE  Continues(JoinTcpStream(segments), s, f)
<1> DEFINE L == Len(segments)
<1>1. PICK j : /\ j[0] = NothingJoined /\ JoinTcpStream(segments) = j[L]
               /\ \A k \in 1 .. L : j[k] = Join(j[k - 1], segments[k])
  BY JoinRounds
<1>4. \A k \in 0 .. L : j[k] = IF k = 0 THEN NothingJoined ELSE Join(j[k - 1], segments[k])
  BY <1>1
<1> DEFINE A == {n \in Nat : n <= L => Continues(j[n], s, f)}
<1>5. 0 \in A
  <2>1. j[0] = NothingJoined
    BY <1>4
  <2>2. Stretch(<<>>, s, 0)
    <3>1. SubSeq(s, 0 + 1, 0 + 0) = <<>>
      BY SubSeqEmpty
    <3>2. Len(s) \in Nat /\ Len(<<>>) = 0
      BY LenProperties
    <3> QED BY <3>1, <3>2 DEF Stretch
  <2>3. ContinuesAt(NothingJoined, s, f, 0)
    BY <2>2 DEF ContinuesAt, NothingJoined
  <2>4. Continues(NothingJoined, s, f)
    <3>1. Len(NothingJoined.bytes) = 0
      BY DEF NothingJoined
    <3>2. NothingJoined = [bytes |-> NothingJoined.bytes, starts |-> NothingJoined.starts,
               expected |-> NothingJoined.expected, whole |-> NothingJoined.whole]
      BY DEF NothingJoined
    <3> QED BY <2>3, <3>1, <3>2 DEF Continues
  <2> QED BY <2>1, <2>4
<1>6. ASSUME NEW n \in Nat, n \in A PROVE n + 1 \in A
  <2>1. SUFFICES ASSUME n + 1 <= L PROVE Continues(j[n + 1], s, f)
    OBVIOUS
  <2>2. /\ n <= L /\ n + 1 \in 0 .. L /\ n + 1 # 0 /\ (n + 1) - 1 = n
        /\ n + 1 \in 1 .. L
    BY <2>1
  <2>3. j[n + 1] = Join(j[n], segments[n + 1])
    BY <1>4, <2>2
  <2>4. Continues(j[n], s, f) /\ Carries(segments[n + 1], s, f)
    BY <1>6, <2>2
  <2> QED BY <2>3, <2>4, JoinContinues
<1> HIDE DEF A
<1>7. L \in A
  BY <1>5, <1>6, NatBySets
<1> QED BY <1>1, <1>7 DEF A

-----------------------------------------------------------------------------
(***************************************************************************)
(* Sorting the packets of a direction: it holds them and nothing else.     *)
(***************************************************************************)
LEMMA SortedIsTyped ==
  ASSUME NEW T, NEW segments \in Seq(T), NEW packet \in T
  PROVE  Sorted(segments, packet) \in Seq(T)
<1> DEFINE L == Len(segments)
           before == {k \in DOMAIN segments : segments[k].sequence <= packet.sequence}
           c == Cardinality(before)
           j == c + 1
           front == SubSeq(segments, 1, j - 1)
           back == SubSeq(segments, j, L)
<1>1. L \in Nat /\ DOMAIN segments = 1 .. L /\ \A i \in 1 .. L : segments[i] \in T
  BY LenProperties, ElementOfSeq
<1>2. c \in 0 .. L
  <2>1. IsFiniteSet(1 .. L) /\ Cardinality(1 .. L) = L
    <3>1. 1 \in Int /\ L \in Int
      BY <1>1
    <3> HIDE DEF L
    <3>2. IsFiniteSet(1 .. L) /\ Cardinality(1 .. L) = IF 1 > L THEN 0 ELSE L - 1 + 1
      BY <3>1, FS_Interval
    <3> QED BY <1>1, <3>2
  <2>2. before \subseteq 1 .. L
    BY <1>1
  <2> HIDE DEF before
  <2>3. IsFiniteSet(before) /\ c <= L
    BY <2>1, <2>2, FS_Subset
  <2>4. c \in Nat
    BY <2>3, FS_CardinalityType
  <2> QED BY <1>1, <2>3, <2>4
<1> HIDE DEF c
<1>3. front \in Seq(T)
  <2>1. 1 \in Int /\ j - 1 \in Int /\ \A i \in 1 .. j - 1 : segments[i] \in T
    BY <1>1, <1>2
  <2> QED BY <2>1, SubSeqProperties
<1>4. back \in Seq(T)
  <2>1. j \in Int /\ L \in Int /\ \A i \in j .. L : segments[i] \in T
    BY <1>1, <1>2
  <2> QED BY <2>1, SubSeqProperties
<1>5. Sorted(segments, packet) = front \o <<packet>> \o back
  BY DEF Sorted, InsertAt, c
<1> HIDE DEF front, back
<1>6. <<packet>> \in Seq(T)
  OBVIOUS
<1>7. front \o <<packet>> \in Seq(T)
  BY <1>3, <1>6, ConcatProperties
<1>8. (front \o <<packet>>) \o back \in Seq(T)
  BY <1>4, <1>7, ConcatProperties
<1> QED BY <1>5, <1>8

Captured(k) == [sequence |-> packets[k].sequence, cells |-> packets[k].cells, at |-> k]

\* The rounds of sorting the packets of a direction.
LEMMA SortRounds ==
  ASSUME NEW flow, Len(packets) \in Nat
  PROVE  \E j : /\ j[0] = <<>> /\ FlowSegments(flow) = j[Len(packets)]
               /\ \A k \in 1 .. Len(packets) :
                    j[k] = IF packets[k].flow = flow THEN Sorted(j[k - 1], Captured(k)) ELSE j[k - 1]
<1> DEFINE L == Len(packets)
           J(g, k) == CASE k = 0 -> <<>>
                        [] k # 0 /\ packets[k].flow = flow -> Sorted(g[k - 1], Captured(k))
                        [] OTHER -> g[k - 1]
           Is(g, n) == g = [k \in 0 .. n |-> J(g, k)]
           j == CHOOSE g : Is(g, L)
<1>1. FlowSegments(flow) = j[L]
  BY DEF FlowSegments, Captured
<1>2. \A n \in Nat : \E g : Is(g, n)
  <2> DEFINE A == {n \in Nat : \E g : Is(g, n)}
  <2>1. 0 \in A
    <3> DEFINE g == [k \in 0 .. 0 |-> <<>>]
    <3>1. \A k \in 0 .. 0 : J(g, k) = <<>>
      OBVIOUS
    <3> HIDE DEF J
    <3>2. Is(g, 0)
      BY <3>1
    <3> QED BY <3>2
  <2>2. ASSUME NEW n \in Nat, n \in A PROVE n + 1 \in A
    <3>1. PICK g : Is(g, n)
      BY <2>2
    <3> DEFINE next == J(g, n + 1)
               h == [k \in 0 .. (n + 1) |-> IF k = n + 1 THEN next ELSE g[k]]
    <3>2. \A k \in 0 .. n : g[k] = J(g, k)
      BY <3>1
    <3>3. next = J(g, n + 1)
      OBVIOUS
    <3> HIDE DEF next
    <3>4. /\ \A k \in 0 .. n : h[k] = g[k]
          /\ h[n + 1] = next
          /\ h = [k \in 0 .. (n + 1) |-> h[k]]
      OBVIOUS
    <3> HIDE DEF h
    <3>5. ASSUME NEW k \in 0 .. (n + 1) PROVE J(h, k) = J(g, k)
      <4>1. k = 0 \/ k - 1 \in 0 .. n
        OBVIOUS
      <4>2. k = 0 \/ h[k - 1] = g[k - 1]
        BY <3>4, <4>1
      <4> QED BY <4>2
    <3>6. ASSUME NEW k \in 0 .. (n + 1) PROVE h[k] = J(h, k)
      <4> HIDE DEF J
      <4>1. CASE k = n + 1
        BY <3>3, <3>4, <3>5, <4>1
      <4>2. CASE k # n + 1
        <5>1. k \in 0 .. n
          BY <4>2
        <5> QED BY <3>2, <3>4, <3>5, <5>1
      <4> QED BY <4>1, <4>2
    <3> HIDE DEF J
    <3>7. Is(h, n + 1)
      BY <3>4, <3>6
    <3> QED BY <3>7
  <2> HIDE DEF A
  <2>3. \A n \in Nat : n \in A
    BY <2>1, <2>2, NatBySets
  <2> QED BY <2>3 DEF A
<1> HIDE DEF Is
<1>3. Is(j, L)
  <2>1. \E g : Is(g, L)
    BY <1>2
  <2> QED BY <2>1, Zenon
<1> HIDE DEF j
<1>4. \A k \in 0 .. L : j[k] = J(j, k)
  BY <1>3 DEF Is
<1>5. j[0] = <<>>
  <2>1. 0 \in 0 .. L
    OBVIOUS
  <2> QED BY <1>4, <2>1
<1>6. \A k \in 1 .. L : j[k] = IF packets[k].flow = flow THEN Sorted(j[k - 1], Captured(k)) ELSE j[k - 1]
  <2> TAKE k \in 1 .. L
  <2>1. k \in 0 .. L /\ k # 0
    OBVIOUS
  <2> QED BY <1>4, <2>1
<1> QED BY <1>1, <1>5, <1>6 DEF L

LEMMA FlowSegmentsAreCaptured ==
  ASSUME NEW flow, Len(packets) \in Nat
  PROVE  FlowSegments(flow) \in
           Seq({Captured(k) : k \in {i \in 1 .. Len(packets) : packets[i].flow = flow}})
<1> DEFINE L == Len(packets)
           T == {Captured(k) : k \in {i \in 1 .. L : packets[i].flow = flow}}
<1>1. PICK j : /\ j[0] = <<>> /\ FlowSegments(flow) = j[L]
               /\ \A k \in 1 .. L :
                    j[k] = IF packets[k].flow = flow THEN Sorted(j[k - 1], Captured(k)) ELSE j[k - 1]
  BY SortRounds
<1> DEFINE A == {n \in Nat : n <= L => j[n] \in Seq(T)}
<1>5. 0 \in A
  <2>1. 0 \in 0 .. L /\ <<>> \in Seq(T)
    OBVIOUS
  <2>2. j[0] = <<>>
    BY <1>1
  <2> HIDE DEF T
  <2> QED BY <2>1, <2>2
<1>6. ASSUME NEW n \in Nat, n \in A PROVE n + 1 \in A
  <2>1. SUFFICES ASSUME n + 1 <= L PROVE j[n + 1] \in Seq(T)
    OBVIOUS
  <2>2. /\ n <= L /\ n + 1 \in 0 .. L /\ n + 1 # 0 /\ (n + 1) - 1 = n
        /\ n + 1 \in 1 .. L
    BY <2>1
  <2>3. j[n] \in Seq(T)
    BY <1>6, <2>2
  <2>4. CASE packets[n + 1].flow = flow
    <3>1. j[n + 1] = Sorted(j[n], Captured(n + 1))
      BY <1>1, <2>2, <2>4
    <3>2. Captured(n + 1) \in T
      BY <2>2, <2>4
    <3> HIDE DEF T
    <3> QED BY <2>3, <3>1, <3>2, SortedIsTyped
  <2>5. CASE packets[n + 1].flow # flow
    <3>1. j[n + 1] = j[n]
      BY <1>1, <2>2, <2>5
    <3> QED BY <2>3, <3>1
  <2> QED BY <2>4, <2>5
<1> HIDE DEF A
<1>7. L \in A
  BY <1>5, <1>6, NatBySets
<1> QED BY <1>1, <1>7 DEF A

-----------------------------------------------------------------------------
(***************************************************************************)
(* The invariant: every packet carries a stretch of what was written, and  *)
(* that only grows.                                                        *)
(***************************************************************************)
Payloads ==
  Requests \union {<<>>} \union {PendingAnswer(r) : r \in Requests}
    \union UNION {FinalAnswers(r, Reports) : r \in Requests}

Messages ==
  [kind : {"diagnostic", "acknowledgement", "manufacturer"}, ecu : LogicalAddresses \union {0},
   bytes : Payloads, length : PayloadLengths \union {1}, asked : Nat]

Questions ==
  [kind : {"diagnostic"}, ecu : LogicalAddresses, bytes : Requests, length : PayloadLengths,
   asked : {0}]

Packets == [flow : Flows, sequence : Nat, cells : Seq(Cells)]

Entire(flow, ms) == UpTo(flow, ms, Len(ms))

FlowInv(flow, ms, went, f, ps) ==
  /\ went <= Len(Entire(flow, ms))
  /\ \A k \in 1 .. Len(ps) : ps[k].flow = flow => Carries(ps[k], Entire(flow, ms), f)

CaptureTypes ==
  /\ first \in [Flows -> Nat]
  /\ messages \in [Flows -> Seq(Messages)]
  /\ segmented \in [Flows -> Nat]
  /\ packets \in Seq(Packets)
  /\ messages["request"] \in Seq(Questions)
  /\ owed \subseteq 1 .. Len(messages["request"])

CaptureInv ==
  /\ CaptureTypes
  /\ Written <= MaxMessages
  /\ \A flow \in Flows :
       FlowInv(flow, messages[flow], segmented[flow], first[flow], packets)

\* The longest payload: a connection of such messages is shorter than a round.
Longest ==
  CHOOSE most \in 1 .. SequenceModulus :
    PayloadLengths \subseteq 1 .. most /\ MaxMessages * (most + 1) < SequenceModulus

LEMMA LongestIs ==
  /\ Longest \in Nat \ {0} /\ PayloadLengths \union {1} \subseteq 1 .. Longest
  /\ MaxMessages * (Longest + 1) < SequenceModulus
<1> DEFINE Is(most) ==
      PayloadLengths \subseteq 1 .. most /\ MaxMessages * (most + 1) < SequenceModulus
<1>1. \E most \in 1 .. SequenceModulus : Is(most)
  BY DoIpCaptureAssumption
<1>2. Longest = CHOOSE most \in 1 .. SequenceModulus : Is(most)
  BY DEF Longest
<1> HIDE DEF Is
<1>3. Longest \in 1 .. SequenceModulus /\ Is(Longest)
  BY <1>1, <1>2
<1>4. SequenceModulus \in Nat
  BY DoIpCaptureAssumption
<1> QED BY <1>3, <1>4 DEF Is

\* What is written in a direction, and how much it can be.
LEMMA WholeStream ==
  ASSUME NEW flow \in Flows, NEW ms \in Seq(Messages), Len(ms) <= MaxMessages
  PROVE  /\ Lengths(ms, Len(ms), Longest)
         /\ Entire(flow, ms) \in Seq(Cells)
         /\ Len(Entire(flow, ms)) \in Nat
         /\ Len(Entire(flow, ms)) < SequenceModulus
<1> DEFINE N == Len(ms)
           L == Longest
<1>1. N \in Nat /\ \A k \in 1 .. N : ms[k] \in Messages
  BY LenProperties, ElementOfSeq
<1>2. /\ L \in Nat /\ PayloadLengths \union {1} \subseteq 1 .. L
      /\ MaxMessages * (L + 1) < SequenceModulus
      /\ MaxMessages \in Nat /\ SequenceModulus \in Nat
  BY LongestIs, DoIpCaptureAssumption
<1> HIDE DEF L
<1>3. Lengths(ms, N, L)
  <2> SUFFICES ASSUME NEW k \in 1 .. N PROVE ms[k].length \in 1 .. L
    BY DEF Lengths
  <2>1. ms[k].length \in PayloadLengths \union {1}
    BY <1>1 DEF Messages
  <2> QED BY <1>2, <2>1
<1>4. /\ Placed(Entire(flow, ms), flow, ms, N)
      /\ EndsAt(flow, ms, N) \in Nat
      /\ EndsAt(flow, ms, N) <= N * (L + 1)
  <2>1. N \in 0 .. N
    BY <1>1
  <2> HIDE DEF N
  <2> QED BY <1>1, <1>2, <1>3, <2>1, StreamIsPlaced DEF Entire, N
<1>5. Entire(flow, ms) \in Seq(Cells)
  BY <1>4 DEF Placed
<1>6. Len(Entire(flow, ms)) = EndsAt(flow, ms, N)
  BY DEF Entire, EndsAt
<1>7. N * (L + 1) <= MaxMessages * (L + 1)
  <2> HIDE DEF N
  <2>1. N <= MaxMessages
    BY DEF N
  <2> QED BY <1>1, <1>2, <2>1
<1>8. Len(Entire(flow, ms)) < SequenceModulus
  <2> DEFINE x == N * (L + 1)
             y == MaxMessages * (L + 1)
  <2>1. x \in Nat /\ y \in Nat
    BY <1>1, <1>2
  <2>2. EndsAt(flow, ms, N) <= x /\ x <= y /\ y < SequenceModulus
    BY <1>2, <1>4, <1>7
  <2> HIDE DEF x, y
  <2> QED BY <1>2, <1>4, <1>6, <2>1, <2>2
<1> QED BY <1>3, <1>4, <1>5, <1>6, <1>8 DEF L

\* The messages that are there are not touched by another.
LEMMA StreamOfMore ==
  ASSUME NEW flow, NEW ms, NEW more, NEW N \in Nat, \A k \in 1 .. N : more[k] = ms[k]
  PROVE  UpTo(flow, more, N) = UpTo(flow, ms, N)
<1> DEFINE A == {n \in Nat : n <= N => UpTo(flow, more, n) = UpTo(flow, ms, n)}
<1>1. 0 \in A
  BY StreamGrows
<1>2. ASSUME NEW n \in Nat, n \in A PROVE n + 1 \in A
  <2>1. SUFFICES ASSUME n + 1 <= N PROVE UpTo(flow, more, n + 1) = UpTo(flow, ms, n + 1)
    OBVIOUS
  <2>2. n <= N /\ n + 1 \in 1 .. N
    BY <2>1
  <2>3. CellsIn(flow, more, n + 1) = CellsIn(flow, ms, n + 1)
    BY <2>2 DEF CellsIn
  <2>4. UpTo(flow, more, n) = UpTo(flow, ms, n)
    BY <1>2, <2>2
  <2>5. /\ UpTo(flow, more, n + 1) = UpTo(flow, more, n) \o CellsIn(flow, more, n + 1)
        /\ UpTo(flow, ms, n + 1) = UpTo(flow, ms, n) \o CellsIn(flow, ms, n + 1)
    BY StreamGrows
  <2> QED BY <2>3, <2>4, <2>5
<1> HIDE DEF A
<1>3. N \in A
  BY <1>1, <1>2, NatBySets
<1> QED BY <1>3 DEF A

LEMMA WholeOfMore ==
  ASSUME NEW flow \in Flows, NEW ms \in Seq(Messages), NEW m \in Messages
  PROVE  \E t \in Seq(Cells) : Entire(flow, Append(ms, m)) = Entire(flow, ms) \o t
<1> DEFINE N == Len(ms)
           more == Append(ms, m)
           t == CellsIn(flow, more, N + 1)
<1>1. N \in Nat
  BY LenProperties
<1>2. /\ Len(more) = N + 1 /\ \A k \in 1 .. N : more[k] = ms[k]
      /\ more[N + 1] = m
  BY <1>1, AppendProperties
<1>3. m.length \in Nat
  <2>1. m.length \in PayloadLengths \union {1}
    BY DEF Messages
  <2> QED BY <2>1, LongestIs
<1> HIDE DEF N, more
<1>4. t \in Seq(Cells)
  <2>1. N + 1 \in Nat /\ more[N + 1].length \in Nat
    BY <1>1, <1>2, <1>3
  <2> QED BY <2>1, CellsOfAMessage
<1>5. UpTo(flow, more, N + 1) = UpTo(flow, more, N) \o t
  BY <1>1, StreamGrows
<1>6. UpTo(flow, more, N) = UpTo(flow, ms, N)
  BY <1>1, <1>2, StreamOfMore
<1>7. Entire(flow, more) = Entire(flow, ms) \o t
  BY <1>2, <1>5, <1>6 DEF Entire, N
<1> QED BY <1>4, <1>7 DEF more

LEMMA StretchOfMore ==
  ASSUME NEW s \in Seq(Cells), NEW t \in Seq(Cells), NEW c, Len(c) \in Nat, NEW a, Stretch(c, s, a)
  PROVE  Stretch(c, s \o t, a)
<1> DEFINE l == Len(c)
           d == SubSeq(s \o t, a + 1, a + l)
<1>1. /\ a \in Nat /\ l \in Nat /\ a + l <= Len(s) /\ Len(s) \in Nat /\ Len(t) \in Nat
  BY LenProperties DEF Stretch
<1>2. /\ s \o t \in Seq(Cells) /\ Len(s \o t) = Len(s) + Len(t)
      /\ \A i \in 1 .. Len(s) + Len(t) : (s \o t)[i] = IF i <= Len(s) THEN s[i] ELSE t[i - Len(s)]
  BY ConcatProperties
<1>3. c \in Seq(Cells) /\ \A i \in 1 .. l : c[i] = s[a + i]
  BY StretchIs
<1>4. a + l <= Len(s \o t)
  BY <1>1, <1>2
<1> DEFINE u == s \o t
<1> HIDE DEF l, u
<1>5. /\ SubSeq(u, a + 1, a + l) \in Seq(Cells)
      /\ Len(SubSeq(u, a + 1, a + l)) = l
      /\ \A i \in 1 .. l : SubSeq(u, a + 1, a + l)[i] = u[a + i]
  BY <1>1, <1>2, <1>4, StretchCells DEF u
<1>6. d \in Seq(Cells) /\ Len(d) = l /\ \A i \in 1 .. l : d[i] = u[a + i]
  BY <1>5 DEF u
<1> HIDE DEF d
<1>7. ASSUME NEW i \in 1 .. l PROVE d[i] = c[i]
  <2>1. a + i \in 1 .. Len(s) + Len(t) /\ a + i <= Len(s)
    BY <1>1
  <2> QED BY <1>2, <1>3, <1>6, <2>1 DEF u
<1>8. Len(c) = l
  BY DEF l
<1>9. d = c
  BY <1>3, <1>6, <1>7, <1>8, SeqEqual
<1> QED BY <1>1, <1>4, <1>9 DEF Stretch, d, l

LEMMA CarriesMore ==
  ASSUME NEW s \in Seq(Cells), NEW t \in Seq(Cells), NEW f, NEW packet, Carries(packet, s, f)
  PROVE  Carries(packet, s \o t, f)
<1>1. PICK from \in 0 .. Len(s) : /\ Stretch(packet.cells, s, from)
                                  /\ packet.sequence = (f + from) % SequenceModulus
  BY DEF Carries
<1>2. Len(packet.cells) \in Nat
  BY DEF Carries
<1>3. Stretch(packet.cells, s \o t, from)
  BY <1>1, <1>2, StretchOfMore
<1>4. from \in 0 .. Len(s \o t)
  <2>1. Len(s \o t) = Len(s) + Len(t) /\ Len(s) \in Nat /\ Len(t) \in Nat
    BY ConcatProperties, LenProperties
  <2> QED BY <2>1
<1> QED BY <1>1, <1>2, <1>3, <1>4 DEF Carries

LEMMA FlowInvAfterAMessage ==
  ASSUME NEW flow \in Flows, NEW ms \in Seq(Messages), NEW m \in Messages, Len(ms) <= MaxMessages,
         NEW went \in Nat, NEW f, NEW ps, FlowInv(flow, ms, went, f, ps)
  PROVE  FlowInv(flow, Append(ms, m), went, f, ps)
<1> DEFINE s == Entire(flow, ms)
           u == Entire(flow, Append(ms, m))
<1>1. PICK t \in Seq(Cells) : u = s \o t
  BY WholeOfMore
<1>2. s \in Seq(Cells) /\ Len(s) \in Nat
  BY WholeStream
<1>3. Len(u) = Len(s) + Len(t) /\ Len(t) \in Nat
  BY <1>1, <1>2, ConcatProperties, LenProperties
<1>4. went <= Len(s) /\ \A k \in 1 .. Len(ps) : ps[k].flow = flow => Carries(ps[k], s, f)
  BY DEF FlowInv
<1> HIDE DEF s, u
<1>5. went <= Len(u)
  BY <1>2, <1>3, <1>4
<1>6. \A k \in 1 .. Len(ps) : ps[k].flow = flow => Carries(ps[k], u, f)
  BY <1>1, <1>2, <1>4, CarriesMore
<1> QED BY <1>5, <1>6 DEF FlowInv, u

\* How long both directions are together.
LEMMA WrittenIs ==
  ASSUME CaptureTypes, Written <= MaxMessages
  PROVE  \A flow \in Flows : Len(messages[flow]) \in Nat /\ Len(messages[flow]) <= MaxMessages
<1>1. \A flow \in Flows : messages[flow] \in Seq(Messages) /\ Len(messages[flow]) \in Nat
  BY LenProperties DEF CaptureTypes
<1>2. "request" \in Flows /\ "response" \in Flows
      /\ \A flow \in Flows : flow = "request" \/ flow = "response"
  BY DEF Flows
<1> DEFINE a == Len(messages["request"])
           b == Len(messages["response"])
<1>3. a + b <= MaxMessages /\ MaxMessages \in Nat
  BY DoIpCaptureAssumption DEF Written
<1>4. a \in Nat /\ b \in Nat
  BY <1>1, <1>2
<1>5. a <= MaxMessages /\ b <= MaxMessages
  <2> HIDE DEF a, b
  <2> QED BY <1>3, <1>4
<1> QED BY <1>1, <1>2, <1>5

LEMMA InvariantAfterAMessage ==
  ASSUME CaptureInv, NEW flow \in Flows, NEW m \in Messages, Write(flow, m),
         first' = first, segmented' = segmented, packets' = packets,
         flow = "request" => m \in Questions, owed' \subseteq 1 .. Len(messages'["request"])
  PROVE  CaptureInv'
<1> DEFINE ms == messages[flow]
<1>1. CaptureTypes /\ Written < MaxMessages /\ messages' = [messages EXCEPT ![flow] = Append(ms, m)]
  BY DEF CaptureInv, Write
<1>2. /\ messages \in [Flows -> Seq(Messages)] /\ Append(ms, m) \in Seq(Messages)
      /\ Len(Append(ms, m)) = Len(ms) + 1
  <2>1. messages \in [Flows -> Seq(Messages)] /\ ms \in Seq(Messages)
    BY <1>1 DEF CaptureTypes
  <2> HIDE DEF ms
  <2> QED BY <2>1, AppendProperties
<1>3. /\ messages' \in [Flows -> Seq(Messages)]
      /\ messages'[flow] = Append(ms, m)
      /\ \A g \in Flows : g # flow => messages'[g] = messages[g]
  BY <1>1, <1>2
<1>4. CaptureTypes'
  <2>1. messages["request"] \in Seq(Questions) /\ "request" \in Flows
    BY <1>1 DEF CaptureTypes, Flows
  <2>2. messages'["request"] \in Seq(Questions)
    <3>1. CASE flow = "request"
      <4>1. messages'["request"] = Append(messages["request"], m)
        BY <1>3, <3>1
      <4> QED BY <2>1, <3>1, <4>1, AppendProperties
    <3>2. CASE flow # "request"
      BY <1>3, <2>1, <3>2
    <3> QED BY <3>1, <3>2
  <2> QED BY <1>1, <1>3, <2>2 DEF CaptureTypes
<1>5. Written' <= MaxMessages
  <2>1. \A g \in Flows : Len(messages[g]) \in Nat
    BY <1>1, <1>2, LenProperties DEF CaptureTypes
  <2>2. "request" \in Flows /\ "response" \in Flows /\ (flow = "request" \/ flow = "response")
        /\ "request" # "response"
    BY DEF Flows
  <2>3. Written = Len(messages["request"]) + Len(messages["response"])
        /\ Written' = Len(messages'["request"]) + Len(messages'["response"])
    BY DEF Written
  <2>4. MaxMessages \in Nat
    BY DoIpCaptureAssumption
  <2> DEFINE a == Len(messages["request"])
             b == Len(messages["response"])
             c == Len(messages'["request"])
             d == Len(messages'["response"])
  <2>7. a \in Nat /\ b \in Nat
    BY <2>1, <2>2
  <2>8. (c = a + 1 /\ d = b) \/ (c = a /\ d = b + 1)
    <3>1. CASE flow = "request"
      <4>1. /\ messages'["request"] = Append(messages["request"], m)
            /\ messages'["response"] = messages["response"]
        BY <1>3, <2>2, <3>1
      <4>2. Len(Append(messages["request"], m)) = a + 1
        BY <1>2, <3>1
      <4> QED BY <4>1, <4>2
    <3>2. CASE flow = "response"
      <4>1. /\ messages'["response"] = Append(messages["response"], m)
            /\ messages'["request"] = messages["request"]
        BY <1>3, <2>2, <3>2
      <4>2. Len(Append(messages["response"], m)) = b + 1
        BY <1>2, <3>2
      <4> QED BY <4>1, <4>2
    <3> QED BY <2>2, <3>1, <3>2
  <2>9. Written = a + b /\ Written' = c + d
    BY <2>3
  <2> HIDE DEF a, b, c, d
  <2>5. Written' = Written + 1
    BY <2>7, <2>8, <2>9
  <2>6. Written \in Nat
    BY <2>7, <2>9
  <2> QED BY <1>1, <2>4, <2>5, <2>6
<1>6. ASSUME NEW g \in Flows
      PROVE  FlowInv(g, messages'[g], segmented[g], first[g], packets)
  <2>1. FlowInv(g, messages[g], segmented[g], first[g], packets)
    BY DEF CaptureInv
  <2>2. CASE g # flow
    BY <1>3, <2>1, <2>2
  <2>3. CASE g = flow
    <3>1. ms \in Seq(Messages) /\ Len(ms) <= MaxMessages /\ segmented[g] \in Nat
      <4>1. Written <= MaxMessages
        BY DEF CaptureInv
      <4> QED BY <1>1, <4>1, WrittenIs DEF CaptureTypes
    <3>2. FlowInv(flow, Append(ms, m), segmented[flow], first[flow], packets)
      <4> HIDE DEF ms
      <4>1. FlowInv(flow, ms, segmented[flow], first[flow], packets)
        BY <2>1, <2>3 DEF ms
      <4> QED BY <2>3, <3>1, <4>1, FlowInvAfterAMessage
    <3> QED BY <1>3, <2>3, <3>2
  <2> QED BY <2>2, <2>3
<1>7. \A g \in Flows : FlowInv(g, messages[g], segmented[g], first[g], packets)'
  BY <1>6
<1> QED BY <1>4, <1>5, <1>7 DEF CaptureInv

-----------------------------------------------------------------------------
LEMMA SegmentCarries ==
  ASSUME CaptureInv, NEW flow \in Flows, NEW from \in Nat, NEW length \in Nat,
         from + length <= Len(StreamOf(flow))
  PROVE  /\ Segment(flow, from, length) \in Packets
         /\ Segment(flow, from, length).flow = flow
         /\ Carries(Segment(flow, from, length), Entire(flow, messages[flow]), first[flow])
         /\ StreamOf(flow) = Entire(flow, messages[flow])
<1> DEFINE s == Entire(flow, messages[flow])
           c == SubSeq(s, from + 1, from + length)
           number == (first[flow] + from) % SequenceModulus
           p == Segment(flow, from, length)
<1>1. StreamOf(flow) = s
  BY DEF StreamOf, StreamUpTo, Entire, UpTo, CellsOf, CellsIn
<1>2. CaptureTypes /\ Written <= MaxMessages
  BY DEF CaptureInv
<1>3. s \in Seq(Cells) /\ Len(s) \in Nat
  <2>1. messages[flow] \in Seq(Messages) /\ Len(messages[flow]) <= MaxMessages
    BY <1>2, WrittenIs DEF CaptureTypes
  <2> QED BY <2>1, WholeStream
<1>4. p = [flow |-> flow, sequence |-> number, cells |-> c]
  BY <1>1 DEF Segment
<1> HIDE DEF s
<1>5. c \in Seq(Cells) /\ Len(c) = length
  BY <1>1, <1>3, StretchCells
<1>6. number \in Nat
  <2>1. SequenceModulus \in Nat \ {0} /\ first[flow] \in Nat /\ first[flow] + from \in Nat
    BY <1>2, DoIpCaptureAssumption DEF CaptureTypes
  <2> QED BY <2>1, SequenceNumbers
<1>7. Stretch(c, s, from) /\ from \in 0 .. Len(s)
  BY <1>1, <1>3, <1>5 DEF Stretch
<1>8. number = (first[flow] + from) % SequenceModulus
  OBVIOUS
<1> HIDE DEF c, number, p
<1>9. p \in Packets /\ p.flow = flow /\ p.cells = c /\ p.sequence = number
  BY <1>4, <1>5, <1>6 DEF Packets
<1>10. Carries(p, s, first[flow])
  BY <1>5, <1>7, <1>8, <1>9 DEF Carries
<1> QED BY <1>1, <1>9, <1>10 DEF p, s

LEMMA InvariantAfterAPacket ==
  ASSUME CaptureInv, NEW flow \in Flows, NEW from \in Nat, NEW length \in Nat,
         from + length <= Len(StreamOf(flow)),
         packets' \in {packets, Append(packets, Segment(flow, from, length))},
         segmented' \in [Flows -> Nat],
         \A g \in Flows : segmented'[g] <= Len(StreamOf(g)),
         first' = first, messages' = messages, owed' = owed
  PROVE  CaptureInv'
<1> DEFINE p == Segment(flow, from, length)
           s(g) == Entire(g, messages[g])
<1>1. CaptureTypes /\ Written <= MaxMessages /\ Written' = Written
  BY DEF CaptureInv, Written
<1>2. p \in Packets /\ p.flow = flow /\ Carries(p, s(flow), first[flow])
  BY SegmentCarries
<1>3. \A g \in Flows : StreamOf(g) = s(g)
  BY DEF StreamOf, StreamUpTo, Entire, UpTo, CellsOf, CellsIn
<1> HIDE DEF p
<1>4. packets \in Seq(Packets) /\ Len(packets) \in Nat
  BY <1>1, LenProperties DEF CaptureTypes
<1>5. CASE packets' = packets
  <2>1. CaptureTypes'
    BY <1>1, <1>5 DEF CaptureTypes
  <2>2. ASSUME NEW g \in Flows
        PROVE  FlowInv(g, messages[g], segmented'[g], first[g], packets)
    <3>1. FlowInv(g, messages[g], segmented[g], first[g], packets)
      BY DEF CaptureInv
    <3>2. segmented'[g] <= Len(s(g))
      BY <1>3
    <3> QED BY <3>1, <3>2 DEF FlowInv
  <2>3. \A g \in Flows : FlowInv(g, messages[g], segmented[g], first[g], packets)'
    BY <1>5, <2>2
  <2> QED BY <1>1, <2>1, <2>3 DEF CaptureInv
<1>6. CASE packets' = Append(packets, p)
  <2>0. /\ packets' \in Seq(Packets) /\ Len(packets') = Len(packets) + 1
        /\ \A k \in 1 .. Len(packets) : packets'[k] = packets[k]
        /\ packets'[Len(packets) + 1] = p
    BY <1>2, <1>4, <1>6, AppendProperties
  <2>1. CaptureTypes'
    BY <1>1, <2>0 DEF CaptureTypes
  <2>2. ASSUME NEW g \in Flows
        PROVE  FlowInv(g, messages[g], segmented'[g], first[g], packets')
    <3>1. FlowInv(g, messages[g], segmented[g], first[g], packets)
      BY DEF CaptureInv
    <3>2. segmented'[g] <= Len(s(g))
      BY <1>3
    <3>3. ASSUME NEW k \in 1 .. Len(packets'), packets'[k].flow = g
          PROVE  Carries(packets'[k], s(g), first[g])
      <4>1. CASE k = Len(packets) + 1
        BY <1>2, <2>0, <3>3, <4>1
      <4>2. CASE k # Len(packets) + 1
        <5>1. k \in 1 .. Len(packets) /\ packets'[k] = packets[k]
          BY <1>4, <2>0, <4>2
        <5> QED BY <3>1, <3>3, <5>1 DEF FlowInv
      <4> QED BY <4>1, <4>2
    <3> QED BY <3>2, <3>3 DEF FlowInv
  <2>3. \A g \in Flows : FlowInv(g, messages[g], segmented[g], first[g], packets)'
    BY <2>2
  <2> QED BY <1>1, <2>1, <2>3 DEF CaptureInv
<1> QED BY <1>5, <1>6 DEF p

LEMMA InitCaptureInv == CaptureInit => CaptureInv
<1> SUFFICES ASSUME CaptureInit PROVE CaptureInv
  OBVIOUS
<1>1. /\ first \in FirstSequences
      /\ messages = [flow \in Flows |-> <<>>] /\ segmented = [flow \in Flows |-> 0]
      /\ packets = <<>> /\ owed = {}
  BY DEF CaptureInit, EthInit
<1>2. <<>> \in Seq(Messages) /\ <<>> \in Seq(Packets) /\ <<>> \in Seq(Questions) /\ Len(<<>>) = 0
  BY EmptySeq
<1>3. CaptureTypes
  <2>1. first \in [Flows -> Nat]
    <3>1. first \in [Flows -> 0 .. SequenceModulus - 1] /\ 0 .. SequenceModulus - 1 \subseteq Nat
      BY <1>1, DoIpCaptureAssumption
    <3> QED BY <3>1
  <2>2. messages["request"] = <<>>
    BY <1>1 DEF Flows
  <2> QED BY <1>1, <1>2, <2>1, <2>2 DEF CaptureTypes
<1>4. Written <= MaxMessages
  <2>1. "request" \in Flows /\ "response" \in Flows
    BY DEF Flows
  <2>2. Len(messages["request"]) = 0 /\ Len(messages["response"]) = 0
    BY <1>1, <1>2, <2>1
  <2>3. Written = 0
    BY <2>2 DEF Written
  <2> QED BY <2>3, DoIpCaptureAssumption
<1>5. ASSUME NEW flow \in Flows
      PROVE  FlowInv(flow, messages[flow], segmented[flow], first[flow], packets)
  <2>1. Entire(flow, <<>>) = <<>>
    BY <1>2, StreamGrows DEF Entire
  <2>2. messages[flow] = <<>> /\ segmented[flow] = 0 /\ Len(packets) = 0
    BY <1>1, <1>2
  <2> QED BY <1>2, <2>1, <2>2 DEF FlowInv
<1> QED BY <1>3, <1>4, <1>5 DEF CaptureInv

LEMMA MessageTyped ==
  ASSUME NEW type \in {"diagnostic", "acknowledgement", "manufacturer"},
         NEW ecu \in LogicalAddresses \union {0}, NEW bytes \in Payloads,
         NEW length \in PayloadLengths \union {1}, NEW asked \in Nat
  PROVE  Message(type, ecu, bytes, length, asked) \in Messages
BY DEF Message, Messages

LEMMA WritingKeepsCaptureInv ==
  ASSUME CaptureInv, WriteRequest \/ WriteAnswer \/ WriteOther
  PROVE  CaptureInv'
<1> DEFINE asks == messages["request"]
<1>1. /\ "request" \in Flows /\ "response" \in Flows /\ "request" # "response"
      /\ messages \in [Flows -> Seq(Messages)]
      /\ asks \in Seq(Questions) /\ Len(asks) \in Nat
      /\ \A n \in 1 .. Len(asks) : asks[n] \in Questions
      /\ owed \subseteq 1 .. Len(asks)
  BY LenProperties, ElementOfSeq DEF CaptureInv, CaptureTypes, Flows
<1>2. ASSUME NEW m, Write("response", m)
      PROVE  messages'["request"] = asks
  BY <1>1, <1>2 DEF Write
<1>3. CASE WriteRequest
  <2>1. PICK ecu \in LogicalAddresses, request \in Requests, length \in PayloadLengths :
          /\ Write("request", Message("diagnostic", ecu, request, length, 0))
          /\ owed' = owed \union {Len(messages["request"]) + 1}
          /\ UNCHANGED <<first, segmented, packets>>
    BY <1>3 DEF WriteRequest
  <2> DEFINE m == Message("diagnostic", ecu, request, length, 0)
  <2>2. request \in Payloads
    BY DEF Payloads
  <2>3. m \in Messages
    BY <2>2, MessageTyped
  <2>4. m \in Questions
    BY DEF Message, Questions
  <2> HIDE DEF m
  <2>5. messages' = [messages EXCEPT !["request"] = Append(asks, m)]
    BY <2>1 DEF Write, m
  <2>6. Append(asks, m) \in Seq(Questions) /\ Len(Append(asks, m)) = Len(asks) + 1
    BY <1>1, <2>4, AppendProperties
  <2>7. Len(messages'["request"]) = Len(asks) + 1
    BY <1>1, <2>5, <2>6
  <2> DEFINE N == Len(asks)
  <2>8. owed' \subseteq 1 .. N + 1
    <3>1. owed' = owed \union {N + 1} /\ owed \subseteq 1 .. N /\ N \in Nat
      BY <1>1, <2>1
    <3> HIDE DEF N
    <3> QED BY <3>1
  <2> QED BY <1>1, <2>1, <2>3, <2>4, <2>7, <2>8, InvariantAfterAMessage DEF m
<1>4. CASE WriteAnswer
  <2>1. PICK n \in owed, length \in PayloadLengths :
          /\ \/ /\ Write("response", Message("diagnostic", asks[n].ecu,
                                             PendingAnswer(asks[n].bytes), length, n))
                /\ UNCHANGED owed
             \/ \E answer \in FinalAnswers(asks[n].bytes, Reports) :
                  /\ Write("response", Message("diagnostic", asks[n].ecu, answer, length, n))
                  /\ owed' = owed \ {n}
          /\ UNCHANGED <<first, segmented, packets>>
    BY <1>4 DEF WriteAnswer
  <2> DEFINE e == asks[n].ecu
             r == asks[n].bytes
  <2>2. e \in LogicalAddresses /\ r \in Requests /\ n \in Nat
    BY <1>1, <2>1 DEF Questions
  <2>3. PICK answer \in FinalAnswers(r, Reports) \union {PendingAnswer(r)} :
          /\ Write("response", Message("diagnostic", e, answer, length, n))
          /\ owed' \in {owed, owed \ {n}}
    BY <2>1
  <2> HIDE DEF e, r
  <2>4. answer \in Payloads
    BY <2>2, <2>3 DEF Payloads
  <2> DEFINE m == Message("diagnostic", e, answer, length, n)
  <2>5. m \in Messages
    BY <2>2, <2>4, MessageTyped
  <2> HIDE DEF m
  <2>6. Write("response", m)
    BY <2>3 DEF m
  <2>7. owed' \subseteq 1 .. Len(messages'["request"])
    BY <1>1, <1>2, <2>3, <2>6
  <2> QED BY <1>1, <2>1, <2>5, <2>6, <2>7, InvariantAfterAMessage
<1>5. CASE WriteOther
  <2>1. PICK type \in {"acknowledgement", "manufacturer"} :
          Write("response", Message(type, 0, <<>>, 1, 0))
    BY <1>5 DEF WriteOther
  <2> DEFINE m == Message(type, 0, <<>>, 1, 0)
  <2>2. /\ first' = first /\ segmented' = segmented /\ packets' = packets /\ owed' = owed
    BY <1>5 DEF WriteOther
  <2>3. <<>> \in Payloads
    BY DEF Payloads
  <2>4. m \in Messages
    BY <2>3, MessageTyped
  <2> HIDE DEF m
  <2>5. Write("response", m)
    BY <2>1 DEF m
  <2>6. owed' \subseteq 1 .. Len(messages'["request"])
    BY <1>1, <1>2, <2>2, <2>5
  <2> QED BY <1>1, <2>2, <2>4, <2>5, <2>6, InvariantAfterAMessage
<1> QED BY <1>3, <1>4, <1>5

LEMMA SendingKeepsCaptureInv ==
  ASSUME CaptureInv, SendSegment \/ Retransmit
  PROVE  CaptureInv'
<1>1. CaptureTypes /\ \A flow \in Flows : segmented[flow] \in Nat /\ segmented[flow] <= Len(StreamOf(flow))
  <2> SUFFICES ASSUME NEW flow \in Flows
               PROVE  segmented[flow] \in Nat /\ segmented[flow] <= Len(StreamOf(flow))
    BY DEF CaptureInv
  <2>1. StreamOf(flow) = Entire(flow, messages[flow])
    BY DEF StreamOf, StreamUpTo, Entire, UpTo, CellsOf, CellsIn
  <2> QED BY <2>1 DEF CaptureInv, CaptureTypes, FlowInv
<1>2. SegmentLengths \subseteq Nat \ {0}
  BY DoIpCaptureAssumption
<1>3. CASE SendSegment
  <2>1. PICK flow \in Flows, length \in SegmentLengths, missed \in BOOLEAN :
          /\ segmented[flow] + length <= Len(StreamOf(flow))
          /\ segmented' = [segmented EXCEPT ![flow] = @ + length]
          /\ packets' = IF missed THEN packets
                          ELSE Append(packets, Segment(flow, segmented[flow], length))
          /\ UNCHANGED <<first, messages, owed>>
    BY <1>3 DEF SendSegment
  <2>2. packets' \in {packets, Append(packets, Segment(flow, segmented[flow], length))}
    BY <2>1
  <2>3. length \in Nat /\ segmented[flow] \in Nat /\ segmented \in [Flows -> Nat]
    BY <1>1, <1>2 DEF CaptureTypes
  <2>4. segmented' \in [Flows -> Nat] /\ \A g \in Flows : segmented'[g] <= Len(StreamOf(g))
    BY <1>1, <2>1, <2>3
  <2> QED BY <2>1, <2>2, <2>3, <2>4, InvariantAfterAPacket
<1>4. CASE Retransmit
  <2>1. PICK flow \in Flows, length \in SegmentLengths :
          \E from \in 0 .. segmented[flow] - length :
            /\ packets' = Append(packets, Segment(flow, from, length))
            /\ UNCHANGED <<first, messages, segmented, owed>>
    BY <1>4 DEF Retransmit
  <2>2. PICK from \in 0 .. segmented[flow] - length :
          /\ packets' = Append(packets, Segment(flow, from, length))
          /\ UNCHANGED <<first, messages, segmented, owed>>
    BY <2>1
  <2>3. length \in Nat /\ segmented[flow] \in Nat /\ Len(StreamOf(flow)) \in Nat
    <3>1. 0 \in Nat /\ 0 + 0 = 0
      OBVIOUS
    <3>2. Len(Entire(flow, messages[flow])) \in Nat
      BY WrittenIs, WholeStream DEF CaptureInv, CaptureTypes
    <3>3. StreamOf(flow) = Entire(flow, messages[flow])
      BY DEF StreamOf, StreamUpTo, Entire, UpTo, CellsOf, CellsIn
    <3> QED BY <1>1, <1>2, <3>2, <3>3
  <2>4. from \in Nat /\ from + length <= Len(StreamOf(flow))
    BY <1>1, <2>3
  <2>5. segmented' \in [Flows -> Nat] /\ \A g \in Flows : segmented'[g] <= Len(StreamOf(g))
    BY <1>1, <2>2 DEF CaptureTypes
  <2>6. packets' \in {packets, Append(packets, Segment(flow, from, length))}
    BY <2>2
  <2> QED BY <2>2, <2>3, <2>4, <2>5, <2>6, InvariantAfterAPacket
<1> QED BY <1>3, <1>4

LEMMA NextCaptureInv == CaptureInv /\ [CaptureNext]_<<kind, canVars, ethVars>> => CaptureInv'
<1> SUFFICES ASSUME CaptureInv, [CaptureNext]_<<kind, canVars, ethVars>> PROVE CaptureInv'
  OBVIOUS
<1>1. CASE EthStep
  <2>1. EthNext
    BY <1>1 DEF EthStep
  <2> QED BY <2>1, WritingKeepsCaptureInv, SendingKeepsCaptureInv DEF EthNext
<1>2. CASE UNCHANGED ethVars
  BY <1>2 DEF ethVars, CaptureInv, CaptureTypes, Written
<1>3. CASE CanStep
  BY <1>2, <1>3 DEF CanStep
<1> QED BY <1>1, <1>2, <1>3 DEF CaptureNext

LEMMA NothingIsMisreadHolds == CaptureInv => NothingIsMisread
<1> SUFFICES ASSUME CaptureInv, NEW flow \in Flows
             PROVE  LET read == ReadFlow(flow)
                    IN  /\ \A k \in DOMAIN read :
                             LET header == read[k].cells[1]
                             IN  header.flow = flow /\ read[k].cells = CellsOf(flow, header.n)
                        /\ \A j, k \in DOMAIN read : j < k => read[j].cells[1].n < read[k].cells[1].n
  BY DEF NothingIsMisread
<1> DEFINE ms == messages[flow]
           s == Entire(flow, ms)
           segments == FlowSegments(flow)
           stream == JoinTcpStream(segments)
<1>1. CaptureTypes /\ Written <= MaxMessages /\ FlowInv(flow, ms, segmented[flow], first[flow], packets)
  BY DEF CaptureInv
<1>2. /\ ms \in Seq(Messages) /\ Len(ms) \in Nat /\ Len(ms) <= MaxMessages
      /\ first[flow] \in Nat /\ Len(packets) \in Nat
  BY <1>1, WrittenIs, LenProperties DEF CaptureTypes
<1>3. /\ Lengths(ms, Len(ms), Longest) /\ s \in Seq(Cells) /\ Len(s) \in Nat /\ Len(s) < SequenceModulus
  BY <1>2, WholeStream
<1>4. /\ Len(segments) \in Nat
      /\ \A k \in 1 .. Len(segments) : Carries(segments[k], s, first[flow])
  <2> DEFINE T == {Captured(k) : k \in {i \in 1 .. Len(packets) : packets[i].flow = flow}}
  <2>1. segments \in Seq(T)
    BY <1>2, FlowSegmentsAreCaptured
  <2>2. \A t \in T : Carries(t, s, first[flow])
    <3> SUFFICES ASSUME NEW k \in 1 .. Len(packets), packets[k].flow = flow
                 PROVE  Carries(Captured(k), s, first[flow])
      OBVIOUS
    <3>1. Carries(packets[k], s, first[flow])
      BY <1>1 DEF FlowInv
    <3>2. Captured(k).cells = packets[k].cells /\ Captured(k).sequence = packets[k].sequence
      BY DEF Captured
    <3> QED BY <3>1, <3>2 DEF Carries
  <2> HIDE DEF T, segments
  <2>3. Len(segments) \in Nat /\ \A k \in 1 .. Len(segments) : segments[k] \in T
    BY <2>1, LenProperties, ElementOfSeq
  <2> QED BY <2>2, <2>3
<1>5. Continues(stream, s, first[flow])
  <2> HIDE DEF s, segments
  <2>1. SequenceModulus \in Nat \ {0}
    BY DoIpCaptureAssumption
  <2> QED BY <1>2, <1>3, <1>4, <2>1, JoinTcpStreamContinues
<1>6. ReadFlow(flow) = IF stream.whole THEN ReadMessages(stream) ELSE <<>>
  BY DEF ReadFlow
<1>7. PICK a : Stretch(stream.bytes, s, a)
  BY <1>5 DEF Continues, ContinuesAt
<1>8. Reading(stream, flow, Longest, a)
  <2>1. Longest \in Nat /\ Len(stream.bytes) \in Nat
    BY <1>5, LongestIs DEF Continues
  <2> HIDE DEF stream
  <2> QED BY <1>2, <1>3, <1>7, <2>1 DEF Reading, Entire
<1> HIDE DEF stream, s, ms
<1>9. /\ \E T : ReadMessages(stream) \in Seq(T)
      /\ Faithful(ReadMessages(stream), flow, a)
  BY <1>8, ReadIsFaithful
<1> DEFINE read == ReadFlow(flow)
<1>10. (\E T : read \in Seq(T)) /\ Faithful(read, flow, a)
  <2>1. CASE stream.whole
    BY <1>6, <1>9, <2>1
  <2>2. CASE ~stream.whole
    <3>1. read = <<>>
      BY <1>6, <2>2
    <3>2. <<>> \in Seq({}) /\ Len(<<>>) = 0 /\ 1 .. 0 = {}
      BY EmptySeq
    <3> QED BY <3>1, <3>2 DEF Faithful
  <2> QED BY <2>1, <2>2
<1> HIDE DEF read
<1>11. DOMAIN read = 1 .. Len(read)
  BY <1>10, LenProperties
<1>12. \A n : CellsOf(flow, n) = CellsIn(flow, messages[flow], n)
  BY DEF CellsOf, CellsIn
<1> QED BY <1>10, <1>11, <1>12 DEF Faithful, read

\* What a capture of a DoIP connection is read as was written: whatever is
\* missing, repeated or cut in another way, and wherever sequence numbers wrap,
\* the messages that are read are whole ones, in order, and none is read twice.
THEOREM MessagesAreNotMisread == CaptureSpec => []NothingIsMisread
<1>1. CaptureInit => CaptureInv
  BY InitCaptureInv
<1>2. CaptureInv /\ [CaptureNext]_<<kind, canVars, ethVars>> => CaptureInv'
  BY NextCaptureInv
<1>3. CaptureInv => NothingIsMisread
  BY NothingIsMisreadHolds
<1> QED BY <1>1, <1>2, <1>3, PTL DEF CaptureSpec

-----------------------------------------------------------------------------
(***************************************************************************)
(* What ECUs answered and what is learned of it: ApplyPair, one exchange   *)
(* after another.                                                          *)
(***************************************************************************)

LEMMA LargestIs ==
  \A N \in Nat : \A S \in SUBSET (1 .. N) :
    S # {} => Max(S) \in S /\ \A y \in S : y <= Max(S)
<1> DEFINE Is(S, x) == x \in S /\ \A y \in S : y <= x
           A == {N \in Nat : \A S \in SUBSET (1 .. N) : S # {} => \E x : Is(S, x)}
<1>1. 0 \in A
  OBVIOUS
<1>2. ASSUME NEW N \in Nat, N \in A PROVE N + 1 \in A
  <2>1. SUFFICES ASSUME NEW S \in SUBSET (1 .. N + 1), S # {} PROVE \E x : Is(S, x)
    OBVIOUS
  <2>2. CASE N + 1 \in S
    <3>1. Is(S, N + 1)
      BY <2>2
    <3> QED BY <3>1
  <2>3. CASE N + 1 \notin S
    <3>1. S \in SUBSET (1 .. N)
      BY <2>3
    <3> QED BY <1>2, <2>1, <3>1
  <2> QED BY <2>2, <2>3
<1> HIDE DEF A
<1>3. \A N \in Nat : N \in A
  BY <1>1, <1>2, NatBySets
<1>4. SUFFICES ASSUME NEW N \in Nat, NEW S \in SUBSET (1 .. N), S # {}
               PROVE  Max(S) \in S /\ \A y \in S : y <= Max(S)
  OBVIOUS
<1>5. \E x \in S : \A y \in S : x >= y
  BY <1>3, <1>4 DEF A
<1> QED BY <1>5 DEF Max

LEMMA SmallestIs ==
  \A N \in Nat : \A S \in SUBSET (1 .. N) :
    S # {} => Min(S) \in S /\ \A y \in S : Min(S) <= y
<1>0. SUFFICES ASSUME NEW N \in Nat, NEW S \in SUBSET (1 .. N), S # {}
               PROVE  Min(S) \in S /\ \A y \in S : Min(S) <= y
  OBVIOUS
<1> DEFINE T == {N + 1 - y : y \in S}
           m == Max(T)
<1>1. T \in SUBSET (1 .. N) /\ T # {}
  <2>1. \A y \in S : N + 1 - y \in 1 .. N
    OBVIOUS
  <2>2. PICK y \in S : TRUE
    BY <1>0
  <2>3. N + 1 - y \in T
    BY <2>2
  <2> QED BY <2>1, <2>3
<1> HIDE DEF T
<1>2. m \in T /\ \A z \in T : z <= m
  BY <1>1, LargestIs
<1> HIDE DEF m
<1>3. \A y \in S : N + 1 - y \in T
  BY DEF T
<1>4. PICK x \in S : m = N + 1 - x
  BY <1>2 DEF T
<1>5. \A y \in S : x <= y
  <2> TAKE y \in S
  <2>1. N + 1 - y <= N + 1 - x
    BY <1>2, <1>3, <1>4
  <2> QED BY <2>1
<1>6. \E z \in S : \A y \in S : z <= y
  BY <1>5
<1> QED BY <1>6 DEF Min

-----------------------------------------------------------------------------
(***************************************************************************)
(* What one more exchange teaches.                                         *)
(***************************************************************************)
EcuIs(ecu) ==
  ecu = [services |-> ecu.services, sessions |-> ecu.sessions, dids |-> ecu.dids,
         dtcs |-> ecu.dtcs, levels |-> ecu.levels]

\* Exchanges with numbers up to N, and one more.
OneMore(X, Y, N, n, request, answer) ==
  /\ N \in Nat /\ DOMAIN X \subseteq 1 .. N /\ n \in Nat /\ n > N
  /\ DOMAIN Y = DOMAIN X \union {n}
  /\ \A k \in DOMAIN X : Y[k] = X[k]
  /\ Y[n] = [request |-> request, answer |-> answer]

\* The forms of an answer.
Refuses(request, answer) == answer = <<NegativeResponseSid, request[1], 49>>
Confirms(request, answer) ==
  request[1] = SessionControl /\ answer = <<request[1] + PositiveResponseOffset, request[2]>>
ReportsCodes(request, answer) ==
  /\ request[1] = ReadDtcInformation
  /\ \E v : answer = <<request[1] + PositiveResponseOffset, request[2], 255, 7, v, 8, v>>
ReportsValue(request, answer) ==
  /\ request[1] \notin {SessionControl, ReadDtcInformation}
  /\ \E v : answer = <<request[1] + PositiveResponseOffset, request[2], v>>

LEMMA AnswersAre ==
  ASSUME NEW request, NEW values, NEW answer \in FinalAnswers(request, values)
  PROVE  \/ Refuses(request, answer) \/ Confirms(request, answer)
         \/ ReportsCodes(request, answer) \/ ReportsValue(request, answer)
<1> DEFINE a == request[1] + PositiveResponseOffset
           b == request[2]
<1> HIDE DEF a, b
<1>1. <<a, b>> \o <<>> = <<a, b>>
  BY ConcatEmptySeq
<1>2. ASSUME NEW v PROVE <<a, b>> \o <<255, 7, v, 8, v>> = <<a, b, 255, 7, v, 8, v>>
  <2> DEFINE T == {a, b, 255, 7, v, 8}
             p == <<a, b>>
             s == <<255, 7, v, 8, v>>
             t == <<a, b, 255, 7, v, 8, v>>
  <2>1. p \in Seq(T) /\ s \in Seq(T) /\ t \in Seq(T)
    OBVIOUS
  <2>2. Len(p) = 2 /\ Len(s) = 5 /\ Len(t) = 7
    OBVIOUS
  <2>3. \A i \in 1 .. 7 : t[i] = IF i <= 2 THEN p[i] ELSE s[i - 2]
    <3>1. \A i \in 1 .. 7 : i \in {1, 2, 3, 4, 5, 6, 7}
      OBVIOUS
    <3> QED BY <3>1
  <2> HIDE DEF T, p, s, t
  <2>4. p \o s \in Seq(T) /\ Len(p \o s) = 7
        /\ \A i \in 1 .. 7 : (p \o s)[i] = IF i <= 2 THEN p[i] ELSE s[i - 2]
    <3>1. /\ p \o s \in Seq(T) /\ Len(p \o s) = Len(p) + Len(s)
          /\ \A i \in 1 .. Len(p) + Len(s) :
               (p \o s)[i] = IF i <= Len(p) THEN p[i] ELSE s[i - Len(p)]
      BY <2>1, ConcatProperties
    <3>2. Len(p) + Len(s) = 7
      BY <2>2
    <3> QED BY <2>2, <3>1, <3>2
  <2>5. \A i \in 1 .. 7 : (p \o s)[i] = t[i]
    BY <2>3, <2>4
  <2>6. p \o s = t
    BY <2>1, <2>2, <2>4, <2>5, SeqEqual
  <2> QED BY <2>6 DEF p, s, t
<1>3. ASSUME NEW v PROVE <<a, b>> \o <<v>> = <<a, b, v>>
  <2> DEFINE T == {a, b, v}
  <2>1. <<a, b>> \in Seq(T) /\ <<v>> \in Seq(T) /\ <<a, b, v>> \in Seq(T)
    OBVIOUS
  <2>2. Len(<<a, b>>) = 2 /\ Len(<<v>>) = 1 /\ Len(<<a, b, v>>) = 3
    OBVIOUS
  <2> HIDE DEF T
  <2>3. <<a, b>> \o <<v>> \in Seq(T) /\ Len(<<a, b>> \o <<v>>) = 3
        /\ \A i \in 1 .. 3 : (<<a, b>> \o <<v>>)[i] = IF i <= 2 THEN <<a, b>>[i] ELSE <<v>>[i - 2]
    BY <2>1, <2>2, ConcatProperties
  <2>4. \A i \in 1 .. 3 : (<<a, b>> \o <<v>>)[i] = <<a, b, v>>[i]
    <3>1. \A i \in 1 .. 3 : i \in {1, 2, 3}
      OBVIOUS
    <3> QED BY <2>3, <3>1
  <2> QED BY <2>1, <2>2, <2>3, <2>4, SeqEqual
<1>4. \/ answer = <<NegativeResponseSid, request[1], 49>>
      \/ request[1] = SessionControl /\ answer = <<a, b>> \o <<>>
      \/ request[1] = ReadDtcInformation /\ \E v \in values : answer = <<a, b>> \o <<255, 7, v, 8, v>>
      \/ /\ request[1] # SessionControl /\ request[1] # ReadDtcInformation
         /\ \E v \in values : answer = <<a, b>> \o <<v>>
  BY DEF FinalAnswers, a, b, SessionControl, ReadDtcInformation
<1>5. CASE answer = <<NegativeResponseSid, request[1], 49>>
  BY <1>5 DEF Refuses
<1>6. CASE request[1] = SessionControl /\ answer = <<a, b>> \o <<>>
  BY <1>1, <1>6 DEF Confirms, a, b
<1>7. CASE request[1] = ReadDtcInformation /\ \E v \in values : answer = <<a, b>> \o <<255, 7, v, 8, v>>
  <2>1. \E v : answer = <<a, b, 255, 7, v, 8, v>>
    BY <1>2, <1>7
  <2> QED BY <1>7, <2>1 DEF ReportsCodes, a, b
<1>8. CASE /\ request[1] # SessionControl /\ request[1] # ReadDtcInformation
           /\ \E v \in values : answer = <<a, b>> \o <<v>>
  <2>1. \E v : answer = <<a, b, v>>
    BY <1>3, <1>8
  <2> QED BY <1>8, <2>1 DEF ReportsValue, a, b
<1> QED BY <1>4, <1>5, <1>6, <1>7, <1>8

\* The exchanges that reveal anything about a service.
LEMMA RevealedIs ==
  ASSUME NEW X, NEW Y, NEW N, NEW n, NEW request, NEW answer,
         OneMore(X, Y, N, n, request, answer), NEW sid
  PROVE  Revealed(Y, sid) = Revealed(X, sid) \union
           {k \in {n} : answer[1] # NegativeResponseSid /\ request[1] = sid}
<1>1. n \notin DOMAIN X
  BY DEF OneMore
<1>2. \A k \in DOMAIN X : k \in Revealed(Y, sid) <=> k \in Revealed(X, sid)
  BY DEF OneMore, Revealed, IsPositive
<1>3. n \in Revealed(Y, sid) <=> answer[1] # NegativeResponseSid /\ request[1] = sid
  BY DEF OneMore, Revealed, IsPositive
<1>4. Revealed(X, sid) \subseteq DOMAIN X /\ Revealed(Y, sid) \subseteq DOMAIN X \union {n}
  BY DEF OneMore, Revealed
<1> QED BY <1>1, <1>2, <1>3, <1>4

\* What is known of a service that was not answered stays.
LEMMA NothingRevealed ==
  ASSUME NEW X, NEW Y, NEW N, NEW n, NEW request, NEW answer,
         OneMore(X, Y, N, n, request, answer), NEW sid, Revealed(Y, sid) = Revealed(X, sid)
  PROVE  /\ Asked(Y, sid) = Asked(X, sid)
         /\ \A what : About(Y, sid, what) = About(X, sid, what)
         /\ \A k \in Revealed(X, sid) : k \in DOMAIN X /\ Y[k] = X[k]
<1>1. \A k \in Revealed(X, sid) : k \in DOMAIN X /\ Y[k] = X[k]
  BY DEF OneMore, Revealed
<1>2. Asked(Y, sid) = Asked(X, sid)
  BY <1>1 DEF Asked
<1>3. ASSUME NEW what PROVE About(Y, sid, what) = About(X, sid, what)
  BY <1>1 DEF About
<1> QED BY <1>1, <1>2, <1>3

LEMMA SomethingRevealed ==
  ASSUME NEW X, NEW Y, NEW N, NEW n, NEW request, NEW answer,
         OneMore(X, Y, N, n, request, answer), NEW sid,
         Revealed(Y, sid) = Revealed(X, sid) \union {n}
  PROVE  /\ Asked(Y, sid) = Asked(X, sid) \union {request[2]}
         /\ About(Y, sid, request[2]) = About(X, sid, request[2]) \union {n}
         /\ \A what : what # request[2] => About(Y, sid, what) = About(X, sid, what)
         /\ \A k \in Revealed(X, sid) : k \in DOMAIN X /\ Y[k] = X[k]
<1>1. \A k \in Revealed(X, sid) : k \in DOMAIN X /\ Y[k] = X[k]
  BY DEF OneMore, Revealed
<1>2. Y[n].request = request
  BY DEF OneMore
<1>3. Asked(Y, sid) = Asked(X, sid) \union {request[2]}
  BY <1>1, <1>2 DEF Asked
<1>4. About(Y, sid, request[2]) = About(X, sid, request[2]) \union {n}
  BY <1>1, <1>2 DEF About
<1>5. ASSUME NEW what, what # request[2] PROVE About(Y, sid, what) = About(X, sid, what)
  BY <1>1, <1>2, <1>5 DEF About
<1> QED BY <1>1, <1>3, <1>4, <1>5

\* The exchanges about one thing, and the first and the last of them.
LEMMA AboutIs ==
  ASSUME NEW X, NEW N \in Nat, DOMAIN X \subseteq 1 .. N, NEW sid
  PROVE  /\ \A what \in Asked(X, sid) : About(X, sid, what) # {}
         /\ \A what : /\ About(X, sid, what) \subseteq Revealed(X, sid)
                      /\ About(X, sid, what) # {} =>
                           /\ what \in Asked(X, sid)
                           /\ Max(About(X, sid, what)) \in About(X, sid, what)
                           /\ Min(About(X, sid, what)) \in About(X, sid, what)
         /\ Revealed(X, sid) # {} => Min(Revealed(X, sid)) \in Revealed(X, sid)
<1>1. Revealed(X, sid) \in SUBSET (1 .. N)
  BY DEF Revealed
<1>2. \A what : About(X, sid, what) \subseteq Revealed(X, sid)
  BY DEF About
<1>3. \A what \in Asked(X, sid) : About(X, sid, what) # {}
  BY DEF About, Asked
<1>4. ASSUME NEW what, About(X, sid, what) # {}
      PROVE  /\ what \in Asked(X, sid)
             /\ Max(About(X, sid, what)) \in About(X, sid, what)
             /\ Min(About(X, sid, what)) \in About(X, sid, what)
  <2>1. About(X, sid, what) \in SUBSET (1 .. N)
    BY <1>1, <1>2
  <2>2. what \in Asked(X, sid)
    BY <1>4 DEF About, Asked
  <2> QED BY <1>4, <2>1, <2>2, LargestIs, SmallestIs
<1>5. Revealed(X, sid) # {} => Min(Revealed(X, sid)) \in Revealed(X, sid)
  BY <1>1, SmallestIs
<1> QED BY <1>2, <1>3, <1>4, <1>5

LEMMA KnowledgeStays ==
  ASSUME NEW X, NEW Y, NEW N, NEW n, NEW request, NEW answer,
         OneMore(X, Y, N, n, request, answer)
  PROVE  /\ Revealed(Y, SessionControl) = Revealed(X, SessionControl) =>
              TrueSessions(Y) = TrueSessions(X)
         /\ Revealed(Y, ReadDataByIdentifier) = Revealed(X, ReadDataByIdentifier) =>
              TrueDids(Y) = TrueDids(X)
         /\ Revealed(Y, ReadDtcInformation) = Revealed(X, ReadDtcInformation) =>
              TrueDtcs(Y) = TrueDtcs(X)
         /\ Revealed(Y, SecurityAccess) = Revealed(X, SecurityAccess) =>
              TrueLevels(Y) = TrueLevels(X)
<1>0. N \in Nat /\ DOMAIN X \subseteq 1 .. N
  BY DEF OneMore
<1>1. ASSUME Revealed(Y, SessionControl) = Revealed(X, SessionControl)
      PROVE  TrueSessions(Y) = TrueSessions(X)
  <2>1. Asked(Y, SessionControl) = Asked(X, SessionControl)
    BY <1>1, NothingRevealed
  <2> QED BY <2>1 DEF TrueSessions
<1>2. ASSUME Revealed(Y, ReadDataByIdentifier) = Revealed(X, ReadDataByIdentifier)
      PROVE  TrueDids(Y) = TrueDids(X)
  <2> DEFINE sid == ReadDataByIdentifier
  <2>1. /\ Asked(Y, sid) = Asked(X, sid)
        /\ \A what : About(Y, sid, what) = About(X, sid, what)
        /\ \A k \in Revealed(X, sid) : Y[k] = X[k]
    BY <1>2, NothingRevealed
  <2>2. ASSUME NEW did \in Asked(X, sid)
        PROVE  Y[Max(About(Y, sid, did))] = X[Max(About(X, sid, did))]
    <3>1. Max(About(X, sid, did)) \in Revealed(X, sid)
      BY <1>0, AboutIs
    <3> QED BY <2>1, <3>1
  <2> HIDE DEF sid
  <2>3. [did \in Asked(Y, sid) |-> <<Y[Max(About(Y, sid, did))].answer[3]>>]
          = [did \in Asked(X, sid) |-> <<X[Max(About(X, sid, did))].answer[3]>>]
    BY <2>1, <2>2
  <2> QED BY <2>3 DEF TrueDids, sid
<1>3. ASSUME Revealed(Y, ReadDtcInformation) = Revealed(X, ReadDtcInformation)
      PROVE  TrueDtcs(Y) = TrueDtcs(X)
  <2> DEFINE reports == Revealed(X, ReadDtcInformation)
  <2>1. CASE reports = {}
    BY <1>3, <2>1 DEF TrueDtcs
  <2>2. CASE reports # {}
    <3>1. Min(reports) \in reports
      BY <1>0, <2>2, AboutIs
    <3>2. Y[Min(reports)] = X[Min(reports)]
      BY <1>3, <3>1, NothingRevealed
    <3> QED BY <1>3, <2>2, <3>2 DEF TrueDtcs
  <2> QED BY <2>1, <2>2
<1>4. ASSUME Revealed(Y, SecurityAccess) = Revealed(X, SecurityAccess)
      PROVE  TrueLevels(Y) = TrueLevels(X)
  <2> DEFINE sid == SecurityAccess
             D(Z) == {what \in Asked(Z, sid) : what % 2 = 1}
  <2>1. /\ Asked(Y, sid) = Asked(X, sid)
        /\ \A what : About(Y, sid, what) = About(X, sid, what)
        /\ \A k \in Revealed(X, sid) : Y[k] = X[k]
    BY <1>4, NothingRevealed
  <2>2. ASSUME NEW level \in Asked(X, sid)
        PROVE  Y[Min(About(Y, sid, level))] = X[Min(About(X, sid, level))]
    <3>1. Min(About(X, sid, level)) \in Revealed(X, sid)
      BY <1>0, AboutIs
    <3> QED BY <2>1, <3>1
  <2>3. D(Y) = D(X) /\ D(X) \subseteq Asked(X, sid)
    BY <2>1
  <2>4. TrueLevels(X) = [level \in D(X) |-> <<X[Min(About(X, sid, level))].answer[3]>>]
        /\ TrueLevels(Y) = [level \in D(Y) |-> <<Y[Min(About(Y, sid, level))].answer[3]>>]
    BY DEF TrueLevels
  <2> HIDE DEF sid, D
  <2> QED BY <2>2, <2>3, <2>4
<1> QED BY <1>1, <1>2, <1>3, <1>4

\* A request as a tester asks it.
IsQuestion(request) ==
  request \in Seq(0 .. 255) /\ Len(request) >= 2 /\ request[1] \in RequestSids

LEMMA SessionLearned ==
  ASSUME NEW X, NEW Y, NEW N, NEW n, NEW request, NEW answer,
         OneMore(X, Y, N, n, request, answer),
         Revealed(Y, SessionControl) = Revealed(X, SessionControl) \union {n}
  PROVE  TrueSessions(Y) = TrueSessions(X) \union ({request[2] % 128} \intersect SessionTypes)
<1>1. Asked(Y, SessionControl) = Asked(X, SessionControl) \union {request[2]}
  BY SomethingRevealed
<1>2. {what % 128 : what \in Asked(Y, SessionControl)}
        = {what % 128 : what \in Asked(X, SessionControl)} \union {request[2] % 128}
  BY <1>1
<1> QED BY <1>2 DEF TrueSessions

LEMMA LastOfMore ==
  ASSUME NEW N \in Nat, NEW S \in SUBSET (1 .. N), NEW n \in Nat, n > N
  PROVE  /\ Max(S \union {n}) = n
         /\ S = {} => Min(S \union {n}) = n
         /\ S # {} => Min(S \union {n}) = Min(S)
<1>1. S \union {n} \in SUBSET (1 .. n) /\ S \union {n} # {}
  OBVIOUS
<1> DEFINE a == Max(S \union {n})
           b == Min(S \union {n})
           c == Min(S)
<1>2. a \in S \union {n} /\ \A y \in S \union {n} : y <= a
  BY <1>1, LargestIs
<1>3. b \in S \union {n} /\ \A y \in S \union {n} : b <= y
  BY <1>1, SmallestIs
<1>4. S # {} => c \in S /\ \A y \in S : c <= y
  BY SmallestIs
<1> HIDE DEF a, b, c
<1>5. a = n
  BY <1>2
<1>6. S = {} => b = n
  BY <1>3
<1>7. S # {} => b = c
  <2> SUFFICES ASSUME S # {} PROVE b = c
    OBVIOUS
  <2>1. b <= c
    BY <1>3, <1>4
  <2>2. c \in 1 .. N
    BY <1>4
  <2>3. b \in S
    BY <1>3, <2>1, <2>2
  <2>4. c <= b /\ b \in 1 .. N
    BY <1>4, <2>3
  <2> QED BY <2>1, <2>2, <2>4
<1> QED BY <1>5, <1>6, <1>7 DEF a, b, c

LEMMA DidLearned ==
  ASSUME NEW X, NEW Y, NEW N, NEW n, NEW request, NEW answer,
         OneMore(X, Y, N, n, request, answer),
         Revealed(Y, ReadDataByIdentifier) = Revealed(X, ReadDataByIdentifier) \union {n}
  PROVE  TrueDids(Y) = With(TrueDids(X), request[2], <<answer[3]>>)
<1> DEFINE sid == ReadDataByIdentifier
           new == request[2]
<1>0. N \in Nat /\ DOMAIN X \subseteq 1 .. N /\ n \in Nat /\ n > N /\ Y[n].answer = answer
  BY DEF OneMore
<1>1. /\ Asked(Y, sid) = Asked(X, sid) \union {new}
      /\ About(Y, sid, new) = About(X, sid, new) \union {n}
      /\ \A what : what # new => About(Y, sid, what) = About(X, sid, what)
      /\ \A k \in Revealed(X, sid) : Y[k] = X[k]
  BY SomethingRevealed
<1>2. Max(About(Y, sid, new)) = n
  <2> DEFINE S == About(X, sid, new)
  <2>1. S \in SUBSET (1 .. N) /\ N \in Nat /\ n \in Nat /\ n > N
    BY <1>0 DEF About, Revealed
  <2>2. About(Y, sid, new) = S \union {n}
    BY <1>1
  <2> HIDE DEF S
  <2>3. Max(S \union {n}) = n
    BY <2>1, LastOfMore
  <2> QED BY <2>2, <2>3
<1>3. ASSUME NEW did \in Asked(X, sid), did # new
      PROVE  Y[Max(About(Y, sid, did))] = X[Max(About(X, sid, did))]
  <2>1. Max(About(X, sid, did)) \in Revealed(X, sid)
    BY <1>0, AboutIs
  <2> QED BY <1>1, <1>3, <2>1
<1>4. /\ TrueDids(X) = [did \in Asked(X, sid) |-> <<X[Max(About(X, sid, did))].answer[3]>>]
      /\ TrueDids(Y) = [did \in Asked(Y, sid) |-> <<Y[Max(About(Y, sid, did))].answer[3]>>]
  BY DEF TrueDids
<1> HIDE DEF sid, new
<1>5. ASSUME NEW did \in Asked(Y, sid)
      PROVE  <<Y[Max(About(Y, sid, did))].answer[3]>>
               = IF did = new THEN <<answer[3]>> ELSE TrueDids(X)[did]
  <2>1. CASE did = new
    BY <1>0, <1>2, <2>1
  <2>2. CASE did # new
    <3>1. did \in Asked(X, sid)
      BY <1>1, <2>2
    <3> QED BY <1>3, <1>4, <2>2, <3>1
  <2> QED BY <2>1, <2>2
<1>6. DOMAIN TrueDids(X) = Asked(X, sid)
  BY <1>4
<1>7. TrueDids(Y) = [did \in DOMAIN TrueDids(X) \union {new} |->
                       IF did = new THEN <<answer[3]>> ELSE TrueDids(X)[did]]
  BY <1>1, <1>4, <1>5, <1>6
<1> QED BY <1>7 DEF With, new

LEMMA LevelLearned ==
  ASSUME NEW X, NEW Y, NEW N, NEW n, NEW request, NEW answer,
         OneMore(X, Y, N, n, request, answer),
         Revealed(Y, SecurityAccess) = Revealed(X, SecurityAccess) \union {n}
  PROVE  TrueLevels(Y) = IF request[2] % 2 = 1
                           THEN WithNew(TrueLevels(X), request[2], <<answer[3]>>)
                           ELSE TrueLevels(X)
<1> DEFINE sid == SecurityAccess
           new == request[2]
           D(Z) == {what \in Asked(Z, sid) : what % 2 = 1}
           value == <<answer[3]>>
<1>0. N \in Nat /\ DOMAIN X \subseteq 1 .. N /\ n \in Nat /\ n > N /\ Y[n].answer = answer
  BY DEF OneMore
<1>1. /\ Asked(Y, sid) = Asked(X, sid) \union {new}
      /\ About(Y, sid, new) = About(X, sid, new) \union {n}
      /\ \A what : what # new => About(Y, sid, what) = About(X, sid, what)
      /\ \A k \in Revealed(X, sid) : Y[k] = X[k]
  BY SomethingRevealed
<1>2. /\ new \notin Asked(X, sid) => Min(About(Y, sid, new)) = n
      /\ new \in Asked(X, sid) => Min(About(Y, sid, new)) = Min(About(X, sid, new))
  <2>1. About(X, sid, new) \in SUBSET (1 .. N)
    BY <1>0 DEF About, Revealed
  <2>2. new \in Asked(X, sid) <=> About(X, sid, new) # {}
    BY <1>0, AboutIs
  <2> QED BY <1>0, <1>1, <2>1, <2>2, LastOfMore
<1>3. ASSUME NEW level \in Asked(X, sid)
      PROVE  Y[Min(About(Y, sid, level))] = X[Min(About(X, sid, level))]
  <2>1. Min(About(X, sid, level)) \in Revealed(X, sid)
    BY <1>0, AboutIs
  <2>2. Min(About(Y, sid, level)) = Min(About(X, sid, level))
    BY <1>1, <1>2
  <2> QED BY <1>1, <2>1, <2>2
<1>4. /\ TrueLevels(X) = [level \in D(X) |-> <<X[Min(About(X, sid, level))].answer[3]>>]
      /\ TrueLevels(Y) = [level \in D(Y) |-> <<Y[Min(About(Y, sid, level))].answer[3]>>]
  BY DEF TrueLevels
<1>5. D(Y) = IF new % 2 = 1 THEN D(X) \union {new} ELSE D(X)
  BY <1>1
<1>6. D(X) \subseteq Asked(X, sid) /\ (new % 2 = 1 /\ new \in Asked(X, sid) => new \in D(X))
  OBVIOUS
<1>7. new \notin Asked(X, sid) => Y[Min(About(Y, sid, new))].answer = answer
  BY <1>0, <1>2
<1> HIDE DEF sid, D, new
<1>8. DOMAIN TrueLevels(X) = D(X)
  BY <1>4
<1>9. CASE new % 2 # 1 \/ new \in Asked(X, sid)
  <2>1. D(Y) = D(X)
    BY <1>5, <1>6, <1>9
  <2>2. TrueLevels(Y) = TrueLevels(X)
    BY <1>3, <1>4, <1>6, <2>1
  <2> QED BY <1>6, <1>8, <1>9, <2>2 DEF WithNew, new
<1>10. CASE new % 2 = 1 /\ new \notin Asked(X, sid)
  <2>1. D(Y) = D(X) \union {new} /\ new \notin D(X)
    BY <1>5, <1>6, <1>10
  <2>2. ASSUME NEW level \in D(Y)
        PROVE  <<Y[Min(About(Y, sid, level))].answer[3]>>
                 = IF level = new THEN value ELSE TrueLevels(X)[level]
    <3>1. CASE level = new
      BY <1>7, <1>10, <3>1
    <3>2. CASE level # new
      <4>1. level \in D(X)
        BY <2>1, <3>2
      <4> QED BY <1>3, <1>4, <1>6, <3>2, <4>1
    <3> QED BY <3>1, <3>2
  <2> HIDE DEF value
  <2>3. TrueLevels(Y) = [level \in DOMAIN TrueLevels(X) \union {new} |->
                           IF level = new THEN value ELSE TrueLevels(X)[level]]
    BY <1>4, <1>8, <2>1, <2>2
  <2> QED BY <1>8, <1>10, <2>1, <2>3 DEF WithNew, With, new, value
<1> QED BY <1>9, <1>10

LEMMA DtcsLearned ==
  ASSUME NEW X, NEW Y, NEW N, NEW n, NEW request, NEW answer,
         OneMore(X, Y, N, n, request, answer),
         Revealed(Y, ReadDtcInformation) = Revealed(X, ReadDtcInformation) \union {n}
  PROVE  TrueDtcs(Y) = IF Revealed(X, ReadDtcInformation) = {}
                         THEN [code \in {7, 8} |-> answer[5]] ELSE TrueDtcs(X)
<1> DEFINE sid == ReadDtcInformation
           R == Revealed(X, sid)
<1>1. N \in Nat /\ DOMAIN X \subseteq 1 .. N /\ n \in Nat /\ n > N /\ Y[n].answer = answer
  BY DEF OneMore
<1>2. R \in SUBSET (1 .. N) /\ \A k \in R : Y[k] = X[k]
  BY <1>1, SomethingRevealed DEF Revealed
<1>3. R \in SUBSET (1 .. N) /\ N \in Nat /\ n \in Nat /\ n > N
  BY <1>1, <1>2
<1>4. /\ R = {} => Min(R \union {n}) = n
      /\ R # {} => Min(R \union {n}) = Min(R)
  <2> HIDE DEF R
  <2> QED BY <1>3, LastOfMore
<1>5. R = {} => Min(R \union {n}) = n
  BY <1>4
<1>6. R # {} => Min(R \union {n}) = Min(R) /\ Min(R) \in R
  <2> HIDE DEF R
  <2>1. R # {} => Min(R) \in R
    BY <1>3, SmallestIs
  <2> QED BY <1>4, <2>1
<1>7. TrueDtcs(Y) = [code \in {7, 8} |-> Y[Min(R \union {n})].answer[5]]
  BY DEF TrueDtcs
<1>8. R # {} => TrueDtcs(X) = [code \in {7, 8} |-> X[Min(R)].answer[5]]
  BY DEF TrueDtcs
<1> HIDE DEF R
<1>9. CASE R = {}
  BY <1>1, <1>5, <1>7, <1>9 DEF R
<1>10. CASE R # {}
  <2>1. Y[Min(R \union {n})] = X[Min(R)]
    BY <1>2, <1>6, <1>10
  <2> QED BY <1>7, <1>8, <1>10, <2>1 DEF R
<1> QED BY <1>9, <1>10

LEMMA CodesRead ==
  ASSUME NEW ecu, NEW a, NEW b, NEW v, NEW response, response = <<a, b, 255, 7, v, 8, v>>,
         EcuIs(ecu), NEW codes, codes = {7, 8} \ DOMAIN ecu.dtcs,
         NEW dtcs, dtcs = [code \in DOMAIN ecu.dtcs \union codes |->
                             IF code \in codes THEN v ELSE ecu.dtcs[code]]
  PROVE  ApplyReadDtc(ecu, response) = [ecu EXCEPT !.dtcs = dtcs]
<1> DEFINE pairs == 1 .. (Len(response) - 3) \div 2
           first1(code) == Min({k \in pairs : response[2 * k + 2] = code})
           codes1 == {response[2 * k + 2] : k \in pairs} \ DOMAIN ecu.dtcs
<1>1. Len(response) = 7 /\ response[4] = 7 /\ response[5] = v /\ response[6] = 8 /\ response[7] = v
  OBVIOUS
<1> HIDE DEF first1
<1>2. pairs = {1, 2}
  <2>1. (7 - 3) \div 2 = 2
    OBVIOUS
  <2> QED BY <1>1, <2>1
<1>3. codes1 = codes
  <2>1. {response[2 * k + 2] : k \in pairs} = {response[2 * 1 + 2], response[2 * 2 + 2]}
    BY <1>2
  <2>2. 2 * 1 + 2 = 4 /\ 2 * 2 + 2 = 6
    OBVIOUS
  <2> QED BY <1>1, <2>1, <2>2
<1>4. \A code \in codes : response[2 * first1(code) + 3] = v
  <2>1. \A k \in {1, 2} : (response[2 * k + 2] = 7 <=> k = 1) /\ (response[2 * k + 2] = 8 <=> k = 2)
    BY <1>1
  <2>2. ASSUME NEW code \in {7, 8} PROVE first1(code) \in pairs
    <3> DEFINE S == {k \in pairs : response[2 * k + 2] = code}
    <3>1. S \in SUBSET (1 .. 2) /\ S # {}
      <4>1. code = 7 => 1 \in S
        BY <1>2, <2>1
      <4>2. code = 8 => 2 \in S
        BY <1>2, <2>1
      <4>3. S \subseteq {1, 2}
        BY <1>2
      <4>4. {1, 2} = 1 .. 2
        OBVIOUS
      <4> HIDE DEF S
      <4> QED BY <2>2, <4>1, <4>2, <4>3, <4>4
    <3>2. Min(S) \in S
      BY <3>1, SmallestIs
    <3> QED BY <3>2 DEF first1
  <2>3. \A k \in {1, 2} : response[2 * k + 3] = v
    <3>1. 2 * 1 + 3 = 5 /\ 2 * 2 + 3 = 7
      OBVIOUS
    <3> QED BY <1>1, <3>1
  <2> QED BY <1>2, <2>2, <2>3
<1>5. ApplyReadDtc(ecu, response)
        = [ecu EXCEPT !.dtcs = [code \in DOMAIN @ \union codes1 |->
                                  IF code \in codes1 THEN response[2 * first1(code) + 3]
                                    ELSE @[code]]]
  BY DEF ApplyReadDtc, first1
<1> HIDE DEF codes1
<1>6. [code \in DOMAIN ecu.dtcs \union codes |->
         IF code \in codes THEN response[2 * first1(code) + 3] ELSE ecu.dtcs[code]]
      = [code \in DOMAIN ecu.dtcs \union codes |-> IF code \in codes THEN v ELSE ecu.dtcs[code]]
  BY <1>4
<1> QED BY <1>3, <1>5, <1>6

Known(ecu, exchanges) == EcuIs(ecu) /\ IsWhatItAnswered(ecu, exchanges)

\* An ECU nobody asked is known for its default session.
LEMMA NothingAsked ==
  ASSUME NEW X, DOMAIN X = {}
  PROVE  Known(NewEcu, X)
<1>1. \A sid : Revealed(X, sid) = {}
  BY DEF Revealed
<1>2. \A sid : Asked(X, sid) = {}
  BY <1>1 DEF Asked
<1>3. TrueServices(X) = {} /\ TrueSessions(X) = {1} /\ TrueDtcs(X) = <<>>
  BY <1>1, <1>2 DEF TrueServices, TrueSessions, TrueDtcs
<1>4. TrueDids(X) = <<>>
  BY <1>2 DEF TrueDids
<1>5. TrueLevels(X) = <<>>
  <2>1. {what \in Asked(X, SecurityAccess) : what % 2 = 1} = {}
    BY <1>2
  <2> QED BY <2>1 DEF TrueLevels
<1>6. /\ EcuIs(NewEcu) /\ NewEcu.services = {} /\ NewEcu.sessions = {1} /\ NewEcu.dids = <<>>
      /\ NewEcu.dtcs = <<>> /\ NewEcu.levels = <<>>
  BY DEF NewEcu, EcuIs
<1> QED BY <1>3, <1>4, <1>5, <1>6 DEF Known, IsWhatItAnswered

LEMMA Sids ==
  /\ SessionControl = 16 /\ ReadDtcInformation = 25 /\ ReadDataByIdentifier = 34
  /\ SecurityAccess = 39 /\ NegativeResponseSid = 127 /\ PositiveResponseOffset = 64
  /\ \A sid \in RequestSids :
       sid \in Nat /\ sid < 256 /\ sid + 64 # 127 /\ (sid + 64) % 256 = sid + 64
       /\ sid + 64 \notin RequestSids /\ sid # 127
BY DEF SessionControl, ReadDtcInformation, ReadDataByIdentifier, SecurityAccess,
       NegativeResponseSid, PositiveResponseOffset, RequestSids

LEMMA ThirdOfThree ==
  ASSUME NEW a, NEW b, NEW v, NEW s, s = <<a, b, v>>
  PROVE  SubSeq(s, 3, 3) = <<v>>
<1> DEFINE T == {a, b, v}
<1>1. s \in Seq(T) /\ <<v>> \in Seq(T) /\ Len(<<v>>) = 1 /\ s[3] = v
  OBVIOUS
<1>2. \A i \in 3 .. 3 : s[i] \in T
  OBVIOUS
<1> HIDE DEF T
<1>3. /\ SubSeq(s, 3, 3) \in Seq(T) /\ Len(SubSeq(s, 3, 3)) = 1
      /\ \A i \in 1 .. 1 : SubSeq(s, 3, 3)[i] = s[3 + i - 1]
  BY <1>2, SubSeqProperties
<1>4. \A i \in 1 .. 1 : SubSeq(s, 3, 3)[i] = <<v>>[i]
  BY <1>1, <1>3
<1> QED BY <1>1, <1>3, <1>4, SeqEqual

\* What another exchange reveals is what ApplyPair takes from it.
LEMMA ExchangeIsLearned ==
  ASSUME NEW X, NEW Y, NEW N, NEW n, NEW request, NEW values,
         NEW answer \in FinalAnswers(request, values),
         OneMore(X, Y, N, n, request, answer), IsQuestion(request),
         NEW ecu, Known(ecu, X)
  PROVE  Known(ApplyPair(ecu, request, answer), Y)
<1> DEFINE sid == request[1]
           what == request[2]
           marked == [ecu EXCEPT !.services = @ \union {sid}]
           new == ApplyPair(ecu, request, answer)
<1>1. /\ EcuIs(ecu) /\ ecu.services = TrueServices(X) /\ ecu.sessions = TrueSessions(X)
      /\ ecu.dids = TrueDids(X) /\ ecu.dtcs = TrueDtcs(X) /\ ecu.levels = TrueLevels(X)
  BY DEF Known, IsWhatItAnswered
<1>2. /\ EcuIs(marked) /\ marked.services = TrueServices(X) \union {sid}
      /\ marked.sessions = TrueSessions(X) /\ marked.dids = TrueDids(X)
      /\ marked.dtcs = TrueDtcs(X) /\ marked.levels = TrueLevels(X)
  BY <1>1 DEF EcuIs
<1>3. TrueServices(Y) = TrueServices(X) \union {sid}
  <2>1. /\ DOMAIN Y = DOMAIN X \union {n} /\ \A k \in DOMAIN X : Y[k] = X[k]
        /\ Y[n].request = request
    BY DEF OneMore
  <2> QED BY <2>1 DEF TrueServices
<1>4. /\ sid \in RequestSids /\ sid \in Nat /\ sid + 64 # 127 /\ Len(request) >= 2
      /\ what \in 0 .. 255 /\ Len(request) \in Nat
  <2>1. request \in Seq(0 .. 255) /\ Len(request) >= 2 /\ sid \in RequestSids
    BY DEF IsQuestion
  <2>2. Len(request) \in Nat /\ 2 \in 1 .. Len(request)
    BY <2>1, LenProperties
  <2> QED BY <2>1, <2>2, Sids, ElementOfSeq
<1>5. \A s : Revealed(Y, s) = Revealed(X, s) \union
                {k \in {n} : answer[1] # NegativeResponseSid /\ sid = s}
  BY RevealedIs
<1>6. /\ answer[1] = NegativeResponseSid \/ sid # SessionControl =>
           TrueSessions(Y) = TrueSessions(X)
      /\ answer[1] = NegativeResponseSid \/ sid # ReadDataByIdentifier =>
           TrueDids(Y) = TrueDids(X)
      /\ answer[1] = NegativeResponseSid \/ sid # ReadDtcInformation =>
           TrueDtcs(Y) = TrueDtcs(X)
      /\ answer[1] = NegativeResponseSid \/ sid # SecurityAccess =>
           TrueLevels(Y) = TrueLevels(X)
  <2>1. \A s : answer[1] = NegativeResponseSid \/ sid # s => Revealed(Y, s) = Revealed(X, s)
    BY <1>5
  <2> QED BY <2>1, KnowledgeStays
<1>7. \A s : answer[1] # NegativeResponseSid /\ sid = s => Revealed(Y, s) = Revealed(X, s) \union {n}
  BY <1>5
<1> HIDE DEF marked
<1>8. CASE Refuses(request, answer)
  <2>1. answer[1] = NegativeResponseSid
    BY <1>8 DEF Refuses
  <2>2. new = marked
    BY <2>1 DEF ApplyPair, marked
  <2> QED BY <1>2, <1>3, <1>6, <2>1, <2>2 DEF Known, IsWhatItAnswered
<1>9. CASE Confirms(request, answer)
  <2>1. sid = SessionControl /\ answer[1] = sid + PositiveResponseOffset
    BY <1>9 DEF Confirms
  <2>2. answer[1] # NegativeResponseSid
    BY <1>4, <2>1, Sids
  <2>3. new = ApplySessionControl(marked, request)
    BY <2>1, <2>2, Sids DEF ApplyPair, marked
  <2>4. TrueSessions(Y) = TrueSessions(X) \union ({what % 128} \intersect SessionTypes)
    BY <1>7, <2>1, <2>2, SessionLearned
  <2> DEFINE session == what % 128
  <2>5. new = IF session \in SessionTypes
                THEN [marked EXCEPT !.sessions = @ \union {session}] ELSE marked
    BY <1>4, <2>3 DEF ApplySessionControl
  <2> HIDE DEF session, new
  <2>6. /\ EcuIs(new) /\ new.services = marked.services /\ new.dids = marked.dids
        /\ new.dtcs = marked.dtcs /\ new.levels = marked.levels
        /\ new.sessions = marked.sessions \union ({session} \intersect SessionTypes)
    <3>1. CASE session \in SessionTypes
      BY <1>2, <2>5, <3>1 DEF EcuIs
    <3>2. CASE session \notin SessionTypes
      BY <1>2, <2>5, <3>2
    <3> QED BY <3>1, <3>2
  <2>7. TrueDids(Y) = TrueDids(X) /\ TrueDtcs(Y) = TrueDtcs(X) /\ TrueLevels(Y) = TrueLevels(X)
    BY <1>6, <2>1, Sids
  <2> QED BY <1>2, <1>3, <2>4, <2>6, <2>7 DEF Known, IsWhatItAnswered, session, new
<1>10. CASE ReportsCodes(request, answer)
  <2>1. PICK v : answer = <<sid + PositiveResponseOffset, what, 255, 7, v, 8, v>>
    BY <1>10 DEF ReportsCodes
  <2>2. sid = ReadDtcInformation /\ answer[1] = sid + PositiveResponseOffset /\ answer[5] = v
    BY <1>10, <2>1 DEF ReportsCodes
  <2>3. answer[1] # NegativeResponseSid
    BY <1>4, <2>2, Sids
  <2>4. new = ApplyReadDtc(marked, answer)
    BY <2>2, <2>3, Sids DEF ApplyPair, marked
  <2>5. TrueDtcs(Y) = IF Revealed(X, ReadDtcInformation) = {}
                        THEN [code \in {7, 8} |-> v] ELSE TrueDtcs(X)
    BY <1>7, <2>2, <2>3, DtcsLearned
  <2> DEFINE codes == {7, 8} \ DOMAIN marked.dtcs
             d == [code \in DOMAIN marked.dtcs \union codes |->
                     IF code \in codes THEN v ELSE marked.dtcs[code]]
  <2>6. new = [marked EXCEPT !.dtcs = d]
    <3>1. EcuIs(marked)
      BY <1>2
    <3>2. codes = {7, 8} \ DOMAIN marked.dtcs
          /\ d = [code \in DOMAIN marked.dtcs \union codes |->
                    IF code \in codes THEN v ELSE marked.dtcs[code]]
      OBVIOUS
    <3> HIDE DEF codes, d, new
    <3>3. ApplyReadDtc(marked, answer) = [marked EXCEPT !.dtcs = d]
      BY <2>1, <3>1, <3>2, CodesRead
    <3> QED BY <2>4, <3>3
  <2>7. d = TrueDtcs(Y)
    <3>1. CASE Revealed(X, ReadDtcInformation) = {}
      <4>1. marked.dtcs = <<>>
        BY <1>2, <3>1 DEF TrueDtcs
      <4>2. DOMAIN marked.dtcs = {}
        BY <4>1
      <4>3. codes = {7, 8}
        BY <4>2
      <4> QED BY <2>5, <3>1, <4>2, <4>3
    <3>2. CASE Revealed(X, ReadDtcInformation) # {}
      <4>1. marked.dtcs = TrueDtcs(X) /\ TrueDtcs(Y) = TrueDtcs(X)
        BY <1>2, <2>5, <3>2
      <4>2. TrueDtcs(X) = [code \in {7, 8} |->
                             X[Min(Revealed(X, ReadDtcInformation))].answer[5]]
        BY <3>2 DEF TrueDtcs
      <4>3. DOMAIN marked.dtcs = {7, 8} /\ marked.dtcs = [code \in {7, 8} |-> marked.dtcs[code]]
        BY <4>1, <4>2
      <4>4. codes = {}
        BY <4>3
      <4>5. d = [code \in {7, 8} |-> marked.dtcs[code]]
        BY <4>3, <4>4
      <4> QED BY <4>1, <4>3, <4>5
    <3> QED BY <3>1, <3>2
  <2> HIDE DEF d, new
  <2>8. /\ EcuIs(new) /\ new.services = marked.services /\ new.dids = marked.dids
        /\ new.dtcs = d /\ new.levels = marked.levels /\ new.sessions = marked.sessions
    BY <1>2, <2>6 DEF EcuIs
  <2>9. TrueDids(Y) = TrueDids(X) /\ TrueSessions(Y) = TrueSessions(X)
        /\ TrueLevels(Y) = TrueLevels(X)
    BY <1>6, <2>2, Sids
  <2> QED BY <1>2, <1>3, <2>7, <2>8, <2>9 DEF Known, IsWhatItAnswered, new
<1>11. CASE ReportsValue(request, answer)
  <2>1. PICK v : answer = <<sid + PositiveResponseOffset, what, v>>
    BY <1>11 DEF ReportsValue
  <2>2. /\ sid # SessionControl /\ sid # ReadDtcInformation
        /\ answer[1] = sid + PositiveResponseOffset /\ answer[2] = what /\ answer[3] = v
        /\ Len(answer) = 3 /\ SubSeq(answer, 3, Len(answer)) = <<v>>
    <3>1. SubSeq(answer, 3, 3) = <<v>>
      BY <2>1, ThirdOfThree
    <3> QED BY <1>11, <2>1, <3>1 DEF ReportsValue
  <2>3. answer[1] # NegativeResponseSid
    BY <1>4, <2>2, Sids
  <2>4. TrueSessions(Y) = TrueSessions(X) /\ TrueDtcs(Y) = TrueDtcs(X)
    BY <1>6, <2>2
  <2>5. CASE sid = ReadDataByIdentifier
    <3>1. new = ApplyReadDataByIdentifier(marked, request, answer)
      BY <2>2, <2>3, <2>5, Sids DEF ApplyPair, marked
    <3>2. new = [marked EXCEPT !.dids = With(@, what, <<v>>)]
      <4>1. new = [marked EXCEPT !.dids = With(@, answer[2], SubSeq(answer, 3, Len(answer)))]
        BY <1>4, <2>2, <3>1 DEF ApplyReadDataByIdentifier
      <4> QED BY <2>2, <4>1
    <3>3. TrueDids(Y) = With(TrueDids(X), what, <<v>>)
      BY <1>7, <2>2, <2>3, <2>5, DidLearned
    <3> HIDE DEF new
    <3>4. /\ EcuIs(new) /\ new.services = marked.services /\ new.dtcs = marked.dtcs
          /\ new.dids = With(marked.dids, what, <<v>>)
          /\ new.levels = marked.levels /\ new.sessions = marked.sessions
      BY <1>2, <3>2 DEF EcuIs
    <3>5. TrueLevels(Y) = TrueLevels(X)
      BY <1>6, <2>5, Sids
    <3> QED BY <1>2, <1>3, <2>4, <3>3, <3>4, <3>5 DEF Known, IsWhatItAnswered, new
  <2>6. CASE sid = SecurityAccess
    <3>1. new = ApplySecurityAccess(marked, request, answer)
      BY <2>2, <2>3, <2>6, Sids DEF ApplyPair, marked
    <3>2. new = IF what % 2 = 1
                  THEN [marked EXCEPT !.levels = WithNew(@, what, <<v>>)] ELSE marked
      BY <1>4, <2>2, <3>1 DEF ApplySecurityAccess
    <3>3. TrueLevels(Y) = IF what % 2 = 1 THEN WithNew(TrueLevels(X), what, <<v>>)
                            ELSE TrueLevels(X)
      BY <1>7, <2>2, <2>3, <2>6, LevelLearned
    <3> DEFINE odd == what % 2 = 1
    <3> HIDE DEF new, odd
    <3>4. /\ EcuIs(new) /\ new.services = marked.services /\ new.dtcs = marked.dtcs
          /\ new.dids = marked.dids /\ new.sessions = marked.sessions
          /\ new.levels = IF odd THEN WithNew(marked.levels, what, <<v>>) ELSE marked.levels
      BY <1>2, <3>2 DEF EcuIs, odd
    <3>5. TrueDids(Y) = TrueDids(X)
      BY <1>6, <2>6, Sids
    <3> QED BY <1>2, <1>3, <2>4, <3>3, <3>4, <3>5 DEF Known, IsWhatItAnswered, new, odd
  <2>7. CASE sid # ReadDataByIdentifier /\ sid # SecurityAccess
    <3>1. new = marked
      BY <2>2, <2>3, <2>7 DEF ApplyPair, marked
    <3>2. TrueDids(Y) = TrueDids(X) /\ TrueLevels(Y) = TrueLevels(X)
      BY <1>6, <2>7
    <3> QED BY <1>2, <1>3, <2>4, <3>1, <3>2 DEF Known, IsWhatItAnswered
  <2> QED BY <2>5, <2>6, <2>7
<1> QED BY <1>8, <1>9, <1>10, <1>11, AnswersAre

-----------------------------------------------------------------------------
(***************************************************************************)
(* Sorting: where InsertAt puts an element, and what order the rest is in. *)
(***************************************************************************)

\* t is s with x behind its first c elements.
Inserted(t, s, x, c) ==
  /\ c \in 0 .. Len(s) /\ Len(t) = Len(s) + 1
  /\ \A i \in 1 .. c : t[i] = s[i]
  /\ t[c + 1] = x
  /\ \A i \in c + 1 .. Len(s) : t[i + 1] = s[i]

LEMMA InsertAtInserts ==
  ASSUME NEW T, NEW s \in Seq(T), NEW x \in T, NEW c \in 0 .. Len(s)
  PROVE  /\ InsertAt(s, c + 1, x) \in Seq(T)
         /\ Inserted(InsertAt(s, c + 1, x), s, x, c)
<1> DEFINE L == Len(s)
           front == SubSeq(s, 1, c)
           back == SubSeq(s, c + 1, L)
           t == InsertAt(s, c + 1, x)
<1>1. L \in Nat /\ \A i \in 1 .. L : s[i] \in T
  BY LenProperties, ElementOfSeq
<1>2. c \in 0 .. L /\ c \in Nat /\ c <= L
  BY <1>1
<1>3. t = (front \o <<x>>) \o back
  <2>1. (c + 1) - 1 = c
    BY <1>2
  <2> QED BY <2>1 DEF InsertAt
<1> HIDE DEF L
<1>4. front \in Seq(T) /\ Len(front) = c /\ \A i \in 1 .. c : front[i] = s[i]
  <2>1. 1 \in Int /\ c \in Int /\ \A i \in 1 .. c : s[i] \in T
    BY <1>1, <1>2
  <2>2. /\ front \in Seq(T) /\ Len(front) = (IF 1 <= c THEN c - 1 + 1 ELSE 0)
        /\ \A i \in 1 .. c - 1 + 1 : front[i] = s[1 + i - 1]
    BY <2>1, SubSeqProperties
  <2>3. (IF 1 <= c THEN c - 1 + 1 ELSE 0) = c /\ c - 1 + 1 = c /\ \A i \in 1 .. c : 1 + i - 1 = i
    BY <1>2
  <2> HIDE DEF front
  <2> QED BY <2>2, <2>3
<1>5. back \in Seq(T) /\ Len(back) = L - c /\ \A i \in 1 .. L - c : back[i] = s[c + i]
  <2>1. c + 1 \in Int /\ L \in Int /\ \A i \in c + 1 .. L : s[i] \in T
    BY <1>1, <1>2
  <2>2. /\ back \in Seq(T) /\ Len(back) = (IF c + 1 <= L THEN L - (c + 1) + 1 ELSE 0)
        /\ \A i \in 1 .. L - (c + 1) + 1 : back[i] = s[(c + 1) + i - 1]
    BY <2>1, SubSeqProperties
  <2>3. (IF c + 1 <= L THEN L - (c + 1) + 1 ELSE 0) = L - c /\ L - (c + 1) + 1 = L - c
        /\ \A i \in 1 .. L - c : (c + 1) + i - 1 = c + i
    BY <1>1, <1>2
  <2> HIDE DEF back
  <2> QED BY <2>2, <2>3
<1> HIDE DEF front, back, t
<1> DEFINE u == front \o <<x>>
<1>6. /\ u \in Seq(T) /\ Len(u) = c + 1
      /\ \A i \in 1 .. c : u[i] = front[i]
      /\ u[c + 1] = x
  <2>1. <<x>> \in Seq(T) /\ Len(<<x>>) = 1 /\ <<x>>[1] = x
    OBVIOUS
  <2>2. /\ u \in Seq(T) /\ Len(u) = Len(front) + Len(<<x>>)
        /\ \A i \in 1 .. Len(front) + Len(<<x>>) :
             u[i] = IF i <= Len(front) THEN front[i] ELSE <<x>>[i - Len(front)]
    BY <1>4, <2>1, ConcatProperties
  <2> HIDE DEF u
  <2>3. \A i \in 1 .. c + 1 : u[i] = IF i <= c THEN front[i] ELSE <<x>>[i - c]
    BY <1>4, <2>1, <2>2
  <2>4. c + 1 \in 1 .. c + 1 /\ ~(c + 1 <= c) /\ (c + 1) - c = 1
    BY <1>2
  <2>5. u[c + 1] = x
    BY <2>1, <2>3, <2>4
  <2>6. \A i \in 1 .. c : i \in 1 .. c + 1 /\ i <= c
    BY <1>2
  <2> QED BY <1>4, <2>1, <2>2, <2>3, <2>5, <2>6
<1> HIDE DEF u
<1>7. /\ t \in Seq(T) /\ Len(t) = Len(u) + Len(back)
      /\ \A i \in 1 .. Len(u) + Len(back) : t[i] = IF i <= Len(u) THEN u[i] ELSE back[i - Len(u)]
  <2>1. t = u \o back
    BY <1>3 DEF u
  <2> QED BY <1>5, <1>6, <2>1, ConcatProperties
<1>8. Len(u) + Len(back) = L + 1
  BY <1>1, <1>2, <1>5, <1>6
<1>9. \A i \in 1 .. L + 1 : t[i] = IF i <= c + 1 THEN u[i] ELSE back[i - (c + 1)]
  BY <1>6, <1>7, <1>8
<1>10. \A i \in 1 .. c : t[i] = s[i]
  <2> TAKE i \in 1 .. c
  <2>1. i \in 1 .. L + 1 /\ i <= c + 1
    BY <1>1, <1>2
  <2> QED BY <1>4, <1>6, <1>9, <2>1
<1>11. t[c + 1] = x
  <2>1. c + 1 \in 1 .. L + 1 /\ c + 1 <= c + 1
    BY <1>1, <1>2
  <2> QED BY <1>6, <1>9, <2>1
<1>12. \A i \in c + 1 .. L : t[i + 1] = s[i]
  <2> TAKE i \in c + 1 .. L
  <2>1. i + 1 \in 1 .. L + 1 /\ ~(i + 1 <= c + 1) /\ (i + 1) - (c + 1) = i - c /\ i - c \in 1 .. L - c
        /\ c + (i - c) = i
    BY <1>1, <1>2
  <2> QED BY <1>5, <1>9, <2>1
<1> QED BY <1>2, <1>7, <1>8, <1>10, <1>11, <1>12 DEF Inserted, L, t

\* A set of places that holds every place before one it holds.
LEMMA FirstPlaces ==
  ASSUME NEW L \in Nat, NEW B \in SUBSET (1 .. L), \A k \in B : \A i \in 1 .. k : i \in B
  PROVE  Cardinality(B) \in 0 .. L /\ B = 1 .. Cardinality(B)
<1>1. CASE B = {}
  BY <1>1, FS_EmptySet
<1>2. CASE B # {}
  <2> DEFINE m == Max(B)
  <2>1. m \in B /\ \A y \in B : y <= m
    BY <1>2, LargestIs
  <2> HIDE DEF m
  <2>2. m \in 1 .. L
    BY <2>1
  <2>3. B = 1 .. m
    <3>1. \A i \in 1 .. m : i \in B
      BY <2>1
    <3>2. \A y \in B : y \in 1 .. m
      BY <2>1
    <3> QED BY <3>1, <3>2
  <2>4. Cardinality(1 .. m) = m
    <3>1. Cardinality(1 .. m) = IF 1 > m THEN 0 ELSE m - 1 + 1
      BY <2>2, FS_Interval
    <3> QED BY <2>2, <3>1
  <2> QED BY <2>2, <2>3, <2>4
<1> QED BY <1>1, <1>2

\* Sorting behind all that are not greater.
LEMMA SortedInserts ==
  ASSUME NEW T, NEW s \in Seq(T), NEW x \in T, NEW rank \in [T -> Int],
         \A i, j \in 1 .. Len(s) : i < j => rank[s[i]] <= rank[s[j]],
         NEW before, before = {k \in DOMAIN s : rank[s[k]] <= rank[x]},
         NEW t, t = InsertAt(s, Cardinality(before) + 1, x)
  PROVE  /\ t \in Seq(T)
         /\ \E c \in 0 .. Len(s) :
              /\ Inserted(t, s, x, c)
              /\ \A i \in 1 .. c : rank[s[i]] <= rank[x]
              /\ \A i \in c + 1 .. Len(s) : rank[x] < rank[s[i]]
<1> DEFINE L == Len(s)
           c == Cardinality(before)
<1>1. L \in Nat /\ DOMAIN s = 1 .. L /\ \A i \in 1 .. L : s[i] \in T /\ rank[s[i]] \in Int
  <2>1. L \in Nat /\ DOMAIN s = 1 .. L /\ \A i \in 1 .. L : s[i] \in T
    BY LenProperties, ElementOfSeq
  <2> QED BY <2>1
<1>2. rank[x] \in Int
  OBVIOUS
<1>3. before \in SUBSET (1 .. L)
  BY <1>1
<1>4. ASSUME NEW k \in before, NEW i \in 1 .. k PROVE i \in before
  <2>1. k \in 1 .. L /\ i \in 1 .. L /\ rank[s[k]] <= rank[x]
    BY <1>1, <1>3
  <2>2. rank[s[i]] <= rank[s[k]]
    <3>1. CASE i = k
      BY <1>1, <2>1, <3>1
    <3>2. CASE i # k
      BY <2>1, <3>2
    <3> QED BY <3>1, <3>2
  <2>3. rank[s[i]] <= rank[x]
    BY <1>1, <1>2, <2>1, <2>2
  <2> QED BY <1>1, <2>1, <2>3
<1>5. c \in 0 .. L /\ before = 1 .. c
  <2> HIDE DEF L
  <2> QED BY <1>1, <1>3, <1>4, FirstPlaces
<1>6. t \in Seq(T) /\ Inserted(t, s, x, c)
  BY <1>5, InsertAtInserts
<1> HIDE DEF c
<1>7. \A i \in 1 .. c : rank[s[i]] <= rank[x]
  BY <1>5
<1>8. ASSUME NEW i \in c + 1 .. L PROVE rank[x] < rank[s[i]]
  <2>1. i \in 1 .. L /\ i \notin before
    BY <1>1, <1>5
  <2>2. ~(rank[s[i]] <= rank[x])
    BY <1>1, <2>1
  <2> QED BY <1>1, <1>2, <2>1, <2>2
<1> QED BY <1>5, <1>6, <1>7, <1>8

\* Where the element i of t comes from.
Stood(t, s, x, c, i) ==
  \/ i \in 1 .. c /\ i \in 1 .. Len(s) /\ t[i] = s[i]
  \/ i = c + 1 /\ t[i] = x
  \/ i - 1 \in c + 1 .. Len(s) /\ i - 1 \in 1 .. Len(s) /\ t[i] = s[i - 1]

LEMMA InsertedFrom ==
  ASSUME NEW s, NEW t, NEW x, Len(s) \in Nat, NEW c, Inserted(t, s, x, c), NEW i \in 1 .. Len(t)
  PROVE  Stood(t, s, x, c, i)
<1> DEFINE L == Len(s)
           M == Len(t)
<1>1. c \in 0 .. L /\ M = L + 1 /\ L \in Nat /\ i \in 1 .. M
  BY DEF Inserted
<1>2. /\ \A k \in 1 .. c : t[k] = s[k]
      /\ t[c + 1] = x
      /\ \A k \in c + 1 .. L : t[k + 1] = s[k]
  BY DEF Inserted
<1> HIDE DEF L, M
<1>3. CASE i <= c
  <2>1. i \in 1 .. c /\ i \in 1 .. L
    BY <1>1, <1>3
  <2> QED BY <1>2, <2>1 DEF L, Stood
<1>4. CASE i = c + 1
  BY <1>2, <1>4 DEF Stood
<1>5. CASE i > c + 1
  <2>1. i - 1 \in c + 1 .. L /\ i - 1 \in 1 .. L /\ (i - 1) + 1 = i
    BY <1>1, <1>5
  <2>2. t[(i - 1) + 1] = s[i - 1]
    BY <1>2, <2>1
  <2> QED BY <2>1, <2>2 DEF L, Stood
<1>6. i <= c \/ i = c + 1 \/ i > c + 1
  BY <1>1
<1> QED BY <1>3, <1>4, <1>5, <1>6 DEF Stood, L

LEMMA InsertedInOrder ==
  ASSUME NEW s, NEW t, NEW x, Len(s) \in Nat, NEW c, Inserted(t, s, x, c), NEW R,
         \A i, j \in 1 .. Len(s) : i < j => <<s[i], s[j]>> \in R,
         \A i \in 1 .. c : <<s[i], x>> \in R,
         \A i \in c + 1 .. Len(s) : <<x, s[i]>> \in R
  PROVE  \A i, j \in 1 .. Len(t) : i < j => <<t[i], t[j]>> \in R
<1> SUFFICES ASSUME NEW i \in 1 .. Len(t), NEW j \in 1 .. Len(t), i < j
             PROVE  <<t[i], t[j]>> \in R
  OBVIOUS
<1> DEFINE L == Len(s)
<1>1. c \in 0 .. L /\ L \in Nat /\ Len(t) = L + 1
  BY DEF Inserted
<1>0. Stood(t, s, x, c, i) /\ Stood(t, s, x, c, j)
  BY InsertedFrom
<1>2. \/ i \in 1 .. c /\ i \in 1 .. L /\ t[i] = s[i]
      \/ i = c + 1 /\ t[i] = x
      \/ i - 1 \in c + 1 .. L /\ i - 1 \in 1 .. L /\ t[i] = s[i - 1]
  BY <1>0 DEF Stood
<1>3. \/ j \in 1 .. c /\ j \in 1 .. L /\ t[j] = s[j]
      \/ j = c + 1 /\ t[j] = x
      \/ j - 1 \in c + 1 .. L /\ j - 1 \in 1 .. L /\ t[j] = s[j - 1]
  BY <1>0 DEF Stood
<1>4. /\ \A k, l \in 1 .. L : k < l => <<s[k], s[l]>> \in R
      /\ \A k \in 1 .. c : <<s[k], x>> \in R
      /\ \A k \in c + 1 .. L : <<x, s[k]>> \in R
  OBVIOUS
<1> HIDE DEF L
<1>5. CASE i \in 1 .. c /\ i \in 1 .. L /\ t[i] = s[i]
  <2>1. CASE j \in 1 .. c /\ j \in 1 .. L /\ t[j] = s[j]
    BY <1>4, <1>5, <2>1
  <2>2. CASE j = c + 1 /\ t[j] = x
    BY <1>4, <1>5, <2>2
  <2>3. CASE j - 1 \in c + 1 .. L /\ j - 1 \in 1 .. L /\ t[j] = s[j - 1]
    <3>1. i < j - 1
      BY <1>1, <1>5, <2>3
    <3> QED BY <1>4, <1>5, <2>3, <3>1
  <2> QED BY <1>3, <2>1, <2>2, <2>3
<1>6. CASE i = c + 1 /\ t[i] = x
  <2>1. j - 1 \in c + 1 .. L /\ t[j] = s[j - 1]
    BY <1>1, <1>3, <1>6
  <2> QED BY <1>4, <1>6, <2>1
<1>7. CASE i - 1 \in c + 1 .. L /\ i - 1 \in 1 .. L /\ t[i] = s[i - 1]
  <2>1. j - 1 \in 1 .. L /\ t[j] = s[j - 1] /\ i - 1 < j - 1
    BY <1>1, <1>3, <1>7
  <2> QED BY <1>4, <1>7, <2>1
<1> QED BY <1>2, <1>5, <1>6, <1>7

Holding(t, s, x) ==
  /\ \E i \in 1 .. Len(t) : t[i] = x
  /\ \A k \in 1 .. Len(s) : \E i \in 1 .. Len(t) : t[i] = s[k]

\* Every element of s, and the new one, are in t.
LEMMA InsertedHolds ==
  ASSUME NEW s, NEW t, NEW x, Len(s) \in Nat, NEW c, Inserted(t, s, x, c)
  PROVE  Holding(t, s, x)
<1> DEFINE L == Len(s)
<1>1. c \in 0 .. L /\ L \in Nat /\ Len(t) = L + 1
  BY DEF Inserted
<1>2. /\ \A k \in 1 .. c : t[k] = s[k]
      /\ t[c + 1] = x
      /\ \A k \in c + 1 .. L : t[k + 1] = s[k]
  BY DEF Inserted
<1> HIDE DEF L
<1>3. c + 1 \in 1 .. Len(t)
  BY <1>1
<1>4. ASSUME NEW k \in 1 .. L PROVE \E i \in 1 .. Len(t) : t[i] = s[k]
  <2>1. CASE k <= c
    <3>1. k \in 1 .. c /\ k \in 1 .. Len(t)
      BY <1>1, <2>1
    <3> QED BY <1>2, <3>1
  <2>2. CASE k > c
    <3>1. k \in c + 1 .. L /\ k + 1 \in 1 .. Len(t)
      BY <1>1, <2>2
    <3> QED BY <1>2, <3>1
  <2> QED BY <1>1, <2>1, <2>2
<1> QED BY <1>2, <1>3, <1>4 DEF L, Holding

-----------------------------------------------------------------------------
OfFlow(ps, flow) == {k \in 1 .. Len(ps) : ps[k].flow = flow}

\* By sequence number, and then by place in the capture.
SegmentOrder(T) ==
  {pair \in T \X T : \/ pair[1].sequence < pair[2].sequence
                     \/ pair[1].sequence = pair[2].sequence /\ pair[1].at < pair[2].at}

\* segs are those of the first n packets that are of a direction.
Sorts(segs, flow, n) ==
  /\ segs \in Seq({Captured(k) : k \in 1 .. Len(packets)})
  /\ \A i \in 1 .. Len(segs) :
       segs[i].at \in 1 .. n /\ packets[segs[i].at].flow = flow /\ segs[i] = Captured(segs[i].at)
  /\ \A k \in 1 .. n : packets[k].flow = flow => \E i \in 1 .. Len(segs) : segs[i] = Captured(k)
  /\ \A i, j \in 1 .. Len(segs) :
       i < j => <<segs[i], segs[j]>> \in SegmentOrder({Captured(k) : k \in 1 .. Len(packets)})

LEMMA SortStep ==
  ASSUME NEW flow, Len(packets) \in Nat, \A k \in 1 .. Len(packets) : packets[k].sequence \in Nat,
         NEW n \in Nat, n + 1 <= Len(packets), packets[n + 1].flow = flow,
         NEW s, Sorts(s, flow, n)
  PROVE  Sorts(Sorted(s, Captured(n + 1)), flow, n + 1)
<1> DEFINE T == {Captured(k) : k \in 1 .. Len(packets)}
           R == SegmentOrder(T)
           x == Captured(n + 1)
           rank == [y \in T |-> y.sequence]
           before == {k \in DOMAIN s : rank[s[k]] <= rank[x]}
           t == Sorted(s, x)
<1>1. n + 1 \in 1 .. Len(packets) /\ n + 1 \in Nat /\ n < n + 1
  BY Zenon, SMT
<1>2. x \in T /\ x.at = n + 1 /\ x = Captured(x.at)
  BY <1>1 DEF Captured
<1>3. \A y \in T : y.sequence \in Nat /\ y.at \in Nat
  BY DEF Captured
<1>4. /\ s \in Seq(T) /\ Len(s) \in Nat /\ DOMAIN s = 1 .. Len(s) /\ \A i \in 1 .. Len(s) : s[i] \in T
      /\ \A i \in 1 .. Len(s) :
           s[i].at \in 1 .. n /\ packets[s[i].at].flow = flow /\ s[i] = Captured(s[i].at)
      /\ \A k \in 1 .. n : packets[k].flow = flow => \E i \in 1 .. Len(s) : s[i] = Captured(k)
      /\ \A i, j \in 1 .. Len(s) : i < j => <<s[i], s[j]>> \in R
  BY LenProperties, ElementOfSeq DEF Sorts
<1>5. \A y, z \in T : <<y, z>> \in R <=>
         y.sequence < z.sequence \/ (y.sequence = z.sequence /\ y.at < z.at)
  BY DEF SegmentOrder
<1> HIDE DEF T, R, x
<1>6. rank \in [T -> Int] /\ \A y \in T : rank[y] = y.sequence
  BY <1>3
<1>7. before = {k \in DOMAIN s : s[k].sequence <= x.sequence}
  BY <1>2, <1>4, <1>6
<1>8. t = InsertAt(s, Cardinality(before) + 1, x)
  BY <1>7 DEF Sorted
<1> HIDE DEF rank, before, t
<1>9. ASSUME NEW i \in 1 .. Len(s), NEW j \in 1 .. Len(s), i < j PROVE rank[s[i]] <= rank[s[j]]
  <2>1. s[i] \in T /\ s[j] \in T /\ <<s[i], s[j]>> \in R
    BY <1>4, <1>9
  <2>2. s[i].sequence <= s[j].sequence
    BY <1>3, <1>5, <2>1
  <2> QED BY <1>6, <2>1, <2>2
<1>10. /\ t \in Seq(T)
       /\ \E c \in 0 .. Len(s) :
            /\ Inserted(t, s, x, c)
            /\ \A i \in 1 .. c : rank[s[i]] <= rank[x]
            /\ \A i \in c + 1 .. Len(s) : rank[x] < rank[s[i]]
  <2>1. before = {k \in DOMAIN s : rank[s[k]] <= rank[x]}
    BY DEF before
  <2>2. x \in T /\ s \in Seq(T) /\ rank \in [T -> Int]
    BY <1>2, <1>4, <1>6
  <2> QED BY <1>8, <1>9, <2>1, <2>2, SortedInserts
<1>11. PICK c \in 0 .. Len(s) :
         /\ Inserted(t, s, x, c)
         /\ \A i \in 1 .. c : rank[s[i]] <= rank[x]
         /\ \A i \in c + 1 .. Len(s) : rank[x] < rank[s[i]]
  BY <1>10
<1>12. \A i \in 1 .. c : <<s[i], x>> \in R
  <2> TAKE i \in 1 .. c
  <2>1. i \in 1 .. Len(s)
    BY <1>4
  <2>2. s[i] \in T /\ s[i].at \in 1 .. n /\ rank[s[i]] <= rank[x]
    BY <1>4, <1>11, <2>1
  <2> QED BY <1>1, <1>2, <1>3, <1>5, <1>6, <2>2
<1>13. \A i \in c + 1 .. Len(s) : <<x, s[i]>> \in R
  <2> TAKE i \in c + 1 .. Len(s)
  <2>1. i \in 1 .. Len(s)
    BY <1>4
  <2>2. s[i] \in T /\ rank[x] < rank[s[i]]
    BY <1>4, <1>11, <2>1
  <2> QED BY <1>2, <1>5, <1>6, <2>2
<1>14. \A i, j \in 1 .. Len(t) : i < j => <<t[i], t[j]>> \in R
  BY <1>4, <1>11, <1>12, <1>13, InsertedInOrder
<1>15. ASSUME NEW i \in 1 .. Len(t)
       PROVE  t[i].at \in 1 .. n + 1 /\ packets[t[i].at].flow = flow /\ t[i] = Captured(t[i].at)
  <2>1. t[i] = x \/ \E k \in 1 .. Len(s) : t[i] = s[k]
    <3>1. Stood(t, s, x, c, i)
      BY <1>4, <1>11, InsertedFrom
    <3> QED BY <3>1 DEF Stood
  <2>2. CASE t[i] = x
    BY <1>1, <1>2, <2>2
  <2>3. CASE \E k \in 1 .. Len(s) : t[i] = s[k]
    BY <1>1, <1>4, <2>3
  <2> QED BY <2>1, <2>2, <2>3
<1>16. ASSUME NEW k \in 1 .. n + 1, packets[k].flow = flow
       PROVE  \E i \in 1 .. Len(t) : t[i] = Captured(k)
  <2>1. /\ \E i \in 1 .. Len(t) : t[i] = x
        /\ \A l \in 1 .. Len(s) : \E i \in 1 .. Len(t) : t[i] = s[l]
    <3>1. Holding(t, s, x)
      BY <1>4, <1>11, InsertedHolds
    <3> QED BY <3>1 DEF Holding
  <2>2. CASE k = n + 1
    BY <2>1, <2>2 DEF x
  <2>3. CASE k # n + 1
    <3>1. k \in 1 .. n
      BY <1>1, <2>3
    <3>2. PICK l \in 1 .. Len(s) : s[l] = Captured(k)
      BY <1>4, <1>16, <3>1
    <3> QED BY <2>1, <3>2
  <2> QED BY <2>2, <2>3
<1>17. Sorts(t, flow, n + 1)
  BY <1>10, <1>14, <1>15, <1>16 DEF Sorts, T, R
<1> QED BY <1>17 DEF t, x

\* The segments of a direction are all of them, in order.
LEMMA FlowSegmentsAreSorted ==
  ASSUME NEW flow, Len(packets) \in Nat, \A k \in 1 .. Len(packets) : packets[k].sequence \in Nat
  PROVE  Sorts(FlowSegments(flow), flow, Len(packets))
<1> DEFINE L == Len(packets)
<1>1. PICK j : /\ j[0] = <<>> /\ FlowSegments(flow) = j[L]
               /\ \A k \in 1 .. L :
                    j[k] = IF packets[k].flow = flow THEN Sorted(j[k - 1], Captured(k)) ELSE j[k - 1]
  BY SortRounds
<1> DEFINE A == {n \in Nat : n <= L => Sorts(j[n], flow, n)}
<1>2. 0 \in A
  <2>1. <<>> \in Seq({Captured(k) : k \in 1 .. Len(packets)}) /\ Len(<<>>) = 0 /\ 1 .. 0 = {}
    BY EmptySeq
  <2>2. Sorts(<<>>, flow, 0)
    BY <2>1 DEF Sorts
  <2> QED BY <1>1, <2>2
<1>3. ASSUME NEW n \in Nat, n \in A PROVE n + 1 \in A
  <2>1. SUFFICES ASSUME n + 1 <= L PROVE Sorts(j[n + 1], flow, n + 1)
    OBVIOUS
  <2>2. n <= L /\ n + 1 \in 1 .. L /\ (n + 1) - 1 = n
    BY <2>1
  <2>3. Sorts(j[n], flow, n)
    BY <1>3, <2>2
  <2>4. CASE packets[n + 1].flow = flow
    <3>1. j[n + 1] = Sorted(j[n], Captured(n + 1))
      BY <1>1, <2>2, <2>4
    <3> QED BY <2>1, <2>3, <2>4, <3>1, SortStep
  <2>5. CASE packets[n + 1].flow # flow
    <3>1. j[n + 1] = j[n]
      BY <1>1, <2>2, <2>5
    <3>2. /\ \A k \in 1 .. n + 1 : packets[k].flow = flow => k \in 1 .. n
          /\ 1 .. n \subseteq 1 .. n + 1
      BY <2>5
    <3> QED BY <2>3, <3>1, <3>2 DEF Sorts
  <2> QED BY <2>4, <2>5
<1> HIDE DEF A
<1>4. L \in A
  BY <1>2, <1>3, NatBySets
<1> QED BY <1>1, <1>4 DEF A

-----------------------------------------------------------------------------
(***************************************************************************)
(* A capture that lacks nothing: JoinTcpStream has every cell that went    *)
(* out, and knows the packet with which it arrived.                        *)
(***************************************************************************)

\* Numbers of a round.
LEMMA RoundNumber ==
  ASSUME NEW M \in Nat \ {0}, NEW y \in 0 .. M - 1
  PROVE  y % M = y
<1>1. (M * 0 + y) % M = y
  BY Remainder
<1>2. M * 0 + y = y
  OBVIOUS
<1> QED BY <1>1, <1>2

LEMMA RoundBelow ==
  ASSUME NEW M \in Nat \ {0}, NEW x \in Int
  PROVE  \E q \in Int : x = M * q + (x % M) /\ x % M \in 0 .. M - 1
<1> DEFINE q == x \div M
<1>1. q \in Int /\ x = M * q + (x % M) /\ x % M \in 0 .. M - 1
  OBVIOUS
<1> QED BY <1>1

LEMMA RoundMultiple ==
  ASSUME NEW M \in Nat \ {0}, NEW q \in Int, M * q < M, -M < M * q
  PROVE  q = 0
<1>1. q >= 1 => M * q >= M
  <2> SUFFICES ASSUME q >= 1 PROVE M * q >= M
    OBVIOUS
  <2>1. M * q = M + M * (q - 1) /\ M * (q - 1) >= 0
    OBVIOUS
  <2> QED BY <2>1
<1>2. q <= -1 => M * q <= -M
  <2> SUFFICES ASSUME q <= -1 PROVE M * q <= -M
    OBVIOUS
  <2>1. M * q = M * (q + 1) - M /\ M * (-(q + 1)) >= 0 /\ M * (q + 1) = -(M * (-(q + 1)))
    OBVIOUS
  <2> QED BY <2>1
<1> QED BY <1>1, <1>2

\* The number of a segment is told from that of one that repeats it.
LEMMA RoundBack ==
  ASSUME NEW M \in Nat \ {0}, NEW l \in Nat \ {0}, NEW y \in 0 .. M - 1
  PROVE  /\ l < M => (y - l) % M # y
         /\ y + l <= M => (((y + l) % M) - l) % M = y
<1>1. ASSUME l < M, (y - l) % M = y PROVE FALSE
  <2>1. PICK q \in Int : y - l = M * q + y
    BY <1>1, RoundBelow
  <2> DEFINE p == M * q
  <2>2. p \in Int /\ p = -l
    BY <2>1
  <2>3. p < M /\ -M < p
    <3> HIDE DEF p
    <3> QED BY <1>1, <2>2
  <2>4. q = 0
    BY <2>3, RoundMultiple
  <2> QED BY <2>2, <2>4
<1>2. ASSUME y + l <= M PROVE (((y + l) % M) - l) % M = y
  <2>1. CASE y + l < M
    <3>1. (y + l) % M = y + l
      BY <2>1, RoundNumber
    <3>2. (y + l) - l = y
      OBVIOUS
    <3> QED BY <3>1, <3>2, RoundNumber
  <2>2. CASE y + l = M
    <3>1. (M * 1 + 0) % M = 0
      BY Remainder
    <3>2. (y + l) % M = 0
      BY <2>2, <3>1
    <3> DEFINE z == 0 - l
    <3>9. z \in Int
      OBVIOUS
    <3> HIDE DEF z
    <3>10. PICK q \in Int : z = M * q + (z % M) /\ z % M \in 0 .. M - 1
      BY <3>9, RoundBelow
    <3>3. 0 - l = M * q + ((0 - l) % M) /\ (0 - l) % M \in 0 .. M - 1
      BY <3>10 DEF z
    <3> DEFINE r == (0 - l) % M
               p == M * (q + 1)
    <3>4. r \in 0 .. M - 1 /\ 0 - l = M * q + r /\ M * q = p - M /\ p \in Int
      BY <3>3
    <3>5. p = y - r
      <4> HIDE DEF r, p
      <4> QED BY <2>2, <3>4
    <3>6. p < M /\ -M < p
      <4> HIDE DEF r, p
      <4> QED BY <3>4, <3>5
    <3>7. q + 1 = 0
      BY <3>6, RoundMultiple
    <3>8. r = y
      BY <3>4, <3>5, <3>7
    <3> QED BY <3>2, <3>8 DEF r
  <2> QED BY <1>2, <2>1, <2>2
<1> QED BY <1>1, <1>2

-----------------------------------------------------------------------------
\* The cell of a direction with the sequence number x is in a packet.
Holds(p, x) == p.sequence <= x /\ x < p.sequence + Len(p.cells)

\* A packet has cells of s, which begins with the number f and went out in part.
IsTile(p, f, went, s) ==
  /\ p.sequence \in Nat /\ f <= p.sequence
  /\ Len(p.cells) \in Nat \ {0} /\ p.sequence + Len(p.cells) <= f + went
  /\ Stretch(p.cells, s, p.sequence - f)

\* Two packets have the same cells or none in common.
Apart(p, q) ==
  \/ p.sequence = q.sequence /\ p.cells = q.cells
  \/ p.sequence + Len(p.cells) <= q.sequence
  \/ q.sequence + Len(q.cells) <= p.sequence

\* What went out is there, and a cell never before one that it follows.
Tiles(ps, flow, f, went, s) ==
  /\ \A k \in OfFlow(ps, flow) : IsTile(ps[k], f, went, s)
  /\ \A j, k \in OfFlow(ps, flow) : Apart(ps[j], ps[k])
  /\ \A k \in OfFlow(ps, flow) : \A x \in f .. ps[k].sequence - 1 :
       \E j \in OfFlow(ps, flow) : j < k /\ Holds(ps[j], x)
  /\ \A x \in f .. f + went - 1 : \E k \in OfFlow(ps, flow) : Holds(ps[k], x)

\* Sorted segments: each repeats the one before or continues it.
Chain(segs, f, went, s) ==
  /\ \A i \in 1 .. Len(segs) : IsTile(segs[i], f, went, s) /\ segs[i].at \in Nat
  /\ Len(segs) = 0 => went = 0
  /\ Len(segs) > 0 => segs[1].sequence = f
  /\ Len(segs) > 0 => segs[Len(segs)].sequence + Len(segs[Len(segs)].cells) = f + went
  /\ \A i \in 1 .. Len(segs) - 1 :
       \/ segs[i + 1].sequence = segs[i].sequence + Len(segs[i].cells)
       \/ /\ segs[i + 1].sequence = segs[i].sequence /\ segs[i + 1].cells = segs[i].cells
          /\ segs[i].at < segs[i + 1].at
  /\ \A i, j \in 1 .. Len(segs) :
       i < j => segs[i].sequence + Len(segs[i].cells) <= segs[j].sequence + Len(segs[j].cells)

LEMMA TilesChain ==
  ASSUME NEW flow, Len(packets) \in Nat, NEW f \in Nat, NEW went \in Nat, NEW s,
         Tiles(packets, flow, f, went, s), NEW segs, Sorts(segs, flow, Len(packets))
  PROVE  Chain(segs, f, went, s)
<1> DEFINE L == Len(segs)
           P == OfFlow(packets, flow)
           T == {Captured(k) : k \in 1 .. Len(packets)}
           end(i) == segs[i].sequence + Len(segs[i].cells)
<1>1. /\ L \in Nat
      /\ \A i \in 1 .. L : segs[i].at \in P /\ segs[i] = Captured(segs[i].at)
      /\ \A k \in P : \E i \in 1 .. L : segs[i] = Captured(k)
      /\ \A i, j \in 1 .. L : i < j => <<segs[i], segs[j]>> \in SegmentOrder(T)
  BY LenProperties DEF Sorts, OfFlow
<1>2. \A k \in P : /\ Captured(k).sequence = packets[k].sequence
                   /\ Captured(k).cells = packets[k].cells /\ Captured(k).at = k /\ k \in Nat
  BY DEF Captured, OfFlow
<1>3. /\ \A k \in P : IsTile(packets[k], f, went, s)
      /\ \A j, k \in P : Apart(packets[j], packets[k])
      /\ \A x \in f .. f + went - 1 : \E k \in P : Holds(packets[k], x)
  BY DEF Tiles
<1> HIDE DEF L, P
<1>4. ASSUME NEW i \in 1 .. L
      PROVE  /\ IsTile(segs[i], f, went, s) /\ segs[i].at \in Nat
             /\ segs[i].sequence = packets[segs[i].at].sequence
             /\ segs[i].cells = packets[segs[i].at].cells
             /\ segs[i].at \in P
  <2>1. segs[i].at \in P /\ segs[i] = Captured(segs[i].at)
    BY <1>1
  <2> DEFINE k == segs[i].at
  <2>2. k \in P /\ segs[i].sequence = packets[k].sequence /\ segs[i].cells = packets[k].cells
        /\ k \in Nat
    BY <1>2, <2>1
  <2>3. IsTile(packets[k], f, went, s)
    BY <1>3, <2>2
  <2> HIDE DEF k
  <2>4. IsTile(segs[i], f, went, s)
    BY <2>2, <2>3 DEF IsTile
  <2> QED BY <2>2, <2>4 DEF k
<1>5. ASSUME NEW i \in 1 .. L, NEW j \in 1 .. L PROVE Apart(segs[i], segs[j])
  <2>1. Apart(packets[segs[i].at], packets[segs[j].at])
    BY <1>3, <1>4
  <2> QED BY <1>4, <2>1 DEF Apart
<1>6. \A i \in 1 .. L : /\ segs[i].sequence \in Nat /\ Len(segs[i].cells) \in Nat \ {0}
                        /\ f <= segs[i].sequence /\ end(i) <= f + went /\ end(i) \in Nat
  BY <1>4 DEF IsTile
<1>7. \A i, j \in 1 .. L : i < j =>
        \/ segs[i].sequence < segs[j].sequence
        \/ segs[i].sequence = segs[j].sequence /\ segs[i].at < segs[j].at
  BY <1>1 DEF SegmentOrder
<1>8. ASSUME NEW x \in f .. f + went - 1 PROVE \E i \in 1 .. L : segs[i].sequence <= x /\ x < end(i)
  <2>1. PICK k \in P : Holds(packets[k], x)
    BY <1>3
  <2>2. PICK i \in 1 .. L : segs[i] = Captured(k)
    BY <1>1
  <2> QED BY <1>2, <2>1, <2>2 DEF Holds
<1> HIDE DEF end
<1>9. ASSUME NEW i \in 1 .. L, NEW j \in 1 .. L, i < j
      PROVE  \/ segs[i].sequence = segs[j].sequence /\ end(i) = end(j)
             \/ end(i) <= segs[j].sequence /\ segs[i].sequence < segs[j].sequence
  <2>1. \/ segs[i].sequence = segs[j].sequence /\ segs[i].cells = segs[j].cells
        \/ end(i) <= segs[j].sequence \/ end(j) <= segs[i].sequence
    BY <1>5 DEF Apart, end
  <2>2. segs[i].sequence <= segs[j].sequence
    <3>1. segs[i].sequence < segs[j].sequence \/ segs[i].sequence = segs[j].sequence
      BY <1>7, <1>9
    <3>2. segs[i].sequence \in Nat /\ segs[j].sequence \in Nat
      BY <1>6
    <3> QED BY <3>1, <3>2
  <2>4. segs[i].sequence \in Nat /\ segs[j].sequence \in Nat /\ end(i) \in Nat /\ end(j) \in Nat
    BY <1>6
  <2>3. segs[i].sequence < end(i) /\ segs[j].sequence < end(j)
    <3> DEFINE l(k) == Len(segs[k].cells)
    <3>1. l(i) \in Nat \ {0} /\ l(j) \in Nat \ {0}
      BY <1>6
    <3>2. end(i) = segs[i].sequence + l(i) /\ end(j) = segs[j].sequence + l(j)
      BY DEF end
    <3> HIDE DEF l
    <3>3. l(i) \in Nat /\ l(i) > 0 /\ l(j) \in Nat /\ l(j) > 0
      BY <3>1
    <3>4. segs[i].sequence < segs[i].sequence + l(i)
      BY <2>4, <3>3
    <3>5. segs[j].sequence < segs[j].sequence + l(j)
      BY <2>4, <3>3
    <3> QED BY <3>2, <3>4, <3>5
  <2>5. CASE segs[i].sequence = segs[j].sequence /\ segs[i].cells = segs[j].cells
    BY <2>5 DEF end
  <2>6. CASE end(i) <= segs[j].sequence
    BY <2>3, <2>4, <2>6
  <2>7. CASE end(j) <= segs[i].sequence
    BY <2>2, <2>3, <2>4, <2>7
  <2> QED BY <2>1, <2>5, <2>6, <2>7
<1>10. L = 0 => went = 0
  <2> SUFFICES ASSUME L = 0, went # 0 PROVE FALSE
    OBVIOUS
  <2>1. f \in f .. f + went - 1
    OBVIOUS
  <2> QED BY <1>8, <2>1
<1>11. ASSUME L > 0 PROVE segs[1].sequence = f
  <2>1. 1 \in 1 .. L
    BY <1>1, <1>11
  <2>2. went > 0
    <3>1. segs[1].sequence \in Nat /\ f <= segs[1].sequence /\ segs[1].sequence < end(1)
          /\ end(1) <= f + went /\ end(1) \in Nat
      BY <1>6, <2>1 DEF end
    <3> QED BY <3>1
  <2>3. f \in f .. f + went - 1
    BY <2>2
  <2>4. PICK i \in 1 .. L : segs[i].sequence <= f
    BY <1>8, <2>3
  <2>5. segs[i].sequence = f
    BY <1>6, <2>4
  <2>6. i = 1 \/ 1 < i
    BY <1>1
  <2>7. segs[1].sequence <= segs[i].sequence
    BY <1>6, <1>7, <2>1, <2>6
  <2> QED BY <1>6, <2>1, <2>5, <2>7
<1>12. \A i, j \in 1 .. L : i < j => end(i) <= end(j)
  <2> TAKE i, j \in 1 .. L
  <2> HAVE i < j
  <2>1. segs[j].sequence < end(j)
    BY <1>6 DEF end
  <2>2. segs[j].sequence \in Nat /\ end(i) \in Nat /\ end(j) \in Nat
    BY <1>6
  <2> QED BY <1>9, <2>1, <2>2
<1>13. ASSUME L > 0 PROVE end(L) = f + went
  <2>1. L \in 1 .. L
    BY <1>1, <1>13
  <2>2. end(L) <= f + went /\ end(L) \in Nat /\ end(L) > f
    BY <1>6, <2>1 DEF end
  <2>3. SUFFICES ASSUME end(L) < f + went PROVE FALSE
    BY <2>2
  <2>4. end(L) \in f .. f + went - 1
    BY <2>2, <2>3
  <2>5. PICK i \in 1 .. L : end(L) < end(i)
    BY <1>8, <2>4
  <2>6. i = L \/ i < L
    BY <1>1
  <2>7. end(i) <= end(L) /\ end(i) \in Nat
    BY <1>6, <1>12, <2>1, <2>2, <2>6
  <2> QED BY <2>2, <2>5, <2>7
<1>14. ASSUME NEW i \in 1 .. L - 1
       PROVE  \/ segs[i + 1].sequence = end(i)
              \/ /\ segs[i + 1].sequence = segs[i].sequence /\ segs[i + 1].cells = segs[i].cells
                 /\ segs[i].at < segs[i + 1].at
  <2>1. i \in 1 .. L /\ i + 1 \in 1 .. L /\ i < i + 1
    BY <1>1
  <2> DEFINE n == i + 1
  <2>2. n \in 1 .. L /\ i < n
    BY <2>1
  <2>3. \A j \in 1 .. L : j <= i \/ n <= j
    BY <1>1, <2>1
  <2> HIDE DEF n
  <2>4. \/ segs[i].sequence = segs[n].sequence /\ end(i) = end(n)
        \/ end(i) <= segs[n].sequence /\ segs[i].sequence < segs[n].sequence
    BY <1>9, <2>1, <2>2
  <2>5. CASE segs[i].sequence = segs[n].sequence
    <3>1. segs[i].at < segs[n].at
      BY <1>6, <1>7, <2>1, <2>2, <2>5
    <3>2. segs[n].cells = segs[i].cells
      <4>1. Apart(segs[i], segs[n])
        BY <1>5, <2>1, <2>2
      <4>2. segs[i].sequence \in Nat /\ segs[n].sequence \in Nat
            /\ Len(segs[i].cells) \in Nat \ {0} /\ Len(segs[n].cells) \in Nat \ {0}
        BY <1>6, <2>1, <2>2
      <4> QED BY <2>5, <4>1, <4>2 DEF Apart
    <3> QED BY <2>5, <3>1, <3>2 DEF n
  <2>6. CASE segs[i].sequence # segs[n].sequence
    <3>1. end(i) <= segs[n].sequence
      BY <2>4, <2>6
    <3>2. ~(end(i) < segs[n].sequence)
      <4> SUFFICES ASSUME end(i) < segs[n].sequence PROVE FALSE
        OBVIOUS
      <4>1. segs[n].sequence < end(n)
        BY <1>6, <2>2 DEF end
      <4>2. segs[i].sequence < end(i)
        BY <1>6, <2>1 DEF end
      <4>3. end(i) \in f .. f + went - 1
        BY <1>6, <2>1, <2>2, <4>1, <4>2
      <4>4. PICK j \in 1 .. L : segs[j].sequence <= end(i) /\ end(i) < end(j)
        BY <1>8, <4>3
      <4>5. j <= i \/ n <= j
        BY <2>3
      <4>6. CASE j <= i
        <5>1. j = i \/ j < i
          BY <4>6
        <5>2. end(j) <= end(i)
          BY <1>6, <1>12, <2>1, <5>1
        <5> QED BY <1>6, <2>1, <4>4, <5>2
      <4>7. CASE n <= j
        <5>1. j = n \/ n < j
          BY <2>2, <4>7
        <5>2. segs[n].sequence <= segs[j].sequence
          BY <1>6, <1>7, <2>2, <5>1
        <5> QED BY <1>6, <2>1, <2>2, <4>4, <5>2
      <4> QED BY <4>5, <4>6, <4>7
    <3>3. end(i) \in Nat /\ segs[n].sequence \in Nat
      BY <1>6, <2>1, <2>2
    <3>4. segs[n].sequence = end(i)
      BY <3>1, <3>2, <3>3
    <3> QED BY <3>4 DEF n
  <2> QED BY <2>5, <2>6
<1> QED BY <1>4, <1>10, <1>11, <1>12, <1>13, <1>14 DEF Chain, L, end

Beginnings == [offset : Nat, at : Nat]

LEMMA ArrivalExtends ==
  ASSUME NEW stream, NEW packet, stream.starts \in Seq(Beginnings), packet.at \in Nat,
         NEW b \in Nat, Len(stream.bytes) = b,
         \A i \in 1 .. Len(stream.starts) : stream.starts[i].offset < b,
         NEW o \in Nat
  PROVE  ArrivalOf(Extend(stream, packet), o)
           = IF o < b THEN ArrivalOf(stream, o) ELSE packet.at
<1> DEFINE s == stream.starts
           N == Len(s)
           x == [offset |-> b, at |-> packet.at]
           t == Append(s, x)
           begun(u) == {k \in DOMAIN u : u[k].offset <= o}
<1>1. N \in Nat /\ DOMAIN s = 1 .. N /\ \A i \in 1 .. N : s[i] \in Beginnings
  BY LenProperties, ElementOfSeq
<1>2. x \in Beginnings
  BY DEF Beginnings
<1>3. t \in Seq(Beginnings) /\ Len(t) = N + 1 /\ (\A i \in 1 .. N : t[i] = s[i]) /\ t[N + 1] = x
  BY <1>1, <1>2, AppendProperties
<1>4. DOMAIN t = 1 .. N + 1
  BY <1>3, LenProperties
<1>5. /\ ArrivalOf(stream, o) = IF begun(s) = {} THEN 0 ELSE s[Max(begun(s))].at
      /\ ArrivalOf(Extend(stream, packet), o) = IF begun(t) = {} THEN 0 ELSE t[Max(begun(t))].at
  BY DEF ArrivalOf, Extend
<1>6. \A i \in 1 .. N : s[i].offset \in Nat /\ s[i].offset < b
  BY <1>1 DEF Beginnings
<1>7. x.offset = b /\ x.at = packet.at
  OBVIOUS
<1> HIDE DEF s, N, x, t
<1>8. begun(s) \in SUBSET (1 .. N)
  BY <1>1
<1>9. CASE o < b
  <2>1. \A i \in 1 .. N + 1 : i \in 1 .. N \/ i = N + 1
    BY <1>1
  <2>2. begun(t) = begun(s)
    <3>1. \A i \in 1 .. N : i \in begun(t) <=> i \in begun(s)
      BY <1>1, <1>3, <1>4
    <3>2. N + 1 \notin begun(t) /\ N + 1 \notin begun(s)
      BY <1>1, <1>3, <1>4, <1>7, <1>9
    <3>3. begun(t) \subseteq 1 .. N + 1 /\ begun(s) \subseteq 1 .. N
      BY <1>1, <1>4
    <3> HIDE DEF begun
    <3> QED BY <2>1, <3>1, <3>2, <3>3
  <2> HIDE DEF begun
  <2>3. begun(s) # {} => t[Max(begun(s))] = s[Max(begun(s))]
    <3>1. begun(s) # {} => Max(begun(s)) \in 1 .. N
      BY <1>1, <1>8, LargestIs
    <3> QED BY <1>3, <3>1
  <2> QED BY <1>5, <1>9, <2>2, <2>3
<1>10. CASE ~(o < b)
  <2>1. N + 1 \in begun(t)
    BY <1>1, <1>3, <1>4, <1>7, <1>10
  <2>2. begun(t) \in SUBSET (1 .. N + 1)
    BY <1>4
  <2> DEFINE m == Max(begun(t))
  <2> HIDE DEF begun
  <2>3. m \in begun(t) /\ \A y \in begun(t) : y <= m
    <3>1. N + 1 \in Nat
      BY <1>1
    <3> QED BY <2>1, <2>2, <3>1, LargestIs
  <2> HIDE DEF m
  <2>4. m = N + 1
    BY <1>1, <2>1, <2>2, <2>3
  <2> QED BY <1>3, <1>5, <1>7, <1>10, <2>1, <2>4 DEF m
<1> QED BY <1>9, <1>10

\* at is the first of the first k segments with the cell x.
ArrivesIn(segs, k, x, at) ==
  /\ \E j \in 1 .. k : Holds(segs[j], x) /\ segs[j].at = at
  /\ \A i \in 1 .. k : Holds(segs[i], x) => at <= segs[i].at

EndOf(segs, k) == segs[k].sequence + Len(segs[k].cells)

\* What the first k segments are joined to: e cells.
JoinedUpTo(stream, segs, k, f, s, e) ==
  /\ stream.bytes = Part(s, 0, e) /\ Len(stream.bytes) = e /\ e \in Nat
  /\ stream.whole = TRUE
  /\ stream.expected = IF k = 0 THEN <<>> ELSE <<(f + e) % SequenceModulus>>
  /\ f + e = IF k = 0 THEN f ELSE EndOf(segs, k)
  /\ stream.starts \in Seq(Beginnings)
  /\ \A i \in 1 .. Len(stream.starts) : stream.starts[i].offset < e
  /\ \A o \in 0 .. e - 1 : ArrivesIn(segs, k, f + o, ArrivalOf(stream, o))

LEMMA JoinStep ==
  ASSUME SequenceModulus \in Nat \ {0}, NEW s \in Seq(Cells), Len(s) < SequenceModulus,
         NEW f \in Nat, NEW went \in Nat, went <= Len(s), f + went <= SequenceModulus,
         NEW segs, Len(segs) \in Nat, Chain(segs, f, went, s),
         NEW k \in Nat, k + 1 <= Len(segs), NEW stream, NEW e, JoinedUpTo(stream, segs, k, f, s, e)
  PROVE  \E d : JoinedUpTo(Join(stream, segs[k + 1]), segs, k + 1, f, s, d)
<1> DEFINE M == SequenceModulus
           p == segs[k + 1]
           l == Len(p.cells)
           new == Extend(stream, p)
           n == k + 1
           L == Len(segs)
<1>0. /\ M \in Nat \ {0} /\ Len(s) \in Nat /\ Len(s) < M /\ went <= Len(s) /\ f + went <= M
      /\ n \in 1 .. L /\ L \in Nat /\ n # 0 /\ (k # 0 => k \in 1 .. L - 1 /\ k \in 1 .. L)
      /\ k < n /\ \A i \in 1 .. n : i \in 1 .. L /\ (i \in 1 .. k \/ i = n)
  BY LenProperties
<1>1. /\ stream.bytes = Part(s, 0, e) /\ Len(stream.bytes) = e /\ e \in Nat
      /\ stream.whole = TRUE
      /\ stream.expected = IF k = 0 THEN <<>> ELSE <<(f + e) % M>>
      /\ f + e = IF k = 0 THEN f ELSE EndOf(segs, k)
      /\ stream.starts \in Seq(Beginnings)
      /\ \A i \in 1 .. Len(stream.starts) : stream.starts[i].offset < e
      /\ \A o \in 0 .. e - 1 : ArrivesIn(segs, k, f + o, ArrivalOf(stream, o))
  BY DEF JoinedUpTo
<1>2. /\ \A i \in 1 .. L : IsTile(segs[i], f, went, s) /\ segs[i].at \in Nat
      /\ segs[1].sequence = f
      /\ \A i \in 1 .. L - 1 :
           \/ segs[i + 1].sequence = EndOf(segs, i)
           \/ /\ segs[i + 1].sequence = segs[i].sequence /\ segs[i + 1].cells = segs[i].cells
              /\ segs[i].at < segs[i + 1].at
      /\ \A i, j \in 1 .. L : i < j => EndOf(segs, i) <= EndOf(segs, j)
  <2>1. L > 0 /\ Len(segs) = L
    BY <1>0
  <2>2. /\ \A i \in 1 .. L : IsTile(segs[i], f, went, s) /\ segs[i].at \in Nat
        /\ L > 0 => segs[1].sequence = f
        /\ \A i \in 1 .. L - 1 :
             \/ segs[i + 1].sequence = segs[i].sequence + Len(segs[i].cells)
             \/ /\ segs[i + 1].sequence = segs[i].sequence /\ segs[i + 1].cells = segs[i].cells
                /\ segs[i].at < segs[i + 1].at
        /\ \A i, j \in 1 .. L :
             i < j => segs[i].sequence + Len(segs[i].cells) <= segs[j].sequence + Len(segs[j].cells)
    BY DEF Chain
  <2> HIDE DEF L
  <2> QED BY <2>1, <2>2 DEF EndOf
<1>3. /\ p.sequence \in Nat /\ f <= p.sequence /\ l \in Nat \ {0} /\ p.sequence + l <= f + went
      /\ Stretch(p.cells, s, p.sequence - f) /\ p.at \in Nat
  BY <1>0, <1>2 DEF IsTile
<1>4. \A i \in 1 .. L : /\ segs[i].sequence \in Nat /\ EndOf(segs, i) \in Nat
                        /\ segs[i].sequence < EndOf(segs, i) /\ segs[i].at \in Nat
                        /\ \A x : Holds(segs[i], x) <=> segs[i].sequence <= x /\ x < EndOf(segs, i)
  <2> TAKE i \in 1 .. L
  <2> DEFINE c == Len(segs[i].cells)
  <2>1. segs[i].sequence \in Nat /\ c \in Nat /\ c > 0 /\ segs[i].at \in Nat
    BY <1>2 DEF IsTile
  <2>2. EndOf(segs, i) = segs[i].sequence + c
    BY DEF EndOf
  <2>3. \A x : Holds(segs[i], x) <=> segs[i].sequence <= x /\ x < segs[i].sequence + c
    BY DEF Holds
  <2> HIDE DEF c
  <2>4. EndOf(segs, i) \in Nat /\ segs[i].sequence < EndOf(segs, i)
    BY <2>1, <2>2
  <2> QED BY <2>1, <2>2, <2>3, <2>4
<1>5. EndOf(segs, n) = p.sequence + l
  BY DEF EndOf
<1> HIDE DEF L, l, n
<1>6. p.sequence \in 0 .. M - 1 /\ l < M /\ p.sequence + l <= M
  BY <1>0, <1>3
\* A segment that continues.
<1>7. CASE p.sequence = f + e
  <2>1. Join(stream, p) = new
    <3>1. CASE k = 0
      BY <1>1, <3>1 DEF Join
    <3>2. CASE k # 0
      <4> DEFINE x == (f + e) % M
      <4>1. x = p.sequence
        BY <1>0, <1>6, <1>7, RoundNumber
      <4>2. (p.sequence - l) % M # p.sequence
        BY <1>0, <1>3, <1>6, RoundBack
      <4>3. stream.expected # <<>> /\ stream.expected[1] = x
        BY <1>1, <3>2
      <4>4. p.sequence # (stream.expected[1] - Len(p.cells)) % M
        <5> HIDE DEF x
        <5> QED BY <4>1, <4>2, <4>3 DEF l
      <4> HIDE DEF x
      <4> QED BY <4>1, <4>3, <4>4 DEF Join
    <3> QED BY <3>1, <3>2
  <2> DEFINE d == e + l
  <2>2. d \in Nat /\ f + d = EndOf(segs, n) /\ e < d
    <3>1. e \in Nat /\ l \in Nat /\ l > 0 /\ f \in Nat
      BY <1>1, <1>3
    <3>2. f + (e + l) = (f + e) + l
      BY <3>1
    <3> QED BY <1>5, <1>7, <3>1, <3>2
  <2>3. new.bytes = Part(s, 0, d) /\ Len(new.bytes) = d
    <3>1. p.sequence - f = e
      BY <1>1, <1>3, <1>7
    <3>2. Stretch(stream.bytes, s, 0)
      <4>1. 0 + e <= Len(s)
        BY <1>0, <1>1, <1>3, <1>7
      <4> QED BY <1>1, <4>1 DEF Stretch, Part
    <3>3. Stretch(p.cells, s, 0 + Len(stream.bytes)) /\ Len(p.cells) \in Nat
      BY <1>1, <1>3, <3>1 DEF l
    <3>4. Len(stream.bytes \o p.cells) = Len(stream.bytes) + Len(p.cells)
          /\ Stretch(stream.bytes \o p.cells, s, 0)
      <4>1. Len(stream.bytes) \in Nat
        BY <1>1
      <4> QED BY <3>2, <3>3, <4>1, StretchesMeet
    <3>5. new.bytes = stream.bytes \o p.cells
      BY DEF Extend
    <3>6. Len(new.bytes) = d /\ Stretch(new.bytes, s, 0)
      BY <1>1, <3>4, <3>5 DEF l
    <3> QED BY <3>6 DEF Stretch, Part
  <2>4. new.whole = TRUE
    BY <1>1 DEF Extend
  <2>5. new.expected = <<(f + d) % M>>
    <3>1. new.expected = <<(p.sequence + l) % M>>
      BY DEF Extend, l
    <3> QED BY <1>5, <2>2, <3>1
  <2>6. new.starts \in Seq(Beginnings) /\ \A i \in 1 .. Len(new.starts) : new.starts[i].offset < d
    <3> DEFINE b == [offset |-> e, at |-> p.at]
               N == Len(stream.starts)
    <3>1. b \in Beginnings /\ b.offset = e
      BY <1>1, <1>3 DEF Beginnings
    <3>2. new.starts = Append(stream.starts, b)
      BY <1>1 DEF Extend
    <3> HIDE DEF b, d
    <3>3. N \in Nat /\ \A i \in 1 .. N : stream.starts[i] \in Beginnings
      BY <1>1, LenProperties, ElementOfSeq
    <3>4. /\ new.starts \in Seq(Beginnings) /\ Len(new.starts) = N + 1
          /\ \A i \in 1 .. N : new.starts[i] = stream.starts[i]
          /\ new.starts[N + 1] = b
      BY <1>1, <3>1, <3>2, AppendProperties
    <3>5. \A i \in 1 .. N : stream.starts[i].offset \in Nat /\ stream.starts[i].offset < e
      BY <1>1, <3>3 DEF Beginnings
    <3> HIDE DEF new, N
    <3>6. ASSUME NEW i \in 1 .. N + 1 PROVE new.starts[i].offset < d
      <4>1. CASE i = N + 1
        BY <2>2, <3>1, <3>4, <4>1
      <4>2. CASE i # N + 1
        <5>1. i \in 1 .. N
          BY <3>3, <4>2
        <5> DEFINE y == new.starts[i].offset
        <5>2. y \in Nat /\ y < e
          BY <3>4, <3>5, <5>1
        <5> HIDE DEF y
        <5>3. e \in Nat /\ d \in Nat /\ e < d
          BY <1>1, <2>2
        <5>4. y < d
          BY <5>2, <5>3
        <5> QED BY <5>4 DEF y
      <4> QED BY <4>1, <4>2
    <3> QED BY <3>4, <3>6
  <2>7. ASSUME NEW o \in 0 .. d - 1 PROVE ArrivesIn(segs, n, f + o, ArrivalOf(new, o))
    <3>1. o \in Nat /\ ArrivalOf(new, o) = IF o < e THEN ArrivalOf(stream, o) ELSE p.at
      <4>1. o \in Nat
        BY <2>2
      <4>2. stream.starts \in Seq(Beginnings) /\ p.at \in Nat /\ e \in Nat /\ Len(stream.bytes) = e
            /\ \A i \in 1 .. Len(stream.starts) : stream.starts[i].offset < e
        BY <1>1, <1>3
      <4> HIDE DEF p, d
      <4> QED BY <4>1, <4>2, ArrivalExtends
    <3> HIDE DEF d, new
    <3>2. CASE o < e
      <4>1. ArrivesIn(segs, k, f + o, ArrivalOf(stream, o))
        BY <1>1, <3>1, <3>2
      <4>2. ~Holds(segs[n], f + o)
        <5>1. Holds(segs[n], f + o) => p.sequence <= f + o
          BY DEF Holds, n
        <5>2. f + o < f + e /\ f + o \in Nat /\ f + e \in Nat
          <6>1. e \in Nat /\ o \in Nat /\ o < e
            BY <1>1, <3>1, <3>2
          <6> QED BY <6>1
        <5> DEFINE y == p.sequence
        <5>3. y \in Nat /\ y = f + e
          BY <1>3, <1>7
        <5> HIDE DEF y
        <5>4. ~(y <= f + o)
          BY <5>2, <5>3
        <5> QED BY <5>1, <5>4 DEF y
      <4>3. 1 .. k \subseteq 1 .. n
        BY <1>0
      <4> QED BY <1>0, <3>1, <3>2, <4>1, <4>2, <4>3 DEF ArrivesIn
    <3>3. CASE ~(o < e)
      <4>1. Holds(segs[n], f + o)
        <5>1. Holds(segs[n], f + o) <=> (p.sequence <= f + o /\ f + o < EndOf(segs, n))
          BY <1>0, <1>4 DEF n
        <5>2. o \in Nat /\ d \in Nat /\ o < d /\ e <= o /\ EndOf(segs, n) = f + d
          BY <1>1, <2>2, <3>1, <3>3
        <5>3. f + e <= f + o /\ f + o < f + d
          <6>1. e \in Nat
            BY <1>1
          <6> QED BY <5>2, <6>1
        <5> QED BY <1>7, <5>1, <5>2, <5>3
      <4>2. \A i \in 1 .. k : ~Holds(segs[i], f + o)
        <5> TAKE i \in 1 .. k
        <5>1. i \in 1 .. L /\ k # 0 /\ k \in 1 .. L /\ (i = k \/ i < k)
          BY <1>0
        <5>2. EndOf(segs, i) <= EndOf(segs, k)
          BY <1>2, <1>4, <5>1
        <5>3. EndOf(segs, k) = f + e
          BY <1>1, <5>1
        <5>4. Holds(segs[i], f + o) => f + o < EndOf(segs, i)
          BY <1>4, <5>1
        <5> DEFINE y == EndOf(segs, i)
        <5>5. y \in Nat /\ y <= f + e
          BY <1>4, <5>1, <5>2, <5>3
        <5> HIDE DEF y
        <5>6. e <= o /\ f + e <= f + o
          BY <1>1, <3>1, <3>3
        <5>7. ~(f + o < y)
          BY <1>1, <3>1, <5>5, <5>6
        <5> QED BY <5>4, <5>7 DEF y
      <4>3. segs[n].at = p.at /\ n \in 1 .. n /\ p.at \in Nat
        BY <1>0, <1>3 DEF n
      <4>4. \A i \in 1 .. n : Holds(segs[i], f + o) => i = n
        BY <1>0, <4>2
      <4>5. ArrivalOf(new, o) = p.at
        BY <3>1, <3>3
      <4> DEFINE at == p.at
      <4>6. segs[n].at = at /\ at \in Nat /\ ArrivalOf(new, o) = at
        BY <4>3, <4>5
      <4> HIDE DEF at
      <4>7. \A i \in 1 .. n : Holds(segs[i], f + o) => at <= segs[i].at
        BY <4>4, <4>6
      <4> QED BY <4>1, <4>3, <4>6, <4>7 DEF ArrivesIn
    <3> QED BY <3>2, <3>3
  <2>8. JoinedUpTo(new, segs, n, f, s, d)
    <3> HIDE DEF new, d
    <3> QED BY <1>0, <2>2, <2>3, <2>4, <2>5, <2>6, <2>7 DEF JoinedUpTo
  <2> QED BY <2>1, <2>8 DEF n
\* A segment that repeats.
<1>8. CASE p.sequence # f + e
  <2>1. k # 0
    BY <1>1, <1>2, <1>8 DEF n
  <2>2. p.sequence = segs[k].sequence /\ p.cells = segs[k].cells /\ segs[k].at < p.at
    BY <1>0, <1>1, <1>2, <1>8, <2>1
  <2>3. EndOf(segs, k) = p.sequence + l /\ f + e = p.sequence + l
    BY <1>1, <2>1, <2>2 DEF EndOf, l
  <2>4. Join(stream, p) = stream
    <3> DEFINE x == (f + e) % M
    <3>1. stream.expected # <<>> /\ stream.expected[1] = x
      BY <1>1, <2>1
    <3>2. (x - l) % M = p.sequence
      BY <1>0, <1>3, <1>6, <2>3, RoundBack
    <3> HIDE DEF x
    <3>3. p.sequence = (stream.expected[1] - Len(p.cells)) % M
      BY <3>1, <3>2 DEF l
    <3> QED BY <3>1, <3>3 DEF Join
  <2>5. ASSUME NEW o \in 0 .. e - 1 PROVE ArrivesIn(segs, n, f + o, ArrivalOf(stream, o))
    <3> DEFINE at == ArrivalOf(stream, o)
    <3>1. ArrivesIn(segs, k, f + o, at)
      BY <1>1
    <3> HIDE DEF at
    <3>2. Holds(segs[n], f + o) => Holds(segs[k], f + o)
      BY <2>2 DEF Holds, n
    <3>3. Holds(segs[n], f + o) => at <= segs[n].at
      <4> SUFFICES ASSUME Holds(segs[n], f + o) PROVE at <= segs[n].at
        OBVIOUS
      <4>1. k \in 1 .. k /\ k \in 1 .. L
        BY <1>0, <2>1
      <4>2. at <= segs[k].at
        BY <3>1, <3>2, <4>1 DEF ArrivesIn
      <4>3. PICK j \in 1 .. k : segs[j].at = at
        BY <3>1 DEF ArrivesIn
      <4>4. at \in Nat /\ segs[k].at \in Nat
        BY <1>0, <1>4, <4>1, <4>3
      <4> DEFINE y == segs[k].at
                 z == segs[n].at
      <4>5. z \in Nat /\ y < z /\ at <= y /\ y \in Nat
        BY <1>3, <2>2, <4>2, <4>4 DEF n
      <4> HIDE DEF y, z
      <4>6. at <= z
        BY <4>4, <4>5
      <4> QED BY <4>6 DEF z
    <3>4. 1 .. k \subseteq 1 .. n
      BY <1>0
    <3>5. ArrivesIn(segs, n, f + o, at)
      BY <1>0, <3>1, <3>3, <3>4 DEF ArrivesIn
    <3> QED BY <3>5 DEF at
  <2>6. JoinedUpTo(stream, segs, n, f, s, e)
    <3>1. EndOf(segs, n) = f + e
      BY <1>5, <2>3
    <3> QED BY <1>0, <1>1, <2>1, <2>5, <3>1 DEF JoinedUpTo
  <2> QED BY <2>4, <2>6 DEF n
<1> QED BY <1>7, <1>8

LEMMA JoinedStream ==
  ASSUME SequenceModulus \in Nat \ {0}, NEW s \in Seq(Cells), Len(s) < SequenceModulus,
         NEW f \in Nat, NEW went \in Nat, went <= Len(s), f + went <= SequenceModulus,
         NEW segs, Len(segs) \in Nat, Chain(segs, f, went, s)
  PROVE  JoinedUpTo(JoinTcpStream(segs), segs, Len(segs), f, s, went)
<1> DEFINE L == Len(segs)
<1>1. PICK j : /\ j[0] = NothingJoined /\ JoinTcpStream(segs) = j[L]
               /\ \A k \in 1 .. L : j[k] = Join(j[k - 1], segs[k])
  BY JoinRounds
<1> DEFINE A == {n \in Nat : n <= L => \E e : JoinedUpTo(j[n], segs, n, f, s, e)}
<1>2. 0 \in A
  <2>1. JoinedUpTo(NothingJoined, segs, 0, f, s, 0)
    <3>1. Part(s, 0, 0) = <<>>
      <4>1. SubSeq(s, 0 + 1, 0 + 0) = <<>>
        BY SubSeqEmpty
      <4> QED BY <4>1 DEF Part
    <3>2. <<>> \in Seq(Beginnings) /\ Len(<<>>) = 0 /\ 1 .. 0 = {} /\ 0 .. 0 - 1 = {} /\ f + 0 = f
      BY EmptySeq
    <3>3. /\ NothingJoined.bytes = <<>> /\ NothingJoined.starts = <<>>
          /\ NothingJoined.expected = <<>> /\ NothingJoined.whole = TRUE
      BY DEF NothingJoined
    <3> QED BY <3>1, <3>2, <3>3 DEF JoinedUpTo
  <2> QED BY <1>1, <2>1
<1>3. ASSUME NEW n \in Nat, n \in A PROVE n + 1 \in A
  <2>1. SUFFICES ASSUME n + 1 <= L PROVE \E e : JoinedUpTo(j[n + 1], segs, n + 1, f, s, e)
    OBVIOUS
  <2>2. n <= L /\ n + 1 \in 1 .. L /\ (n + 1) - 1 = n
    BY <2>1
  <2>3. PICK e : JoinedUpTo(j[n], segs, n, f, s, e)
    BY <1>3, <2>2
  <2>4. j[n + 1] = Join(j[n], segs[n + 1])
    BY <1>1, <2>2
  <2>5. \E d : JoinedUpTo(Join(j[n], segs[n + 1]), segs, n + 1, f, s, d)
    BY <2>1, <2>3, JoinStep
  <2> QED BY <2>4, <2>5
<1> HIDE DEF A
<1>4. L \in A
  BY <1>2, <1>3, NatBySets
<1>5. PICK e : JoinedUpTo(j[L], segs, L, f, s, e)
  BY <1>4 DEF A
<1>6. e \in Nat /\ f + e = IF L = 0 THEN f ELSE EndOf(segs, L)
  BY <1>5 DEF JoinedUpTo
<1>7. (L = 0 => went = 0) /\ (L > 0 => EndOf(segs, L) = f + went)
  BY DEF Chain, EndOf
<1> HIDE DEF L
<1>8. e = went
  <2>1. CASE L = 0
    BY <1>6, <1>7, <2>1
  <2>2. CASE L # 0
    <3>1. f + e = f + went
      BY <1>6, <1>7, <2>2 DEF L
    <3>2. e \in Nat
      BY <1>6
    <3> QED BY <3>1, <3>2
  <2> QED BY <2>1, <2>2
<1> QED BY <1>1, <1>5, <1>8 DEF L

\* The packet with which the cell x of a direction arrived.
Arrival(ps, flow, x, at) ==
  /\ at \in OfFlow(ps, flow) /\ Holds(ps[at], x)
  /\ \A i \in OfFlow(ps, flow) : Holds(ps[i], x) => at <= i

\* What is read of a direction: all that went out, and when it arrived.
ReadAll(stream, ps, flow, f, went, s) ==
  /\ stream.bytes = Part(s, 0, went) /\ Len(stream.bytes) = went /\ stream.whole = TRUE
  /\ \A o \in 0 .. went - 1 : Arrival(ps, flow, f + o, ArrivalOf(stream, o))

LEMMA WholeStreamIsJoined ==
  ASSUME SequenceModulus \in Nat \ {0}, NEW s \in Seq(Cells), Len(s) < SequenceModulus,
         NEW f \in Nat, NEW went \in Nat, went <= Len(s), f + went <= SequenceModulus,
         NEW flow, Len(packets) \in Nat, \A k \in 1 .. Len(packets) : packets[k].sequence \in Nat,
         Tiles(packets, flow, f, went, s)
  PROVE  ReadAll(JoinTcpStream(FlowSegments(flow)), packets, flow, f, went, s)
<1> DEFINE segs == FlowSegments(flow)
           stream == JoinTcpStream(segs)
           L == Len(segs)
           P == OfFlow(packets, flow)
<1>1. Sorts(segs, flow, Len(packets))
  BY FlowSegmentsAreSorted
<1>2. /\ L \in Nat
      /\ \A i \in 1 .. L : segs[i].at \in P /\ segs[i] = Captured(segs[i].at)
      /\ \A k \in P : \E i \in 1 .. L : segs[i] = Captured(k)
  BY <1>1, LenProperties DEF Sorts, OfFlow
<1>3. Chain(segs, f, went, s)
  <2> HIDE DEF segs
  <2> QED BY <1>1, TilesChain
<1>4. JoinedUpTo(stream, segs, L, f, s, went)
  <2> HIDE DEF segs
  <2> QED BY <1>2, <1>3, JoinedStream
<1> HIDE DEF segs
<1>5. \A k \in P : /\ Captured(k).at = k
                   /\ \A x : Holds(Captured(k), x) <=> Holds(packets[k], x)
  BY DEF Captured, Holds
<1> HIDE DEF P, L
<1>6. ASSUME NEW o \in 0 .. went - 1 PROVE Arrival(packets, flow, f + o, ArrivalOf(stream, o))
  <2> DEFINE at == ArrivalOf(stream, o)
             x == f + o
  <2>1. ArrivesIn(segs, L, x, at)
    BY <1>4 DEF JoinedUpTo
  <2> HIDE DEF at, x
  <2>2. PICK j \in 1 .. L : Holds(segs[j], x) /\ segs[j].at = at
    BY <2>1 DEF ArrivesIn
  <2>3. at \in P /\ segs[j] = Captured(at)
    BY <1>2, <2>2
  <2>4. Holds(packets[at], x)
    BY <1>5, <2>2, <2>3
  <2>5. ASSUME NEW i \in P, Holds(packets[i], x) PROVE at <= i
    <3>1. PICK k \in 1 .. L : segs[k] = Captured(i)
      BY <1>2
    <3>2. Holds(segs[k], x) /\ segs[k].at = i
      BY <1>5, <2>5, <3>1
    <3> QED BY <2>1, <3>2 DEF ArrivesIn
  <2>6. Arrival(packets, flow, x, at)
    BY <2>3, <2>4, <2>5 DEF Arrival, P
  <2> QED BY <2>6 DEF at, x
<1>7. stream.bytes = Part(s, 0, went) /\ Len(stream.bytes) = went /\ stream.whole = TRUE
  BY <1>4 DEF JoinedUpTo
<1> HIDE DEF stream
<1> QED BY <1>6, <1>7 DEF ReadAll, stream, segs

-----------------------------------------------------------------------------
(***************************************************************************)
(* ReadMessages reads every message that went out, each with its packet.   *)
(***************************************************************************)

\* A direction of which went cells are there, from the first.
IsJoined(stream, flow, most, went) ==
  /\ Reading(stream, flow, most, 0) /\ Len(stream.bytes) = went /\ went \in Nat

\* Where a message begins, its header tells where it ends.
LEMMA ReadAtABoundary ==
  ASSUME NEW stream, NEW flow, NEW most, NEW went, IsJoined(stream, flow, most, went),
         NEW n \in 1 .. Len(messages[flow]),
         NEW b, b = EndsAt(flow, messages[flow], n - 1), b <= went,
         NEW e, e = EndsAt(flow, messages[flow], n)
  PROVE  /\ b \in 0 .. Len(stream.bytes) /\ e \in Nat /\ b < e
         /\ IsFramed(stream, b) <=> e <= went
         /\ e <= went =>
              /\ EndAt(stream, b) = e
              /\ ReadAt(stream, b) =
                   IF messages[flow][n].kind = "manufacturer" THEN <<>>
                     ELSE <<[at |-> ArrivalOf(stream, b), cells |-> CellsIn(flow, messages[flow], n)]>>
<1> DEFINE ms == messages[flow]
           N == Len(ms)
           s == UpTo(flow, ms, N)
           c == stream.bytes
           h == [flow |-> flow, n |-> n, offset |-> 1]
           l == ms[n].length
<1>0. /\ flow \in Flows /\ N \in Nat /\ most \in Nat /\ Lengths(ms, N, most)
      /\ Len(c) = went /\ went \in Nat /\ Stretch(c, s, 0) /\ Reading(stream, flow, most, 0)
  BY DEF IsJoined, Reading
<1>1. n \in 0 .. N /\ n - 1 \in 0 .. N /\ n # 0 /\ n \in 1 .. N /\ N \in 0 .. N
  BY <1>0
<1> HIDE DEF N
<1>2. b \in Nat /\ e \in Nat /\ e = b + l + 1 /\ l \in Nat
  <2>1. l \in 1 .. most
    BY <1>0, <1>1 DEF Lengths
  <2>2. EndsAt(flow, ms, n - 1) \in Nat /\ EndsAt(flow, ms, n) \in Nat
        /\ EndsAt(flow, ms, n) = EndsAt(flow, ms, n - 1) + ms[n].length + 1
    <3> HIDE DEF ms
    <3> QED BY <1>0, <1>1, StreamIsPlaced
  <2> QED BY <1>0, <2>1, <2>2
<1>3. b < e
  <2> HIDE DEF l
  <2> QED BY <1>2
<1>4. ASSUME b < went PROVE HeaderAt(stream, b) = h
  <2>1. Placed(s, flow, ms, N)
    <3> HIDE DEF ms
    <3> QED BY <1>0, <1>1, StreamIsPlaced
  <2>2. s \in Seq(Cells)
    BY <2>1 DEF Placed
  <2>3. Len(c) \in Nat /\ b + 1 \in 1 .. Len(c)
    BY <1>0, <1>2, <1>4
  <2>4. c[b + 1] = s[0 + (b + 1)]
    <3> HIDE DEF s, c
    <3> QED BY <1>0, <2>2, <2>3, StretchIs
  <2>5. b + 1 \in b + 1 .. e /\ 0 + (b + 1) = b + 1 /\ (b + 1) - b = 1
    <3> HIDE DEF l
    <3> QED BY <1>2, <1>3
  <2>6. s[b + 1] = h
    <3>1. \A p \in b + 1 .. e : s[p] = [flow |-> flow, n |-> n, offset |-> p - b]
      <4> HIDE DEF s
      <4> QED BY <1>1, <2>1 DEF Placed
    <3> QED BY <2>5, <3>1
  <2> QED BY <2>4, <2>5, <2>6 DEF HeaderAt
<1>5. ASSUME b < went
      PROVE  /\ EndAt(stream, b) = e /\ HeaderAt(stream, b).offset = 1
             /\ MessageAt(stream, b) = ms[n] /\ HeaderAt(stream, b).n = n
  <2>1. HeaderAt(stream, b) = h
    BY <1>4, <1>5
  <2>2. MessageAt(stream, b) = ms[n] /\ HeaderAt(stream, b).offset = 1 /\ HeaderAt(stream, b).n = n
    BY <2>1 DEF MessageAt
  <2>3. EndAt(stream, b) = b + 1 + l
    BY <2>2 DEF EndAt
  <2>4. b + 1 + l = e
    <3> HIDE DEF l
    <3> QED BY <1>2
  <2> QED BY <2>2, <2>3, <2>4
<1>6. IsFramed(stream, b) <=> e <= went
  <2>1. e <= went => b < went
    BY <1>0, <1>2, <1>3
  <2> HIDE DEF ms
  <2>2. CASE b < went
    BY <1>0, <1>5, <2>2 DEF IsFramed
  <2>3. CASE ~(b < went)
    BY <1>0, <2>1, <2>3 DEF IsFramed
  <2> QED BY <2>2, <2>3
<1>7. ASSUME e <= went
      PROVE  /\ EndAt(stream, b) = e
             /\ ReadAt(stream, b) =
                   IF ms[n].kind = "manufacturer" THEN <<>>
                     ELSE <<[at |-> ArrivalOf(stream, b), cells |-> CellsIn(flow, ms, n)]>>
  <2>1. b < went
    BY <1>0, <1>2, <1>3, <1>7
  <2>2. EndAt(stream, b) = e /\ MessageAt(stream, b) = ms[n] /\ HeaderAt(stream, b).n = n
    BY <1>5, <2>1
  <2>3. b \in 0 .. Len(stream.bytes)
    BY <1>0, <1>2, <2>1
  <2>4. Framed(stream, flow, 0, b, n)
    BY <1>0, <1>6, <1>7, <2>2, <2>3, FramedMessage
  <2>5. SubSeq(stream.bytes, b + 1, EndAt(stream, b)) = CellsIn(flow, ms, n)
    BY <2>4 DEF Framed
  <2> HIDE DEF ms
  <2> QED BY <2>2, <2>5 DEF ReadAt
<1> HIDE DEF ms
<1>8. b \in 0 .. Len(stream.bytes)
  BY <1>0, <1>2
<1> QED BY <1>2, <1>3, <1>6, <1>7, <1>8 DEF ms

\* What is read of message m.
Piece(stream, flow, m) ==
  [at |-> ArrivalOf(stream, EndsAt(flow, messages[flow], m - 1)),
   cells |-> CellsIn(flow, messages[flow], m)]
Pieces(stream, flow) == {Piece(stream, flow, m) : m \in 1 .. Len(messages[flow])}

\* Message m arrived whole and is read.
IsShown(flow, went, m) ==
  EndsAt(flow, messages[flow], m) <= went /\ messages[flow][m].kind # "manufacturer"

\* What is read behind message n is all there is.
IsAll(read, stream, flow, went, n) ==
  /\ read \in Seq(Pieces(stream, flow))
  /\ \A k \in 1 .. Len(read) :
       \E m \in n + 1 .. Len(messages[flow]) :
         IsShown(flow, went, m) /\ read[k] = Piece(stream, flow, m)
  /\ \A m \in n + 1 .. Len(messages[flow]) :
       IsShown(flow, went, m) => \E k \in 1 .. Len(read) : read[k] = Piece(stream, flow, m)
  /\ \A j, k \in 1 .. Len(read) : j < k => read[j].cells[1].n < read[k].cells[1].n

LEMMA PieceIs ==
  ASSUME NEW stream, NEW flow, NEW most, NEW a, Reading(stream, flow, most, a),
         NEW m \in 1 .. Len(messages[flow])
  PROVE  /\ Piece(stream, flow, m).cells[1] = [flow |-> flow, n |-> m, offset |-> 1]
         /\ Piece(stream, flow, m).at = ArrivalOf(stream, EndsAt(flow, messages[flow], m - 1))
<1> DEFINE ms == messages[flow]
           l == ms[m].length
<1>1. flow \in Flows /\ most \in Nat /\ Lengths(ms, Len(ms), most) /\ Len(ms) \in Nat
  BY DEF Reading
<1>2. l \in Nat /\ m \in Nat
  <2>1. l \in 1 .. most
    BY <1>1 DEF Lengths
  <2> QED BY <1>1, <2>1
<1>3. CellsIn(flow, ms, m)[1] = [flow |-> flow, n |-> m, offset |-> 1]
  <2>1. 1 \in 1 .. l + 1
    <3> HIDE DEF l
    <3> QED BY <1>2
  <2> QED BY <1>1, <1>2, <2>1, CellsOfAMessage
<1> QED BY <1>3 DEF Piece

LEMMA AllIsRead ==
  ASSUME NEW stream, NEW flow, NEW most, NEW went, IsJoined(stream, flow, most, went)
  PROVE  IsAll(ReadMessages(stream), stream, flow, went, 0)
<1> DEFINE ms == messages[flow]
           N == Len(ms)
           T == Pieces(stream, flow)
           r == CHOOSE f : f = [o \in 0 .. Len(stream.bytes) |-> ReadOn(f, stream, o)]
           E(i) == EndsAt(flow, ms, i)
<1>0. /\ flow \in Flows /\ N \in Nat /\ most \in Nat /\ Lengths(ms, N, most)
      /\ Len(stream.bytes) = went /\ went \in Nat /\ Reading(stream, flow, most, 0)
  BY DEF IsJoined, Reading
<1>1. MovesOn(stream)
  <2>1. ASSUME NEW o \in 0 .. Len(stream.bytes), IsFramed(stream, o)
        PROVE  EndAt(stream, o) \in o + 1 .. Len(stream.bytes)
    <3>1. Framed(stream, flow, 0, o, HeaderAt(stream, o).n)
      BY <1>0, <2>1, FramedMessage
    <3> QED BY <3>1 DEF Framed
  <2> QED BY <1>0, <2>1 DEF MovesOn
<1>2. \E f : f = [o \in 0 .. Len(stream.bytes) |-> ReadOn(f, stream, o)]
  BY <1>1, ReadingBackExists
<1>3. r = [o \in 0 .. Len(stream.bytes) |-> ReadOn(r, stream, o)]
  BY <1>2, Zenon
<1>4. ReadMessages(stream) = r[0]
  BY DEF ReadMessages, ReadOn
<1> HIDE DEF r
<1>5. \A o \in 0 .. Len(stream.bytes) : r[o] = ReadOn(r, stream, o)
  BY <1>3
<1>6. \A i \in 0 .. N : E(i) \in Nat
  <2> HIDE DEF ms, N
  <2> QED BY <1>0, StreamIsPlaced
<1>7. \A j \in 0 .. N : \A i \in 0 .. j : E(i) <= E(j)
  <2> HIDE DEF ms, N
  <2> QED BY <1>0, EndsInOrder
<1>8. ASSUME NEW m \in 1 .. N
      PROVE  /\ Piece(stream, flow, m) \in T
             /\ Piece(stream, flow, m).cells[1].n = m
  <2>1. Piece(stream, flow, m).cells[1] = [flow |-> flow, n |-> m, offset |-> 1]
    BY <1>0, PieceIs
  <2>2. Piece(stream, flow, m) \in T
    BY DEF Pieces
  <2> HIDE DEF T
  <2> QED BY <2>1, <2>2
<1> DEFINE P(n) == E(n) <= went => IsAll(r[E(n)], stream, flow, went, n)
           A == {k \in Nat : k <= N => P(N - k)}
<1>9. ASSUME NEW n \in 0 .. N, E(n) <= went, \A m \in n + 1 .. N : ~IsShown(flow, went, m),
             r[E(n)] = <<>>
      PROVE  IsAll(r[E(n)], stream, flow, went, n)
  <2>1. <<>> \in Seq(T) /\ Len(<<>>) = 0 /\ 1 .. 0 = {}
    BY EmptySeq
  <2> DEFINE empty == <<>>
  <2>2. empty \in Seq(T) /\ Len(empty) = 0 /\ 1 .. 0 = {} /\ r[E(n)] = empty
    BY <1>9, <2>1
  <2> HIDE DEF T, E, empty
  <2>3. \A k \in 1 .. Len(empty) : FALSE
    BY <2>2
  <2>4. IsAll(empty, stream, flow, went, n)
    BY <1>9, <2>2, <2>3 DEF IsAll, T
  <2> QED BY <2>2, <2>4
<1>10. P(N)
  <2> SUFFICES ASSUME E(N) <= went PROVE IsAll(r[E(N)], stream, flow, went, N)
    OBVIOUS
  <2>1. E(N) \in 0 .. Len(stream.bytes)
    BY <1>0, <1>6
  <2>2. ~IsFramed(stream, E(N))
    <3> DEFINE b == E(N)
               m == HeaderAt(stream, b).n
    <3> SUFFICES ASSUME IsFramed(stream, b) PROVE FALSE
      OBVIOUS
    <3>1. Framed(stream, flow, 0, b, m)
      <4> HIDE DEF b, ms
      <4> QED BY <1>0, <2>1, FramedMessage DEF b
    <3>2. m \in 1 .. N /\ 0 + b = E(m - 1) /\ EndAt(stream, b) \in b + 1 .. Len(stream.bytes)
          /\ 0 + EndAt(stream, b) = E(m)
      <4> HIDE DEF b
      <4> QED BY <3>1 DEF Framed
    <3>3. E(m) <= E(N) /\ E(m) \in Nat
      <4>1. N \in 0 .. N /\ m \in 0 .. N
        BY <1>0, <3>2
      <4> HIDE DEF E, N, m
      <4> QED BY <1>6, <1>7, <4>1
    <3> HIDE DEF E, m, N
    <3> QED BY <1>0, <2>1, <3>2, <3>3 DEF b
  <2>3. r[E(N)] = <<>>
    BY <1>5, <2>1, <2>2 DEF ReadOn
  <2>4. N + 1 .. N = {} /\ N \in 0 .. N
    BY <1>0
  <2> QED BY <1>9, <2>3, <2>4
<1>11. ASSUME NEW n \in 1 .. N, P(n) PROVE P(n - 1)
  <2> DEFINE b == E(n - 1)
             e == E(n)
             x == Piece(stream, flow, n)
  <2> SUFFICES ASSUME b <= went PROVE IsAll(r[b], stream, flow, went, n - 1)
    OBVIOUS
  <2>0. n - 1 \in 0 .. N /\ n \in 0 .. N /\ (n - 1) + 1 = n /\ n \in Nat
    BY <1>0
  <2>1. /\ b \in 0 .. Len(stream.bytes) /\ e \in Nat /\ b < e
        /\ IsFramed(stream, b) <=> e <= went
        /\ e <= went =>
              /\ EndAt(stream, b) = e
              /\ ReadAt(stream, b) = IF ms[n].kind = "manufacturer" THEN <<>> ELSE <<x>>
    <3>1. /\ b = EndsAt(flow, messages[flow], n - 1) /\ e = EndsAt(flow, messages[flow], n)
          /\ x = [at |-> ArrivalOf(stream, b), cells |-> CellsIn(flow, messages[flow], n)]
      BY DEF Piece
    <3> HIDE DEF b, e, x
    <3> QED BY <3>1, ReadAtABoundary
  <2>2. \A m \in n .. N : m = n \/ m \in n + 1 .. N
    BY <1>0
  <2>5. \A m \in n + 1 .. N : n < m
    BY <1>0
  <2>3. CASE ~(e <= went)
    <3>1. r[b] = <<>>
      BY <1>5, <2>1, <2>3 DEF ReadOn
    <3>2. ASSUME NEW m \in n .. N PROVE ~IsShown(flow, went, m)
      <4>1. e <= E(m) /\ E(m) \in Nat
        <5>1. m \in 0 .. N /\ n \in 0 .. m
          BY <1>0, <2>0
        <5> HIDE DEF E, N
        <5> QED BY <1>6, <1>7, <5>1
      <4>2. ~(E(m) <= went)
        <5> HIDE DEF E
        <5> QED BY <1>0, <2>1, <2>3, <4>1
      <4> QED BY <4>2 DEF IsShown
    <3> QED BY <1>9, <2>0, <3>1, <3>2
  <2>4. CASE e <= went
    <3> DEFINE h == ReadAt(stream, b)
               t == r[e]
    <3>1. r[b] = h \o t
      BY <1>5, <2>1, <2>4 DEF ReadOn
    <3>2. IsAll(t, stream, flow, went, n)
      BY <1>11, <2>4
    <3>3. x \in T /\ x.cells[1].n = n
      BY <1>8
    <3>4. IsShown(flow, went, n) <=> ms[n].kind # "manufacturer"
      BY <2>4 DEF IsShown
    <3>5. h = IF IsShown(flow, went, n) THEN <<x>> ELSE <<>>
      BY <2>1, <2>4, <3>4
    <3> HIDE DEF h, t, T, x, b, e, E
    <3>6. h \in Seq(T) /\ (IsShown(flow, went, n) => Len(h) = 1 /\ h[1] = x)
          /\ (~IsShown(flow, went, n) => Len(h) = 0)
      <4>1. <<x>> \in Seq(T) /\ <<>> \in Seq(T) /\ Len(<<x>>) = 1 /\ <<x>>[1] = x /\ Len(<<>>) = 0
        BY <3>3
      <4> QED BY <3>5, <4>1
    <3>7. t \in Seq(T) /\ Len(t) \in Nat
      BY <3>2, LenProperties DEF IsAll, T
    <3>8. /\ r[b] \in Seq(T) /\ Len(r[b]) = Len(h) + Len(t)
          /\ \A i \in 1 .. Len(h) + Len(t) : r[b][i] = IF i <= Len(h) THEN h[i] ELSE t[i - Len(h)]
      BY <3>1, <3>6, <3>7, ConcatProperties
    <3>9. ASSUME NEW i \in 1 .. Len(r[b])
          PROVE  \/ IsShown(flow, went, n) /\ i = 1 /\ r[b][i] = x /\ Len(h) = 1
                 \/ i - Len(h) \in 1 .. Len(t) /\ r[b][i] = t[i - Len(h)]
      BY <3>6, <3>7, <3>8
    <3>10. ASSUME NEW i \in 1 .. Len(t)
           PROVE  \E m \in n + 1 .. N :
                    IsShown(flow, went, m) /\ t[i] = Piece(stream, flow, m) /\ t[i].cells[1].n = m
      <4>1. PICK m \in n + 1 .. N : IsShown(flow, went, m) /\ t[i] = Piece(stream, flow, m)
        BY <3>2 DEF IsAll
      <4>2. m \in 1 .. N
        BY <1>0
      <4> QED BY <1>8, <4>1, <4>2
    <3>11. \A m \in n + 1 .. N : m \in n .. N
      BY <1>0
    <3>12. ASSUME NEW i \in 1 .. Len(r[b])
           PROVE  \E m \in n .. N : IsShown(flow, went, m) /\ r[b][i] = Piece(stream, flow, m)
      <4>1. CASE IsShown(flow, went, n) /\ i = 1 /\ r[b][i] = x
        <5>1. n \in n .. N
          BY <1>0
        <5> QED BY <4>1, <5>1 DEF x
      <4>2. CASE i - Len(h) \in 1 .. Len(t) /\ r[b][i] = t[i - Len(h)]
        BY <3>10, <3>11, <4>2
      <4> QED BY <3>9, <4>1, <4>2
    <3>13. ASSUME NEW m \in n .. N, IsShown(flow, went, m)
           PROVE  \E i \in 1 .. Len(r[b]) : r[b][i] = Piece(stream, flow, m)
      <4>1. CASE m = n
        <5>1. Len(h) = 1 /\ h[1] = x /\ 1 \in 1 .. Len(r[b])
          <6>1. IsShown(flow, went, n)
            BY <3>13, <4>1
          <6>2. Len(h) = 1 /\ h[1] = x
            BY <3>6, <6>1
          <6> QED BY <3>7, <3>8, <6>2
        <5>2. r[b][1] = x
          BY <3>8, <5>1
        <5> QED BY <4>1, <5>1, <5>2 DEF x
      <4>2. CASE m \in n + 1 .. N
        <5>1. PICK i \in 1 .. Len(t) : t[i] = Piece(stream, flow, m)
          BY <3>2, <3>13, <4>2 DEF IsAll
        <5> DEFINE j == i + Len(h)
        <5>2. j \in 1 .. Len(r[b]) /\ ~(j <= Len(h)) /\ j - Len(h) = i
          BY <3>6, <3>7, <3>8
        <5>3. r[b][j] = t[i]
          BY <3>8, <5>2
        <5> QED BY <5>1, <5>2, <5>3
      <4> QED BY <2>2, <4>1, <4>2
    <3>14. ASSUME NEW i \in 1 .. Len(r[b]), NEW j \in 1 .. Len(r[b]), i < j
           PROVE  r[b][i].cells[1].n < r[b][j].cells[1].n
      <4>1. CASE i - Len(h) \in 1 .. Len(t) /\ r[b][i] = t[i - Len(h)]
        <5>1. j - Len(h) \in 1 .. Len(t) /\ r[b][j] = t[j - Len(h)] /\ i - Len(h) < j - Len(h)
          BY <3>6, <3>7, <3>9, <3>14, <4>1
        <5> QED BY <3>2, <4>1, <5>1 DEF IsAll
      <4>2. CASE i = 1 /\ r[b][i] = x
        <5>1. j - Len(h) \in 1 .. Len(t) /\ r[b][j] = t[j - Len(h)]
          BY <3>9, <3>14, <4>2
        <5>2. PICK m \in n + 1 .. N : r[b][j].cells[1].n = m
          BY <3>10, <5>1
        <5>3. n < m
          BY <2>5
        <5> QED BY <3>3, <4>2, <5>2, <5>3
      <4> QED BY <3>9, <4>1, <4>2
    <3>15. IsAll(r[b], stream, flow, went, n - 1)
      BY <2>0, <3>8, <3>12, <3>13, <3>14 DEF IsAll, T
    <3> QED BY <3>15
  <2> QED BY <2>3, <2>4
<1> HIDE DEF P
<1>12. 0 \in A
  <2>1. N - 0 = N
    BY <1>0
  <2> QED BY <1>10, <2>1
<1>13. ASSUME NEW k \in Nat, k \in A PROVE k + 1 \in A
  <2>1. SUFFICES ASSUME k + 1 <= N PROVE P(N - (k + 1))
    OBVIOUS
  <2>2. N - k \in 1 .. N /\ k <= N /\ (N - k) - 1 = N - (k + 1)
    BY <1>0, <2>1
  <2> QED BY <1>11, <1>13, <2>2
<1> HIDE DEF A
<1>14. N \in A
  BY <1>0, <1>12, <1>13, NatBySets
<1>15. P(0)
  <2>1. N - N = 0
    BY <1>0
  <2> QED BY <1>0, <1>14, <2>1 DEF A
<1>16. E(0) = 0
  <2>1. UpTo(flow, ms, 0) = <<>> /\ Len(<<>>) = 0
    BY StreamGrows
  <2> QED BY <2>1 DEF EndsAt
<1> HIDE DEF E
<1> QED BY <1>0, <1>4, <1>15, <1>16 DEF P

\* The number of the header of a message, where numbers do not wrap.
HeaderNumber(flow, n) == first[flow] + EndsAt(flow, messages[flow], n - 1)

Tiled(flow) ==
  Tiles(packets, flow, first[flow], segmented[flow], Entire(flow, messages[flow]))

\* x is what is read of a message: its cells and when its header arrived.
IsEntry(x, flow, m) ==
  /\ x.cells[1] = [flow |-> flow, n |-> m, offset |-> 1]
  /\ Arrival(packets, flow, HeaderNumber(flow, m), x.at)

IsReadOf(read, flow) ==
  /\ \E T : read \in Seq(T)
  /\ \A k \in 1 .. Len(read) :
       \E m \in 1 .. Len(messages[flow]) :
         IsShown(flow, segmented[flow], m) /\ IsEntry(read[k], flow, m)
  /\ \A m \in 1 .. Len(messages[flow]) :
       IsShown(flow, segmented[flow], m) => \E k \in 1 .. Len(read) : IsEntry(read[k], flow, m)
  /\ \A j, k \in 1 .. Len(read) : j < k => read[j].cells[1].n < read[k].cells[1].n

LEMMA FlowIsRead ==
  ASSUME CaptureInv, NEW flow \in Flows, ~Wraps(flow), Tiled(flow)
  PROVE  IsReadOf(ReadFlow(flow), flow)
<1> DEFINE ms == messages[flow]
           N == Len(ms)
           s == Entire(flow, ms)
           f == first[flow]
           went == segmented[flow]
           stream == JoinTcpStream(FlowSegments(flow))
           read == ReadFlow(flow)
<1>1. CaptureTypes /\ Written <= MaxMessages /\ FlowInv(flow, ms, went, f, packets)
  BY DEF CaptureInv
<1>2. /\ ms \in Seq(Messages) /\ N \in Nat /\ N <= MaxMessages /\ f \in Nat /\ went \in Nat
      /\ Len(packets) \in Nat /\ \A k \in 1 .. Len(packets) : packets[k] \in Packets
  BY <1>1, WrittenIs, LenProperties, ElementOfSeq DEF CaptureTypes
<1>3. /\ Lengths(ms, N, Longest) /\ s \in Seq(Cells) /\ Len(s) \in Nat /\ Len(s) < SequenceModulus
  <2> HIDE DEF ms
  <2> QED BY <1>2, WholeStream
<1>4. went <= Len(s)
  BY <1>1 DEF FlowInv
<1>5. SequenceModulus \in Nat \ {0} /\ Longest \in Nat
  BY DoIpCaptureAssumption, LongestIs
<1>6. f + went <= SequenceModulus
  BY <1>2, <1>5 DEF Wraps
<1>7. \A k \in 1 .. Len(packets) : packets[k].sequence \in Nat
  BY <1>2 DEF Packets
<1>8. Tiles(packets, flow, f, went, s)
  BY DEF Tiled
<1>9. ReadAll(stream, packets, flow, f, went, s)
  <2> HIDE DEF s, f, went, ms, stream
  <2> QED BY <1>2, <1>3, <1>4, <1>5, <1>6, <1>7, <1>8, WholeStreamIsJoined DEF stream
<1>10. /\ stream.bytes = Part(s, 0, went) /\ Len(stream.bytes) = went /\ stream.whole = TRUE
       /\ \A o \in 0 .. went - 1 : Arrival(packets, flow, f + o, ArrivalOf(stream, o))
  <2> HIDE DEF s, f, went, stream
  <2> QED BY <1>9 DEF ReadAll
<1>11. IsJoined(stream, flow, Longest, went)
  <2> HIDE DEF stream, went
  <2>1. 0 + went <= Len(s)
    <3> HIDE DEF s
    <3> QED BY <1>2, <1>4
  <2>2. Stretch(stream.bytes, s, 0)
    BY <1>10, <2>1 DEF Stretch, Part
  <2> QED BY <1>2, <1>3, <1>5, <1>10, <2>2 DEF IsJoined, Reading, Entire
<1>12. read = ReadMessages(stream)
  BY <1>10 DEF ReadFlow
<1>13. IsAll(read, stream, flow, went, 0)
  <2> HIDE DEF stream, read, went
  <2> QED BY <1>11, <1>12, AllIsRead
<1>14. Reading(stream, flow, Longest, 0)
  BY <1>11 DEF IsJoined
<1> HIDE DEF stream, read
<1>15. ASSUME NEW m \in 1 .. N, IsShown(flow, went, m) PROVE IsEntry(Piece(stream, flow, m), flow, m)
  <2> DEFINE o == EndsAt(flow, ms, m - 1)
  <2>1. /\ Piece(stream, flow, m).cells[1] = [flow |-> flow, n |-> m, offset |-> 1]
        /\ Piece(stream, flow, m).at = ArrivalOf(stream, o)
    BY <1>14, PieceIs
  <2>2. o \in 0 .. went - 1
    <3>1. EndsAt(flow, ms, m) <= went
      BY <1>15 DEF IsShown
    <3>2. m \in 0 .. N /\ m # 0 /\ m - 1 \in 0 .. N
      BY <1>2
    <3> HIDE DEF ms, N, o, went
    <3>3. EndsAt(flow, ms, m) = EndsAt(flow, ms, m - 1) + ms[m].length + 1
          /\ EndsAt(flow, ms, m - 1) \in Nat
      BY <1>2, <1>3, <1>5, <3>2, StreamIsPlaced
    <3> DEFINE l == ms[m].length
    <3>4. l \in Nat
      <4>1. l \in 1 .. Longest
        BY <1>3 DEF Lengths
      <4> QED BY <1>5, <4>1
    <3>5. o \in Nat /\ o + l + 1 <= went
      BY <3>1, <3>3 DEF o
    <3> HIDE DEF l
    <3> QED BY <1>2, <3>4, <3>5
  <2>3. HeaderNumber(flow, m) = f + o
    BY DEF HeaderNumber
  <2> HIDE DEF o
  <2>4. Arrival(packets, flow, HeaderNumber(flow, m), Piece(stream, flow, m).at)
    BY <1>10, <2>1, <2>2, <2>3
  <2> QED BY <2>1, <2>4 DEF IsEntry
<1>16. 0 + 1 = 1
  OBVIOUS
<1>17. \A k \in 1 .. Len(read) :
         \E m \in 1 .. N : IsShown(flow, went, m) /\ IsEntry(read[k], flow, m)
  BY <1>13, <1>15, <1>16 DEF IsAll
<1>18. \A m \in 1 .. N : IsShown(flow, went, m) => \E k \in 1 .. Len(read) : IsEntry(read[k], flow, m)
  BY <1>13, <1>15, <1>16 DEF IsAll
<1>19. \E T : read \in Seq(T)
  BY <1>13 DEF IsAll
<1>20. \A j, k \in 1 .. Len(read) : j < k => read[j].cells[1].n < read[k].cells[1].n
  BY <1>13 DEF IsAll
<1> QED BY <1>17, <1>18, <1>19, <1>20 DEF IsReadOf, read

-----------------------------------------------------------------------------
(***************************************************************************)
(* ExtractDoIpMessages: both directions, in the order of arrival.          *)
(***************************************************************************)

\* The rounds of merging.
LEMMA MergeRounds ==
  ASSUME NEW all, all = ReadFlow("request") \o ReadFlow("response"), Len(all) \in Nat
  PROVE  \E j : /\ j[0] = <<>> /\ ExtractDoIpMessages = j[Len(all)]
               /\ \A k \in 1 .. Len(all) : j[k] = Merged(j[k - 1], all[k])
<1> DEFINE L == Len(all)
           J(g, k) == IF k = 0 THEN <<>> ELSE Merged(g[k - 1], all[k])
           Is(g, n) == g = [k \in 0 .. n |-> J(g, k)]
           j == CHOOSE g : Is(g, L)
<1>1. ExtractDoIpMessages = j[L]
  BY DEF ExtractDoIpMessages
<1>2. \A n \in Nat : \E g : Is(g, n)
  <2> DEFINE A == {n \in Nat : \E g : Is(g, n)}
  <2>1. 0 \in A
    <3>1. Is([k \in 0 .. 0 |-> <<>>], 0)
      OBVIOUS
    <3> QED BY <3>1
  <2>2. ASSUME NEW n \in Nat, n \in A PROVE n + 1 \in A
    <3>1. PICK g : Is(g, n)
      BY <2>2
    <3> DEFINE next == Merged(g[n], all[n + 1])
               h == [k \in 0 .. (n + 1) |-> IF k = n + 1 THEN next ELSE g[k]]
    <3>2. \A k \in 0 .. n : g[k] = J(g, k)
      BY <3>1
    <3>3. next = Merged(g[n], all[n + 1])
      OBVIOUS
    <3> HIDE DEF next
    <3>4. /\ \A k \in 0 .. n : h[k] = g[k]
          /\ h[n + 1] = next
          /\ h = [k \in 0 .. (n + 1) |-> h[k]]
      OBVIOUS
    <3> HIDE DEF h
    <3>5. ASSUME NEW k \in 0 .. (n + 1) PROVE h[k] = J(h, k)
      <4>1. CASE k = n + 1
        <5>1. k - 1 = n /\ k - 1 \in 0 .. n /\ k # 0
          BY <4>1
        <5> QED BY <3>3, <3>4, <4>1, <5>1
      <4>2. CASE k # n + 1
        <5>1. k \in 0 .. n /\ (k # 0 => k - 1 \in 0 .. n)
          BY <4>2
        <5> QED BY <3>2, <3>4, <5>1
      <4> QED BY <4>1, <4>2
    <3> HIDE DEF J
    <3>6. Is(h, n + 1)
      BY <3>4, <3>5
    <3> QED BY <3>6
  <2> HIDE DEF A
  <2>3. \A n \in Nat : n \in A
    BY <2>1, <2>2, NatBySets
  <2> QED BY <2>3 DEF A
<1> HIDE DEF Is
<1>3. Is(j, L)
  <2>1. \E g : Is(g, L)
    BY <1>2
  <2> QED BY <2>1, Zenon
<1> HIDE DEF j
<1>4. \A k \in 0 .. L : j[k] = IF k = 0 THEN <<>> ELSE Merged(j[k - 1], all[k])
  BY <1>3 DEF Is
<1>5. j[0] = <<>> /\ \A k \in 1 .. L : j[k] = Merged(j[k - 1], all[k])
  BY <1>4
<1> QED BY <1>1, <1>5 DEF L

\* By arrival, and then by number.
EntryOrder(T) ==
  {pair \in T \X T : \/ pair[1].at < pair[2].at
                     \/ pair[1].at = pair[2].at /\ pair[1].cells[1].n < pair[2].cells[1].n}

\* s are the first n of all, in order.
Merges(s, T, all, n) ==
  /\ s \in Seq(T)
  /\ \A i \in 1 .. Len(s) : \E k \in 1 .. n : s[i] = all[k]
  /\ \A k \in 1 .. n : \E i \in 1 .. Len(s) : s[i] = all[k]
  /\ \A i, j \in 1 .. Len(s) : i < j => <<s[i], s[j]>> \in EntryOrder(T)

\* What arrived in one packet is in order already.
Mergeable(all, T) ==
  /\ all \in Seq(T) /\ \A x \in T : x.at \in Nat
  /\ \A i, j \in 1 .. Len(all) :
       i < j /\ all[i].at = all[j].at => all[i].cells[1].n < all[j].cells[1].n

LEMMA MergeStep ==
  ASSUME NEW T, NEW all, Mergeable(all, T), NEW n \in Nat, n + 1 <= Len(all),
         NEW s, Merges(s, T, all, n)
  PROVE  Merges(Merged(s, all[n + 1]), T, all, n + 1)
<1> DEFINE R == EntryOrder(T)
           L == Len(all)
           x == all[n + 1]
           rank == [y \in T |-> y.at]
           before == {k \in DOMAIN s : rank[s[k]] <= rank[x]}
           t == Merged(s, x)
<1>1. L \in Nat /\ n + 1 \in 1 .. L /\ n < n + 1 /\ (\A k \in 1 .. n : k \in 1 .. L /\ k < n + 1)
      /\ \A k \in 1 .. L : all[k] \in T
  BY LenProperties, ElementOfSeq DEF Mergeable
<1>2. x \in T
  BY <1>1
<1>3. /\ \A y \in T : y.at \in Nat
      /\ \A i, j \in 1 .. L : i < j /\ all[i].at = all[j].at => all[i].cells[1].n < all[j].cells[1].n
  BY DEF Mergeable
<1>4. /\ s \in Seq(T) /\ Len(s) \in Nat /\ DOMAIN s = 1 .. Len(s) /\ \A i \in 1 .. Len(s) : s[i] \in T
      /\ \A i \in 1 .. Len(s) : \E k \in 1 .. n : s[i] = all[k]
      /\ \A k \in 1 .. n : \E i \in 1 .. Len(s) : s[i] = all[k]
      /\ \A i, j \in 1 .. Len(s) : i < j => <<s[i], s[j]>> \in R
  BY LenProperties, ElementOfSeq DEF Merges
<1>5. \A y, z \in T : <<y, z>> \in R <=>
         y.at < z.at \/ (y.at = z.at /\ y.cells[1].n < z.cells[1].n)
  BY DEF EntryOrder
<1> HIDE DEF R, L
<1>6. rank \in [T -> Int] /\ \A y \in T : rank[y] = y.at
  BY <1>3
<1>14. \A i \in 1 .. Len(s) : s[i].at = x.at => s[i].cells[1].n < x.cells[1].n
  <2> TAKE i \in 1 .. Len(s)
  <2>1. PICK k \in 1 .. n : s[i] = all[k]
    BY <1>4
  <2>2. k \in 1 .. L /\ k < n + 1
    BY <1>1
  <2> QED BY <1>1, <1>3, <2>1, <2>2
<1>15. \A k \in 1 .. n + 1 : k \in 1 .. n \/ k = n + 1
  OBVIOUS
<1>16. n + 1 \in 1 .. n + 1 /\ \A k \in 1 .. n : k \in 1 .. n + 1
  OBVIOUS
<1>17. x = all[n + 1]
  OBVIOUS
<1> HIDE DEF x
<1>7. before = {k \in DOMAIN s : s[k].at <= x.at}
  BY <1>2, <1>4, <1>6
<1>8. t = InsertAt(s, Cardinality(before) + 1, x)
  BY <1>7 DEF Merged
<1> HIDE DEF rank, before, t
<1>9. ASSUME NEW i \in 1 .. Len(s), NEW j \in 1 .. Len(s), i < j PROVE rank[s[i]] <= rank[s[j]]
  <2>1. s[i] \in T /\ s[j] \in T /\ <<s[i], s[j]>> \in R
    BY <1>4, <1>9
  <2>2. s[i].at <= s[j].at
    BY <1>3, <1>5, <2>1
  <2> QED BY <1>6, <2>1, <2>2
<1>10. /\ t \in Seq(T)
       /\ \E c \in 0 .. Len(s) :
            /\ Inserted(t, s, x, c)
            /\ \A i \in 1 .. c : rank[s[i]] <= rank[x]
            /\ \A i \in c + 1 .. Len(s) : rank[x] < rank[s[i]]
  <2>1. before = {k \in DOMAIN s : rank[s[k]] <= rank[x]}
    BY DEF before
  <2>2. x \in T /\ s \in Seq(T) /\ rank \in [T -> Int]
    BY <1>2, <1>4, <1>6
  <2> QED BY <1>8, <1>9, <2>1, <2>2, SortedInserts
<1>11. PICK c \in 0 .. Len(s) :
         /\ Inserted(t, s, x, c)
         /\ \A i \in 1 .. c : rank[s[i]] <= rank[x]
         /\ \A i \in c + 1 .. Len(s) : rank[x] < rank[s[i]]
  BY <1>10
<1>12. \A i \in 1 .. c : <<s[i], x>> \in R
  <2> TAKE i \in 1 .. c
  <2>1. i \in 1 .. Len(s)
    BY <1>4
  <2>2. s[i] \in T /\ rank[s[i]] <= rank[x]
    BY <1>4, <1>11, <2>1
  <2>3. s[i].at < x.at \/ s[i].at = x.at
    BY <1>2, <1>3, <1>6, <2>2
  <2> QED BY <1>2, <1>5, <1>14, <2>1, <2>2, <2>3
<1>13. \A i \in c + 1 .. Len(s) : <<x, s[i]>> \in R
  <2> TAKE i \in c + 1 .. Len(s)
  <2>1. i \in 1 .. Len(s)
    BY <1>4
  <2>2. s[i] \in T /\ rank[x] < rank[s[i]]
    BY <1>4, <1>11, <2>1
  <2> QED BY <1>2, <1>5, <1>6, <2>2
<1>18. \A i, j \in 1 .. Len(t) : i < j => <<t[i], t[j]>> \in R
  <2>1. /\ Len(s) \in Nat /\ Inserted(t, s, x, c)
        /\ \A i, j \in 1 .. Len(s) : i < j => <<s[i], s[j]>> \in R
    BY <1>4, <1>11
  <2> QED BY <1>12, <1>13, <2>1, InsertedInOrder
<1>19. Holding(t, s, x)
  BY <1>4, <1>11, InsertedHolds
<1>20. \A k \in 1 .. n + 1 : \E i \in 1 .. Len(t) : t[i] = all[k]
  <2> TAKE k \in 1 .. n + 1
  <2>1. CASE k = n + 1
    BY <1>17, <1>19, <2>1 DEF Holding
  <2>2. CASE k \in 1 .. n
    <3>1. PICK i \in 1 .. Len(s) : s[i] = all[k]
      BY <1>4, <2>2
    <3> QED BY <1>19, <3>1 DEF Holding
  <2> QED BY <1>15, <2>1, <2>2
<1>21. \A i \in 1 .. Len(t) : \E k \in 1 .. n + 1 : t[i] = all[k]
  <2> TAKE i \in 1 .. Len(t)
  <2>1. Stood(t, s, x, c, i)
    BY <1>4, <1>11, InsertedFrom
  <2>2. CASE t[i] = x
    BY <1>16, <1>17, <2>2
  <2>3. CASE \E k \in 1 .. Len(s) : t[i] = s[k]
    BY <1>4, <1>16, <2>3
  <2> QED BY <2>1, <2>2, <2>3 DEF Stood
<1>22. Merges(t, T, all, n + 1)
  <2>1. t \in Seq(T)
    BY <1>10
  <2>2. \A i, j \in 1 .. Len(t) : i < j => <<t[i], t[j]>> \in EntryOrder(T)
    BY <1>18 DEF R
  <2> DEFINE m == n + 1
  <2>3. /\ \A i \in 1 .. Len(t) : \E k \in 1 .. m : t[i] = all[k]
        /\ \A k \in 1 .. m : \E i \in 1 .. Len(t) : t[i] = all[k]
    BY <1>20, <1>21
  <2> HIDE DEF m
  <2>4. Merges(t, T, all, m)
    BY <2>1, <2>2, <2>3 DEF Merges
  <2> QED BY <2>4 DEF m
<1> QED BY <1>22 DEF t, x

\* What is log: every message that is shown, in the order of arrival.
IsLog(log) ==
  /\ Len(log) \in Nat
  /\ \A i \in 1 .. Len(log) : \E g \in Flows : \E m \in 1 .. Len(messages[g]) :
       IsShown(g, segmented[g], m) /\ IsEntry(log[i], g, m)
  /\ \A g \in Flows : \A m \in 1 .. Len(messages[g]) :
       IsShown(g, segmented[g], m) => \E i \in 1 .. Len(log) : IsEntry(log[i], g, m)
  /\ \A i, j \in 1 .. Len(log) : i < j =>
       \/ log[i].at < log[j].at
       \/ log[i].at = log[j].at /\ log[i].cells[1].n < log[j].cells[1].n

LEMMA EntriesMerge ==
  ASSUME Len(packets) \in Nat, \A g \in Flows : IsReadOf(ReadFlow(g), g)
  PROVE  IsLog(ExtractDoIpMessages)
<1> DEFINE a == ReadFlow("request")
           b == ReadFlow("response")
           all == a \o b
           L == Len(all)
           T == {all[k] : k \in 1 .. Len(all)}
           log == ExtractDoIpMessages
<1>1. "request" \in Flows /\ "response" \in Flows /\ "request" # "response"
      /\ \A g \in Flows : g = "request" \/ g = "response"
  BY DEF Flows
<1>2. IsReadOf(a, "request") /\ IsReadOf(b, "response")
  BY <1>1
<1> HIDE DEF a, b
<1>3. PICK A, B : a \in Seq(A) /\ b \in Seq(B)
  BY <1>2 DEF IsReadOf
<1>4. a \in Seq(A \union B) /\ b \in Seq(A \union B) /\ Len(a) \in Nat /\ Len(b) \in Nat
  <2> DEFINE U == A \union B
  <2>1. A \subseteq U /\ B \subseteq U
    OBVIOUS
  <2>2. Len(a) \in Nat /\ Len(b) \in Nat /\ (\A i \in 1 .. Len(a) : a[i] \in A) /\ (\A i \in 1 .. Len(b) : b[i] \in B)
        /\ a = [i \in 1 .. Len(a) |-> a[i]] /\ b = [i \in 1 .. Len(b) |-> b[i]]
    BY <1>3, LenProperties, ElementOfSeq
  <2> HIDE DEF U
  <2>3. a \in [1 .. Len(a) -> U] /\ b \in [1 .. Len(b) -> U]
    BY <2>1, <2>2
  <2>4. a \in Seq(U) /\ b \in Seq(U)
    BY <2>2, <2>3, SeqDef
  <2> QED BY <2>2, <2>4 DEF U
<1>5. /\ all \in Seq(A \union B) /\ L = Len(a) + Len(b)
      /\ \A i \in 1 .. Len(a) + Len(b) : all[i] = IF i <= Len(a) THEN a[i] ELSE b[i - Len(a)]
  BY <1>4, ConcatProperties
<1> HIDE DEF all
<1>6. L \in Nat /\ all \in Seq(T) /\ \A i \in 1 .. L : all[i] \in T
  <2>1. L \in Nat /\ all = [i \in 1 .. L |-> all[i]]
    BY <1>4, <1>5, LenProperties
  <2>2. \A i \in 1 .. L : all[i] \in T
    OBVIOUS
  <2> HIDE DEF T, L
  <2>3. all \in [1 .. L -> T]
    BY <2>1, <2>2
  <2> QED BY <2>1, <2>2, <2>3, SeqDef
<1> DEFINE IsOf(x, g) == \E m \in 1 .. Len(messages[g]) :
             IsShown(g, segmented[g], m) /\ IsEntry(x, g, m)
<1>7. ASSUME NEW x, NEW g \in Flows, IsOf(x, g)
      PROVE  x.cells[1].flow = g /\ x.at \in Nat /\ packets[x.at].flow = g
  <2>1. PICK m \in 1 .. Len(messages[g]) : IsEntry(x, g, m)
    BY <1>7
  <2>2. x.cells[1].flow = g
    BY <2>1 DEF IsEntry
  <2>3. x.at \in OfFlow(packets, g)
    BY <2>1 DEF IsEntry, Arrival
  <2> QED BY <2>2, <2>3 DEF OfFlow
<1> DEFINE InA(i) == i \in 1 .. Len(a) /\ all[i] = a[i]
           InB(i) == i - Len(a) \in 1 .. Len(b) /\ all[i] = b[i - Len(a)]
<1>8. ASSUME NEW i \in 1 .. L PROVE InA(i) \/ InB(i)
  BY <1>4, <1>5
<1>9. ASSUME NEW i \in 1 .. L
      PROVE  (InA(i) => IsOf(all[i], "request")) /\ (InB(i) => IsOf(all[i], "response"))
  BY <1>2 DEF IsReadOf
<1>10. ASSUME NEW i \in 1 .. L, NEW j \in 1 .. L, i < j, all[i].at = all[j].at
       PROVE  all[i].cells[1].n < all[j].cells[1].n
  <2>1. CASE InA(i) /\ InA(j)
    BY <1>2, <1>10, <2>1 DEF IsReadOf
  <2>2. CASE InB(i) /\ InB(j)
    <3>1. i - Len(a) < j - Len(a)
      BY <1>4, <1>5, <1>10
    <3> QED BY <1>2, <2>2, <3>1 DEF IsReadOf
  <2>3. CASE InA(i) /\ InB(j)
    <3>1. packets[all[i].at].flow = "request" /\ packets[all[j].at].flow = "response"
      <4>1. IsOf(all[i], "request") /\ IsOf(all[j], "response")
        BY <1>9, <2>3
      <4> HIDE DEF IsOf
      <4> QED BY <1>1, <1>7, <4>1
    <3> QED BY <1>1, <1>10, <3>1
  <2>4. CASE InB(i) /\ InA(j)
    BY <1>4, <1>10, <2>4
  <2> QED BY <1>8, <2>1, <2>2, <2>3, <2>4
<1>11. \A i \in 1 .. L : \E g \in Flows : IsOf(all[i], g)
  BY <1>1, <1>8, <1>9
<1>12. ASSUME NEW g \in Flows, NEW m \in 1 .. Len(messages[g]), IsShown(g, segmented[g], m)
       PROVE  \E i \in 1 .. L : IsEntry(all[i], g, m)
  <2>1. CASE g = "request"
    <3>1. PICK i \in 1 .. Len(a) : IsEntry(a[i], g, m)
      BY <1>2, <1>12, <2>1 DEF IsReadOf
    <3>2. i \in 1 .. L /\ all[i] = a[i]
      BY <1>4, <1>5
    <3> QED BY <3>1, <3>2
  <2>2. CASE g = "response"
    <3>1. PICK i \in 1 .. Len(b) : IsEntry(b[i], g, m)
      BY <1>2, <1>12, <2>2 DEF IsReadOf
    <3> DEFINE j == i + Len(a)
    <3>2. j \in 1 .. L /\ ~(j <= Len(a)) /\ j - Len(a) = i
      BY <1>4, <1>5
    <3>3. all[j] = b[i]
      BY <1>4, <1>5, <3>2
    <3> QED BY <3>1, <3>2, <3>3
  <2> QED BY <1>1, <2>1, <2>2
<1>13. Mergeable(all, T)
  <2>1. \A i \in 1 .. L : all[i].at \in Nat
    <3> HIDE DEF IsOf
    <3> QED BY <1>7, <1>11
  <2>2. \A x \in T : x.at \in Nat
    BY <2>1
  <2> HIDE DEF T
  <2> QED BY <1>6, <1>10, <2>2 DEF Mergeable
<1>14. PICK j : /\ j[0] = <<>> /\ log = j[L]
                /\ \A k \in 1 .. L : j[k] = Merged(j[k - 1], all[k])
  BY <1>6, MergeRounds DEF all, a, b
<1> HIDE DEF T, L, log
<1> DEFINE D == {n \in Nat : n <= L => Merges(j[n], T, all, n)}
<1>15. 0 \in D
  <2> DEFINE empty == <<>>
  <2>1. empty \in Seq(T) /\ Len(empty) = 0 /\ 1 .. 0 = {}
    BY EmptySeq
  <2>2. j[0] = empty
    BY <1>14
  <2> HIDE DEF empty
  <2>3. Merges(empty, T, all, 0)
    BY <2>1 DEF Merges
  <2> QED BY <2>2, <2>3
<1>16. ASSUME NEW n \in Nat, n \in D PROVE n + 1 \in D
  <2>1. SUFFICES ASSUME n + 1 <= L PROVE Merges(j[n + 1], T, all, n + 1)
    OBVIOUS
  <2>2. n <= L /\ n + 1 \in 1 .. L /\ (n + 1) - 1 = n
    BY <1>6, <2>1
  <2>3. Merges(j[n], T, all, n)
    BY <1>16, <2>2
  <2>4. j[n + 1] = Merged(j[n], all[n + 1])
    BY <1>14, <2>2
  <2>5. Merges(Merged(j[n], all[n + 1]), T, all, n + 1)
    BY <1>13, <2>1, <2>3, MergeStep DEF L
  <2> QED BY <2>4, <2>5
<1> HIDE DEF D
<1>17. L \in D
  BY <1>6, <1>15, <1>16, NatBySets
<1>18. Merges(log, T, all, L)
  BY <1>6, <1>14, <1>17 DEF D
<1>19. Len(log) \in Nat /\ \A i \in 1 .. Len(log) : log[i] \in T
  BY <1>18, LenProperties, ElementOfSeq DEF Merges
<1>20. \A i \in 1 .. Len(log) : \E g \in Flows : IsOf(log[i], g)
  <2> HIDE DEF IsOf
  <2> QED BY <1>11, <1>18 DEF Merges
<1>21. ASSUME NEW g \in Flows, NEW m \in 1 .. Len(messages[g]), IsShown(g, segmented[g], m)
       PROVE  \E i \in 1 .. Len(log) : IsEntry(log[i], g, m)
  <2>1. PICK k \in 1 .. L : IsEntry(all[k], g, m)
    BY <1>12, <1>21
  <2>2. PICK i \in 1 .. Len(log) : log[i] = all[k]
    BY <1>18 DEF Merges
  <2> QED BY <2>1, <2>2
<1>22. \A i, k \in 1 .. Len(log) : i < k =>
         \/ log[i].at < log[k].at
         \/ log[i].at = log[k].at /\ log[i].cells[1].n < log[k].cells[1].n
  <2> TAKE i, k \in 1 .. Len(log)
  <2> HAVE i < k
  <2>1. <<log[i], log[k]>> \in EntryOrder(T)
    BY <1>18 DEF Merges
  <2> QED BY <1>19, <2>1 DEF EntryOrder
<1>23. IsLog(log)
  BY <1>19, <1>20, <1>21, <1>22 DEF IsLog
<1> QED BY <1>23 DEF log

-----------------------------------------------------------------------------
(***************************************************************************)
(* What the tester and the ECUs may say when, and where it is in the       *)
(* capture.                                                                *)
(***************************************************************************)

Asks == messages["request"]
Answers == messages["response"]
To(m) == Answers[m].asked
IsAnswer(m) == m \in 1 .. Len(Answers) /\ To(m) # 0
IsFinal(m) == IsAnswer(m) /\ Answers[m].bytes # PendingAnswer(Asks[To(m)].bytes)
Got(g, n) == EndsAt(g, messages[g], n) <= segmented[g]

\* What is true of an answer: it was asked for, nobody asks its ECU again before
\* it is there, and the final one is the last.
IsDue(m) ==
  /\ Answers[m].kind = "diagnostic" /\ To(m) \in 1 .. Len(Asks)
  /\ Answers[m].ecu = Asks[To(m)].ecu
  /\ Answers[m].bytes \in FinalAnswers(Asks[To(m)].bytes, Reports)
                            \union {PendingAnswer(Asks[To(m)].bytes)}
  /\ Got("request", To(m))
  /\ \A r \in 1 .. Len(Asks) : Asks[r].ecu = Answers[m].ecu /\ r > To(m) => Got("response", m)
  /\ \A n \in 1 .. m - 1 : To(n) = To(m) => ~IsFinal(n)
  /\ IsFinal(m) => To(m) \notin owed

Dialogue ==
  /\ \A m \in 1 .. Len(Answers) : IF To(m) = 0 THEN Answers[m].kind # "diagnostic" ELSE IsDue(m)
  /\ \A n \in owed : \A r \in 1 .. Len(Asks) : Asks[r].ecu = Asks[n].ecu => r <= n

\* Wherever a cell y of direction h is, a cell x of direction g was before.
Ahead(ps, g, x, h, y) ==
  \A i \in OfFlow(ps, h) : Holds(ps[i], y) => \E j \in OfFlow(ps, g) : j < i /\ Holds(ps[j], x)

Clean == ~troubled /\ \A flow \in Flows : ~Wraps(flow)

\* An answer is behind its request, and before the next one of its ECU.
InPlace(m) ==
  /\ Ahead(packets, "request", HeaderNumber("request", To(m)), "response", HeaderNumber("response", m))
  /\ \A r \in 1 .. Len(Asks) : Asks[r].ecu = Answers[m].ecu /\ r > To(m) =>
       Ahead(packets, "response", HeaderNumber("response", m), "request", HeaderNumber("request", r))

OrderInv ==
  Clean => /\ \A g \in Flows : Tiled(g)
           /\ \A m \in 1 .. Len(Answers) : To(m) # 0 => InPlace(m)

-----------------------------------------------------------------------------
LEMMA ArrivalsInOrder ==
  ASSUME NEW ps, NEW flow, NEW f \in Nat, NEW went, NEW s, Tiles(ps, flow, f, went, s), Len(ps) \in Nat,
         NEW x \in Nat, NEW y \in Nat, f <= x, x <= y,
         NEW i, NEW j, Arrival(ps, flow, x, i), Arrival(ps, flow, y, j)
  PROVE  i <= j
<1>1. /\ i \in OfFlow(ps, flow) /\ \A k \in OfFlow(ps, flow) : Holds(ps[k], x) => i <= k
      /\ j \in OfFlow(ps, flow) /\ Holds(ps[j], y)
  BY DEF Arrival
<1>2. i \in Nat /\ j \in Nat /\ \A k \in OfFlow(ps, flow) : k \in Nat
  BY <1>1 DEF OfFlow
<1>3. ps[j].sequence \in Nat /\ Len(ps[j].cells) \in Nat
  BY <1>1 DEF Tiles, IsTile
<1> DEFINE q == ps[j].sequence
           l == Len(ps[j].cells)
<1>4. q <= y /\ y < q + l
  BY <1>1 DEF Holds
<1>5. CASE q <= x
  <2>1. x < q + l
    <3> HIDE DEF q, l
    <3> QED BY <1>3, <1>4 DEF q, l
  <2>2. Holds(ps[j], x)
    BY <1>5, <2>1 DEF Holds
  <2> QED BY <1>1, <2>2
<1>6. CASE x < q
  <2>1. x \in f .. ps[j].sequence - 1
    BY <1>3, <1>6
  <2>2. PICK k \in OfFlow(ps, flow) : k < j /\ Holds(ps[k], x)
    BY <1>1, <2>1 DEF Tiles
  <2> QED BY <1>1, <1>2, <2>2
<1> QED BY <1>3, <1>5, <1>6

-----------------------------------------------------------------------------
Says(x, g, m) ==
  m \in 1 .. Len(messages[g]) /\ x.cells[1] = [flow |-> g, n |-> m, offset |-> 1]

\* What both ends got, as it was log.
IsRecord(log) ==
  /\ Len(log) \in Nat
  /\ \A i \in 1 .. Len(log) : \E g \in Flows : \E m \in 1 .. Len(messages[g]) :
       Says(log[i], g, m) /\ Got(g, m)
  /\ \A g \in Flows : \A m \in 1 .. Len(messages[g]) :
       Got(g, m) /\ messages[g][m].kind = "diagnostic" =>
         \E i \in 1 .. Len(log) : Says(log[i], g, m)
  /\ \A i, j \in 1 .. Len(log) : \A g \in Flows : \A m, n \in 1 .. Len(messages[g]) :
       i < j /\ Says(log[i], g, m) /\ Says(log[j], g, n) => m < n
  /\ \A j \in 1 .. Len(log) : \A m \in 1 .. Len(Answers) :
       Says(log[j], "response", m) /\ IsAnswer(m) =>
         \E i \in 1 .. Len(log) : i < j /\ Says(log[i], "request", To(m))
  /\ \A i, j \in 1 .. Len(log) : \A m \in 1 .. Len(Answers) : \A r \in 1 .. Len(Asks) :
       /\ Says(log[i], "response", m) /\ IsAnswer(m) /\ Says(log[j], "request", r)
       /\ Asks[r].ecu = Answers[m].ecu /\ r > To(m)
       => i < j

\* Numbers of messages, in their order.
LEMMA NumbersInOrder ==
  ASSUME CaptureInv, NEW flow \in Flows
  PROVE  /\ \A n \in 1 .. Len(messages[flow]) : HeaderNumber(flow, n) \in Nat /\ first[flow] <= HeaderNumber(flow, n)
         /\ \A m, n \in 1 .. Len(messages[flow]) : m <= n => HeaderNumber(flow, m) <= HeaderNumber(flow, n)
<1> DEFINE ms == messages[flow]
           N == Len(ms)
           f == first[flow]
<1>1. CaptureTypes /\ Written <= MaxMessages
  BY DEF CaptureInv
<1>2. ms \in Seq(Messages) /\ N \in Nat /\ N <= MaxMessages /\ f \in Nat
  BY <1>1, WrittenIs DEF CaptureTypes
<1>3. Lengths(ms, N, Longest) /\ Longest \in Nat
  <2> HIDE DEF ms
  <2> QED BY <1>2, WholeStream, LongestIs
<1> HIDE DEF ms, N, f
<1>4. /\ \A n \in 0 .. N : EndsAt(flow, ms, n) \in Nat
      /\ \A j \in 0 .. N : \A i \in 0 .. j : EndsAt(flow, ms, i) <= EndsAt(flow, ms, j)
  BY <1>2, <1>3, StreamIsPlaced, EndsInOrder
<1>5. \A n : HeaderNumber(flow, n) = f + EndsAt(flow, ms, n - 1)
  BY DEF HeaderNumber, f, ms
<1>6. ASSUME NEW n \in 1 .. N PROVE HeaderNumber(flow, n) \in Nat /\ f <= HeaderNumber(flow, n)
  <2>1. n - 1 \in 0 .. N
    BY <1>2
  <2> DEFINE e == EndsAt(flow, ms, n - 1)
  <2>2. e \in Nat /\ HeaderNumber(flow, n) = f + e
    BY <1>4, <1>5, <2>1
  <2> HIDE DEF e
  <2> QED BY <1>2, <2>2
<1>7. ASSUME NEW m \in 1 .. N, NEW n \in 1 .. N, m <= n PROVE HeaderNumber(flow, m) <= HeaderNumber(flow, n)
  <2>1. n - 1 \in 0 .. N /\ m - 1 \in 0 .. n - 1 /\ m - 1 \in 0 .. N
    BY <1>2, <1>7
  <2> DEFINE e == EndsAt(flow, ms, n - 1)
             d == EndsAt(flow, ms, m - 1)
  <2>2. e \in Nat /\ d \in Nat /\ d <= e /\ HeaderNumber(flow, n) = f + e /\ HeaderNumber(flow, m) = f + d
    BY <1>4, <1>5, <2>1
  <2> HIDE DEF e, d
  <2> QED BY <1>2, <2>2
<1> QED BY <1>6, <1>7 DEF N, f, ms

LEMMA LogIsRecord ==
  ASSUME CaptureInv, Dialogue, Clean, OrderInv, NEW log, IsLog(log)
  PROVE  IsRecord(log)
<1>1. /\ "request" \in Flows /\ "response" \in Flows
      /\ (\A g \in Flows : Tiled(g))
      /\ \A m \in 1 .. Len(Answers) : To(m) # 0 => InPlace(m)
  BY DEF OrderInv, Flows
<1>2. CaptureTypes /\ Len(packets) \in Nat /\ \A g \in Flows : first[g] \in Nat
  BY LenProperties DEF CaptureInv, CaptureTypes
<1>3. Len(log) \in Nat
  BY DEF IsLog
<1>4. ASSUME NEW i \in 1 .. Len(log), NEW g \in Flows, NEW m, Says(log[i], g, m)
      PROVE  /\ IsShown(g, segmented[g], m)
             /\ Arrival(packets, g, HeaderNumber(g, m), log[i].at) /\ log[i].at \in Nat
  <2>1. PICK h \in Flows : \E n \in 1 .. Len(messages[h]) :
               IsShown(h, segmented[h], n) /\ IsEntry(log[i], h, n)
    BY DEF IsLog
  <2>2. PICK n \in 1 .. Len(messages[h]) : IsShown(h, segmented[h], n) /\ IsEntry(log[i], h, n)
    BY <2>1
  <2>3. log[i].cells[1] = [flow |-> g, n |-> m, offset |-> 1]
        /\ log[i].cells[1] = [flow |-> h, n |-> n, offset |-> 1]
    BY <1>4, <2>2 DEF Says, IsEntry
  <2>4. g = h /\ m = n
    BY <2>3
  <2>5. IsShown(g, segmented[g], m) /\ Arrival(packets, g, HeaderNumber(g, m), log[i].at)
    BY <2>2, <2>4 DEF IsEntry
  <2> QED BY <2>5 DEF Arrival, OfFlow
<1>5. ASSUME NEW i \in 1 .. Len(log), NEW j \in 1 .. Len(log), log[i].at < log[j].at,
             log[i].at \in Nat, log[j].at \in Nat
      PROVE  i < j
  <2>1. CASE i = j
    BY <1>5, <2>1
  <2>2. CASE j < i
    <3>1. log[j].at < log[i].at \/ log[j].at = log[i].at
      BY <2>2 DEF IsLog
    <3> QED BY <1>5, <3>1
  <2> QED BY <2>1, <2>2
<1>6. ASSUME NEW g \in Flows, NEW m \in 1 .. Len(messages[g]),
             Got(g, m), messages[g][m].kind = "diagnostic"
      PROVE  \E i \in 1 .. Len(log) : Says(log[i], g, m)
  <2>1. IsShown(g, segmented[g], m)
    BY <1>6 DEF Got, IsShown
  <2>2. PICK i \in 1 .. Len(log) : IsEntry(log[i], g, m)
    BY <2>1 DEF IsLog
  <2> QED BY <2>2 DEF IsEntry, Says
<1>7. ASSUME NEW i \in 1 .. Len(log) PROVE \E g \in Flows : \E m \in 1 .. Len(messages[g]) : Says(log[i], g, m) /\ Got(g, m)
  <2>1. PICK h \in Flows : \E n \in 1 .. Len(messages[h]) :
               IsShown(h, segmented[h], n) /\ IsEntry(log[i], h, n)
    BY DEF IsLog
  <2>2. PICK n \in 1 .. Len(messages[h]) : IsShown(h, segmented[h], n) /\ IsEntry(log[i], h, n)
    BY <2>1
  <2>3. Says(log[i], h, n) /\ Got(h, n)
    BY <2>2 DEF IsEntry, Says, IsShown, Got
  <2> QED BY <2>3
<1>8. ASSUME NEW i \in 1 .. Len(log), NEW j \in 1 .. Len(log), NEW g \in Flows,
             NEW m \in 1 .. Len(messages[g]), NEW n \in 1 .. Len(messages[g]),
             i < j, Says(log[i], g, m), Says(log[j], g, n)
      PROVE  m < n
  <2>1. /\ Arrival(packets, g, HeaderNumber(g, m), log[i].at) /\ log[i].at \in Nat
        /\ Arrival(packets, g, HeaderNumber(g, n), log[j].at) /\ log[j].at \in Nat
    BY <1>4, <1>8
  <2>2. log[i].cells[1].n = m /\ log[j].cells[1].n = n
    BY <1>8 DEF Says
  <2>3. \/ log[i].at < log[j].at
        \/ log[i].at = log[j].at /\ m < n
    BY <1>8, <2>2 DEF IsLog
  <2>4. ASSUME n <= m PROVE log[j].at <= log[i].at
    <3>1. /\ HeaderNumber(g, n) \in Nat /\ HeaderNumber(g, m) \in Nat /\ first[g] <= HeaderNumber(g, n)
          /\ HeaderNumber(g, n) <= HeaderNumber(g, m)
      BY <2>4, NumbersInOrder
    <3> QED BY <1>1, <1>2, <2>1, <3>1, ArrivalsInOrder DEF Tiled
  <2>5. m \in Int /\ n \in Int
    OBVIOUS
  <2> QED BY <2>1, <2>3, <2>4, <2>5
<1>9. ASSUME NEW j \in 1 .. Len(log), NEW m \in 1 .. Len(Answers),
             Says(log[j], "response", m), IsAnswer(m)
      PROVE  \E i \in 1 .. Len(log) : i < j /\ Says(log[i], "request", To(m))
  <2> DEFINE q == To(m)
  <2>1. q \in 1 .. Len(Asks) /\ Got("request", q) /\ q # 0
    BY <1>9 DEF IsAnswer, Dialogue, IsDue
  <2>2. messages["request"][q].kind = "diagnostic"
    <3>1. Asks[q] \in Questions
      BY <1>2, <2>1, ElementOfSeq DEF CaptureTypes, Asks
    <3> QED BY <3>1 DEF Questions, Asks
  <2>3. PICK i \in 1 .. Len(log) : Says(log[i], "request", q)
    BY <1>1, <1>6, <2>1, <2>2 DEF Asks
  <2>4. /\ Arrival(packets, "response", HeaderNumber("response", m), log[j].at) /\ log[j].at \in Nat
        /\ Arrival(packets, "request", HeaderNumber("request", q), log[i].at) /\ log[i].at \in Nat
    BY <1>1, <1>4, <1>9, <2>3
  <2>5. Ahead(packets, "request", HeaderNumber("request", q), "response", HeaderNumber("response", m))
    BY <1>1, <2>1 DEF InPlace
  <2>6. PICK k \in OfFlow(packets, "request") :
          k < log[j].at /\ Holds(packets[k], HeaderNumber("request", q))
    BY <2>4, <2>5 DEF Ahead, Arrival
  <2>7. log[i].at <= k /\ k \in Nat
    BY <2>4, <2>6 DEF Arrival, OfFlow
  <2>8. log[i].at < log[j].at
    BY <2>4, <2>6, <2>7
  <2> QED BY <1>5, <2>3, <2>4, <2>8
<1>10. ASSUME NEW i \in 1 .. Len(log), NEW j \in 1 .. Len(log), NEW m \in 1 .. Len(Answers),
              NEW r \in 1 .. Len(Asks), Says(log[i], "response", m), IsAnswer(m),
              Says(log[j], "request", r), Asks[r].ecu = Answers[m].ecu, r > To(m)
       PROVE  i < j
  <2>1. /\ Arrival(packets, "response", HeaderNumber("response", m), log[i].at) /\ log[i].at \in Nat
        /\ Arrival(packets, "request", HeaderNumber("request", r), log[j].at) /\ log[j].at \in Nat
    BY <1>1, <1>4, <1>10
  <2>2. Ahead(packets, "response", HeaderNumber("response", m), "request", HeaderNumber("request", r))
    BY <1>1, <1>10 DEF InPlace, IsAnswer
  <2>3. PICK k \in OfFlow(packets, "response") :
          k < log[j].at /\ Holds(packets[k], HeaderNumber("response", m))
    BY <2>1, <2>2 DEF Ahead, Arrival
  <2>4. log[i].at <= k /\ k \in Nat
    BY <2>1, <2>3 DEF Arrival, OfFlow
  <2>5. log[i].at < log[j].at
    BY <2>1, <2>3, <2>4
  <2> QED BY <1>5, <2>1, <2>5
<1> QED BY <1>3, <1>6, <1>7, <1>8, <1>9, <1>10 DEF IsRecord

-----------------------------------------------------------------------------
(***************************************************************************)
(* The vehicle: FoldMessage pairs every final answer with its request.     *)
(***************************************************************************)

\* The rounds of folding.
LEMMA KnownRounds ==
  ASSUME NEW log, log = ExtractDoIpMessages, Len(log) \in Nat
  PROVE  \E j : /\ j[0] = NothingKnown /\ BuildVehicle = j[Len(log)].ecus
               /\ \A k \in 1 .. Len(log) : j[k] = FoldMessage(j[k - 1], log[k])
<1> DEFINE L == Len(log)
           J(g, k) == IF k = 0 THEN NothingKnown ELSE FoldMessage(g[k - 1], log[k])
           Is(g, n) == g = [k \in 0 .. n |-> J(g, k)]
           j == CHOOSE g : Is(g, L)
<1>1. BuildVehicle = j[L].ecus
  BY DEF BuildVehicle
<1>2. \A n \in Nat : \E g : Is(g, n)
  <2> DEFINE A == {n \in Nat : \E g : Is(g, n)}
  <2>1. 0 \in A
    <3>1. Is([k \in 0 .. 0 |-> NothingKnown], 0)
      OBVIOUS
    <3> QED BY <3>1
  <2>2. ASSUME NEW n \in Nat, n \in A PROVE n + 1 \in A
    <3>1. PICK g : Is(g, n)
      BY <2>2
    <3> DEFINE next == FoldMessage(g[n], log[n + 1])
               h == [k \in 0 .. (n + 1) |-> IF k = n + 1 THEN next ELSE g[k]]
    <3>2. \A k \in 0 .. n : g[k] = J(g, k)
      BY <3>1
    <3>3. next = FoldMessage(g[n], log[n + 1])
      OBVIOUS
    <3> HIDE DEF next
    <3>4. /\ \A k \in 0 .. n : h[k] = g[k]
          /\ h[n + 1] = next
          /\ h = [k \in 0 .. (n + 1) |-> h[k]]
      OBVIOUS
    <3> HIDE DEF h
    <3>5. ASSUME NEW k \in 0 .. (n + 1) PROVE h[k] = J(h, k)
      <4>1. CASE k = n + 1
        <5>1. k - 1 = n /\ k - 1 \in 0 .. n /\ k # 0
          BY <4>1
        <5> QED BY <3>3, <3>4, <4>1, <5>1
      <4>2. CASE k # n + 1
        <5>1. k \in 0 .. n /\ (k # 0 => k - 1 \in 0 .. n)
          BY <4>2
        <5> QED BY <3>2, <3>4, <5>1
      <4> QED BY <4>1, <4>2
    <3> HIDE DEF J
    <3>6. Is(h, n + 1)
      BY <3>4, <3>5
    <3> QED BY <3>6
  <2> HIDE DEF A
  <2>3. \A n \in Nat : n \in A
    BY <2>1, <2>2, NatBySets
  <2> QED BY <2>3 DEF A
<1> HIDE DEF Is
<1>3. Is(j, L)
  <2>1. \E g : Is(g, L)
    BY <1>2
  <2> QED BY <2>1, Zenon
<1> HIDE DEF j
<1>4. \A k \in 0 .. L : j[k] = IF k = 0 THEN NothingKnown ELSE FoldMessage(j[k - 1], log[k])
  BY <1>3 DEF Is
<1>5. j[0] = NothingKnown /\ \A k \in 1 .. L : j[k] = FoldMessage(j[k - 1], log[k])
  BY <1>4
<1> QED BY <1>1, <1>5 DEF L

\* What an answer to a question looks like to who reads it.
LEMMA FinalAnswerIs ==
  ASSUME NEW request, IsQuestion(request), NEW values, NEW answer \in FinalAnswers(request, values)
  PROVE  /\ ~IsRequestSid(answer[1]) /\ ~IsResponsePending(answer)
         /\ AnswersService(request[1], answer) /\ answer # PendingAnswer(request)
<1> DEFINE sid == request[1]
           b == request[2]
<1>1. sid \in RequestSids /\ 127 \notin RequestSids /\ 49 # NrcResponsePending
  BY DEF IsQuestion, RequestSids, NrcResponsePending
<1>2. /\ NegativeResponseSid = 127 /\ sid \in Nat /\ sid + PositiveResponseOffset = sid + 64
      /\ sid + 64 # 127 /\ (sid + 64) % 256 = sid + 64 /\ sid + 64 \notin RequestSids
  BY <1>1, Sids
<1> HIDE DEF sid, b
<1>3. CASE Refuses(request, answer)
  <2>1. answer = <<127, sid, 49>>
    BY <1>2, <1>3 DEF Refuses, sid
  <2>2. answer[1] = 127 /\ answer[2] = sid /\ answer[3] = 49 /\ Len(answer) >= 2
    BY <2>1
  <2>3. PendingAnswer(request)[3] = NrcResponsePending
    BY DEF PendingAnswer
  <2> QED BY <1>1, <1>2, <2>2, <2>3 DEF IsRequestSid, IsResponsePending, AnswersService, sid
<1>4. CASE answer[1] = sid + 64
  <2>1. PendingAnswer(request)[1] = NegativeResponseSid
    BY DEF PendingAnswer
  <2>2. AnswersService(sid, answer)
    BY <1>2, <1>4 DEF AnswersService
  <2>3. ~IsRequestSid(answer[1]) /\ ~IsResponsePending(answer)
    BY <1>2, <1>4 DEF IsRequestSid, IsResponsePending
  <2> QED BY <1>2, <1>4, <2>1, <2>2, <2>3 DEF sid
<1>5. Refuses(request, answer) \/ answer[1] = sid + 64
  <2>1. CASE Confirms(request, answer)
    BY <1>2, <2>1 DEF Confirms, sid
  <2>2. CASE ReportsCodes(request, answer)
    BY <1>2, <2>2 DEF ReportsCodes, sid
  <2>3. CASE ReportsValue(request, answer)
    BY <1>2, <2>3 DEF ReportsValue, sid
  <2> QED BY <2>1, <2>2, <2>3, AnswersAre
<1> QED BY <1>3, <1>4, <1>5

LEMMA PendingAnswerIs ==
  ASSUME NEW request
  PROVE  ~IsRequestSid(PendingAnswer(request)[1]) /\ IsResponsePending(PendingAnswer(request))
<1>1. 127 \notin RequestSids
  BY DEF RequestSids
<1>2. NegativeResponseSid = 127
  BY Sids
<1> DEFINE p == PendingAnswer(request)
<1>3. p[1] = NegativeResponseSid /\ p[3] = NrcResponsePending /\ Len(p) = 3
  BY DEF PendingAnswer
<1> QED BY <1>1, <1>2, <1>3 DEF IsRequestSid, IsResponsePending

-----------------------------------------------------------------------------
\* What the first k of what was log contain.
Processed(log, k, g, n) == \E i \in 1 .. k : Says(log[i], g, n)

Finals(log, k, ecu) ==
  {m \in 1 .. Len(Answers) :
     IsFinal(m) /\ Answers[m].ecu = ecu /\ Processed(log, k, "response", m)}

\* The latest request to an ECU.
IsLatest(log, k, ecu, q) ==
  /\ q \in 1 .. Len(Asks) /\ Asks[q].ecu = ecu /\ Processed(log, k, "request", q)
  /\ \A r \in 1 .. Len(Asks) : Asks[r].ecu = ecu /\ Processed(log, k, "request", r) => r <= q

Exchanges(S) ==
  [m \in S |-> [request |-> Asks[To(m)].bytes, answer |-> Answers[m].bytes]]

\* What an ECU was asked last is outstanding until it is answered.
Waits(known, log, k, ecu) ==
  \A q : IsLatest(log, k, ecu, q) /\ (\A m \in Finals(log, k, ecu) : To(m) # q) =>
           ecu \in DOMAIN known.pending /\ known.pending[ecu] = Asks[q].bytes

Knows(known, log, k, ecu) ==
  /\ Finals(log, k, ecu) = {} => ecu \notin DOMAIN known.ecus
  /\ Finals(log, k, ecu) # {} =>
       ecu \in DOMAIN known.ecus /\ Known(known.ecus[ecu], Exchanges(Finals(log, k, ecu)))

Follows(known, log, k) ==
  /\ known = [pending |-> known.pending, ecus |-> known.ecus]
  /\ \A ecu \in LogicalAddresses : Waits(known, log, k, ecu) /\ Knows(known, log, k, ecu)

LEMMA NothingFollows ==
  ASSUME NEW log
  PROVE  Follows(NothingKnown, log, 0)
<1>1. \A g, n : ~Processed(log, 0, g, n)
  BY DEF Processed
<1>2. \A ecu : Finals(log, 0, ecu) = {}
  BY <1>1 DEF Finals
<1>3. DOMAIN NothingKnown.ecus = {} /\ NothingKnown = [pending |-> NothingKnown.pending, ecus |-> NothingKnown.ecus]
  <2>1. NothingKnown = [pending |-> <<>>, ecus |-> <<>>]
    BY DEF NothingKnown
  <2>2. NothingKnown.ecus = <<>> /\ NothingKnown.pending = <<>>
    BY <2>1
  <2>3. DOMAIN <<>> = {}
    OBVIOUS
  <2> QED BY <2>1, <2>2, <2>3
<1>4. \A ecu : Knows(NothingKnown, log, 0, ecu)
  BY <1>2, <1>3 DEF Knows
<1>5. \A ecu : Waits(NothingKnown, log, 0, ecu)
  BY <1>1 DEF Waits, IsLatest
<1> QED BY <1>3, <1>4, <1>5 DEF Follows

EcuSoFar(known, ecu) == IF ecu \in DOMAIN known.ecus THEN known.ecus[ecu] ELSE NewEcu

\* What message w makes of what was known.
FoldsTo(new, known, w) ==
  /\ w.kind # "diagnostic" => new = known
  /\ w.kind = "diagnostic" /\ IsRequestSid(w.bytes[1]) =>
       new = [known EXCEPT !.pending = With(@, w.ecu, w.bytes)]
  /\ w.kind = "diagnostic" /\ ~IsRequestSid(w.bytes[1]) /\ ~IsAnswered(known, w) => new = known
  /\ w.kind = "diagnostic" /\ ~IsRequestSid(w.bytes[1]) /\ IsAnswered(known, w) =>
       new = [pending |-> Restrict(known.pending, DOMAIN known.pending \ {w.ecu}),
              ecus |-> With(known.ecus, w.ecu,
                            ApplyPair(EcuSoFar(known, w.ecu), known.pending[w.ecu], w.bytes))]

LEMMA FoldIs ==
  ASSUME NEW known, NEW x, NEW g, NEW n, Says(x, g, n)
  PROVE  FoldsTo(FoldMessage(known, x), known, messages[g][n])
<1> DEFINE w == messages[g][n]
<1>1. messages[x.cells[1].flow][x.cells[1].n] = w
  BY DEF Says
<1>2. FoldsTo(FoldMessage(known, x), known, w)
  BY <1>1 DEF FoldMessage, FoldsTo, EcuSoFar
<1> QED BY <1>2

\* The next of what is said is message n of direction g.
OneMoreSaid(log, k, l, g, n) ==
  \A h, o : Processed(log, l, h, o) <=> Processed(log, k, h, o) \/ (h = g /\ o = n)

LEMMA SaidNext ==
  ASSUME NEW log, IsRecord(log), NEW k \in Nat, k + 1 <= Len(log)
  PROVE  \E g \in Flows : \E n \in 1 .. Len(messages[g]) :
           /\ Says(log[k + 1], g, n) /\ Got(g, n)
           /\ OneMoreSaid(log, k, k + 1, g, n)
           /\ \A o \in 1 .. Len(messages[g]) : Processed(log, k, g, o) => o < n
<1> DEFINE l == k + 1
<1>1. l \in 1 .. Len(log) /\ Len(log) \in Nat /\ l \in 1 .. l /\ (\A i \in 1 .. k : i \in 1 .. l)
      /\ (\A i \in 1 .. l : i \in 1 .. k \/ i = l) /\ \A i \in 1 .. k : i < l /\ i \in 1 .. Len(log)
  BY DEF IsRecord
<1> HIDE DEF l
<1>2. PICK g \in Flows : \E n \in 1 .. Len(messages[g]) : Says(log[l], g, n) /\ Got(g, n)
  BY <1>1 DEF IsRecord
<1>3. PICK n \in 1 .. Len(messages[g]) : Says(log[l], g, n) /\ Got(g, n)
  BY <1>2
<1>4. \A h, o : Says(log[l], h, o) <=> h = g /\ o = n
  <2>1. log[l].cells[1] = [flow |-> g, n |-> n, offset |-> 1]
    BY <1>3 DEF Says
  <2> TAKE h, o
  <2>2. [flow |-> h, n |-> o, offset |-> 1] = [flow |-> g, n |-> n, offset |-> 1] => h = g /\ o = n
    OBVIOUS
  <2> QED BY <1>3, <2>1, <2>2 DEF Says
<1>5. ASSUME NEW h, NEW o
      PROVE  Processed(log, l, h, o) <=> Processed(log, k, h, o) \/ (h = g /\ o = n)
  <2>1. Processed(log, l, h, o) => Processed(log, k, h, o) \/ Says(log[l], h, o)
    BY <1>1 DEF Processed
  <2>2. Processed(log, k, h, o) \/ Says(log[l], h, o) => Processed(log, l, h, o)
    BY <1>1 DEF Processed
  <2> QED BY <1>4, <2>1, <2>2
<1>6. ASSUME NEW o \in 1 .. Len(messages[g]), Processed(log, k, g, o) PROVE o < n
  <2>1. PICK i \in 1 .. k : Says(log[i], g, o)
    BY <1>6 DEF Processed
  <2> QED BY <1>1, <1>3, <2>1 DEF IsRecord
<1>7. OneMoreSaid(log, k, l, g, n)
  BY <1>5 DEF OneMoreSaid
<1> QED BY <1>3, <1>6, <1>7 DEF l

\* An ECU that was not spoken to or of.
LEMMA StaysKnown ==
  ASSUME NEW known, NEW new, NEW log, NEW k, NEW l, NEW ecu,
         Waits(known, log, k, ecu), Knows(known, log, k, ecu),
         Finals(log, l, ecu) = Finals(log, k, ecu),
         \A q : IsLatest(log, l, ecu, q) => IsLatest(log, k, ecu, q),
         ecu \in DOMAIN known.pending => ecu \in DOMAIN new.pending /\ new.pending[ecu] = known.pending[ecu],
         ecu \in DOMAIN new.ecus <=> ecu \in DOMAIN known.ecus,
         ecu \in DOMAIN known.ecus => new.ecus[ecu] = known.ecus[ecu]
  PROVE  Waits(new, log, l, ecu) /\ Knows(new, log, l, ecu)
<1>1. Waits(new, log, l, ecu)
  BY DEF Waits
<1>2. Knows(new, log, l, ecu)
  <2>1. Finals(log, k, ecu) # {} => new.ecus[ecu] = known.ecus[ecu]
    BY DEF Knows
  <2> QED BY <2>1 DEF Knows
<1> QED BY <1>1, <1>2

LEMMA QuestionIs ==
  ASSUME CaptureInv, NEW q \in 1 .. Len(Asks)
  PROVE  /\ Asks[q].kind = "diagnostic" /\ Asks[q].ecu \in LogicalAddresses
         /\ IsQuestion(Asks[q].bytes) /\ Asks[q].bytes \in Requests
<1>1. Asks[q] \in Questions
  BY ElementOfSeq DEF CaptureInv, CaptureTypes, Asks
<1>2. Asks[q].bytes \in Requests
  BY <1>1 DEF Questions
<1>3. IsQuestion(Asks[q].bytes)
  BY <1>2, DoIpCaptureAssumption DEF IsQuestion, IsRequestSid
<1> QED BY <1>1, <1>2, <1>3 DEF Questions

\* What another message changes for an ECU.
NextFor(log, k, l, g, n, ecu) ==
  /\ ~(g = "response" /\ IsFinal(n) /\ Answers[n].ecu = ecu) =>
       Finals(log, l, ecu) = Finals(log, k, ecu)
  /\ g = "response" /\ IsFinal(n) /\ Answers[n].ecu = ecu =>
       Finals(log, l, ecu) = Finals(log, k, ecu) \union {n}
  /\ ~(g = "request" /\ Asks[n].ecu = ecu) =>
       \A q : IsLatest(log, l, ecu, q) => IsLatest(log, k, ecu, q)

LEMMA FinalsNext ==
  ASSUME NEW log, NEW k, NEW l, NEW g, NEW n, n \in 1 .. Len(messages[g]), OneMoreSaid(log, k, l, g, n)
  PROVE  \A ecu : NextFor(log, k, l, g, n, ecu)
<1> TAKE ecu
<1>0. \A h, o : Processed(log, l, h, o) <=> Processed(log, k, h, o) \/ (h = g /\ o = n)
  BY DEF OneMoreSaid
<1>1. ~(g = "response" /\ IsFinal(n) /\ Answers[n].ecu = ecu) =>
        Finals(log, l, ecu) = Finals(log, k, ecu)
  BY <1>0 DEF Finals
<1>2. ASSUME g = "response", IsFinal(n), Answers[n].ecu = ecu
      PROVE  Finals(log, l, ecu) = Finals(log, k, ecu) \union {n}
  <2>1. n \in 1 .. Len(Answers)
    BY <1>2 DEF Answers
  <2> QED BY <1>0, <1>2, <2>1 DEF Finals
<1>3. ASSUME ~(g = "request" /\ Asks[n].ecu = ecu), NEW q, IsLatest(log, l, ecu, q)
      PROVE  IsLatest(log, k, ecu, q)
  BY <1>0, <1>3 DEF IsLatest
<1> QED BY <1>1, <1>2, <1>3 DEF NextFor

\* The final answer that comes next is about the latest request of its ECU, and
\* behind the other finals of it.
LEMMA FinalAnswersLatest ==
  ASSUME CaptureInv, Dialogue, NEW log, IsRecord(log), NEW k \in Nat, k + 1 <= Len(log),
         NEW m \in 1 .. Len(Answers), Says(log[k + 1], "response", m), IsFinal(m),
         \A o \in 1 .. Len(Answers) : Processed(log, k, "response", o) => o < m
  PROVE  /\ IsLatest(log, k, Answers[m].ecu, To(m))
         /\ \A o \in Finals(log, k, Answers[m].ecu) : To(o) # To(m) /\ o < m
<1> DEFINE q == To(m)
           l == k + 1
<1>1. IsAnswer(m) /\ IsDue(m) /\ m \in Nat
  BY DEF IsFinal, IsAnswer, Dialogue
<1>2. q \in 1 .. Len(Asks) /\ Asks[q].ecu = Answers[m].ecu
  BY <1>1 DEF IsDue
<1>3. /\ l \in 1 .. Len(log) /\ Len(log) \in Nat /\ (\A i \in 1 .. Len(log) : i < l => i \in 1 .. k)
      /\ \A i \in 1 .. k : i \in 1 .. Len(log) /\ ~(l < i)
  BY DEF IsRecord
<1> HIDE DEF l
<1>4. Says(log[l], "response", m)
  BY DEF l
<1>5. Processed(log, k, "request", q)
  <2>1. \E i \in 1 .. Len(log) : i < l /\ Says(log[i], "request", q)
    BY <1>1, <1>3, <1>4 DEF IsRecord
  <2> QED BY <1>3, <2>1 DEF Processed
<1>6. ASSUME NEW r \in 1 .. Len(Asks), Asks[r].ecu = Answers[m].ecu, Processed(log, k, "request", r)
      PROVE  r <= q
  <2>1. PICK i \in 1 .. k : Says(log[i], "request", r)
    BY <1>6 DEF Processed
  <2>2. ~(r > To(m))
    BY <1>1, <1>3, <1>4, <1>6, <2>1 DEF IsRecord
  <2> QED BY <1>2, <2>2
<1>7. ASSUME NEW o \in Finals(log, k, Answers[m].ecu) PROVE To(o) # To(m) /\ o < m
  <2>1. o \in 1 .. Len(Answers) /\ IsFinal(o) /\ o < m
    BY <1>7 DEF Finals
  <2>2. o \in 1 .. m - 1
    BY <1>1, <2>1
  <2> QED BY <1>1, <2>1, <2>2 DEF IsDue
<1> QED BY <1>2, <1>5, <1>6, <1>7 DEF IsLatest

\* The exchange that a final answer ends is learned.
LEMMA FinalIsLearned ==
  ASSUME CaptureInv, Dialogue, NEW m \in 1 .. Len(Answers), IsFinal(m),
         NEW S, S \subseteq 1 .. Len(Answers), \A o \in S : o < m,
         NEW ecu, Known(ecu, Exchanges(S))
  PROVE  Known(ApplyPair(ecu, Asks[To(m)].bytes, Answers[m].bytes), Exchanges(S \union {m}))
<1> DEFINE X == Exchanges(S)
           Y == Exchanges(S \union {m})
           N == m - 1
           request == Asks[To(m)].bytes
           answer == Answers[m].bytes
<1>1. IsDue(m) /\ m \in Nat /\ N \in Nat /\ m > N
  BY DEF IsFinal, IsAnswer, Dialogue
<1>2. IsQuestion(request)
  BY <1>1, QuestionIs DEF IsDue
<1>3. answer \in FinalAnswers(request, Reports)
  BY <1>1 DEF IsDue, IsFinal
<1>4. /\ DOMAIN X = S /\ DOMAIN Y = S \union {m}
      /\ (\A o \in S : Y[o] = X[o])
      /\ Y[m] = [request |-> request, answer |-> answer]
  BY DEF Exchanges
<1>5. S \subseteq 1 .. N
  <2> SUFFICES ASSUME NEW o \in S PROVE o \in 1 .. N
    OBVIOUS
  <2>1. o \in Nat /\ 1 <= o /\ o < m
    OBVIOUS
  <2> QED BY <1>1, <2>1
<1> HIDE DEF X, Y, N, request, answer
<1>6. OneMore(X, Y, N, m, request, answer)
  BY <1>1, <1>4, <1>5 DEF OneMore
<1>7. Known(ecu, X)
  BY DEF X
<1>8. Known(ApplyPair(ecu, request, answer), Y)
  BY <1>2, <1>3, <1>6, <1>7, ExchangeIsLearned
<1> QED BY <1>8 DEF Y, request, answer

-----------------------------------------------------------------------------
LEMMA FoldFollows ==
  ASSUME CaptureInv, Dialogue, NEW log, IsRecord(log), NEW k \in Nat, k + 1 <= Len(log),
         NEW known, Follows(known, log, k)
  PROVE  Follows(FoldMessage(known, log[k + 1]), log, k + 1)
<1> DEFINE l == k + 1
           new == FoldMessage(known, log[l])
<1> SUFFICES Follows(new, log, l)
  OBVIOUS
<1>1. PICK g \in Flows : \E n \in 1 .. Len(messages[g]) :
           /\ Says(log[l], g, n) /\ Got(g, n) /\ OneMoreSaid(log, k, l, g, n)
           /\ \A o \in 1 .. Len(messages[g]) : Processed(log, k, g, o) => o < n
  BY SaidNext
<1>2. PICK n \in 1 .. Len(messages[g]) :
           /\ Says(log[l], g, n) /\ Got(g, n) /\ OneMoreSaid(log, k, l, g, n)
           /\ \A o \in 1 .. Len(messages[g]) : Processed(log, k, g, o) => o < n
  BY <1>1
<1> DEFINE w == messages[g][n]
<1>3. known = [pending |-> known.pending, ecus |-> known.ecus]
  BY DEF Follows
<1>4. \A ecu \in LogicalAddresses : Waits(known, log, k, ecu) /\ Knows(known, log, k, ecu)
  BY DEF Follows
<1>5. g = "request" \/ g = "response"
  BY <1>1 DEF Flows
<1>7. \A ecu : NextFor(log, k, l, g, n, ecu)
  BY <1>2, FinalsNext
<1>8. FoldsTo(new, known, w)
  BY <1>2, FoldIs
<1>0. /\ Says(log[k + 1], g, n) /\ l = k + 1
  BY <1>2
<1> HIDE DEF new, l
\* What changes nothing.
<1>9. ASSUME new = known, g = "response", ~IsFinal(n)
      PROVE  Follows(new, log, l)
  <2>1. ASSUME NEW ecu \in LogicalAddresses
        PROVE  Waits(new, log, l, ecu) /\ Knows(new, log, l, ecu)
    BY <1>4, <1>7, <1>9, StaysKnown DEF NextFor
  <2> QED BY <1>3, <1>9, <2>1 DEF Follows
<1>10. CASE g = "request"
  <2>1. /\ n \in 1 .. Len(Asks) /\ w = Asks[n] /\ w.kind = "diagnostic" /\ w.ecu \in LogicalAddresses
        /\ IsRequestSid(w.bytes[1])
    BY <1>10, QuestionIs DEF Asks, IsQuestion, IsRequestSid
  <2>2. new = [known EXCEPT !.pending = With(@, w.ecu, w.bytes)]
    BY <1>8, <2>1 DEF FoldsTo
  <2> HIDE DEF w
  <2> DEFINE p == With(known.pending, w.ecu, w.bytes)
  <2>3. new = [pending |-> p, ecus |-> known.ecus]
    BY <1>3, <2>2
  <2>4. /\ w.ecu \in DOMAIN p /\ p[w.ecu] = w.bytes
        /\ \A ecu \in DOMAIN known.pending : ecu # w.ecu => ecu \in DOMAIN p /\ p[ecu] = known.pending[ecu]
    BY DEF With
  <2> HIDE DEF p
  <2>5. new.pending = p /\ new.ecus = known.ecus /\ new = [pending |-> new.pending, ecus |-> new.ecus]
    BY <2>3
  <2>6. \A ecu : Finals(log, l, ecu) = Finals(log, k, ecu)
    BY <1>7, <1>10 DEF NextFor
  <2>7. ASSUME NEW ecu \in LogicalAddresses, ecu # w.ecu
        PROVE  Waits(new, log, l, ecu) /\ Knows(new, log, l, ecu)
    <3>1. \A q : IsLatest(log, l, ecu, q) => IsLatest(log, k, ecu, q)
      BY <1>7, <2>1, <2>7 DEF NextFor
    <3> QED BY <1>4, <2>4, <2>5, <2>6, <2>7, <3>1, StaysKnown
  <2>8. Waits(new, log, l, w.ecu)
    <3>1. ASSUME NEW q, IsLatest(log, l, w.ecu, q) PROVE q = n
      <4>1. Processed(log, l, "request", n)
        BY <1>2, <1>10 DEF OneMoreSaid
      <4>2. q \in 1 .. Len(Asks) /\ Processed(log, l, "request", q) /\ n <= q
        BY <2>1, <3>1, <4>1 DEF IsLatest
      <4>3. q < n \/ q = n
        BY <1>2, <1>10, <4>2 DEF Asks, OneMoreSaid
      <4> QED BY <2>1, <4>2, <4>3
    <3> QED BY <2>1, <2>4, <2>5, <3>1 DEF Waits
  <2>9. Knows(new, log, l, w.ecu)
    BY <1>4, <2>1, <2>5, <2>6 DEF Knows
  <2> QED BY <2>5, <2>7, <2>8, <2>9 DEF Follows
<1>11. CASE g = "response" /\ To(n) = 0
  <2>1. w.kind # "diagnostic" /\ ~IsFinal(n)
    BY <1>11 DEF Dialogue, IsFinal, IsAnswer, Answers
  <2> QED BY <1>8, <1>9, <1>11, <2>1 DEF FoldsTo
<1>12. CASE g = "response" /\ To(n) # 0 /\ ~IsFinal(n)
  <2>1. n \in 1 .. Len(Answers) /\ w = Answers[n]
    BY <1>12 DEF Answers
  <2>2. w.bytes = PendingAnswer(Asks[To(n)].bytes) /\ w.kind = "diagnostic"
    BY <1>12, <2>1 DEF Dialogue, IsDue, IsFinal, IsAnswer
  <2> HIDE DEF w
  <2>3. ~IsRequestSid(w.bytes[1]) /\ ~IsAnswered(known, w)
    BY <2>2, PendingAnswerIs DEF IsAnswered
  <2> QED BY <1>8, <1>9, <1>12, <2>2, <2>3 DEF FoldsTo
<1>13. CASE g = "response" /\ IsFinal(n)
  <2> DEFINE e == w.ecu
             q == To(n)
             request == Asks[q].bytes
             F == Finals(log, k, e)
             old == EcuSoFar(known, e)
             learned == ApplyPair(old, request, w.bytes)
  <2>1. n \in 1 .. Len(Answers) /\ w = Answers[n] /\ IsDue(n)
    BY <1>13 DEF Answers, Dialogue, IsFinal, IsAnswer
  <2>2. /\ w.kind = "diagnostic" /\ q \in 1 .. Len(Asks) /\ e = Asks[q].ecu
        /\ w.bytes \in FinalAnswers(request, Reports)
    BY <1>13, <2>1 DEF IsDue, IsFinal
  <2>3. IsQuestion(request) /\ e \in LogicalAddresses
    BY <2>2, QuestionIs
  <2>4. IsLatest(log, k, e, q) /\ \A o \in F : To(o) # q /\ o < n
    <3>1. \A o \in 1 .. Len(Answers) : Processed(log, k, "response", o) => o < n
      BY <1>2, <1>13 DEF Answers
    <3> QED BY <1>0, <1>13, <2>1, <3>1, FinalAnswersLatest
  <2>5. e \in DOMAIN known.pending /\ known.pending[e] = request
    BY <1>4, <2>3, <2>4 DEF Waits
  <2>6. ~IsRequestSid(w.bytes[1]) /\ IsAnswered(known, w)
    BY <2>2, <2>3, <2>5, FinalAnswerIs DEF IsAnswered
  <2>7. new = [pending |-> Restrict(known.pending, DOMAIN known.pending \ {e}),
               ecus |-> With(known.ecus, e, learned)]
    BY <1>8, <2>2, <2>5, <2>6 DEF FoldsTo
  <2>8. Finals(log, l, e) = F \union {n}
    BY <1>7, <1>13, <2>1 DEF NextFor
  <2>9. Known(old, Exchanges(F))
    <3>1. CASE F = {}
      <4>1. old = NewEcu /\ DOMAIN Exchanges(F) = {}
        BY <1>4, <2>3, <3>1 DEF Knows, Exchanges, EcuSoFar
      <4> QED BY <4>1, NothingAsked
    <3>2. CASE F # {}
      BY <1>4, <2>3, <3>2 DEF Knows, EcuSoFar
    <3> QED BY <3>1, <3>2
  <2>10. F \subseteq 1 .. Len(Answers)
    BY DEF Finals
  <2>11. Answers[n].ecu = e /\ Answers[n].bytes = w.bytes
    BY <2>1
  <2> HIDE DEF e, F, old, w
  <2>12. Known(learned, Exchanges(F \union {n}))
    BY <1>13, <2>1, <2>4, <2>9, <2>10, <2>11, FinalIsLearned
  <2> HIDE DEF learned, q, request
  <2> DEFINE p == Restrict(known.pending, DOMAIN known.pending \ {e})
             v == With(known.ecus, e, learned)
  <2>13. /\ \A ecu \in DOMAIN known.pending : ecu # e => ecu \in DOMAIN p /\ p[ecu] = known.pending[ecu]
         /\ e \in DOMAIN v /\ v[e] = learned
         /\ \A ecu : ecu # e => (ecu \in DOMAIN v <=> ecu \in DOMAIN known.ecus)
         /\ \A ecu \in DOMAIN known.ecus : ecu # e => v[ecu] = known.ecus[ecu]
    BY DEF Restrict, With
  <2>14. new = [pending |-> p, ecus |-> v]
    BY <2>7
  <2> HIDE DEF p, v
  <2>15. new.pending = p /\ new.ecus = v /\ new = [pending |-> new.pending, ecus |-> new.ecus]
    BY <2>14
  <2>16. ASSUME NEW ecu \in LogicalAddresses, ecu # e
         PROVE  Waits(new, log, l, ecu) /\ Knows(new, log, l, ecu)
    <3>1. /\ Finals(log, l, ecu) = Finals(log, k, ecu)
          /\ \A r : IsLatest(log, l, ecu, r) => IsLatest(log, k, ecu, r)
      BY <1>7, <1>13, <2>11, <2>16 DEF NextFor
    <3> QED BY <1>4, <2>13, <2>15, <2>16, <3>1, StaysKnown
  <2>17. Waits(new, log, l, e)
    <3>1. ASSUME NEW r, IsLatest(log, l, e, r) PROVE r = q
      <4>1. IsLatest(log, k, e, r)
        BY <1>7, <1>13, <3>1 DEF NextFor
      <4>2. r \in 1 .. Len(Asks) /\ q \in 1 .. Len(Asks) /\ r <= q /\ q <= r
        BY <2>4, <4>1 DEF IsLatest
      <4> QED BY <4>2
    <3>2. n \in Finals(log, l, e) /\ To(n) = q
      BY <2>8 DEF q
    <3> QED BY <3>1, <3>2 DEF Waits
  <2>18. Knows(new, log, l, e)
    BY <2>8, <2>12, <2>13, <2>15 DEF Knows
  <2> QED BY <2>3, <2>15, <2>16, <2>17, <2>18 DEF Follows
<1>14. \/ g = "request" \/ (g = "response" /\ To(n) = 0) \/ (g = "response" /\ To(n) # 0 /\ ~IsFinal(n))
       \/ (g = "response" /\ IsFinal(n))
  BY <1>5
<1> QED BY <1>10, <1>11, <1>12, <1>13, <1>14

LEMMA RecordIsFollowed ==
  ASSUME CaptureInv, Dialogue, NEW log, log = ExtractDoIpMessages, IsRecord(log)
  PROVE  \E known : BuildVehicle = known.ecus /\ Follows(known, log, Len(log))
<1> DEFINE L == Len(log)
<1>1. L \in Nat
  BY DEF IsRecord
<1>2. PICK j : /\ j[0] = NothingKnown /\ BuildVehicle = j[L].ecus
               /\ \A k \in 1 .. L : j[k] = FoldMessage(j[k - 1], log[k])
  BY <1>1, KnownRounds
<1> DEFINE D == {n \in Nat : n <= L => Follows(j[n], log, n)}
<1>3. 0 \in D
  BY <1>2, NothingFollows
<1>4. ASSUME NEW n \in Nat, n \in D PROVE n + 1 \in D
  <2>1. SUFFICES ASSUME n + 1 <= L PROVE Follows(j[n + 1], log, n + 1)
    OBVIOUS
  <2>2. n <= L /\ n + 1 \in 1 .. L /\ (n + 1) - 1 = n
    BY <1>1, <2>1
  <2>3. Follows(j[n], log, n) /\ j[n + 1] = FoldMessage(j[n], log[n + 1])
    BY <1>2, <1>4, <2>2
  <2>4. Follows(FoldMessage(j[n], log[n + 1]), log, n + 1)
    BY <2>1, <2>3, FoldFollows
  <2> QED BY <2>3, <2>4
<1> HIDE DEF D
<1>5. L \in D
  BY <1>1, <1>3, <1>4, NatBySets
<1>6. Follows(j[L], log, L)
  BY <1>1, <1>5 DEF D
<1> QED BY <1>2, <1>6
\* The other end has a message when its cells went out.
LEMMA ReceivedIsGot ==
  ASSUME CaptureInv, NEW flow \in Flows
  PROVE  \A n \in 1 .. Len(messages[flow]) : Got(flow, n) <=> Received(flow, n)
<1> DEFINE ms == messages[flow]
           N == Len(ms)
<1>1. ms \in Seq(Messages) /\ N \in Nat /\ N <= MaxMessages /\ segmented[flow] \in Nat
  BY WrittenIs DEF CaptureInv, CaptureTypes
<1>2. Lengths(ms, N, Longest) /\ Longest \in Nat
  <2> HIDE DEF ms
  <2> QED BY <1>1, WholeStream, LongestIs
<1>3. ASSUME NEW n \in 1 .. N PROVE Got(flow, n) <=> Received(flow, n)
  <2> DEFINE e == EndsAt(flow, ms, n)
  <2>1. StreamUpTo(flow, n) = UpTo(flow, ms, n)
    BY DEF StreamUpTo, UpTo, CellsOf, CellsIn
  <2>2. (Got(flow, n) <=> e <= segmented[flow]) /\ (Received(flow, n) <=> segmented[flow] >= e)
    BY <2>1 DEF Got, Received, EndsAt
  <2>3. n \in 0 .. N
    BY <1>1
  <2> HIDE DEF ms, N
  <2>4. e \in Nat
    BY <1>1, <1>2, <2>3, StreamIsPlaced
  <2> HIDE DEF e
  <2> QED BY <1>1, <2>2, <2>4
<1> QED BY <1>3

LEMMA ExchangesAreRead ==
  ASSUME CaptureInv, Dialogue, NEW log, IsRecord(log), NEW ecu \in LogicalAddresses
  PROVE  Exchanges(Finals(log, Len(log), ecu)) = EthExchangesOf(ecu)
<1> DEFINE F == Finals(log, Len(log), ecu)
           request(n) == messages["request"][messages["response"][n].asked].bytes
           answer(n) == messages["response"][n].bytes
           G == {n \in AnswersOf(ecu) : answer(n) # PendingAnswer(request(n)) /\ Received("response", n)}
<1>1. DOMAIN messages["response"] = 1 .. Len(messages["response"]) /\ "response" \in Flows
      /\ segmented["response"] \in Nat
  BY LenProperties DEF CaptureInv, CaptureTypes, Flows
<1>3. \A n \in 1 .. Len(Answers) : Got("response", n) <=> Received("response", n)
  BY <1>1, ReceivedIsGot DEF Answers
<1>4. \A n \in 1 .. Len(Answers) : IsFinal(n) =>
        (Processed(log, Len(log), "response", n) <=> Got("response", n))
  <2> TAKE n \in 1 .. Len(Answers)
  <2> HAVE IsFinal(n)
  <2>1. messages["response"][n].kind = "diagnostic" /\ n \in 1 .. Len(messages["response"])
    BY DEF IsFinal, IsAnswer, Dialogue, IsDue, Answers
  <2>2. ASSUME Got("response", n) PROVE Processed(log, Len(log), "response", n)
    BY <1>1, <2>1, <2>2 DEF IsRecord, Processed
  <2>3. ASSUME Processed(log, Len(log), "response", n) PROVE Got("response", n)
    <3>1. PICK i \in 1 .. Len(log) : Says(log[i], "response", n)
      BY <2>3 DEF Processed
    <3>2. PICK g \in Flows : \E m \in 1 .. Len(messages[g]) : Says(log[i], g, m) /\ Got(g, m)
      BY DEF IsRecord
    <3>3. PICK m \in 1 .. Len(messages[g]) : Says(log[i], g, m) /\ Got(g, m)
      BY <3>2
    <3>4. log[i].cells[1] = [flow |-> g, n |-> m, offset |-> 1]
          /\ log[i].cells[1] = [flow |-> "response", n |-> n, offset |-> 1]
      BY <3>1, <3>3 DEF Says
    <3>5. g = "response" /\ m = n
      BY <3>4
    <3> QED BY <3>3, <3>5
  <2> QED BY <2>2, <2>3
<1>5. F = G
  <2>1. ASSUME NEW n \in F PROVE n \in G
    <3>1. n \in 1 .. Len(Answers) /\ IsFinal(n) /\ Answers[n].ecu = ecu /\ Received("response", n)
      BY <1>3, <1>4 DEF Finals
    <3>2. n \in AnswersOf(ecu)
      BY <1>1, <3>1 DEF AnswersOf, IsFinal, IsAnswer, Answers, To
    <3> QED BY <3>1, <3>2 DEF IsFinal, Answers, Asks, To
  <2>2. ASSUME NEW n \in G PROVE n \in F
    <3>1. n \in AnswersOf(ecu) /\ answer(n) # PendingAnswer(request(n)) /\ Received("response", n)
      OBVIOUS
    <3>2. n \in 1 .. Len(Answers) /\ To(n) # 0 /\ Answers[n].ecu = ecu
      BY <1>1, <3>1 DEF AnswersOf, Answers, To
    <3>3. IsFinal(n)
      BY <3>1, <3>2 DEF IsFinal, IsAnswer, Answers, Asks, To
    <3> QED BY <1>3, <1>4, <3>1, <3>2, <3>3 DEF Finals
  <2> HIDE DEF F, G
  <2> QED BY <2>1, <2>2
<1>6. EthExchangesOf(ecu) = [n \in G |-> [request |-> request(n), answer |-> answer(n)]]
  BY DEF EthExchangesOf
<1>7. Exchanges(G) = [n \in G |-> [request |-> request(n), answer |-> answer(n)]]
  <2> HIDE DEF G
  <2> QED BY DEF Exchanges, Asks, Answers, To
<1> QED BY <1>5, <1>6, <1>7 DEF F

LEMMA InterleavingHolds ==
  ASSUME CaptureInv, Dialogue, OrderInv
  PROVE  InterleavingIsRestored
<1> SUFFICES ASSUME Clean PROVE
      \A ecu \in LogicalAddresses :
        IF ecu \in DOMAIN BuildVehicle
          THEN IsWhatItAnswered(BuildVehicle[ecu], EthExchangesOf(ecu))
          ELSE DOMAIN EthExchangesOf(ecu) = {}
  BY DEF InterleavingIsRestored, Clean
<1> DEFINE log == ExtractDoIpMessages
<1>1. \A g \in Flows : IsReadOf(ReadFlow(g), g)
  BY FlowIsRead DEF Clean, OrderInv
<1>2. Len(packets) \in Nat
  BY LenProperties DEF CaptureInv, CaptureTypes
<1>3. IsLog(log)
  BY <1>1, <1>2, EntriesMerge
<1> DEFINE E == log
<1> HIDE DEF E
<1>4. E = ExtractDoIpMessages
  BY DEF E
<1>5. IsRecord(E)
  BY <1>3, <1>4, LogIsRecord
<1>6. PICK known : BuildVehicle = known.ecus /\ Follows(known, E, Len(E))
  BY <1>4, <1>5, RecordIsFollowed
<1> SUFFICES ASSUME NEW ecu \in LogicalAddresses
             PROVE  IF ecu \in DOMAIN known.ecus
                      THEN IsWhatItAnswered(known.ecus[ecu], EthExchangesOf(ecu))
                      ELSE DOMAIN EthExchangesOf(ecu) = {}
  BY <1>6
<1> DEFINE F == Finals(E, Len(E), ecu)
<1>7. Knows(known, E, Len(E), ecu)
  BY <1>6 DEF Follows
<1>8. Exchanges(F) = EthExchangesOf(ecu)
  BY <1>5, ExchangesAreRead
<1>9. F = {} => ecu \notin DOMAIN known.ecus
  BY <1>7 DEF Knows
<1>10. F # {} => ecu \in DOMAIN known.ecus /\ Known(known.ecus[ecu], Exchanges(F))
  BY <1>7 DEF Knows
<1> HIDE DEF F
<1>11. CASE F = {}
  <2>1. DOMAIN Exchanges(F) = {}
    BY <1>11 DEF Exchanges
  <2> QED BY <1>8, <1>9, <1>11, <2>1
<1>12. CASE F # {}
  BY <1>8, <1>10, <1>12 DEF Known
<1> QED BY <1>11, <1>12

-----------------------------------------------------------------------------
(***************************************************************************)
(* Every packet and every message keeps the invariant.                     *)
(***************************************************************************)

\* One packet more in a capture.
Captures(ps, new, p) ==
  /\ Len(ps) \in Nat /\ Len(new) = Len(ps) + 1
  /\ \A k \in 1 .. Len(ps) : new[k] = ps[k]
  /\ new[Len(ps) + 1] = p

LEMMA OfFlowMore ==
  ASSUME NEW ps, NEW new, NEW p, Captures(ps, new, p), NEW flow
  PROVE  /\ \A k \in OfFlow(ps, flow) :
              k \in OfFlow(new, flow) /\ new[k] = ps[k] /\ k \in 1 .. Len(ps) /\ k \in Nat /\ k < Len(ps) + 1
         /\ \A k \in OfFlow(new, flow) :
              k \in OfFlow(ps, flow) \/ (k = Len(ps) + 1 /\ new[k] = p /\ p.flow = flow)
         /\ p.flow = flow => Len(ps) + 1 \in OfFlow(new, flow)
<1> DEFINE L == Len(ps)
<1>1. /\ L \in Nat /\ Len(new) = L + 1 /\ (\A k \in 1 .. L : new[k] = ps[k]) /\ new[L + 1] = p
      /\ (\A k \in 1 .. L : k \in 1 .. L + 1 /\ k \in Nat /\ k < L + 1) /\ L + 1 \in 1 .. L + 1
      /\ \A k \in 1 .. L + 1 : k \in 1 .. L \/ k = L + 1
  BY DEF Captures
<1> HIDE DEF L
<1> QED BY <1>1 DEF OfFlow, L

LEMMA AheadOfMore ==
  ASSUME NEW ps, NEW new, NEW p, Captures(ps, new, p), NEW g, NEW x, NEW h, NEW y, Ahead(ps, g, x, h, y),
         p.flow = h /\ Holds(p, y) => \E j \in OfFlow(ps, g) : Holds(ps[j], x)
  PROVE  Ahead(new, g, x, h, y)
<1> SUFFICES ASSUME NEW i \in OfFlow(new, h), Holds(new[i], y)
             PROVE  \E j \in OfFlow(new, g) : j < i /\ Holds(new[j], x)
  BY DEF Ahead
<1>1. CASE i \in OfFlow(ps, h)
  <2>1. new[i] = ps[i]
    BY <1>1, OfFlowMore
  <2>2. PICK j \in OfFlow(ps, g) : j < i /\ Holds(ps[j], x)
    BY <1>1, <2>1 DEF Ahead
  <2>3. j \in OfFlow(new, g) /\ new[j] = ps[j]
    BY <2>2, OfFlowMore
  <2> QED BY <2>2, <2>3
<1>2. CASE i = Len(ps) + 1 /\ new[i] = p /\ p.flow = h
  <2>1. PICK j \in OfFlow(ps, g) : Holds(ps[j], x)
    BY <1>2
  <2>2. j \in OfFlow(new, g) /\ new[j] = ps[j] /\ j < Len(ps) + 1
    BY <2>1, OfFlowMore
  <2> QED BY <1>2, <2>1, <2>2
<1> QED BY <1>1, <1>2, OfFlowMore

LEMMA TilesOfOther ==
  ASSUME NEW ps, NEW new, NEW p, Captures(ps, new, p), NEW flow, p.flow # flow,
         NEW f, NEW went, NEW s, Tiles(ps, flow, f, went, s)
  PROVE  Tiles(new, flow, f, went, s)
<1>1. \A k : k \in OfFlow(new, flow) <=> k \in OfFlow(ps, flow)
  BY OfFlowMore
<1>2. \A k \in OfFlow(ps, flow) : new[k] = ps[k]
  BY OfFlowMore
<1>3. OfFlow(new, flow) = OfFlow(ps, flow)
  BY <1>1
<1> QED BY <1>2, <1>3 DEF Tiles

\* A segment that is there is there again.
LEMMA TilesOfARepetition ==
  ASSUME NEW ps, NEW new, NEW p, Captures(ps, new, p), NEW i \in 1 .. Len(ps), p = ps[i],
         NEW flow, NEW f, NEW went, NEW s, Tiles(ps, flow, f, went, s)
  PROVE  Tiles(new, flow, f, went, s)
<1> DEFINE P == OfFlow(ps, flow)
           Q == OfFlow(new, flow)
           l == Len(ps) + 1
<1>1. /\ \A k \in P : k \in Q /\ new[k] = ps[k] /\ k \in Nat /\ k < l
      /\ \A k \in Q : k \in P \/ (k = l /\ new[k] = p /\ p.flow = flow)
  BY OfFlowMore
<1>2. p.flow = flow => i \in P
  BY DEF OfFlow
<1>3. /\ \A k \in P : IsTile(ps[k], f, went, s)
      /\ \A j, k \in P : Apart(ps[j], ps[k])
      /\ \A k \in P : \A x \in f .. ps[k].sequence - 1 : \E j \in P : j < k /\ Holds(ps[j], x)
      /\ \A x \in f .. f + went - 1 : \E k \in P : Holds(ps[k], x)
  BY DEF Tiles
<1> HIDE DEF P, Q, l
\* What each packet is a copy of.
<1>4. \A k \in Q : \E o \in P : new[k] = ps[o] /\ o <= k
  <2> TAKE k \in Q
  <2>1. CASE k \in P
    <3>1. k <= k
      BY <1>1, <2>1
    <3> QED BY <1>1, <2>1, <3>1
  <2>2. CASE k = l /\ new[k] = p /\ p.flow = flow
    <3>1. i \in P /\ i < l /\ i \in Nat /\ l \in Nat
      BY <1>1, <1>2, <2>2 DEF l, Captures
    <3>2. i <= l
      BY <3>1
    <3> QED BY <2>2, <3>1, <3>2
  <2> QED BY <1>1, <2>1, <2>2
<1>5. \A k \in Q : k \in Nat /\ \A o \in P : o \in Nat
  BY <1>1 DEF l, Captures
<1>6. \A k \in Q : IsTile(new[k], f, went, s)
  BY <1>3, <1>4
<1>7. \A j, k \in Q : Apart(new[j], new[k])
  BY <1>3, <1>4
<1>8. ASSUME NEW k \in Q, NEW x \in f .. new[k].sequence - 1
      PROVE  \E j \in Q : j < k /\ Holds(new[j], x)
  <2>1. PICK o \in P : new[k] = ps[o] /\ o <= k
    BY <1>4
  <2>2. PICK j \in P : j < o /\ Holds(ps[j], x)
    BY <1>3, <2>1
  <2>3. j < k
    BY <1>5, <2>1, <2>2
  <2> QED BY <1>1, <2>2, <2>3
<1>9. \A x \in f .. f + went - 1 : \E k \in Q : Holds(new[k], x)
  BY <1>1, <1>3
<1> QED BY <1>6, <1>7, <1>8, <1>9 DEF Tiles, Q

\* A segment that follows what went out.
LEMMA TilesOfTheNext ==
  ASSUME NEW ps, NEW new, NEW p, Captures(ps, new, p), NEW flow, p.flow = flow,
         NEW f \in Nat, NEW went \in Nat, NEW s, Tiles(ps, flow, f, went, s),
         NEW l \in Nat \ {0}, p.sequence = f + went, Len(p.cells) = l, Stretch(p.cells, s, went)
  PROVE  Tiles(new, flow, f, went + l, s)
<1> DEFINE P == OfFlow(ps, flow)
           Q == OfFlow(new, flow)
           n == Len(ps) + 1
           end == f + went
<1>1. /\ \A k \in P : k \in Q /\ new[k] = ps[k] /\ k \in Nat /\ k < n
      /\ \A k \in Q : k \in P \/ (k = n /\ new[k] = p)
      /\ n \in Q
  BY OfFlowMore
<1>2. /\ \A k \in P : IsTile(ps[k], f, went, s)
      /\ \A j, k \in P : Apart(ps[j], ps[k])
      /\ \A k \in P : \A x \in f .. ps[k].sequence - 1 : \E j \in P : j < k /\ Holds(ps[j], x)
      /\ \A x \in f .. end - 1 : \E k \in P : Holds(ps[k], x)
  BY DEF Tiles
<1>3. n \in Nat /\ new[n] = p /\ end \in Nat
  BY DEF Captures
<1>4. f + (went + l) = end + l /\ end - f = went /\ f <= end
  OBVIOUS
<1> HIDE DEF P, Q, n, end
<1>5. p.sequence = end
  BY DEF end
<1>6. \A k \in P : /\ ps[k].sequence \in Nat /\ f <= ps[k].sequence /\ Len(ps[k].cells) \in Nat \ {0}
                   /\ ps[k].sequence + Len(ps[k].cells) <= end
                   /\ Stretch(ps[k].cells, s, ps[k].sequence - f)
  BY <1>2 DEF IsTile, end
<1>7. IsTile(p, f, went + l, s)
  BY <1>3, <1>4, <1>5 DEF IsTile
<1>8. ASSUME NEW k \in P PROVE IsTile(ps[k], f, went + l, s)
  <2> DEFINE e == ps[k].sequence + Len(ps[k].cells)
  <2>1. e \in Nat /\ e <= end
    BY <1>6
  <2> HIDE DEF e
  <2>2. e <= end + l
    BY <1>3, <2>1
  <2> QED BY <1>4, <1>6, <2>2 DEF IsTile, e
<1>9. \A k \in Q : IsTile(new[k], f, went + l, s)
  BY <1>1, <1>7, <1>8
<1>10. ASSUME NEW j \in Q, NEW k \in Q PROVE Apart(new[j], new[k])
  <2>1. CASE j \in P /\ k \in P
    BY <1>1, <1>2, <2>1
  <2>2. CASE j \in P /\ new[k] = p
    BY <1>1, <1>5, <1>6, <2>2 DEF Apart
  <2>3. CASE new[j] = p /\ k \in P
    BY <1>1, <1>5, <1>6, <2>3 DEF Apart
  <2>4. CASE new[j] = p /\ new[k] = p
    BY <2>4 DEF Apart
  <2> QED BY <1>1, <2>1, <2>2, <2>3, <2>4
<1>11. ASSUME NEW k \in Q, NEW x \in f .. new[k].sequence - 1
       PROVE  \E j \in Q : j < k /\ Holds(new[j], x)
  <2>1. CASE k \in P
    <3>1. PICK j \in P : j < k /\ Holds(ps[j], x)
      BY <1>1, <1>2, <2>1
    <3> QED BY <1>1, <3>1
  <2>2. CASE k = n /\ new[k] = p
    <3>1. PICK j \in P : Holds(ps[j], x)
      BY <1>2, <1>5, <2>2
    <3> QED BY <1>1, <2>2, <3>1
  <2> QED BY <1>1, <2>1, <2>2
<1>12. ASSUME NEW x \in f .. f + (went + l) - 1 PROVE \E k \in Q : Holds(new[k], x)
  <2>0. x \in Nat /\ f <= x /\ x < end + l
    BY <1>3, <1>4
  <2>1. CASE x < end
    <3>1. x \in f .. end - 1
      BY <1>3, <2>0, <2>1
    <3>2. PICK k \in P : Holds(ps[k], x)
      BY <1>2, <3>1
    <3> QED BY <1>1, <3>2
  <2>2. CASE end <= x
    <3>1. Holds(p, x)
      BY <1>5, <2>0, <2>2 DEF Holds
    <3> QED BY <1>1, <1>3, <3>1
  <2> QED BY <1>3, <2>0, <2>1, <2>2
<1> QED BY <1>9, <1>10, <1>11, <1>12 DEF Tiles, Q

\* More is written than went out.
LEMMA TilesOfMore ==
  ASSUME NEW ps, NEW flow, NEW f, NEW went, NEW s \in Seq(Cells), NEW t \in Seq(Cells),
         Tiles(ps, flow, f, went, s)
  PROVE  Tiles(ps, flow, f, went, s \o t)
<1>1. ASSUME NEW k \in OfFlow(ps, flow) PROVE IsTile(ps[k], f, went, s \o t)
  <2>1. IsTile(ps[k], f, went, s)
    BY DEF Tiles
  <2> QED BY <2>1, StretchOfMore DEF IsTile
<1> QED BY <1>1 DEF Tiles

\* What went out of a message is there.
LEMMA SentIsHeld ==
  ASSUME CaptureInv, NEW flow \in Flows, Tiled(flow), NEW n \in 1 .. Len(messages[flow]), Got(flow, n)
  PROVE  \E k \in OfFlow(packets, flow) : Holds(packets[k], HeaderNumber(flow, n))
<1> DEFINE ms == messages[flow]
           N == Len(ms)
           f == first[flow]
           went == segmented[flow]
           b == EndsAt(flow, ms, n - 1)
           e == EndsAt(flow, ms, n)
<1>1. CaptureTypes /\ Written <= MaxMessages
  BY DEF CaptureInv
<1>2. ms \in Seq(Messages) /\ N \in Nat /\ N <= MaxMessages /\ f \in Nat /\ went \in Nat
  BY <1>1, WrittenIs DEF CaptureTypes
<1>3. Lengths(ms, N, Longest) /\ Longest \in Nat
  <2> HIDE DEF ms
  <2> QED BY <1>2, WholeStream, LongestIs
<1>4. b \in Nat /\ e = b + ms[n].length + 1 /\ ms[n].length \in Nat
  <2>1. n \in 1 .. N /\ n \in 0 .. N /\ n # 0 /\ n - 1 \in 0 .. N
    BY <1>2
  <2> HIDE DEF ms, N
  <2>2. ms[n].length \in 1 .. Longest
    BY <1>3, <2>1 DEF Lengths
  <2>3. ms[n].length \in Nat
    BY <1>3, <2>2
  <2> QED BY <1>2, <1>3, <2>1, <2>3, StreamIsPlaced
<1>5. e <= went /\ HeaderNumber(flow, n) = f + b
  BY DEF Got, HeaderNumber
<1>6. \A x \in f .. f + went - 1 : \E k \in OfFlow(packets, flow) : Holds(packets[k], x)
  BY DEF Tiled, Tiles
<1> DEFINE l == ms[n].length
<1>7. b \in Nat /\ l \in Nat /\ b + l + 1 <= went
  BY <1>4, <1>5
<1> HIDE DEF b, l, f, went
<1>8. f + b \in f .. f + went - 1
  BY <1>2, <1>7
<1> QED BY <1>5, <1>6, <1>8

\* A message more in a direction, of which nothing went out yet.
Grows1(flow, m) ==
  /\ Len(messages[flow]) \in Nat /\ Len(messages'[flow]) = Len(messages[flow]) + 1
  /\ messages'[flow] = Append(messages[flow], m)
  /\ messages'[flow][Len(messages[flow]) + 1] = m
  /\ \A g \in Flows : \A k \in 1 .. Len(messages[g]) : messages'[g][k] = messages[g][k]
  /\ \A g \in Flows : g # flow => messages'[g] = messages[g]
  /\ first' = first /\ segmented' = segmented /\ packets' = packets /\ troubled' = troubled

LEMMA WrittenGrows ==
  ASSUME CaptureInv, NEW flow \in Flows, NEW m \in Messages, Write(flow, m),
         first' = first, segmented' = segmented, packets' = packets, troubled' = troubled
  PROVE  Grows1(flow, m)
<1> DEFINE ms == messages[flow]
<1>1. messages \in [Flows -> Seq(Messages)] /\ ms \in Seq(Messages)
  BY DEF CaptureInv, CaptureTypes
<1>2. messages' = [messages EXCEPT ![flow] = Append(ms, m)]
  BY DEF Write
<1>3. messages'[flow] = Append(ms, m) /\ \A g \in Flows : g # flow => messages'[g] = messages[g]
  BY <1>1, <1>2
<1> HIDE DEF ms
<1>4. /\ Len(ms) \in Nat /\ Len(Append(ms, m)) = Len(ms) + 1 /\ Append(ms, m)[Len(ms) + 1] = m
      /\ \A k \in 1 .. Len(ms) : Append(ms, m)[k] = ms[k]
  BY <1>1, AppendProperties, LenProperties
<1>5. \A g \in Flows : \A k \in 1 .. Len(messages[g]) : messages'[g][k] = messages[g][k]
  BY <1>3, <1>4 DEF ms
<1> QED BY <1>3, <1>4, <1>5 DEF Grows1, ms

LEMMA EndsStay ==
  ASSUME CaptureInv, NEW flow \in Flows, NEW m \in Messages, Grows1(flow, m), NEW g \in Flows
  PROVE  /\ \A n \in 0 .. Len(messages[g]) : EndsAt(g, messages'[g], n) = EndsAt(g, messages[g], n)
         /\ \A n \in 1 .. Len(messages[g]) : HeaderNumber(g, n)' = HeaderNumber(g, n)
         /\ \A n \in 1 .. Len(messages[g]) : Got(g, n)' <=> Got(g, n)
<1>1. Len(messages[g]) \in Nat
  BY LenProperties DEF CaptureInv, CaptureTypes
<1>2. ASSUME NEW n \in 0 .. Len(messages[g])
      PROVE  EndsAt(g, messages'[g], n) = EndsAt(g, messages[g], n)
  <2>1. n \in Nat /\ \A k \in 1 .. n : k \in 1 .. Len(messages[g])
    BY <1>1
  <2>2. \A k \in 1 .. n : messages'[g][k] = messages[g][k]
    BY <2>1 DEF Grows1
  <2> QED BY <2>1, <2>2, StreamOfMore DEF EndsAt
<1>3. ASSUME NEW n \in 1 .. Len(messages[g])
      PROVE  HeaderNumber(g, n)' = HeaderNumber(g, n) /\ (Got(g, n)' <=> Got(g, n))
  <2>1. n \in 0 .. Len(messages[g]) /\ n - 1 \in 0 .. Len(messages[g])
    BY <1>1
  <2>2. first' = first /\ segmented' = segmented
    BY DEF Grows1
  <2>3. /\ EndsAt(g, messages'[g], n) = EndsAt(g, messages[g], n)
        /\ EndsAt(g, messages'[g], n - 1) = EndsAt(g, messages[g], n - 1)
    BY <1>2, <2>1
  <2>4. HeaderNumber(g, n)' = first[g] + EndsAt(g, messages'[g], n - 1)
    BY <2>2 DEF HeaderNumber
  <2>5. Got(g, n)' <=> EndsAt(g, messages'[g], n) <= segmented[g]
    BY <2>2 DEF Got
  <2> QED BY <2>3, <2>4, <2>5 DEF HeaderNumber, Got
<1> QED BY <1>2, <1>3

LEMMA TiledStays ==
  ASSUME CaptureInv, NEW flow \in Flows, NEW m \in Messages, Grows1(flow, m), NEW g \in Flows, Tiled(g)
  PROVE  Tiled(g)'
<1>1. packets' = packets /\ first' = first /\ segmented' = segmented
  BY DEF Grows1
<1>2. CASE g # flow
  <2>1. messages'[g] = messages[g]
    BY <1>2 DEF Grows1
  <2> QED BY <1>1, <2>1 DEF Tiled
<1>3. CASE g = flow
  <2> DEFINE ms == messages[g]
             s == Entire(g, ms)
             u == Entire(g, Append(ms, m))
             f == first[g]
             went == segmented[g]
  <2>1. ms \in Seq(Messages) /\ Len(ms) <= MaxMessages
    BY WrittenIs DEF CaptureInv, CaptureTypes
  <2>2. PICK t \in Seq(Cells) : u = s \o t
    <3> HIDE DEF ms
    <3> QED BY <2>1, WholeOfMore
  <2>3. s \in Seq(Cells)
    <3> HIDE DEF ms
    <3> QED BY <2>1, WholeStream
  <2>4. Tiles(packets, g, f, went, s)
    BY DEF Tiled
  <2>5. messages'[g] = Append(ms, m)
    BY <1>3 DEF Grows1
  <2> HIDE DEF s, u, f, went, ms
  <2>6. Tiles(packets, g, f, went, s \o t)
    BY <2>3, <2>4, TilesOfMore
  <2>7. Tiled(g)' <=> Tiles(packets, g, f, went, u)
    BY <1>1, <2>5 DEF Tiled, f, went, u
  <2> QED BY <2>2, <2>6, <2>7
<1> QED BY <1>2, <1>3

\* Nothing holds the header of a message that was just written.
LEMMA NewIsNotHeld ==
  ASSUME CaptureInv, NEW flow \in Flows, NEW m \in Messages, Grows1(flow, m), Tiled(flow),
         NEW CONSTANT n, n = Len(messages[flow]) + 1
  PROVE  \A k \in OfFlow(packets, flow) : ~Holds(packets[k], HeaderNumber(flow, n)')
<1> DEFINE ms == messages[flow]
           N == Len(ms)
           s == Entire(flow, ms)
           f == first[flow]
           went == segmented[flow]
           y == HeaderNumber(flow, n)'
<1>1. N \in Nat /\ N \in 0 .. N /\ n - 1 = N
  BY LenProperties DEF CaptureInv, CaptureTypes
<1>2. first' = first
  BY DEF Grows1
<1>3. EndsAt(flow, messages'[flow], N) = EndsAt(flow, ms, N)
  BY <1>1, EndsStay
<1>4. y = f + Len(s)
  <2>1. HeaderNumber(flow, n)' = first[flow] + EndsAt(flow, messages'[flow], n - 1)
    BY <1>2 DEF HeaderNumber
  <2> QED BY <1>1, <1>3, <2>1 DEF EndsAt, Entire
<1> SUFFICES ASSUME NEW k \in OfFlow(packets, flow), Holds(packets[k], y) PROVE FALSE
  OBVIOUS
<1>5. /\ packets[k].sequence \in Nat /\ Len(packets[k].cells) \in Nat
      /\ packets[k].sequence + Len(packets[k].cells) <= f + went
  BY DEF Tiled, Tiles, IsTile
<1>6. went <= Len(s) /\ went \in Nat /\ f \in Nat /\ Len(s) \in Nat
  <2>1. ms \in Seq(Messages) /\ Len(ms) <= MaxMessages
    BY WrittenIs DEF CaptureInv, CaptureTypes
  <2>2. Len(s) \in Nat
    <3> HIDE DEF ms
    <3> QED BY <2>1, WholeStream
  <2> QED BY <2>2 DEF CaptureInv, CaptureTypes, FlowInv
<1> DEFINE q == packets[k].sequence
           l == Len(packets[k].cells)
           c == Len(s)
<1>7. y < q + l
  BY DEF Holds
<1>8. q \in Nat /\ l \in Nat /\ q + l <= f + went /\ y = f + c /\ c \in Nat /\ went <= c
  BY <1>4, <1>5, <1>6
<1> HIDE DEF q, l, y, f, went, c
<1> QED BY <1>6, <1>7, <1>8

\* What was there of both directions.
LEMMA OldStays ==
  ASSUME CaptureInv, Dialogue, NEW flow \in Flows, NEW m \in Messages, Grows1(flow, m)
  PROVE  /\ Len(Asks) \in Nat /\ Len(Answers) \in Nat
         /\ \A r \in 1 .. Len(Asks) : Asks'[r] = Asks[r] /\ r \in 1 .. Len(Asks') /\ r < Len(Asks) + 1
         /\ \A n \in 1 .. Len(Answers) : Answers'[n] = Answers[n] /\ n \in 1 .. Len(Answers')
                                         /\ To(n)' = To(n) /\ n < Len(Answers) + 1
         /\ \A n \in 1 .. Len(Answers) : To(n) # 0 => To(n) \in 1 .. Len(Asks)
         /\ \A n \in 1 .. Len(Answers) : IsFinal(n)' <=> IsFinal(n)
         /\ flow = "request" =>
              /\ Len(Asks') = Len(Asks) + 1 /\ Asks'[Len(Asks) + 1] = m /\ Answers' = Answers
              /\ \A r \in 1 .. Len(Asks') : r \in 1 .. Len(Asks) \/ r = Len(Asks) + 1
         /\ flow = "response" =>
              /\ Len(Answers') = Len(Answers) + 1 /\ Answers'[Len(Answers) + 1] = m /\ Asks' = Asks
              /\ \A n \in 1 .. Len(Answers') : n \in 1 .. Len(Answers) \/ n = Len(Answers) + 1
<1>1. "request" \in Flows /\ "response" \in Flows /\ "request" # "response"
      /\ (flow = "request" \/ flow = "response")
  BY DEF Flows
<1>2. Len(Asks) \in Nat /\ Len(Answers) \in Nat
  BY <1>1, LenProperties DEF CaptureInv, CaptureTypes, Asks, Answers
<1>3. \A n \in 1 .. Len(Answers) : To(n) # 0 => To(n) \in 1 .. Len(Asks)
  BY DEF Dialogue, IsDue
<1>4. flow = "request" =>
        /\ Len(Asks') = Len(Asks) + 1 /\ Asks'[Len(Asks) + 1] = m /\ Answers' = Answers
  BY <1>1 DEF Grows1, Asks, Answers
<1>5. flow = "response" =>
        /\ Len(Answers') = Len(Answers) + 1 /\ Answers'[Len(Answers) + 1] = m /\ Asks' = Asks
  BY <1>1 DEF Grows1, Asks, Answers
<1>6. /\ \A r \in 1 .. Len(Asks) : Asks'[r] = Asks[r]
      /\ \A n \in 1 .. Len(Answers) : Answers'[n] = Answers[n]
  BY <1>1 DEF Grows1, Asks, Answers
<1> DEFINE N == Len(Asks)
           M == Len(Answers)
<1>7. /\ N \in Nat /\ M \in Nat /\ Len(Asks') \in {N, N + 1} /\ Len(Answers') \in {M, M + 1}
  BY <1>1, <1>2, <1>4, <1>5
<1>8. /\ \A r \in 1 .. N : r \in 1 .. Len(Asks') /\ r < N + 1
      /\ \A n \in 1 .. M : n \in 1 .. Len(Answers') /\ n < M + 1
      /\ \A r \in 1 .. N + 1 : r \in 1 .. N \/ r = N + 1
      /\ \A n \in 1 .. M + 1 : n \in 1 .. M \/ n = M + 1
  <2> HIDE DEF N, M
  <2> QED BY <1>7
<1>9. \A n \in 1 .. Len(Answers) : To(n)' = To(n)
  BY <1>6 DEF To
<1>10. ASSUME NEW n \in 1 .. Len(Answers) PROVE IsFinal(n)' <=> IsFinal(n)
  <2>1. IsAnswer(n)' <=> IsAnswer(n)
    BY <1>8, <1>9 DEF IsAnswer
  <2>2. IsAnswer(n) => Asks'[To(n)] = Asks[To(n)]
    BY <1>3, <1>6 DEF IsAnswer
  <2>3. IsFinal(n)' <=> IsAnswer(n)' /\ Answers'[n].bytes # PendingAnswer(Asks'[To(n)].bytes)
    BY <1>9 DEF IsFinal
  <2> QED BY <1>6, <2>1, <2>2, <2>3 DEF IsFinal
<1> QED BY <1>2, <1>3, <1>4, <1>5, <1>6, <1>8, <1>9, <1>10

LEMMA OldStaysDue ==
  ASSUME CaptureInv, Dialogue, NEW flow \in Flows, NEW m \in Messages, Grows1(flow, m),
         owed' \subseteq owed \union {Len(Asks) + 1},
         NEW n \in 1 .. Len(Answers), To(n) # 0,
         flow = "request" /\ m.ecu = Answers[n].ecu => Got("response", n)
  PROVE  IsDue(n)'
<1>1. IsDue(n) /\ "request" \in Flows /\ "response" \in Flows
      /\ (flow = "request" \/ flow = "response")
  BY DEF Dialogue, Flows
<1>2. Answers'[n] = Answers[n] /\ To(n)' = To(n) /\ (IsFinal(n)' <=> IsFinal(n))
  BY OldStays
<1>3. To(n) \in 1 .. Len(Asks)
  BY <1>1 DEF IsDue
<1> DEFINE q == To(n)
<1>4. Asks'[q] = Asks[q] /\ q \in 1 .. Len(Asks') /\ q < Len(Asks) + 1
  BY <1>3, OldStays
<1>5. Got("request", q)' <=> Got("request", q)
  <2>1. \A k \in 1 .. Len(messages["request"]) : Got("request", k)' <=> Got("request", k)
    BY <1>1, EndsStay
  <2>2. q' = q
    BY <1>2
  <2>3. Got("request", q)' <=> EndsAt("request", messages'["request"], q) <= segmented'["request"]
    BY <2>2 DEF Got
  <2> DEFINE T(k) == EndsAt("request", messages'["request"], k) <= segmented'["request"]
  <2>4. \A k : Got("request", k)' <=> T(k)
    BY DEF Got
  <2>5. T(q) <=> Got("request", q)
    BY <1>3, <2>1, <2>4 DEF Asks
  <2> QED BY <2>3, <2>5
<1>6. Got("response", n)' <=> Got("response", n)
  BY <1>1, EndsStay DEF Answers
<1>7. ASSUME NEW r \in 1 .. Len(Asks'), Asks'[r].ecu = Answers[n].ecu, r > q
      PROVE  Got("response", n)
  <2>1. CASE r \in 1 .. Len(Asks)
    <3>1. Asks[r].ecu = Answers[n].ecu
      BY <1>7, <2>1, OldStays
    <3> QED BY <1>1, <1>7, <2>1, <3>1 DEF IsDue
  <2>2. CASE r = Len(Asks) + 1 /\ flow = "request"
    <3>1. m.ecu = Answers[n].ecu
      BY <1>7, <2>2, OldStays
    <3> QED BY <2>2, <3>1
  <2> QED BY <1>1, <2>1, <2>2, OldStays
<1>8. ASSUME NEW o \in 1 .. n - 1, To(o)' = To(n)' PROVE ~IsFinal(o)'
  <2>1. o \in 1 .. Len(Answers)
    BY OldStays
  <2>2. To(o)' = To(o) /\ (IsFinal(o)' <=> IsFinal(o))
    BY <2>1, OldStays
  <2> QED BY <1>1, <1>2, <1>8, <2>2 DEF IsDue
<1>9. IsFinal(n)' => q \notin owed'
  BY <1>1, <1>2, <1>4 DEF IsDue
<1>10. /\ Answers'[n].kind = "diagnostic" /\ Answers'[n].ecu = Asks'[q].ecu
       /\ Answers'[n].bytes \in FinalAnswers(Asks'[q].bytes, Reports)
                                  \union {PendingAnswer(Asks'[q].bytes)}
       /\ Got("request", q)'
  BY <1>1, <1>2, <1>4, <1>5 DEF IsDue
<1>11. To(n)' = q
  BY <1>2
<1> QED BY <1>2, <1>4, <1>6, <1>7, <1>8, <1>9, <1>10, <1>11 DEF IsDue

\* The packets are where they were, and nothing of the new message is there.
LEMMA OrderAfterAMessage ==
  ASSUME CaptureInv, Dialogue, OrderInv, NEW flow \in Flows, NEW m \in Messages, Grows1(flow, m),
         flow = "response" /\ m.asked # 0 =>
           \A r \in 1 .. Len(Asks) : Asks[r].ecu = m.ecu => ~(r > m.asked)
  PROVE  OrderInv'
<1>1. /\ "request" \in Flows /\ "response" \in Flows /\ "request" # "response"
      /\ (flow = "request" \/ flow = "response")
  BY DEF Flows
<1>2. packets' = packets /\ first' = first /\ segmented' = segmented /\ troubled' = troubled
  BY DEF Grows1
<1>3. Clean' <=> Clean
  BY <1>2 DEF Clean, Wraps
<1> SUFFICES ASSUME Clean PROVE /\ \A g \in Flows : Tiled(g)'
                                /\ \A n \in 1 .. Len(Answers') : To(n)' # 0 => InPlace(n)'
  BY <1>3 DEF OrderInv
<1>4. \A g \in Flows : Tiled(g) /\ Tiled(g)'
  BY TiledStays DEF OrderInv
<1> DEFINE Y(g, n) == first[g] + EndsAt(g, messages'[g], n - 1)
<1>5. \A g, n : HeaderNumber(g, n)' = Y(g, n)
  BY <1>2 DEF HeaderNumber
<1>6. \A g \in Flows : \A n \in 1 .. Len(messages[g]) : Y(g, n) = HeaderNumber(g, n)
  BY <1>5, EndsStay
<1>7. ASSUME NEW n, n = Len(messages[flow]) + 1
      PROVE  \A k \in OfFlow(packets, flow) : ~Holds(packets[k], Y(flow, n))
  BY <1>4, <1>5, <1>7, NewIsNotHeld
<1>8. \A n : InPlace(n)' <=>
        /\ Ahead(packets, "request", Y("request", Answers'[n].asked), "response", Y("response", n))
        /\ \A r \in 1 .. Len(Asks') : Asks'[r].ecu = Answers'[n].ecu /\ r > Answers'[n].asked =>
             Ahead(packets, "response", Y("response", n), "request", Y("request", r))
  <2> TAKE n
  <2>1. InPlace(n)' <=>
        /\ Ahead(packets', "request", first'["request"] + EndsAt("request", messages'["request"], Answers'[n].asked - 1),
                 "response", first'["response"] + EndsAt("response", messages'["response"], n - 1))
        /\ \A r \in 1 .. Len(Asks') : Asks'[r].ecu = Answers'[n].ecu /\ r > Answers'[n].asked =>
             Ahead(packets', "response", first'["response"] + EndsAt("response", messages'["response"], n - 1),
                   "request", first'["request"] + EndsAt("request", messages'["request"], r - 1))
    BY DEF InPlace, To, HeaderNumber
  <2> QED BY <1>2, <2>1
<1> HIDE DEF Y
<1>9. ASSUME NEW n \in 1 .. Len(Answers), To(n) # 0
      PROVE  InPlace(n)'
  <2>1. InPlace(n) /\ Answers'[n] = Answers[n] /\ To(n) \in 1 .. Len(Asks)
    BY <1>9, OldStays DEF OrderInv
  <2> DEFINE q == Answers[n].asked
  <2>2. /\ q = To(n) /\ Y("request", q) = HeaderNumber("request", q)
        /\ Y("response", n) = HeaderNumber("response", n)
    BY <1>1, <1>6, <2>1 DEF To, Asks, Answers
  <2>3. Ahead(packets, "request", Y("request", q), "response", Y("response", n))
    BY <2>1, <2>2 DEF InPlace
  <2>4. ASSUME NEW r \in 1 .. Len(Asks'), Asks'[r].ecu = Answers[n].ecu, r > q
        PROVE  Ahead(packets, "response", Y("response", n), "request", Y("request", r))
    <3>1. CASE r \in 1 .. Len(Asks)
      <4>1. Y("request", r) = HeaderNumber("request", r) /\ Asks'[r] = Asks[r]
        BY <1>1, <1>6, <3>1, OldStays DEF Asks
      <4> QED BY <2>1, <2>2, <2>4, <3>1, <4>1 DEF InPlace
    <3>2. CASE r = Len(Asks) + 1 /\ flow = "request"
      <4>1. \A k \in OfFlow(packets, "request") : ~Holds(packets[k], Y("request", r))
        BY <1>7, <3>2 DEF Asks
      <4> QED BY <4>1 DEF Ahead
    <3> QED BY <1>1, <3>1, <3>2, OldStays
  <2> QED BY <1>8, <2>1, <2>3, <2>4
<1>10. ASSUME NEW n, n = Len(Answers) + 1, flow = "response", To(n)' # 0
       PROVE  InPlace(n)'
  <2>1. \A k \in OfFlow(packets, "response") : ~Holds(packets[k], Y("response", n))
    BY <1>7, <1>10 DEF Answers
  <2>2. Answers'[n] = m /\ Asks' = Asks
    BY <1>10, OldStays
  <2>3. Ahead(packets, "request", Y("request", Answers'[n].asked), "response", Y("response", n))
    BY <2>1 DEF Ahead
  <2>4. m.asked # 0
    BY <1>10, <2>2 DEF To
  <2>5. \A r \in 1 .. Len(Asks') : ~(Asks'[r].ecu = Answers'[n].ecu /\ r > Answers'[n].asked)
    BY <1>10, <2>2, <2>4
  <2> QED BY <1>8, <2>3, <2>5
<1>11. ASSUME NEW n \in 1 .. Len(Answers'), To(n)' # 0 PROVE InPlace(n)'
  <2>1. CASE n \in 1 .. Len(Answers)
    BY <1>9, <1>11, <2>1, OldStays
  <2>2. CASE n = Len(Answers) + 1 /\ flow = "response"
    BY <1>10, <1>11, <2>2
  <2>3. n \in 1 .. Len(Answers) \/ (n = Len(Answers) + 1 /\ flow = "response")
    BY <1>1, OldStays
  <2> QED BY <2>1, <2>2, <2>3
<1> QED BY <1>4, <1>11

LEMMA WritingKeepsOrder ==
  ASSUME CaptureInv, Dialogue, OrderInv, WriteRequest \/ WriteAnswer \/ WriteOther
  PROVE  Dialogue' /\ OrderInv'
<1>1. /\ "request" \in Flows /\ "response" \in Flows /\ owed \subseteq 1 .. Len(Asks)
      /\ \A r \in 1 .. Len(Asks) : Asks[r] \in Questions
  BY ElementOfSeq DEF CaptureInv, CaptureTypes, Flows, Asks
<1>2. \A n \in 1 .. Len(Answers) : Received("response", n) => Got("response", n)
  BY <1>1, ReceivedIsGot DEF Answers
<1>3. \A n \in 1 .. Len(Asks) : Received("request", n) => Got("request", n)
  BY <1>1, ReceivedIsGot DEF Asks
<1>4. CASE WriteRequest
  <2>1. PICK ecu \in LogicalAddresses, request \in Requests, length \in PayloadLengths :
          /\ \A n \in owed : Asks[n].ecu # ecu
          /\ \A n \in AnswersOf(ecu) : Received("response", n)
          /\ Write("request", Message("diagnostic", ecu, request, length, 0))
          /\ owed' = owed \union {Len(Asks) + 1}
          /\ UNCHANGED <<first, segmented, packets, troubled, trouble>>
    BY <1>4 DEF WriteRequest, Asks
  <2> DEFINE m == Message("diagnostic", ecu, request, length, 0)
  <2>2. m \in Messages /\ m.ecu = ecu
    <3>1. request \in Payloads
      BY DEF Payloads
    <3> QED BY <3>1, MessageTyped DEF Message
  <2> HIDE DEF m
  <2>3. Grows1("request", m)
    BY <1>1, <2>1, <2>2, WrittenGrows DEF m
  <2>4. /\ Len(Asks') = Len(Asks) + 1 /\ Asks'[Len(Asks) + 1] = m /\ Answers' = Answers
        /\ \A r \in 1 .. Len(Asks') : r \in 1 .. Len(Asks) \/ r = Len(Asks) + 1
        /\ \A r \in 1 .. Len(Asks) : Asks'[r] = Asks[r] /\ r < Len(Asks) + 1
        /\ Len(Asks) \in Nat
    BY <1>1, <2>2, <2>3, OldStays
  <2>5. ASSUME NEW n \in 1 .. Len(Answers), To(n) # 0 PROVE IsDue(n)'
    <3>1. m.ecu = Answers[n].ecu => Got("response", n)
      <4>1. DOMAIN messages["response"] = 1 .. Len(Answers)
        BY <1>1, LenProperties DEF CaptureInv, CaptureTypes, Answers
      <4>2. m.ecu = Answers[n].ecu => n \in AnswersOf(ecu)
        BY <2>2, <2>5, <4>1 DEF AnswersOf, Answers, To
      <4> QED BY <1>2, <2>1, <4>2
    <3> QED BY <1>1, <2>1, <2>2, <2>3, <2>5, <3>1, OldStaysDue
  <2>6. ASSUME NEW n \in 1 .. Len(Answers')
        PROVE  IF To(n)' = 0 THEN Answers'[n].kind # "diagnostic" ELSE IsDue(n)'
    BY <2>4, <2>5 DEF Dialogue, To
  <2>7. ASSUME NEW n \in owed', NEW r \in 1 .. Len(Asks'), Asks'[r].ecu = Asks'[n].ecu
        PROVE  r <= n
    <3>1. CASE n = Len(Asks) + 1
      BY <2>4, <3>1
    <3>2. CASE n \in owed /\ r \in 1 .. Len(Asks)
      BY <1>1, <2>4, <2>7, <3>2 DEF Dialogue
    <3>3. CASE n \in owed /\ r = Len(Asks) + 1
      <4>1. Asks'[n] = Asks[n] /\ Asks[n].ecu # ecu
        BY <1>1, <2>1, <2>4, <3>3
      <4> QED BY <2>2, <2>4, <2>7, <3>3, <4>1
    <3> QED BY <2>1, <2>4, <3>1, <3>2, <3>3
  <2>8. Dialogue'
    BY <2>6, <2>7 DEF Dialogue
  <2>9. OrderInv'
    BY <1>1, <2>2, <2>3, OrderAfterAMessage
  <2> QED BY <2>8, <2>9
<1>5. CASE WriteAnswer
  <2>1. PICK q \in owed, length \in PayloadLengths :
          /\ Received("request", q)
          /\ \/ /\ Write("response", Message("diagnostic", Asks[q].ecu,
                                             PendingAnswer(Asks[q].bytes), length, q))
                /\ UNCHANGED owed
             \/ \E answer \in FinalAnswers(Asks[q].bytes, Reports) :
                  /\ Write("response", Message("diagnostic", Asks[q].ecu, answer, length, q))
                  /\ owed' = owed \ {q}
          /\ UNCHANGED <<first, segmented, packets, troubled, trouble>>
    BY <1>5 DEF WriteAnswer, Asks
  <2> DEFINE e == Asks[q].ecu
             b == Asks[q].bytes
  <2>2. /\ e \in LogicalAddresses /\ b \in Requests /\ q \in Nat /\ q \in 1 .. Len(Asks)
        /\ q # 0
    BY <1>1, <2>1 DEF Questions
  <2>3. PICK answer \in FinalAnswers(b, Reports) \union {PendingAnswer(b)} :
          /\ Write("response", Message("diagnostic", e, answer, length, q))
          /\ owed' \subseteq owed
          /\ answer # PendingAnswer(b) => q \notin owed'
    BY <2>1
  <2> HIDE DEF e, b
  <2>4. answer \in Payloads
    BY <2>2, <2>3 DEF Payloads
  <2> DEFINE m == Message("diagnostic", e, answer, length, q)
  <2>5. m \in Messages
    BY <2>2, <2>4, MessageTyped
  <2>6. m.kind = "diagnostic" /\ m.ecu = e /\ m.bytes = answer /\ m.asked = q
    BY DEF Message
  <2> HIDE DEF m
  <2>7. Grows1("response", m)
    BY <1>1, <2>1, <2>3, <2>5, WrittenGrows DEF m
  <2> DEFINE N == Len(Answers) + 1
  <2>8. /\ Len(Answers') = N /\ Answers'[N] = m /\ Asks' = Asks
        /\ (\A n \in 1 .. Len(Answers') : n \in 1 .. Len(Answers) \/ n = N)
        /\ (\A n \in 1 .. Len(Answers) : Answers'[n] = Answers[n] /\ To(n)' = To(n) /\ (IsFinal(n)' <=> IsFinal(n)))
        /\ (\A n \in 1 .. N - 1 : n \in 1 .. Len(Answers)) /\ N \in Nat /\ N \in 1 .. N
    <3>1. Len(Answers) \in Nat
      BY <1>1, <2>5, <2>7, OldStays
    <3>2. /\ (\A n \in 1 .. N - 1 : n \in 1 .. Len(Answers)) /\ N \in Nat /\ N \in 1 .. N
      BY <3>1
    <3> QED BY <1>1, <2>5, <2>7, <3>2, OldStays
  <2>9. \A r \in 1 .. Len(Asks) : Asks[r].ecu = e => ~(r > q)
    BY <2>1, <2>2 DEF Dialogue, e
  <2>10. ASSUME NEW n \in 1 .. Len(Answers), To(n) # 0 PROVE IsDue(n)'
    BY <1>1, <2>3, <2>5, <2>7, <2>10, OldStaysDue
  <2> HIDE DEF N
  <2>11. ASSUME NEW n, n = N PROVE To(n)' = q /\ IsDue(n)'
    <3>1. Answers'[n] = m /\ To(n)' = q
      BY <2>6, <2>8, <2>11 DEF To
    <3>2. Got("request", q)'
      <4>1. Got("request", q)
        BY <1>3, <2>1, <2>2
      <4>2. \A k \in 1 .. Len(messages["request"]) : Got("request", k)' <=> Got("request", k)
        BY <1>1, <2>5, <2>7, EndsStay
      <4> QED BY <2>2, <4>1, <4>2 DEF Asks
    <3>3. ASSUME NEW o \in 1 .. n - 1, To(o)' = q PROVE ~IsFinal(o)'
      <4>1. o \in 1 .. Len(Answers) /\ To(o) = q /\ (IsFinal(o)' <=> IsFinal(o))
        BY <2>8, <2>11, <3>3
      <4>2. IsFinal(o) => q \notin owed
        BY <2>2, <4>1 DEF Dialogue, IsDue
      <4> QED BY <2>1, <4>1, <4>2
    <3>4. IsFinal(n)' => q \notin owed'
      <4>1. IsFinal(n)' => Answers'[n].bytes # PendingAnswer(Asks'[q].bytes)
        BY <3>1 DEF IsFinal
      <4> QED BY <2>3, <2>6, <2>8, <3>1, <4>1 DEF b
    <3>5. /\ Answers'[n].kind = "diagnostic" /\ q \in 1 .. Len(Asks') /\ Answers'[n].ecu = Asks'[q].ecu
          /\ Answers'[n].bytes \in FinalAnswers(Asks'[q].bytes, Reports) \union {PendingAnswer(Asks'[q].bytes)}
      BY <2>2, <2>3, <2>6, <2>8, <3>1 DEF e, b
    <3>6. \A r \in 1 .. Len(Asks') : ~(Asks'[r].ecu = Answers'[n].ecu /\ r > q)
      BY <2>6, <2>8, <2>9, <3>1
    <3> QED BY <3>1, <3>2, <3>3, <3>4, <3>5, <3>6 DEF IsDue
  <2>12. ASSUME NEW n \in 1 .. Len(Answers')
         PROVE  IF To(n)' = 0 THEN Answers'[n].kind # "diagnostic" ELSE IsDue(n)'
    <3>1. CASE n \in 1 .. Len(Answers)
      BY <2>8, <2>10, <3>1 DEF Dialogue
    <3>2. CASE n = N
      BY <2>2, <2>11, <3>2
    <3> QED BY <2>8, <3>1, <3>2
  <2>13. Dialogue'
    BY <2>3, <2>8, <2>12 DEF Dialogue
  <2>14. OrderInv'
    BY <1>1, <2>5, <2>6, <2>7, <2>9, OrderAfterAMessage
  <2> QED BY <2>13, <2>14
<1>6. CASE WriteOther
  <2>1. PICK type \in {"acknowledgement", "manufacturer"} :
          Write("response", Message(type, 0, <<>>, 1, 0))
    BY <1>6 DEF WriteOther
  <2>2. /\ first' = first /\ segmented' = segmented /\ packets' = packets /\ owed' = owed
        /\ troubled' = troubled
    BY <1>6 DEF WriteOther
  <2> DEFINE m == Message(type, 0, <<>>, 1, 0)
  <2>3. m \in Messages
    <3>1. <<>> \in Payloads
      BY DEF Payloads
    <3> QED BY <3>1, MessageTyped
  <2>4. m.kind # "diagnostic" /\ m.asked = 0
    BY DEF Message
  <2> HIDE DEF m
  <2>5. Grows1("response", m)
    BY <1>1, <2>1, <2>2, <2>3, WrittenGrows DEF m
  <2>6. /\ Answers'[Len(Answers) + 1] = m /\ Asks' = Asks
        /\ (\A n \in 1 .. Len(Answers') : n \in 1 .. Len(Answers) \/ n = Len(Answers) + 1)
        /\ (\A n \in 1 .. Len(Answers) : Answers'[n] = Answers[n] /\ To(n)' = To(n))
    BY <1>1, <2>3, <2>5, OldStays
  <2>7. ASSUME NEW n \in 1 .. Len(Answers), To(n) # 0 PROVE IsDue(n)'
    BY <1>1, <2>2, <2>3, <2>5, <2>7, OldStaysDue
  <2>8. ASSUME NEW n \in 1 .. Len(Answers')
        PROVE  IF To(n)' = 0 THEN Answers'[n].kind # "diagnostic" ELSE IsDue(n)'
    <3>1. CASE n \in 1 .. Len(Answers)
      BY <2>6, <2>7, <3>1 DEF Dialogue
    <3>2. CASE n = Len(Answers) + 1
      BY <2>4, <2>6, <3>2 DEF To
    <3> QED BY <2>6, <3>1, <3>2
  <2>9. Dialogue'
    BY <2>2, <2>6, <2>8 DEF Dialogue
  <2>10. OrderInv'
    BY <1>1, <2>3, <2>4, <2>5, OrderAfterAMessage
  <2> QED BY <2>9, <2>10
<1> QED BY <1>4, <1>5, <1>6

LEMMA SendingKeepsDialogue ==
  ASSUME CaptureInv, Dialogue, messages' = messages, owed' = owed,
         segmented' \in [Flows -> Nat], \A g \in Flows : segmented[g] <= segmented'[g]
  PROVE  Dialogue'
<1>1. \A g \in Flows : \A n \in 1 .. Len(messages[g]) : Got(g, n) => Got(g, n)'
  <2> TAKE g \in Flows
  <2> TAKE n \in 1 .. Len(messages[g])
  <2> HAVE Got(g, n)
  <2> DEFINE ms == messages[g]
             N == Len(ms)
             e == EndsAt(g, ms, n)
             a == segmented[g]
             b == segmented'[g]
  <2>1. ms \in Seq(Messages) /\ N \in Nat /\ N <= MaxMessages /\ a \in Nat
    BY WrittenIs DEF CaptureInv, CaptureTypes
  <2>2. e \in Nat
    <3>1. n \in 0 .. N
      BY <2>1
    <3> HIDE DEF ms
    <3>2. Lengths(ms, N, Longest) /\ Longest \in Nat
      BY <2>1, WholeStream, LongestIs
    <3> HIDE DEF N
    <3> QED BY <2>1, <3>1, <3>2, StreamIsPlaced
  <2>3. e <= a /\ a <= b /\ b \in Nat
    BY DEF Got
  <2>4. Got(g, n)' <=> e <= b
    BY DEF Got
  <2> HIDE DEF e, a, b
  <2> QED BY <2>1, <2>2, <2>3, <2>4
<1>2. Asks' = Asks /\ Answers' = Answers /\ "request" \in Flows /\ "response" \in Flows
  BY DEF Asks, Answers, Flows
<1>3. \A n : To(n)' = To(n) /\ (IsFinal(n)' <=> IsFinal(n))
  BY <1>2 DEF To, IsFinal, IsAnswer
<1>4. ASSUME NEW n \in 1 .. Len(Answers), IsDue(n) PROVE IsDue(n)'
  <2>1. To(n) \in 1 .. Len(Asks) /\ Got("request", To(n))
    BY <1>4 DEF IsDue
  <2> DEFINE q == To(n)
  <2>2. Got("request", q)'
    <3>1. \E r : r = q
      OBVIOUS
    <3>2. PICK r : r = q
      BY <3>1
    <3>3. Got("request", r)'
      BY <1>1, <1>2, <2>1, <3>2 DEF Asks
    <3>4. q' = r
      BY <1>3, <3>2
    <3> QED BY <3>3, <3>4 DEF Got
  <2>3. Got("response", n) => Got("response", n)'
    BY <1>1, <1>2 DEF Answers
  <2> QED BY <1>2, <1>3, <1>4, <2>2, <2>3 DEF IsDue
<1> QED BY <1>2, <1>3, <1>4 DEF Dialogue

\* Another packet comes behind all, and what its header is to be behind is there.
LEMMA PlacesStay ==
  ASSUME CaptureInv, Dialogue, \A g \in Flows : Tiled(g), NEW p, Captures(packets, packets', p),
         messages' = messages, first' = first,
         NEW n \in 1 .. Len(Answers), To(n) # 0, InPlace(n)
  PROVE  InPlace(n)'
<1>1. /\ "request" \in Flows /\ "response" \in Flows /\ IsDue(n)
      /\ Asks' = Asks /\ Answers' = Answers
  BY DEF Flows, Dialogue, Asks, Answers
<1>2. To(n)' = To(n) /\ \A g, m : HeaderNumber(g, m)' = HeaderNumber(g, m)
  BY <1>1 DEF To, HeaderNumber
<1>3. Ahead(packets', "request", HeaderNumber("request", To(n)), "response", HeaderNumber("response", n))
  <2>1. \E k \in OfFlow(packets, "request") : Holds(packets[k], HeaderNumber("request", To(n)))
    BY <1>1, SentIsHeld DEF IsDue, Asks
  <2> QED BY <2>1, AheadOfMore DEF InPlace
<1>4. ASSUME NEW r \in 1 .. Len(Asks), Asks[r].ecu = Answers[n].ecu, r > To(n)
      PROVE  Ahead(packets', "response", HeaderNumber("response", n), "request", HeaderNumber("request", r))
  <2>1. \E k \in OfFlow(packets, "response") : Holds(packets[k], HeaderNumber("response", n))
    BY <1>1, <1>4, SentIsHeld DEF IsDue, Answers
  <2>2. Ahead(packets, "response", HeaderNumber("response", n), "request", HeaderNumber("request", r))
    BY <1>4 DEF InPlace
  <2> QED BY <2>1, <2>2, AheadOfMore
<1>5. InPlace(n)' <=>
        /\ Ahead(packets', "request", first'["request"] + EndsAt("request", messages'["request"], Answers'[n].asked - 1),
                 "response", first'["response"] + EndsAt("response", messages'["response"], n - 1))
        /\ \A r \in 1 .. Len(Asks') : Asks'[r].ecu = Answers'[n].ecu /\ r > Answers'[n].asked =>
             Ahead(packets', "response", first'["response"] + EndsAt("response", messages'["response"], n - 1),
                   "request", first'["request"] + EndsAt("request", messages'["request"], r - 1))
  BY DEF InPlace, To, HeaderNumber
<1> QED BY <1>1, <1>3, <1>4, <1>5 DEF To, HeaderNumber

LEMMA OrderAfterAPacket ==
  ASSUME CaptureInv, Dialogue, OrderInv, NEW p, Captures(packets, packets', p),
         messages' = messages, first' = first, Clean' => Clean,
         Clean' => \A g \in Flows : Tiled(g)'
  PROVE  OrderInv'
<1>1. Answers' = Answers /\ \A n : To(n)' = To(n)
  BY DEF Answers, To
<1> SUFFICES ASSUME Clean' PROVE \A n \in 1 .. Len(Answers) : To(n) # 0 => InPlace(n)'
  BY <1>1 DEF OrderInv
<1>2. (\A g \in Flows : Tiled(g)) /\ \A n \in 1 .. Len(Answers) : To(n) # 0 => InPlace(n)
  BY DEF OrderInv
<1> QED BY <1>2, PlacesStay

LEMMA SegmentIs ==
  ASSUME CaptureInv, NEW flow \in Flows, NEW from \in Nat, NEW length \in Nat \ {0},
         from + length <= Len(StreamOf(flow)), first[flow] + (from + length) <= SequenceModulus
  PROVE  LET p == Segment(flow, from, length)
         IN  /\ p \in Packets /\ p.flow = flow /\ p.sequence = first[flow] + from
             /\ Len(p.cells) = length /\ Stretch(p.cells, Entire(flow, messages[flow]), from)
             /\ Captures(packets, Append(packets, p), p)
<1> DEFINE p == Segment(flow, from, length)
           s == Entire(flow, messages[flow])
           c == SubSeq(s, from + 1, from + length)
           f == first[flow]
           x == f + from
<1>1. p \in Packets /\ p.flow = flow /\ StreamOf(flow) = s
  BY SegmentCarries
<1>2. p = [flow |-> flow, sequence |-> x % SequenceModulus, cells |-> c]
  BY <1>1 DEF Segment
<1>3. CaptureTypes /\ Written <= MaxMessages /\ f \in Nat /\ packets \in Seq(Packets)
  BY DEF CaptureInv, CaptureTypes
<1>4. s \in Seq(Cells) /\ Len(s) \in Nat
  <2>1. messages[flow] \in Seq(Messages) /\ Len(messages[flow]) <= MaxMessages
    BY <1>3, WrittenIs DEF CaptureTypes
  <2> QED BY <2>1, WholeStream
<1> HIDE DEF s, p, f
<1>5. c \in Seq(Cells) /\ Len(c) = length
  BY <1>1, <1>4, StretchCells
<1>6. x % SequenceModulus = x
  <2>1. SequenceModulus \in Nat \ {0}
    BY DoIpCaptureAssumption
  <2>2. f + (from + length) <= SequenceModulus
    BY DEF f
  <2>3. x \in 0 .. SequenceModulus - 1
    BY <1>3, <2>1, <2>2
  <2> HIDE DEF x
  <2> QED BY <2>1, <2>3, RoundNumber
<1>7. p.sequence = x /\ p.cells = c
  BY <1>2, <1>6
<1>8. Stretch(c, s, from)
  BY <1>1, <1>5 DEF Stretch
<1>9. Captures(packets, Append(packets, p), p)
  BY <1>1, <1>3, AppendProperties, LenProperties DEF Captures
<1> HIDE DEF c
<1> QED BY <1>1, <1>5, <1>7, <1>8, <1>9 DEF p, s, f

LEMMA CleanStays ==
  ASSUME CaptureInv, Clean', troubled' = FALSE => ~troubled, first' = first, segmented' \in [Flows -> Nat],
         \A g \in Flows : segmented[g] <= segmented'[g]
  PROVE  Clean
<1>1. ~troubled' /\ \A g \in Flows : ~(first[g] + segmented'[g] > SequenceModulus)
  BY DEF Clean, Wraps
<1>2. ASSUME NEW g \in Flows PROVE ~Wraps(g)
  <2> DEFINE a == segmented[g]
             b == segmented'[g]
             f == first[g]
  <2>1. a \in Nat /\ b \in Nat /\ f \in Nat /\ a <= b /\ SequenceModulus \in Nat
        /\ ~(f + b > SequenceModulus)
    BY <1>1, DoIpCaptureAssumption DEF CaptureInv, CaptureTypes
  <2> HIDE DEF a, b, f
  <2>2. ~(f + a > SequenceModulus)
    BY <2>1
  <2> QED BY <2>2 DEF Wraps, f, a
<1> QED BY <1>1, <1>2 DEF Clean

\* A packet that is not missed, of what went out next.
LEMMA SendSegmentKeepsOrder ==
  ASSUME CaptureInv, Dialogue, OrderInv, SendSegment
  PROVE  Dialogue' /\ OrderInv'
<1>1. PICK flow \in Flows, length \in SegmentLengths, missed \in BOOLEAN :
        /\ segmented[flow] + length <= Len(StreamOf(flow))
        /\ segmented' = [segmented EXCEPT ![flow] = @ + length]
        /\ packets' = IF missed THEN packets
                        ELSE Append(packets, Segment(flow, segmented[flow], length))
        /\ troubled' = (troubled \/ missed)
        /\ UNCHANGED <<first, messages, owed>>
  BY DEF SendSegment
<1>2. length \in Nat \ {0} /\ segmented \in [Flows -> Nat] /\ first[flow] \in Nat /\ segmented[flow] \in Nat
  BY DoIpCaptureAssumption DEF CaptureInv, CaptureTypes
<1>3. segmented' \in [Flows -> Nat] /\ \A g \in Flows : segmented[g] <= segmented'[g]
  BY <1>1, <1>2
<1>4. Dialogue'
  BY <1>1, <1>3, SendingKeepsDialogue
<1>5. CASE missed
  BY <1>1, <1>4, <1>5 DEF OrderInv, Clean
<1>6. CASE ~missed
  <2> SUFFICES ASSUME Clean' PROVE OrderInv'
    BY <1>4 DEF OrderInv
  <2>1. Clean
    BY <1>1, <1>3, CleanStays
  <2> DEFINE from == segmented[flow]
             p == Segment(flow, from, length)
  <2>2. first[flow] + (from + length) <= SequenceModulus
    <3>1. first'[flow] = first[flow] /\ segmented'[flow] = from + length
      BY <1>1, <1>2
    <3>2. ~(first'[flow] + segmented'[flow] > SequenceModulus) /\ SequenceModulus \in Nat
      BY DoIpCaptureAssumption DEF Clean, Wraps
    <3> QED BY <1>2, <3>1, <3>2
  <2>3. packets' = Append(packets, p)
    BY <1>1, <1>6
  <2>4. /\ p.flow = flow /\ p.sequence = first[flow] + from
        /\ Len(p.cells) = length /\ Stretch(p.cells, Entire(flow, messages[flow]), from)
        /\ Captures(packets, packets', p)
    BY <1>1, <1>2, <2>2, <2>3, SegmentIs
  <2> HIDE DEF p
  <2>5. ASSUME NEW g \in Flows PROVE Tiled(g)'
    <3>1. Tiled(g)' <=> Tiles(packets', g, first[g], segmented'[g], Entire(g, messages[g]))
      <4>1. first'[g] = first[g] /\ messages'[g] = messages[g]
        BY <1>1
      <4> QED BY <4>1 DEF Tiled
    <3>2. Tiles(packets, g, first[g], segmented[g], Entire(g, messages[g]))
      BY <2>1 DEF OrderInv, Tiled
    <3>3. CASE g = flow
      <4>1. segmented'[g] = from + length
        BY <1>1, <1>2, <3>3
      <4>2. Tiles(packets', flow, first[flow], from + length, Entire(flow, messages[flow]))
        BY <1>2, <2>4, <3>2, <3>3, TilesOfTheNext
      <4> QED BY <3>1, <3>3, <4>1, <4>2
    <3>4. CASE g # flow
      <4>1. segmented'[g] = segmented[g]
        BY <1>1, <1>2, <3>4
      <4> QED BY <2>4, <3>1, <3>2, <3>4, <4>1, TilesOfOther
    <3> QED BY <3>3, <3>4
  <2> QED BY <1>1, <2>1, <2>4, <2>5, OrderAfterAPacket
<1> QED BY <1>4, <1>5, <1>6

\* A packet that was captured is captured again.
LEMMA RetransmitKeepsOrder ==
  ASSUME CaptureInv, Dialogue, OrderInv, Retransmit
  PROVE  Dialogue' /\ OrderInv'
<1>1. PICK flow \in Flows, length \in SegmentLengths :
        \E from \in 0 .. segmented[flow] - length :
          /\ packets' = Append(packets, Segment(flow, from, length))
          /\ troubled' = (troubled \/ Segment(flow, from, length) \notin ToSet(packets))
          /\ UNCHANGED <<first, messages, segmented, owed>>
  BY DEF Retransmit
<1>2. PICK from \in 0 .. segmented[flow] - length :
        /\ packets' = Append(packets, Segment(flow, from, length))
        /\ troubled' = (troubled \/ Segment(flow, from, length) \notin ToSet(packets))
        /\ UNCHANGED <<first, messages, segmented, owed>>
  BY <1>1
<1>3. segmented' \in [Flows -> Nat] /\ \A g \in Flows : segmented[g] <= segmented'[g]
  BY <1>2 DEF CaptureInv, CaptureTypes
<1>4. Dialogue'
  BY <1>2, <1>3, SendingKeepsDialogue
<1> SUFFICES ASSUME Clean' PROVE OrderInv'
  BY <1>4 DEF OrderInv
<1>5. Clean
  BY <1>2, <1>3, CleanStays
<1> DEFINE p == Segment(flow, from, length)
<1>6. p \in ToSet(packets)
  BY <1>2 DEF Clean
<1> HIDE DEF p
<1>7. packets \in Seq(Packets) /\ Len(packets) \in Nat /\ DOMAIN packets = 1 .. Len(packets)
  BY LenProperties DEF CaptureInv, CaptureTypes
<1>8. PICK i \in 1 .. Len(packets) : p = packets[i]
  BY <1>6, <1>7 DEF ToSet
<1>9. p \in Packets
  BY <1>7, <1>8, ElementOfSeq
<1>10. Captures(packets, packets', p)
  <2>1. packets' = Append(packets, p)
    BY <1>2 DEF p
  <2> QED BY <1>7, <1>9, <2>1, AppendProperties DEF Captures
<1>11. ASSUME NEW g \in Flows PROVE Tiled(g)'
  <2>1. Tiled(g)' <=> Tiles(packets', g, first[g], segmented[g], Entire(g, messages[g]))
    <3>1. first'[g] = first[g] /\ messages'[g] = messages[g] /\ segmented'[g] = segmented[g]
      BY <1>2
    <3> QED BY <3>1 DEF Tiled
  <2>2. Tiles(packets, g, first[g], segmented[g], Entire(g, messages[g]))
    BY <1>5 DEF OrderInv, Tiled
  <2> QED BY <1>8, <1>10, <2>1, <2>2, TilesOfARepetition
<1> QED BY <1>2, <1>5, <1>10, <1>11, OrderAfterAPacket

LEMMA InitOrder == CaptureInit => Dialogue /\ OrderInv
<1> SUFFICES ASSUME CaptureInit PROVE Dialogue /\ OrderInv
  OBVIOUS
<1>1. /\ messages = [flow \in Flows |-> <<>>] /\ segmented = [flow \in Flows |-> 0]
      /\ packets = <<>> /\ owed = {} /\ CaptureInv
  BY InitCaptureInv DEF CaptureInit, EthInit
<1>2. Len(<<>>) = 0 /\ Len(packets) = 0 /\ 1 .. 0 = {}
  BY <1>1, EmptySeq
<1>3. Answers = <<>> /\ Asks = <<>>
  BY <1>1 DEF Answers, Asks, Flows
<1>4. Dialogue
  BY <1>1, <1>2, <1>3 DEF Dialogue
<1>5. ASSUME NEW g \in Flows PROVE Tiled(g)
  <2>1. first[g] \in Nat /\ segmented[g] = 0
    BY <1>1 DEF CaptureInv, CaptureTypes
  <2>2. OfFlow(packets, g) = {}
    BY <1>2 DEF OfFlow
  <2> DEFINE f == first[g]
  <2> HIDE DEF f
  <2>3. f \in Nat => f .. f + 0 - 1 = {}
    OBVIOUS
  <2> QED BY <2>1, <2>2, <2>3 DEF Tiled, Tiles, f
<1>6. OrderInv
  BY <1>2, <1>3, <1>5 DEF OrderInv
<1> QED BY <1>4, <1>6

LEMMA NextOrder ==
  ASSUME CaptureInv, Dialogue, OrderInv, [CaptureNext]_<<kind, canVars, ethVars>>
  PROVE  Dialogue' /\ OrderInv'
<1>1. CASE EthStep
  <2>1. EthNext
    BY <1>1 DEF EthStep
  <2> QED BY <2>1, WritingKeepsOrder, SendSegmentKeepsOrder, RetransmitKeepsOrder DEF EthNext
<1>2. CASE UNCHANGED ethVars
  <2>1. UNCHANGED <<first, messages, segmented, packets, owed, troubled>>
    BY <1>2 DEF ethVars
  <2>2. Answers' = Answers /\ Asks' = Asks
    BY <2>1 DEF Answers, Asks
  <2>3. Dialogue'
    BY <2>1, <2>2 DEF Dialogue, To, IsDue, IsFinal, IsAnswer, Got
  <2>4. Clean' <=> Clean
    BY <2>1 DEF Clean, Wraps
  <2>5. \A g : Tiled(g)' <=> Tiled(g)
    BY <2>1 DEF Tiled
  <2>6. \A m : InPlace(m)' <=> InPlace(m)
    BY <2>1, <2>2 DEF InPlace, HeaderNumber, To
  <2>7. OrderInv'
    BY <2>2, <2>4, <2>5, <2>6 DEF OrderInv, To
  <2> QED BY <2>3, <2>7
<1>3. CASE CanStep
  BY <1>2, <1>3 DEF CanStep
<1> QED BY <1>1, <1>2, <1>3 DEF CaptureNext

\* From a capture that lacks nothing and in which no sequence number wraps,
\* every ECU that answered is learned, with what it answered and no more, although
\* each direction of the connection is put together by itself and then sorted in:
\* the exchanges of the ECUs interleave again as they did.
THEOREM ExchangesAreRestored == CaptureSpec => []InterleavingIsRestored
<1> DEFINE Inv == CaptureInv /\ Dialogue /\ OrderInv
<1>1. CaptureInit => Inv
  BY InitCaptureInv, InitOrder
<1>2. Inv /\ [CaptureNext]_<<kind, canVars, ethVars>> => Inv'
  BY NextCaptureInv, NextOrder
<1>3. Inv => InterleavingIsRestored
  BY InterleavingHolds
<1> QED BY <1>1, <1>2, <1>3, PTL DEF CaptureSpec

=============================================================================
