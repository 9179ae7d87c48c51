---------------------------- MODULE FrameProofs ----------------------------
(***************************************************************************)
(* Proofs about Frame, for frames with any contents and any number of      *)
(* words: where encodeFrame puts them and decodeFrame looks for them, and  *)
(* what the CRC tells.  calculateCRC is a recursive function; it is shown  *)
(* to have a value and then unfolded byte by byte.                         *)
(***************************************************************************)
EXTENDS Frame, SequenceTheorems, WellFoundedInduction, TLAPS

-----------------------------------------------------------------------------
(* The layout of an encoded frame.                                         *)

\* s \o t has the elements of s at its first places and those of t after them.
IsJoined(s, t, S) ==
    /\ s \o t \in Seq(S)
    /\ Len(s \o t) = Len(s) + Len(t)
    /\ \A i \in 1 .. Len(s) : (s \o t)[i] = s[i]
    /\ \A i \in 1 .. Len(t) : (s \o t)[Len(s) + i] = t[i]

\* Two sequences one after the other, place by place.
LEMMA Joined == \A S : \A s, t \in Seq(S) : IsJoined(s, t, S)
BY ConcatProperties, LenProperties DEF IsJoined

\* The high half of a 16-bit number.
LEMMA HighHalf ==
    ASSUME NEW w \in Nat, w < 65536
    PROVE  w \div 256 \in Nat /\ w \div 256 <= 255
OBVIOUS

\* The low half of a 16-bit number.
LEMMA LowHalf ==
    ASSUME NEW w \in Nat, w < 65536
    PROVE  w % 256 \in Nat /\ w % 256 <= 255
OBVIOUS

\* The two halves of a word are bytes.
LEMMA HalvesOfWord ==
    \A w \in Word : /\ w \div 256 \in Nat /\ w % 256 \in Nat
                    /\ w \div 256 \in Byte /\ w % 256 \in Byte
<1>1. MaxByte \in Nat /\ MaxByte >= 255 /\ MaxWord \in Nat /\ MaxWord < 65536
  BY DEF MaxByte, MaxWord
<1> QED BY <1>1, HighHalf, LowHalf DEF Word, Byte

\* The bytes that encodeFrame makes of the data: two for each word.
LEMMA DataLayout ==
    ASSUME NEW words \in Seq(Word)
    PROVE  /\ DataBytes(words) \in Seq(Nat)
           /\ Len(DataBytes(words)) = 2 * Len(words)
           /\ \A i \in 1 .. Len(words) :
                /\ DataBytes(words)[2 * i - 1] = words[i] \div 256
                /\ DataBytes(words)[2 * i] = words[i] % 256
<1>1. PICK n \in Nat : n = Len(words)
  BY LenProperties
<1>2. \A i \in 1 .. n : words[i] \in Word
  BY <1>1, ElementOfSeq
<1>3. \A i \in 1 .. n : words[i] \div 256 \in Nat /\ words[i] % 256 \in Nat
  BY <1>2, HalvesOfWord
<1>4. ASSUME NEW k \in 1 .. 2 * n
      PROVE  /\ k % 2 = 1 => (k + 1) \div 2 \in 1 .. n
             /\ k % 2 # 1 => k \div 2 \in 1 .. n
  BY Z3
<1>5. DataBytes(words) = [k \in 1 .. 2 * n |->
        IF k % 2 = 1 THEN words[(k + 1) \div 2] \div 256 ELSE words[k \div 2] % 256]
  BY <1>1 DEF DataBytes
<1>6. DataBytes(words) \in [1 .. 2 * n -> Nat]
  BY <1>3, <1>4, <1>5
<1>7. DataBytes(words) \in Seq(Nat) /\ Len(DataBytes(words)) = 2 * n
  BY <1>6
<1>8. ASSUME NEW i \in 1 .. n
      PROVE  /\ DataBytes(words)[2 * i - 1] = words[i] \div 256
             /\ DataBytes(words)[2 * i] = words[i] % 256
  <2>1. /\ 2 * i - 1 \in 1 .. 2 * n /\ 2 * i \in 1 .. 2 * n
        /\ (2 * i - 1) % 2 = 1 /\ (2 * i) % 2 # 1
        /\ ((2 * i - 1) + 1) \div 2 = i /\ (2 * i) \div 2 = i
    OBVIOUS
  <2> QED BY <2>1, <1>5
<1> QED BY <1>1, <1>7, <1>8

\* The places of an encoded frame at which decodeFrame looks.
LEMMA Layout ==
    ASSUME NEW f \in FrameType
    PROVE  LET b == encodeFrame(f)
               n == Len(f.data)
           IN  /\ n \in Nat
               /\ Len(b) = 2 * n + 10
               /\ b[1] = f.registerAddress
               /\ \A i \in 1 .. n :
                    b[2 * i + 4] = f.data[i] \div 256 /\ b[2 * i + 5] = f.data[i] % 256
               /\ b[2 * n + 7] = f.cnt
               /\ b[2 * n + 8] = Flag(f.completion)
                                  + 2 * Flag(f.completionWithConditional)
<1> DEFINE n == Len(f.data)
           crc == calculateCRC(Body(f))
           S == Nat \cup {crc \div 256, crc % 256}
           head == <<f.registerAddress, f.lengthCode, f.chipAddress>>
           engine == TwoBytes(f.engineAddress)
           data == DataBytes(f.data)
           flags == Flag(f.completion) + 2 * Flag(f.completionWithConditional)
           foot == <<GeneralByte(f), f.cnt, flags>>
           sum == TwoBytes(crc)
<1>1. encodeFrame(f) = ((((head \o engine) \o data) \o foot) \o sum)
  BY DEF encodeFrame, Body
<1>2. head \in Seq(S) /\ Len(head) = 3 /\ head[1] = f.registerAddress
  BY DEF FrameType, Byte
<1>3. engine \in Seq(S) /\ Len(engine) = 2
  BY HalvesOfWord DEF FrameType, TwoBytes
<1>4. /\ f.data \in Seq(Word)
      /\ n \in Nat
      /\ data \in Seq(S)
      /\ Len(data) = 2 * n
      /\ \A i \in 1 .. n : /\ data[2 * i - 1] = f.data[i] \div 256
                           /\ data[2 * i] = f.data[i] % 256
  <2>1. f.data \in Seq(Word)
    BY DEF FrameType
  <2>2. data \in Seq(Nat) /\ Nat \subseteq S
    BY <2>1, DataLayout
  <2>3. data \in Seq(S)
    BY <2>2, SeqMonotonic
  <2> QED BY <2>1, <2>3, DataLayout, LenProperties
<1>5. foot \in Seq(S) /\ Len(foot) = 3 /\ foot[2] = f.cnt /\ foot[3] = flags
  BY DEF FrameType, Byte, Flag, GeneralByte
<1>6. sum \in Seq(S) /\ Len(sum) = 2
  BY DEF TwoBytes
<1> HIDE DEF S, head, engine, data, foot, sum, flags, n
<1>7. /\ head \o engine \in Seq(S)
      /\ Len(head \o engine) = 5
      /\ (head \o engine)[1] = f.registerAddress
  <2>1. IsJoined(head, engine, S)
    BY <1>2, <1>3, Joined
  <2> QED BY <2>1, <1>2, <1>3 DEF IsJoined
<1> DEFINE front == (head \o engine) \o data
<1>8. /\ front \in Seq(S)
      /\ Len(front) = 5 + 2 * n
      /\ front[1] = f.registerAddress
      /\ \A k \in 1 .. 2 * n : front[5 + k] = data[k]
  <2>1. IsJoined(head \o engine, data, S)
    BY <1>4, <1>7, Joined
  <2>2. /\ front \in Seq(S)
        /\ Len(front) = 5 + 2 * n
    BY <2>1, <1>4, <1>7 DEF IsJoined
  <2>3. \A k \in 1 .. 2 * n : front[5 + k] = data[k]
    BY <2>1, <1>4, <1>7 DEF IsJoined
  <2>4. 1 \in 1 .. Len(head \o engine)
    BY <1>7
  <2>5. front[1] = (head \o engine)[1]
    BY <2>1, <2>4, Zenon DEF IsJoined
  <2> QED BY <2>2, <2>3, <2>5, <1>7
<1> DEFINE body == front \o foot
<1> HIDE DEF front
<1>9. /\ body \in Seq(S)
      /\ Len(body) = 8 + 2 * n
      /\ body[1] = f.registerAddress
      /\ \A k \in 1 .. 2 * n : body[5 + k] = data[k]
      /\ body[7 + 2 * n] = f.cnt
      /\ body[8 + 2 * n] = flags
  <2>0. IsJoined(front, foot, S)
    BY <1>5, <1>8, Joined
  <2>1. \A i \in 1 .. 5 + 2 * n : body[i] = front[i]
    BY <2>0, <1>8 DEF IsJoined
  <2>2. \A i \in 1 .. 3 : body[5 + 2 * n + i] = foot[i]
    BY <2>0, <1>5, <1>8 DEF IsJoined
  <2>3. body \in Seq(S) /\ Len(body) = 8 + 2 * n
    BY <2>0, <1>4, <1>5, <1>8 DEF IsJoined
  <2>4. body[1] = f.registerAddress /\ \A k \in 1 .. 2 * n : body[5 + k] = data[k]
    BY <2>1, <1>4, <1>8
  <2> HIDE DEF body
  <2>5. body[5 + 2 * n + 2] = foot[2] /\ body[5 + 2 * n + 3] = foot[3]
    BY <2>2
  <2> QED BY <2>3, <2>4, <2>5, <1>4, <1>5
<1> HIDE DEF body
<1>10. /\ Len(body \o sum) = 10 + 2 * n
       /\ \A i \in 1 .. 8 + 2 * n : (body \o sum)[i] = body[i]
  <2>1. IsJoined(body, sum, S)
    BY <1>6, <1>9, Joined
  <2> QED BY <2>1, <1>4, <1>6, <1>9 DEF IsJoined
<1>11. encodeFrame(f) = body \o sum
  BY <1>1 DEF body, front
<1>12. ASSUME NEW i \in 1 .. n
       PROVE  /\ encodeFrame(f)[2 * i + 4] = f.data[i] \div 256
              /\ encodeFrame(f)[2 * i + 5] = f.data[i] % 256
  <2>1. 2 * i - 1 \in 1 .. 2 * n /\ 2 * i \in 1 .. 2 * n
    BY <1>4
  <2>2. body[5 + (2 * i - 1)] = f.data[i] \div 256 /\ body[5 + 2 * i] = f.data[i] % 256
    BY <2>1, <1>4, <1>9
  <2> QED BY <2>1, <2>2, <1>4, <1>10, <1>11
<1>13. /\ encodeFrame(f)[1] = f.registerAddress
       /\ encodeFrame(f)[2 * n + 7] = f.cnt
       /\ encodeFrame(f)[2 * n + 8] = flags
  BY <1>4, <1>9, <1>10, <1>11
<1>14. Len(encodeFrame(f)) = 2 * n + 10
  BY <1>4, <1>10, <1>11
<1> QED BY <1>4, <1>12, <1>13, <1>14 DEF n, flags

-----------------------------------------------------------------------------
(* Numbers, and functions that are computed step by step.                  *)

\* Induction over the natural numbers.
LEMMA Induction ==
    ASSUME NEW S \in SUBSET Nat, 0 \in S, \A n \in S : n + 1 \in S
    PROVE  S = Nat
<1> DEFINE R == {ss \in Nat \X Nat : ss[1] < ss[2]}
           T == Nat \ S
<1> SUFFICES ASSUME T # {} PROVE FALSE
  OBVIOUS
<1>1. T \in SUBSET Nat
  OBVIOUS
<1>2. OpToRel(<, Nat) = R
  BY Zenon DEF OpToRel
<1>0. \A x, y \in Nat : ~(<<y, x>> \in R) => x <= y
  OBVIOUS
<1> HIDE DEF T, R
<1>3. \E x \in T : \A y \in T : ~(<<y, x>> \in OpToRel(<, Nat))
  BY <1>1, NatLessThanWellFounded, WFMin, Zenon
<1>4. PICK m \in T : \A y \in T : ~(<<y, m>> \in R)
  BY <1>2, <1>3, Zenon
<1>5. \A y \in T : m <= y
  BY <1>0, <1>1, <1>4, Zenon
<1>6. m \in Nat /\ m \notin S
  BY DEF T
<1>7. m # 0
  BY <1>6
<1>8. m - 1 \in Nat /\ (m - 1) + 1 = m
  BY <1>6, <1>7
<1>9. m - 1 \in S
  <2>1. ~(m <= m - 1)
    BY <1>6
  <2> QED BY <1>5, <1>8, <2>1 DEF T
<1> QED BY <1>6, <1>8, <1>9

\* F[i] is applied at step i to what the step before it left, b at first.
Stepped(b, F, g, i) == IF i = 0 THEN b ELSE F[i][g[i - 1]]

\* A function that is defined in this way has a value.
LEMMA StepsExist ==
    ASSUME NEW b, NEW F, NEW n \in Nat
    PROVE  \E g : g = [i \in 0 .. n |-> Stepped(b, F, g, i)]
<1> DEFINE Upto(k, g) == /\ g = [i \in 0 .. n |-> g[i]]
                         /\ \A i \in 0 .. n : i <= k => g[i] = Stepped(b, F, g, i)
           S == {k \in Nat : \E g : Upto(k, g)}
<1>1. 0 \in S
  <2> DEFINE g == [i \in 0 .. n |-> b]
  <2>1. g = [i \in 0 .. n |-> g[i]] /\ \A i \in 0 .. n : g[i] = b
    OBVIOUS
  <2> HIDE DEF g
  <2>2. \A i \in 0 .. n : i <= 0 => g[i] = Stepped(b, F, g, i)
    BY <2>1 DEF Stepped
  <2>3. Upto(0, g)
    BY <2>1, <2>2
  <2> QED BY <2>3
<1>2. ASSUME NEW k \in S PROVE k + 1 \in S
  <2>1. PICK g : Upto(k, g)
    OBVIOUS
  <2> DEFINE h == [i \in 0 .. n |-> IF i = k + 1 THEN Stepped(b, F, g, k + 1) ELSE g[i]]
  <2>2. h = [i \in 0 .. n |-> h[i]]
    OBVIOUS
  <2>3. \A i \in 0 .. n : h[i] = IF i = k + 1 THEN Stepped(b, F, g, k + 1) ELSE g[i]
    OBVIOUS
  <2> HIDE DEF h
  <2>4. ASSUME NEW i \in 0 .. n, i <= k + 1 PROVE h[i] = Stepped(b, F, h, i)
    <3>1. i # 0 => i - 1 \in 0 .. n /\ i - 1 # k + 1
      BY <2>4
    <3>2. i # 0 => h[i - 1] = g[i - 1]
      BY <2>3, <3>1
    <3>3. Stepped(b, F, h, i) = Stepped(b, F, g, i)
      BY <3>2, Zenon DEF Stepped
    <3>4. CASE i = k + 1
      BY <2>3, <3>3, <3>4
    <3>5. CASE i # k + 1
      <4>1. i <= k
        BY <2>4, <3>5
      <4>2. g[i] = Stepped(b, F, g, i)
        BY <2>1, <4>1
      <4> QED BY <2>3, <3>3, <3>5, <4>2
    <3> QED BY <3>4, <3>5
  <2>5. Upto(k + 1, h)
    BY <2>2, <2>4
  <2> QED BY <2>5
<1> HIDE DEF Upto
<1>3. S = Nat
  BY <1>1, <1>2, Induction
<1>4. PICK g : Upto(n, g)
  BY <1>3
<1>5. \A i \in 0 .. n : g[i] = Stepped(b, F, g, i)
  BY <1>4 DEF Upto
<1>6. g = [i \in 0 .. n |-> Stepped(b, F, g, i)]
  BY <1>4, <1>5 DEF Upto
<1> QED BY <1>6

-----------------------------------------------------------------------------
(* A shift of the register.                                                *)

\* uint16_t
LEMMA WordIs == \A n : n \in Word <=> n \in Nat /\ n < 65536
<1>1. MaxWord \in Nat /\ (\A n \in Nat : n <= MaxWord <=> n < 65536)
  BY DEF MaxWord
<1> QED BY <1>1 DEF Word

\* The top bit of a word.
LEMMA Bit15 ==
    ASSUME NEW n \in Nat, n < 65536
    PROVE  Bit(n, 15) = IF n < 32768 THEN 0 ELSE 1
<1>1. 2^15 = 32768
  OBVIOUS
<1>2. CASE n < 32768
  <2>1. n \div 32768 = 0
    BY <1>2
  <2> QED BY <1>1, <1>2, <2>1 DEF Bit
<1>3. CASE ~(n < 32768)
  <2>1. n \div 32768 = 1
    BY <1>3
  <2> QED BY <1>1, <1>3, <2>1 DEF Bit
<1> QED BY <1>2, <1>3

\* Changing the bits of the polynomial: the top bit,
LEMMA Toggle15 ==
    ASSUME NEW n \in Nat, n < 65536
    PROVE  Toggle(n, 15) = IF n < 32768 THEN n + 32768 ELSE n - 32768
<1>1. 2^15 = 32768
  OBVIOUS
<1> QED BY <1>1, Bit15 DEF Toggle

\* the third,
LEMMA Toggle2 ==
    ASSUME NEW p \in Nat, p < 8192, NEW b \in 0 .. 1, NEW h \in 0 .. 1,
           NEW n, n = 8 * p + 4 * b + 2 * h
    PROVE  Toggle(n, 2) = 8 * p + 4 * (1 - b) + 2 * h
<1>1. 2^2 = 4
  OBVIOUS
<1>2. n = 4 * (2 * p + b) + 2 * h /\ n \in Int
  OBVIOUS
<1>3. n \div 4 = 2 * p + b
  BY <1>2
<1>4. (2 * p + b) % 2 = b
  OBVIOUS
<1>5. Bit(n, 2) = b
  BY <1>1, <1>3, <1>4 DEF Bit
<1>6. CASE b = 1
  <2>1. Toggle(n, 2) = n - 4
    BY <1>1, <1>5, <1>6 DEF Toggle
  <2> QED BY <2>1, <1>6
<1>7. CASE b = 0
  <2>1. Toggle(n, 2) = n + 4
    BY <1>1, <1>5, <1>7 DEF Toggle
  <2> QED BY <2>1, <1>7
<1> QED BY <1>6, <1>7

\* and the lowest.
LEMMA Toggle0 ==
    ASSUME NEW m \in Nat, m < 32768
    PROVE  Toggle(2 * m, 0) = 2 * m + 1
<1>1. 2^0 = 1
  OBVIOUS
<1>2. (2 * m) \div 1 = 2 * m /\ (2 * m) % 2 = 0
  OBVIOUS
<1> QED BY <1>1, <1>2 DEF Toggle, Bit

\* p with its top bit changed, which is the thirteenth.
Flipped(p) == IF p < 4096 THEN p + 4096 ELSE p - 4096

\* What ^ polynomial makes of n, whose bits are those of p, b, h and a zero.
ToggledIs(n, p, b, h) ==
    /\ XorPolynomial(n) = 8 * Flipped(p) + 4 * (1 - b) + 2 * h + 1
    /\ Flipped(p) \in Nat /\ Flipped(p) < 8192

\* ^ polynomial, for a number without its lowest bit.
LEMMA PolynomialIs ==
    ASSUME NEW p \in Nat, p < 8192, NEW b \in 0 .. 1, NEW h \in 0 .. 1,
           NEW n, n = 8 * p + 4 * b + 2 * h
    PROVE  ToggledIs(n, p, b, h)
<1> DEFINE q == Flipped(p)
<1>1. n \in Nat /\ n < 65536 /\ (n < 32768 <=> p < 4096)
  OBVIOUS
<1>2. q \in Nat /\ q < 8192 /\ (p < 4096 => q = p + 4096) /\ (~(p < 4096) => q = p - 4096)
  BY DEF Flipped
<1>3. n = 8 * p + 4 * b + 2 * h
  OBVIOUS
<1> HIDE DEF q
<1>4. Toggle(n, 15) = IF n < 32768 THEN n + 32768 ELSE n - 32768
  BY <1>1, Toggle15
<1>5. Toggle(n, 15) = 8 * q + 4 * b + 2 * h
  <2>1. CASE p < 4096
    BY <1>1, <1>2, <1>3, <1>4, <2>1
  <2>2. CASE ~(p < 4096)
    BY <1>1, <1>2, <1>3, <1>4, <2>2
  <2> QED BY <2>1, <2>2
<1>6. Toggle(Toggle(n, 15), 2) = 8 * q + 4 * (1 - b) + 2 * h
  BY <1>2, <1>5, Toggle2
<1> DEFINE m == 4 * q + 2 * (1 - b) + h
<1>7. m \in Nat /\ m < 32768 /\ 8 * q + 4 * (1 - b) + 2 * h = 2 * m
  BY <1>2
<1>8. Toggle(2 * m, 0) = 2 * m + 1
  BY <1>7, Toggle0
<1>9. Toggle(Toggle(Toggle(n, 15), 2), 0) = 2 * m + 1
  BY <1>6, <1>7, <1>8
<1>10. XorPolynomial(n) = 8 * q + 4 * (1 - b) + 2 * h + 1
  BY <1>7, <1>9 DEF XorPolynomial
<1> QED BY <1>2, <1>10 DEF q, ToggledIs

\* m has the bits of p, b and h.
Splits(m) == \E p \in Nat, b \in 0 .. 1, h \in 0 .. 1 : p < 8192 /\ m = 4 * p + 2 * b + h

\* A number below 2^15, split at its lowest bits.
LEMMA Split ==
    ASSUME NEW m \in Nat, m < 32768
    PROVE  Splits(m)
<1> DEFINE p == m \div 4
           r == m % 4
<1>1. m = 4 * p + r /\ r \in 0 .. 3 /\ p \in Nat /\ p < 8192
  OBVIOUS
<1> HIDE DEF p, r
<1>2. CASE r = 0
  <2>1. m = 4 * p + 2 * 0 + 0
    BY <1>1, <1>2
  <2> QED BY <1>1, <2>1 DEF Splits
<1>3. CASE r = 1
  <2>1. m = 4 * p + 2 * 0 + 1
    BY <1>1, <1>3
  <2> QED BY <1>1, <2>1 DEF Splits
<1>4. CASE r = 2
  <2>1. m = 4 * p + 2 * 1 + 0
    BY <1>1, <1>4
  <2> QED BY <1>1, <2>1 DEF Splits
<1>5. CASE r = 3
  <2>1. m = 4 * p + 2 * 1 + 1
    BY <1>1, <1>5
  <2> QED BY <1>1, <2>1 DEF Splits
<1> QED BY <1>1, <1>2, <1>3, <1>4, <1>5

\* Words without and with the top bit, and what a shift makes of the latter.
IsLow(c) == c \in Nat /\ c < 32768

IsHigh(c, p, b, h) ==
    /\ p \in Nat /\ p < 8192 /\ b \in {0, 1} /\ h \in {0, 1}
    /\ c = 32768 + 4 * p + 2 * b + h

ShiftedHigh(c, p, b, h) ==
    /\ Shift[c] = 8 * Flipped(p) + 4 * (1 - b) + 2 * h + 1
    /\ Flipped(p) \in Nat /\ Flipped(p) < 8192

\* One shift: without the top bit the number is doubled,
LEMMA ShiftLow ==
    ASSUME NEW c, IsLow(c)
    PROVE  Shift[c] = 2 * c
<1>1. c \in Word /\ c \in Nat /\ c < 65536 /\ c < 32768
  BY WordIs DEF IsLow
<1>2. Bit(c, 15) = 0
  BY <1>1, Bit15
<1> QED BY <1>1, <1>2 DEF Shift

\* with it the result is odd and tells what was there.
LEMMA ShiftHigh ==
    ASSUME NEW c, NEW p, NEW b, NEW h, IsHigh(c, p, b, h)
    PROVE  ShiftedHigh(c, p, b, h)
<1> DEFINE m == 4 * p + 2 * b + h
           n == 2 * m
<1>1. /\ p \in Nat /\ p < 8192 /\ b \in 0 .. 1 /\ h \in 0 .. 1
      /\ m \in Nat /\ m < 32768 /\ c = 32768 + m
  BY DEF IsHigh
<1>2. n = 8 * p + 4 * b + 2 * h
  BY <1>1
<1> HIDE DEF m
<1>3. c \in Nat /\ c < 65536 /\ ~(c < 32768) /\ 2 * c = 65536 + n /\ n \in Nat /\ n < 65536
  BY <1>1
<1> HIDE DEF n
<1>4. c \in Word
  BY <1>3, WordIs
<1>5. (2 * c) % 65536 = n
  BY <1>3
<1>6. Bit(c, 15) = 1
  BY <1>3, Bit15
<1>7. Shift[c] = XorPolynomial(n)
  BY <1>4, <1>5, <1>6 DEF Shift
<1>8. ToggledIs(n, p, b, h)
  BY <1>1, <1>2, PolynomialIs
<1> QED BY <1>7, <1>8 DEF ToggledIs, ShiftedHigh

\* Every word is one or the other.
LEMMA LowOrHigh ==
    ASSUME NEW c \in Word
    PROVE  IsLow(c) \/ \E p, b, h : IsHigh(c, p, b, h)
<1>1. c \in Nat /\ c < 65536
  BY WordIs
<1>2. CASE c >= 32768
  <2> DEFINE m == c - 32768
  <2>1. m \in Nat /\ m < 32768 /\ c = 32768 + m
    BY <1>1, <1>2
  <2> HIDE DEF m
  <2>2. Splits(m)
    BY <2>1, Split
  <2>3. PICK p \in Nat, b \in 0 .. 1, h \in 0 .. 1 : p < 8192 /\ m = 4 * p + 2 * b + h
    BY <2>2 DEF Splits
  <2>4. IsHigh(c, p, b, h)
    BY <2>1, <2>3 DEF IsHigh
  <2> QED BY <2>4
<1>3. CASE ~(c >= 32768)
  BY <1>1, <1>3 DEF IsLow
<1> QED BY <1>2, <1>3

\* A shift of a word is a word,
LEMMA ShiftWord == \A c \in Word : Shift[c] \in Word
<1> SUFFICES ASSUME NEW c \in Word PROVE Shift[c] \in Nat /\ Shift[c] < 65536
  BY WordIs
<1>1. CASE IsLow(c)
  <2>1. Shift[c] = 2 * c
    BY <1>1, ShiftLow
  <2> QED BY <1>1, <2>1 DEF IsLow
<1>2. ASSUME NEW p, NEW b, NEW h, IsHigh(c, p, b, h)
      PROVE  Shift[c] \in Nat /\ Shift[c] < 65536
  <2> DEFINE q == Flipped(p)
  <2>1. Shift[c] = 8 * q + 4 * (1 - b) + 2 * h + 1 /\ q \in Nat /\ q < 8192
    BY <1>2, ShiftHigh DEF ShiftedHigh
  <2>2. b \in {0, 1} /\ h \in {0, 1}
    BY <1>2 DEF IsHigh
  <2> HIDE DEF q
  <2> QED BY <2>1, <2>2
<1> QED BY <1>1, <1>2, LowOrHigh

\* and two words stay two: one with the top bit and one without it,
LEMMA LowIsNotHigh ==
    ASSUME NEW c, IsLow(c), NEW d, NEW p, NEW b, NEW h, IsHigh(d, p, b, h)
    PROVE  Shift[c] # Shift[d]
<1> DEFINE q == Flipped(p)
<1>1. Shift[c] = 2 * c /\ c \in Nat
  BY ShiftLow DEF IsLow
<1>2. ShiftedHigh(d, p, b, h)
  BY ShiftHigh
<1>3. /\ Shift[d] = 8 * q + 4 * (1 - b) + 2 * h + 1 /\ q \in Nat
      /\ b \in {0, 1} /\ h \in {0, 1}
  BY <1>2 DEF ShiftedHigh, IsHigh
<1> HIDE DEF q
<1>4. 2 * c # 8 * q + 4 * (1 - b) + 2 * h + 1
  BY <1>1, <1>3
<1> QED BY <1>1, <1>3, <1>4

\* two with it,
LEMMA HighIsHigh ==
    ASSUME NEW c, NEW p, NEW b, NEW h, IsHigh(c, p, b, h),
           NEW d, NEW p2, NEW b2, NEW h2, IsHigh(d, p2, b2, h2), Shift[c] = Shift[d]
    PROVE  c = d
<1>1. /\ p \in Nat /\ p < 8192 /\ b \in {0, 1} /\ h \in {0, 1}
      /\ p2 \in Nat /\ p2 < 8192 /\ b2 \in {0, 1} /\ h2 \in {0, 1}
  BY DEF IsHigh
<1>2. ShiftedHigh(c, p, b, h)
  BY ShiftHigh
<1>3. PICK q \in Nat : q = Flipped(p) /\ Shift[c] = 8 * q + 4 * (1 - b) + 2 * h + 1
  BY <1>2 DEF ShiftedHigh
<1>4. PICK q2 \in Nat : q2 = Flipped(p2) /\ Shift[d] = 8 * q2 + 4 * (1 - b2) + 2 * h2 + 1
  <2>1. ShiftedHigh(d, p2, b2, h2)
    BY ShiftHigh
  <2> QED BY <2>1 DEF ShiftedHigh
<1>5. q = q2 => p = p2
  BY <1>1, <1>3, <1>4 DEF Flipped
<1>6. 8 * q + 4 * (1 - b) + 2 * h + 1 = 8 * q2 + 4 * (1 - b2) + 2 * h2 + 1
  BY <1>3, <1>4, Zenon
<1>7. q = q2 /\ b = b2 /\ h = h2
  BY <1>1, <1>6
<1> QED BY <1>5, <1>7 DEF IsHigh

\* and any two: no information gets lost.
LEMMA ShiftInjective == \A c, d \in Word : Shift[c] = Shift[d] => c = d
<1> SUFFICES ASSUME NEW c \in Word, NEW d \in Word, Shift[c] = Shift[d] PROVE c = d
  OBVIOUS
<1>1. CASE IsLow(c) /\ IsLow(d)
  <2>1. Shift[c] = 2 * c /\ Shift[d] = 2 * d /\ c \in Nat /\ d \in Nat
    BY <1>1, ShiftLow DEF IsLow
  <2>2. 2 * c = 2 * d
    BY <2>1
  <2> QED BY <2>1, <2>2
<1>2. CASE ~(IsLow(c) /\ IsLow(d))
  BY <1>2, LowOrHigh, LowIsNotHigh, HighIsHigh, Zenon
<1> QED BY <1>1, <1>2

-----------------------------------------------------------------------------
(* Bytes and their bits.                                                   *)

\* uint8_t
LEMMA ByteIs == \A n : n \in Byte <=> n \in Nat /\ n < 256
<1>1. MaxByte \in Nat /\ (\A n \in Nat : n <= MaxByte <=> n < 256)
  BY DEF MaxByte
<1> QED BY <1>1 DEF Byte

\* Eight bits, the byte they make, the bits of a byte, and ^ of bits.
Octets == [0 .. 7 -> {0, 1}]
Octet(f) == f[0] + 2 * f[1] + 4 * f[2] + 8 * f[3]
            + 16 * f[4] + 32 * f[5] + 64 * f[6] + 128 * f[7]
Bits(x) == [i \in 0 .. 7 |-> Bit(x, i)]
Plus(f, g) == [i \in 0 .. 7 |-> (f[i] + g[i]) % 2]

\* Eight bits make a byte,
LEMMA OctetByte ==
    ASSUME NEW f \in Octets
    PROVE  Octet(f) \in Byte
<1>1. /\ f[0] \in {0, 1} /\ f[1] \in {0, 1} /\ f[2] \in {0, 1} /\ f[3] \in {0, 1}
      /\ f[4] \in {0, 1} /\ f[5] \in {0, 1} /\ f[6] \in {0, 1} /\ f[7] \in {0, 1}
  BY DEF Octets
<1>2. Octet(f) \in Nat /\ Octet(f) < 256
  BY <1>1 DEF Octet
<1> QED BY <1>2, ByteIs

\* What four bits make.
Quad(a, b, c, d) == a + 2 * b + 4 * c + 8 * d

\* Four bits can be told from what they add up to,
LEMMA FourBits ==
    ASSUME NEW a \in {0, 1}, NEW b \in {0, 1}, NEW c \in {0, 1}, NEW d \in {0, 1},
           NEW p \in {0, 1}, NEW q \in {0, 1}, NEW r \in {0, 1}, NEW s \in {0, 1},
           Quad(a, b, c, d) = Quad(p, q, r, s)
    PROVE  a = p /\ b = q /\ c = r /\ d = s
BY DEF Quad

\* which is below sixteen,
LEMMA Nibble ==
    ASSUME NEW a \in {0, 1}, NEW b \in {0, 1}, NEW c \in {0, 1}, NEW d \in {0, 1}
    PROVE  Quad(a, b, c, d) \in Nat /\ Quad(a, b, c, d) < 16
BY DEF Quad

\* as can two halves from a byte,
LEMMA Nibbles ==
    ASSUME NEW x \in Nat, NEW y \in Nat, x < 16, y < 16, NEW m \in Nat, NEW n \in Nat,
           x + 16 * m = y + 16 * n
    PROVE  x = y /\ m = n
<1>1. ~(m < n) /\ ~(n < m)
  OBVIOUS
<1>2. m = n
  BY <1>1
<1> QED BY <1>2

\* and so eight bits.
LEMMA OctetInjective ==
    ASSUME NEW f \in Octets, NEW g \in Octets, Octet(f) = Octet(g)
    PROVE  f = g
<1>1. /\ f[0] \in {0, 1} /\ f[1] \in {0, 1} /\ f[2] \in {0, 1} /\ f[3] \in {0, 1}
      /\ f[4] \in {0, 1} /\ f[5] \in {0, 1} /\ f[6] \in {0, 1} /\ f[7] \in {0, 1}
      /\ g[0] \in {0, 1} /\ g[1] \in {0, 1} /\ g[2] \in {0, 1} /\ g[3] \in {0, 1}
      /\ g[4] \in {0, 1} /\ g[5] \in {0, 1} /\ g[6] \in {0, 1} /\ g[7] \in {0, 1}
  BY DEF Octets
<1>2. /\ f[0] = g[0] /\ f[1] = g[1] /\ f[2] = g[2] /\ f[3] = g[3]
      /\ f[4] = g[4] /\ f[5] = g[5] /\ f[6] = g[6] /\ f[7] = g[7]
  <2> DEFINE low(b) == Quad(b[0], b[1], b[2], b[3])
             high(b) == Quad(b[4], b[5], b[6], b[7])
  <2>1. /\ low(f) \in Nat /\ low(f) < 16 /\ low(g) \in Nat /\ low(g) < 16
        /\ high(f) \in Nat /\ high(g) \in Nat
    BY <1>1, Nibble
  <2>2. Octet(f) = low(f) + 16 * high(f) /\ Octet(g) = low(g) + 16 * high(g)
    BY <1>1 DEF Octet, Quad
  <2>3. low(f) = low(g) /\ high(f) = high(g)
    <3> HIDE DEF low, high
    <3>1. low(f) + 16 * high(f) = low(g) + 16 * high(g)
      BY <2>2
    <3> QED BY <2>1, <3>1, Nibbles
  <2>4. f[0] = g[0] /\ f[1] = g[1] /\ f[2] = g[2] /\ f[3] = g[3]
    BY <1>1, <2>3, FourBits
  <2>5. f[4] = g[4] /\ f[5] = g[5] /\ f[6] = g[6] /\ f[7] = g[7]
    BY <1>1, <2>3, FourBits
  <2> QED BY <2>4, <2>5
<1>3. \A i \in 0 .. 7 : f[i] = g[i]
  BY <1>2
<1>4. f = [i \in 0 .. 7 |-> f[i]] /\ g = [i \in 0 .. 7 |-> g[i]]
  BY DEF Octets
<1> QED BY <1>3, <1>4

\* A byte is made of its bits.
LEMMA BitsOctet ==
    ASSUME NEW x \in Byte
    PROVE  Bits(x) \in Octets /\ Octet(Bits(x)) = x
<1>1. x \in Nat /\ x < 256
  BY ByteIs
<1>2. /\ 2^0 = 1 /\ 2^1 = 2 /\ 2^2 = 4 /\ 2^3 = 8
      /\ 2^4 = 16 /\ 2^5 = 32 /\ 2^6 = 64 /\ 2^7 = 128
  OBVIOUS
<1>3. /\ Bits(x)[0] = (x \div 1) % 2 /\ Bits(x)[1] = (x \div 2) % 2
      /\ Bits(x)[2] = (x \div 4) % 2 /\ Bits(x)[3] = (x \div 8) % 2
      /\ Bits(x)[4] = (x \div 16) % 2 /\ Bits(x)[5] = (x \div 32) % 2
      /\ Bits(x)[6] = (x \div 64) % 2 /\ Bits(x)[7] = (x \div 128) % 2
  BY <1>2 DEF Bits, Bit
<1>4. \A y \in Nat : y % 2 \in {0, 1}
  OBVIOUS
<1>5. /\ x \div 1 \in Nat /\ x \div 2 \in Nat /\ x \div 4 \in Nat /\ x \div 8 \in Nat
      /\ x \div 16 \in Nat /\ x \div 32 \in Nat /\ x \div 64 \in Nat /\ x \div 128 \in Nat
  BY <1>1
<1>6. \A i \in 0 .. 7 : Bits(x)[i] \in {0, 1}
  BY <1>3, <1>4, <1>5
<1>7. Bits(x) \in Octets
  BY <1>6 DEF Bits, Octets
<1>8. x = ((x \div 1) % 2) + 2 * ((x \div 2) % 2) + 4 * ((x \div 4) % 2)
          + 8 * ((x \div 8) % 2) + 16 * ((x \div 16) % 2) + 32 * ((x \div 32) % 2)
          + 64 * ((x \div 64) % 2) + 128 * ((x \div 128) % 2)
  BY <1>1
<1> QED BY <1>3, <1>7, <1>8 DEF Octet

\* byte ^ mask, bit by bit.
LEMMA XorIs ==
    ASSUME NEW x \in Byte, NEW y \in Byte
    PROVE  /\ Plus(Bits(x), Bits(y)) \in Octets
           /\ XorByte(x, y) = Octet(Plus(Bits(x), Bits(y)))
<1> DEFINE f == Bits(x)
           g == Bits(y)
           h == Plus(f, g)
<1>1. f \in Octets /\ g \in Octets
  BY BitsOctet
<1>2. \A i \in 0 .. 7 : f[i] = Bit(x, i) /\ g[i] = Bit(y, i)
  BY DEF Bits
<1>3. \A i \in 0 .. 7 : h[i] = (Bit(x, i) + Bit(y, i)) % 2
  BY <1>2 DEF Plus
<1>4. h \in Octets
  <2>1. \A i \in 0 .. 7 : f[i] \in {0, 1} /\ g[i] \in {0, 1}
    BY <1>1 DEF Octets
  <2> HIDE DEF f, g
  <2>2. \A i \in 0 .. 7 : (f[i] + g[i]) % 2 \in {0, 1}
    BY <2>1
  <2> QED BY <2>2 DEF Plus, Octets
<1>5. /\ 2^0 = 1 /\ 2^1 = 2 /\ 2^2 = 4 /\ 2^3 = 8
      /\ 2^4 = 16 /\ 2^5 = 32 /\ 2^6 = 64 /\ 2^7 = 128
  OBVIOUS
<1>6. XorByte(x, y) = h[0] * 2^0 + h[1] * 2^1 + h[2] * 2^2 + h[3] * 2^3
                      + h[4] * 2^4 + h[5] * 2^5 + h[6] * 2^6 + h[7] * 2^7
  BY <1>3 DEF XorByte
<1>7. /\ h[0] \in {0, 1} /\ h[1] \in {0, 1} /\ h[2] \in {0, 1} /\ h[3] \in {0, 1}
      /\ h[4] \in {0, 1} /\ h[5] \in {0, 1} /\ h[6] \in {0, 1} /\ h[7] \in {0, 1}
  BY <1>4 DEF Octets
<1> HIDE DEF h
<1>8. XorByte(x, y) = Octet(h)
  BY <1>5, <1>6, <1>7 DEF Octet
<1> QED BY <1>4, <1>8 DEF h

\* What ^ gives is a byte,
LEMMA XorByteByte == \A x, y \in Byte : XorByte(x, y) \in Byte
BY XorIs, OctetByte

\* zero for equal bytes,
LEMMA XorSelf == \A x \in Byte : XorByte(x, x) = 0
<1> SUFFICES ASSUME NEW x \in Byte PROVE XorByte(x, x) = 0
  OBVIOUS
<1> DEFINE f == Bits(x)
           h == Plus(f, f)
<1>1. f \in Octets /\ XorByte(x, x) = Octet(h)
  BY XorIs, BitsOctet
<1> HIDE DEF f
<1>2. \A i \in 0 .. 7 : h[i] = (f[i] + f[i]) % 2 /\ f[i] \in {0, 1}
  BY <1>1 DEF Plus, Octets
<1>3. \A i \in 0 .. 7 : h[i] = 0
  BY <1>2
<1> HIDE DEF h
<1>4. Octet(h) = 0
  BY <1>3 DEF Octet
<1> QED BY <1>1, <1>4

\* the same in either order,
LEMMA XorCommutes == \A x, y \in Byte : XorByte(x, y) = XorByte(y, x)
<1> SUFFICES ASSUME NEW x \in Byte, NEW y \in Byte PROVE XorByte(x, y) = XorByte(y, x)
  OBVIOUS
<1> DEFINE f == Bits(x)
           g == Bits(y)
<1>1. /\ f \in Octets /\ g \in Octets
      /\ XorByte(x, y) = Octet(Plus(f, g)) /\ XorByte(y, x) = Octet(Plus(g, f))
  BY XorIs, BitsOctet
<1> HIDE DEF f, g
<1>2. \A i \in 0 .. 7 : f[i] \in {0, 1} /\ g[i] \in {0, 1}
  BY <1>1 DEF Octets
<1>3. \A i \in 0 .. 7 : (f[i] + g[i]) % 2 = (g[i] + f[i]) % 2
  BY <1>2
<1>4. Plus(f, g) = Plus(g, f)
  BY <1>3 DEF Plus
<1> QED BY <1>1, <1>4

\* and different for different bytes.
LEMMA XorInjective ==
    ASSUME NEW x \in Byte, NEW y \in Byte, NEW z \in Byte, XorByte(x, y) = XorByte(x, z)
    PROVE  y = z
<1> DEFINE f == Bits(x)
           g == Bits(y)
           h == Bits(z)
<1>1. /\ f \in Octets /\ g \in Octets /\ h \in Octets /\ Octet(g) = y /\ Octet(h) = z
      /\ XorByte(x, y) = Octet(Plus(f, g)) /\ XorByte(x, z) = Octet(Plus(f, h))
      /\ Plus(f, g) \in Octets /\ Plus(f, h) \in Octets
  BY XorIs, BitsOctet
<1> HIDE DEF f, g, h
<1>2. Plus(f, g) = Plus(f, h)
  BY <1>1, OctetInjective
<1>3. \A i \in 0 .. 7 : f[i] \in {0, 1} /\ g[i] \in {0, 1} /\ h[i] \in {0, 1}
  BY <1>1 DEF Octets
<1>4. \A i \in 0 .. 7 : (f[i] + g[i]) % 2 = (f[i] + h[i]) % 2
  <2>1. \A i \in 0 .. 7 : /\ Plus(f, g)[i] = (f[i] + g[i]) % 2
                          /\ Plus(f, h)[i] = (f[i] + h[i]) % 2
    BY DEF Plus
  <2> QED BY <1>2, <2>1
<1>5. \A i \in 0 .. 7 : g[i] = h[i]
  BY <1>3, <1>4
<1>6. g = h
  BY <1>1, <1>5 DEF Octets
<1> QED BY <1>1, <1>6

\* A byte in which some bits are changed is another.
LEMMA XorChanges ==
    ASSUME NEW x \in Byte, NEW y \in Byte, y # 0
    PROVE  XorByte(x, y) \in Byte /\ XorByte(x, y) # x
<1>1. 0 \in Byte
  BY ByteIs
<1>2. XorByte(x, 0) = x
  <2> DEFINE f == Bits(x)
             g == Bits(0)
  <2>1. /\ f \in Octets /\ g \in Octets /\ Octet(f) = x /\ Octet(g) = 0
        /\ XorByte(x, 0) = Octet(Plus(f, g)) /\ Plus(f, g) \in Octets
    BY <1>1, XorIs, BitsOctet
  <2> HIDE DEF f, g
  <2>2. \A i \in 0 .. 7 : f[i] \in {0, 1} /\ g[i] \in {0, 1}
    BY <2>1 DEF Octets
  <2>3. \A i \in 0 .. 7 : g[i] = 0
    BY <2>1, <2>2 DEF Octet
  <2>4. \A i \in 0 .. 7 : (f[i] + g[i]) % 2 = f[i]
    BY <2>2, <2>3
  <2>5. \A i \in 0 .. 7 : Plus(f, g)[i] = f[i]
    BY <2>4 DEF Plus
  <2>6. Plus(f, g) = f
    BY <2>1, <2>5 DEF Octets
  <2> QED BY <2>1, <2>6
<1> QED BY <1>1, <1>2, XorByteByte, XorInjective

-----------------------------------------------------------------------------
(* One byte of calculateCRC.                                               *)

\* Eight shifts.
Shifted(c) == Shift[Shift[Shift[Shift[Shift[Shift[Shift[Shift[c]]]]]]]]

\* That is what the loop in CrcByte computes.
LEMMA EightSteps ==
    ASSUME NEW b
    PROVE  LET s[k \in 0 .. 8] == IF k = 0 THEN b ELSE Shift[s[k - 1]]
           IN  s[8] = Shifted(b)
<1> DEFINE F == [i \in 1 .. 8 |-> Shift]
           P(g) == g = [k \in 0 .. 8 |-> IF k = 0 THEN b ELSE Shift[g[k - 1]]]
           s == CHOOSE g : P(g)
<1>1. PICK g : g = [i \in 0 .. 8 |-> Stepped(b, F, g, i)]
  <2> HIDE DEF F
  <2> QED BY StepsExist
<1>2. \A i \in 0 .. 8 : Stepped(b, F, g, i) = IF i = 0 THEN b ELSE Shift[g[i - 1]]
  BY DEF Stepped
<1>3. P(g)
  BY <1>1, <1>2
<1>4. P(s)
  <2> HIDE DEF P
  <2> QED BY <1>3, Zenon
<1> HIDE DEF s
<1>5. \A k \in 0 .. 8 : s[k] = IF k = 0 THEN b ELSE Shift[s[k - 1]]
  BY <1>4, Zenon
<1>6. /\ s[0] = b /\ s[1] = Shift[s[0]] /\ s[2] = Shift[s[1]] /\ s[3] = Shift[s[2]]
      /\ s[4] = Shift[s[3]] /\ s[5] = Shift[s[4]] /\ s[6] = Shift[s[5]]
      /\ s[7] = Shift[s[6]] /\ s[8] = Shift[s[7]]
  BY <1>5
<1>7. s[8] = Shifted(b)
  BY <1>6 DEF Shifted
<1> QED BY <1>7, Zenon DEF s

\* What calculateCRC does with one byte.
Entered(c, x) == 256 * XorByte(c \div 256, x) + (c % 256)

\* It goes into the upper half of the register; then come the shifts.
LEMMA CrcByteIs ==
    ASSUME NEW c \in Word, NEW x
    PROVE  CrcByte(x)[c] = Shifted(Entered(c, x))
<1> DEFINE b == Entered(c, x)
<1>1. LET s[k \in 0 .. 8] == IF k = 0 THEN b ELSE Shift[s[k - 1]]
      IN  s[8] = Shifted(b)
  <2> HIDE DEF b
  <2> QED BY EightSteps
<1> QED BY <1>1, Zenon DEF CrcByte, Entered

\* The halves of a word, and back.
LEMMA Halves ==
    ASSUME NEW c \in Word
    PROVE  c \div 256 \in Byte /\ c % 256 \in Byte /\ c = 256 * (c \div 256) + (c % 256)
<1>1. c \in Nat /\ c < 65536
  BY WordIs
<1>2. /\ c \div 256 \in Nat /\ c \div 256 < 256 /\ c % 256 \in Nat /\ c % 256 < 256
      /\ c = 256 * (c \div 256) + (c % 256)
  BY <1>1
<1> QED BY <1>2, ByteIs

\* Two bytes make a word, from which they come back.
LEMMA Joins ==
    ASSUME NEW x \in Byte, NEW y \in Byte
    PROVE  /\ 256 * x + y \in Word
           /\ (256 * x + y) \div 256 = x
           /\ (256 * x + y) % 256 = y
<1>1. x \in Nat /\ x < 256 /\ y \in Nat /\ y < 256
  BY ByteIs
<1>2. 256 * x + y \in Nat /\ 256 * x + y < 65536
  BY <1>1
<1>3. (256 * x + y) \div 256 = x /\ (256 * x + y) % 256 = y
  BY <1>1
<1> QED BY <1>2, <1>3, WordIs

\* Eight shifts of a word are a word, lose nothing,
LEMMA ShiftedWord ==
    /\ \A c \in Word : Shifted(c) \in Word
    /\ \A c, d \in Word : Shifted(c) = Shifted(d) => c = d
<1>1. ASSUME NEW c \in Word
      PROVE  /\ Shift[c] \in Word
             /\ Shift[Shift[c]] \in Word
             /\ Shift[Shift[Shift[c]]] \in Word
             /\ Shift[Shift[Shift[Shift[c]]]] \in Word
             /\ Shift[Shift[Shift[Shift[Shift[c]]]]] \in Word
             /\ Shift[Shift[Shift[Shift[Shift[Shift[c]]]]]] \in Word
             /\ Shift[Shift[Shift[Shift[Shift[Shift[Shift[c]]]]]]] \in Word
             /\ Shifted(c) \in Word
  BY ShiftWord, Zenon DEF Shifted
<1>2. ASSUME NEW c \in Word, NEW d \in Word, Shifted(c) = Shifted(d)
      PROVE  c = d
  <2>1. Shift[Shift[Shift[Shift[Shift[Shift[Shift[c]]]]]]]
            = Shift[Shift[Shift[Shift[Shift[Shift[Shift[d]]]]]]]
    BY <1>1, <1>2, ShiftInjective, Zenon DEF Shifted
  <2>2. Shift[Shift[Shift[Shift[Shift[Shift[c]]]]]]
            = Shift[Shift[Shift[Shift[Shift[Shift[d]]]]]]
    BY <1>1, <1>2, <2>1, ShiftInjective, Zenon
  <2>3. Shift[Shift[Shift[Shift[Shift[c]]]]] = Shift[Shift[Shift[Shift[Shift[d]]]]]
    BY <1>1, <1>2, <2>2, ShiftInjective, Zenon
  <2>4. Shift[Shift[Shift[Shift[c]]]] = Shift[Shift[Shift[Shift[d]]]]
    BY <1>1, <1>2, <2>3, ShiftInjective, Zenon
  <2>5. Shift[Shift[Shift[c]]] = Shift[Shift[Shift[d]]]
    BY <1>1, <1>2, <2>4, ShiftInjective, Zenon
  <2>6. Shift[Shift[c]] = Shift[Shift[d]]
    BY <1>1, <1>2, <2>5, ShiftInjective, Zenon
  <2>7. Shift[c] = Shift[d]
    BY <1>1, <1>2, <2>6, ShiftInjective, Zenon
  <2> QED BY <2>7, ShiftInjective
<1> QED BY <1>1, <1>2

\* and move a byte up.
LEMMA ShiftedByte ==
    ASSUME NEW x \in Byte
    PROVE  Shifted(x) = 256 * x
<1>1. x \in Nat /\ x < 256
  BY ByteIs
<1>2. Shift[x] = 2 * x
  <2>1. IsLow(x)
    BY <1>1 DEF IsLow
  <2> QED BY <2>1, ShiftLow
<1>3. Shift[2 * x] = 4 * x
  <2>1. IsLow(2 * x)
    BY <1>1 DEF IsLow
  <2>2. Shift[2 * x] = 2 * (2 * x)
    BY <2>1, ShiftLow
  <2> QED BY <1>1, <2>2
<1>4. Shift[4 * x] = 8 * x
  <2>1. IsLow(4 * x)
    BY <1>1 DEF IsLow
  <2>2. Shift[4 * x] = 2 * (4 * x)
    BY <2>1, ShiftLow
  <2> QED BY <1>1, <2>2
<1>5. Shift[8 * x] = 16 * x
  <2>1. IsLow(8 * x)
    BY <1>1 DEF IsLow
  <2>2. Shift[8 * x] = 2 * (8 * x)
    BY <2>1, ShiftLow
  <2> QED BY <1>1, <2>2
<1>6. Shift[16 * x] = 32 * x
  <2>1. IsLow(16 * x)
    BY <1>1 DEF IsLow
  <2>2. Shift[16 * x] = 2 * (16 * x)
    BY <2>1, ShiftLow
  <2> QED BY <1>1, <2>2
<1>7. Shift[32 * x] = 64 * x
  <2>1. IsLow(32 * x)
    BY <1>1 DEF IsLow
  <2>2. Shift[32 * x] = 2 * (32 * x)
    BY <2>1, ShiftLow
  <2> QED BY <1>1, <2>2
<1>8. Shift[64 * x] = 128 * x
  <2>1. IsLow(64 * x)
    BY <1>1 DEF IsLow
  <2>2. Shift[64 * x] = 2 * (64 * x)
    BY <2>1, ShiftLow
  <2> QED BY <1>1, <2>2
<1>9. Shift[128 * x] = 256 * x
  <2>1. IsLow(128 * x)
    BY <1>1 DEF IsLow
  <2>2. Shift[128 * x] = 2 * (128 * x)
    BY <2>1, ShiftLow
  <2> QED BY <1>1, <2>2
<1> QED BY <1>2, <1>3, <1>4, <1>5, <1>6, <1>7, <1>8, <1>9 DEF Shifted

\* crc ^= (byte << 8) loses nothing either, of the register or of the byte.
LEMMA EnteredWord ==
    /\ \A c \in Word, x \in Byte : Entered(c, x) \in Word
    /\ \A c, d \in Word, x \in Byte : Entered(c, x) = Entered(d, x) => c = d
    /\ \A c \in Word, x, y \in Byte : Entered(c, x) = Entered(c, y) => x = y
<1>1. ASSUME NEW c \in Word, NEW x \in Byte
      PROVE  /\ Entered(c, x) \in Word
             /\ Entered(c, x) \div 256 = XorByte(c \div 256, x)
             /\ Entered(c, x) % 256 = c % 256
  <2>1. c \div 256 \in Byte /\ c % 256 \in Byte
    BY Halves
  <2>2. XorByte(c \div 256, x) \in Byte
    BY <2>1, XorByteByte
  <2> QED BY <2>1, <2>2, Joins DEF Entered
<1>2. ASSUME NEW c \in Word, NEW d \in Word, NEW x \in Byte, Entered(c, x) = Entered(d, x)
      PROVE  c = d
  <2>1. /\ c \div 256 \in Byte /\ d \div 256 \in Byte
        /\ c = 256 * (c \div 256) + (c % 256) /\ d = 256 * (d \div 256) + (d % 256)
    BY Halves
  <2>2. XorByte(c \div 256, x) = XorByte(d \div 256, x) /\ c % 256 = d % 256
    BY <1>1, <1>2
  <2>3. XorByte(x, c \div 256) = XorByte(x, d \div 256)
    BY <2>1, <2>2, XorCommutes
  <2>4. c \div 256 = d \div 256
    BY <2>1, <2>3, XorInjective
  <2> QED BY <2>1, <2>2, <2>4
<1>3. ASSUME NEW c \in Word, NEW x \in Byte, NEW y \in Byte, Entered(c, x) = Entered(c, y)
      PROVE  x = y
  <2>1. c \div 256 \in Byte
    BY Halves
  <2>2. XorByte(c \div 256, x) = XorByte(c \div 256, y)
    BY <1>1, <1>3
  <2> QED BY <2>1, <2>2, XorInjective
<1> QED BY <1>1, <1>2, <1>3

\* One byte: a word, told apart by the register before it and by the byte.
LEMMA CrcByteWord ==
    /\ \A c \in Word, x \in Byte : CrcByte(x)[c] \in Word
    /\ \A c, d \in Word, x \in Byte : CrcByte(x)[c] = CrcByte(x)[d] => c = d
    /\ \A c \in Word, x, y \in Byte : CrcByte(x)[c] = CrcByte(y)[c] => x = y
BY CrcByteIs, EnteredWord, ShiftedWord

\* The high byte of the register leaves the low one, in the upper half,
LEMMA CrcHigh ==
    ASSUME NEW c \in Word
    PROVE  CrcByte(c \div 256)[c] = 256 * (c % 256)
<1>1. c \div 256 \in Byte /\ c % 256 \in Byte
  BY Halves
<1>2. XorByte(c \div 256, c \div 256) = 0
  BY <1>1, XorSelf
<1>3. c % 256 \in Nat
  BY <1>1, ByteIs
<1>4. Entered(c, c \div 256) = c % 256
  BY <1>2, <1>3 DEF Entered
<1>5. Shifted(c % 256) = 256 * (c % 256)
  BY <1>1, ShiftedByte
<1> QED BY <1>4, <1>5, CrcByteIs

\* and then that byte leaves nothing.
LEMMA CrcLow ==
    ASSUME NEW x \in Byte
    PROVE  256 * x \in Word /\ CrcByte(x)[256 * x] = 0
<1>1. 0 \in Byte /\ x \in Nat
  BY ByteIs
<1> DEFINE c == 256 * x + 0
<1>2. c \in Word /\ c \div 256 = x /\ c % 256 = 0
  BY <1>1, Joins
<1>3. c = 256 * x
  BY <1>1
<1> HIDE DEF c
<1>4. XorByte(x, x) = 0
  BY XorSelf
<1>5. Entered(c, x) = 0
  BY <1>2, <1>4 DEF Entered
<1>6. Shifted(0) = 0
  BY <1>1, ShiftedByte
<1>7. CrcByte(x)[c] = 0
  BY <1>2, <1>5, <1>6, CrcByteIs
<1> QED BY <1>2, <1>3, <1>7

-----------------------------------------------------------------------------
(* All bytes of calculateCRC.                                              *)

\* g[n] is the register after n bytes of s.
Registers(s, g) ==
    \A n \in 0 .. Len(s) : g[n] = IF n = 0 THEN 0 ELSE CrcByte(s[n])[g[n - 1]]

\* calculateCRC returns the last of them,
LEMMA CrcIs ==
    ASSUME NEW s, Len(s) \in Nat
    PROVE  \E g : Registers(s, g) /\ calculateCRC(s) = g[Len(s)]
<1> DEFINE F == [n \in 1 .. Len(s) |-> CrcByte(s[n])]
           P(g) == g = [n \in 0 .. Len(s) |-> IF n = 0 THEN 0 ELSE CrcByte(s[n])[g[n - 1]]]
           crc == CHOOSE g : P(g)
<1>1. PICK g : g = [n \in 0 .. Len(s) |-> Stepped(0, F, g, n)]
  <2> HIDE DEF F
  <2> QED BY StepsExist
<1>2. \A n \in 0 .. Len(s) :
        Stepped(0, F, g, n) = IF n = 0 THEN 0 ELSE CrcByte(s[n])[g[n - 1]]
  <2>1. \A n \in 0 .. Len(s) : n # 0 => F[n] = CrcByte(s[n])
    OBVIOUS
  <2> HIDE DEF F
  <2> QED BY <2>1, Zenon DEF Stepped
<1>3. P(g)
  BY <1>1, <1>2
<1>4. P(crc)
  <2> HIDE DEF P
  <2> QED BY <1>3, Zenon
<1>5. calculateCRC(s) = crc[Len(s)]
  BY Zenon DEF calculateCRC
<1> HIDE DEF crc
<1>6. Registers(s, crc)
  BY <1>4, Zenon DEF Registers
<1> QED BY <1>5, <1>6

\* all are words,
LEMMA RegistersWord ==
    ASSUME NEW s \in Seq(Byte), NEW g, Registers(s, g)
    PROVE  \A n \in 0 .. Len(s) : g[n] \in Word
<1> DEFINE S == {n \in Nat : n <= Len(s) => g[n] \in Word}
<1>1. Len(s) \in Nat /\ \A n \in 1 .. Len(s) : s[n] \in Byte
  OBVIOUS
<1>2. 0 \in S
  <2>1. g[0] = 0 /\ 0 \in Word
    BY <1>1, WordIs DEF Registers
  <2> QED BY <2>1
<1>3. ASSUME NEW n \in S PROVE n + 1 \in S
  <2> SUFFICES ASSUME n + 1 <= Len(s) PROVE g[n + 1] \in Word
    OBVIOUS
  <2>1. n \in Nat /\ n + 1 \in 1 .. Len(s) /\ n + 1 \in 0 .. Len(s) /\ (n + 1) - 1 = n
        /\ n + 1 # 0 /\ n <= Len(s)
    BY <1>1
  <2>2. g[n] \in Word /\ s[n + 1] \in Byte
    BY <1>1, <2>1
  <2>3. g[n + 1] = CrcByte(s[n + 1])[g[n]]
    BY <2>1 DEF Registers
  <2> QED BY <2>2, <2>3, CrcByteWord
<1> HIDE DEF S
<1>4. S = Nat
  <2>1. S \in SUBSET Nat
    BY DEF S
  <2> QED BY <1>2, <1>3, <2>1, Induction
<1> QED BY <1>1, <1>4 DEF S

\* the same after the same bytes,
LEMMA RegistersSame ==
    ASSUME NEW s \in Seq(Byte), NEW g, Registers(s, g),
           NEW t \in Seq(Byte), NEW h, Registers(t, h),
           NEW m \in Nat, m <= Len(s), m <= Len(t), \A i \in 1 .. m : s[i] = t[i]
    PROVE  g[m] = h[m]
<1> DEFINE S == {n \in Nat : n <= m => g[n] = h[n]}
<1>1. Len(s) \in Nat /\ Len(t) \in Nat
  OBVIOUS
<1>2. 0 \in S
  <2>1. g[0] = 0 /\ h[0] = 0
    BY <1>1 DEF Registers
  <2> QED BY <2>1
<1>3. ASSUME NEW n \in S PROVE n + 1 \in S
  <2> SUFFICES ASSUME n + 1 <= m PROVE g[n + 1] = h[n + 1]
    OBVIOUS
  <2>1. /\ n \in Nat /\ n + 1 \in 1 .. m /\ n + 1 \in 0 .. Len(s) /\ n + 1 \in 0 .. Len(t)
        /\ (n + 1) - 1 = n /\ n + 1 # 0 /\ n <= m
    BY <1>1
  <2>2. g[n] = h[n] /\ s[n + 1] = t[n + 1]
    BY <2>1
  <2>3. g[n + 1] = CrcByte(s[n + 1])[g[n]] /\ h[n + 1] = CrcByte(t[n + 1])[h[n]]
    BY <2>1 DEF Registers
  <2> QED BY <2>2, <2>3
<1> HIDE DEF S
<1>4. S = Nat
  <2>1. S \in SUBSET Nat
    BY DEF S
  <2> QED BY <1>2, <1>3, <2>1, Induction
<1> QED BY <1>4 DEF S

\* and different from the first byte on that differs, if no other does.
LEMMA RegistersDiffer ==
    ASSUME NEW s \in Seq(Byte), NEW g, Registers(s, g),
           NEW t \in Seq(Byte), NEW h, Registers(t, h), Len(t) = Len(s),
           NEW k \in 1 .. Len(s), s[k] # t[k],
           \A i \in 1 .. Len(s) : i # k => s[i] = t[i]
    PROVE  g[Len(s)] # h[Len(s)]
<1> DEFINE S == {n \in Nat : k + n <= Len(s) => g[k + n] # h[k + n]}
<1>1. Len(s) \in Nat /\ \A n \in 1 .. Len(s) : s[n] \in Byte /\ t[n] \in Byte
  OBVIOUS
<1>2. \A n \in 0 .. Len(s) : g[n] \in Word /\ h[n] \in Word
  BY RegistersWord
<1>3. 0 \in S
  <2>1. /\ k \in 0 .. Len(s) /\ k # 0 /\ k - 1 \in Nat /\ k - 1 <= Len(s)
        /\ k - 1 \in 0 .. Len(s) /\ k + 0 = k
    BY <1>1
  <2>2. \A i \in 1 .. k - 1 : s[i] = t[i]
    BY <1>1
  <2> DEFINE m == k - 1
  <2>3. g[m] = h[m]
    <3> HIDE DEF m
    <3>1. m \in Nat /\ m <= Len(s) /\ m <= Len(t) /\ \A i \in 1 .. m : s[i] = t[i]
      BY <2>1, <2>2 DEF m
    <3> QED BY <3>1, RegistersSame
  <2>4. g[k] = CrcByte(s[k])[g[m]] /\ h[k] = CrcByte(t[k])[h[m]]
    BY <2>1 DEF Registers
  <2>5. g[k] # h[k]
    BY <1>1, <1>2, <2>1, <2>3, <2>4, CrcByteWord
  <2> QED BY <2>1, <2>5
<1>4. ASSUME NEW n \in S PROVE n + 1 \in S
  <2> DEFINE m == k + n
  <2> SUFFICES ASSUME k + (n + 1) <= Len(s) PROVE g[k + (n + 1)] # h[k + (n + 1)]
    OBVIOUS
  <2>1. /\ m \in 0 .. Len(s) /\ m + 1 \in 1 .. Len(s) /\ m + 1 \in 0 .. Len(s)
        /\ (m + 1) - 1 = m /\ m + 1 # 0 /\ m + 1 # k /\ m + 1 = k + (n + 1)
    BY <1>1
  <2>2. g[m] # h[m]
    BY <2>1
  <2> HIDE DEF m
  <2>3. g[m + 1] = CrcByte(s[m + 1])[g[m]] /\ h[m + 1] = CrcByte(t[m + 1])[h[m]]
    BY <2>1 DEF Registers
  <2>4. s[m + 1] = t[m + 1] /\ s[m + 1] \in Byte
    BY <1>1, <2>1
  <2>5. g[m + 1] # h[m + 1]
    BY <1>2, <2>1, <2>2, <2>3, <2>4, CrcByteWord
  <2> QED BY <2>1, <2>5
<1> HIDE DEF S
<1>5. S = Nat
  <2>1. S \in SUBSET Nat
    BY DEF S
  <2> QED BY <1>3, <1>4, <2>1, Induction
<1>6. Len(s) - k \in Nat /\ k + (Len(s) - k) = Len(s)
  BY <1>1
<1>7. k + (Len(s) - k) <= Len(s) => g[k + (Len(s) - k)] # h[k + (Len(s) - k)]
  BY <1>5, <1>6 DEF S
<1> QED BY <1>1, <1>6, <1>7

\* A single byte that is changed changes the CRC.
LEMMA OneByteTells ==
    ASSUME NEW s \in Seq(Byte), NEW k \in 1 .. Len(s), NEW x \in Byte, x # s[k]
    PROVE  calculateCRC([s EXCEPT ![k] = x]) # calculateCRC(s)
<1> DEFINE t == [s EXCEPT ![k] = x]
<1>1. /\ t \in Seq(Byte) /\ Len(t) = Len(s) /\ t[k] = x
      /\ \A i \in 1 .. Len(s) : i # k => s[i] = t[i]
  OBVIOUS
<1> HIDE DEF t
<1>2. Len(s) \in Nat /\ Len(t) \in Nat
  BY <1>1
<1>3. PICK g : Registers(s, g) /\ calculateCRC(s) = g[Len(s)]
  BY <1>2, CrcIs
<1>4. PICK h : Registers(t, h) /\ calculateCRC(t) = h[Len(t)]
  BY <1>2, CrcIs
<1>5. s[k] # t[k]
  BY <1>1
<1>6. g[Len(s)] # h[Len(s)]
  BY <1>1, <1>3, <1>4, <1>5, RegistersDiffer
<1> QED BY <1>1, <1>3, <1>4, <1>6 DEF t

\* The CRC over bytes and their own CRC is zero.
LEMMA OwnCrcIsZero ==
    ASSUME NEW s \in Seq(Byte)
    PROVE  /\ s \o TwoBytes(calculateCRC(s)) \in Seq(Byte)
           /\ calculateCRC(s \o TwoBytes(calculateCRC(s))) = 0
<1>1. Len(s) \in Nat
  OBVIOUS
<1>2. PICK n \in Nat : n = Len(s)
  BY <1>1
<1>3. PICK g : Registers(s, g) /\ calculateCRC(s) = g[n]
  BY <1>1, <1>2, CrcIs
<1> DEFINE c == calculateCRC(s)
           two == TwoBytes(c)
           t == s \o two
<1>4. c \in Word
  <2>1. n \in 0 .. Len(s)
    BY <1>2
  <2> QED BY <1>3, <2>1, RegistersWord
<1>5. c = g[n]
  BY <1>3
<1> HIDE DEF c
<1>6. c \div 256 \in Byte /\ c % 256 \in Byte
  BY <1>4, Halves
<1>7. two \in Seq(Byte) /\ Len(two) = 2 /\ two[1] = c \div 256 /\ two[2] = c % 256
  BY <1>6 DEF TwoBytes
<1> HIDE DEF two
<1>8. /\ t \in Seq(Byte) /\ Len(t) = n + 2
      /\ \A i \in 1 .. n : s[i] = t[i]
      /\ t[n + 1] = c \div 256 /\ t[n + 2] = c % 256
  <2>1. IsJoined(s, two, Byte)
    BY <1>7, Joined
  <2>2. 1 \in 1 .. 2 /\ 2 \in 1 .. 2
    OBVIOUS
  <2> QED BY <1>2, <1>7, <2>1, <2>2 DEF IsJoined
<1> HIDE DEF t
<1>9. PICK h : Registers(t, h) /\ calculateCRC(t) = h[n + 2]
  <2>1. Len(t) \in Nat
    BY <1>8
  <2> QED BY <1>8, <2>1, CrcIs
<1>10. h[n] = c
  <2>1. n <= Len(s) /\ n <= Len(t)
    BY <1>2, <1>8
  <2>2. g[n] = h[n]
    BY <1>3, <1>8, <1>9, <2>1, RegistersSame
  <2> QED BY <1>5, <2>2
<1>11. h[n + 1] = CrcByte(c \div 256)[c] /\ h[n + 2] = CrcByte(c % 256)[h[n + 1]]
  <2>1. /\ n + 1 \in 0 .. Len(t) /\ n + 1 # 0 /\ (n + 1) - 1 = n
        /\ n + 2 \in 0 .. Len(t) /\ n + 2 # 0 /\ (n + 2) - 1 = n + 1
    BY <1>8
  <2>2. h[n + 1] = CrcByte(t[n + 1])[h[n]] /\ h[n + 2] = CrcByte(t[n + 2])[h[n + 1]]
    BY <1>9, <2>1 DEF Registers
  <2> QED BY <1>8, <1>10, <2>2
<1>12. h[n + 1] = 256 * (c % 256)
  BY <1>4, <1>11, CrcHigh
<1>13. h[n + 2] = 0
  BY <1>6, <1>11, <1>12, CrcLow
<1> QED BY <1>8, <1>9, <1>13 DEF t, two, c

-----------------------------------------------------------------------------
(* The CRC of an encoded frame.                                            *)

\* What encodeFrame puts together are bytes.
LEMMA DataIsBytes ==
    ASSUME NEW words \in Seq(Word)
    PROVE  DataBytes(words) \in Seq(Byte)
<1>1. PICK n \in Nat : n = Len(words)
  BY LenProperties
<1>2. \A i \in 1 .. n : words[i] \in Word
  BY <1>1, ElementOfSeq
<1>3. \A i \in 1 .. n : words[i] \div 256 \in Byte /\ words[i] % 256 \in Byte
  BY <1>2, HalvesOfWord
<1>4. ASSUME NEW k \in 1 .. 2 * n
      PROVE  /\ k % 2 = 1 => (k + 1) \div 2 \in 1 .. n
             /\ k % 2 # 1 => k \div 2 \in 1 .. n
  BY Z3
<1>5. DataBytes(words) = [k \in 1 .. 2 * n |->
        IF k % 2 = 1 THEN words[(k + 1) \div 2] \div 256 ELSE words[k \div 2] % 256]
  BY <1>1 DEF DataBytes
<1>6. DataBytes(words) \in [1 .. 2 * n -> Byte]
  BY <1>3, <1>4, <1>5
<1>7. 2 * n \in Nat
  OBVIOUS
<1> QED BY <1>6, <1>7

\* The whole frame but its CRC.
LEMMA BodyIsBytes ==
    ASSUME NEW f \in FrameType
    PROVE  Body(f) \in Seq(Byte)
<1> DEFINE head == <<f.registerAddress, f.lengthCode, f.chipAddress>>
           engine == TwoBytes(f.engineAddress)
           data == DataBytes(f.data)
           flags == Flag(f.completion) + 2 * Flag(f.completionWithConditional)
           foot == <<GeneralByte(f), f.cnt, flags>>
<1>1. /\ f.registerAddress \in Byte /\ f.lengthCode \in Byte /\ f.chipAddress \in Byte
      /\ f.engineAddress \in Word /\ f.data \in Seq(Word) /\ f.general \in Byte
      /\ f.cnt \in Byte
  BY DEF FrameType
<1>2. head \in Seq(Byte)
  BY <1>1
<1>3. engine \in Seq(Byte)
  <2>1. f.engineAddress \div 256 \in Byte /\ f.engineAddress % 256 \in Byte
    BY <1>1, HalvesOfWord
  <2> QED BY <2>1 DEF TwoBytes
<1>4. data \in Seq(Byte)
  BY <1>1, DataIsBytes
<1>5. foot \in Seq(Byte)
  <2>1. \A b : Flag(b) \in {0, 1}
    BY DEF Flag
  <2>2. flags \in Nat /\ flags < 256
    BY <2>1
  <2>3. GeneralByte(f) \in Nat /\ GeneralByte(f) < 256
    <3>1. f.general \in Nat
      BY <1>1, ByteIs
    <3>2. PICK e \in Nat : e = (2 * f.general) % 256
      BY <3>1
    <3>3. e < 256 /\ e % 2 = 0
      BY <3>1, <3>2
    <3>4. e < 255
      BY <3>3
    <3>5. GeneralByte(f) = e + Flag(f.readWriteCommand)
      BY <3>2 DEF GeneralByte
    <3> QED BY <2>1, <3>4, <3>5
  <2>4. flags \in Byte /\ GeneralByte(f) \in Byte
    BY <2>2, <2>3, ByteIs
  <2> HIDE DEF flags
  <2> QED BY <1>1, <2>4
<1> HIDE DEF head, engine, data, foot
<1>6. \A s, t \in Seq(Byte) : s \o t \in Seq(Byte)
  BY Joined DEF IsJoined
<1>7. (((head \o engine) \o data) \o foot) \in Seq(Byte)
  BY <1>2, <1>3, <1>4, <1>5, <1>6
<1>8. Body(f) = (((head \o engine) \o data) \o foot)
  BY DEF Body, head, engine, data, foot
<1> QED BY <1>7, <1>8

\* An encoded frame is made of bytes and has the CRC zero.
LEMMA EncodedCrc ==
    ASSUME NEW f \in FrameType
    PROVE  encodeFrame(f) \in Seq(Byte) /\ calculateCRC(encodeFrame(f)) = 0
BY BodyIsBytes, OwnCrcIsZero DEF encodeFrame

-----------------------------------------------------------------------------
(* The inductive invariant: both objects are Frames, and what the line left *)
(* alone is the encoding of origin.                                        *)

IsFrame(f) == f = [field \in Fields |-> f[field]]

CodecInv ==
    /\ tx \in FrameType
    /\ origin \in FrameType
    /\ IsFrame(rx)
    /\ frames \in Nat
    /\ frames > 0 /\ line = "intact" => wire = encodeFrame(origin)
    /\ decoded => frames > 0
    /\ ~decoded => ~overread

\* A setter leaves a Frame a Frame.
LEMMA SetType ==
    ASSUME NEW f \in FrameType, NEW field \in Fields, NEW v \in Inputs[field]
    PROVE  [f EXCEPT ![field] = v] \in FrameType
<1>1. [NewFrame EXCEPT ![field] = v] \in FrameType
  BY FrameAssumption
<1>2. CASE field = "registerAddress" BY <1>1, <1>2 DEF FrameType, NewFrame
<1>3. CASE field = "readWriteCommand" BY <1>1, <1>3 DEF FrameType, NewFrame
<1>4. CASE field = "lengthCode" BY <1>1, <1>4 DEF FrameType, NewFrame
<1>5. CASE field = "chipAddress" BY <1>1, <1>5 DEF FrameType, NewFrame
<1>6. CASE field = "engineAddress" BY <1>1, <1>6 DEF FrameType, NewFrame
<1>7. CASE field = "data" BY <1>1, <1>7 DEF FrameType, NewFrame
<1>8. CASE field = "general" BY <1>1, <1>8 DEF FrameType, NewFrame
<1>9. CASE field = "cnt" BY <1>1, <1>9 DEF FrameType, NewFrame
<1>10. CASE field = "completion" BY <1>1, <1>10 DEF FrameType, NewFrame
<1>11. CASE field = "completionWithConditional" BY <1>1, <1>11 DEF FrameType, NewFrame
<1> QED BY <1>2, <1>3, <1>4, <1>5, <1>6, <1>7, <1>8, <1>9, <1>10, <1>11 DEF Fields

\* decodeFrame leaves a Frame a Frame.
LEMMA DecodedIsFrame ==
    ASSUME NEW f, IsFrame(f), NEW b, NEW count, NEW flags
    PROVE  IsFrame(WithHeader(f, b)) /\ IsFrame(WithFooter(f, count, flags))
BY DEF IsFrame, WithHeader, WithFooter, Fields

\* Two new Frames and an empty line.
LEMMA InitCodec == Init => CodecInv
<1> SUFFICES ASSUME Init PROVE CodecInv
  OBVIOUS
<1>1. NewFrame \in FrameType
  BY EmptySeq DEF NewFrame, FrameType, Byte, Word, MaxByte, MaxWord
<1>2. IsFrame(NewFrame)
  BY DEF IsFrame, NewFrame, Fields
<1> QED BY <1>1, <1>2 DEF Init, CodecInv

\* Every setter, every encoding, the line and every path of decodeFrame keep it.
LEMMA NextCodec == CodecInv /\ [Next]_vars => CodecInv'
<1> SUFFICES ASSUME CodecInv, [Next]_vars PROVE CodecInv'
  OBVIOUS
<1>1. ASSUME NEW field \in Fields, Set(field) PROVE CodecInv'
  BY <1>1, SetType DEF Set, CodecInv
<1>2. CASE Encode
  BY <1>2 DEF Encode, CodecInv
<1>3. CASE Damage
  BY <1>3 DEF Damage, CodecInv
<1>4. CASE Cut
  BY <1>4 DEF Cut, CodecInv
<1>5. CASE DecodeRefused
  BY <1>5 DEF DecodeRefused, Pending, CodecInv
<1>6. CASE DecodeShort
  BY <1>6, DecodedIsFrame DEF DecodeShort, Pending, CodecInv
<1>7. CASE DecodeFull
  BY <1>7, DecodedIsFrame DEF DecodeFull, Pending, CodecInv
<1>8. CASE UNCHANGED vars
  BY <1>8 DEF vars, CodecInv
<1> QED BY <1>1, <1>2, <1>3, <1>4, <1>5, <1>6, <1>7, <1>8 DEF Next, Decode

-----------------------------------------------------------------------------
(* One decoding of a frame that the line left alone.                       *)

\* The three claims about a received frame.
DecodedInv == FullFrameAgrees /\ DataSlips /\ OverreadOnlyAtEdge

\* How many words decodeFrame takes from a frame of n words, and that the frame
\* is never refused.
LEMMA WordsTaken ==
    ASSUME CodecInv, frames > 0, line = "intact"
    PROVE  LET n == Len(origin.data)
           IN  /\ LongEnough
               /\ n + 2 < MaxWords => WordsIn(wire) = n + 2
               /\ n + 2 >= MaxWords => WordsIn(wire) = MaxWords
<1>1. PICK n \in Nat : n = Len(origin.data) /\ Len(wire) = 2 * n + 10
  BY Layout DEF CodecInv
<1>2. LongEnough
  BY <1>1 DEF LongEnough, headerSize, footerSize
<1>3. (Len(wire) - headerSize) \div 2 = n + 2
  <2>1. Len(wire) - headerSize = 2 * (n + 2)
    BY <1>1 DEF headerSize
  <2>2. (2 * (n + 2)) \div 2 = n + 2
    OBVIOUS
  <2> QED BY <2>1, <2>2
<1> QED BY <1>1, <1>2, <1>3, FrameAssumption DEF WordsIn

\* What WithHeader leaves in the fields that the claims speak of.
LEMMA HeaderFields ==
    ASSUME NEW f, IsFrame(f), NEW b
    PROVE  /\ WithHeader(f, b).data =
                [i \in 1 .. WordsIn(b) |-> 256 * b[headerSize + 2 * i - 1]
                                           + b[headerSize + 2 * i]]
           /\ WithHeader(f, b).cnt = f.cnt
           /\ WithHeader(f, b).completion = f.completion
           /\ WithHeader(f, b).completionWithConditional = f.completionWithConditional
BY DEF IsFrame, Fields, WithHeader

\* The first byte is the register address.
LEMMA HeaderRegister ==
    ASSUME NEW f, IsFrame(f), NEW b
    PROVE  WithHeader(f, b).registerAddress = b[1]
BY DEF IsFrame, Fields, WithHeader

\* What WithFooter leaves in them.
LEMMA FooterFields ==
    ASSUME NEW f, IsFrame(f), NEW count, NEW flags
    PROVE  /\ WithFooter(f, count, flags).registerAddress = f.registerAddress
           /\ WithFooter(f, count, flags).data = f.data
           /\ WithFooter(f, count, flags).cnt = count
           /\ WithFooter(f, count, flags).completion = (flags % 2 = 1)
           /\ WithFooter(f, count, flags).completionWithConditional
                = ((flags \div 2) % 2 = 1)
BY DEF IsFrame, Fields, WithFooter

\* The two flags come back from the byte that encodeFrame makes of them.
LEMMA FlagsReturn ==
    ASSUME NEW c \in BOOLEAN, NEW d \in BOOLEAN
    PROVE  /\ ((Flag(c) + 2 * Flag(d)) % 2 = 1) = c
           /\ (((Flag(c) + 2 * Flag(d)) \div 2) % 2 = 1) = d
BY DEF Flag

\* The data that decodeFrame makes of a frame that the line left alone.
LEMMA DataDecoded ==
    ASSUME CodecInv, frames > 0, line = "intact", rx'.data = WithHeader(rx, wire).data,
           UNCHANGED <<origin, line>>
    PROVE  DataSlips'
<1>1. PICK n \in Nat : /\ n = Len(origin.data)
                       /\ \A i \in 1 .. n :
                            /\ wire[2 * i + 4] = origin.data[i] \div 256
                            /\ wire[2 * i + 5] = origin.data[i] % 256
  <2>1. origin \in FrameType /\ wire = encodeFrame(origin)
    BY DEF CodecInv
  <2>2. /\ Len(origin.data) \in Nat
        /\ \A i \in 1 .. Len(origin.data) :
            /\ encodeFrame(origin)[2 * i + 4] = origin.data[i] \div 256
            /\ encodeFrame(origin)[2 * i + 5] = origin.data[i] % 256
    BY <2>1, Layout, Zenon
  <2> QED BY <2>1, <2>2, Zenon
<1>2. PICK w \in Nat : /\ w = WordsIn(wire)
                       /\ w <= MaxWords
                       /\ w <= n + 2
                       /\ n + 2 < MaxWords => w = n + 2
                       /\ n + 2 >= MaxWords => w = MaxWords
  BY <1>1, WordsTaken, FrameAssumption
<1>3. rx'.data = [i \in 1 .. w |-> 256 * wire[6 + 2 * i - 1] + wire[6 + 2 * i]]
  BY <1>2, HeaderFields DEF CodecInv, headerSize
<1>4. Len(rx'.data) = w
  BY <1>2, <1>3
<1>5. ASSUME NEW i \in 1 .. n - 1, i <= MaxWords
      PROVE  rx'.data[i] = 256 * (origin.data[i] % 256) + (origin.data[i + 1] \div 256)
  <2>1. i \in 1 .. w /\ i \in 1 .. n /\ i + 1 \in 1 .. n
    BY <1>2, <1>5, FrameAssumption
  <2>2. /\ 6 + 2 * i - 1 = 2 * i + 5
        /\ 6 + 2 * i = 2 * (i + 1) + 4
    OBVIOUS
  <2>3. wire[6 + 2 * i - 1] = origin.data[i] % 256
    BY <1>1, <2>1, <2>2
  <2>4. wire[6 + 2 * i] = origin.data[i + 1] \div 256
    BY <1>1, <2>1, <2>2
  <2> QED BY <1>3, <2>1, <2>3, <2>4
<1> QED BY <1>1, <1>2, <1>4, <1>5, FrameAssumption DEF DataSlips

\* Decoding establishes the three claims.
LEMMA DecodeClaims ==
    ASSUME CodecInv, Decode, line = "intact"
    PROVE  DecodedInv'
<1>1. /\ frames > 0 /\ ~overread
      /\ UNCHANGED <<wire, origin, line, frames>>
  BY DEF Decode, DecodeRefused, DecodeShort, DecodeFull, Pending, CodecInv
<1>2. PICK n \in Nat : /\ n = Len(origin.data)
                       /\ Len(wire) = 2 * n + 10
                       /\ wire[1] = origin.registerAddress
                       /\ wire[2 * n + 7] = origin.cnt
                       /\ wire[2 * n + 8] = Flag(origin.completion)
                                + 2 * Flag(origin.completionWithConditional)
  <2>1. origin \in FrameType /\ wire = encodeFrame(origin)
    BY <1>1 DEF CodecInv
  <2> QED BY <2>1, Layout, Zenon
<1>3. /\ LongEnough
      /\ n + 2 < MaxWords => WordsIn(wire) = n + 2
      /\ n + 2 >= MaxWords => WordsIn(wire) = MaxWords
  BY <1>1, <1>2, WordsTaken, Zenon
<1>4. IsFrame(rx) /\ IsFrame(WithHeader(rx, wire))
  BY DecodedIsFrame DEF CodecInv
<1>5. WithHeader(rx, wire).registerAddress = origin.registerAddress
  <2>1. WithHeader(rx, wire).registerAddress = wire[1]
    BY <1>4, HeaderRegister, Zenon
  <2> QED BY <1>2, <2>1, Zenon
<1>6. CASE DecodeShort
  <2>1. rx' = WithHeader(rx, wire) /\ ~overread'
    BY <1>1, <1>6 DEF DecodeShort
  <2>2. n + 2 < MaxWords
    BY <1>3, <1>6, FrameAssumption DEF DecodeShort
  <2>3. DataSlips'
    BY <1>1, <2>1, DataDecoded
  <2>4. rx'.registerAddress = origin.registerAddress
    BY <1>5, <2>1
  <2>5. FullFrameAgrees'
    BY <1>1, <1>2, <2>2, <2>4, FrameAssumption DEF FullFrameAgrees
  <2>6. OverreadOnlyAtEdge'
    BY <1>1, <1>2, <2>1, <2>2, FrameAssumption DEF OverreadOnlyAtEdge
  <2> QED BY <2>3, <2>5, <2>6 DEF DecodedInv
<1>7. CASE DecodeFull
  <2>1. n + 2 >= MaxWords /\ WordsIn(wire) = MaxWords
    BY <1>3, <1>7, FrameAssumption DEF DecodeFull
  <2>2. PICK count \in At(wire, 2 * MaxWords + 7), flags \in At(wire, 2 * MaxWords + 8) :
            rx' = WithFooter(WithHeader(rx, wire), count, flags)
    <3>1. headerSize + 2 * WordsIn(wire) + 1 = 2 * MaxWords + 7
      BY <2>1, FrameAssumption DEF headerSize
    <3>2. (2 * MaxWords + 7) + 1 = 2 * MaxWords + 8
      BY FrameAssumption
    <3> QED BY <1>7, <3>1, <3>2, Zenon DEF DecodeFull
  <2>3. overread' = (2 * MaxWords + 8 > Len(wire))
    BY <1>7, <2>1, FrameAssumption DEF DecodeFull, headerSize
  <2>4. DataSlips'
    BY <1>1, <1>4, <2>2, FooterFields, DataDecoded
  <2>5. rx'.registerAddress = origin.registerAddress
    <3>1. rx'.registerAddress = WithHeader(rx, wire).registerAddress
      BY <1>4, <2>2, FooterFields
    <3> QED BY <1>5, <3>1, Zenon
  <2>6. OverreadOnlyAtEdge'
    <3>1. 2 * MaxWords + 8 > 2 * n + 10 <=> n = MaxWords - 2
      BY <2>1, FrameAssumption
    <3>2. overread' <=> Len(origin.data) = MaxWords - 2
      BY <1>2, <2>3, <3>1
    <3> QED BY <1>1, <3>2 DEF OverreadOnlyAtEdge
  <2>7. ASSUME n = MaxWords
        PROVE  /\ rx'.cnt = origin.cnt
               /\ rx'.completion = origin.completion
               /\ rx'.completionWithConditional = origin.completionWithConditional
    <3>1. 2 * MaxWords + 7 <= Len(wire) /\ 2 * MaxWords + 8 <= Len(wire)
      BY <1>2, <2>7
    <3>2. count = origin.cnt
      BY <1>2, <2>7, <3>1 DEF At
    <3>3. flags = Flag(origin.completion) + 2 * Flag(origin.completionWithConditional)
      BY <1>2, <2>7, <3>1 DEF At
    <3>4. origin.completion \in BOOLEAN /\ origin.completionWithConditional \in BOOLEAN
      BY DEF CodecInv, FrameType
    <3>5. /\ (flags % 2 = 1) = origin.completion
          /\ ((flags \div 2) % 2 = 1) = origin.completionWithConditional
      BY <3>3, <3>4, FlagsReturn, Zenon
    <3>6. /\ rx'.cnt = count
          /\ rx'.completion = (flags % 2 = 1)
          /\ rx'.completionWithConditional = ((flags \div 2) % 2 = 1)
      BY <1>4, <2>2, FooterFields
    <3> QED BY <3>2, <3>5, <3>6, Zenon
  <2>8. FullFrameAgrees'
    BY <1>1, <1>2, <2>5, <2>7 DEF FullFrameAgrees
  <2> QED BY <2>4, <2>6, <2>8 DEF DecodedInv
<1> QED BY <1>3, <1>6, <1>7 DEF Decode, DecodeRefused

\* Only decoding, and a new frame on the line, touch what the claims speak of.
LEMMA NextDecoded == CodecInv /\ DecodedInv /\ [Next]_vars => DecodedInv'
<1> SUFFICES ASSUME CodecInv, DecodedInv, [Next]_vars PROVE DecodedInv'
  OBVIOUS
<1> USE DEF DecodedInv, FullFrameAgrees, DataSlips, OverreadOnlyAtEdge, Received
<1>1. CASE ~(decoded' /\ line' = "intact")
  BY <1>1
<1>2. CASE UNCHANGED <<rx, origin, line, decoded, overread>>
  BY <1>2
<1>3. CASE Decode /\ line' = "intact"
  <2>1. line = "intact"
    BY <1>3 DEF Decode, DecodeRefused, DecodeShort, DecodeFull
  <2> QED BY <1>3, <2>1, DecodeClaims
<1>4. \/ ~(decoded' /\ line' = "intact")
      \/ UNCHANGED <<rx, origin, line, decoded, overread>>
      \/ Decode /\ line' = "intact"
  BY DEF Next, vars, Set, Encode, Damage, Cut
<1> QED BY <1>1, <1>2, <1>3, <1>4

\* Nothing is decoded at first.
LEMMA InitDecoded == Init => DecodedInv
BY DEF Init, DecodedInv, FullFrameAgrees, DataSlips, OverreadOnlyAtEdge, Received

\* The invariant and the claims hold throughout.
LEMMA CodecAlways == Spec => [](CodecInv /\ DecodedInv)
BY InitCodec, InitDecoded, NextCodec, NextDecoded, PTL DEF Spec

\* For frames of any contents and length, and any MaxWords: encodeFrame and
\* decodeFrame agree on the register address, and on counter and flags if the
\* frame has as many words as the loop takes.
THEOREM FullFramesAgree == Spec => []FullFrameAgrees
<1>1. DecodedInv => FullFrameAgrees
  BY DEF DecodedInv
<1> QED BY <1>1, CodecAlways, PTL

\* Likewise: the data that decodeFrame finds are those of encodeFrame moved by
\* one byte.
THEOREM DataAlwaysSlips == Spec => []DataSlips
<1>1. DecodedInv => DataSlips
  BY DEF DecodedInv
<1> QED BY <1>1, CodecAlways, PTL

\* Of the frames that encodeFrame makes, decodeFrame reads past the end of those
\* with two words less than the loop takes, and of no others.
THEOREM OverreadEdge == Spec => []OverreadOnlyAtEdge
<1>1. DecodedInv => OverreadOnlyAtEdge
  BY DEF DecodedInv
<1> QED BY <1>1, CodecAlways, PTL

\* A frame with fewer words than that leaves the counter and the flags of the
\* receiving Frame as an earlier frame set them.
THEOREM FooterGoesStale == Spec => ShortFrameKeepsFooter
<1> DEFINE Kept == decoded' /\ line = "intact" /\ Len(origin.data) < MaxWords - 2
                    => /\ rx'.cnt = rx.cnt
                       /\ rx'.completion = rx.completion
                       /\ rx'.completionWithConditional = rx.completionWithConditional
<1>1. CodecInv /\ [Next]_vars => [Kept]_vars
  <2> SUFFICES ASSUME CodecInv, [Next]_vars, decoded', line = "intact",
                      Len(origin.data) < MaxWords - 2, rx' # rx
               PROVE  /\ rx'.cnt = rx.cnt
                      /\ rx'.completion = rx.completion
                      /\ rx'.completionWithConditional = rx.completionWithConditional
    OBVIOUS
  <2>1. DecodeShort \/ DecodeFull
    BY DEF Next, vars, Set, Encode, Damage, Cut, Decode, DecodeRefused
  <2>2. frames > 0
    BY <2>1 DEF DecodeShort, DecodeFull, Pending
  <2>3. Len(origin.data) \in Nat
    BY LenProperties DEF CodecInv, FrameType
  <2>4. WordsIn(wire) \in Nat /\ WordsIn(wire) < MaxWords
    BY <2>2, <2>3, WordsTaken, FrameAssumption
  <2>5. DecodeShort
    <3>1. ~(WordsIn(wire) >= MaxWords)
      BY <2>4, FrameAssumption
    <3> QED BY <2>1, <3>1 DEF DecodeFull
  <2> QED BY <2>5, HeaderFields DEF DecodeShort, CodecInv
<1> QED BY <1>1, CodecAlways, PTL DEF Spec, ShortFrameKeepsFooter

-----------------------------------------------------------------------------
(* What the CRC tells.                                                     *)

\* CrcTells, and that nothing is on the line before the first frame.
CrcInv ==
    /\ CrcTells
    /\ frames = 0 => wire = <<>> /\ line = "intact"

\* An empty line.
LEMMA InitCrc == Init => CrcInv
BY DEF Init, CrcInv, CrcTells

\* The line changes one byte of a frame, so its CRC is no longer zero.
LEMMA DamageTells ==
    ASSUME CodecInv, CrcInv, Damage
    PROVE  calculateCRC(wire') # 0
<1>1. frames > 0 /\ line = "intact" /\ origin \in FrameType /\ wire = encodeFrame(origin)
  BY DEF Damage, CrcInv, CodecInv
<1>2. wire \in Seq(Byte) /\ calculateCRC(wire) = 0
  BY <1>1, EncodedCrc
<1>3. PICK i \in DOMAIN wire, mask \in Masks : wire' = [wire EXCEPT ![i] = XorByte(@, mask)]
  BY DEF Damage
<1>4. mask \in Byte /\ mask # 0
  BY FrameAssumption
<1>5. i \in 1 .. Len(wire) /\ wire[i] \in Byte
  BY <1>2
<1>6. XorByte(wire[i], mask) \in Byte /\ XorByte(wire[i], mask) # wire[i]
  BY <1>4, <1>5, XorChanges
<1> DEFINE x == XorByte(wire[i], mask)
<1>7. wire' = [wire EXCEPT ![i] = x]
  BY <1>3
<1> HIDE DEF x
<1>8. calculateCRC([wire EXCEPT ![i] = x]) # calculateCRC(wire)
  BY <1>2, <1>5, <1>6, OneByteTells DEF x
<1> QED BY <1>2, <1>7, <1>8

\* Encoding establishes it, and what is on the line is changed by the line alone.
LEMMA NextCrc == CodecInv /\ CrcInv /\ [Next]_vars => CrcInv'
<1> SUFFICES ASSUME CodecInv, CrcInv, [Next]_vars PROVE CrcInv'
  OBVIOUS
<1>1. ASSUME NEW field \in Fields, Set(field) PROVE CrcInv'
  BY <1>1 DEF Set, CrcInv, CrcTells
<1>2. CASE Encode
  <2>1. calculateCRC(wire') = 0 /\ line' = "intact"
    BY <1>2, EncodedCrc DEF Encode, CodecInv
  <2>2. frames' # 0
    BY <1>2 DEF Encode, CodecInv
  <2> QED BY <2>1, <2>2 DEF CrcInv, CrcTells
<1>3. CASE Damage
  <2>1. calculateCRC(wire') # 0
    BY <1>3, DamageTells
  <2>2. line' = "damaged" /\ frames' = frames /\ frames # 0
    BY <1>3 DEF Damage, CrcInv
  <2> QED BY <2>1, <2>2 DEF CrcInv, CrcTells
<1>4. CASE Cut
  <2>1. line' = "cut" /\ frames' = frames /\ frames # 0
    BY <1>4 DEF Cut, CrcInv
  <2> QED BY <2>1 DEF CrcInv, CrcTells
<1>5. CASE Decode
  BY <1>5 DEF Decode, DecodeRefused, DecodeShort, DecodeFull, CrcInv, CrcTells
<1>6. CASE UNCHANGED vars
  BY <1>6 DEF vars, CrcInv, CrcTells
<1> QED BY <1>1, <1>2, <1>3, <1>4, <1>5, <1>6 DEF Next

\* The CRC of every frame that goes over the line intact is zero and that of every
\* frame of which one byte was changed is not: for any contents, any length, any
\* byte and any change of it.
THEOREM CrcAlwaysTells == Spec => []CrcTells
<1>1. CrcInv => CrcTells
  BY DEF CrcInv
<1> QED BY <1>1, InitCodec, NextCodec, InitCrc, NextCrc, PTL DEF Spec
=============================================================================
