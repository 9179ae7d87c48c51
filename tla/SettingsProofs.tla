--------------------------- MODULE SettingsProofs ---------------------------
(***************************************************************************)
(* Proofs about the settings file: what set_value, called by any number of *)
(* processes that overlap or give up, does to the lines of the file, and   *)
(* what get_value and get_line find there.  LoginProofs states the         *)
(* theorems, for the specification that runs these functions.              *)
(*                                                                         *)
(* The loops over the lines are recursive functions.  Each is shown to     *)
(* have a value and then unfolded; inductions start from the least number  *)
(* for which the claim would fail.                                         *)
(***************************************************************************)
EXTENDS Settings, SequenceTheorems, WellFoundedInduction, TLAPS

-----------------------------------------------------------------------------
(* Numbers.                                                                *)

\* A set of natural numbers that is not empty has a smallest element.
LEMMA Smallest ==
    ASSUME NEW S \in SUBSET Nat, S # {}
    PROVE  Min(S) \in S /\ \A y \in S : Min(S) <= y
<1>1. \E x \in S : \A y \in S : ~(<<y, x>> \in OpToRel(<, Nat))
    BY NatLessThanWellFounded, WFMin, Zenon
<1> DEFINE R == {ss \in Nat \X Nat : ss[1] < ss[2]}
<1>2. OpToRel(<, Nat) = R
    BY Zenon DEF OpToRel
<1>3. \A x, y \in Nat : ~(<<y, x>> \in R) => x <= y
    OBVIOUS
<1> HIDE DEF R
<1>4. \E x \in S : \A y \in S : x <= y
  <2>1. \E x \in S : \A y \in S : ~(<<y, x>> \in R)
    BY <1>1, <1>2, Zenon
  <2> QED  BY <1>3, <2>1, Zenon
<1>5. QED
    BY <1>4 DEF Min

\* What is in the set and not larger than anything in it is its minimum.
LEMMA MinIs ==
    ASSUME NEW S \in SUBSET Nat, NEW x \in S, \A y \in S : x <= y
    PROVE  Min(S) = x
<1>1. S # {} /\ S \in SUBSET Nat
    OBVIOUS
<1> DEFINE m == Min(S)
<1>2. m \in S /\ m <= x
    BY <1>1, Smallest
<1> HIDE DEF m
<1>3. m \in Nat /\ x \in Nat /\ x <= m
    BY <1>2
<1>4. m = x
    BY <1>2, <1>3
<1> QED  BY <1>4 DEF m

\* A set of numbers up to n that is not empty has a largest element.
LEMMA Largest ==
    ASSUME NEW n \in Nat, NEW S \in SUBSET (0 .. n), S # {}
    PROVE  \E x \in S : \A y \in S : y <= x
<1> DEFINE T == {k \in 0 .. n : n - k \in S}
<1>1. T \in SUBSET Nat /\ T # {}
  <2>1. PICK s \in S : TRUE
    OBVIOUS
  <2>2. n - s \in 0 .. n /\ n - (n - s) = s
    BY <2>1
  <2> QED  BY <2>2
<1>2. Min(T) \in T /\ \A y \in T : Min(T) <= y
    BY <1>1, Smallest
<1>3. ASSUME NEW y \in S PROVE y <= n - Min(T)
  <2>1. n - y \in T /\ y \in 0 .. n
    OBVIOUS
  <2> QED  BY <1>2, <2>1
<1> QED  BY <1>2, <1>3

\* Induction over the natural numbers.
LEMMA Induction ==
    ASSUME NEW S \in SUBSET Nat, 0 \in S, \A n \in S : n + 1 \in S
    PROVE  S = Nat
<1> SUFFICES ASSUME Nat \ S # {} PROVE FALSE
    OBVIOUS
<1> DEFINE m == Min(Nat \ S)
<1>1. m \in Nat \ S /\ \A y \in Nat \ S : m <= y
    BY Smallest
<1> HIDE DEF m
<1>2. m - 1 \in Nat /\ m - 1 \in S /\ (m - 1) + 1 = m
    BY <1>1
<1> QED  BY <1>1, <1>2
-----------------------------------------------------------------------------
(* Lines.                                                                  *)

Chars == (STRING \ {"nul"}) \cup {"=", "nl"}
Text == Seq(Chars)

\* The names, values and the delivered file are texts.
LEMMA TextsAreTexts ==
    /\ Seq(STRING \ {"nul"}) \subseteq Text
    /\ \A ch \in Chars : <<ch>> \in Text
<1>1. \A S, T, s : S \subseteq T /\ s \in Seq(S) => s \in Seq(T)
  <2> SUFFICES ASSUME NEW S, NEW T, NEW s, S \subseteq T, s \in Seq(S) PROVE s \in Seq(T)
    OBVIOUS
  <2>1. s \in [1 .. Len(s) -> S] /\ Len(s) \in Nat
    OBVIOUS
  <2>2. s \in [1 .. Len(s) -> T]
    BY <2>1
  <2> QED  BY <2>1, <2>2
<1>2. STRING \ {"nul"} \subseteq Chars
    BY DEF Chars
<1>3. ASSUME NEW ch \in Chars PROVE <<ch>> \in Text
    BY DEF Text
<1> QED  BY <1>1, <1>2, <1>3, Zenon DEF Text

\* Position a of the text f is the start of a line, and b is the end of it.
Starts(f, a) == a = 1 \/ f[a - 1] = "nl"
LineAt(f, a, b) ==
    /\ a \in 1 .. Len(f) /\ b \in a .. Len(f)
    /\ Starts(f, a)
    /\ f[b] = "nl"
    /\ \A j \in a .. b - 1 : f[j] # "nl"

\* The lines of f.
Lines(f) ==
    {SubSeq(f, ab[1], ab[2]) : ab \in {cd \in (1 .. Len(f)) \X (1 .. Len(f)) :
                                            LineAt(f, cd[1], cd[2])}}

\* A text of whole lines each of which fits the array line.
Good(f) ==
    /\ f \in Text /\ f # <<>>
    /\ f[Len(f)] = "nl"
    /\ \A a \in 1 .. Len(f) : \A b \in a .. Len(f) : LineAt(f, a, b) => b - a + 1 < LineMax

\* One such line.
IsLine(w) ==
    /\ w \in Text /\ w # <<>>
    /\ w[Len(w)] = "nl"
    /\ \A j \in 1 .. Len(w) - 1 : w[j] # "nl"
    /\ Len(w) < LineMax

\* A line lies between the places where it starts and where it ends.
LEMMA LinesDef ==
    ASSUME NEW f, NEW w
    PROVE  w \in Lines(f) <=> \E a \in 1 .. Len(f) : \E b \in a .. Len(f) :
                                    LineAt(f, a, b) /\ w = SubSeq(f, a, b)
<1>1. ASSUME w \in Lines(f)
      PROVE  \E a \in 1 .. Len(f) : \E b \in a .. Len(f) : LineAt(f, a, b) /\ w = SubSeq(f, a, b)
  <2>1. PICK ab \in (1 .. Len(f)) \X (1 .. Len(f)) :
            LineAt(f, ab[1], ab[2]) /\ w = SubSeq(f, ab[1], ab[2])
    BY <1>1 DEF Lines
  <2>2. ab[1] \in 1 .. Len(f) /\ ab[2] \in ab[1] .. Len(f)
    BY <2>1 DEF LineAt
  <2> QED  BY <2>1, <2>2
<1>2. ASSUME NEW a \in 1 .. Len(f), NEW b \in a .. Len(f), LineAt(f, a, b), w = SubSeq(f, a, b)
      PROVE  w \in Lines(f)
  <2>1. b \in 1 .. Len(f)
    BY <1>2
  <2>2. <<a, b>> \in {cd \in (1 .. Len(f)) \X (1 .. Len(f)) : LineAt(f, cd[1], cd[2])}
    BY <1>2, <2>1
  <2>3. w = SubSeq(f, <<a, b>>[1], <<a, b>>[2])
    BY <1>2
  <2> QED  BY <2>2, <2>3 DEF Lines
<1> QED  BY <1>1, <1>2

\* Facts about a text and a part of it.
LEMMA PartOf ==
    ASSUME NEW f \in Text, NEW a \in 1 .. Len(f), NEW b \in a .. Len(f)
    PROVE  /\ SubSeq(f, a, b) \in Text
           /\ Len(SubSeq(f, a, b)) = b - a + 1
           /\ \A i \in 1 .. b - a + 1 : SubSeq(f, a, b)[i] = f[a + i - 1]
<1>1. Len(f) \in Nat /\ a \in Nat /\ b \in Nat /\ a <= b /\ b <= Len(f) /\ 1 <= a
    BY DEF Text
<1> QED  BY <1>1, SubSeqProperties DEF Text

\* The lines of a good text are lines.
LEMMA LinesAreLines ==
    ASSUME NEW f, Good(f), NEW w \in Lines(f)
    PROVE  IsLine(w)
<1>1. PICK a \in 1 .. Len(f) : \E b \in a .. Len(f) : LineAt(f, a, b) /\ w = SubSeq(f, a, b)
    BY LinesDef
<1>2. PICK b \in a .. Len(f) : LineAt(f, a, b) /\ w = SubSeq(f, a, b)
    BY <1>1
<1>3. f \in Text /\ Len(f) \in Nat /\ b - a + 1 < LineMax
    BY <1>2 DEF Good, Text
<1>4. /\ w \in Text /\ Len(w) = b - a + 1
      /\ \A i \in 1 .. b - a + 1 : w[i] = f[a + i - 1]
    BY <1>2, <1>3, PartOf
<1>5. Len(w) \in Nat \ {0} /\ a + Len(w) - 1 = b /\ Len(w) \in 1 .. b - a + 1
    BY <1>3, <1>4
<1>6. w[Len(w)] = "nl"
    BY <1>2, <1>4, <1>5 DEF LineAt
<1>7. ASSUME NEW j \in 1 .. Len(w) - 1 PROVE w[j] # "nl"
  <2>1. a + j - 1 \in a .. b - 1 /\ j \in 1 .. b - a + 1
    BY <1>3, <1>4
  <2> QED  BY <1>2, <1>4, <2>1 DEF LineAt
<1>8. w # <<>>
    BY <1>5
<1> QED  BY <1>3, <1>4, <1>6, <1>7, <1>8 DEF IsLine

-----------------------------------------------------------------------------
(* What fgets returns.                                                     *)

\* fgets takes at least one character, and none behind the end.
LEMMA PieceEndRange ==
    ASSUME NEW f \in Text, NEW i \in 0 .. Len(f)
    PROVE  PieceEnd(f, i) \in i .. Len(f)
<1> DEFINE newlines == {j \in i .. Len(f) : f[j] = "nl"}
           S == newlines \cup {i + LineMax - 2, Len(f)}
<1>1. Len(f) \in Nat /\ i \in Nat /\ i <= Len(f) /\ i + LineMax - 2 \in Nat /\ i <= i + LineMax - 2
    BY SettingsAssumption DEF Text
<1>2. S \in SUBSET Nat /\ Len(f) \in S /\ \A y \in S : i <= y
    BY <1>1
<1> HIDE DEF S
<1> DEFINE m == Min(S)
<1>3. m \in S /\ m <= Len(f)
    BY <1>2, Smallest
<1> HIDE DEF m
<1>4. m \in i .. Len(f)
    BY <1>1, <1>2, <1>3
<1> QED  BY <1>4 DEF m, S, PieceEnd

\* From the start of a line on, fgets returns that line.
LEMMA PieceIsLine ==
    ASSUME NEW f, Good(f), NEW i \in 1 .. Len(f), Starts(f, i)
    PROVE  LineAt(f, i, PieceEnd(f, i))
<1> DEFINE newlines == {j \in i .. Len(f) : f[j] = "nl"}
           m == Min(newlines)
           S == newlines \cup {i + LineMax - 2, Len(f)}
<1>1. Len(f) \in Nat /\ i \in Nat /\ LineMax \in Nat
    BY SettingsAssumption DEF Good, Text
<1>2. newlines \in SUBSET Nat /\ Len(f) \in newlines
    BY <1>1 DEF Good
<1>3. m \in newlines /\ \A y \in newlines : m <= y
    BY <1>2, Smallest
<1> HIDE DEF m
<1>4. m \in i .. Len(f) /\ f[m] = "nl" /\ \A j \in i .. m - 1 : f[j] # "nl"
  <2>1. m \in i .. Len(f) /\ f[m] = "nl"
    BY <1>3
  <2>2. ASSUME NEW j \in i .. m - 1, f[j] = "nl" PROVE FALSE
    <3>1. j \in newlines
      BY <1>1, <2>1, <2>2
    <3> QED  BY <1>1, <1>3, <2>1, <3>1
  <2> QED  BY <2>1, <2>2
<1>5. LineAt(f, i, m)
    BY <1>4 DEF LineAt
<1>6. m - i + 1 < LineMax
    BY <1>4, <1>5 DEF Good
<1>7. S \in SUBSET Nat /\ m \in S /\ \A y \in S : m <= y
    BY <1>1, <1>2, <1>3, <1>4, <1>6, SettingsAssumption
<1> HIDE DEF S
<1>8. Min(S) = m
    BY <1>7, MinIs
<1> QED  BY <1>5, <1>8 DEF S, PieceEnd

\* The recursion of Pieces.
Following(f, g, i) ==
    IF i > Len(f) THEN <<>>
    ELSE <<SubSeq(f, i, PieceEnd(f, i))>> \o g[PieceEnd(f, i) + 1]

\* The recursive function in Pieces has a value.
LEMMA PiecesExist ==
    ASSUME NEW f \in Text
    PROVE  \E g : g = [i \in Nat |-> Following(f, g, i)]
<1> DEFINE From(n, g) == g = [i \in Nat |-> g[i]] /\ \A i \in Nat : n - i <= 0 => g[i] = Following(f, g, i)
           S == {k \in Nat : \E g : From(Len(f) + 1 - k, g)}
<1>1. Len(f) \in Nat
    BY DEF Text
<1>2. 0 \in S
  <2> DEFINE g == [i \in Nat |-> <<>>]
  <2>1. \A i \in Nat : Len(f) + 1 - i <= 0 => g[i] = Following(f, g, i)
    BY <1>1 DEF Following
  <2>2. From(Len(f) + 1 - 0, g)
    BY <1>1, <2>1
  <2> QED  BY <2>2
<1>3. ASSUME NEW k \in S PROVE k + 1 \in S
  <2>1. PICK g : From(Len(f) + 1 - k, g)
    OBVIOUS
  <2> DEFINE n == Len(f) - k
             h == [i \in Nat |-> IF i = n THEN Following(f, g, n) ELSE g[i]]
  <2>2. n \in Int /\ Len(f) + 1 - k = n + 1 /\ Len(f) + 1 - (k + 1) = n /\ n <= Len(f)
    BY <1>1
  <2>3. h = [i \in Nat |-> h[i]]
    OBVIOUS
  <2> HIDE DEF n
  <2>4. ASSUME NEW i \in Nat, n - i <= 0 PROVE h[i] = Following(f, h, i)
    <3>1. i <= Len(f) => PieceEnd(f, i) + 1 \in Nat /\ PieceEnd(f, i) + 1 # n /\ PieceEnd(f, i) + 1 > i
      <4>1. ASSUME i <= Len(f) PROVE PieceEnd(f, i) \in i .. Len(f)
        BY <1>1, <4>1, PieceEndRange
      <4> QED  BY <1>1, <2>2, <2>4, <4>1
    <3>2. Following(f, h, i) = Following(f, g, i)
      <4>1. CASE i > Len(f)
        BY <4>1 DEF Following
      <4>2. CASE ~(i > Len(f))
        <5>1. \A j \in Nat : j # n => h[j] = g[j]
          OBVIOUS
        <5> HIDE DEF h
        <5>2. h[PieceEnd(f, i) + 1] = g[PieceEnd(f, i) + 1]
          BY <1>1, <3>1, <4>2, <5>1
        <5> QED  BY <4>2, <5>2, Zenon DEF Following
      <4> QED  BY <4>1, <4>2
    <3>3. CASE i = n
      BY <3>2, <3>3
    <3>4. CASE i # n
      <4>1. (n + 1) - i <= 0
        BY <2>2, <2>4, <3>4
      <4>2. g[i] = Following(f, g, i)
        BY <2>1, <2>2, <4>1
      <4> QED  BY <3>2, <3>4, <4>2
    <3> QED  BY <3>3, <3>4
  <2>5. From(n, h)
    BY <2>3, <2>4
  <2> HIDE DEF h
  <2>6. k + 1 \in Nat
    OBVIOUS
  <2> QED  BY <2>2, <2>5, <2>6
<1> HIDE DEF From
<1>4. S = Nat
    BY <1>2, <1>3, Induction
<1>5. PICK g : From(0, g)
  <2>1. Len(f) + 1 \in Nat /\ Len(f) + 1 - (Len(f) + 1) = 0
    BY <1>1
  <2>2. Len(f) + 1 \in S
    BY <1>4, <2>1, Zenon
  <2> QED  BY <2>1, <2>2
<1>6. \A i \in Nat : g[i] = Following(f, g, i)
    BY <1>5 DEF From
<1>7. g = [i \in Nat |-> Following(f, g, i)]
    BY <1>5, <1>6, Zenon DEF From
<1> QED  BY <1>7

\* What is read from position i on is From(f)[i].
From(f) == CHOOSE g : g = [i \in Nat |-> Following(f, g, i)]

\* So Pieces can be unfolded, from the first position on.
LEMMA PiecesFrom ==
    ASSUME NEW f \in Text
    PROVE  /\ Pieces(f) = From(f)[1]
           /\ \A i \in Nat : From(f)[i] = Following(f, From(f), i)
<1> DEFINE from[i \in Nat] ==
            IF i > Len(f) THEN <<>>
            ELSE <<SubSeq(f, i, PieceEnd(f, i))>> \o from[PieceEnd(f, i) + 1]
<1>1. from = From(f)
    BY Zenon DEF from, From, Following
<1>2. Pieces(f) = from[1]
    BY Zenon DEF Pieces, from
<1> HIDE DEF from
<1>3. From(f) = [i \in Nat |-> Following(f, From(f), i)]
    BY PiecesExist, Zenon DEF From
<1>4. \A i \in Nat : From(f)[i] = Following(f, From(f), i)
    BY <1>3, Zenon
<1> QED  BY <1>1, <1>2, <1>4

\* Two steps that the proofs about From have in common.
LEMMA FromEnd ==
    ASSUME NEW f \in Text
    PROVE  From(f)[Len(f) + 1] = <<>>
<1>1. Len(f) + 1 \in Nat /\ Len(f) + 1 > Len(f)
    BY DEF Text
<1> QED  BY <1>1, PiecesFrom DEF Following

\* One more line is read.
LEMMA FromLine ==
    ASSUME NEW f, Good(f), NEW a \in 1 .. Len(f), NEW b \in a .. Len(f), LineAt(f, a, b)
    PROVE  From(f)[a] = <<SubSeq(f, a, b)>> \o From(f)[b + 1]
<1>1. f \in Text /\ Len(f) \in Nat /\ a \in Nat /\ ~(a > Len(f))
    BY DEF Good, Text
<1> DEFINE e == PieceEnd(f, a)
<1>2. LineAt(f, a, e)
    BY PieceIsLine DEF LineAt
<1> HIDE DEF e
<1>3. e = b
  <2>1. e \in a .. Len(f) /\ f[e] = "nl" /\ f[b] = "nl"
        /\ (\A j \in a .. e - 1 : f[j] # "nl") /\ (\A j \in a .. b - 1 : f[j] # "nl")
    BY <1>2 DEF LineAt
  <2>2. ~(e \in a .. b - 1) /\ ~(b \in a .. e - 1)
    BY <2>1
  <2> QED  BY <1>1, <2>1, <2>2
<1>4. From(f)[a] = Following(f, From(f), a)
    BY <1>1, PiecesFrom
<1> QED  BY <1>1, <1>3, <1>4, Zenon DEF Following, e

\* Every position is in a line: the one before it ends somewhere.
LEMMA LineOf ==
    ASSUME NEW f, Good(f), NEW i \in 1 .. Len(f)
    PROVE  \E a \in 1 .. i : \E b \in i .. Len(f) : LineAt(f, a, b)
<1> DEFINE S == {j \in 0 .. i : j < i /\ (j = 0 \/ f[j] = "nl")}
<1>1. Len(f) \in Nat /\ i \in Nat /\ 0 \in S
    BY DEF Good, Text
<1>2. S \in SUBSET (0 .. i)
    OBVIOUS
<1>3. PICK x \in S : \A y \in S : y <= x
    BY <1>1, <1>2, Largest
<1>4. x + 1 \in 1 .. i /\ x + 1 \in 1 .. Len(f) /\ Starts(f, x + 1)
    BY <1>1, <1>3 DEF Starts
<1>5. LineAt(f, x + 1, PieceEnd(f, x + 1))
    BY <1>4, PieceIsLine
<1>6. PieceEnd(f, x + 1) \in i .. Len(f)
  <2> DEFINE b == PieceEnd(f, x + 1)
  <2>1. b \in x + 1 .. Len(f) /\ f[b] = "nl"
    BY <1>5 DEF LineAt
  <2> HIDE DEF b
  <2>2. b < i => b \in S
    BY <1>1, <1>3, <2>1
  <2>3. b >= i
    BY <1>1, <1>3, <2>1, <2>2
  <2>4. b \in i .. Len(f)
    BY <1>1, <1>3, <2>1, <2>3
  <2> QED  BY <2>4 DEF b
<1> QED  BY <1>4, <1>5, <1>6

\* The elements of a sequence with another one in front or behind.
LEMMA ToSetConcat ==
    ASSUME NEW T, NEW s \in Seq(T), NEW t \in Seq(T)
    PROVE  ToSet(s \o t) = ToSet(s) \cup ToSet(t)
<1> DEFINE u == s \o t
<1>1. /\ Len(s) \in Nat /\ DOMAIN s = 1 .. Len(s) /\ Len(t) \in Nat /\ DOMAIN t = 1 .. Len(t)
      /\ DOMAIN u = 1 .. Len(s) + Len(t)
      /\ \A i \in 1 .. Len(s) : u[i] = s[i]
      /\ \A i \in 1 .. Len(t) : u[Len(s) + i] = t[i]
    OBVIOUS
<1> HIDE DEF u
<1>2. ASSUME NEW i \in DOMAIN u PROVE u[i] \in ToSet(s) \cup ToSet(t)
  <2>1. CASE i <= Len(s)
    BY <1>1, <2>1 DEF ToSet
  <2>2. CASE ~(i <= Len(s))
    <3>1. i - Len(s) \in 1 .. Len(t) /\ Len(s) + (i - Len(s)) = i
      BY <1>1, <2>2
    <3>2. u[i] = t[i - Len(s)]
      BY <1>1, <3>1
    <3> QED  BY <1>1, <3>1, <3>2 DEF ToSet
  <2> QED  BY <2>1, <2>2
<1>3. ASSUME NEW i \in DOMAIN s PROVE s[i] \in ToSet(u)
  <2>1. i \in DOMAIN u /\ u[i] = s[i]
    BY <1>1
  <2> QED  BY <2>1 DEF ToSet
<1>4. ASSUME NEW i \in DOMAIN t PROVE t[i] \in ToSet(u)
  <2>1. Len(s) + i \in DOMAIN u /\ u[Len(s) + i] = t[i]
    BY <1>1
  <2> QED  BY <2>1 DEF ToSet
<1>5. ToSet(u) = ToSet(s) \cup ToSet(t)
    BY <1>2, <1>3, <1>4 DEF ToSet
<1> QED  BY <1>5 DEF u

\* The elements of a sequence with one more in front.
LEMMA ToSetCons ==
    ASSUME NEW T, NEW w \in T, NEW s \in Seq(T)
    PROVE  ToSet(<<w>> \o s) = {w} \cup ToSet(s)
<1> DEFINE v == <<w>>
<1>1. v \in Seq(T) /\ ToSet(v) = {w}
    BY DEF ToSet
<1> HIDE DEF v
<1>2. ToSet(v \o s) = ToSet(v) \cup ToSet(s)
    BY <1>1, ToSetConcat
<1> QED  BY <1>1, <1>2 DEF v

\* The lines from position i on.
LinesFrom(f, i) ==
    {w \in Lines(f) : \E a \in 1 .. Len(f) : \E b \in a .. Len(f) :
                            i <= a /\ LineAt(f, a, b) /\ w = SubSeq(f, a, b)}

\* From the start of a line on, successive calls of fgets return lines.
LEMMA FromLines ==
    ASSUME NEW f, Good(f)
    PROVE  \A i \in 1 .. Len(f) + 1 : Starts(f, i) =>
                From(f)[i] \in Seq(Text) /\ ToSet(From(f)[i]) = LinesFrom(f, i)
<1> DEFINE Ok(i) == From(f)[i] \in Seq(Text) /\ ToSet(From(f)[i]) = LinesFrom(f, i)
           S == {i \in 0 .. Len(f) + 1 : i > 0 /\ Starts(f, i) /\ ~Ok(i)}
<1> SUFFICES ASSUME S # {} PROVE FALSE
    OBVIOUS
<1>1. f \in Text /\ Len(f) \in Nat /\ Len(f) + 1 \in Nat /\ S \in SUBSET (0 .. Len(f) + 1)
    BY DEF Good, Text
<1>2. PICK i \in S : \A y \in S : y <= i
    BY <1>1, Largest, Zenon
<1>3. i \in 1 .. Len(f) + 1 /\ Starts(f, i) /\ ~Ok(i)
    BY <1>1
<1>4. CASE i = Len(f) + 1
  <2>1. From(f)[i] = <<>>
    BY <1>1, <1>4, FromEnd
  <2>2. LinesFrom(f, i) = {}
    BY <1>1, <1>4 DEF LinesFrom
  <2>3. Ok(i)
    BY <2>1, <2>2 DEF ToSet
  <2> QED  BY <1>3, <2>3
<1>5. CASE i # Len(f) + 1
  <2>1. i \in 1 .. Len(f)
    BY <1>1, <1>3, <1>5
  <2>2. PICK b \in i .. Len(f) : LineAt(f, i, b)
    BY <1>3, <2>1, PieceIsLine DEF LineAt
  <2>3. b + 1 \in 1 .. Len(f) + 1 /\ b + 1 \in 0 .. Len(f) + 1 /\ b + 1 > i /\ Starts(f, b + 1)
    BY <1>1, <2>1, <2>2 DEF LineAt, Starts
  <2>4. Ok(b + 1)
    <3>1. ~(b + 1 \in S)
      BY <1>1, <1>2, <1>3, <2>3
    <3> QED  BY <2>3, <3>1
  <2>5. From(f)[i] = <<SubSeq(f, i, b)>> \o From(f)[b + 1] /\ SubSeq(f, i, b) \in Text
    BY <1>1, <2>1, <2>2, FromLine, PartOf
  <2> HIDE DEF Ok
  <2>6. /\ From(f)[i] \in Seq(Text)
        /\ ToSet(From(f)[i]) = {SubSeq(f, i, b)} \cup ToSet(From(f)[b + 1])
    <3> DEFINE s == From(f)[b + 1]
               w == SubSeq(f, i, b)
    <3>1. s \in Seq(Text) /\ w \in Text
      BY <2>4, <2>5 DEF Ok
    <3> HIDE DEF s, w
    <3>2. <<w>> \o s \in Seq(Text)
      BY <3>1
    <3>3. ToSet(<<w>> \o s) = {w} \cup ToSet(s)
      BY <3>1, ToSetCons
    <3> QED  BY <2>5, <3>2, <3>3 DEF s, w
  <2>7. LinesFrom(f, i) = {SubSeq(f, i, b)} \cup LinesFrom(f, b + 1)
    <3>1. SubSeq(f, i, b) \in LinesFrom(f, i)
      <4>1. SubSeq(f, i, b) \in Lines(f)
        BY <2>1, <2>2, LinesDef
      <4>2. i <= i
        BY <2>1
      <4> QED  BY <2>1, <2>2, <4>1, <4>2 DEF LinesFrom
    <3>2. LinesFrom(f, b + 1) \subseteq LinesFrom(f, i)
      BY <1>1, <2>1, <2>3 DEF LinesFrom
    <3>3. ASSUME NEW w \in LinesFrom(f, i), w # SubSeq(f, i, b)
          PROVE  w \in LinesFrom(f, b + 1)
      <4>1. PICK c \in 1 .. Len(f) : \E d \in c .. Len(f) :
                    i <= c /\ LineAt(f, c, d) /\ w = SubSeq(f, c, d)
        BY DEF LinesFrom
      <4>2. PICK d \in c .. Len(f) : i <= c /\ LineAt(f, c, d) /\ w = SubSeq(f, c, d)
        BY <4>1
      <4>3. b + 1 <= c
        <5>1. CASE c = i
          <6>1. f[b] = "nl" /\ f[d] = "nl"
                /\ (\A j \in i .. b - 1 : f[j] # "nl") /\ (\A j \in i .. d - 1 : f[j] # "nl")
            BY <2>2, <4>2, <5>1 DEF LineAt
          <6>2. ~(d \in i .. b - 1) /\ ~(b \in i .. d - 1)
            BY <6>1
          <6>3. b = d
            BY <1>1, <2>1, <2>2, <4>2, <5>1, <6>2
          <6> QED  BY <3>3, <4>2, <5>1, <6>3
        <5>2. CASE c # i
          <6>1. f[c - 1] = "nl" /\ c - 1 \in Nat /\ i <= c - 1
            BY <1>1, <2>1, <4>2, <5>2 DEF LineAt, Starts
          <6>2. ~(c - 1 \in i .. b - 1)
            BY <2>2, <6>1 DEF LineAt
          <6> QED  BY <1>1, <2>1, <2>2, <6>1, <6>2
        <5> QED  BY <5>1, <5>2
      <4> QED  BY <4>2, <4>3 DEF LinesFrom
    <3> QED  BY <3>1, <3>2, <3>3
  <2>8. Ok(i)
    BY <2>4, <2>6, <2>7 DEF Ok
  <2> QED  BY <1>3, <2>8
<1> QED  BY <1>4, <1>5

\* What fgets returns for a text of whole lines is its lines.
LEMMA PiecesLines ==
    ASSUME NEW f, Good(f)
    PROVE  /\ Pieces(f) \in Seq(Text) /\ Pieces(f) # <<>>
           /\ ToSet(Pieces(f)) = Lines(f)
           /\ \A i \in DOMAIN Pieces(f) : IsLine(Pieces(f)[i])
<1>1. f \in Text /\ Len(f) \in Nat /\ 1 \in 1 .. Len(f) /\ 1 \in 1 .. Len(f) + 1 /\ Starts(f, 1)
    BY DEF Good, Text, Starts
<1>2. Pieces(f) \in Seq(Text) /\ ToSet(Pieces(f)) = LinesFrom(f, 1)
    BY <1>1, PiecesFrom, FromLines
<1>3. LinesFrom(f, 1) = Lines(f)
  <2>1. \A a \in 1 .. Len(f) : 1 <= a
    OBVIOUS
  <2> QED  BY <2>1, LinesDef DEF LinesFrom
<1>4. SubSeq(f, 1, PieceEnd(f, 1)) \in Lines(f)
    BY <1>1, PieceIsLine, LinesDef DEF LineAt
<1>5. \A i \in DOMAIN Pieces(f) : Pieces(f)[i] \in Lines(f)
    BY <1>2, <1>3 DEF ToSet
<1>6. ToSet(<<>>) = {}
    BY DEF ToSet
<1> QED  BY <1>2, <1>3, <1>4, <1>5, <1>6, LinesAreLines

-----------------------------------------------------------------------------
(* Texts put together.                                                     *)

\* The characters of two texts, one behind the other.
LEMMA Concatenated ==
    ASSUME NEW g \in Text, NEW r \in Text
    PROVE  /\ g \o r \in Text /\ Len(g) \in Nat /\ Len(r) \in Nat
           /\ Len(g \o r) = Len(g) + Len(r)
           /\ \A i \in 1 .. Len(g) : (g \o r)[i] = g[i]
           /\ \A i \in 1 .. Len(r) : (g \o r)[Len(g) + i] = r[i]
BY DEF Text

\* In g and what follows it, lines of g are lines, and no line is partly in g.
LEMMA LinesInFront ==
    ASSUME NEW g, Good(g), NEW r \in Text
    PROVE  /\ \A a \in 1 .. Len(g) : \A b \in a .. Len(g) :
                    LineAt(g, a, b) <=> LineAt(g \o r, a, b)
           /\ \A a \in 1 .. Len(g) : \A b \in a .. Len(g) + Len(r) :
                    LineAt(g \o r, a, b) => b <= Len(g)
           /\ \A a \in 1 .. Len(g) : \A b \in a .. Len(g) :
                    SubSeq(g \o r, a, b) = SubSeq(g, a, b)
<1> DEFINE f == g \o r
<1>1. /\ g \in Text /\ f \in Text /\ Len(g) \in Nat \ {0} /\ Len(r) \in Nat
      /\ Len(f) = Len(g) + Len(r)
      /\ \A i \in 1 .. Len(g) : f[i] = g[i]
      /\ g[Len(g)] = "nl"
    BY Concatenated DEF Good, Text
<1> HIDE DEF f
<1>2. ASSUME NEW a \in 1 .. Len(g), NEW b \in a .. Len(g)
      PROVE  LineAt(g, a, b) <=> LineAt(f, a, b)
  <2>1. a \in 1 .. Len(f) /\ b \in a .. Len(f) /\ b \in 1 .. Len(g)
    BY <1>1
  <2>2. a = 1 \/ a - 1 \in 1 .. Len(g)
    BY <1>1
  <2>3. \A j \in a .. b - 1 : j \in 1 .. Len(g)
    BY <1>1
  <2>4. f[b] = g[b] /\ (Starts(g, a) <=> Starts(f, a))
    BY <1>1, <2>1, <2>2 DEF Starts
  <2> QED  BY <1>1, <2>1, <2>3, <2>4 DEF LineAt
<1>3. ASSUME NEW a \in 1 .. Len(g), NEW b \in a .. Len(g) + Len(r), LineAt(f, a, b)
      PROVE  b <= Len(g)
  <2>1. ~(Len(g) \in a .. b - 1)
    BY <1>1, <1>3 DEF LineAt
  <2> QED  BY <1>1, <2>1
<1>4. ASSUME NEW a \in 1 .. Len(g), NEW b \in a .. Len(g)
      PROVE  SubSeq(f, a, b) = SubSeq(g, a, b)
  <2>1. a \in 1 .. Len(f) /\ b \in a .. Len(f)
    BY <1>1
  <2> DEFINE u == SubSeq(f, a, b)
             v == SubSeq(g, a, b)
  <2>2. /\ u \in Text /\ Len(u) = b - a + 1
        /\ \A i \in 1 .. b - a + 1 : u[i] = f[a + i - 1]
    BY <1>1, <2>1, PartOf
  <2>3. /\ v \in Text /\ Len(v) = b - a + 1
        /\ \A i \in 1 .. b - a + 1 : v[i] = g[a + i - 1]
    BY <1>1, PartOf
  <2> HIDE DEF u, v
  <2>4. \A i \in 1 .. b - a + 1 : a + i - 1 \in 1 .. Len(g)
    BY <1>1
  <2>5. \A i \in 1 .. Len(u) : u[i] = v[i]
    BY <1>1, <2>2, <2>3, <2>4
  <2>6. u = v
    BY <2>2, <2>3, <2>5, SeqEqual DEF Text
  <2> QED  BY <2>6 DEF u, v
<1> QED  BY <1>1, <1>2, <1>3, <1>4 DEF f

\* Concatenation is associative.
LEMMA InTurn ==
    ASSUME NEW s \in Seq(Text), NEW t \in Seq(Text), NEW u \in Seq(Text)
    PROVE  (s \o t) \o u = s \o (t \o u)
OBVIOUS

\* What is read of g is read first.
LEMMA FromFront ==
    ASSUME NEW g, Good(g), NEW r \in Text, Good(g \o r)
    PROVE  Pieces(g \o r) = Pieces(g) \o From(g \o r)[Len(g) + 1]
<1> DEFINE f == g \o r
           rest == From(f)[Len(g) + 1]
           Ok(i) == From(f)[i] = From(g)[i] \o rest
           S == {i \in 0 .. Len(g) + 1 : i > 0 /\ Starts(g, i) /\ ~Ok(i)}
<1>1. /\ g \in Text /\ f \in Text /\ Len(g) \in Nat \ {0} /\ Len(r) \in Nat
      /\ Len(f) = Len(g) + Len(r)
      /\ \A i \in 1 .. Len(g) : f[i] = g[i]
      /\ g[Len(g)] = "nl"
    BY Concatenated DEF Good, Text
<1>2. rest \in Seq(Text)
  <2>1. Len(g) + 1 \in 1 .. Len(f) + 1 /\ Len(g) \in 1 .. Len(g)
    BY <1>1
  <2>2. Starts(f, Len(g) + 1)
    BY <1>1, <2>1 DEF Starts
  <2> QED  BY <2>1, <2>2, FromLines
<1>3. \A i \in 1 .. Len(g) + 1 : Starts(g, i) => From(g)[i] \in Seq(Text)
    BY FromLines
<1>4. Good(f)
    OBVIOUS
<1>5. /\ \A a \in 1 .. Len(g) : \A b \in a .. Len(g) : LineAt(g, a, b) => LineAt(f, a, b)
      /\ \A a \in 1 .. Len(g) : \A b \in a .. Len(g) : SubSeq(f, a, b) = SubSeq(g, a, b)
    BY LinesInFront
<1> HIDE DEF f, rest
<1>6. S = {}
  <2> SUFFICES ASSUME S # {} PROVE FALSE
    OBVIOUS
  <2>1. S \in SUBSET (0 .. Len(g) + 1) /\ Len(g) + 1 \in Nat
    BY <1>1
  <2>2. PICK i \in S : \A y \in S : y <= i
    BY <2>1, Largest, Zenon
  <2>3. i \in 1 .. Len(g) + 1 /\ Starts(g, i) /\ ~Ok(i)
    BY <1>1
  <2>4. CASE i = Len(g) + 1
    <3>1. From(g)[i] = <<>>
      BY <1>1, <2>4, FromEnd
    <3>2. <<>> \o rest = rest
      BY <1>2
    <3> QED  BY <2>3, <2>4, <3>1, <3>2 DEF rest
  <2>5. CASE i # Len(g) + 1
    <3>1. i \in 1 .. Len(g)
      BY <1>1, <2>3, <2>5
    <3>2. PICK b \in i .. Len(g) : LineAt(g, i, b)
      BY <2>3, <3>1, PieceIsLine DEF LineAt
    <3>3. b + 1 \in 1 .. Len(g) + 1 /\ b + 1 \in 0 .. Len(g) + 1 /\ b + 1 > i /\ Starts(g, b + 1)
      BY <1>1, <3>1, <3>2 DEF LineAt, Starts
    <3>4. Ok(b + 1)
      <4>1. ~(b + 1 \in S)
        BY <1>1, <2>2, <2>3, <3>3
      <4> QED  BY <3>3, <4>1
    <3>5. LineAt(f, i, b) /\ i \in 1 .. Len(f) /\ b \in i .. Len(f)
      BY <1>1, <1>5, <3>1, <3>2
    <3> DEFINE w == SubSeq(g, i, b)
    <3>6. From(f)[i] = <<w>> \o From(f)[b + 1]
      BY <1>4, <1>5, <3>1, <3>2, <3>5, FromLine
    <3>7. From(g)[i] = <<w>> \o From(g)[b + 1] /\ w \in Text
      BY <1>1, <3>1, <3>2, FromLine, PartOf
    <3> HIDE DEF w
    <3> DEFINE v == <<w>>
               u == From(g)[b + 1]
    <3>8. v \in Seq(Text) /\ u \in Seq(Text)
      BY <1>3, <3>3, <3>7
    <3> HIDE DEF v, u
    <3>9. (v \o u) \o rest = v \o (u \o rest)
      BY <1>2, <3>8, InTurn
    <3> QED  BY <2>3, <3>4, <3>6, <3>7, <3>9, Zenon DEF v, u
  <2> QED  BY <2>4, <2>5
<1>7. Ok(1)
  <2>1. 1 \in 0 .. Len(g) + 1 /\ 1 > 0 /\ Starts(g, 1)
    BY <1>1 DEF Starts
  <2> QED  BY <1>6, <2>1
<1>8. Pieces(f) = From(f)[1] /\ Pieces(g) = From(g)[1]
    BY <1>1, PiecesFrom
<1> QED  BY <1>7, <1>8 DEF f, rest

\* A line by itself.
LEMMA OneLine ==
    ASSUME NEW w, IsLine(w)
    PROVE  Good(w) /\ Pieces(w) = <<w>>
<1>1. w \in Text /\ Len(w) \in Nat \ {0} /\ Len(w) < LineMax /\ w[Len(w)] = "nl"
      /\ \A j \in 1 .. Len(w) - 1 : w[j] # "nl"
    BY DEF IsLine, Text
<1>2. ASSUME NEW a \in 1 .. Len(w), NEW b \in a .. Len(w), LineAt(w, a, b)
      PROVE  b - a + 1 < LineMax
    BY <1>1, SettingsAssumption
<1>3. Good(w)
    BY <1>1, <1>2 DEF Good, IsLine
<1>4. LineAt(w, 1, Len(w)) /\ 1 \in 1 .. Len(w) /\ Len(w) \in 1 .. Len(w)
    BY <1>1 DEF LineAt, Starts
<1>5. From(w)[1] = <<SubSeq(w, 1, Len(w))>> \o From(w)[Len(w) + 1]
    BY <1>3, <1>4, FromLine
<1>6. SubSeq(w, 1, Len(w)) = w
    BY <1>1 DEF Text
<1>7. <<w>> \o <<>> = <<w>>
    BY <1>1
<1> QED  BY <1>1, <1>3, <1>5, <1>6, <1>7, PiecesFrom, FromEnd

\* A line behind whole lines.
LEMMA LineBehind ==
    ASSUME NEW g, Good(g), NEW w, IsLine(w)
    PROVE  Good(g \o w) /\ Pieces(g \o w) = Append(Pieces(g), w)
<1> DEFINE f == g \o w
           n == Len(g)
           m == Len(w)
<1>1. /\ g \in Text /\ w \in Text /\ f \in Text /\ n \in Nat \ {0} /\ m \in Nat \ {0}
      /\ Len(f) = n + m /\ g[n] = "nl"
      /\ \A i \in 1 .. n : f[i] = g[i]
      /\ \A i \in 1 .. m : f[n + i] = w[i]
      /\ w[m] = "nl" /\ m < LineMax /\ \A j \in 1 .. m - 1 : w[j] # "nl"
    BY Concatenated DEF Good, IsLine, Text
<1>2. /\ \A a \in 1 .. n : \A b \in a .. n : LineAt(g, a, b) <=> LineAt(f, a, b)
      /\ \A a \in 1 .. n : \A b \in a .. n + m : LineAt(f, a, b) => b <= n
    BY <1>1, LinesInFront
<1> HIDE DEF f, n, m
<1>3. Good(f)
  <2>1. ASSUME NEW a \in 1 .. Len(f), NEW b \in a .. Len(f), LineAt(f, a, b)
        PROVE  b - a + 1 < LineMax
    <3>1. CASE a <= n
      <4>1. a \in 1 .. n /\ b \in a .. n + m
        BY <1>1, <3>1
      <4>2. b \in a .. n
        BY <1>1, <1>2, <2>1, <4>1
      <4>3. LineAt(g, a, b)
        BY <1>2, <2>1, <4>1, <4>2
      <4> QED  BY <4>1, <4>2, <4>3 DEF Good, n
    <3>2. CASE ~(a <= n)
      BY <1>1, <3>2, SettingsAssumption
    <3> QED  BY <3>1, <3>2
  <2>2. f[Len(f)] = "nl" /\ f # <<>>
    BY <1>1
  <2> QED  BY <1>1, <2>1, <2>2 DEF Good
<1>4. LineAt(f, n + 1, n + m)
  <2>1. Starts(f, n + 1)
    BY <1>1 DEF Starts
  <2>2. f[n + m] = "nl"
    BY <1>1
  <2>3. ASSUME NEW j \in n + 1 .. n + m - 1 PROVE f[j] # "nl"
    <3>1. j - n \in 1 .. m - 1 /\ j - n \in 1 .. m /\ n + (j - n) = j
      BY <1>1
    <3>2. f[j] = w[j - n]
      BY <1>1, <3>1
    <3> QED  BY <1>1, <3>1, <3>2
  <2> QED  BY <1>1, <2>1, <2>2, <2>3 DEF LineAt
<1>5. SubSeq(f, n + 1, n + m) = w
  <2> DEFINE u == SubSeq(f, n + 1, n + m)
  <2>1. n + 1 \in 1 .. Len(f) /\ n + m \in n + 1 .. Len(f) /\ (n + m) - (n + 1) + 1 = m
    BY <1>1
  <2>2. u \in Text /\ Len(u) = m /\ \A i \in 1 .. m : u[i] = f[(n + 1) + i - 1]
    BY <1>1, <2>1, PartOf
  <2> HIDE DEF u
  <2>3. \A i \in 1 .. m : u[i] = w[i]
    <3>1. \A i \in 1 .. m : (n + 1) + i - 1 = n + i
      BY <1>1
    <3> QED  BY <1>1, <2>2, <3>1
  <2>4. u = w
    BY <1>1, <2>2, <2>3, SeqEqual DEF Text, m
  <2> QED  BY <2>4 DEF u
<1>6. From(f)[n + 1] = <<w>>
  <2>1. n + 1 \in 1 .. Len(f) /\ n + m \in n + 1 .. Len(f)
    BY <1>1
  <2>2. From(f)[n + 1] = <<w>> \o From(f)[n + m + 1]
    BY <1>3, <1>4, <1>5, <2>1, FromLine
  <2>3. From(f)[n + m + 1] = <<>>
    BY <1>1, FromEnd
  <2>4. <<w>> \o <<>> = <<w>>
    BY <1>1
  <2> QED  BY <2>2, <2>3, <2>4
<1>7. Pieces(f) = Pieces(g) \o <<w>>
    BY <1>1, <1>3, <1>6, FromFront DEF f, n
<1>8. Pieces(g) \o <<w>> = Append(Pieces(g), w)
    BY <1>1, PiecesLines
<1> QED  BY <1>3, <1>7, <1>8 DEF f

\* The recursion of FlattenSeq.
Joining(s, g, i) == IF i = 1 THEN s[i] ELSE g[i - 1] \o s[i]

\* The recursive function in FlattenSeq has a value,
LEMMA JoinedExist ==
    ASSUME NEW s, NEW n \in Nat
    PROVE  \E g : g = [i \in 1 .. n |-> Joining(s, g, i)]
<1> DEFINE Upto(k, g) == /\ g = [i \in 1 .. n |-> g[i]]
                         /\ \A i \in 1 .. n : i <= k => g[i] = Joining(s, g, i)
           S == {k \in Nat : \E g : Upto(k, g)}
<1>1. 0 \in S
  <2> DEFINE g == [i \in 1 .. n |-> <<>>]
  <2>1. \A i \in 1 .. n : ~(i <= 0)
    OBVIOUS
  <2>2. Upto(0, g)
    BY <2>1
  <2> QED  BY <2>2
<1>2. ASSUME NEW k \in S PROVE k + 1 \in S
  <2>1. PICK g : Upto(k, g)
    OBVIOUS
  <2> DEFINE h == [i \in 1 .. n |-> IF i = k + 1 THEN Joining(s, g, k + 1) ELSE g[i]]
  <2>2. h = [i \in 1 .. n |-> h[i]]
    OBVIOUS
  <2>3. \A i \in 1 .. n : h[i] = IF i = k + 1 THEN Joining(s, g, k + 1) ELSE g[i]
    OBVIOUS
  <2> HIDE DEF h
  <2>4. ASSUME NEW i \in 1 .. n, i <= k + 1 PROVE h[i] = Joining(s, h, i)
    <3>1. i # 1 => i - 1 \in 1 .. n /\ i - 1 # k + 1
      BY <2>4
    <3>2. i # 1 => h[i - 1] = g[i - 1]
      BY <2>3, <3>1
    <3>3. Joining(s, h, i) = Joining(s, g, i)
      BY <3>2, Zenon DEF Joining
    <3>4. CASE i = k + 1
      BY <2>3, <3>3, <3>4
    <3>5. CASE i # k + 1
      <4>1. i <= k
        BY <2>4, <3>5
      <4>2. g[i] = Joining(s, g, i)
        BY <2>1, <4>1
      <4> QED  BY <2>3, <3>3, <3>5, <4>2
    <3> QED  BY <3>4, <3>5
  <2>5. Upto(k + 1, h)
    BY <2>2, <2>4
  <2> QED  BY <2>5
<1> HIDE DEF Upto
<1>3. S = Nat
    BY <1>1, <1>2, Induction
<1>4. PICK g : Upto(n, g)
    BY <1>3
<1>5. \A i \in 1 .. n : g[i] = Joining(s, g, i)
    BY <1>4 DEF Upto
<1>6. g = [i \in 1 .. n |-> Joining(s, g, i)]
    BY <1>4, <1>5, Zenon DEF Upto
<1> QED  BY <1>6

\* The first i elements of s, put together.
Joined(s) == CHOOSE g : g = [i \in 1 .. Len(s) |-> Joining(s, g, i)]

\* and can be unfolded.
LEMMA JoinedSteps ==
    ASSUME NEW s \in Seq(Text), s # <<>>
    PROVE  /\ FlattenSeq(s) = Joined(s)[Len(s)]
           /\ \A i \in 1 .. Len(s) : Joined(s)[i] = Joining(s, Joined(s), i)
<1> DEFINE flatten[i \in 1 .. Len(s)] == IF i = 1 THEN s[i] ELSE flatten[i - 1] \o s[i]
<1>1. Len(s) \in Nat /\ Len(s) # 0
    OBVIOUS
<1>2. flatten = Joined(s)
    BY Zenon DEF flatten, Joined, Joining
<1>3. FlattenSeq(s) = flatten[Len(s)]
    BY <1>1, Zenon DEF FlattenSeq, flatten
<1> HIDE DEF flatten
<1>4. Joined(s) = [i \in 1 .. Len(s) |-> Joining(s, Joined(s), i)]
    BY <1>1, JoinedExist, Zenon DEF Joined
<1>5. \A i \in 1 .. Len(s) : Joined(s)[i] = Joining(s, Joined(s), i)
    BY <1>4, Zenon
<1> QED  BY <1>2, <1>3, <1>5

\* Lines that are put together are read again as they were.
LEMMA LinesRoundTrip ==
    ASSUME NEW s \in Seq(Text), s # <<>>, \A i \in DOMAIN s : IsLine(s[i])
    PROVE  Good(FlattenSeq(s)) /\ Pieces(FlattenSeq(s)) = s
<1> DEFINE Ok(k) == Good(Joined(s)[k]) /\ Pieces(Joined(s)[k]) = SubSeq(s, 1, k)
           S == {k \in Nat : k + 1 <= Len(s) => Ok(k + 1)}
<1>1. Len(s) \in Nat \ {0} /\ DOMAIN s = 1 .. Len(s)
    OBVIOUS
<1>2. 0 \in S
  <2>1. Joined(s)[1] = s[1]
    BY <1>1, JoinedSteps DEF Joining
  <2>2. SubSeq(s, 1, 1) = <<s[1]>>
    <3> DEFINE u == SubSeq(s, 1, 1)
    <3>1. u \in Seq(Text) /\ Len(u) = 1 /\ u[1] = s[1]
      BY <1>1
    <3> HIDE DEF u
    <3>2. u = <<u[1]>>
      BY <3>1
    <3> QED  BY <3>1, <3>2 DEF u
  <2>3. Ok(1)
    BY <1>1, <2>1, <2>2, OneLine
  <2> QED  BY <2>3
<1>3. ASSUME NEW k \in S PROVE k + 1 \in S
  <2> SUFFICES ASSUME k + 2 <= Len(s) PROVE Ok(k + 2)
    OBVIOUS
  <2>1. k + 1 <= Len(s) /\ k + 2 \in 1 .. Len(s) /\ (k + 2) - 1 = k + 1 /\ k + 2 # 1
    BY <1>1
  <2>2. Ok(k + 1)
    BY <2>1
  <2>3. Joined(s)[k + 2] = Joined(s)[k + 1] \o s[k + 2]
    BY <2>1, JoinedSteps DEF Joining
  <2>4. IsLine(s[k + 2])
    BY <1>1, <2>1
  <2>5. /\ Good(Joined(s)[k + 1] \o s[k + 2])
        /\ Pieces(Joined(s)[k + 1] \o s[k + 2]) = Append(Pieces(Joined(s)[k + 1]), s[k + 2])
    BY <2>2, <2>4, LineBehind
  <2>6. Append(SubSeq(s, 1, k + 1), s[k + 2]) = SubSeq(s, 1, k + 2)
    BY <1>1, <2>1
  <2> QED  BY <2>2, <2>3, <2>5, <2>6
<1> HIDE DEF Ok
<1>4. S = Nat
    BY <1>2, <1>3, Induction
<1>5. Ok(Len(s))
  <2>1. Len(s) - 1 \in Nat /\ (Len(s) - 1) + 1 = Len(s) /\ Len(s) <= Len(s)
    BY <1>1
  <2>2. Len(s) - 1 \in S
    BY <1>4, <2>1, Zenon
  <2> QED  BY <2>1, <2>2
<1>6. SubSeq(s, 1, Len(s)) = s
    BY <1>1
<1> QED  BY <1>5, <1>6, JoinedSteps DEF Ok

-----------------------------------------------------------------------------
(* A text over another one.                                                *)

\* The ends of the lines in a set.
Ends(T) == UNION {{SubSeq(w, i, Len(w)) : i \in DOMAIN w} : w \in T}

\* The characters of a text written over another one.
LEMMA OverChars ==
    ASSUME NEW new \in Text, NEW old \in Text
    PROVE  /\ Over(new, old) \in Text
           /\ Len(new) \in Nat /\ Len(old) \in Nat
           /\ Len(Over(new, old)) = IF Len(new) < Len(old) THEN Len(old) ELSE Len(new)
           /\ \A i \in 1 .. Len(new) : Over(new, old)[i] = new[i]
           /\ \A i \in Len(new) + 1 .. Len(old) : Over(new, old)[i] = old[i]
           /\ \E r \in Text : Over(new, old) = new \o r
<1> DEFINE r == SubSeq(old, Len(new) + 1, Len(old))
<1>1. Len(new) \in Nat /\ Len(old) \in Nat
    BY DEF Text
<1>2. /\ r \in Text /\ Len(r) = IF Len(new) < Len(old) THEN Len(old) - Len(new) ELSE 0
      /\ \A i \in 1 .. Len(old) - Len(new) : r[i] = old[Len(new) + i]
  <2>1. CASE Len(new) < Len(old)
    <3>1. Len(new) + 1 \in 1 .. Len(old) /\ Len(old) \in Len(new) + 1 .. Len(old)
      BY <1>1, <2>1
    <3>2. \A i \in 1 .. Len(old) - Len(new) :
                i \in 1 .. Len(old) - (Len(new) + 1) + 1 /\ (Len(new) + 1) + i - 1 = Len(new) + i
      BY <1>1
    <3>3. Len(old) - (Len(new) + 1) + 1 = Len(old) - Len(new)
      BY <1>1
    <3> QED  BY <2>1, <3>1, <3>2, <3>3, PartOf
  <2>2. CASE ~(Len(new) < Len(old))
    <3>1. r = <<>>
      BY <1>1, <2>2 DEF Text
    <3> HIDE DEF r
    <3>2. \A i \in 1 .. Len(old) - Len(new) : FALSE
      BY <1>1, <2>2
    <3> QED  BY <2>2, <3>1, <3>2 DEF Text
  <2> QED  BY <2>1, <2>2
<1> HIDE DEF r
<1>3. Over(new, old) = new \o r
    BY DEF Over, r
<1>4. /\ new \o r \in Text /\ Len(new \o r) = Len(new) + Len(r)
      /\ \A i \in 1 .. Len(new) : (new \o r)[i] = new[i]
      /\ \A i \in 1 .. Len(r) : (new \o r)[Len(new) + i] = r[i]
    BY <1>2, Concatenated
<1>5. ASSUME NEW i \in Len(new) + 1 .. Len(old) PROVE (new \o r)[i] = old[i]
  <2>1. /\ i - Len(new) \in 1 .. Len(old) - Len(new) /\ i - Len(new) \in 1 .. Len(r)
        /\ Len(new) + (i - Len(new)) = i
    BY <1>1, <1>2
  <2> QED  BY <1>2, <1>4, <2>1
<1>6. Len(new \o r) = IF Len(new) < Len(old) THEN Len(old) ELSE Len(new)
    BY <1>1, <1>2, <1>4
<1> QED  BY <1>1, <1>2, <1>3, <1>4, <1>5, <1>6

\* Behind the new text are lines of the old one, the first perhaps without its
\* beginning.
LEMMA OverGood ==
    ASSUME NEW new, Good(new), NEW old, Good(old)
    PROVE  /\ Good(Over(new, old))
           /\ \E s \in Seq(Text) : Pieces(Over(new, old)) = Pieces(new) \o s
           /\ Lines(Over(new, old)) \subseteq Lines(new) \cup Ends(Lines(old))
<1> DEFINE f == Over(new, old)
           n == Len(new)
<1>1. /\ new \in Text /\ old \in Text /\ f \in Text /\ n \in Nat \ {0} /\ Len(old) \in Nat \ {0}
      /\ Len(f) = IF n < Len(old) THEN Len(old) ELSE n
      /\ \A i \in 1 .. n : f[i] = new[i]
      /\ \A i \in n + 1 .. Len(old) : f[i] = old[i]
      /\ new[n] = "nl" /\ old[Len(old)] = "nl"
    BY OverChars DEF Good, Text
<1>2. PICK r \in Text : f = new \o r
    BY <1>1, OverChars
<1>3. Len(f) = n + Len(r) /\ Len(r) \in Nat
    BY <1>1, <1>2, Concatenated
<1>4. /\ \A a \in 1 .. n : \A b \in a .. n : LineAt(new, a, b) <=> LineAt(f, a, b)
      /\ \A a \in 1 .. n : \A b \in a .. n + Len(r) : LineAt(f, a, b) => b <= n
      /\ \A a \in 1 .. n : \A b \in a .. n : SubSeq(f, a, b) = SubSeq(new, a, b)
    BY <1>2, LinesInFront
<1> HIDE DEF f, n
<1>5. ASSUME NEW a \in 1 .. Len(f), NEW b \in a .. Len(f), LineAt(f, a, b), a <= n
      PROVE  b - a + 1 < LineMax /\ SubSeq(f, a, b) \in Lines(new)
  <2>1. a \in 1 .. n /\ b \in a .. n + Len(r)
    BY <1>1, <1>3, <1>5
  <2>2. b \in a .. n
    BY <1>1, <1>4, <1>5, <2>1
  <2>3. LineAt(new, a, b) /\ SubSeq(f, a, b) = SubSeq(new, a, b)
    BY <1>4, <1>5, <2>1, <2>2
  <2> QED  BY <2>1, <2>2, <2>3, LinesDef DEF Good, n
<1>6. ASSUME NEW a \in 1 .. Len(f), NEW b \in a .. Len(f), LineAt(f, a, b), ~(a <= n)
      PROVE  b - a + 1 < LineMax /\ SubSeq(f, a, b) \in Ends(Lines(old))
  <2>1. n < Len(old) /\ Len(f) = Len(old) /\ a \in n + 1 .. Len(old) /\ b \in a .. Len(old)
    BY <1>1, <1>6
  <2>2. old[b] = "nl" /\ \A j \in a .. b - 1 : old[j] # "nl"
    <3>1. b \in n + 1 .. Len(old) /\ \A j \in a .. b - 1 : j \in n + 1 .. Len(old)
      BY <1>1, <2>1
    <3> QED  BY <1>1, <1>6, <3>1 DEF LineAt
  <2>3. a \in 1 .. Len(old)
    BY <1>1, <2>1
  <2>4. PICK c \in 1 .. a : \E d \in a .. Len(old) : LineAt(old, c, d)
    BY <2>3, LineOf
  <2>5. PICK d \in a .. Len(old) : LineAt(old, c, d)
    BY <2>4
  <2>6. d = b
    <3>1. old[d] = "nl" /\ \A j \in c .. d - 1 : old[j] # "nl"
      BY <2>5 DEF LineAt
    <3>2. ~(d \in a .. b - 1) /\ ~(b \in c .. d - 1)
      BY <2>2, <3>1
    <3> QED  BY <1>1, <2>1, <2>4, <2>5, <3>2
  <2>7. c \in 1 .. Len(old) /\ b \in c .. Len(old) /\ LineAt(old, c, b)
    BY <1>1, <2>1, <2>4, <2>5, <2>6
  <2>8. b - c + 1 < LineMax
    BY <2>7 DEF Good
  <2> DEFINE w == SubSeq(old, c, b)
             u == SubSeq(f, a, b)
             k == a - c + 1
             v == SubSeq(w, k, Len(w))
  <2>9. w \in Lines(old) /\ w \in Text /\ Len(w) = b - c + 1
        /\ \A i \in 1 .. b - c + 1 : w[i] = old[c + i - 1]
    BY <1>1, <2>7, PartOf, LinesDef
  <2>10. u \in Text /\ Len(u) = b - a + 1 /\ \A i \in 1 .. b - a + 1 : u[i] = f[a + i - 1]
    BY <1>1, PartOf
  <2>11. k \in 1 .. Len(w) /\ Len(w) \in k .. Len(w) /\ Len(w) - k + 1 = b - a + 1
    BY <1>1, <2>1, <2>4, <2>9
  <2> HIDE DEF w, u
  <2>12. v \in Text /\ Len(v) = Len(w) - k + 1 /\ \A i \in 1 .. Len(w) - k + 1 : v[i] = w[k + i - 1]
    BY <2>9, <2>11, PartOf
  <2>13. v \in Ends(Lines(old))
    <3>1. k \in DOMAIN w
      BY <2>9, <2>11 DEF Text
    <3> HIDE DEF k
    <3>2. v \in {SubSeq(w, i, Len(w)) : i \in DOMAIN w}
      BY <3>1
    <3> HIDE DEF v
    <3> QED  BY <2>9, <3>2 DEF Ends
  <2> HIDE DEF v
  <2>14. ASSUME NEW i \in 1 .. b - a + 1 PROVE u[i] = v[i]
    <3>1. /\ k + i - 1 \in 1 .. b - c + 1 /\ c + (k + i - 1) - 1 = a + i - 1
          /\ a + i - 1 \in n + 1 .. Len(old) /\ i \in 1 .. Len(w) - k + 1
      BY <1>1, <2>1, <2>4, <2>9, <2>11
    <3>2. v[i] = old[a + i - 1]
      BY <2>9, <2>12, <3>1
    <3>3. u[i] = old[a + i - 1]
      BY <1>1, <2>10, <3>1
    <3> QED  BY <3>2, <3>3
  <2>15. u = v
    BY <2>10, <2>11, <2>12, <2>14, SeqEqual DEF Text
  <2>16. b - a + 1 < LineMax
    BY <1>1, <2>1, <2>4, <2>8, SettingsAssumption
  <2> QED  BY <2>13, <2>15, <2>16 DEF u
<1>7. Good(f)
  <2>1. f[Len(f)] = "nl" /\ f # <<>>
    <3>1. CASE n < Len(old)
      BY <1>1, <3>1
    <3>2. CASE ~(n < Len(old))
      BY <1>1, <3>2
    <3> QED  BY <3>1, <3>2
  <2>2. \A a \in 1 .. Len(f) : \A b \in a .. Len(f) : LineAt(f, a, b) => b - a + 1 < LineMax
    BY <1>5, <1>6
  <2> QED  BY <1>1, <2>1, <2>2 DEF Good
<1>8. Lines(f) \subseteq Lines(new) \cup Ends(Lines(old))
  <2> SUFFICES ASSUME NEW w \in Lines(f) PROVE w \in Lines(new) \cup Ends(Lines(old))
    OBVIOUS
  <2>1. PICK a \in 1 .. Len(f) : \E b \in a .. Len(f) : LineAt(f, a, b) /\ w = SubSeq(f, a, b)
    BY LinesDef
  <2>2. PICK b \in a .. Len(f) : LineAt(f, a, b) /\ w = SubSeq(f, a, b)
    BY <2>1
  <2> QED  BY <1>5, <1>6, <2>2
<1>9. From(f)[n + 1] \in Seq(Text)
  <2>1. n + 1 \in 1 .. Len(f) + 1 /\ Starts(f, n + 1)
    BY <1>1 DEF Starts
  <2> QED  BY <1>7, <2>1, FromLines
<1>10. Pieces(f) = Pieces(new) \o From(f)[n + 1]
    BY <1>2, <1>7, FromFront DEF n
<1> QED  BY <1>7, <1>8, <1>9, <1>10 DEF f

-----------------------------------------------------------------------------
(* set_value.                                                              *)

\* The characters of a new line.
LEMMA NewLineChars ==
    ASSUME NEW name \in Names, NEW value \in Values
    PROVE  /\ name \in Text /\ value \in Text /\ NewLine(name, value) \in Text
           /\ Len(name) \in Nat \ {0} /\ Len(value) \in Nat
           /\ Len(NewLine(name, value)) = Len(name) + Len(value) + 2
           /\ \A i \in 1 .. Len(name) : NewLine(name, value)[i] = name[i]
           /\ NewLine(name, value)[Len(name) + 1] = "="
           /\ \A i \in 1 .. Len(value) : NewLine(name, value)[Len(name) + 1 + i] = value[i]
           /\ NewLine(name, value)[Len(name) + Len(value) + 2] = "nl"
<1> DEFINE n == Len(name)
           v == Len(value)
           eq == <<"=">>
           nl == <<"nl">>
           a == name \o eq
           b == a \o value
<1>1. name \in Text /\ value \in Text /\ n \in Nat \ {0} /\ v \in Nat
  <2>1. name \in Seq(STRING \ {"nul"}) /\ value \in Seq(STRING \ {"nul"}) /\ name # <<>>
    BY SettingsAssumption
  <2> QED  BY <2>1, TextsAreTexts
<1>2. eq \in Text /\ Len(eq) = 1 /\ eq[1] = "=" /\ nl \in Text /\ Len(nl) = 1 /\ nl[1] = "nl"
  <2>1. "=" \in Chars /\ "nl" \in Chars
    BY DEF Chars
  <2>2. Len(eq) = 1 /\ eq[1] = "=" /\ Len(nl) = 1 /\ nl[1] = "nl"
    OBVIOUS
  <2> QED  BY <2>1, <2>2, TextsAreTexts, Zenon
<1> HIDE DEF eq, nl
<1>3. /\ a \in Text /\ Len(a) = n + 1 /\ a[n + 1] = "="
      /\ \A i \in 1 .. n : a[i] = name[i]
  <2>1. /\ a \in Text /\ Len(a) = n + Len(eq)
        /\ \A i \in 1 .. n : a[i] = name[i]
        /\ \A i \in 1 .. Len(eq) : a[n + i] = eq[i]
    BY <1>1, <1>2, Concatenated, Zenon
  <2> HIDE DEF a
  <2> QED  BY <1>1, <1>2, <2>1
<1> HIDE DEF a
<1>4. /\ b \in Text /\ Len(b) = n + 1 + v
      /\ \A i \in 1 .. n + 1 : b[i] = a[i]
      /\ \A i \in 1 .. v : b[n + 1 + i] = value[i]
  <2>1. /\ b \in Text /\ Len(b) = Len(a) + v
        /\ \A i \in 1 .. Len(a) : b[i] = a[i]
        /\ \A i \in 1 .. v : b[Len(a) + i] = value[i]
    BY <1>1, <1>3, Concatenated, Zenon
  <2> HIDE DEF b
  <2> QED  BY <1>1, <1>3, <2>1
<1> HIDE DEF b
<1> DEFINE w == b \o nl
<1>5. /\ w \in Text /\ Len(w) = n + v + 2
      /\ \A i \in 1 .. n + 1 + v : w[i] = b[i]
      /\ w[n + v + 2] = "nl"
  <2>1. /\ w \in Text /\ Len(w) = Len(b) + Len(nl)
        /\ \A i \in 1 .. Len(b) : w[i] = b[i]
        /\ \A i \in 1 .. Len(nl) : w[Len(b) + i] = nl[i]
    BY <1>2, <1>4, Concatenated, Zenon
  <2> HIDE DEF w
  <2>2. 1 \in 1 .. Len(nl) /\ Len(b) + 1 = n + v + 2
    BY <1>1, <1>2, <1>4
  <2>3. w[n + v + 2] = "nl"
    BY <1>2, <2>1, <2>2
  <2> QED  BY <1>1, <1>2, <1>4, <2>1, <2>3
<1>6. NewLine(name, value) = w
    BY Zenon DEF NewLine, w, nl, b, a, eq
<1> HIDE DEF w
<1>7. \A i \in 1 .. n : w[i] = name[i]
  <2>1. \A i \in 1 .. n : i \in 1 .. n + 1 /\ i \in 1 .. n + 1 + v
    BY <1>1
  <2> QED  BY <1>3, <1>4, <1>5, <2>1
<1>8. w[n + 1] = "="
  <2>1. n + 1 \in 1 .. n + 1 /\ n + 1 \in 1 .. n + 1 + v
    BY <1>1
  <2> QED  BY <1>3, <1>4, <1>5, <2>1
<1>9. \A i \in 1 .. v : w[n + 1 + i] = value[i]
  <2>1. \A i \in 1 .. v : n + 1 + i \in 1 .. n + 1 + v
    BY <1>1
  <2> QED  BY <1>4, <1>5, <2>1
<1> QED  BY <1>1, <1>5, <1>6, <1>7, <1>8, <1>9

\* A new line that fits is one line.
LEMMA NewLineIsLine ==
    ASSUME NEW name \in Names, NEW value \in Values, Len(NewLine(name, value)) < LineMax
    PROVE  IsLine(NewLine(name, value))
<1> DEFINE w == NewLine(name, value)
           n == Len(name)
           v == Len(value)
<1>1. /\ w \in Text /\ n \in Nat \ {0} /\ v \in Nat /\ Len(w) = n + v + 2
      /\ \A i \in 1 .. n : w[i] = name[i]
      /\ w[n + 1] = "="
      /\ \A i \in 1 .. v : w[n + 1 + i] = value[i]
      /\ w[n + v + 2] = "nl"
      /\ Len(w) < LineMax
    BY NewLineChars
<1>2. (\A i \in 1 .. n : name[i] # "nl") /\ (\A i \in 1 .. v : value[i] # "nl")
    BY SettingsAssumption DEF Contains
<1> HIDE DEF w, n, v
<1>3. ASSUME NEW j \in 1 .. Len(w) - 1 PROVE w[j] # "nl"
  <2>1. CASE j \in 1 .. n
    BY <1>1, <1>2, <2>1
  <2>2. CASE j = n + 1
    BY <1>1, <2>2
  <2>3. CASE j > n + 1
    <3>1. j - (n + 1) \in 1 .. v /\ n + 1 + (j - (n + 1)) = j
      BY <1>1, <2>3
    <3>2. w[j] = value[j - (n + 1)]
      BY <1>1, <3>1
    <3> QED  BY <1>2, <3>1, <3>2
  <2> QED  BY <1>1, <2>1, <2>2, <2>3
<1>4. w # <<>> /\ w[Len(w)] = "nl"
    BY <1>1
<1> QED  BY <1>1, <1>3, <1>4 DEF IsLine, w

\* What set_value makes of one line.
Changed(line, name, value) == IF StartsWith(line, name) THEN NewLine(name, value) ELSE line

\* set_value changes the lines one by one.
LEMMA RewrittenLines ==
    ASSUME NEW f, Good(f), NEW name \in Names, NEW value \in Values, ~Overruns(f, name, value)
    PROVE  /\ Good(Rewritten(f, name, value))
           /\ Pieces(Rewritten(f, name, value)) =
                    [i \in DOMAIN Pieces(f) |-> Changed(Pieces(f)[i], name, value)]
<1> DEFINE lines == Pieces(f)
           s == [i \in DOMAIN lines |-> Changed(lines[i], name, value)]
<1>1. /\ lines \in Seq(Text) /\ lines # <<>>
      /\ \A i \in DOMAIN lines : IsLine(lines[i])
    BY PiecesLines
<1>2. Rewritten(f, name, value) = FlattenSeq(s)
    BY Zenon DEF Rewritten, Changed
<1>3. ASSUME NEW i \in DOMAIN lines PROVE IsLine(Changed(lines[i], name, value))
  <2>1. CASE StartsWith(lines[i], name)
    <3>1. ~(Len(NewLine(name, value)) >= LineMax)
      BY <2>1 DEF Overruns, ToSet
    <3>2. Len(NewLine(name, value)) < LineMax
      BY <3>1, NewLineChars, SettingsAssumption
    <3> QED  BY <2>1, <3>2, NewLineIsLine DEF Changed
  <2>2. CASE ~StartsWith(lines[i], name)
    BY <1>1, <2>2 DEF Changed
  <2> QED  BY <2>1, <2>2
<1> HIDE DEF lines
<1>4. DOMAIN lines = 1 .. Len(lines) /\ Len(lines) \in Nat \ {0}
    BY <1>1
<1>5. s \in Seq(Text) /\ s # <<>> /\ DOMAIN s = DOMAIN lines
      /\ \A i \in DOMAIN s : s[i] = Changed(lines[i], name, value)
  <2>1. \A i \in 1 .. Len(lines) : Changed(lines[i], name, value) \in Text
    BY <1>3, <1>4 DEF IsLine
  <2>2. s \in [1 .. Len(lines) -> Text] /\ \A i \in DOMAIN lines : s[i] = Changed(lines[i], name, value)
    BY <1>4, <2>1, Zenon
  <2> HIDE DEF s
  <2>3. s \in Seq(Text) /\ Len(s) = Len(lines) /\ DOMAIN s = DOMAIN lines
    BY <1>4, <2>2
  <2>4. s # <<>>
    BY <1>4, <2>3
  <2> QED  BY <2>2, <2>3, <2>4
<1> HIDE DEF s
<1>6. Good(FlattenSeq(s)) /\ Pieces(FlattenSeq(s)) = s
    BY <1>3, <1>5, LinesRoundTrip
<1> QED  BY <1>2, <1>6 DEF s, lines

-----------------------------------------------------------------------------
(* The files that there can be.                                            *)

\* The delivered file consists of lines that fit.
LEMMA DeliveredGood == Good(InitialFile)
<1> DEFINE f == InitialFile
<1>1. /\ f \in Text /\ Len(f) \in Nat \ {0} /\ DOMAIN f = 1 .. Len(f)
      /\ f # <<>> /\ f[Len(f)] = "nl"
  <2>1. f \in Seq(STRING \ {"nul"}) /\ f # <<>> /\ Last(f) = "nl"
    BY SettingsAssumption
  <2> QED  BY <2>1, TextsAreTexts DEF Last
<1>2. LineMax \in Nat /\ \A i \in 1 .. Len(f) :
            \E j \in i .. i + LineMax - 2 : j <= Len(f) /\ f[j] = "nl"
    BY <1>1, SettingsAssumption
<1> HIDE DEF f
<1>3. ASSUME NEW a \in 1 .. Len(f), NEW b \in a .. Len(f), LineAt(f, a, b)
      PROVE  b - a + 1 < LineMax
  <2>1. PICK j \in a .. a + LineMax - 2 : j <= Len(f) /\ f[j] = "nl"
    BY <1>2
  <2>2. ~(j \in a .. b - 1)
    BY <1>3, <2>1 DEF LineAt
  <2> QED  BY <1>1, <1>2, <2>1, <2>2
<1> QED  BY <1>1, <1>3 DEF Good, f

\* The end of an end is an end, and a line is an end of itself.
LEMMA EndsOfEnds ==
    ASSUME NEW T \in SUBSET Text
    PROVE  /\ Ends(Ends(T)) \subseteq Ends(T)
           /\ \A w \in T : w # <<>> => w \in Ends(T)
<1>1. ASSUME NEW w \in T, w # <<>> PROVE w \in Ends(T)
  <2>1. w \in Text /\ DOMAIN w = 1 .. Len(w) /\ Len(w) \in Nat \ {0}
    BY <1>1 DEF Text
  <2>2. SubSeq(w, 1, Len(w)) = w
    BY <2>1 DEF Text
  <2>3. 1 \in DOMAIN w
    BY <2>1
  <2> QED  BY <2>2, <2>3 DEF Ends
<1>2. ASSUME NEW u \in Ends(Ends(T)) PROVE u \in Ends(T)
  <2>1. PICK v \in Ends(T) : \E i \in DOMAIN v : u = SubSeq(v, i, Len(v))
    BY <1>2 DEF Ends
  <2>2. PICK i \in DOMAIN v : u = SubSeq(v, i, Len(v))
    BY <2>1
  <2>3. PICK w \in T : \E h \in DOMAIN w : v = SubSeq(w, h, Len(w))
    BY <2>1 DEF Ends
  <2>4. PICK h \in DOMAIN w : v = SubSeq(w, h, Len(w))
    BY <2>3
  <2>5. w \in Text /\ DOMAIN w = 1 .. Len(w) /\ Len(w) \in Nat /\ h \in 1 .. Len(w)
        /\ Len(w) \in h .. Len(w)
    BY <2>3, <2>4 DEF Text
  <2>6. /\ v \in Text /\ Len(v) = Len(w) - h + 1
        /\ \A j \in 1 .. Len(w) - h + 1 : v[j] = w[h + j - 1]
    BY <2>4, <2>5, PartOf
  <2>7. i \in 1 .. Len(v) /\ Len(v) \in i .. Len(v)
    BY <2>2, <2>5, <2>6 DEF Text
  <2> DEFINE k == h + i - 1
             x == SubSeq(w, k, Len(w))
  <2>8. k \in 1 .. Len(w) /\ Len(w) \in k .. Len(w)
    BY <2>5, <2>6, <2>7
  <2>9. /\ u \in Text /\ Len(u) = Len(v) - i + 1
        /\ \A j \in 1 .. Len(v) - i + 1 : u[j] = v[i + j - 1]
    BY <2>2, <2>6, <2>7, PartOf
  <2>10. /\ x \in Text /\ Len(x) = Len(w) - k + 1
         /\ \A j \in 1 .. Len(w) - k + 1 : x[j] = w[k + j - 1]
    BY <2>5, <2>8, PartOf
  <2>11. x \in Ends(T)
    <3>1. k \in DOMAIN w
      BY <2>5, <2>8
    <3> HIDE DEF k
    <3>2. x \in {SubSeq(w, b, Len(w)) : b \in DOMAIN w}
      BY <3>1
    <3> QED  BY <2>3, <3>2 DEF Ends
  <2> HIDE DEF x
  <2>12. Len(u) = Len(x)
    BY <2>5, <2>6, <2>7, <2>9, <2>10
  <2>13. ASSUME NEW j \in 1 .. Len(u) PROVE u[j] = x[j]
    <3>1. /\ j \in 1 .. Len(v) - i + 1 /\ i + j - 1 \in 1 .. Len(w) - h + 1
          /\ j \in 1 .. Len(w) - k + 1 /\ h + (i + j - 1) - 1 = k + j - 1
      BY <2>5, <2>6, <2>7, <2>9, <2>12
    <3> HIDE DEF k
    <3> QED  BY <2>6, <2>9, <2>10, <3>1
  <2>14. u = x
    BY <2>9, <2>10, <2>12, <2>13 DEF Text
  <2> QED  BY <2>11, <2>14
<1> QED  BY <1>1, <1>2

\* The lines that were delivered or that set_value can make.
Origins == ToSet(Pieces(InitialFile)) \cup {NewLine(n, v) : n \in Names, v \in Values}

\* The tails of which LinesNeverMerge speaks are closed under taking ends.
LEMMA TailsAreEnds ==
    /\ Tails = Ends(Origins)
    /\ Origins \subseteq Tails
    /\ Ends(Tails) \subseteq Tails
<1>1. Tails = Ends(Origins)
    BY DEF Tails, Ends, Origins
<1>2. \A w \in ToSet(Pieces(InitialFile)) : w \in Text /\ w # <<>>
    BY DeliveredGood, PiecesLines, LinesAreLines DEF IsLine
<1>3. \A n \in Names, v \in Values : NewLine(n, v) \in Text /\ NewLine(n, v) # <<>>
  <2> SUFFICES ASSUME NEW n \in Names, NEW v \in Values
               PROVE  NewLine(n, v) \in Text /\ NewLine(n, v) # <<>>
    OBVIOUS
  <2> DEFINE w == NewLine(n, v)
  <2>1. w \in Text /\ Len(n) \in Nat /\ Len(v) \in Nat /\ Len(w) = Len(n) + Len(v) + 2
    BY NewLineChars
  <2> HIDE DEF w
  <2>2. w \in Text /\ w # <<>>
    BY <2>1
  <2> QED  BY <2>2 DEF w
<1>4. \A w \in Origins : w \in Text /\ w # <<>>
    BY <1>2, <1>3 DEF Origins
<1>5. Origins \in SUBSET Text
    BY <1>4
<1> QED  BY <1>1, <1>4, <1>5, EndsOfEnds

\* A file of whole lines that are delivered or made ones, or ends of such.
Whole(f) == Good(f) /\ Lines(f) \subseteq Tails

\* The delivered file is whole.
LEMMA DeliveredWhole == Whole(InitialFile)
BY DeliveredGood, PiecesLines, TailsAreEnds DEF Whole, Origins

\* Reading and changing a whole file makes a whole text.
LEMMA RewrittenWhole ==
    ASSUME NEW f, Whole(f), NEW name \in Names, NEW value \in Values, ~Overruns(f, name, value)
    PROVE  Whole(Rewritten(f, name, value))
<1> DEFINE g == Rewritten(f, name, value)
<1>1. Good(g) /\ Pieces(g) = [i \in DOMAIN Pieces(f) |-> Changed(Pieces(f)[i], name, value)]
    BY RewrittenLines DEF Whole
<1>2. ASSUME NEW w \in Lines(g) PROVE w \in Tails
  <2>1. w \in ToSet(Pieces(g))
    BY <1>1, PiecesLines
  <2>2. PICK i \in DOMAIN Pieces(g) : w = Pieces(g)[i]
    BY <2>1 DEF ToSet
  <2>3. i \in DOMAIN Pieces(f) /\ w = Changed(Pieces(f)[i], name, value)
    BY <1>1, <2>2
  <2>4. Pieces(f)[i] \in Tails
    BY <2>3, PiecesLines DEF Whole, ToSet
  <2>5. NewLine(name, value) \in Tails
    BY TailsAreEnds DEF Origins
  <2> QED  BY <2>3, <2>4, <2>5 DEF Changed
<1> QED  BY <1>1, <1>2 DEF Whole

\* So does writing one over another.
LEMMA OverWhole ==
    ASSUME NEW new, Whole(new), NEW old, Whole(old)
    PROVE  Whole(Over(new, old))
<1>1. Good(Over(new, old)) /\ Lines(Over(new, old)) \subseteq Lines(new) \cup Ends(Lines(old))
    BY OverGood DEF Whole
<1>2. Ends(Lines(old)) \subseteq Ends(Tails)
    BY DEF Whole, Ends
<1> QED  BY <1>1, <1>2, TailsAreEnds DEF Whole

-----------------------------------------------------------------------------
(* White space, and names in lines.                                        *)

\* Max, like Min.
LEMMA MaxIs ==
    ASSUME NEW S \in SUBSET Nat, NEW x \in S, \A y \in S : y <= x
    PROVE  Max(S) = x
<1> DEFINE m == Max(S)
<1>1. m \in S /\ \A y \in S : m >= y
    BY DEF Max
<1> HIDE DEF m
<1>2. m \in Nat /\ x \in Nat /\ m >= x /\ m <= x
    BY <1>1
<1>3. m = x
    BY <1>2
<1> QED  BY <1>3 DEF m

\* The start of a text.
LEMMA FrontOf ==
    ASSUME NEW s \in Text, NEW n \in 0 .. Len(s)
    PROVE  /\ SubSeq(s, 1, n) \in Text
           /\ Len(SubSeq(s, 1, n)) = n
           /\ \A i \in 1 .. n : SubSeq(s, 1, n)[i] = s[i]
<1>1. Len(s) \in Nat
    BY DEF Text
<1>2. CASE n = 0
    BY <1>1, <1>2 DEF Text
<1>3. CASE n # 0
  <2>1. 1 \in 1 .. Len(s) /\ n \in 1 .. Len(s) /\ n - 1 + 1 = n /\ \A i \in 1 .. n : 1 + i - 1 = i
    BY <1>1, <1>3
  <2> QED  BY <2>1, PartOf
<1> QED  BY <1>2, <1>3

\* rstrip leaves the text up to its last character that is no white space.
LEMMA RstripIs ==
    ASSUME NEW s \in Text, NEW n \in 0 .. Len(s),
           n > 0 => ~isspace(s[n]),
           \A j \in n + 1 .. Len(s) : isspace(s[j])
    PROVE  rstrip(s) = SubSeq(s, 1, n)
<1> DEFINE I == {i \in 1 .. Len(s) : ~isspace(s[i])}
<1>1. rstrip(s) = SubSeq(s, 1, IF I # {} THEN Max(I) ELSE 0)
    BY DEF rstrip, SelectLastInSeq, IsText
<1>2. Len(s) \in Nat
    BY DEF Text
<1>3. \A i \in I : i <= n
    BY <1>2
<1>4. CASE n = 0
  <2>1. I = {}
    BY <1>2, <1>3, <1>4
  <2> QED  BY <1>1, <1>4, <2>1
<1>5. CASE n > 0
  <2>1. n \in I /\ I \in SUBSET Nat
    BY <1>2, <1>5
  <2> HIDE DEF I
  <2>2. Max(I) = n
    BY <1>3, <2>1, MaxIs
  <2> QED  BY <1>1, <2>1, <2>2
<1> QED  BY <1>2, <1>4, <1>5

\* Such a character is there, or all of it is white space.
LEMMA RstripEnd ==
    ASSUME NEW s \in Text
    PROVE  \E n \in 0 .. Len(s) :
                /\ n > 0 => ~isspace(s[n])
                /\ \A j \in n + 1 .. Len(s) : isspace(s[j])
<1> DEFINE I == {i \in 1 .. Len(s) : ~isspace(s[i])}
<1>1. Len(s) \in Nat /\ I \in SUBSET (0 .. Len(s))
    BY DEF Text
<1>2. CASE I = {}
  <2>1. 0 \in 0 .. Len(s) /\ \A j \in 0 + 1 .. Len(s) : isspace(s[j])
    BY <1>1, <1>2
  <2> QED  BY <2>1
<1>3. CASE I # {}
  <2>1. PICK n \in I : \A y \in I : y <= n
    BY <1>1, <1>3, Largest
  <2>2. n \in 0 .. Len(s) /\ ~isspace(s[n])
    BY <1>1, <2>1
  <2>3. \A j \in n + 1 .. Len(s) : isspace(s[j])
    BY <1>1, <2>1, <2>2
  <2> QED  BY <2>2, <2>3
<1> QED  BY <1>2, <1>3

\* lskip leaves the text from its first character on that is no white space.
LEMMA LskipIs ==
    ASSUME NEW s \in Text, NEW m \in 1 .. Len(s), ~isspace(s[m]),
           \A j \in 1 .. m - 1 : isspace(s[j])
    PROVE  lskip(s) = SubSeq(s, m, Len(s))
<1> DEFINE I == {i \in 1 .. Len(s) : ~isspace(s[i])}
<1>1. lskip(s) = LET first == IF I # {} THEN Min(I) ELSE 0
                 IN  IF first = 0 THEN <<>> ELSE SubSeq(s, first, Len(s))
    BY DEF lskip, SelectInSeq, IsText
<1>2. Len(s) \in Nat /\ m \in I /\ I \in SUBSET Nat
    BY DEF Text
<1>3. \A y \in I : m <= y
    BY <1>2
<1> HIDE DEF I
<1>4. Min(I) = m /\ I # {} /\ m # 0
    BY <1>2, <1>3, MinIs
<1> QED  BY <1>1, <1>4

\* A text that lskip does not make empty has such a character.
LEMMA LskipStart ==
    ASSUME NEW s \in Text, lskip(s) # <<>>
    PROVE  \E m \in 1 .. Len(s) : ~isspace(s[m]) /\ \A j \in 1 .. m - 1 : isspace(s[j])
<1> DEFINE I == {i \in 1 .. Len(s) : ~isspace(s[i])}
<1>1. lskip(s) = LET first == IF I # {} THEN Min(I) ELSE 0
                 IN  IF first = 0 THEN <<>> ELSE SubSeq(s, first, Len(s))
    BY DEF lskip, SelectInSeq, IsText
<1>2. I # {} /\ I \in SUBSET Nat /\ Len(s) \in Nat
    BY <1>1 DEF Text
<1>3. Min(I) \in I /\ \A y \in I : Min(I) <= y
    BY <1>2, Smallest
<1> DEFINE m == Min(I)
<1>4. m \in I /\ \A y \in I : m <= y
    BY <1>3
<1> HIDE DEF m
<1>5. \A j \in 1 .. m - 1 : j \in 1 .. Len(s) /\ ~(m <= j)
    BY <1>2, <1>4
<1> QED  BY <1>4, <1>5

\* The first '=' or '#'.
LEMMA EqualsIs ==
    ASSUME NEW s \in Text, NEW e \in 1 .. Len(s), s[e] \in {"=", "#"},
           \A j \in 1 .. e - 1 : s[j] \notin {"=", "#"}
    PROVE  Equals(s) = e
<1> DEFINE I == {i \in 1 .. Len(s) : s[i] \in {"=", "#"}}
<1>1. Equals(s) = LET first == IF I # {} THEN Min(I) ELSE 0
                  IN  IF first = 0 THEN Len(s) + 1 ELSE first
    BY DEF Equals, find_char_or_comment, SelectInSeq
<1>2. Len(s) \in Nat /\ e \in I /\ I \in SUBSET Nat
    BY DEF Text
<1>3. \A y \in I : e <= y
    BY <1>2
<1> HIDE DEF I
<1>4. Min(I) = e /\ I # {} /\ e # 0
    BY <1>2, <1>3, MinIs
<1> QED  BY <1>1, <1>4

\* Nothing of the kind is in front of it.
LEMMA EqualsFirst ==
    ASSUME NEW s \in Text, Equals(s) <= Len(s)
    PROVE  Equals(s) \in 1 .. Len(s) /\ \A j \in 1 .. Equals(s) - 1 : s[j] \notin {"=", "#"}
<1> DEFINE I == {i \in 1 .. Len(s) : s[i] \in {"=", "#"}}
<1>1. Equals(s) = LET first == IF I # {} THEN Min(I) ELSE 0
                  IN  IF first = 0 THEN Len(s) + 1 ELSE first
    BY DEF Equals, find_char_or_comment, SelectInSeq
<1>2. Len(s) \in Nat /\ I \in SUBSET Nat
    BY DEF Text
<1>3. I # {}
    BY <1>1, <1>2
<1>4. Min(I) \in I /\ \A y \in I : Min(I) <= y
    BY <1>2, <1>3, Smallest
<1> DEFINE m == Min(I)
<1>5. m \in I /\ \A y \in I : m <= y
    BY <1>4
<1>6. Equals(s) = m
  <2>1. m # 0
    BY <1>5
  <2> QED  BY <1>1, <1>3, <2>1
<1> HIDE DEF m
<1>7. \A j \in 1 .. m - 1 : j \in 1 .. Len(s) /\ ~(m <= j)
    BY <1>2, <1>5
<1> QED  BY <1>5, <1>6, <1>7

\* A name that get_value can find, and a line that starts with it: behind the name
\* come white space and '='.
IsName(k) ==
    /\ k \in Text /\ k # <<>>
    /\ ~isspace(k[1]) /\ ~isspace(k[Len(k)])
    /\ \A j \in 1 .. Len(k) : k[j] \notin {"=", "#"}

HasName(line, k) ==
    /\ line \in Text
    /\ Len(k) < Len(line)
    /\ \A j \in 1 .. Len(k) : line[j] = k[j]
    /\ \E e \in Len(k) + 1 .. Len(line) :
            line[e] = "=" /\ \A j \in Len(k) + 1 .. e - 1 : isspace(line[j])

\* One text starts with another one.
LEMMA PrefixIs ==
    ASSUME NEW k \in Text, NEW s \in Text
    PROVE  IsPrefix(k, s) <=> Len(k) <= Len(s) /\ \A j \in 1 .. Len(k) : s[j] = k[j]
<1>1. Len(k) \in Nat /\ Len(s) \in Nat
    BY DEF Text
<1>2. CASE Len(k) <= Len(s)
  <2> DEFINE a == SubSeq(k, 1, Len(k))
             b == SubSeq(s, 1, Len(k))
  <2>1. a = k
    BY DEF Text
  <2>2. Len(k) \in 0 .. Len(s)
    BY <1>1, <1>2
  <2>3. b \in Text /\ Len(b) = Len(k) /\ \A j \in 1 .. Len(k) : b[j] = s[j]
    BY <2>2, FrontOf
  <2> HIDE DEF a, b
  <2>4. k = b <=> \A j \in 1 .. Len(k) : s[j] = k[j]
    BY <2>3 DEF Text
  <2> QED  BY <1>2, <2>1, <2>4 DEF IsPrefix, a, b
<1>3. CASE ~(Len(k) <= Len(s))
    BY <1>3 DEF IsPrefix
<1> QED  BY <1>2, <1>3

\* get_value finds the name in such a line.
LEMMA NameFound ==
    ASSUME NEW k, IsName(k), NEW line, HasName(line, k)
    PROVE  Assigns(line) /\ Key(line) = k
<1>1. /\ k \in Text /\ line \in Text /\ Len(k) \in Nat \ {0} /\ Len(line) \in Nat
      /\ Len(k) < Len(line)
      /\ ~isspace(k[1]) /\ ~isspace(k[Len(k)])
      /\ \A j \in 1 .. Len(k) : line[j] = k[j] /\ k[j] \notin {"=", "#"}
    BY DEF IsName, HasName, Text
<1>2. PICK e \in Len(k) + 1 .. Len(line) :
            line[e] = "=" /\ \A j \in Len(k) + 1 .. e - 1 : isspace(line[j])
    BY DEF HasName
<1>3. PICK n \in 0 .. Len(line) :
            /\ n > 0 => ~isspace(line[n])
            /\ \A j \in n + 1 .. Len(line) : isspace(line[j])
    BY <1>1, RstripEnd
<1>4. e <= n /\ n \in Nat /\ e \in Nat \ {0}
  <2>1. ~isspace(line[e])
    BY <1>2 DEF isspace
  <2>2. ~(e \in n + 1 .. Len(line))
    BY <1>3, <2>1
  <2> QED  BY <1>1, <1>2, <1>3, <2>2
<1> DEFINE s == SubSeq(line, 1, n)
<1>5. rstrip(line) = s
    BY <1>1, <1>3, RstripIs
<1>6. s \in Text /\ Len(s) = n /\ \A i \in 1 .. n : s[i] = line[i]
    BY <1>1, <1>3, FrontOf
<1> HIDE DEF s
<1>7. lskip(s) = s
  <2>1. 1 \in 1 .. Len(s) /\ ~isspace(s[1]) /\ \A j \in 1 .. 1 - 1 : isspace(s[j])
    BY <1>1, <1>4, <1>6
  <2>2. lskip(s) = SubSeq(s, 1, Len(s))
    BY <1>6, <2>1, LskipIs
  <2>3. SubSeq(s, 1, Len(s)) = s
    BY <1>6 DEF Text
  <2> QED  BY <2>2, <2>3
<1>8. Stripped(line) = s
    BY <1>5, <1>7 DEF Stripped
<1>9. ASSUME NEW j \in 1 .. e - 1 PROVE s[j] \notin {"=", "#"} /\ (j > Len(k) => isspace(s[j]))
  <2>1. j \in 1 .. n /\ s[j] = line[j]
    BY <1>1, <1>2, <1>3, <1>4, <1>6
  <2>2. CASE j <= Len(k)
    <3>1. j \in 1 .. Len(k) /\ ~(j > Len(k))
      BY <1>1, <2>2
    <3> QED  BY <1>1, <2>1, <3>1
  <2>3. CASE j > Len(k)
    <3>1. j \in Len(k) + 1 .. e - 1
      BY <1>1, <2>3
    <3>2. isspace(line[j])
      BY <1>2, <3>1
    <3> QED  BY <2>1, <3>2 DEF isspace
  <2> QED  BY <1>1, <2>2, <2>3
<1>10. e \in 1 .. Len(s) /\ s[e] = "="
    BY <1>2, <1>4, <1>6
<1>11. Equals(s) = e
  <2>1. \A j \in 1 .. e - 1 : s[j] \notin {"=", "#"}
    BY <1>9
  <2> QED  BY <1>6, <1>10, <2>1, EqualsIs
<1>12. Assigns(line)
    BY <1>8, <1>10, <1>11 DEF Assigns
<1> DEFINE t == SubSeq(s, 1, e - 1)
<1>13. t \in Text /\ Len(t) = e - 1 /\ \A i \in 1 .. e - 1 : t[i] = s[i]
  <2>1. e - 1 \in 0 .. Len(s)
    BY <1>4, <1>6
  <2> QED  BY <1>6, <2>1, FrontOf
<1>14. Key(line) = rstrip(t)
    BY <1>8, <1>11 DEF Key, Before
<1> HIDE DEF t
<1>15. \A i \in 1 .. Len(k) : t[i] = k[i]
  <2>1. \A i \in 1 .. Len(k) : i \in 1 .. e - 1 /\ i \in 1 .. n
    BY <1>1, <1>2, <1>4
  <2> QED  BY <1>1, <1>6, <1>13, <2>1
<1>16. Len(k) \in 0 .. Len(t) /\ ~isspace(t[Len(k)])
    BY <1>1, <1>2, <1>13, <1>15
<1>17. \A j \in Len(k) + 1 .. Len(t) : isspace(t[j])
  <2>1. \A j \in Len(k) + 1 .. Len(t) : j \in 1 .. e - 1 /\ j > Len(k)
    BY <1>1, <1>4, <1>13
  <2> QED  BY <1>9, <1>13, <2>1
<1>18. rstrip(t) = SubSeq(t, 1, Len(k))
    BY <1>13, <1>16, <1>17, RstripIs
<1> DEFINE u == SubSeq(t, 1, Len(k))
<1>19. u \in Text /\ Len(u) = Len(k) /\ \A i \in 1 .. Len(k) : u[i] = t[i]
    BY <1>13, <1>16, FrontOf
<1> HIDE DEF u
<1>20. u = k
    BY <1>1, <1>15, <1>19 DEF Text
<1> QED  BY <1>12, <1>14, <1>18, <1>20 DEF u

\* A line that starts with what get_value takes for its name is such a line.
LEMMA NameShape ==
    ASSUME NEW line \in Text, Assigns(line), Key(line) # <<>>, StartsWith(line, Key(line))
    PROVE  IsName(Key(line)) /\ HasName(line, Key(line))
<1>1. PICK n \in 0 .. Len(line) :
            /\ n > 0 => ~isspace(line[n])
            /\ \A j \in n + 1 .. Len(line) : isspace(line[j])
    BY RstripEnd
<1> DEFINE w == SubSeq(line, 1, n)
<1>2. /\ Len(line) \in Nat /\ n \in Nat /\ w \in Text /\ Len(w) = n
      /\ \A i \in 1 .. n : w[i] = line[i]
    BY FrontOf DEF Text
<1>3. Stripped(line) = lskip(w)
    BY <1>1, RstripIs DEF Stripped
<1> HIDE DEF w
<1> DEFINE s == lskip(w)
           e == Equals(s)
<1>4. e <= Len(s) /\ s[e] = "=" /\ Key(line) = rstrip(SubSeq(s, 1, e - 1))
    BY <1>3 DEF Assigns, Key, Before
<1>5. s # <<>>
  <2>1. Equals(<<>>) = 1
    <3>1. \A S : {i \in 1 .. 0 : S} = {}
      OBVIOUS
    <3>2. Len(<<>>) = 0
      OBVIOUS
    <3> QED  BY <3>1, <3>2 DEF Equals, find_char_or_comment, SelectInSeq
  <2>2. Len(<<>>) = 0
    OBVIOUS
  <2> SUFFICES ASSUME s = <<>> PROVE FALSE
    OBVIOUS
  <2> QED  BY <1>4, <2>1, <2>2
<1>6. PICK m \in 1 .. Len(w) : ~isspace(w[m]) /\ \A j \in 1 .. m - 1 : isspace(w[j])
    BY <1>2, <1>5, LskipStart
<1>7. s = SubSeq(w, m, Len(w))
    BY <1>2, <1>6, LskipIs
<1>8. /\ s \in Text /\ Len(s) = n - m + 1 /\ \A i \in 1 .. n - m + 1 : s[i] = w[m + i - 1]
      /\ m \in 1 .. n
  <2>1. Len(w) \in m .. Len(w)
    BY <1>2, <1>6
  <2> QED  BY <1>2, <1>6, <1>7, <2>1, PartOf
<1>9. e \in 1 .. Len(s) /\ \A j \in 1 .. e - 1 : s[j] \notin {"=", "#"}
    BY <1>4, <1>8, EqualsFirst
<1> HIDE DEF s, e
<1> DEFINE t == SubSeq(s, 1, e - 1)
<1>10. t \in Text /\ Len(t) = e - 1 /\ \A i \in 1 .. e - 1 : t[i] = s[i]
  <2>1. e - 1 \in 0 .. Len(s)
    BY <1>2, <1>8, <1>9
  <2> QED  BY <1>8, <2>1, FrontOf
<1>11. PICK q \in 0 .. Len(t) :
            /\ q > 0 => ~isspace(t[q])
            /\ \A j \in q + 1 .. Len(t) : isspace(t[j])
    BY <1>10, RstripEnd
<1> DEFINE k == Key(line)
<1>12. k = SubSeq(t, 1, q)
    BY <1>4, <1>10, <1>11, RstripIs
<1> HIDE DEF t
<1>13. k \in Text /\ Len(k) = q /\ \A i \in 1 .. q : k[i] = t[i]
    BY <1>10, <1>11, <1>12, FrontOf
<1>14. k # <<>> /\ StartsWith(line, k)
    OBVIOUS
<1> HIDE DEF k
<1>15. q \in Nat \ {0} /\ q <= e - 1 /\ e \in Nat
    BY <1>8, <1>9, <1>10, <1>11, <1>13, <1>14 DEF Text
<1>16. Len(k) <= Len(line) /\ \A j \in 1 .. Len(k) : line[j] = k[j]
    BY <1>13, <1>14, PrefixIs DEF StartsWith
<1>17. \A i \in 1 .. q : k[i] = s[i] /\ k[i] \notin {"=", "#"}
  <2>1. \A i \in 1 .. q : i \in 1 .. e - 1
    BY <1>15
  <2> QED  BY <1>9, <1>10, <1>13, <2>1
<1>18. ~isspace(k[1]) /\ ~isspace(k[q])
  <2>1. k[1] = s[1] /\ 1 \in 1 .. n - m + 1 /\ m + 1 - 1 = m /\ q \in 1 .. q
    BY <1>8, <1>9, <1>15, <1>17
  <2>2. s[1] = w[m]
    BY <1>8, <2>1
  <2> QED  BY <1>6, <1>11, <1>13, <1>15, <2>1, <2>2
<1>19. IsName(k)
    BY <1>13, <1>14, <1>17, <1>18 DEF IsName
<1>20. m = 1
  <2> SUFFICES ASSUME m # 1 PROVE FALSE
    OBVIOUS
  <2>1. 1 \in 1 .. m - 1 /\ 1 \in 1 .. n /\ 1 \in 1 .. Len(k)
    BY <1>2, <1>8, <1>13, <1>15
  <2>2. isspace(w[1]) /\ w[1] = line[1] /\ line[1] = k[1]
    BY <1>2, <1>6, <1>16, <2>1
  <2> QED  BY <1>18, <2>2
<1>21. \A i \in 1 .. Len(s) : line[i] = s[i] /\ i <= Len(line)
  <2>1. \A i \in 1 .. Len(s) : i \in 1 .. n - m + 1 /\ m + i - 1 = i /\ i \in 1 .. n /\ i <= Len(line)
    BY <1>1, <1>2, <1>8, <1>20
  <2> QED  BY <1>2, <1>8, <2>1
<1>22. e \in Len(k) + 1 .. Len(line) /\ line[e] = "="
    BY <1>2, <1>4, <1>9, <1>13, <1>15, <1>21
<1>23. \A j \in Len(k) + 1 .. e - 1 : isspace(line[j])
  <2>1. \A j \in Len(k) + 1 .. e - 1 : j \in q + 1 .. Len(t) /\ j \in 1 .. e - 1 /\ j \in 1 .. Len(s)
    BY <1>8, <1>9, <1>10, <1>13, <1>15
  <2> QED  BY <1>10, <1>11, <1>21, <2>1
<1>24. Len(k) < Len(line)
    BY <1>2, <1>13, <1>15, <1>22
<1>25. HasName(line, k)
    BY <1>16, <1>22, <1>23, <1>24 DEF HasName
<1> QED  BY <1>19, <1>25 DEF k

-----------------------------------------------------------------------------
(* What set_value does to the lines with names.                            *)

\* Two names with which one line starts: one of them starts with the other.
LEMMA OneInTheOther ==
    ASSUME NEW name \in Text, NEW k \in Text, NEW line \in Text,
           StartsWith(line, name), \A j \in 1 .. Len(k) : line[j] = k[j],
           ~IsStrictPrefix(name, k)
    PROVE  /\ Len(k) <= Len(name) /\ Len(name) <= Len(line)
           /\ \A j \in 1 .. Len(name) : line[j] = name[j]
<1>1. Len(name) \in Nat /\ Len(k) \in Nat /\ Len(line) \in Nat
    BY DEF Text
<1>2. Len(name) <= Len(line) /\ \A j \in 1 .. Len(name) : line[j] = name[j]
    BY PrefixIs DEF StartsWith
<1>3. CASE Len(name) < Len(k)
  <2>1. \A j \in 1 .. Len(name) : j \in 1 .. Len(k)
    BY <1>1, <1>3
  <2>2. Len(name) <= Len(k) /\ \A j \in 1 .. Len(name) : k[j] = name[j]
    BY <1>1, <1>2, <1>3, <2>1
  <2>3. IsPrefix(name, k)
    BY <2>2, PrefixIs
  <2>4. name # k
    BY <1>1, <1>3
  <2> QED  BY <2>3, <2>4 DEF IsStrictPrefix
<1> QED  BY <1>1, <1>2, <1>3

\* A line keeps its name, unless set_value is called with the start of it.
LEMMA ChangedKeepsName ==
    ASSUME NEW name \in Names, NEW value \in Values, NEW k, IsName(k),
           NEW line, HasName(line, k), ~IsStrictPrefix(name, k)
    PROVE  HasName(Changed(line, name, value), k)
<1>1. CASE ~StartsWith(line, name)
    BY <1>1 DEF Changed
<1>2. CASE StartsWith(line, name)
  <2> DEFINE w == NewLine(name, value)
             n == Len(name)
             v == Len(value)
  <2>1. /\ name \in Text /\ w \in Text /\ n \in Nat \ {0} /\ v \in Nat /\ Len(w) = n + v + 2
        /\ \A i \in 1 .. n : w[i] = name[i]
        /\ w[n + 1] = "="
    BY NewLineChars
  <2>2. k \in Text /\ Len(k) \in Nat /\ line \in Text /\ \A j \in 1 .. Len(k) : line[j] = k[j]
    BY DEF IsName, HasName, Text
  <2>3. Len(k) <= n /\ n <= Len(line) /\ \A j \in 1 .. n : line[j] = name[j]
    BY <1>2, <2>1, <2>2, OneInTheOther
  <2>4. Changed(line, name, value) = w
    BY <1>2 DEF Changed
  <2>5. PICK e \in Len(k) + 1 .. Len(line) :
            line[e] = "=" /\ \A j \in Len(k) + 1 .. e - 1 : isspace(line[j])
    BY DEF HasName
  <2> HIDE DEF w, n, v
  <2>6. \A j \in 1 .. n : w[j] = line[j]
    BY <2>1, <2>3
  <2>7. Len(k) < Len(w) /\ \A j \in 1 .. Len(k) : w[j] = k[j]
    <3>1. \A j \in 1 .. Len(k) : j \in 1 .. n
      BY <2>1, <2>2, <2>3
    <3>2. Len(k) < Len(w)
      BY <2>1, <2>2, <2>3
    <3> QED  BY <2>2, <2>6, <3>1, <3>2
  <2>8. CASE e <= n
    <3>1. e \in Len(k) + 1 .. Len(w) /\ e \in 1 .. n
          /\ \A j \in Len(k) + 1 .. e - 1 : j \in 1 .. n
      BY <2>1, <2>2, <2>3, <2>5, <2>8
    <3>2. w[e] = "=" /\ \A j \in Len(k) + 1 .. e - 1 : isspace(w[j])
      BY <2>5, <2>6, <3>1
    <3> QED  BY <2>1, <2>4, <2>7, <3>1, <3>2 DEF HasName
  <2>9. CASE ~(e <= n)
    <3>1. n + 1 \in Len(k) + 1 .. Len(w)
          /\ \A j \in Len(k) + 1 .. n + 1 - 1 : j \in 1 .. n /\ j \in Len(k) + 1 .. e - 1
      BY <2>1, <2>2, <2>3, <2>5, <2>9
    <3>2. \A j \in Len(k) + 1 .. n + 1 - 1 : isspace(w[j])
      BY <2>5, <2>6, <3>1
    <3> QED  BY <2>1, <2>4, <2>7, <3>1, <3>2 DEF HasName
  <2> QED  BY <2>8, <2>9
<1> QED  BY <1>1, <1>2

\* get_value can find the names that set_value is called with.
LEMMA NamesAreNames == \A n \in Names : IsName(n)
<1> SUFFICES ASSUME NEW n \in Names PROVE IsName(n)
    OBVIOUS
<1>1. n \in Text /\ n # <<>>
    BY SettingsAssumption, TextsAreTexts
<1>2. /\ ~isspace(n[1]) /\ ~isspace(n[Len(n)])
      /\ \A j \in 1 .. Len(n) : n[j] # "=" /\ n[j] # "#"
    BY NamesAssumption DEF IsText, Contains
<1> QED  BY <1>1, <1>2 DEF IsName

\* set_value with another name leaves the line alone.
LEMMA OtherNameKeepsLine ==
    ASSUME NEW name \in Names, NEW k, IsName(k), NEW line, HasName(line, k),
           ~IsStrictPrefix(name, k), name # k
    PROVE  ~StartsWith(line, name)
<1> SUFFICES ASSUME StartsWith(line, name) PROVE FALSE
    OBVIOUS
<1>1. /\ name \in Text /\ k \in Text /\ line \in Text
      /\ Len(name) \in Nat \ {0} /\ Len(k) \in Nat /\ Len(line) \in Nat
      /\ ~isspace(name[Len(name)])
      /\ \A j \in 1 .. Len(name) : name[j] # "="
      /\ \A j \in 1 .. Len(k) : line[j] = k[j]
    BY NamesAreNames DEF IsName, HasName, Text
<1>2. /\ Len(k) <= Len(name) /\ Len(name) <= Len(line)
      /\ \A j \in 1 .. Len(name) : line[j] = name[j]
    BY <1>1, OneInTheOther
<1>3. PICK e \in Len(k) + 1 .. Len(line) :
            line[e] = "=" /\ \A j \in Len(k) + 1 .. e - 1 : isspace(line[j])
    BY DEF HasName
<1>4. CASE Len(name) = Len(k)
  <2>1. \A j \in 1 .. Len(name) : name[j] = k[j]
    BY <1>1, <1>2, <1>4
  <2>2. name = k
    BY <1>1, <1>4, <2>1 DEF Text
  <2> QED  BY <2>2
<1>5. CASE Len(name) > Len(k)
  <2>1. ~(e \in 1 .. Len(name))
    BY <1>1, <1>2, <1>3
  <2>2. Len(name) \in Len(k) + 1 .. e - 1 /\ Len(name) \in 1 .. Len(name)
    BY <1>1, <1>2, <1>3, <1>5, <2>1
  <2>3. isspace(line[Len(name)]) /\ line[Len(name)] = name[Len(name)]
    BY <1>2, <1>3, <2>2
  <2> QED  BY <1>1, <2>3
<1> QED  BY <1>1, <1>2, <1>4, <1>5

\* The line that set_value makes has the name it was called with.
LEMMA NewLineHasName ==
    ASSUME NEW name \in Names, NEW value \in Values
    PROVE  HasName(NewLine(name, value), name)
<1> DEFINE w == NewLine(name, value)
<1>1. /\ name \in Text /\ w \in Text /\ Len(name) \in Nat /\ Len(value) \in Nat
      /\ Len(w) = Len(name) + Len(value) + 2
      /\ \A i \in 1 .. Len(name) : w[i] = name[i]
      /\ w[Len(name) + 1] = "="
    BY NewLineChars
<1> HIDE DEF w
<1>2. /\ Len(name) + 1 \in Len(name) + 1 .. Len(w) /\ Len(name) < Len(w)
      /\ \A j \in Len(name) + 1 .. Len(name) + 1 - 1 : isspace(w[j])
    BY <1>1
<1> QED  BY <1>1, <1>2 DEF HasName, w

-----------------------------------------------------------------------------
(* What get_value finds in a file.                                         *)

Matches(line, k) == Assigns(line) /\ Key(line) = k

\* Line i of the file is the first with the name.
FirstAt(f, k, i) ==
    /\ i \in DOMAIN Pieces(f)
    /\ Matches(Pieces(f)[i], k)
    /\ \A j \in 1 .. i - 1 : ~Matches(Pieces(f)[j], k)

\* The lines are numbered from 1 on.
LEMMA PiecesDomain ==
    ASSUME NEW f, Good(f)
    PROVE  /\ Len(Pieces(f)) \in Nat /\ DOMAIN Pieces(f) = 1 .. Len(Pieces(f))
           /\ Pieces(f) \in Seq(Text)
BY PiecesLines

\* get_value takes the value from the first line with the name.
LEMMA GetValueIs ==
    ASSUME NEW f, Good(f), NEW k, NEW i, FirstAt(f, k, i)
    PROVE  get_value(f, k) = [found |-> TRUE, text |-> ValueOf(Pieces(f)[i])]
<1> DEFINE I == {j \in 1 .. Len(Pieces(f)) : Assigns(Pieces(f)[j]) /\ Key(Pieces(f)[j]) = k}
<1>1. get_value(f, k) = LET first == IF I # {} THEN Min(I) ELSE 0
                        IN  IF first = 0 THEN [found |-> FALSE, text |-> <<>>]
                            ELSE [found |-> TRUE, text |-> ValueOf(Pieces(f)[first])]
    BY DEF get_value, SelectInSeq
<1>2. i \in I /\ I \in SUBSET Nat /\ i \in Nat \ {0}
    BY PiecesDomain DEF FirstAt, Matches
<1>3. \A y \in I : i <= y
  <2> SUFFICES ASSUME NEW y \in I, ~(i <= y) PROVE FALSE
    OBVIOUS
  <2>1. y \in 1 .. i - 1 /\ Matches(Pieces(f)[y], k)
    BY <1>2, PiecesDomain DEF Matches
  <2> QED  BY <2>1 DEF FirstAt
<1> HIDE DEF I
<1>4. Min(I) = i /\ I # {} /\ i # 0
    BY <1>2, <1>3, MinIs
<1> QED  BY <1>1, <1>4

\* If some line has the name, there is a first one.
LEMMA FirstThere ==
    ASSUME NEW f, Good(f), NEW k, NEW h \in DOMAIN Pieces(f), Matches(Pieces(f)[h], k)
    PROVE  \E i \in 1 .. h : FirstAt(f, k, i)
<1> DEFINE I == {j \in 1 .. Len(Pieces(f)) : Matches(Pieces(f)[j], k)}
<1>1. h \in I /\ I \in SUBSET Nat /\ I # {}
    BY PiecesDomain
<1>2. Min(I) \in I /\ \A y \in I : Min(I) <= y
    BY <1>1, Smallest
<1> DEFINE m == Min(I)
<1>3. m \in I /\ \A y \in I : m <= y
    BY <1>2
<1> HIDE DEF m
<1>4. m \in 1 .. h
    BY <1>1, <1>3
<1>5. \A j \in 1 .. m - 1 : j \in 1 .. Len(Pieces(f)) /\ ~(m <= j)
    BY <1>3, PiecesDomain
<1>6. FirstAt(f, k, m)
    BY <1>3, <1>5, PiecesDomain DEF FirstAt
<1> QED  BY <1>4, <1>6

\* Every delivered name is in some line of the file, at its start.
Named(f) == \A k \in Delivered : \E i \in DOMAIN Pieces(f) : HasName(Pieces(f)[i], k)

\* The first line with the name starts with it and has the value.
Holds(f, k, text) ==
    \E i \in DOMAIN Pieces(f) :
        FirstAt(f, k, i) /\ HasName(Pieces(f)[i], k) /\ ValueOf(Pieces(f)[i]) = text

\* What a file holds is what get_value finds.
LEMMA HoldsFound ==
    ASSUME NEW f, Good(f), NEW k, NEW text, Holds(f, k, text)
    PROVE  get_value(f, k) = [found |-> TRUE, text |-> text]
BY GetValueIs DEF Holds

\* A delivered line with a name starts with it.
LEMMA DeliveredLines ==
    ASSUME NEW i \in DOMAIN Pieces(InitialFile), Assigns(Pieces(InitialFile)[i])
    PROVE  /\ IsName(Key(Pieces(InitialFile)[i]))
           /\ HasName(Pieces(InitialFile)[i], Key(Pieces(InitialFile)[i]))
<1> DEFINE line == Pieces(InitialFile)[i]
<1>1. line \in ToSet(Pieces(InitialFile))
    BY DEF ToSet
<1>2. line \in Text
    BY DeliveredGood, PiecesLines DEF IsLine
<1>3. Assigns(line) /\ Key(line) # <<>> /\ StartsWith(line, Key(line))
    BY <1>1, DeliveredAssumption
<1> HIDE DEF line
<1>4. IsName(Key(line)) /\ HasName(line, Key(line))
    BY <1>2, <1>3, NameShape
<1> QED  BY <1>4 DEF line

\* The delivered names can be found, and are there.
LEMMA DeliveredKeys ==
    ASSUME NEW k \in Delivered
    PROVE  /\ IsName(k)
           /\ \E i \in DOMAIN Pieces(InitialFile) : Matches(Pieces(InitialFile)[i], k)
<1>1. PICK line \in ToSet(Pieces(InitialFile)) : Assigns(line) /\ k = Key(line)
    BY DEF Delivered, Keys
<1>2. PICK i \in DOMAIN Pieces(InitialFile) : line = Pieces(InitialFile)[i]
    BY <1>1 DEF ToSet
<1>3. IsName(k)
    BY <1>1, <1>2, DeliveredLines
<1>4. Matches(Pieces(InitialFile)[i], k)
    BY <1>1, <1>2 DEF Matches
<1> QED  BY <1>3, <1>4

\* The delivered file has what get_value finds in it.
LEMMA DeliveredHolds ==
    ASSUME NEW k \in Delivered
    PROVE  Holds(InitialFile, k, get_value(InitialFile, k).text)
<1>1. PICK h \in DOMAIN Pieces(InitialFile) : Matches(Pieces(InitialFile)[h], k)
    BY DeliveredKeys
<1>2. PICK i \in 1 .. h : FirstAt(InitialFile, k, i)
    BY <1>1, DeliveredGood, FirstThere
<1> DEFINE line == Pieces(InitialFile)[i]
<1>3. i \in DOMAIN Pieces(InitialFile) /\ Assigns(line) /\ Key(line) = k
    BY <1>2 DEF FirstAt, Matches
<1>4. HasName(line, k)
    BY <1>3, DeliveredLines
<1>5. get_value(InitialFile, k) = [found |-> TRUE, text |-> ValueOf(line)]
    BY <1>2, DeliveredGood, GetValueIs
<1>6. get_value(InitialFile, k).text = ValueOf(line)
    BY <1>5
<1> QED  BY <1>2, <1>3, <1>4, <1>6 DEF Holds

\* All delivered names are in the delivered file.
LEMMA DeliveredNamed == Named(InitialFile)
BY DeliveredHolds DEF Named, Holds

\* No name of a delivered line gets lost when the file is changed ...
LEMMA RewrittenNamed ==
    ASSUME NEW f, Good(f), Named(f), NEW name \in Names, NEW value \in Values,
           ~Overruns(f, name, value), \A k \in Delivered : ~IsStrictPrefix(name, k)
    PROVE  Named(Rewritten(f, name, value))
<1> DEFINE g == Rewritten(f, name, value)
<1> SUFFICES ASSUME NEW k \in Delivered
             PROVE  \E i \in DOMAIN Pieces(g) : HasName(Pieces(g)[i], k)
    BY DEF Named
<1>1. Pieces(g) = [i \in DOMAIN Pieces(f) |-> Changed(Pieces(f)[i], name, value)]
    BY RewrittenLines
<1>2. PICK i \in DOMAIN Pieces(f) : HasName(Pieces(f)[i], k)
    BY DEF Named
<1>3. HasName(Changed(Pieces(f)[i], name, value), k)
    BY <1>2, DeliveredKeys, ChangedKeepsName
<1> HIDE DEF g
<1>4. i \in DOMAIN Pieces(g) /\ Pieces(g)[i] = Changed(Pieces(f)[i], name, value)
    BY <1>1
<1> QED  BY <1>3, <1>4

\* The lines of a text come first when it is written over another one.
LEMMA OverFront ==
    ASSUME NEW new, Good(new), NEW old, Good(old), NEW i \in DOMAIN Pieces(new)
    PROVE  /\ i \in DOMAIN Pieces(Over(new, old))
           /\ Pieces(Over(new, old))[i] = Pieces(new)[i]
<1> DEFINE a == Pieces(new)
           b == Pieces(Over(new, old))
<1>1. a \in Seq(Text) /\ Len(a) \in Nat /\ DOMAIN a = 1 .. Len(a)
    BY PiecesDomain
<1>2. PICK s \in Seq(Text) : b = a \o s
    BY OverGood
<1>3. i \in DOMAIN a
    OBVIOUS
<1> HIDE DEF a, b
<1>4. Len(s) \in Nat /\ b \in Seq(Text) /\ Len(b) = Len(a) + Len(s) /\ DOMAIN b = 1 .. Len(b)
    BY <1>1, <1>2
<1>5. i \in 1 .. Len(a) /\ i \in DOMAIN b
    BY <1>1, <1>3, <1>4
<1>6. b[i] = a[i]
    BY <1>1, <1>2, <1>5
<1> QED  BY <1>5, <1>6 DEF a, b

\* ... and written.
LEMMA OverNamed ==
    ASSUME NEW new, Good(new), Named(new), NEW old, Good(old)
    PROVE  Named(Over(new, old))
BY OverFront DEF Named

\* What a text holds it holds when written over another one.
LEMMA OverHolds ==
    ASSUME NEW new, Good(new), NEW old, Good(old), NEW k, NEW text, Holds(new, k, text)
    PROVE  Holds(Over(new, old), k, text)
<1> DEFINE g == Over(new, old)
<1>1. PICK i \in DOMAIN Pieces(new) :
            /\ FirstAt(new, k, i) /\ HasName(Pieces(new)[i], k)
            /\ ValueOf(Pieces(new)[i]) = text
    BY DEF Holds
<1>2. \A j \in DOMAIN Pieces(new) : j \in DOMAIN Pieces(g) /\ Pieces(g)[j] = Pieces(new)[j]
    BY OverFront
<1> HIDE DEF g
<1>3. \A j \in 1 .. i - 1 : j \in DOMAIN Pieces(new)
    BY <1>1, PiecesDomain
<1>4. FirstAt(g, k, i)
    BY <1>1, <1>2, <1>3 DEF FirstAt
<1> QED  BY <1>1, <1>2, <1>4 DEF Holds, g

\* After set_value the first line with its name is the new line; for the other
\* names it is the one that it was.
LEMMA RewrittenHolds ==
    ASSUME NEW f, Good(f), NEW name \in Names, NEW value \in Values,
           ~Overruns(f, name, value),
           NEW k \in Delivered, ~IsStrictPrefix(name, k), NEW text, Holds(f, k, text)
    PROVE  Holds(Rewritten(f, name, value), k,
                 IF k = name THEN ValueOf(NewLine(name, value)) ELSE text)
<1> DEFINE g == Rewritten(f, name, value)
           new == NewLine(name, value)
<1>1. Good(g) /\ Pieces(g) = [i \in DOMAIN Pieces(f) |-> Changed(Pieces(f)[i], name, value)]
    BY RewrittenLines
<1>2. PICK p \in DOMAIN Pieces(f) :
            /\ FirstAt(f, k, p) /\ HasName(Pieces(f)[p], k) /\ ValueOf(Pieces(f)[p]) = text
    BY DEF Holds
<1> HIDE DEF g
<1>3. /\ DOMAIN Pieces(g) = DOMAIN Pieces(f)
      /\ \A i \in DOMAIN Pieces(f) : Pieces(g)[i] = Changed(Pieces(f)[i], name, value)
    BY <1>1
<1>4. IsName(k) /\ IsName(name) /\ HasName(new, name) /\ Matches(new, name)
    BY DeliveredKeys, NamesAreNames, NewLineHasName, NameFound DEF Matches
<1>5. \A j \in 1 .. p - 1 : j \in DOMAIN Pieces(f) /\ ~Matches(Pieces(f)[j], k)
    BY <1>2, PiecesDomain DEF FirstAt
<1>6. CASE k # name
  <2>1. Pieces(g)[p] = Pieces(f)[p]
    BY <1>2, <1>3, <1>4, <1>6, OtherNameKeepsLine DEF Changed
  <2>2. ASSUME NEW j \in 1 .. p - 1 PROVE ~Matches(Pieces(g)[j], k)
    <3>1. Pieces(g)[j] = Pieces(f)[j] \/ Pieces(g)[j] = new
      BY <1>3, <1>5 DEF Changed
    <3>2. ~Matches(new, k)
      BY <1>4, <1>6 DEF Matches
    <3> QED  BY <1>5, <3>1, <3>2
  <2>3. FirstAt(g, k, p)
    BY <1>2, <1>3, <2>1, <2>2 DEF FirstAt
  <2> QED  BY <1>2, <1>3, <1>6, <2>1, <2>3 DEF Holds, g
<1>7. CASE k = name
  <2>1. StartsWith(Pieces(f)[p], name)
    <3>1. k \in Text /\ Pieces(f)[p] \in Text /\ Len(k) \in Nat /\ Len(Pieces(f)[p]) \in Nat
      BY <1>2, <1>4 DEF IsName, HasName, Text
    <3>2. Len(k) <= Len(Pieces(f)[p]) /\ \A j \in 1 .. Len(k) : Pieces(f)[p][j] = k[j]
      BY <1>2, <3>1 DEF HasName
    <3> QED  BY <1>7, <3>1, <3>2, PrefixIs DEF StartsWith
  <2>2. Pieces(g)[p] = new
    BY <1>3, <2>1 DEF Changed
  <2>3. Matches(Pieces(g)[p], k)
    BY <1>4, <1>7, <2>2
  <2>4. PICK q \in 1 .. p : FirstAt(g, k, q)
    BY <1>1, <1>3, <2>3, FirstThere
  <2>5. Pieces(g)[q] = new
    <3>1. CASE q = p
      BY <2>2, <3>1
    <3>2. CASE q # p
      <4>1. q \in 1 .. p - 1
        BY <2>4, <3>2, PiecesDomain
      <4>2. Pieces(g)[q] = Pieces(f)[q] \/ Pieces(g)[q] = new
        BY <1>3, <1>5, <4>1 DEF Changed
      <4>3. Matches(Pieces(g)[q], k)
        BY <2>4 DEF FirstAt
      <4> QED  BY <1>5, <4>1, <4>2, <4>3
    <3> QED  BY <3>1, <3>2
  <2>6. q \in DOMAIN Pieces(g)
    BY <2>4 DEF FirstAt
  <2> QED  BY <1>4, <1>7, <2>4, <2>5, <2>6 DEF Holds, g
<1> QED  BY <1>6, <1>7

-----------------------------------------------------------------------------
(* The invariant of set_value.                                             *)

\* The file's history is a sequence, and starts with the delivered file.
HistoryInv ==
    /\ versions \in Seq({versions[i] : i \in DOMAIN versions})
    /\ Len(versions) > 0

SetDomains == DOMAIN wpc = Procs /\ DOMAIN job = Procs /\ DOMAIN expected = Delivered

\* What set_value is about to write was made from a version of the file; if no
\* other was written since, from the present one.
JobInv ==
    \A p \in Procs : wpc[p] = "write" =>
        /\ job[p].name \in Names /\ job[p].value \in Values
        /\ job[p].based \in 1 .. Len(versions)
        /\ job[p].based = Len(versions) =>
                /\ job[p].content = Rewritten(file, job[p].name, job[p].value)
                /\ Mishaps(file, job[p].name, job[p].value) \subseteq mishaps

\* The file and all that may be written to it are whole,
WholeInv ==
    "overrun" \notin mishaps =>
        /\ Whole(file)
        /\ \A p \in Procs : wpc[p] = "write" => Whole(job[p].content)

\* have all delivered names,
NamedInv ==
    mishaps \cap {"prefix", "overrun"} = {} =>
        /\ Named(file)
        /\ \A p \in Procs : wpc[p] = "write" => Named(job[p].content)

\* and the file has the values last set.
HoldsInv ==
    mishaps \subseteq {"nofile"} => \A k \in Delivered : Holds(file, k, expected[k])

SetInv == HistoryInv /\ SetDomains /\ JobInv /\ WholeInv /\ NamedInv /\ HoldsInv

\* set_value adds a version behind those that were there.
LEMMA HistoryGrows ==
    ASSUME HistoryInv, NEW new, versions' = Append(versions, new)
    PROVE  /\ HistoryInv'
           /\ Len(versions') = Len(versions) + 1 /\ Len(versions) \in Nat
           /\ \A i \in 1 .. Len(versions) : versions'[i] = versions[i]
           /\ file' = new
<1> DEFINE S == {versions[i] : i \in DOMAIN versions} \cup {new}
           T == {versions'[i] : i \in DOMAIN versions'}
<1>1. versions \in Seq(S) /\ new \in S /\ Len(versions) \in Nat
  BY DEF HistoryInv
<1>2. /\ versions' \in Seq(S) /\ Len(versions') = Len(versions) + 1
      /\ \A i \in 1 .. Len(versions) : versions'[i] = versions[i]
      /\ versions'[Len(versions')] = new
  BY <1>1
<1>3. \A R, s : s \in Seq(R) => s \in [1 .. Len(s) -> R] /\ DOMAIN s = 1 .. Len(s)
  OBVIOUS
<1>4. versions' \in [1 .. Len(versions') -> T]
  BY <1>2, <1>3
<1>5. versions' \in Seq(T)
  BY <1>1, <1>2, <1>4
<1> QED  BY <1>1, <1>2, <1>5 DEF HistoryInv, file, Last

\* Steps that write nothing and prepare nothing.
LEMMA SetFrame ==
    ASSUME SetInv, UNCHANGED <<versions, expected>>, mishaps \subseteq mishaps',
           DOMAIN wpc' = Procs, DOMAIN job' = Procs,
           \A p \in Procs : wpc'[p] = "write" => wpc[p] = "write" /\ job'[p] = job[p]
    PROVE  SetInv'
<1>1. file' = file /\ Len(versions') = Len(versions)
    BY DEF file
<1>2. HistoryInv' /\ SetDomains'
    BY DEF SetInv, HistoryInv, SetDomains
<1>3. JobInv'
  <2> SUFFICES ASSUME NEW p \in Procs, wpc'[p] = "write"
               PROVE  /\ job'[p].name \in Names /\ job'[p].value \in Values
                      /\ job'[p].based \in 1 .. Len(versions')
                      /\ job'[p].based = Len(versions') =>
                            /\ job'[p].content = Rewritten(file', job'[p].name, job'[p].value)
                            /\ Mishaps(file', job'[p].name, job'[p].value) \subseteq mishaps'
    BY DEF JobInv
  <2>1. wpc[p] = "write" /\ job'[p] = job[p]
    OBVIOUS
  <2>2. /\ job[p].name \in Names /\ job[p].value \in Values
        /\ job[p].based \in 1 .. Len(versions)
        /\ job[p].based = Len(versions) =>
                /\ job[p].content = Rewritten(file, job[p].name, job[p].value)
                /\ Mishaps(file, job[p].name, job[p].value) \subseteq mishaps
    BY <2>1 DEF SetInv, JobInv
  <2> QED  BY <1>1, <2>1, <2>2
<1>4. WholeInv'
    BY <1>1 DEF SetInv, WholeInv
<1>5. NamedInv'
    BY <1>1 DEF SetInv, NamedInv
<1>6. HoldsInv'
    BY <1>1 DEF SetInv, HoldsInv
<1> QED  BY <1>2, <1>3, <1>4, <1>5, <1>6 DEF SetInv

\* The invariant holds at first.
LEMMA InitSet == SettingsInit => SetInv
<1> SUFFICES ASSUME SettingsInit PROVE SetInv
    OBVIOUS
<1>1. versions = <<InitialFile>> /\ file = InitialFile
    BY DEF SettingsInit, file, Last
<1>2. HistoryInv
    BY <1>1 DEF HistoryInv
<1>3. SetDomains
    BY DEF SettingsInit, SetDomains
<1>4. \A p \in Procs : wpc[p] # "write"
    BY DEF SettingsInit
<1>5. HoldsInv
    BY <1>1, DeliveredHolds DEF HoldsInv, SettingsInit
<1> QED  BY <1>1, <1>2, <1>3, <1>4, <1>5, DeliveredWhole, DeliveredNamed
         DEF SetInv, JobInv, WholeInv, NamedInv

\* The mishaps of a call are noted.
LEMMA NoMishap ==
    ASSUME NEW f, NEW name, NEW value, NEW M, Mishaps(f, name, value) \subseteq M
    PROVE  /\ "overrun" \notin M => ~Overruns(f, name, value)
           /\ "prefix" \notin M => \A k \in Delivered : ~IsStrictPrefix(name, k)
BY DEF Mishaps

\* The first half of set_value.
LEMMA SetReadStep ==
    ASSUME SetInv, NEW q \in Procs, NEW name \in Names, NEW value \in Values,
           SetRead(q, name, value)
    PROVE  SetInv'
<1> DEFINE c == Rewritten(file, name, value)
<1>1. /\ UNCHANGED <<versions, expected>>
      /\ mishaps' = mishaps \cup Mishaps(file, name, value)
      /\ wpc' = [wpc EXCEPT ![q] = "write"]
      /\ job' = [job EXCEPT ![q] = [name |-> name, value |-> value, content |-> c,
                                    based |-> Len(versions)]]
    BY DEF SetRead
<1>2. file' = file /\ Len(versions') = Len(versions) /\ Len(versions) \in Nat \ {0}
    BY <1>1 DEF file, SetInv, HistoryInv
<1>3. /\ DOMAIN wpc' = Procs /\ DOMAIN job' = Procs
      /\ job'[q].name = name /\ job'[q].value = value /\ job'[q].content = c
      /\ job'[q].based = Len(versions)
      /\ \A p \in Procs \ {q} : wpc'[p] = wpc[p] /\ job'[p] = job[p]
    BY <1>1 DEF SetInv, SetDomains
<1> HIDE DEF c
<1>4. /\ mishaps \subseteq mishaps' /\ Mishaps(file, name, value) \subseteq mishaps'
    BY <1>1
<1>5. HistoryInv' /\ SetDomains'
    BY <1>1, <1>3 DEF SetInv, HistoryInv, SetDomains
<1>6. JobInv'
  <2> SUFFICES ASSUME NEW p \in Procs, wpc'[p] = "write"
               PROVE  /\ job'[p].name \in Names /\ job'[p].value \in Values
                      /\ job'[p].based \in 1 .. Len(versions')
                      /\ job'[p].based = Len(versions') =>
                            /\ job'[p].content = Rewritten(file', job'[p].name, job'[p].value)
                            /\ Mishaps(file', job'[p].name, job'[p].value) \subseteq mishaps'
    BY DEF JobInv
  <2>1. CASE p = q
    BY <1>2, <1>3, <1>4, <2>1 DEF c
  <2>2. CASE p # q
    <3>1. wpc[p] = "write" /\ job'[p] = job[p]
      BY <1>3, <2>2
    <3>2. /\ job[p].name \in Names /\ job[p].value \in Values
          /\ job[p].based \in 1 .. Len(versions)
          /\ job[p].based = Len(versions) =>
                /\ job[p].content = Rewritten(file, job[p].name, job[p].value)
                /\ Mishaps(file, job[p].name, job[p].value) \subseteq mishaps
      BY <3>1 DEF SetInv, JobInv
    <3> QED  BY <1>2, <1>4, <3>1, <3>2
  <2> QED  BY <2>1, <2>2
<1>7. WholeInv'
  <2> SUFFICES ASSUME "overrun" \notin mishaps'
               PROVE  /\ Whole(file')
                      /\ \A p \in Procs : wpc'[p] = "write" => Whole(job'[p].content)
    BY DEF WholeInv
  <2>1. Whole(file) /\ \A p \in Procs : wpc[p] = "write" => Whole(job[p].content)
    BY <1>4 DEF SetInv, WholeInv
  <2>2. Whole(c)
    BY <1>4, <2>1, NoMishap, RewrittenWhole DEF c
  <2> QED  BY <1>2, <1>3, <2>1, <2>2
<1>8. NamedInv'
  <2> SUFFICES ASSUME mishaps' \cap {"prefix", "overrun"} = {}
               PROVE  /\ Named(file')
                      /\ \A p \in Procs : wpc'[p] = "write" => Named(job'[p].content)
    BY DEF NamedInv
  <2>1. "prefix" \notin mishaps' /\ "overrun" \notin mishaps'
        /\ mishaps \cap {"prefix", "overrun"} = {} /\ "overrun" \notin mishaps
    BY <1>4
  <2>2. Named(file) /\ \A p \in Procs : wpc[p] = "write" => Named(job[p].content)
    BY <2>1 DEF SetInv, NamedInv
  <2>3. Good(file)
    BY <2>1 DEF SetInv, WholeInv, Whole
  <2>4. Named(c)
    BY <1>4, <2>1, <2>2, <2>3, NoMishap, RewrittenNamed DEF c
  <2> QED  BY <1>2, <1>3, <2>2, <2>4
<1>9. HoldsInv'
    BY <1>1, <1>2, <1>4 DEF SetInv, HoldsInv
<1> QED  BY <1>5, <1>6, <1>7, <1>8, <1>9 DEF SetInv

\* The second half, however old the text is that it writes.
LEMMA SetWriteStep ==
    ASSUME SetInv, NEW q \in Procs, SetWrite(q)
    PROVE  SetInv'
<1> DEFINE c == job[q].content
           new == Over(c, file)
<1>1. /\ wpc[q] = "write" /\ wpc' = [wpc EXCEPT ![q] = "idle"]
      /\ versions' = Append(versions, new)
      /\ mishaps' = mishaps \cup {k \in {"overlap"} : job[q].based # Len(versions)}
      /\ expected' = Expecting(job[q].name, job[q].value)
      /\ job' = [job EXCEPT ![q] = NoJob]
    BY DEF SetWrite
<1>2. /\ HistoryInv' /\ Len(versions') = Len(versions) + 1 /\ Len(versions) \in Nat
      /\ file' = new
    BY <1>1, HistoryGrows DEF SetInv
<1> HIDE DEF new
<1>3. /\ mishaps \subseteq mishaps'
      /\ "overlap" \notin mishaps' => job[q].based = Len(versions)
    BY <1>1
<1>4. /\ SetDomains'
      /\ \A p \in Procs : wpc'[p] = "write" => p # q /\ wpc[p] = "write" /\ job'[p] = job[p]
    BY <1>1 DEF SetInv, SetDomains, Expecting
<1>5. JobInv'
  <2> SUFFICES ASSUME NEW p \in Procs, wpc'[p] = "write"
               PROVE  /\ job'[p].name \in Names /\ job'[p].value \in Values
                      /\ job'[p].based \in 1 .. Len(versions')
                      /\ job'[p].based # Len(versions')
    BY DEF JobInv
  <2>1. wpc[p] = "write" /\ job'[p] = job[p]
    BY <1>4
  <2>2. /\ job[p].name \in Names /\ job[p].value \in Values
        /\ job[p].based \in 1 .. Len(versions)
    BY <2>1 DEF SetInv, JobInv
  <2> QED  BY <1>2, <2>1, <2>2
<1>6. ASSUME "overrun" \notin mishaps
      PROVE  Whole(c) /\ Whole(file) /\ Whole(new)
  <2>1. Whole(c) /\ Whole(file)
    BY <1>1, <1>6 DEF SetInv, WholeInv
  <2> QED  BY <2>1, OverWhole DEF new
<1>7. WholeInv'
  <2> SUFFICES ASSUME "overrun" \notin mishaps'
               PROVE  /\ Whole(file')
                      /\ \A p \in Procs : wpc'[p] = "write" => Whole(job'[p].content)
    BY DEF WholeInv
  <2>1. "overrun" \notin mishaps
    BY <1>3
  <2> QED  BY <1>2, <1>4, <1>6, <2>1 DEF SetInv, WholeInv
<1>8. NamedInv'
  <2> SUFFICES ASSUME mishaps' \cap {"prefix", "overrun"} = {}
               PROVE  /\ Named(file')
                      /\ \A p \in Procs : wpc'[p] = "write" => Named(job'[p].content)
    BY DEF NamedInv
  <2>1. mishaps \cap {"prefix", "overrun"} = {} /\ "overrun" \notin mishaps
    BY <1>3
  <2>2. Named(file) /\ \A p \in Procs : wpc[p] = "write" => Named(job[p].content)
    BY <2>1 DEF SetInv, NamedInv
  <2>3. Named(new)
    BY <1>1, <1>6, <2>1, <2>2, OverNamed DEF new, Whole
  <2> QED  BY <1>2, <1>4, <2>2, <2>3
<1>9. HoldsInv'
  <2> SUFFICES ASSUME mishaps' \subseteq {"nofile"}, NEW k \in Delivered
               PROVE  Holds(file', k, expected'[k])
    BY DEF HoldsInv
  <2> DEFINE name == job[q].name
             value == job[q].value
  <2>1. "overrun" \notin mishaps /\ "prefix" \notin mishaps /\ "overlap" \notin mishaps'
        /\ mishaps \subseteq {"nofile"}
    BY <1>3
  <2>2. job[q].based = Len(versions)
    BY <1>3, <2>1
  <2>3. /\ name \in Names /\ value \in Values
        /\ c = Rewritten(file, name, value) /\ Mishaps(file, name, value) \subseteq mishaps
    BY <1>1, <2>2 DEF SetInv, JobInv
  <2>4. Holds(file, k, expected[k])
    BY <2>1 DEF SetInv, HoldsInv
  <2>5. expected'[k] = IF k = name THEN ValueOf(NewLine(name, value)) ELSE expected[k]
    BY <1>1 DEF Expecting
  <2> HIDE DEF name, value, c
  <2>6. ~Overruns(file, name, value) /\ ~IsStrictPrefix(name, k)
    BY <2>1, <2>3, NoMishap
  <2>7. Good(c) /\ Good(file)
    BY <1>6, <2>1 DEF Whole
  <2>8. Holds(c, k, expected'[k])
    BY <2>3, <2>4, <2>5, <2>6, <2>7, RewrittenHolds
  <2>9. Holds(new, k, expected'[k])
    BY <2>7, <2>8, OverHolds DEF new
  <2> QED  BY <1>2, <2>9
<1> QED  BY <1>2, <1>4, <1>5, <1>7, <1>8, <1>9 DEF SetInv

\* Every step of set_value and get_line.
LEMMA SettingsKeepSet ==
    ASSUME SetInv, SettingsNext
    PROVE  SetInv'
<1>1. PICK q \in Procs :
        \/ \E n \in Names, v \in Values : SetRead(q, n, v) \/ SetCrash(q, n, v)
        \/ SetWrite(q) \/ SetAbandoned(q)
        \/ (\E n \in Names : get_line(q, n)) \/ GetLineNoFile(q)
    BY DEF SettingsNext
<1>2. ASSUME NEW n \in Names, NEW v \in Values, SetCrash(q, n, v) PROVE SetInv'
  <2>1. /\ UNCHANGED <<versions, job, expected>> /\ mishaps \subseteq mishaps'
        /\ wpc' = [wpc EXCEPT ![q] = "ended"]
    BY <1>2 DEF SetCrash
  <2> QED  BY <2>1, SetFrame DEF SetInv, SetDomains
<1>3. CASE SetAbandoned(q)
  <2>1. /\ UNCHANGED <<versions, expected, mishaps>>
        /\ wpc' = [wpc EXCEPT ![q] = "idle"] \/ wpc' = [wpc EXCEPT ![q] = "ended"]
        /\ job' = [job EXCEPT ![q] = NoJob]
    BY <1>3 DEF SetAbandoned
  <2>2. /\ DOMAIN wpc' = Procs /\ DOMAIN job' = Procs /\ mishaps \subseteq mishaps'
        /\ \A p \in Procs : wpc'[p] = "write" => wpc[p] = "write" /\ job'[p] = job[p]
    BY <2>1 DEF SetInv, SetDomains
  <2> QED  BY <2>1, <2>2, SetFrame
<1>4. ASSUME NEW n \in Names, get_line(q, n) PROVE SetInv'
  <2>1. UNCHANGED <<versions, wpc, job, expected>> /\ mishaps \subseteq mishaps'
    BY <1>4 DEF get_line, setVars
  <2> QED  BY <2>1, SetFrame DEF SetInv, SetDomains
<1>5. CASE GetLineNoFile(q)
  <2>1. UNCHANGED <<versions, wpc, job, expected>> /\ mishaps \subseteq mishaps'
    BY <1>5 DEF GetLineNoFile, setVars
  <2> QED  BY <2>1, SetFrame DEF SetInv, SetDomains
<1> QED  BY <1>1, <1>2, <1>3, <1>4, <1>5, SetReadStep, SetWriteStep

-----------------------------------------------------------------------------
(* The array file_ex_data and get_line.                                    *)

Cells == Chars \cup {"nul"}
Buffers == Seq(Cells)

\* A text fits in a buffer as it is.
LEMMA TextsInBuffers == Text \subseteq Buffers
<1> SUFFICES ASSUME NEW s \in Text PROVE s \in Buffers
    OBVIOUS
<1>1. s \in [1 .. Len(s) -> Chars] /\ Len(s) \in Nat
    BY DEF Text
<1>2. s \in [1 .. Len(s) -> Cells]
    BY <1>1 DEF Cells
<1> QED  BY <1>1, <1>2 DEF Buffers

\* A part of a buffer.
LEMMA BufferPart ==
    ASSUME NEW b \in Buffers, NEW m \in 1 .. Len(b) + 1, NEW n \in m - 1 .. Len(b)
    PROVE  /\ SubSeq(b, m, n) \in Buffers
           /\ Len(SubSeq(b, m, n)) = n - m + 1
           /\ \A i \in 1 .. n - m + 1 : SubSeq(b, m, n)[i] = b[m + i - 1]
<1>1. Len(b) \in Nat /\ m \in Nat /\ n \in Nat /\ 1 <= m /\ n <= Len(b)
    BY DEF Buffers
<1>2. CASE m <= n
    BY <1>1, <1>2, SubSeqProperties DEF Buffers
<1>3. CASE ~(m <= n)
  <2>1. n - m + 1 = 0 /\ n < m
    BY <1>1, <1>3
  <2>2. SubSeq(b, m, n) = <<>>
    BY <1>1, <2>1 DEF Buffers
  <2> QED  BY <2>1, <2>2 DEF Buffers
<1> QED  BY <1>2, <1>3

\* A text copied into the buffer.
LEMMA BufferOver ==
    ASSUME NEW s \in Buffers, NEW b \in Buffers, Len(s) <= Len(b)
    PROVE  /\ Over(s, b) \in Buffers /\ Len(Over(s, b)) = Len(b)
           /\ \A j \in 1 .. Len(s) : Over(s, b)[j] = s[j]
           /\ \A j \in Len(s) + 1 .. Len(b) : Over(s, b)[j] = b[j]
<1> DEFINE r == SubSeq(b, Len(s) + 1, Len(b))
<1>1. Len(s) \in Nat /\ Len(b) \in Nat
    BY DEF Buffers
<1>2. /\ r \in Buffers /\ Len(r) = Len(b) - Len(s)
      /\ \A i \in 1 .. Len(b) - Len(s) : r[i] = b[Len(s) + i]
  <2>1. /\ Len(s) + 1 \in 1 .. Len(b) + 1 /\ Len(b) \in (Len(s) + 1) - 1 .. Len(b)
        /\ Len(b) - (Len(s) + 1) + 1 = Len(b) - Len(s)
        /\ \A i \in 1 .. Len(b) - Len(s) : (Len(s) + 1) + i - 1 = Len(s) + i
    BY <1>1
  <2> QED  BY <2>1, BufferPart
<1> HIDE DEF r
<1> DEFINE w == s \o r
<1>3. /\ w \in Buffers /\ Len(w) = Len(s) + Len(r)
      /\ \A i \in 1 .. Len(s) : w[i] = s[i]
      /\ \A i \in 1 .. Len(r) : w[Len(s) + i] = r[i]
    BY <1>2 DEF Buffers
<1> HIDE DEF w
<1>4. ASSUME NEW j \in Len(s) + 1 .. Len(b) PROVE w[j] = b[j]
  <2>1. j - Len(s) \in 1 .. Len(r) /\ j - Len(s) \in 1 .. Len(b) - Len(s)
        /\ Len(s) + (j - Len(s)) = j
    BY <1>1, <1>2
  <2> QED  BY <1>2, <1>3, <2>1
<1>5. Len(w) = Len(b)
    BY <1>1, <1>2, <1>3
<1> QED  BY <1>3, <1>4, <1>5 DEF Over, w, r

\* The buffer behind line i, when those in H are copied.
Copying(b, lines, H, g, i) ==
    IF i = 0 THEN b ELSE IF i \in H THEN Over(lines[i], g[i - 1]) ELSE g[i - 1]

\* The recursive function in CopyLines has a value,
LEMMA CopiedExist ==
    ASSUME NEW b, NEW lines, NEW H, NEW n \in Nat
    PROVE  \E g : g = [i \in 0 .. n |-> Copying(b, lines, H, g, i)]
<1> DEFINE Upto(k, g) == /\ g = [i \in 0 .. n |-> g[i]]
                         /\ \A i \in 0 .. n : i <= k => g[i] = Copying(b, lines, H, g, i)
           S == {k \in Nat : \E g : Upto(k, g)}
<1>1. 0 \in S
  <2> DEFINE g == [i \in 0 .. n |-> b]
  <2>1. g = [i \in 0 .. n |-> g[i]] /\ \A i \in 0 .. n : g[i] = b
    OBVIOUS
  <2> HIDE DEF g
  <2>2. \A i \in 0 .. n : i <= 0 => g[i] = Copying(b, lines, H, g, i)
    BY <2>1 DEF Copying
  <2>3. Upto(0, g)
    BY <2>1, <2>2
  <2> QED  BY <2>3
<1>2. ASSUME NEW k \in S PROVE k + 1 \in S
  <2>1. PICK g : Upto(k, g)
    OBVIOUS
  <2> DEFINE h == [i \in 0 .. n |-> IF i = k + 1 THEN Copying(b, lines, H, g, k + 1) ELSE g[i]]
  <2>2. h = [i \in 0 .. n |-> h[i]]
    OBVIOUS
  <2>3. \A i \in 0 .. n : h[i] = IF i = k + 1 THEN Copying(b, lines, H, g, k + 1) ELSE g[i]
    OBVIOUS
  <2> HIDE DEF h
  <2>4. ASSUME NEW i \in 0 .. n, i <= k + 1 PROVE h[i] = Copying(b, lines, H, h, i)
    <3>1. i # 0 => i - 1 \in 0 .. n /\ i - 1 # k + 1
      BY <2>4
    <3>2. i # 0 => h[i - 1] = g[i - 1]
      BY <2>3, <3>1
    <3>3. Copying(b, lines, H, h, i) = Copying(b, lines, H, g, i)
      BY <3>2, Zenon DEF Copying
    <3>4. CASE i = k + 1
      BY <2>3, <3>3, <3>4
    <3>5. CASE i # k + 1
      <4>1. i <= k
        BY <2>4, <3>5
      <4>2. g[i] = Copying(b, lines, H, g, i)
        BY <2>1, <4>1
      <4> QED  BY <2>3, <3>3, <3>5, <4>2
    <3> QED  BY <3>4, <3>5
  <2>5. Upto(k + 1, h)
    BY <2>2, <2>4
  <2> QED  BY <2>5
<1> HIDE DEF Upto
<1>3. S = Nat
    BY <1>1, <1>2, Induction
<1>4. PICK g : Upto(n, g)
    BY <1>3
<1>5. \A i \in 0 .. n : g[i] = Copying(b, lines, H, g, i)
    BY <1>4 DEF Upto
<1>6. g = [i \in 0 .. n |-> Copying(b, lines, H, g, i)]
    BY <1>4, <1>5, Zenon DEF Upto
<1> QED  BY <1>6

Copied(b, lines, H) == CHOOSE g : g = [i \in 0 .. Len(lines) |-> Copying(b, lines, H, g, i)]

\* and can be unfolded.
LEMMA CopiedSteps ==
    ASSUME NEW b, NEW lines, NEW name, Len(lines) \in Nat
    PROVE  LET g == Copied(b, lines, Hits(lines, name)) IN
           /\ CopyLines(b, lines, name) = g[Len(lines)]
           /\ \A i \in 0 .. Len(lines) : g[i] = Copying(b, lines, Hits(lines, name), g, i)
<1> DEFINE H == Hits(lines, name)
           g == Copied(b, lines, H)
           copied[i \in 0 .. Len(lines)] ==
                IF i = 0 THEN b
                ELSE IF i \in Hits(lines, name) THEN Over(lines[i], copied[i - 1])
                ELSE copied[i - 1]
<1>1. copied = g
    BY Zenon DEF copied, Copied, Copying
<1>2. CopyLines(b, lines, name) = copied[Len(lines)]
    BY Zenon DEF CopyLines, copied
<1> HIDE DEF copied
<1>3. g = [i \in 0 .. Len(lines) |-> Copying(b, lines, H, g, i)]
  <2> HIDE DEF H
  <2>1. \E x : x = [i \in 0 .. Len(lines) |-> Copying(b, lines, H, x, i)]
    BY CopiedExist
  <2> QED  BY <2>1, Zenon DEF Copied
<1>4. \A i \in 0 .. Len(lines) : g[i] = Copying(b, lines, H, g, i)
    BY <1>3, Zenon
<1> QED  BY <1>1, <1>2, <1>4

\* The buffer b after the lines up to i, of which those in H were copied, if
\* nothing longer than n had been in it before.
AfterLine(b, lines, H, n, i) ==
    /\ b \in Buffers /\ Len(b) = ExMax
    /\ \A j \in n + 1 .. ExMax : (\A h \in H : h <= i => Len(lines[h]) < j) => b[j] = "nul"
    /\ (\A h \in H : ~(h <= i)) => b[1] = "nul"
    /\ \A h \in H : h <= i /\ (\A o \in H : o <= i => o <= h)
            => \A j \in 1 .. Len(lines[h]) : b[j] = lines[h][j]

\* get_line's loop, line by line.
LEMMA CopyLoop ==
    ASSUME NEW b0 \in Buffers, Len(b0) = ExMax, NEW n \in 0 .. ExMax, b0[1] = "nul",
           \A j \in n + 1 .. ExMax : b0[j] = "nul",
           NEW lines \in Seq(Text), NEW name,
           \A h \in Hits(lines, name) : Len(lines[h]) <= ExMax
    PROVE  AfterLine(CopyLines(b0, lines, name), lines, Hits(lines, name), n, Len(lines))
<1> DEFINE H == Hits(lines, name)
           g == Copied(b0, lines, H)
           S == {i \in Nat : i <= Len(lines) => AfterLine(g[i], lines, H, n, i)}
<1>1. /\ Len(lines) \in Nat /\ H \subseteq 1 .. Len(lines) /\ ExMax \in Nat /\ n \in Nat
      /\ \A h \in H : lines[h] \in Text /\ Len(lines[h]) \in Nat /\ Len(lines[h]) <= ExMax
    BY SettingsAssumption DEF Hits, Text
<1>2. /\ CopyLines(b0, lines, name) = g[Len(lines)]
      /\ \A i \in 0 .. Len(lines) : g[i] = Copying(b0, lines, H, g, i)
    BY <1>1, CopiedSteps
<1> HIDE DEF H, g
<1>3. 0 \in S
  <2>1. g[0] = b0
    BY <1>1, <1>2 DEF Copying
  <2>2. \A h \in H : ~(h <= 0)
    BY <1>1
  <2> QED  BY <1>1, <2>1, <2>2 DEF AfterLine
<1>4. ASSUME NEW k \in S PROVE k + 1 \in S
  <2> SUFFICES ASSUME k + 1 <= Len(lines) PROVE AfterLine(g[k + 1], lines, H, n, k + 1)
    OBVIOUS
  <2> DEFINE i == k + 1
             b == g[k]
             c == g[k + 1]
  <2>1. k \in Nat /\ i \in 1 .. Len(lines) /\ i \in 0 .. Len(lines) /\ i # 0 /\ i - 1 = k
        /\ k <= Len(lines)
    BY <1>1
  <2>2. AfterLine(b, lines, H, n, k)
    BY <2>1
  <2>3. c = IF i \in H THEN Over(lines[i], b) ELSE b
    BY <1>2, <2>1 DEF Copying
  <2>4. \A h \in H : h \in Nat /\ (h <= i <=> h <= k \/ h = i)
    BY <1>1, <2>1
  <2> HIDE DEF b, c
  <2>5. CASE i \notin H
    <3>1. \A h \in H : h <= i <=> h <= k
      BY <2>4, <2>5
    <3>2. c = b
      BY <2>3, <2>5
    <3> HIDE DEF i
    <3>3. AfterLine(c, lines, H, n, i)
      BY <2>2, <3>1, <3>2 DEF AfterLine
    <3> QED  BY <3>3 DEF i, c
  <2>6. CASE i \in H
    <3> DEFINE w == lines[i]
    <3>1. /\ w \in Text /\ Len(w) \in Nat /\ Len(w) <= ExMax /\ b \in Buffers /\ Len(b) = ExMax
          /\ w \in Buffers
      BY <1>1, <2>2, <2>6, TextsInBuffers DEF AfterLine
    <3>2. c = Over(w, b)
      BY <2>3, <2>6
    <3>3. /\ c \in Buffers /\ Len(c) = ExMax
          /\ \A j \in 1 .. Len(w) : c[j] = w[j]
          /\ \A j \in Len(w) + 1 .. ExMax : c[j] = b[j]
      BY <3>1, <3>2, BufferOver
    <3>4. i <= i
      BY <2>1
    <3> HIDE DEF i, w
    <3>5. ASSUME NEW j \in n + 1 .. ExMax, \A h \in H : h <= i => Len(lines[h]) < j
          PROVE  c[j] = "nul"
      <4>1. Len(w) < j /\ \A h \in H : h <= k => Len(lines[h]) < j
        BY <2>4, <2>6, <3>4, <3>5 DEF w
      <4>2. j \in Len(w) + 1 .. ExMax
        BY <1>1, <3>1, <4>1
      <4> QED  BY <2>2, <3>3, <4>1, <4>2 DEF AfterLine
    <3>6. ASSUME NEW h \in H, h <= i, \A o \in H : o <= i => o <= h
          PROVE  \A j \in 1 .. Len(lines[h]) : c[j] = lines[h][j]
      <4>1. i <= h
        BY <2>6, <3>4, <3>6
      <4>2. h = i
        BY <1>1, <2>1, <2>4, <3>6, <4>1
      <4> QED  BY <3>3, <4>2 DEF w
    <3>7. AfterLine(c, lines, H, n, i)
      BY <2>6, <3>3, <3>4, <3>5, <3>6 DEF AfterLine
    <3> QED  BY <3>7 DEF i, c
  <2> QED  BY <2>5, <2>6
<1>5. S = Nat
    BY <1>3, <1>4, Induction
<1>6. AfterLine(g[Len(lines)], lines, H, n, Len(lines))
    BY <1>1, <1>5
<1> QED  BY <1>2, <1>6 DEF H

\* file_ex_data as get_line has left it: it starts with the line wanted, and
\* behind the longest line ever copied there is nothing.
Left(b, w, n) ==
    /\ b \in Buffers /\ Len(b) = ExMax
    /\ n \in 0 .. ExMax
    /\ w \in Text /\ Len(w) <= n
    /\ \A j \in n + 1 .. ExMax : b[j] = "nul"
    /\ \A j \in 1 .. Len(w) : b[j] = w[j]
    /\ w = <<>> => b[1] = "nul"

\* file_ex_data[0] = 0 leaves the rest alone.
LEMMA EmptiedLeft ==
    ASSUME NEW b \in Buffers, Len(b) = ExMax, NEW n \in 0 .. ExMax,
           \A j \in n + 1 .. ExMax : b[j] = "nul"
    PROVE  /\ Emptied(b) \in Buffers /\ Len(Emptied(b)) = ExMax /\ Emptied(b)[1] = "nul"
           /\ \A j \in n + 1 .. ExMax : Emptied(b)[j] = "nul"
<1> DEFINE z == <<"nul">>
           c == Over(z, b)
<1>1. ExMax \in Nat \ {0}
    BY SettingsAssumption
<1>2. z \in Buffers /\ Len(z) = 1 /\ z[1] = "nul"
  <2>1. "nul" \in Cells
    BY DEF Cells
  <2>2. \A x \in Cells : <<x>> \in Seq(Cells)
    OBVIOUS
  <2>3. z \in Buffers
    BY <2>1, <2>2 DEF Buffers
  <2> QED  BY <2>3
<1> HIDE DEF z
<1>3. /\ c \in Buffers /\ Len(c) = Len(b)
      /\ \A j \in 1 .. Len(z) : c[j] = z[j]
      /\ \A j \in Len(z) + 1 .. Len(b) : c[j] = b[j]
  <2>1. Len(z) <= Len(b)
    BY <1>1, <1>2
  <2> QED  BY <1>2, <2>1, BufferOver
<1> HIDE DEF c
<1>4. c[1] = "nul"
    BY <1>2, <1>3
<1>5. \A j \in n + 1 .. ExMax : j = 1 \/ j \in Len(z) + 1 .. Len(b)
    BY <1>1, <1>2
<1> QED  BY <1>3, <1>4, <1>5 DEF Emptied, c, z

\* get_line leaves the array so.
LEMMA GetLineLeft ==
    ASSUME NEW b, NEW w, NEW n, Left(b, w, n), NEW f, Good(f), NEW name,
           \A h \in Hits(Pieces(f), name) : Len(Pieces(f)[h]) <= ExMax
    PROVE  LET lines == Pieces(f)
               hits == Hits(lines, name)
           IN  Left(CopyLines(Emptied(b), lines, name),
                    IF hits = {} THEN <<>> ELSE lines[Max(hits)],
                    Max({n} \cup {Len(lines[i]) : i \in hits}))
<1> DEFINE lines == Pieces(f)
           H == Hits(lines, name)
           lengths == {Len(lines[i]) : i \in H}
           c == CopyLines(Emptied(b), lines, name)
           m == Max({n} \cup lengths)
<1>1. /\ lines \in Seq(Text) /\ Len(lines) \in Nat /\ H \subseteq 1 .. Len(lines)
      /\ \A h \in H : Len(lines[h]) <= ExMax
    BY PiecesDomain DEF Hits
<1>2. /\ ExMax \in Nat \ {0} /\ n \in 0 .. ExMax
      /\ b \in Buffers /\ Len(b) = ExMax /\ \A j \in n + 1 .. ExMax : b[j] = "nul"
    BY SettingsAssumption DEF Left
<1>3. /\ Emptied(b) \in Buffers /\ Len(Emptied(b)) = ExMax /\ Emptied(b)[1] = "nul"
      /\ \A j \in n + 1 .. ExMax : Emptied(b)[j] = "nul"
    BY <1>2, EmptiedLeft
<1>4. AfterLine(c, lines, H, n, Len(lines))
    BY <1>1, <1>2, <1>3, CopyLoop
<1>5. \A h \in H : h <= Len(lines) /\ lines[h] \in Text /\ Len(lines[h]) \in 0 .. ExMax
    BY <1>1, <1>2 DEF Text
<1> HIDE DEF lines, H, c
<1>6. {n} \cup lengths \in SUBSET (0 .. ExMax) /\ {n} \cup lengths # {}
    BY <1>2, <1>5
<1>7. m \in 0 .. ExMax /\ n <= m /\ \A h \in H : Len(lines[h]) <= m
  <2> DEFINE L == {n} \cup lengths
  <2>1. PICK x \in L : \A y \in L : y <= x
    BY <1>2, <1>6, Largest
  <2>2. L \in SUBSET Nat
    BY <1>2, <1>6
  <2>3. n \in L /\ \A h \in H : Len(lines[h]) \in L
    OBVIOUS
  <2>4. x \in 0 .. ExMax
    BY <1>6, <2>1
  <2> HIDE DEF L, lengths
  <2>5. Max(L) = x
    BY <2>1, <2>2, MaxIs
  <2> QED  BY <2>1, <2>3, <2>4, <2>5 DEF L
<1> HIDE DEF m
<1>8. c \in Buffers /\ Len(c) = ExMax
    BY <1>4 DEF AfterLine
<1>9. \A j \in m + 1 .. ExMax : c[j] = "nul"
  <2> SUFFICES ASSUME NEW j \in m + 1 .. ExMax PROVE c[j] = "nul"
    OBVIOUS
  <2>1. j \in n + 1 .. ExMax /\ \A h \in H : Len(lines[h]) < j
    BY <1>2, <1>5, <1>7
  <2> QED  BY <1>4, <2>1 DEF AfterLine
<1>10. CASE H = {}
  <2>1. c[1] = "nul"
    BY <1>4, <1>10 DEF AfterLine
  <2>2. <<>> \in Text /\ Len(<<>>) <= m /\ \A j \in 1 .. Len(<<>>) : c[j] = <<>>[j]
    BY <1>7 DEF Text
  <2>3. Left(c, <<>>, m)
    BY <1>7, <1>8, <1>9, <2>1, <2>2 DEF Left
  <2> QED  BY <1>10, <2>3 DEF c, m, H, lines
<1>11. CASE H # {}
  <2> DEFINE x == Max(H)
  <2>1. x \in H /\ \A o \in H : o <= x
    <3>1. H \in SUBSET (0 .. Len(lines)) /\ H \in SUBSET Nat
      BY <1>1
    <3>2. PICK y \in H : \A o \in H : o <= y
      BY <1>1, <1>11, <3>1, Largest
    <3>3. Max(H) = y
      BY <3>1, <3>2, MaxIs
    <3> QED  BY <3>2, <3>3
  <2> HIDE DEF x
  <2> DEFINE v == lines[x]
  <2>2. v \in Text /\ Len(v) <= m /\ \A j \in 1 .. Len(v) : c[j] = v[j]
    BY <1>4, <1>5, <1>7, <2>1 DEF AfterLine
  <2>3. v # <<>>
    <3>1. x \in DOMAIN Pieces(f)
      BY <2>1 DEF H, Hits, lines
    <3> QED  BY <3>1, PiecesLines DEF lines, IsLine
  <2> HIDE DEF v
  <2>4. Left(c, v, m)
    BY <1>7, <1>8, <1>9, <2>2, <2>3 DEF Left
  <2> QED  BY <1>11, <2>4 DEF c, m, H, lines, v, x
<1> QED  BY <1>10, <1>11

\* The string in the array, if no line has filled it.
LEMMA LeftString ==
    ASSUME NEW b, NEW w, NEW n, Left(b, w, n), n < ExMax
    PROVE  /\ Terminated(b)
           /\ IsPrefix(w, CString(b))
           /\ w = <<>> \/ n = Len(w) => CString(b) = w
<1> DEFINE I == {i \in 1 .. Len(b) : b[i] = "nul"}
           c == CString(b)
           v == Len(w)
<1>1. /\ b \in Buffers /\ w \in Text /\ w \in Buffers /\ Len(b) = ExMax /\ ExMax \in Nat \ {0}
      /\ v \in Nat /\ n \in Nat /\ v <= n /\ n < ExMax
      /\ \A j \in n + 1 .. ExMax : b[j] = "nul"
      /\ \A j \in 1 .. v : b[j] = w[j] /\ w[j] # "nul"
      /\ w = <<>> => b[1] = "nul"
  <2>1. /\ b \in Buffers /\ Len(b) = ExMax /\ n \in 0 .. ExMax /\ w \in Text /\ v <= n
        /\ \A j \in n + 1 .. ExMax : b[j] = "nul"
        /\ \A j \in 1 .. v : b[j] = w[j]
        /\ w = <<>> => b[1] = "nul"
    BY DEF Left
  <2>2. \A j \in 1 .. v : w[j] \in Chars
    BY <2>1 DEF Text
  <2>3. "nul" \notin Chars
    BY DEF Chars
  <2> QED  BY <2>1, <2>2, <2>3, TextsInBuffers, SettingsAssumption DEF Text
<1>2. I # {} /\ Terminated(b)
  <2>1. ExMax \in n + 1 .. ExMax /\ ExMax \in 1 .. Len(b)
    BY <1>1
  <2>2. b[ExMax] = "nul"
    BY <1>1, <2>1
  <2> QED  BY <2>1, <2>2 DEF Terminated, Contains
\* The string has the characters of the buffer, up to its end.
<1>3. \E e \in 1 .. ExMax :
            /\ c \in Buffers /\ Len(c) = e - 1 /\ \A j \in 1 .. e - 1 : c[j] = b[j]
            /\ v < e
            /\ \A j \in 1 .. e - 1 : b[j] # "nul"
  <2> DEFINE e == Min(I)
  <2>1. I \in SUBSET Nat
    OBVIOUS
  <2>2. e \in I /\ \A y \in I : e <= y
    BY <1>2, <2>1, Smallest
  <2>3. c = SubSeq(b, 1, e - 1)
    BY <1>2 DEF CString, SelectInSeq, Before
  <2> HIDE DEF e
  <2>4. e \in 1 .. ExMax /\ b[e] = "nul"
    BY <1>1, <2>2
  <2>5. /\ 1 \in 1 .. Len(b) + 1 /\ e - 1 \in 1 - 1 .. Len(b) /\ e - 1 - 1 + 1 = e - 1
        /\ \A j \in 1 .. e - 1 : 1 + j - 1 = j
    BY <1>1, <2>4
  <2> DEFINE d == SubSeq(b, 1, e - 1)
  <2>6. d \in Buffers /\ Len(d) = e - 1 - 1 + 1 /\ \A j \in 1 .. e - 1 - 1 + 1 : d[j] = b[1 + j - 1]
    BY <1>1, <2>5, BufferPart
  <2> HIDE DEF d, c
  <2>7. c \in Buffers /\ Len(c) = e - 1 /\ \A j \in 1 .. e - 1 : c[j] = b[j]
    BY <2>3, <2>5, <2>6 DEF d
  <2>8. v < e
    <3>1. ~(e \in 1 .. v)
      BY <1>1, <2>4
    <3> QED  BY <1>1, <2>4, <3>1
  <2>9. \A j \in 1 .. e - 1 : j \in 1 .. Len(b) /\ ~(e <= j)
    BY <1>1, <2>4
  <2>10. \A j \in 1 .. e - 1 : b[j] # "nul"
    BY <2>2, <2>9
  <2> QED  BY <2>4, <2>7, <2>8, <2>10
<1> HIDE DEF I, c
<1>4. PICK e \in 1 .. ExMax :
            /\ c \in Buffers /\ Len(c) = e - 1 /\ \A j \in 1 .. e - 1 : c[j] = b[j]
            /\ v < e
            /\ \A j \in 1 .. e - 1 : b[j] # "nul"
    BY <1>3
<1>5. v <= Len(c) /\ \A j \in 1 .. v : c[j] = w[j]
    BY <1>1, <1>4
<1>6. IsPrefix(w, c)
  <2> DEFINE x == SubSeq(w, 1, v)
             y == SubSeq(c, 1, v)
  <2>1. x = w
    BY <1>1 DEF Text
  <2>2. /\ 1 \in 1 .. Len(c) + 1 /\ v \in 1 - 1 .. Len(c) /\ v - 1 + 1 = v
        /\ \A j \in 1 .. v : 1 + j - 1 = j
    BY <1>1, <1>4, <1>5
  <2>3. y \in Buffers /\ Len(y) = v - 1 + 1 /\ \A j \in 1 .. v - 1 + 1 : y[j] = c[1 + j - 1]
    BY <1>4, <2>2, BufferPart
  <2> HIDE DEF x, y
  <2>4. y \in Buffers /\ Len(y) = v /\ \A j \in 1 .. v : y[j] = w[j]
    BY <1>5, <2>2, <2>3
  <2>5. y = w
    BY <1>1, <2>4 DEF Buffers
  <2> QED  BY <1>5, <2>1, <2>5 DEF IsPrefix, x, y
<1>7. ASSUME w = <<>> \/ n = v PROVE c = w
  <2>1. e - 1 = v
    <3>1. CASE w = <<>>
      <4>1. ~(1 \in 1 .. e - 1) /\ v = 0
        BY <1>1, <1>4, <3>1
      <4> QED  BY <1>1, <1>4, <4>1
    <3>2. CASE n = v
      <4>1. v + 1 <= ExMax => b[v + 1] = "nul"
        BY <1>1, <3>2
      <4>2. ~(v + 1 \in 1 .. e - 1)
        BY <1>1, <1>4, <4>1
      <4> QED  BY <1>1, <1>4, <4>2
    <3> QED  BY <1>7, <3>1, <3>2
  <2> QED  BY <1>1, <1>4, <1>5, <2>1 DEF Buffers
<1> QED  BY <1>2, <1>6, <1>7 DEF c

\* The invariant of get_line.
LeftInv ==
    /\ DOMAIN exData = Procs /\ DOMAIN want = Procs /\ DOMAIN longest = Procs
    /\ "overrun" \notin mishaps => \A p \in Procs : Left(exData[p], want[p], longest[p])

\* The invariant holds at first.
LEMMA InitLeft == SettingsInit => LeftInv
<1> SUFFICES ASSUME SettingsInit PROVE LeftInv
    OBVIOUS
<1> DEFINE b == [i \in 1 .. ExMax |-> "nul"]
<1>1. /\ exData = [p \in Procs |-> b] /\ want = [p \in Procs |-> <<>>]
      /\ longest = [p \in Procs |-> 0]
    BY DEF SettingsInit
<1>2. ExMax \in Nat \ {0} /\ "nul" \in Cells
    BY SettingsAssumption DEF Cells
<1>3. b \in [1 .. ExMax -> Cells] /\ \A i \in 1 .. ExMax : b[i] = "nul"
    BY <1>2
<1> HIDE DEF b
<1>4. b \in Buffers /\ Len(b) = ExMax
    BY <1>2, <1>3 DEF Buffers
<1>5. Left(b, <<>>, 0)
  <2>1. <<>> \in Text /\ Len(<<>>) = 0
    BY DEF Text
  <2>2. 0 \in 0 .. ExMax /\ b[1] = "nul" /\ \A j \in 0 + 1 .. ExMax : b[j] = "nul"
    BY <1>2, <1>3
  <2>3. Len(<<>>) <= 0 /\ \A j \in 1 .. Len(<<>>) : b[j] = <<>>[j]
    BY <2>1
  <2> QED  BY <1>4, <2>1, <2>2, <2>3 DEF Left
<1> QED  BY <1>1, <1>5 DEF LeftInv

\* Steps that leave the arrays alone.
LEMMA LeftFrame ==
    ASSUME LeftInv, UNCHANGED <<exData, want, longest>>, mishaps \subseteq mishaps'
    PROVE  LeftInv'
BY DEF LeftInv

\* get_line keeps it.
LEMMA GetLineStep ==
    ASSUME LeftInv, WholeInv, NEW q \in Procs, NEW name, get_line(q, name)
    PROVE  LeftInv'
<1> DEFINE lines == Pieces(file)
           H == Hits(lines, name)
           lengths == {Len(lines[i]) : i \in H}
           b == CopyLines(Emptied(exData[q]), lines, name)
           w == IF H = {} THEN <<>> ELSE lines[Max(H)]
           n == Max({longest[q]} \cup lengths)
<1>1. /\ exData' = [exData EXCEPT ![q] = b]
      /\ want' = [want EXCEPT ![q] = w]
      /\ longest' = [longest EXCEPT ![q] = n]
      /\ mishaps' = mishaps \cup {k \in {"overrun"} : \E x \in lengths : x > ExMax}
    BY DEF get_line
<1>2. ASSUME "overrun" \notin mishaps' PROVE Left(b, w, n)
  <2>1. "overrun" \notin mishaps /\ \A i \in H : ~(Len(lines[i]) > ExMax)
    BY <1>1, <1>2
  <2>2. Good(file) /\ Left(exData[q], want[q], longest[q])
    BY <2>1 DEF LeftInv, WholeInv, Whole
  <2>3. \A i \in H : Len(lines[i]) <= ExMax
    <3>1. \A i \in H : Len(lines[i]) \in Nat
      BY <2>2, PiecesDomain DEF Hits, Text
    <3> QED  BY <2>1, <3>1, SettingsAssumption
  <2> QED  BY <2>2, <2>3, GetLineLeft
<1> HIDE DEF b, w, n, lengths
<1>3. mishaps \subseteq mishaps'
    BY <1>1
<1> QED  BY <1>1, <1>2, <1>3 DEF LeftInv

\* So does every step of set_value and get_line.
LEMMA SettingsKeepLeft ==
    ASSUME LeftInv, SetInv, SettingsNext
    PROVE  LeftInv'
<1>1. PICK q \in Procs :
        \/ \E n \in Names, v \in Values : SetRead(q, n, v) \/ SetCrash(q, n, v)
        \/ SetWrite(q) \/ SetAbandoned(q)
        \/ (\E n \in Names : get_line(q, n)) \/ GetLineNoFile(q)
    BY DEF SettingsNext
<1>2. CASE \E n \in Names : get_line(q, n)
    BY <1>2, GetLineStep DEF SetInv
<1>3. CASE ~\E n \in Names : get_line(q, n)
  <2>1. UNCHANGED <<exData, want, longest>> /\ mishaps \subseteq mishaps'
    BY <1>1, <1>3 DEF SetRead, SetCrash, SetWrite, SetAbandoned, GetLineNoFile, lineVars
  <2> QED  BY <2>1, LeftFrame
<1> QED  BY <1>2, <1>3

-----------------------------------------------------------------------------
(* What the invariants say.                                                *)

\* What get_value finds, and what the file's lines are.
LEMMA SetSafe == SetInv => LastSetWins /\ LinesNeverMerge
<1> SUFFICES ASSUME SetInv PROVE LastSetWins /\ LinesNeverMerge
    OBVIOUS
<1>1. ASSUME "overrun" \notin mishaps
      PROVE  Good(file) /\ Last(file) = "nl" /\ ToSet(Pieces(file)) \subseteq Tails
  <2>1. Whole(file)
    BY <1>1 DEF SetInv, WholeInv
  <2>2. file[Len(file)] = "nl"
    BY <2>1 DEF Whole, Good
  <2> QED  BY <2>1, <2>2, PiecesLines DEF Whole, Last
<1>2. ASSUME mishaps \subseteq {"nofile"}, NEW k \in Delivered
      PROVE  get_value(file, k) = [found |-> TRUE, text |-> expected[k]]
  <2>1. Good(file)
    BY <1>1, <1>2
  <2>2. Holds(file, k, expected[k])
    BY <1>2 DEF SetInv, HoldsInv
  <2> QED  BY <2>1, <2>2, HoldsFound
<1> QED  BY <1>1, <1>2 DEF LastSetWins, LinesNeverMerge

\* What get_line returns.
LEMMA LeftSafe == LeftInv => LineThenLeftovers
BY LeftString DEF LeftInv, LineThenLeftovers

\* No delivered key is missing.
LEMMA NothingMissing ==
    ASSUME SetInv, mishaps \cap {"prefix", "overrun"} = {}, NEW k \in Delivered
    PROVE  get_value(file, k).found
<1>1. Named(file) /\ Good(file)
    BY DEF SetInv, NamedInv, WholeInv, Whole
<1>2. PICK h \in DOMAIN Pieces(file) : HasName(Pieces(file)[h], k)
    BY <1>1 DEF Named
<1>3. Matches(Pieces(file)[h], k)
    BY <1>2, DeliveredKeys, NameFound DEF Matches
<1>4. PICK i \in 1 .. h : FirstAt(file, k, i)
    BY <1>1, <1>3, FirstThere
<1>5. get_value(file, k) = [found |-> TRUE, text |-> ValueOf(Pieces(file)[i])]
    BY <1>1, <1>4, GetValueIs
<1> QED  BY <1>5
=============================================================================
