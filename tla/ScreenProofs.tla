---------------------------- MODULE ScreenProofs ----------------------------
(* Proofs about what the display shows: every frame can be read off the     *)
(* panel and off the matrix, for every score of 32 bits and in every phase. *)
EXTENDS Screen, TLAPS

(***************************************************************************)
(* The figures of a number.                                                *)
(***************************************************************************)

Figure(value, place) == (value \div place) % 10

Power(n) == 10^n

Has(v, n) == (n < 10 => v < Power(n)) /\ (n > 1 => v >= Power(n - 1))

LEMMA Powers ==
  /\ Power(0) = 1 /\ Power(1) = 10 /\ Power(2) = 100 /\ Power(3) = 1000 /\ Power(4) = 10000 /\ Power(5) = 100000
  /\ Power(6) = 1000000 /\ Power(7) = 10000000 /\ Power(8) = 100000000 /\ Power(9) = 1000000000
  BY SMT DEF Power

(* A number has as many figures as it takes.                                *)
LEMMA Lengths ==
  ASSUME NEW v \in Nat
  PROVE  /\ v < 10 => Length(v) = 1
         /\ v >= 10 /\ v < 100 => Length(v) = 2
         /\ v >= 100 /\ v < 1000 => Length(v) = 3
         /\ v >= 1000 /\ v < 10000 => Length(v) = 4
         /\ v >= 10000 /\ v < 100000 => Length(v) = 5
         /\ v >= 100000 /\ v < 1000000 => Length(v) = 6
         /\ Length(v) \in 1..10 /\ (Length(v) < 10 => v < Power(Length(v)))
  <1>1. Length(v) = CHOOSE n \in 1..10 : Has(v, n)
    BY SMT DEF Length, Has, Power
  <1>2. \E n \in 1..10 : Has(v, n)
    BY Powers, SMT DEF Has
  <1>3. Length(v) \in 1..10 /\ Has(v, Length(v))
    BY <1>1, <1>2, Zenon
  <1>4. PICK n \in 1..10 : n = Length(v) /\ Has(v, n)
    BY <1>3
  <1>5. \/ n = 1 \/ n = 2 \/ n = 3 \/ n = 4 \/ n = 5
        \/ n = 6 \/ n = 7 \/ n = 8 \/ n = 9 \/ n = 10
    BY SMT
  <1>6. /\ Has(v, 1) => v < 10
        /\ Has(v, 2) => v >= 10 /\ v < 100
        /\ Has(v, 3) => v >= 100 /\ v < 1000
        /\ Has(v, 4) => v >= 1000 /\ v < 10000
        /\ Has(v, 5) => v >= 10000 /\ v < 100000
        /\ Has(v, 6) => v >= 100000 /\ v < 1000000
        /\ Has(v, 7) \/ Has(v, 8) \/ Has(v, 9) \/ Has(v, 10) => v > 999999
    BY Powers, SMT DEF Has
  <1>7. Length(v) \in 1..10 /\ (Length(v) < 10 => v < Power(Length(v)))
    BY <1>3, SMT DEF Has
  <1> QED BY <1>4, <1>5, <1>6, <1>7, SMT

LEMMA ShortOnes ==
  ASSUME NEW v \in Nat
  PROVE  /\ v < 10 => Length(v) = 1
         /\ v >= 10 /\ v < 1000 => Length(v) \in 2..3
         /\ v >= 1000 /\ v < 10000 => Length(v) = 4
  BY Lengths

(***************************************************************************)
(* What a reader makes of a line, cell after cell.                         *)
(***************************************************************************)

Value(number, cell) ==
  IF \E d \in 0..9 : Numerals[d + 1] = cell
  THEN number * 10 + (CHOOSE d \in 0..9 : Numerals[d + 1] = cell)
  ELSE number

(* A numeral is a figure more, a blank is passed over.                      *)
LEMMA Values ==
  /\ \A number, d : number \in Nat /\ d \in 0..9 => Value(number, Numerals[1 + d]) = number * 10 + d
  /\ \A number : Value(number, Blank) = number
  <1>1. \A d, e \in 0..9 : Numerals[d + 1] = Numerals[e + 1] => d = e
    BY SMT DEF Numerals
  <1>2. \A d \in 0..9 : Numerals[d + 1] # Blank
    <2>1. /\ "0" # Blank /\ "1" # Blank /\ "2" # Blank /\ "3" # Blank /\ "4" # Blank
          /\ "5" # Blank /\ "6" # Blank /\ "7" # Blank /\ "8" # Blank /\ "9" # Blank
      BY Zenon DEF Blank
    <2> QED BY <2>1, SMT DEF Numerals
  <1>3. ASSUME NEW number \in Nat, NEW d \in 0..9
        PROVE  Value(number, Numerals[1 + d]) = number * 10 + d
    <2>1. 1 + d = d + 1
      OBVIOUS
    <2>2. d = CHOOSE e \in 0..9 : Numerals[e + 1] = Numerals[d + 1]
      BY <1>1
    <2> QED BY <2>1, <2>2 DEF Value
  <1> QED BY <1>2, <1>3 DEF Value

(* The recursion of Read from its first cell to its last.                   *)
Reading(g, line, first) ==
  g = [c \in first - 1 .. Columns - 1 |->
        IF c < first THEN 0 ELSE Value(g[c - 1], oled[line * Columns + c])]

LEMMA ReadIsReading ==
  ASSUME NEW line, NEW first, \E g : Reading(g, line, first)
  PROVE  \E g : Reading(g, line, first) /\ Read(line, first) = g[Columns - 1]
  <1> DEFINE value[c \in first - 1 .. Columns - 1] ==
               IF c < first THEN 0
               ELSE LET cell == oled[line * Columns + c]
                    IN IF \E d \in 0..9 : Numerals[d + 1] = cell
                       THEN value[c - 1] * 10 + (CHOOSE d \in 0..9 : Numerals[d + 1] = cell)
                       ELSE value[c - 1]
  <1>1. Read(line, first) = value[Columns - 1]
    BY DEF Read
  <1>2. value = CHOOSE g : Reading(g, line, first)
    BY DEF Reading, Value
  <1>3. Reading(value, line, first)
    <2> HIDE DEF value
    <2> QED BY <1>2
  <1> QED BY <1>1, <1>3

Cell(line, c) == oled[line * Columns + c]

(* Whatever stands in the cells, there is such a function, so Read is one.  *)
LEMMA ReadSteps ==
  ASSUME NEW line, NEW first \in 9..10
  PROVE  \E h : /\ Read(line, first) = h[15] /\ h[first - 1] = 0
                /\ \A c \in first .. 15 : h[c] = Value(h[c - 1], Cell(line, c))
  <1> DEFINE s9 == IF first = 9 THEN Value(0, Cell(line, 9)) ELSE 0
             s10 == Value(s9, Cell(line, 10))
             s11 == Value(s10, Cell(line, 11))
             s12 == Value(s11, Cell(line, 12))
             s13 == Value(s12, Cell(line, 13))
             s14 == Value(s13, Cell(line, 14))
             s15 == Value(s14, Cell(line, 15))
             g == [c \in first - 1 .. 15 |->
                    IF c = 8 THEN 0 ELSE IF c = 9 THEN s9 ELSE IF c = 10 THEN s10
                    ELSE IF c = 11 THEN s11 ELSE IF c = 12 THEN s12 ELSE IF c = 13 THEN s13
                    ELSE IF c = 14 THEN s14 ELSE s15]
  <1>1. Columns = 16
    BY DEF Columns, Width
  <1>2. \A h : Reading(h, line, first) <=>
                 h = [c \in first - 1 .. 15 |->
                       IF c < first THEN 0 ELSE Value(h[c - 1], Cell(line, c))]
    BY <1>1 DEF Reading, Cell
  <1>3. /\ s9 = (IF first = 9 THEN Value(0, Cell(line, 9)) ELSE 0)
        /\ s10 = Value(s9, Cell(line, 10)) /\ s11 = Value(s10, Cell(line, 11))
        /\ s12 = Value(s11, Cell(line, 12)) /\ s13 = Value(s12, Cell(line, 13))
        /\ s14 = Value(s13, Cell(line, 14)) /\ s15 = Value(s14, Cell(line, 15))
    OBVIOUS
  <1>4. Reading(g, line, first)
    <2> HIDE DEF s9, s10, s11, s12, s13, s14, s15
    <2>1. /\ first = 9 => g[8] = 0
          /\ g[9] = s9 /\ g[10] = s10 /\ g[11] = s11 /\ g[12] = s12
          /\ g[13] = s13 /\ g[14] = s14 /\ g[15] = s15
          /\ g = [c \in first - 1 .. 15 |-> g[c]]
      OBVIOUS
    <2> HIDE DEF g
    <2>2. \A c \in first - 1 .. 15 :
            g[c] = IF c < first THEN 0 ELSE Value(g[c - 1], Cell(line, c))
      BY <1>3, <2>1
    <2> QED BY <1>2, <2>1, <2>2
  <1>5. PICK h : Reading(h, line, first) /\ Read(line, first) = h[15]
    BY <1>1, <1>4, ReadIsReading
  <1>6. h[first - 1] = 0 /\ \A c \in first .. 15 : h[c] = Value(h[c - 1], Cell(line, c))
    BY <1>2, <1>5
  <1> QED BY <1>5, <1>6

(***************************************************************************)
(* What a reader makes of a text, place after place.                       *)
(***************************************************************************)

(* What stands in place i of a text: nothing after its end.                 *)
Place(text, i) == IF i \in 1..Len(text) THEN Glyph(text[i]) ELSE Blank

(* Reading the places after i up to j of a text, n becomes m.               *)
Takes(t, i, j, n, m) ==
  \A h : /\ h[i] = n
         /\ \A c \in i + 1 .. j : h[c] = Value(h[c - 1], Place(t, c))
         => h[j] = m

LEMMA OneStep ==
  ASSUME NEW t, NEW n, NEW i \in Nat, NEW j \in Nat, j = i + 1
  PROVE  Takes(t, i, j, n, Value(n, Place(t, j)))
  BY DEF Takes

LEMMA Chain ==
  ASSUME NEW t, NEW i \in Nat, NEW j \in Nat, NEW k \in Nat, i <= j, j <= k, NEW n, NEW m, NEW l,
         Takes(t, i, j, n, m), Takes(t, j, k, m, l)
  PROVE  Takes(t, i, k, n, l)
  <1> SUFFICES ASSUME NEW h, h[i] = n, \A c \in i + 1 .. k : h[c] = Value(h[c - 1], Place(t, c))
               PROVE  h[k] = l
    BY DEF Takes
  <1>1. \A c \in i + 1 .. j : h[c] = Value(h[c - 1], Place(t, c))
    OBVIOUS
  <1>2. h[j] = m
    BY <1>1 DEF Takes
  <1>3. \A c \in j + 1 .. k : h[c] = Value(h[c - 1], Place(t, c))
    OBVIOUS
  <1> QED BY <1>2, <1>3 DEF Takes

(* Nothing is read behind the end of a text.                                *)
LEMMA NoMore ==
  ASSUME NEW t, NEW r \in 6..7, Len(t) \in 0..r, NEW n
  PROVE  Takes(t, Len(t), r, n, n)
  <1> DEFINE d == Len(t)
  <1>1. d \in 0..r /\ Len(t) = d
    OBVIOUS
  <1> HIDE DEF d
  <1> SUFFICES ASSUME NEW h, h[d] = n, \A c \in d + 1 .. r : h[c] = Value(h[c - 1], Place(t, c))
               PROVE  h[r] = n
    BY DEF Takes, d
  <1>2. \A c \in d + 1 .. r : h[c] = h[c - 1]
    <2>1. \A c \in d + 1 .. r : Place(t, c) = Blank
      BY <1>1 DEF Place
    <2> QED BY <1>1, <2>1, Values
  <1>3. /\ d < 7 /\ r = 7 => h[7] = h[6]
        /\ d < 6 => h[6] = h[5]
        /\ d < 5 => h[5] = h[4]
        /\ d < 4 => h[4] = h[3]
        /\ d < 3 => h[3] = h[2]
        /\ d < 2 => h[2] = h[1]
        /\ d < 1 => h[1] = h[0]
    BY <1>1, <1>2
  <1>4. \/ d = 0 \/ d = 1 \/ d = 2 \/ d = 3 \/ d = 4 \/ d = 5 \/ d = 6 \/ d = 7
    BY <1>1
  <1> QED BY <1>1, <1>3, <1>4

(* The places a score has on its line.                                      *)
Room == 7

LEMMA NothingBehind ==
  ASSUME NEW t, Len(t) \in 0..7, NEW n
  PROVE  Takes(t, Len(t), Room, n, n)
  BY NoMore DEF Room

Comma == ","

LEMMA Glyphs == /\ \A d \in 0..9 : Glyph(Numerals[1 + d]) = Numerals[1 + d]
                /\ Glyph(Comma) = Blank
  <1>1. \A cell \in {"0", "1", "2", "3", "4", "5", "6", "7", "8", "9"} :
          cell # "," /\ cell # "-" /\ cell # " "
    BY Zenon
  <1>2. \A d \in 0..9 : Numerals[1 + d] \in {"0", "1", "2", "3", "4", "5", "6", "7", "8", "9"}
    BY SMT DEF Numerals
  <1>3. Glyph(Comma) = Blank
    BY Zenon DEF Glyph, Comma
  <1>4. \A cell : cell # "," /\ cell # "-" /\ cell # " " => Glyph(cell) = cell
    BY Zenon DEF Glyph
  <1> QED BY <1>1, <1>2, <1>3, <1>4, Zenon

Chars == {"0", "1", "2", "3", "4", "5", "6", "7", "8", "9", Comma}

(* The numeral of a place of a number.                                      *)
Num(v, place) == Numerals[1 + Figure(v, place)]

LEMMA Digits ==
  ASSUME NEW v \in Nat, NEW place \in Nat \ {0}
  PROVE  /\ Num(v, place) \in Chars /\ Glyph(Num(v, place)) = Num(v, place)
         /\ \A n \in Nat : Value(n, Num(v, place)) = 10 * n + Figure(v, place)
  <1>1. PICK d \in 0..9 : d = Figure(v, place)
    BY DEF Figure
  <1>2. Numerals[1 + d] \in Chars
    BY SMT DEF Chars, Numerals
  <1>3. Num(v, place) = Numerals[1 + d]
    BY <1>1 DEF Num
  <1>4. Glyph(Numerals[1 + d]) = Numerals[1 + d]
    BY Glyphs
  <1>5. \A n \in Nat : Value(n, Numerals[1 + d]) = n * 10 + d
    BY Values
  <1> QED BY <1>1, <1>2, <1>3, <1>4, <1>5

(* One text after the other: each is read as it is by itself.               *)
Behind(u, s, t) ==
  /\ Len(u) = Len(s) + Len(t)
  /\ \A i \in Nat \ {0} : Place(u, i) = IF i <= Len(s) THEN Place(s, i) ELSE Place(t, i - Len(s))

LEMMA Joined ==
  ASSUME NEW S, NEW s \in Seq(S), NEW t \in Seq(S)
  PROVE  s \o t \in Seq(S) /\ Behind(s \o t, s, t)
  BY DEF Place, Behind

LEMMA InFront ==
  ASSUME NEW u, NEW s, NEW t, Behind(u, s, t), NEW i \in Nat, NEW j \in Nat, Len(s) \in Nat,
         j <= Len(s), NEW n, NEW m, Takes(s, i, j, n, m)
  PROVE  Takes(u, i, j, n, m)
  <1>1. \A c \in i + 1 .. j : Place(u, c) = Place(s, c)
    BY DEF Behind
  <1> QED BY <1>1 DEF Takes

LEMMA Shifted ==
  ASSUME NEW u, NEW s, NEW t, Behind(u, s, t), NEW d \in Nat, Len(s) = d,
         NEW i \in Nat, NEW j \in Nat, i <= j, NEW n, NEW m, Takes(t, i, j, n, m)
  PROVE  Takes(u, d + i, d + j, n, m)
  <1> SUFFICES ASSUME NEW h, h[d + i] = n,
                      \A c \in d + i + 1 .. d + j : h[c] = Value(h[c - 1], Place(u, c))
               PROVE  h[d + j] = m
    BY DEF Takes
  <1>1. \A c \in i + 1 .. j : Place(u, d + c) = Place(t, c)
    BY DEF Behind
  <1> DEFINE g == [c \in i .. j |-> h[d + c]]
  <1>2. g[i] = n /\ g[j] = h[d + j]
    OBVIOUS
  <1>3. ASSUME NEW c \in i + 1 .. j
        PROVE  g[c] = Value(g[c - 1], Place(t, c))
    <2>1. d + c \in d + i + 1 .. d + j /\ (d + c) - 1 = d + (c - 1) /\ c - 1 \in i .. j /\ c \in i .. j
      OBVIOUS
    <2>2. h[d + c] = Value(h[(d + c) - 1], Place(u, d + c))
      BY <2>1
    <2> QED BY <1>1, <2>1, <2>2
  <1> HIDE DEF g
  <1> QED BY <1>2, <1>3 DEF Takes

(***************************************************************************)
(* The numbers the program writes.                                         *)
(***************************************************************************)

(* The figures of a number are numerals, the highest first.                 *)
LEMMA FiguresAre ==
  ASSUME NEW v \in Nat, NEW n \in 1..10
  PROVE  /\ Figures(v, n) \in Seq(Chars) /\ Len(Figures(v, n)) = n
         /\ \A i \in 1..n : Place(Figures(v, n), i) = Num(v, Power(n - i))
  <1>1. \A k \in 0..9 : Power(k) \in Nat \ {0}
    BY Powers, SMT
  <1>2. Figures(v, n) = [i \in 1..n |-> Num(v, Power(n - i))]
    BY Zenon DEF Figures, Num, Figure, Power
  <1>3. \A i \in 1..n : /\ Num(v, Power(n - i)) \in Chars
                        /\ Glyph(Num(v, Power(n - i))) = Num(v, Power(n - i))
    <2>1. \A i \in 1..n : n - i \in 0..9
      OBVIOUS
    <2> QED BY <1>1, <2>1, Digits
  <1> DEFINE f == Figures(v, n)
  <1>4. f = [i \in 1..n |-> f[i]] /\ \A i \in 1..n : f[i] = Num(v, Power(n - i))
    BY <1>2
  <1> HIDE DEF f
  <1>5. f \in Seq(Chars) /\ Len(f) = n
    BY <1>3, <1>4
  <1>6. \A i \in 1..n : Place(f, i) = Num(v, Power(n - i))
    BY <1>3, <1>4, <1>5 DEF Place
  <1> QED BY <1>5, <1>6 DEF f

(* With each figure the number read is the one with a place more.           *)
LEMMA OneMore ==
  ASSUME NEW v \in Nat, NEW k \in 0..5
  PROVE  /\ v \div Power(k + 1) \in Nat
         /\ 10 * (v \div Power(k + 1)) + Figure(v, Power(k)) = v \div Power(k)
  <1>1. CASE k = 0
    BY <1>1, Powers, SMT DEF Figure
  <1>2. CASE k = 1
    BY <1>2, Powers, SMT DEF Figure
  <1>3. CASE k = 2
    BY <1>3, Powers, SMT DEF Figure
  <1>4. CASE k = 3
    BY <1>4, Powers, SMT DEF Figure
  <1>5. CASE k = 4
    BY <1>5, Powers, SMT DEF Figure
  <1>6. CASE k = 5
    BY <1>6, Powers, SMT DEF Figure
  <1> QED BY <1>1, <1>2, <1>3, <1>4, <1>5, <1>6

(* A number of up to six figures is read from its text.                     *)
LEMMA PlainReads ==
  ASSUME NEW v \in Nat, NEW n \in 1..6, n = Length(v)
  PROVE  Plain(v) \in Seq(Chars) /\ Len(Plain(v)) = n /\ Takes(Plain(v), 0, n, 0, v)
  <1> DEFINE t == Plain(v)
  <1>1. t = Figures(v, n)
    BY DEF Plain
  <1> HIDE DEF t
  <1>2. /\ t \in Seq(Chars) /\ Len(t) = n
        /\ \A i \in 1..n : Place(t, i) = Num(v, Power(n - i))
    <2>1. n \in 1..10
      OBVIOUS
    <2> QED BY <1>1, <2>1, FiguresAre
  <1>3. ASSUME NEW i \in 1..n
        PROVE  Takes(t, i - 1, i, v \div Power(n - (i - 1)), v \div Power(n - i))
    <2>1. PICK k \in 0..5 : k = n - i /\ n - (i - 1) = k + 1
      OBVIOUS
    <2>2. Power(k) \in Nat \ {0}
      BY Powers, SMT
    <2>3. Value(v \div Power(k + 1), Num(v, Power(k))) = v \div Power(k)
      BY <2>2, OneMore, Digits
    <2>4. Takes(t, i - 1, i, v \div Power(k + 1), Value(v \div Power(k + 1), Place(t, i)))
      BY OneStep
    <2> QED BY <1>2, <2>1, <2>3, <2>4
  <1>4. v \div Power(n) = 0 /\ v \div Power(0) = v
    <2>1. v < Power(n)
      BY Lengths
    <2> QED BY <2>1, Powers, SMT
  <1> DEFINE upto(i) == i <= n => Takes(t, 0, i, 0, v \div Power(n - i))
  <1>5. upto(1)
    BY <1>3, <1>4
  <1>6. ASSUME NEW i \in 1..5, upto(i)
        PROVE  upto(i + 1)
    <2>1. CASE i + 1 <= n
      <3>1. /\ Takes(t, 0, i, 0, v \div Power(n - i))
            /\ Takes(t, i, i + 1, v \div Power(n - i), v \div Power(n - (i + 1)))
        BY <1>3, <1>6, <2>1
      <3> QED BY <3>1, Chain
    <2> QED BY <2>1
  <1>7. upto(1) /\ upto(2) /\ upto(3) /\ upto(4) /\ upto(5) /\ upto(6)
    <2> HIDE DEF upto
    <2>1. \A i \in 1..5 : upto(i) => upto(i + 1)
      BY <1>6
    <2>2. upto(2)
      BY <1>5, <2>1
    <2>3. upto(3)
      BY <2>2, <2>1
    <2>4. upto(4)
      BY <2>3, <2>1
    <2>5. upto(5)
      BY <2>4, <2>1
    <2>6. upto(6)
      BY <2>5, <2>1
    <2> QED BY <1>5, <2>2, <2>3, <2>4, <2>5, <2>6
  <1>8. upto(n)
    <2> HIDE DEF upto
    <2> QED BY <1>7
  <1> QED BY <1>2, <1>4, <1>8 DEF t

LEMMA CommaText ==
  <<Comma>> \in Seq(Chars) /\ Len(<<Comma>>) = 1 /\ Place(<<Comma>>, 1) = Blank
  <1>1. Comma \in Chars
    BY DEF Chars
  <1>2. <<Comma>> \in Seq(Chars) /\ Len(<<Comma>>) = 1
    BY <1>1
  <1>3. Place(<<Comma>>, 1) = Glyph(Comma)
    BY DEF Place
  <1> QED BY <1>2, <1>3, Glyphs

AsGroup(t, u) ==
  /\ t \in Seq(Chars) /\ Len(t) = 4
  /\ Place(t, 1) = Blank /\ Place(t, 2) = Num(u, 100)
  /\ Place(t, 3) = Num(u, 10) /\ Place(t, 4) = Num(u, 1)

(* A group is a comma, which leaves a blank, and three figures.             *)
LEMMA GroupText ==
  ASSUME NEW v \in Nat
  PROVE  AsGroup(Group(v), v % 1000)
  <1>1. PICK u \in Nat : u = v % 1000
    OBVIOUS
  <1>2. PICK f, comma, g : f = Figures(u, 3) /\ comma = <<Comma>> /\ g = comma \o f
    OBVIOUS
  <1>3. /\ f \in Seq(Chars) /\ Len(f) = 3
        /\ \A i \in 1..3 : Place(f, i) = Num(u, Power(3 - i))
    BY <1>2, FiguresAre
  <1>4. Place(f, 1) = Num(u, 100) /\ Place(f, 2) = Num(u, 10) /\ Place(f, 3) = Num(u, 1)
    BY <1>3, Powers
  <1>5. comma \in Seq(Chars) /\ Len(comma) = 1 /\ Place(comma, 1) = Blank
    BY <1>2, CommaText
  <1>6. comma \in Seq(Chars) /\ f \in Seq(Chars)
    BY <1>3, <1>5
  <1>7. g \in Seq(Chars) /\ Behind(g, comma, f)
    BY <1>2, <1>6, Joined
  <1>8. Len(comma) = 1 /\ Len(f) = 3
    BY <1>3, <1>5
  <1>9. /\ Len(g) = 4 /\ Place(g, 1) = Place(comma, 1) /\ Place(g, 2) = Place(f, 1)
        /\ Place(g, 3) = Place(f, 2) /\ Place(g, 4) = Place(f, 3)
    BY <1>7, <1>8 DEF Behind
  <1>10. Group(v) = g
    BY <1>1, <1>2, Zenon DEF Group, Comma
  <1>11. AsGroup(g, u)
    BY <1>4, <1>5, <1>7, <1>9 DEF AsGroup
  <1> QED BY <1>1, <1>10, <1>11

LEMMA DigitRead ==
  ASSUME NEW v \in Nat, NEW place \in Nat \ {0}, NEW n \in Nat
  PROVE  Value(n, Num(v, place)) = 10 * n + Figure(v, place)
  BY Digits

(* It multiplies what is read before it.                                    *)
Multiplies(t, i, n, u) ==
  /\ Takes(t, i, i + 2, n, 10 * n + (u \div 100))
  /\ Takes(t, i, i + 3, n, 100 * n + (u \div 10))
  /\ Takes(t, i, i + 4, n, 1000 * n + u)

LEMMA GroupReads ==
  ASSUME NEW t, NEW u \in 0..999, AsGroup(t, u), NEW n \in Nat
  PROVE  Multiplies(t, 0, n, u)
  <1>1. PICK a \in Nat, b \in Nat, c \in Nat :
          /\ a = 10 * n + (u \div 100) /\ b = 100 * n + (u \div 10) /\ c = 1000 * n + u
    OBVIOUS
  <1>2. /\ a = 10 * n + Figure(u, 100) /\ b = 10 * a + Figure(u, 10)
        /\ c = 10 * b + Figure(u, 1)
    BY <1>1, SMT DEF Figure
  <1>3. /\ Value(n, Blank) = n /\ Value(n, Num(u, 100)) = a
        /\ Value(a, Num(u, 10)) = b /\ Value(b, Num(u, 1)) = c
    <2>1. Value(n, Num(u, 100)) = 10 * n + Figure(u, 100)
      BY DigitRead
    <2>2. Value(a, Num(u, 10)) = 10 * a + Figure(u, 10)
      BY DigitRead
    <2>3. Value(b, Num(u, 1)) = 10 * b + Figure(u, 1)
      BY DigitRead
    <2>4. Value(n, Blank) = n
      BY Values
    <2> QED BY <1>2, <2>1, <2>2, <2>3, <2>4
  <1>4. Takes(t, 0, 1, n, n) /\ Takes(t, 1, 2, n, a) /\ Takes(t, 2, 3, a, b) /\ Takes(t, 3, 4, b, c)
    <2>1. /\ Takes(t, 0, 1, n, Value(n, Place(t, 1))) /\ Takes(t, 1, 2, n, Value(n, Place(t, 2)))
          /\ Takes(t, 2, 3, a, Value(a, Place(t, 3))) /\ Takes(t, 3, 4, b, Value(b, Place(t, 4)))
      BY OneStep
    <2> QED BY <1>3, <2>1 DEF AsGroup
  <1>5. Takes(t, 0, 2, n, a)
    BY <1>4, Chain
  <1>6. Takes(t, 0, 3, n, b)
    BY <1>4, <1>5, Chain
  <1>7. Takes(t, 0, 4, n, c)
    BY <1>4, <1>6, Chain
  <1> QED BY <1>1, <1>5, <1>6, <1>7 DEF Multiplies

AsPlain(p, q, n) == p \in Seq(Chars) /\ Len(p) = n /\ Takes(p, 0, n, 0, q)

(* A score of one, two or three parts: how much of it there is room for.    *)
LEMMA OnePart ==
  ASSUME NEW q \in Nat, NEW n \in 1..3, NEW t, AsPlain(t, q, n)
  PROVE  Takes(t, 0, Room, 0, q)
  <1>1. Len(t) = n /\ Takes(t, 0, n, 0, q)
    BY DEF AsPlain
  <1>2. Takes(t, n, Room, q, q)
    <2>1. Len(t) \in 0..7
      BY <1>1
    <2>2. Takes(t, Len(t), Room, q, q)
      BY <2>1, NothingBehind
    <2> QED BY <1>1, <2>2
  <1> QED BY <1>1, <1>2, Chain DEF Room

Both(t, n, q, u) ==
  /\ Len(t) = n + 4 /\ Takes(t, 0, n, 0, q)
  /\ Takes(t, 0, n + 3, 0, 100 * q + (u \div 10)) /\ Takes(t, 0, n + 4, 0, 1000 * q + u)

LEMMA TwoParts ==
  ASSUME NEW q \in Nat, NEW n \in 1..6, NEW u \in 0..999,
         NEW p, NEW g, NEW t, AsPlain(p, q, n), AsGroup(g, u), Behind(t, p, g)
  PROVE  Both(t, n, q, u)
  <1>1. Len(p) = n /\ Takes(p, 0, n, 0, q)
    BY DEF AsPlain
  <1>2. Len(g) = 4
    BY DEF AsGroup
  <1>3. Len(t) = n + 4
    BY <1>1, <1>2 DEF Behind
  <1>4. PICK b, c : b = 100 * q + (u \div 10) /\ c = 1000 * q + u
    OBVIOUS
  <1>5. Takes(g, 0, 3, q, b) /\ Takes(g, 0, 4, q, c)
    <2>1. Multiplies(g, 0, q, u)
      BY GroupReads
    <2> QED BY <1>4, <2>1 DEF Multiplies
  <1>6. Takes(t, 0, n, 0, q)
    BY <1>1, InFront
  <1>7. Takes(t, n + 0, n + 3, q, b) /\ Takes(t, n + 0, n + 4, q, c)
    BY <1>1, <1>5, Shifted
  <1>8. Takes(t, n, n + 3, q, b) /\ Takes(t, n, n + 4, q, c)
    BY <1>7
  <1>9. Takes(t, 0, n + 3, 0, b) /\ Takes(t, 0, n + 4, 0, c)
    BY <1>6, <1>8, Chain
  <1> QED BY <1>3, <1>4, <1>6, <1>9 DEF Both

(* The value of a group, the last group of a number, a number with a group. *)
Three == 0..999

LastThree(v) == v % 1000

With(q, u) == 1000 * q + u

LEMMA UpToAMillion ==
  ASSUME NEW q \in Nat, NEW n \in 1..3, NEW u \in Three,
         NEW p, NEW g, NEW t, AsPlain(p, q, n), AsGroup(g, u), Behind(t, p, g)
  PROVE  Takes(t, 0, Room, 0, With(q, u))
  <1>0. PICK c : c = 1000 * q + u /\ c = With(q, u)
    BY DEF With
  <1>1. PICK d \in 0..7 : d = n + 4
    OBVIOUS
  <1>2. Len(t) = d /\ Takes(t, 0, d, 0, c)
    <2>1. n \in 1..6 /\ u \in 0..999
      BY DEF Three
    <2>2. Both(t, n, q, u)
      BY <2>1, TwoParts
    <2> QED BY <1>0, <1>1, <2>2 DEF Both
  <1>3. Takes(t, d, Room, c, c)
    <2>1. Len(t) \in 0..7
      BY <1>2
    <2>2. Takes(t, Len(t), Room, c, c)
      BY <2>1, NothingBehind
    <2> QED BY <1>2, <2>2
  <1>4. Takes(t, 0, Room, 0, c)
    BY <1>2, <1>3, Chain DEF Room
  <1> QED BY <1>0, <1>4

Cut(t, n, q, u, x) ==
  /\ n = 1 => Takes(t, 0, Room, 0, 10 * (1000 * q + u) + (x \div 100))
  /\ n \in 2..3 => Takes(t, 0, Room, 0, 1000 * q + u)
  /\ n = 4 => Takes(t, 0, Room, 0, 100 * q + (u \div 10))

LEMMA ThreeParts ==
  ASSUME NEW q \in Nat, NEW n \in 1..4, NEW u \in Three, NEW x \in Three,
         NEW p, NEW g, NEW h, NEW m, NEW t, AsPlain(p, q, n), AsGroup(g, u), AsGroup(h, x),
         Behind(m, p, g), Behind(t, m, h)
  PROVE  Cut(t, n, q, u, x)
  <1>0. u \in 0..999 /\ x \in 0..999
    BY DEF Three
  <1>1. PICK b \in Nat, c \in Nat, d \in Nat :
          b = 100 * q + (u \div 10) /\ c = 1000 * q + u /\ d = 10 * c + (x \div 100)
    BY <1>0
  <1>2. Len(m) = n + 4 /\ Takes(m, 0, n + 3, 0, b) /\ Takes(m, 0, n + 4, 0, c)
    <2>1. n \in 1..6
      OBVIOUS
    <2>2. Both(m, n, q, u)
      BY <1>0, <2>1, TwoParts
    <2> QED BY <1>1, <2>2 DEF Both
  <1>3. Takes(t, 0, n + 3, 0, b) /\ Takes(t, 0, n + 4, 0, c)
    BY <1>2, InFront
  <1>4. n = 4 => Takes(t, 0, Room, 0, b)
    BY <1>3 DEF Room
  <1>5. n = 3 => Takes(t, 0, Room, 0, c)
    BY <1>3 DEF Room
  <1>6. ASSUME n = 2
        PROVE  Takes(t, 0, Room, 0, c)
    <2>1. Takes(h, 0, 1, c, c)
      <3>1. Value(c, Place(h, 1)) = c
        BY Values DEF AsGroup
      <3>2. Takes(h, 0, 1, c, Value(c, Place(h, 1)))
        BY OneStep
      <3> QED BY <3>1, <3>2
    <2>2. PICK e \in Nat : e = 6 /\ Takes(t, 0, e, 0, c) /\ Len(m) = e
      BY <1>2, <1>3, <1>6
    <2>3. Takes(t, e + 0, e + 1, c, c)
      <3>1. Len(m) = e
        BY <2>2
      <3> QED BY <2>1, <3>1, Shifted
    <2>4. Takes(t, 6, 7, c, c)
      BY <2>2, <2>3
    <2> QED BY <2>2, <2>4, Chain DEF Room
  <1>7. ASSUME n = 1
        PROVE  Takes(t, 0, Room, 0, d)
    <2>1. Takes(h, 0, 2, c, d)
      <3>1. Multiplies(h, 0, c, x)
        BY <1>0, GroupReads
      <3> QED BY <1>1, <3>1 DEF Multiplies
    <2>2. PICK e \in Nat : e = 5 /\ Takes(t, 0, e, 0, c) /\ Len(m) = e
      BY <1>2, <1>3, <1>7
    <2>3. Takes(t, e + 0, e + 2, c, d)
      <3>1. Len(m) = e
        BY <2>2
      <3> QED BY <2>1, <3>1, Shifted
    <2>4. Takes(t, 5, 7, c, d)
      BY <2>2, <2>3
    <2> QED BY <2>2, <2>4, Chain DEF Room
  <1> QED BY <1>1, <1>4, <1>5, <1>6, <1>7 DEF Cut

LEMMA PlainIs ==
  ASSUME NEW q \in Nat, NEW n \in 1..6, n = Length(q)
  PROVE  AsPlain(Plain(q), q, n)
  BY PlainReads DEF AsPlain

(* The texts of the three forms, joined.                                    *)
LEMMA TwoJoined ==
  ASSUME NEW p, NEW q, NEW n, NEW g, NEW u, AsPlain(p, q, n), AsGroup(g, u)
  PROVE  p \o g \in Seq(Chars) /\ Behind(p \o g, p, g)
  BY Joined DEF AsPlain, AsGroup

LEMMA ThreeJoined ==
  ASSUME NEW p, NEW q, NEW n, NEW g, NEW u, NEW h, NEW x, AsPlain(p, q, n), AsGroup(g, u), AsGroup(h, x)
  PROVE  /\ (p \o g) \o h \in Seq(Chars)
         /\ Behind(p \o g, p, g) /\ Behind((p \o g) \o h, p \o g, h)
  <1>1. PICK m : m = p \o g
    OBVIOUS
  <1>2. m \in Seq(Chars) /\ Behind(m, p, g)
    BY <1>1, TwoJoined
  <1>3. h \in Seq(Chars)
    BY DEF AsGroup
  <1>4. m \o h \in Seq(Chars) /\ Behind(m \o h, m, h)
    BY <1>2, <1>3, Joined
  <1> QED BY <1>1, <1>2, <1>4

LEMMA Quotients ==
  /\ \A k \in Nat, r \in 0..99 : (100 * k + r) \div 100 = k
  /\ \A k \in Nat, r \in 0..999 : (1000 * k + r) \div 1000 = k
  /\ \A k \in Nat, r \in Nat : r < 10000 => (10000 * k + r) \div 10000 = k
  BY SMT

FourFigures == 1..9999

Whole(q, u, x) == 1000 * (1000 * q + u) + x

CutOff(q, u, x, n) ==
  /\ q < 10 => n = 10 * (1000 * q + u) + (x \div 100)
  /\ q >= 10 /\ q < 1000 => n = 1000 * q + u
  /\ q >= 1000 => n = 100 * q + (u \div 10)

LEMMA LegibleIs ==
  ASSUME NEW q \in FourFigures, NEW u \in 0..999, NEW x \in 0..999, NEW v \in Nat,
         v = Whole(q, u, x)
  PROVE  CutOff(q, u, x, Legible(v))
  <1>0. q \in 1..9999 /\ v = 1000 * (1000 * q + u) + x
    BY SMT DEF FourFigures, Whole
  <1>1. ASSUME q < 10
        PROVE  Legible(v) = 10 * (1000 * q + u) + (x \div 100)
    <2>1. v >= 1000000 /\ v < 10000000
      BY <1>0, <1>1, SMT
    <2>2. Legible(v) = v \div 100
      BY <2>1, SMT DEF Legible
    <2>3. PICK a \in Nat : a = x \div 100 /\ x - 100 * a \in 0..99
      BY <1>0, SMT
    <2>7. PICK b \in 0..99 : x = 100 * a + b
      BY <2>3, SMT
    <2>4. PICK k \in Nat : k = 10 * (1000 * q + u) + a
      BY <1>0, SMT
    <2>5. v = 100 * k + b
      BY <1>0, <2>4, <2>7, SMT
    <2>6. v \div 100 = k
      BY <2>5, Quotients, SMT
    <2> QED BY <2>2, <2>3, <2>4, <2>6, SMT
  <1>2. ASSUME q >= 10, q < 1000
        PROVE  Legible(v) = 1000 * q + u
    <2>1. v >= 10000000 /\ v < 1000000000
      BY <1>0, <1>2, SMT
    <2>2. Legible(v) = v \div 1000
      BY <2>1, SMT DEF Legible
    <2>3. PICK k \in Nat : k = 1000 * q + u
      BY <1>0, SMT
    <2>4. v = 1000 * k + x
      BY <1>0, <2>3, SMT
    <2>5. v \div 1000 = k
      BY <2>3, <2>4, Quotients, SMT
    <2> QED BY <2>2, <2>3, <2>5, SMT
  <1>3. ASSUME q >= 1000
        PROVE  Legible(v) = 100 * q + (u \div 10)
    <2>1. v >= 1000000000
      BY <1>0, <1>3, SMT
    <2>2. Legible(v) = v \div 10000
      BY <2>1, SMT DEF Legible
    <2>3. PICK a \in Nat : a = u \div 10 /\ u - 10 * a \in 0..9
      BY <1>0, SMT
    <2>4. PICK b \in 0..9 : u = 10 * a + b
      BY <2>3, SMT
    <2>5. PICK k \in Nat : k = 100 * q + a
      BY <1>0, SMT
    <2>6. PICK r \in Nat : r = 1000 * b + x /\ r < 10000
      BY <2>4, SMT
    <2>7. v = 10000 * k + r
      BY <1>0, <2>4, <2>5, <2>6, SMT
    <2>8. v \div 10000 = k
      BY <2>6, <2>7, Quotients, SMT
    <2> QED BY <2>2, <2>3, <2>5, <2>8, SMT
  <1> QED BY <1>1, <1>2, <1>3 DEF CutOff

(* What the places after a label say.                                       *)
Says(t, v) == t \in Seq(Chars) /\ Takes(t, 0, Room, 0, v)

LEMMA OneSays ==
  ASSUME NEW v \in Nat, v < 1000
  PROVE  Says(Plain(v), v)
  <1>1. PICK n \in 1..6 : n = Length(v) /\ n \in 1..3
    BY ShortOnes
  <1>2. AsPlain(Plain(v), v, n)
    BY <1>1, PlainIs
  <1>3. Takes(Plain(v), 0, Room, 0, v)
    BY <1>1, <1>2, OnePart
  <1> QED BY <1>2, <1>3 DEF AsPlain, Says

LEMMA LastGroup == ASSUME NEW v \in Nat PROVE AsGroup(Group(v), LastThree(v)) /\ LastThree(v) \in Three
  BY GroupText DEF LastThree, Three

LEMMA TwoSay ==
  ASSUME NEW q \in Three, NEW v \in Nat
  PROVE  Says(Plain(q) \o Group(v), With(q, LastThree(v)))
  <1> DEFINE u == LastThree(v)
  <1>0. q \in Nat /\ q < 1000
    BY DEF Three
  <1>1. PICK n \in 1..6 : n = Length(q) /\ n \in 1..3
    BY <1>0, ShortOnes
  <1>2. AsPlain(Plain(q), q, n)
    BY <1>0, <1>1, PlainIs
  <1>3. AsGroup(Group(v), u) /\ u \in Three
    BY LastGroup
  <1> HIDE DEF u
  <1>4. PICK p : p = Plain(q)
    OBVIOUS
  <1>5. PICK g : g = Group(v)
    OBVIOUS
  <1>6. AsPlain(p, q, n) /\ AsGroup(g, u)
    BY <1>2, <1>3, <1>4, <1>5
  <1>7. p \o g \in Seq(Chars) /\ Behind(p \o g, p, g)
    BY <1>6, TwoJoined
  <1>8. n \in 1..3
    BY <1>1
  <1>9. Takes(p \o g, 0, Room, 0, With(q, u))
    BY <1>0, <1>3, <1>6, <1>7, <1>8, UpToAMillion, Zenon
  <1> QED BY <1>4, <1>5, <1>7, <1>9 DEF Says, u

SaysCut(t, q, u, x) ==
  /\ q < 10 => Says(t, 10 * (1000 * q + u) + (x \div 100))
  /\ q >= 10 /\ q < 1000 => Says(t, 1000 * q + u)
  /\ q >= 1000 => Says(t, 100 * q + (u \div 10))

LEMMA ThreeSay ==
  ASSUME NEW q \in FourFigures, NEW c \in Nat, NEW v \in Nat
  PROVE  SaysCut((Plain(q) \o Group(c)) \o Group(v), q, LastThree(c), LastThree(v))
  <1> DEFINE u == LastThree(c)
             x == LastThree(v)
  <1>1. q \in Nat
    BY DEF FourFigures
  <1>2. PICK n \in 1..6 : /\ n = Length(q) /\ n \in 1..4
                          /\ q < 10 => n = 1
                          /\ q >= 10 /\ q < 1000 => n \in 2..3
                          /\ q >= 1000 => n = 4
    BY <1>1, ShortOnes DEF FourFigures
  <1>3. AsPlain(Plain(q), q, n)
    BY <1>1, <1>2, PlainIs
  <1>4. AsGroup(Group(c), u) /\ AsGroup(Group(v), x) /\ u \in Three /\ x \in Three
    BY LastGroup
  <1> HIDE DEF u, x
  <1>5. PICK p : p = Plain(q)
    OBVIOUS
  <1>6. PICK g : g = Group(c)
    OBVIOUS
  <1>7. PICK h : h = Group(v)
    OBVIOUS
  <1>8. AsPlain(p, q, n) /\ AsGroup(g, u) /\ AsGroup(h, x)
    BY <1>3, <1>4, <1>5, <1>6, <1>7
  <1>9. PICK t : t = (p \o g) \o h
    BY Zenon
  <1>10. t \in Seq(Chars) /\ Behind(p \o g, p, g) /\ Behind(t, p \o g, h)
    BY <1>8, <1>9, ThreeJoined, Zenon
  <1>11. Cut(t, n, q, u, x)
    <2>1. n \in 1..4
      BY <1>2
    <2> QED BY <1>1, <1>4, <1>8, <1>10, <2>1, ThreeParts, Zenon
  <1>12. SaysCut(t, q, u, x)
    BY <1>2, <1>10, <1>11 DEF Cut, Says, SaysCut
  <1> QED BY <1>5, <1>6, <1>7, <1>9, <1>12 DEF u, x

(* Of every score of 32 bits a reader of the panel finds the legible        *)
(* figures (format_number).                                                 *)
LEMMA ScoreReads ==
  ASSUME NEW v, Uint32(v)
  PROVE  Says(FormatNumber(v), Legible(v))
  <1>1. v \in Nat
    BY DEF Uint32
  <1>2. v < 4294967296
    BY SMT DEF Uint32
  <1>3. CASE v < 1000
    <2>1. Legible(v) = v
      BY <1>1, <1>3, SMT DEF Legible
    <2>2. FormatNumber(v) = Plain(v)
      BY <1>1, <1>3, SMT DEF FormatNumber
    <2> QED BY <1>1, <1>3, <2>1, <2>2, OneSays
  <1>4. CASE v >= 1000 /\ v < 1000000
    <2>1. Legible(v) = v
      BY <1>1, <1>4, SMT DEF Legible
    <2>2. PICK q \in Three : q = v \div 1000
      BY <1>1, <1>4, SMT DEF Three
    <2>3. v = With(q, LastThree(v))
      BY <1>1, <2>2, SMT DEF With, LastThree
    <2>6. Says(Plain(q) \o Group(v), v)
      BY <1>1, <2>3, TwoSay
    <2>7. FormatNumber(v) = Plain(q) \o Group(v)
      <3>1. FormatNumber(v) = Plain(v \div 1000) \o Group(v)
        BY <1>1, <1>4, SMT DEF FormatNumber
      <3> QED BY <2>2, <3>1, Zenon
    <2> QED BY <2>1, <2>6, <2>7, Zenon
  <1>5. CASE v >= 1000000
    <2>1. PICK q \in FourFigures : q = v \div 1000000
      BY <1>1, <1>2, <1>5, SMT DEF FourFigures
    <2>2. PICK c \in Nat : c = v \div 1000
      BY <1>1, SMT
    <2>3. PICK u \in 0..999 : u = LastThree(c)
      BY SMT DEF LastThree
    <2>4. PICK x \in 0..999 : x = LastThree(v)
      BY <1>1, SMT DEF LastThree
    <2>5. v = 1000 * c + x
      BY <1>1, <2>2, <2>4, SMT DEF LastThree
    <2>6. c = 1000 * q + u
      BY <1>1, <2>1, <2>2, <2>3, SMT DEF LastThree
    <2>7. q \in 1..9999
      BY SMT DEF FourFigures
    <2>8. v = Whole(q, u, x)
      BY <2>5, <2>6, <2>7, SMT DEF Whole
    <2>9. CutOff(q, u, x, Legible(v))
      BY <1>1, <2>8, LegibleIs
    <2>10. SaysCut((Plain(q) \o Group(c)) \o Group(v), q, u, x)
      BY <1>1, <2>3, <2>4, ThreeSay
    <2>11. FormatNumber(v) = (Plain(q) \o Group(c)) \o Group(v)
      <3>1. FormatNumber(v) = (Plain(v \div 1000000) \o Group(v \div 1000)) \o Group(v)
        BY <1>1, <1>5, SMT DEF FormatNumber
      <3> QED BY <2>1, <2>2, <3>1, SMT
    <2>12. Says((Plain(q) \o Group(c)) \o Group(v), Legible(v))
      BY <2>7, <2>9, <2>10, SMT DEF SaysCut, CutOff
    <2> QED BY <2>11, <2>12, SMT
  <1> QED BY <1>1, <1>3, <1>4, <1>5, SMT

(* Of a count there is room for six figures.                                *)
LEMMA CountReads ==
  ASSUME NEW v \in Nat, Length(v) \in 1..6
  PROVE  Plain(v) \in Seq(Chars) /\ Takes(Plain(v), 0, 6, 0, v)
  <1>1. PICK n \in 1..6 : n = Length(v)
    OBVIOUS
  <1>2. PICK t : t = Plain(v)
    OBVIOUS
  <1>3. t \in Seq(Chars) /\ Len(t) = n /\ Takes(t, 0, n, 0, v)
    BY <1>1, <1>2, PlainReads
  <1>4. PICK r \in 6..7 : r = 6
    OBVIOUS
  <1>5. Takes(t, n, r, v, v)
    <2>1. Len(t) \in 0..r
      BY <1>3, <1>4
    <2>2. Takes(t, Len(t), r, v, v)
      BY <2>1, NoMore
    <2> QED BY <1>3, <2>2
  <1>6. Takes(t, 0, r, 0, v)
    BY <1>3, <1>4, <1>5, Chain
  <1> QED BY <1>2, <1>3, <1>4, <1>6

(***************************************************************************)
(* The frame buffer.                                                       *)
(***************************************************************************)

(* A line with its label and the number behind it.                          *)
LEMMA Labelled ==
  ASSUME NEW w, NEW n \in Nat, NEW t \in Seq(Chars)
  PROVE  Len(Label(w, n)) = n /\ Behind(Label(w, n) \o t, Label(w, n), t)
  <1>1. Label(w, n) \in Seq(Chars \cup {w}) /\ Len(Label(w, n)) = n
    BY DEF Label
  <1>2. t \in Seq(Chars \cup {w})
    OBVIOUS
  <1> QED BY <1>1, <1>2, Joined

(* What Read finds on a line that shows a text.                             *)
LEMMA LineReads ==
  ASSUME NEW line, NEW first \in 9..10, NEW r \in 6..7, first + r = 16,
         NEW u, NEW label, NEW t, Behind(u, label, t), Len(label) = first,
         \A c \in 0..15 : Cell(line, c) = Place(u, c + 1), NEW v, Takes(t, 0, r, 0, v)
  PROVE  Read(line, first) = v
  <1>1. Takes(u, first + 0, first + r, 0, v)
    BY Shifted
  <1>2. PICK h : /\ Read(line, first) = h[15] /\ h[first - 1] = 0
                 /\ \A c \in first .. 15 : h[c] = Value(h[c - 1], Cell(line, c))
    BY ReadSteps
  <1> DEFINE g == [c \in first .. 16 |-> h[c - 1]]
  <1>3. g[first] = 0 /\ g[16] = h[15]
    BY <1>2
  <1>4. ASSUME NEW c \in first + 1 .. 16
        PROVE  g[c] = Value(g[c - 1], Place(u, c))
    <2>1. c - 1 \in first .. 15 /\ c - 1 \in 0..15 /\ (c - 1) + 1 = c
      OBVIOUS
    <2>2. h[c - 1] = Value(h[(c - 1) - 1], Cell(line, c - 1))
      BY <1>2, <2>1
    <2>3. Cell(line, c - 1) = Place(u, c)
      BY <2>1
    <2>4. g[c] = h[c - 1] /\ g[c - 1] = h[(c - 1) - 1]
      BY <2>1
    <2> QED BY <2>2, <2>3, <2>4
  <1> HIDE DEF g
  <1>5. Takes(u, first, 16, 0, v)
    BY <1>1
  <1>6. g[16] = v
    BY <1>3, <1>4, <1>5 DEF Takes
  <1> QED BY <1>2, <1>3, <1>6

(* A text changes its own line only, as far as it goes.                     *)
At(line, c) == line * Columns + c

LEMMA TextAt ==
  ASSUME NEW b, NEW line \in 0..7, NEW t, Len(t) \in Nat, NEW m \in 0..7, NEW c \in 0..15
  PROVE  Text(b, line, t)[At(m, c)] =
           IF m = line /\ c + 1 <= Len(t) THEN Glyph(t[c + 1]) ELSE b[At(m, c)]
  <1>1. Columns = 16 /\ Cells = 0..127
    BY SMT DEF Columns, Width, Height, Cells
  <1>2. At(m, c) = m * 16 + c /\ At(m, c) \in Cells
    BY <1>1, SMT DEF At
  <1> DEFINE i == At(m, c) - line * Columns + 1
  <1>3. Text(b, line, t)[At(m, c)] =
          IF i \in 1..Len(t) /\ Fits(8 * (i - 1), 8 * line) THEN Glyph(t[i]) ELSE b[At(m, c)]
    BY <1>2 DEF Text
  <1>4. i \in 1..Len(t) /\ Fits(8 * (i - 1), 8 * line) <=> m = line /\ c + 1 <= Len(t)
    BY <1>1, <1>2, SMT DEF Fits, Width, Height
  <1>5. m = line => i = c + 1
    BY <1>1, <1>2, SMT
  <1> QED BY <1>3, <1>4, <1>5

(* The picture of a frame: each line its text, from the first column.       *)
Texts(s, n) == Lines(s)[n]

LEMMA PictureSteps ==
  ASSUME NEW s
  PROVE  \E d : /\ Picture(s) = d[8] /\ d[0] = Cleared
                /\ \A n \in 1..8 : d[n] = Text(d[n - 1], n - 1, Texts(s, n))
  <1> DEFINE Drawing(d) ==
               d = [n \in 0..8 |-> IF n = 0 THEN Cleared ELSE Text(d[n - 1], n - 1, Lines(s)[n])]
             drawn[n \in 0..8] ==
               IF n = 0 THEN Cleared ELSE Text(drawn[n - 1], n - 1, Lines(s)[n])
             d1 == Text(Cleared, 0, Texts(s, 1))
             d2 == Text(d1, 1, Texts(s, 2))
             d3 == Text(d2, 2, Texts(s, 3))
             d4 == Text(d3, 3, Texts(s, 4))
             d5 == Text(d4, 4, Texts(s, 5))
             d6 == Text(d5, 5, Texts(s, 6))
             d7 == Text(d6, 6, Texts(s, 7))
             d8 == Text(d7, 7, Texts(s, 8))
             g == [n \in 0..8 |->
                    IF n = 0 THEN Cleared ELSE IF n = 1 THEN d1 ELSE IF n = 2 THEN d2
                    ELSE IF n = 3 THEN d3 ELSE IF n = 4 THEN d4 ELSE IF n = 5 THEN d5
                    ELSE IF n = 6 THEN d6 ELSE IF n = 7 THEN d7 ELSE d8]
  <1>1. Picture(s) = drawn[8]
    BY DEF Picture
  <1>2. drawn = CHOOSE d : Drawing(d)
    OBVIOUS
  <1>3. /\ d1 = Text(Cleared, 0, Texts(s, 1)) /\ d2 = Text(d1, 1, Texts(s, 2))
        /\ d3 = Text(d2, 2, Texts(s, 3)) /\ d4 = Text(d3, 3, Texts(s, 4))
        /\ d5 = Text(d4, 4, Texts(s, 5)) /\ d6 = Text(d5, 5, Texts(s, 6))
        /\ d7 = Text(d6, 6, Texts(s, 7)) /\ d8 = Text(d7, 7, Texts(s, 8))
    OBVIOUS
  <1> HIDE DEF drawn, d1, d2, d3, d4, d5, d6, d7, d8
  <1>4. Drawing(g)
    <2>1. /\ g[0] = Cleared /\ g[1] = d1 /\ g[2] = d2 /\ g[3] = d3 /\ g[4] = d4
          /\ g[5] = d5 /\ g[6] = d6 /\ g[7] = d7 /\ g[8] = d8
          /\ g = [n \in 0..8 |-> g[n]]
      OBVIOUS
    <2> HIDE DEF g
    <2>2. \A n \in 0..8 : g[n] = IF n = 0 THEN Cleared ELSE Text(g[n - 1], n - 1, Texts(s, n))
      BY <1>3, <2>1
    <2> QED BY <2>1, <2>2 DEF Texts
  <1> HIDE DEF g
  <1>5. Drawing(drawn)
    <2> HIDE DEF Drawing
    <2> QED BY <1>2, <1>4
  <1>6. /\ drawn[0] = Cleared
        /\ \A n \in 1..8 : drawn[n] = Text(drawn[n - 1], n - 1, Texts(s, n))
    BY <1>5 DEF Texts
  <1> QED BY <1>1, <1>6

LEMMA PictureAt ==
  ASSUME NEW s, \A n \in 1..8 : Len(Texts(s, n)) \in Nat
  PROVE  \A m \in 0..7, c \in 0..15 : Picture(s)[At(m, c)] = Place(Texts(s, m + 1), c + 1)
  <1>1. PICK d : /\ Picture(s) = d[8] /\ d[0] = Cleared
                 /\ \A n \in 1..8 : d[n] = Text(d[n - 1], n - 1, Texts(s, n))
    BY PictureSteps
  <1> DEFINE Done(n) == \A m \in 0..7, c \in 0..15 :
                          d[n][At(m, c)] = IF m < n THEN Place(Texts(s, m + 1), c + 1) ELSE Blank
  <1>2. Done(0)
    <2>1. \A m \in 0..7, c \in 0..15 : At(m, c) \in Cells
      BY SMT DEF At, Columns, Width, Height, Cells
    <2>2. \A k \in Cells : d[0][k] = Blank
      BY <1>1 DEF Cleared
    <2>3. \A m \in 0..7 : ~(m < 0)
      BY SMT
    <2> QED BY <2>1, <2>2, <2>3
  <1>3. ASSUME NEW n \in 0..7, Done(n)
        PROVE  Done(n + 1)
    <2> SUFFICES ASSUME NEW m \in 0..7, NEW c \in 0..15
                 PROVE  d[n + 1][At(m, c)] =
                          IF m < n + 1 THEN Place(Texts(s, m + 1), c + 1) ELSE Blank
      OBVIOUS
    <2>1. d[n][At(m, c)] = IF m < n THEN Place(Texts(s, m + 1), c + 1) ELSE Blank
      BY <1>3
    <2>2. PICK t : t = Texts(s, n + 1) /\ Len(t) \in Nat
      OBVIOUS
    <2>3. d[n + 1] = Text(d[n], n, t)
      BY <1>1, <2>2
    <2>4. d[n + 1][At(m, c)] =
            IF m = n /\ c + 1 <= Len(t) THEN Glyph(t[c + 1]) ELSE d[n][At(m, c)]
      <3>1. PICK b : b = d[n]
        OBVIOUS
      <3>2. Len(t) \in Nat
        BY <2>2
      <3>3. Text(b, n, t)[At(m, c)] =
              IF m = n /\ c + 1 <= Len(t) THEN Glyph(t[c + 1]) ELSE b[At(m, c)]
        BY <3>2, TextAt
      <3> QED BY <2>3, <3>1, <3>3
    <2>5. Place(t, c + 1) = IF c + 1 <= Len(t) THEN Glyph(t[c + 1]) ELSE Blank
      BY <2>2 DEF Place
    <2> QED BY <2>1, <2>2, <2>4, <2>5
  <1>4. Done(8)
    <2> HIDE DEF Done
    <2>1. Done(1)
      BY <1>2, <1>3
    <2>2. Done(2)
      BY <2>1, <1>3
    <2>3. Done(3)
      BY <2>2, <1>3
    <2>4. Done(4)
      BY <2>3, <1>3
    <2>5. Done(5)
      BY <2>4, <1>3
    <2>6. Done(6)
      BY <2>5, <1>3
    <2>7. Done(7)
      BY <2>6, <1>3
    <2> QED BY <2>7, <1>3
  <1>5. ASSUME NEW m \in 0..7, NEW c \in 0..15
        PROVE  d[8][At(m, c)] = Place(Texts(s, m + 1), c + 1)
    <2>1. d[8][At(m, c)] = IF m < 8 THEN Place(Texts(s, m + 1), c + 1) ELSE Blank
      BY <1>4, Zenon
    <2>2. m < 8
      OBVIOUS
    <2> QED BY <2>1, <2>2, Zenon
  <1>6. Picture(s) = d[8]
    BY <1>1
  <1> HIDE DEF Done
  <1> QED BY <1>5, <1>6

Dash == "-"

(* The eight lines one by one.                                              *)
Count(s) == IF s.status = "SYNCING" THEN s.syncing ELSE s.pending

Task(s) == IF s.status = "SYNCING" THEN "sending" ELSE "pending"

LEMMA LinesAre ==
  ASSUME NEW s
  PROVE  /\ Texts(s, 1) = Label("title", 20)
         /\ Texts(s, 2) = Label(Dash, 20)
         /\ Texts(s, 3) = Label("node", 9) \o FormatNumber(Shown(s, s.local))
         /\ Texts(s, 4) = Label("global", 9) \o FormatNumber(Shown(s, s.global))
         /\ Texts(s, 5) = << >>
         /\ Texts(s, 6) = Label(Dash, 20)
         /\ Texts(s, 7) = Label(Task(s), 10) \o Plain(Count(s))
         /\ Texts(s, 8) = CASE s.turbo -> Label("turbo", 20)
                            [] ~s.turbo /\ s.status = "OFFLINE" -> Label("offline", 10)
                            [] ~s.turbo /\ s.status = "CONNECTING" -> Label("connecting", 16)
                            [] OTHER -> << >>
  <1> DEFINE count == IF s.status = "SYNCING" THEN Label("sending", 10) \o Plain(s.syncing)
                      ELSE Label("pending", 10) \o Plain(s.pending)
             status == CASE s.turbo -> Label("turbo", 20)
                         [] ~s.turbo /\ s.status = "OFFLINE" -> Label("offline", 10)
                         [] ~s.turbo /\ s.status = "CONNECTING" -> Label("connecting", 16)
                         [] OTHER -> << >>
  <1>1. Lines(s) = << Label("title", 20), Label(Dash, 20),
                      Label("node", 9) \o FormatNumber(Shown(s, s.local)),
                      Label("global", 9) \o FormatNumber(Shown(s, s.global)),
                      << >>, Label(Dash, 20), count, status >>
    BY Zenon DEF Lines, Dash
  <1>2. count = Label(Task(s), 10) \o Plain(Count(s))
    BY DEF Task, Count
  <1> HIDE DEF count, status
  <1>3. /\ Texts(s, 1) = Label("title", 20)
        /\ Texts(s, 2) = Label(Dash, 20)
        /\ Texts(s, 3) = Label("node", 9) \o FormatNumber(Shown(s, s.local))
        /\ Texts(s, 4) = Label("global", 9) \o FormatNumber(Shown(s, s.global))
        /\ Texts(s, 5) = << >>
        /\ Texts(s, 6) = Label(Dash, 20)
        /\ Texts(s, 7) = count
        /\ Texts(s, 8) = status
    BY <1>1 DEF Texts
  <1> QED BY <1>2, <1>3, Zenon DEF status

LEMMA Words ==
  /\ Glyph("turbo") = "turbo" /\ Glyph("offline") = "offline" /\ Glyph("connecting") = "connecting"
  /\ "offline" # "turbo" /\ "connecting" # "turbo" /\ Blank # "turbo" /\ Glyph(Dash) = Blank
  BY Zenon DEF Glyph, Blank, Dash

LEMMA LabelPlaces ==
  ASSUME NEW w, NEW n \in Nat
  PROVE  /\ Len(Label(w, n)) = n
         /\ \A i \in Nat \ {0} : Place(Label(w, n), i) = IF i <= n THEN Glyph(w) ELSE Blank
  <1>1. Len(Label(w, n)) = n /\ \A i \in 1..n : Label(w, n)[i] = w
    BY DEF Label
  <1> QED BY <1>1 DEF Place

LEMMA LabelledLength ==
  ASSUME NEW w, NEW n \in Nat, NEW t \in Seq(Chars)
  PROVE  Len(Label(w, n) \o t) \in Nat
  <1>1. Len(Label(w, n) \o t) = n + Len(t)
    BY Labelled DEF Behind
  <1>2. Len(t) \in Nat
    OBVIOUS
  <1> QED BY <1>1, <1>2

LEMMA PlainText ==
  ASSUME NEW v \in Nat
  PROVE  Plain(v) \in Seq(Chars)
  <1>1. PICK n \in 1..10 : n = Length(v)
    BY Lengths
  <1> QED BY <1>1, FiguresAre DEF Plain

(* What the snapshots hold.                                                 *)
LEMMA SnapshotTypes ==
  ASSUME NEW s \in Snapshots
  PROVE  /\ Uint32(Shown(s, s.local)) /\ Uint32(Shown(s, s.global))
         /\ Count(s) \in Nat /\ s.turbo \in BOOLEAN /\ s.flash \in BOOLEAN
         /\ Shown(s, s.local) \in Nat
  <1>1. /\ s.local \in Nat /\ s.global \in Nat /\ s.pending \in Nat /\ Uint32(s.syncing)
        /\ Uint32(s.local + s.pending) /\ Uint32(s.global + s.pending)
        /\ s.turbo \in BOOLEAN /\ s.flash \in BOOLEAN
    BY ScreenAssumption
  <1>2. Uint32(Shown(s, s.local)) /\ Uint32(Shown(s, s.global))
    BY <1>1, SMT DEF Shown, Uint32
  <1> QED BY <1>1, <1>2, SMT DEF Count, Uint32

(* Every frame can be read off its picture.                                 *)
LEMMA PictureReadable ==
  ASSUME NEW s \in Snapshots, oled = Picture(s)
  PROVE  /\ Read(2, 9) = Legible(Shown(s, s.local))
         /\ Read(3, 9) = Legible(Shown(s, s.global))
         /\ Count(s) < 1000000 => Read(6, 10) = Count(s)
         /\ \A line \in {1, 4, 5}, c \in 0..15 : Cell(line, c) = Blank
         /\ \A c \in 0..15 :
              /\ (Cell(7, c) = "turbo") = s.turbo
              /\ s.status \in {"ONLINE", "SYNCING"} /\ ~s.turbo => Cell(7, c) = Blank
  <1> DEFINE local == FormatNumber(Shown(s, s.local))
             global == FormatNumber(Shown(s, s.global))
             count == Plain(Count(s))
  <1>1. Says(local, Legible(Shown(s, s.local))) /\ Says(global, Legible(Shown(s, s.global)))
    BY SnapshotTypes, ScoreReads
  <1>2. local \in Seq(Chars) /\ global \in Seq(Chars)
    BY <1>1 DEF Says
  <1>3. count \in Seq(Chars)
    BY SnapshotTypes, PlainText
  <1> HIDE DEF local, global, count
  <1>4. /\ Texts(s, 1) = Label("title", 20)
        /\ Texts(s, 2) = Label(Dash, 20)
        /\ Texts(s, 3) = Label("node", 9) \o local
        /\ Texts(s, 4) = Label("global", 9) \o global
        /\ Texts(s, 5) = << >>
        /\ Texts(s, 6) = Label(Dash, 20)
        /\ Texts(s, 7) = Label(Task(s), 10) \o count
    BY LinesAre DEF local, global, count
  <1>5. /\ s.turbo => Texts(s, 8) = Label("turbo", 20)
        /\ ~s.turbo /\ s.status = "OFFLINE" => Texts(s, 8) = Label("offline", 10)
        /\ ~s.turbo /\ s.status = "CONNECTING" => Texts(s, 8) = Label("connecting", 16)
        /\ ~s.turbo /\ s.status \notin {"OFFLINE", "CONNECTING"} => Texts(s, 8) = << >>
    BY LinesAre, SnapshotTypes
  <1>6. \A m \in 0..7, c \in 0..15 : Cell(m, c) = Place(Texts(s, m + 1), c + 1)
    <2>1. \A n \in 1..8 : Len(Texts(s, n)) \in Nat
      <3>1. Len(Texts(s, 3)) \in Nat /\ Len(Texts(s, 4)) \in Nat /\ Len(Texts(s, 7)) \in Nat
        BY <1>2, <1>3, <1>4, LabelledLength
      <3>2. Len(Texts(s, 1)) \in Nat /\ Len(Texts(s, 2)) \in Nat /\ Len(Texts(s, 6)) \in Nat
        BY <1>4, LabelPlaces
      <3>3. Len(Texts(s, 5)) \in Nat
        BY <1>4
      <3>4. Len(Texts(s, 8)) \in Nat
        BY <1>5, LabelPlaces, SnapshotTypes
      <3> QED BY <3>1, <3>2, <3>3, <3>4
    <2>2. \A m \in 0..7, c \in 0..15 : Picture(s)[At(m, c)] = Place(Texts(s, m + 1), c + 1)
      BY <2>1, PictureAt
    <2> QED BY <2>2 DEF Cell, At
  <1>7. ASSUME NEW m \in 0..7, NEW n \in 1..8, n = m + 1, NEW c \in 0..15
        PROVE  Cell(m, c) = Place(Texts(s, n), c + 1)
    BY <1>6, <1>7
  <1>8. Read(2, 9) = Legible(Shown(s, s.local))
    <2>1. Behind(Texts(s, 3), Label("node", 9), local) /\ Len(Label("node", 9)) = 9
      BY <1>2, <1>4, Labelled
    <2>2. \A c \in 0..15 : Cell(2, c) = Place(Texts(s, 3), c + 1)
      BY <1>7
    <2>3. Takes(local, 0, 7, 0, Legible(Shown(s, s.local)))
      BY <1>1 DEF Says, Room
    <2> QED BY <2>1, <2>2, <2>3, LineReads
  <1>9. Read(3, 9) = Legible(Shown(s, s.global))
    <2>1. Behind(Texts(s, 4), Label("global", 9), global) /\ Len(Label("global", 9)) = 9
      BY <1>2, <1>4, Labelled
    <2>2. \A c \in 0..15 : Cell(3, c) = Place(Texts(s, 4), c + 1)
      BY <1>7
    <2>3. Takes(global, 0, 7, 0, Legible(Shown(s, s.global)))
      BY <1>1 DEF Says, Room
    <2> QED BY <2>1, <2>2, <2>3, LineReads
  <1>10. ASSUME Length(Count(s)) \in 1..6
         PROVE  Read(6, 10) = Count(s)
    <2>1. Behind(Texts(s, 7), Label(Task(s), 10), count) /\ Len(Label(Task(s), 10)) = 10
      BY <1>3, <1>4, Labelled
    <2>2. \A c \in 0..15 : Cell(6, c) = Place(Texts(s, 7), c + 1)
      BY <1>7
    <2>3. Takes(count, 0, 6, 0, Count(s))
      BY <1>10, SnapshotTypes, CountReads DEF count
    <2> QED BY <2>1, <2>2, <2>3, LineReads
  <1>11. Count(s) < 1000000 => Length(Count(s)) \in 1..6
    BY SnapshotTypes, Lengths, SMT
  <1>12. \A line \in {1, 4, 5}, c \in 0..15 : Cell(line, c) = Blank
    <2>1. ASSUME NEW c \in 0..15
          PROVE  Cell(1, c) = Blank /\ Cell(4, c) = Blank /\ Cell(5, c) = Blank
      <3>1. /\ Cell(1, c) = Place(Label(Dash, 20), c + 1) /\ Cell(5, c) = Place(Label(Dash, 20), c + 1)
            /\ Cell(4, c) = Place(<< >>, c + 1)
        BY <1>4, <1>7
      <3>2. Place(Label(Dash, 20), c + 1) = Blank
        BY LabelPlaces, Words
      <3>3. Place(<< >>, c + 1) = Blank
        BY DEF Place
      <3> QED BY <3>1, <3>2, <3>3
    <2> QED BY <2>1
  <1>13. ASSUME NEW c \in 0..15
         PROVE  /\ (Cell(7, c) = "turbo") = s.turbo
                /\ s.status \in {"ONLINE", "SYNCING"} /\ ~s.turbo => Cell(7, c) = Blank
    <2>1. Cell(7, c) = Place(Texts(s, 8), c + 1)
      BY <1>7
    <2>2. CASE s.turbo
      <3>1. Cell(7, c) = Place(Label("turbo", 20), c + 1)
        BY <1>5, <2>1, <2>2
      <3>2. Place(Label("turbo", 20), c + 1) = "turbo"
        BY LabelPlaces, Words
      <3> QED BY <2>2, <3>1, <3>2, Zenon
    <2>3. CASE ~s.turbo /\ s.status = "OFFLINE"
      <3>1. Cell(7, c) = Place(Label("offline", 10), c + 1)
        BY <1>5, <2>1, <2>3
      <3>2. Place(Label("offline", 10), c + 1) \in {"offline", Blank}
        BY LabelPlaces, Words
      <3>3. Cell(7, c) # "turbo"
        BY <3>1, <3>2, Words
      <3>4. s.turbo = FALSE /\ s.status \notin {"ONLINE", "SYNCING"}
        BY <2>3, SnapshotTypes
      <3> QED BY <3>3, <3>4, Zenon
    <2>4. CASE ~s.turbo /\ s.status = "CONNECTING"
      <3>1. Cell(7, c) = Place(Label("connecting", 16), c + 1)
        BY <1>5, <2>1, <2>4
      <3>2. Place(Label("connecting", 16), c + 1) = "connecting"
        BY LabelPlaces, Words
      <3>3. Cell(7, c) # "turbo"
        BY <3>1, <3>2, Words
      <3>4. s.turbo = FALSE /\ s.status \notin {"ONLINE", "SYNCING"}
        BY <2>4, SnapshotTypes
      <3> QED BY <3>3, <3>4, Zenon
    <2>5. CASE ~s.turbo /\ s.status \notin {"OFFLINE", "CONNECTING"}
      <3>1. Cell(7, c) = Place(<< >>, c + 1)
        BY <1>5, <2>1, <2>5
      <3>2. Place(<< >>, c + 1) = Blank
        BY DEF Place
      <3>3. Cell(7, c) = Blank /\ Cell(7, c) # "turbo"
        BY <3>1, <3>2, Words, Zenon
      <3>4. s.turbo = FALSE
        BY <2>5, SnapshotTypes
      <3> QED BY <3>3, <3>4, Zenon
    <2> QED BY <2>2, <2>3, <2>4, <2>5, SnapshotTypes, Zenon
  <1> QED BY <1>8, <1>9, <1>10, <1>11, <1>12, <1>13

(* Outside of a milestone's flash the panel is blank, before the first      *)
(* frame, or shows the snapshot of the last one.                            *)
PanelInv ==
  /\ at \in {"snapshot", "gold", "blue"}
  /\ snap \in Snapshots
  /\ at # "gold" => oled = Cleared \/ oled = Picture(snap)

LEMMA RenderPanel ==
  ASSUME NEW s \in Snapshots, Render(s)
  PROVE  PanelInv'
  BY DEF Render, PanelInv

LEMMA PanelSteps == Spec => []PanelInv
  <1>1. Init => PanelInv
    BY DEF Init, PanelInv, Cleared
  <1>2. PanelInv /\ [Next]_vars => PanelInv'
    <2> SUFFICES ASSUME PanelInv, [Next]_vars
                 PROVE  PanelInv'
      OBVIOUS
    <2>1. CASE Frame
      BY <2>1, RenderPanel DEF Frame
    <2>2. CASE Gold
      BY <2>2 DEF Gold, PanelInv
    <2>3. CASE GoldFrame
      BY <2>3, RenderPanel DEF GoldFrame, PanelInv
    <2>4. CASE Redraw
      BY <2>4 DEF Redraw, PanelInv
    <2>5. CASE UNCHANGED vars
      BY <2>5 DEF vars, PanelInv
    <2> QED BY <2>1, <2>2, <2>3, <2>4, <2>5 DEF Next
  <1> QED BY <1>1, <1>2, PTL DEF Spec

(* Both scores and the count of clicks can be read off the panel in every   *)
(* frame, for every score of 32 bits, and nothing stands where a frame      *)
(* writes nothing (task_display, format_number, draw_string).               *)
THEOREM PanelIsReadable == Spec => []PanelReadable
  <1>1. PanelInv => PanelReadable
    <2> SUFFICES ASSUME PanelInv, Drawn
                 PROVE  PanelReadable
      BY DEF PanelReadable
    <2>1. snap \in Snapshots /\ oled = Picture(snap)
      BY DEF PanelInv, Drawn, Cleared
    <2>2. 0 .. Columns - 1 = 0..15
      BY SMT DEF Columns, Width
    <2>3. /\ Read(2, 9) = Legible(Shown(snap, snap.local))
          /\ Read(3, 9) = Legible(Shown(snap, snap.global))
          /\ Count(snap) < 1000000 => Read(6, 10) = Count(snap)
          /\ \A line \in {1, 4, 5}, c \in 0..15 : Cell(line, c) = Blank
          /\ \A c \in 0..15 :
               /\ (Cell(7, c) = "turbo") = snap.turbo
               /\ snap.status \in {"ONLINE", "SYNCING"} /\ ~snap.turbo => Cell(7, c) = Blank
      BY <2>1, PictureReadable, SMT
    <2> QED BY <2>2, <2>3, SMT DEF PanelReadable, Cell, Count
  <1> QED BY <1>1, PanelSteps, PTL

(***************************************************************************)
(* The matrix.                                                             *)
(***************************************************************************)

(* The strip and the numeral's grid number the same LEDs.                   *)
LEMMA Grid ==
  /\ \A k \in Leds : ColumnOf(k) \in 0..4 /\ k \div 5 \in 0..4 /\ GetIndex(ColumnOf(k), k \div 5) = k
  /\ \A x \in 0..4, y \in 0..4 : ColumnOf(GetIndex(x, y)) = x /\ GetIndex(x, y) \div 5 = y
  BY SMT DEF Leds, ColumnOf, GetIndex

LEMMA NumeralDrawn ==
  ASSUME NEW digit, NEW colour, colour # Dark, NEW k \in Leds
  PROVE  /\ DrawNumber(digit, colour)[k] \in {Dark, colour}
         /\ (DrawNumber(digit, colour)[k] # Dark) = Lit(digit, ColumnOf(k), k \div 5)
  <1> DEFINE lit == {GetIndex(p[1], p[2]) : p \in {q \in (0..4) \X (0..4) : Lit(digit, q[1], q[2])}}
  <1>1. k \in lit <=> Lit(digit, ColumnOf(k), k \div 5)
    <2>1. ASSUME k \in lit
          PROVE  Lit(digit, ColumnOf(k), k \div 5)
      <3>1. PICK p \in (0..4) \X (0..4) : Lit(digit, p[1], p[2]) /\ k = GetIndex(p[1], p[2])
        BY <2>1
      <3>2. ColumnOf(k) = p[1] /\ k \div 5 = p[2]
        BY <3>1, Grid
      <3> QED BY <3>1, <3>2
    <2>2. ASSUME Lit(digit, ColumnOf(k), k \div 5)
          PROVE  k \in lit
      <3> DEFINE p == <<ColumnOf(k), k \div 5>>
      <3>1. p \in (0..4) \X (0..4) /\ k = GetIndex(p[1], p[2]) /\ Lit(digit, p[1], p[2])
        BY <2>2, Grid
      <3> QED BY <3>1
    <2> QED BY <2>1, <2>2
  <1>2. DrawNumber(digit, colour)[k] = IF k \in lit THEN colour ELSE Dark
    <2>1. Before[k] = Dark
      BY DEF Before, SetAll
    <2> HIDE DEF lit
    <2>2. DrawNumber(digit, colour) = [j \in Leds |-> IF j \in lit THEN colour ELSE Before[j]]
      BY DEF DrawNumber, lit
    <2> QED BY <2>1, <2>2
  <1> HIDE DEF lit
  <1>3. Lit(digit, ColumnOf(k), k \div 5) \in BOOLEAN
    BY DEF Lit
  <1> QED BY <1>1, <1>2, <1>3

(* wheel_color in 8 bits, then dimmed, is the rainbow.                      *)
Hue(pos) == [i \in 1..3 |-> Byte(WheelColor(pos)[i] \div 18 + 2)]

LEMMA Primaries ==
  ASSUME NEW p \in 0..255
  PROVE  /\ p < 85 => /\ Intensity(p, 0) = 255 - 3 * p
                      /\ Intensity(p, 170) = 0 /\ Intensity(p, 85) = 3 * p
         /\ p >= 85 /\ p < 170 => /\ Intensity(p, 0) = 0
                                  /\ Intensity(p, 170) = 3 * (p - 85)
                                  /\ Intensity(p, 85) = 255 - 3 * (p - 85)
         /\ p >= 170 => /\ Intensity(p, 0) = 3 * (p - 170)
                        /\ Intensity(p, 170) = 255 - 3 * (p - 170) /\ Intensity(p, 85) = 0
  BY SMT DEF Intensity

LEMMA HueIsRainbow ==
  ASSUME NEW pos \in 0..255, NEW hue \in Int, hue % 256 = pos
  PROVE  Hue(pos) = Rainbow(hue) /\ Hue(pos) # Dark
  <1>1. PICK p \in 0..255 : p = 255 - pos /\ Byte(255 - pos) = p
    BY SMT DEF Byte
  <1> DEFINE r == Intensity(p, 0)
             g == Intensity(p, 170)
             b == Intensity(p, 85)
  <1>2. \A n \in 0..255 : Byte(n) = n
    BY SMT DEF Byte
  <1>3. /\ p < 85 => r = 255 - 3 * p /\ g = 0 /\ b = 3 * p
        /\ p >= 85 /\ p < 170 => r = 0 /\ g = 3 * (p - 85) /\ b = 255 - 3 * (p - 85)
        /\ p >= 170 => r = 3 * (p - 170) /\ g = 255 - 3 * (p - 170) /\ b = 0
    BY Primaries, SMT
  <1> HIDE DEF r, g, b
  <1>4. r \in 0..255 /\ g \in 0..255 /\ b \in 0..255
    BY <1>3, SMT
  <1>5. WheelColor(pos) = <<r, g, b>>
    <2>1. CASE p < 85
      <3>1. p * 3 = b /\ 255 - p * 3 = r /\ g = 0
        BY <1>3, <2>1, SMT
      <3>2. WheelColor(pos) = <<Byte(255 - p * 3), 0, Byte(p * 3)>>
        BY <1>1, <2>1, Zenon DEF WheelColor
      <3> QED BY <1>2, <1>4, <3>1, <3>2, Zenon
    <2>2. CASE p >= 85 /\ p < 170
      <3>1. (p - 85) * 3 = g /\ 255 - (p - 85) * 3 = b /\ r = 0 /\ (p < 85) = FALSE /\ (p < 170) = TRUE
        BY <1>3, <2>2, SMT
      <3>2. WheelColor(pos) = <<0, Byte((p - 85) * 3), Byte(255 - (p - 85) * 3)>>
        BY <1>1, <3>1, SMT DEF WheelColor
      <3> QED BY <1>2, <1>4, <3>1, <3>2, Zenon
    <2>3. CASE p >= 170
      <3>1. (p - 170) * 3 = r /\ 255 - (p - 170) * 3 = g /\ b = 0 /\ (p < 85) = FALSE /\ (p < 170) = FALSE
        BY <1>3, <2>3, SMT
      <3>2. WheelColor(pos) = <<Byte((p - 170) * 3), Byte(255 - (p - 170) * 3), 0>>
        BY <1>1, <3>1, SMT DEF WheelColor
      <3> QED BY <1>2, <1>4, <3>1, <3>2, Zenon
    <2> QED BY <2>1, <2>2, <2>3, SMT
  <1>6. \A n \in 0..255 : Byte(n \div 18 + 2) = 2 + (n \div 18) /\ 2 + (n \div 18) # 0
    BY SMT DEF Byte
  <1>7. Hue(pos) = <<2 + (r \div 18), 2 + (g \div 18), 2 + (b \div 18)>>
    BY <1>4, <1>5, <1>6 DEF Hue
  <1>8. Rainbow(hue) = <<2 + (r \div 18), 2 + (g \div 18), 2 + (b \div 18)>>
    BY <1>1 DEF Rainbow, r, g, b
  <1> QED BY <1>4, <1>6, <1>7, <1>8 DEF Dark

GoldColour == <<20, 14, 0>>

(* The colours the numeral of a snapshot may have beside a rainbow_phase.   *)
Right(s, c, ph) ==
  /\ c # Dark
  /\ s.turbo /\ c # GoldColour =>
       c \in {Rainbow(ph + Digit(s) * 12), Rainbow(ph - 7 + Digit(s) * 12)}

LEMMA DigitRange == ASSUME NEW s \in Snapshots PROVE Digit(s) \in 0..9
  BY SnapshotTypes, SMT DEF Digit

LEMMA HueNow ==
  ASSUME NEW s \in Snapshots, NEW ph \in 0..255
  PROVE  /\ Hue(Byte(ph + Digit(s) * 12)) = Rainbow(ph + Digit(s) * 12)
         /\ Hue(Byte(ph + Digit(s) * 12)) = Rainbow(Byte(ph + 7) - 7 + Digit(s) * 12)
         /\ Hue(Byte(ph + Digit(s) * 12)) # Dark
  <1>1. PICK d \in 0..9 : d = Digit(s)
    BY DigitRange
  <1>2. PICK hue \in Int : hue = ph + d * 12
    BY SMT
  <1>3. PICK pos \in 0..255 : pos = Byte(hue) /\ hue % 256 = pos
    BY <1>2, SMT DEF Byte
  <1>4. PICK later \in Int : later = Byte(ph + 7) - 7 + d * 12 /\ later % 256 = pos
    BY <1>2, <1>3, SMT DEF Byte
  <1>5. Hue(pos) = Rainbow(hue) /\ Hue(pos) # Dark
    BY <1>3, HueIsRainbow
  <1>6. Hue(pos) = Rainbow(later)
    BY <1>4, HueIsRainbow
  <1> QED BY <1>1, <1>2, <1>3, <1>4, <1>5, <1>6, Zenon

(* The colour of a frame is right for the rainbow_phase before and after it. *)
LEMMA ColourRight ==
  ASSUME NEW s \in Snapshots, NEW ph \in 0..255, NEW gl \in Nat
  PROVE  /\ Right(s, Colour(s, gl, ph), ph)
         /\ gl = 0 /\ s.turbo => Right(s, Colour(s, gl, ph), Byte(ph + 7))
  <1>1. CASE gl > 0
    <2>1. Colour(s, gl, ph) = GoldColour /\ GoldColour # Dark
      BY <1>1, SMT DEF Colour, GoldColour, Dark
    <2> QED BY <1>1, <2>1, SMT DEF Right
  <1>2. CASE gl = 0 /\ ~s.turbo
    <2>1. Colour(s, gl, ph) # Dark
      BY <1>2, SMT DEF Colour, Dark
    <2> QED BY <1>2, <2>1 DEF Right
  <1>3. CASE gl = 0 /\ s.turbo
    <2>1. Colour(s, gl, ph) = Hue(Byte(ph + Digit(s) * 12))
      BY <1>3 DEF Colour, Hue
    <2> QED BY <2>1, HueNow, Zenon DEF Right
  <1> QED BY <1>1, <1>2, <1>3, SMT

(* The LEDs that an alert or a click paints over.                           *)
Hidden == IF at = "blue" \/ leds[12] = <<8, 0, 0>> THEN {12} ELSE {}

MatrixInv ==
  /\ snap \in Snapshots
  /\ phase \in 0..255 /\ glow \in Nat
  /\ Drawn => \E c : /\ Right(snap, c, phase)
                     /\ \A k \in Leds \ Hidden : leds[k] = DrawNumber(Digit(snap), c)[k]

LEMMA RenderMatrix ==
  ASSUME NEW s \in Snapshots, Render(s), phase \in 0..255, glow \in Nat
  PROVE  MatrixInv'
  <1> DEFINE c == Colour(s, glow, phase)
             number == DrawNumber(Digit(s), c)
  <1>1. snap' = s /\ phase' \in 0..255 /\ glow' \in Nat
    BY SMT DEF Render, NextPhase, Byte
  <1>2. Right(s, c, phase')
    <2>1. CASE glow = 0 /\ s.turbo
      BY <2>1, ColourRight DEF Render, NextPhase
    <2>2. CASE ~(glow = 0 /\ s.turbo)
      BY <2>2, ColourRight DEF Render
    <2> QED BY <2>1, <2>2
  <1>3. \A k \in Leds \ Hidden' : leds'[k] = number[k]
    <2>1. /\ DOMAIN number = Leds /\ 12 \in Leds
          /\ number = Number(s, glow, phase)
          /\ \A col : /\ SetOne(number, 12, col)[12] = col
                      /\ \A k \in Leds \ {12} : SetOne(number, 12, col)[k] = number[k]
      <3>1. DOMAIN number = Leds /\ number = [k \in Leds |-> number[k]] /\ 12 \in Leds
        BY DEF DrawNumber, Leds
      <3> HIDE DEF number
      <3>2. ASSUME NEW col
            PROVE  /\ SetOne(number, 12, col)[12] = col
                   /\ \A k \in Leds \ {12} : SetOne(number, 12, col)[k] = number[k]
        <4>1. SetOne(number, 12, col) = [number EXCEPT ![12] = col]
          BY <3>1 DEF SetOne
        <4> QED BY <3>1, <4>1
      <3>3. number = Number(s, glow, phase)
        BY DEF number, Number
      <3> QED BY <3>1, <3>2, <3>3
    <2>2. CASE s.flash
      <3>1. Hidden' = {12} /\ leds' = SetOne(number, 12, <<0, 0, 15>>)
        BY <2>1, <2>2 DEF Render, Hidden
      <3> QED BY <2>1, <3>1
    <2>3. CASE leds' = number
      BY <2>3
    <2>4. CASE leds' = SetOne(number, 12, <<8, 0, 0>>)
      <3>1. Hidden' = {12}
        BY <2>1, <2>4 DEF Hidden
      <3> QED BY <2>1, <2>4, <3>1
    <2>5. ~s.flash => leds' = number \/ leds' = SetOne(number, 12, <<8, 0, 0>>)
      BY <2>1 DEF Render
    <2> QED BY <2>2, <2>3, <2>4, <2>5
  <1> HIDE DEF c
  <1> QED BY <1>1, <1>2, <1>3 DEF MatrixInv

LEMMA MatrixSteps == Spec => []MatrixInv
  <1>1. Init => MatrixInv
    BY SMT DEF Init, MatrixInv, Drawn
  <1>2. MatrixInv /\ [Next]_vars => MatrixInv'
    <2> SUFFICES ASSUME MatrixInv, [Next]_vars
                 PROVE  MatrixInv'
      OBVIOUS
    <2>1. CASE Frame
      BY <2>1, RenderMatrix DEF Frame, MatrixInv
    <2>2. CASE Gold
      <3>1. ~Drawn'
        BY <2>2 DEF Gold, Drawn
      <3>2. GlowTicks \in Nat
        BY ScreenAssumption, SMT
      <3> QED BY <2>2, <3>1, <3>2 DEF Gold, MatrixInv
    <2>3. CASE GoldFrame
      BY <2>3, RenderMatrix DEF GoldFrame, MatrixInv
    <2>4. CASE Redraw
      <3> DEFINE c == Colour(snap, glow, phase)
      <3>1. Right(snap, c, phase)
        BY ColourRight DEF MatrixInv
      <3>2. leds' = DrawNumber(Digit(snap), c)
        BY <2>4 DEF Redraw, Number
      <3>3. snap' = snap /\ phase' = phase /\ glow' = glow
        BY <2>4 DEF Redraw
      <3> HIDE DEF c
      <3> QED BY <3>1, <3>2, <3>3 DEF MatrixInv
    <2>5. CASE UNCHANGED vars
      BY <2>5 DEF vars, MatrixInv, Drawn, Hidden
    <2> QED BY <2>1, <2>2, <2>3, <2>4, <2>5 DEF Next
  <1> QED BY <1>1, <1>2, PTL DEF Spec

(* MatrixMatchesPanel, for every GlowTicks and every snapshot with scores   *)
(* of 32 bits: the numeral on the matrix is the last one of the score on    *)
(* the panel, upright, and in a turbo its colour lies on the rainbow        *)
(* (task_display, led_matrix_draw_number, wheel_color).                     *)
THEOREM MatrixShowsPanel == Spec => []MatrixMatchesPanel
  <1>1. PanelInv /\ MatrixInv => MatrixMatchesPanel
    <2> SUFFICES ASSUME PanelInv, MatrixInv, Drawn
                 PROVE  MatrixMatchesPanel
      BY DEF MatrixMatchesPanel
    <2> DEFINE value == Shown(snap, snap.local)
               digit == (IF value < 1000000 THEN Read(2, 9) ELSE value) % 10
    <2>1. digit = Digit(snap)
      <3>1. snap \in Snapshots /\ oled = Picture(snap)
        BY DEF PanelInv, Drawn, Cleared
      <3>2. Read(2, 9) = Legible(value)
        BY <3>1, PictureReadable
      <3>3. value < 1000000 => Legible(value) = value
        BY <3>1, SnapshotTypes, SMT DEF Legible
      <3> HIDE DEF value
      <3>4. (IF value < 1000000 THEN Read(2, 9) ELSE value) = value
        BY <3>2, <3>3, SMT
      <3> QED BY <3>4, SMT DEF Digit, value
    <2>2. PICK c : /\ Right(snap, c, phase)
                   /\ \A k \in Leds \ Hidden : leds[k] = DrawNumber(Digit(snap), c)[k]
      BY DEF MatrixInv
    <2> HIDE DEF digit
    <2>3. ASSUME NEW k \in Leds \ Hidden
          PROVE  /\ (leds[k] # Dark) = Lit(digit, ColumnOf(k), k \div 5)
                 /\ snap.turbo /\ leds[k] \notin {Dark, GoldColour} =>
                      leds[k] \in {Rainbow(phase + digit * 12), Rainbow(phase - 7 + digit * 12)}
      <3>1. /\ DrawNumber(digit, c)[k] \in {Dark, c}
            /\ (DrawNumber(digit, c)[k] # Dark) = Lit(digit, ColumnOf(k), k \div 5)
        BY <2>2, NumeralDrawn DEF Right
      <3>2. leds[k] = DrawNumber(digit, c)[k]
        BY <2>1, <2>2, SMT
      <3>3. snap.turbo /\ c # GoldColour => c \in {Rainbow(phase + digit * 12), Rainbow(phase - 7 + digit * 12)}
        BY <2>1, <2>2, SMT DEF Right
      <3> QED BY <3>1, <3>2, <3>3, Zenon
    <2> QED BY <2>3, SMT DEF MatrixMatchesPanel, Hidden, GoldColour, digit
  <1> QED BY <1>1, PanelSteps, MatrixSteps, PTL

=============================================================================
