--------------------------- MODULE IsoCodec_proofs ---------------------------
(***************************************************************************)
(* Proofs about the messages, for values of any length and requests cut    *)
(* anywhere in their last four characters.                                 *)
(*                                                                         *)
(* The argument: one walk writes the fields of a table, another reads those*)
(* of a second one.  Both tables go by rising bits, so the two walks can be*)
(* put side by side (Aligned): as long as what was written is in the other *)
(* table too, the reader stands where the writer stood (WalksAgree).  What *)
(* is left to say of the code is how its tables compare (TablesMatch).     *)
(***************************************************************************)
EXTENDS IsoCodec, NaturalLemmas

\* What a message is made of.
Letter == {Character(by, m, i) : by \in {"terminal", "ISM"}, m \in Nat, i \in Nat}
          \cup {Digit(d) : d \in 0 .. 9}
Text == Seq(Letter)
Message == [bits : SUBSET (1 .. 128), text : Text]
FieldType == [bit : 2 .. 128, member : 2 .. 128, width : 0 .. 20]
Reader(k) == [at : Nat \ {0}, s : [Members(k) -> Text], lost : BOOLEAN]

\* The length of a text.
Length(t) == Len(t)

\* One text after another.
Then(t, u) == t \o u

\* A value that fills its field, or none.
Fills(v, f) ==
  /\ v \in Text
  /\ v = <<>> \/ (f.width > 0 /\ Length(v) = f.width) \/ (f.width = 0 /\ Length(v) \in 1 .. 999)

AllFill(table, s) == \A i \in 1 .. Length(table) : Fills(s[table[i].member], table[i])

\* Values that can be written, whether they fill their fields or not.
AllText(table, s) ==
  \A i \in 1 .. Length(table) : s[table[i].member] \in Text /\ Length(s[table[i].member]) <= 999

\* The characters of a field, with its length.
Piece(v, f) == IF v = <<>> THEN <<>> ELSE IF f.width > 0 THEN v ELSE Then(Lll(Length(v)), v)

\* One text begins like another.
Begins(t, u) == Length(u) <= Length(t) /\ \A i \in 1 .. Length(u) : t[i] = u[i]

\* Where something stands in a text.
Stands(t, at, v) == \A i \in 1 .. Length(v) : t[(at + i) - 1] = v[i]

-----------------------------------------------------------------------------
(* Texts.                                                                  *)

\* A text has a length, and its characters are letters.
LEMMA TextIs ==
  ASSUME NEW t \in Text
  PROVE  /\ Length(t) \in Nat /\ \A i \in 1 .. Length(t) : t[i] \in Letter
         /\ t = <<>> <=> Length(t) = 0
<1>1. Len(t) \in Nat /\ \A i \in 1 .. Len(t) : t[i] \in Letter
  BY LenProperties, ElementOfSeq DEF Text
<1>2. t = <<>> <=> Len(t) = 0
  BY EmptySeq DEF Text
<1>3. QED
  BY <1>1, <1>2 DEF Length

\* Texts are equal when their characters are.
LEMMA SameText ==
  ASSUME NEW t \in Text, NEW u \in Text, Length(t) = Length(u),
         \A i \in 1 .. Length(t) : t[i] = u[i]
  PROVE  t = u
BY SeqEqual DEF Text, Length

\* What stands where in two texts joined.
LEMMA JoinedText ==
  ASSUME NEW t \in Text, NEW u \in Text
  PROVE  /\ Then(t, u) \in Text /\ Length(Then(t, u)) = Length(t) + Length(u)
         /\ \A i \in 1 .. Length(t) : Then(t, u)[i] = t[i]
         /\ \A i \in 1 .. Length(u) : Then(t, u)[Length(t) + i] = u[i]
BY Joined DEF IsJoined, Text, Length, Then

\* A text followed by nothing.
LEMMA JoinedToNothing ==
  ASSUME NEW t \in Text
  PROVE  Then(t, <<>>) = t /\ <<>> \in Text
BY ConcatEmptySeq, EmptySeq DEF Text, Then

\* A piece of a text.
LEMMA PieceOfText ==
  ASSUME NEW t \in Text, NEW a \in Nat \ {0}, NEW b \in Int, b <= Length(t)
  PROVE  /\ SubSeq(t, a, b) \in Text
         /\ Length(SubSeq(t, a, b)) = IF a <= b THEN (b - a) + 1 ELSE 0
         /\ \A i \in 1 .. (b - a) + 1 : SubSeq(t, a, b)[i] = t[(a + i) - 1]
<1>1. \A i \in a .. b : t[i] \in Letter
  BY TextIs
<1>2. /\ SubSeq(t, a, b) \in Seq(Letter)
      /\ Len(SubSeq(t, a, b)) = IF a <= b THEN b - a + 1 ELSE 0
      /\ \A i \in 1 .. b - a + 1 : SubSeq(t, a, b)[i] = t[a + i - 1]
  BY <1>1, SubSeqProperties
<1>3. QED
  BY <1>2 DEF Text, Length

\* What a digit is.
LEMMA DigitIs ==
  ASSUME NEW d \in 0 .. 9
  PROVE  Digit(d) \in Letter /\ IsDigit(Digit(d)) /\ Digit(d)[2] = d
BY DEF Letter, Digit, IsDigit

\* A letter that looks like a digit is one.
LEMMA LooksLikeDigit ==
  ASSUME NEW c \in Letter, IsDigit(c)
  PROVE  c[2] \in 0 .. 9
<1>1. \A by \in {"terminal", "ISM"}, m \in Nat, i \in Nat : ~IsDigit(Character(by, m, i))
  BY DEF IsDigit, Character
<1>2. QED
  BY <1>1, SMTT(40) DEF Letter, Digit, IsDigit

\* Three digits say a length of at most 999.
LEMMA LllIs ==
  ASSUME NEW n \in 0 .. 999
  PROVE  /\ Lll(n) \in Text /\ Length(Lll(n)) = 3
         /\ \A i \in 1 .. 3 : IsDigit(Lll(n)[i])
         /\ Number(Lll(n)) = n
         /\ n < 10 => Lll(n)[1][2] = 0 /\ Lll(n)[2][2] = 0
<1> DEFINE a == n \div 100
           b == (n \div 10) % 10
           c == n % 10
<1>1. a \in 0 .. 9 /\ b \in 0 .. 9 /\ c \in 0 .. 9
  OBVIOUS
<1>2. n = 100 * a + 10 * b + c /\ (n < 10 => a = 0 /\ b = 0)
  OBVIOUS
<1> HIDE DEF a, b, c
<1>3. Lll(n) = <<Digit(a), Digit(b), Digit(c)>>
  BY DEF Lll, a, b, c
<1>4. /\ Digit(a) \in Letter /\ Digit(b) \in Letter /\ Digit(c) \in Letter
      /\ IsDigit(Digit(a)) /\ IsDigit(Digit(b)) /\ IsDigit(Digit(c))
      /\ Digit(a)[2] = a /\ Digit(b)[2] = b /\ Digit(c)[2] = c
  BY <1>1, DigitIs
<1>5. Lll(n) \in Text /\ Len(Lll(n)) = 3
  BY <1>3, <1>4 DEF Text
<1>6. /\ Lll(n)[1] = Digit(a) /\ Lll(n)[2] = Digit(b) /\ Lll(n)[3] = Digit(c)
  BY <1>3
<1>7. Number(Lll(n)) = 100 * a + 10 * b + c
  BY <1>4, <1>5, <1>6 DEF Number
<1>8. QED
  BY <1>2, <1>4, <1>5, <1>6, <1>7 DEF Length

\* A length is three characters.
LEMMA LllTyped == \A n \in 0 .. 999 : Lll(n) \in Text /\ Length(Lll(n)) = 3
BY LllIs, ZenonT(90)

\* A number is what its digits say.
LEMMA NumberIs ==
  ASSUME NEW cs
  PROVE  /\ Length(cs) = 0 => Number(cs) = 0
         /\ Length(cs) = 1 => Number(cs) = cs[1][2]
         /\ Length(cs) = 2 => Number(cs) = 10 * cs[1][2] + cs[2][2]
         /\ Length(cs) = 3 => Number(cs) = 100 * cs[1][2] + 10 * cs[2][2] + cs[3][2]
BY DEF Number, Length

\* A number that is read is one of at most three digits.
LEMMA NumberTyped ==
  ASSUME NEW cs \in Text, Length(cs) <= 3, \A i \in 1 .. Length(cs) : IsDigit(cs[i])
  PROVE  Number(cs) \in 0 .. 999
<1>1. Length(cs) \in 0 .. 3 /\ \A i \in 1 .. Length(cs) : cs[i][2] \in 0 .. 9
  BY LooksLikeDigit, TextIs
<1>3. CASE Length(cs) = 0
  BY <1>3, NumberIs
<1>4. CASE Length(cs) = 1
  BY <1>1, <1>4, NumberIs
<1>5. CASE Length(cs) = 2
  <2>1. cs[1][2] \in 0 .. 9 /\ cs[2][2] \in 0 .. 9
    BY <1>1, <1>5
  <2>2. QED
    BY <1>5, <2>1, NumberIs
<1>6. CASE Length(cs) = 3
  <2>1. cs[1][2] \in 0 .. 9 /\ cs[2][2] \in 0 .. 9 /\ cs[3][2] \in 0 .. 9
    BY <1>1, <1>6
  <2>2. QED
    BY <1>6, <2>1, NumberIs
<1>7. QED
  BY <1>1, <1>3, <1>4, <1>5, <1>6

\* What Chars copies: so many characters, fewer only at the text's end.
LEMMA CharsIs ==
  ASSUME NEW t \in Text, NEW at \in Nat \ {0}, NEW n \in Nat
  PROVE  /\ Chars(t, at, n) \in Text /\ Length(Chars(t, at, n)) <= n
         /\ at + n <= Length(t) + 1 =>
              Length(Chars(t, at, n)) = n /\ \A i \in 1 .. n : Chars(t, at, n)[i] = t[(at + i) - 1]
         /\ at + n > Length(t) + 1 /\ at <= Length(t) + 1 =>
              /\ Length(Chars(t, at, n)) = (Length(t) + 1) - at
              /\ \A i \in 1 .. (Length(t) + 1) - at : Chars(t, at, n)[i] = t[(at + i) - 1]
         /\ at > Length(t) => Chars(t, at, n) = <<>>
<1> DEFINE m == (at + n) - 1
           e == Min({m, Length(t)})
<1>1. Length(t) \in Nat /\ m \in Nat
  BY TextIs
<1>2. e = IF m <= Length(t) THEN m ELSE Length(t)
  <2> HIDE DEF m
  <2>1. {m, Length(t)} \subseteq Nat /\ {m, Length(t)} # {}
    BY <1>1
  <2>2. e \in {m, Length(t)} /\ \A y \in {m, Length(t)} : e <= y
    BY <2>1, MinIsLeast
  <2>3. QED
    BY <1>1, <2>2
<1> HIDE DEF e
<1>3. Chars(t, at, n) = SubSeq(t, at, e)
  <2>1. Length(t) = Len(t)
    BY DEF Length
  <2>2. e = Min({at + n - 1, Len(t)})
    BY <2>1 DEF e
  <2>3. QED
    BY <2>2 DEF Chars
<1>4. e \in Int /\ e <= Length(t)
  BY <1>1, <1>2
<1>5. /\ SubSeq(t, at, e) \in Text
      /\ Length(SubSeq(t, at, e)) = IF at <= e THEN (e - at) + 1 ELSE 0
      /\ \A i \in 1 .. (e - at) + 1 : SubSeq(t, at, e)[i] = t[(at + i) - 1]
  BY <1>4, PieceOfText
<1>6. at > Length(t) => SubSeq(t, at, e) = <<>>
  BY <1>1, <1>2, <1>5, TextIs
<1>7. QED
  BY <1>1, <1>2, <1>3, <1>5, <1>6

\* The three characters behind the first n.
LEMMA ThreeChars ==
  ASSUME NEW t \in Text, NEW n \in Nat, n <= Length(t)
  PROVE  /\ Chars(t, n + 1, 3) \in Text /\ Length(Chars(t, n + 1, 3)) \in 0 .. 3
         /\ \A i \in 1 .. Length(Chars(t, n + 1, 3)) :
              Chars(t, n + 1, 3)[i] = t[n + i] /\ n + i <= Length(t)
<1> DEFINE y == Chars(t, n + 1, 3)
           a == n + 1
<1>1. a \in Nat \ {0} /\ Length(t) \in Nat
  BY TextIs
<1>2. \A i \in Int : (a + i) - 1 = n + i
  OBVIOUS
<1>3. y = Chars(t, a, 3)
  OBVIOUS
<1>4. a = n + 1
  OBVIOUS
<1> HIDE DEF y, a
<1>4a. \A d \in Nat :
         /\ Chars(t, a, d) \in Text /\ Length(Chars(t, a, d)) <= d
         /\ a + d <= Length(t) + 1 =>
              Length(Chars(t, a, d)) = d /\ \A i \in 1 .. d : Chars(t, a, d)[i] = t[(a + i) - 1]
         /\ a + d > Length(t) + 1 /\ a <= Length(t) + 1 =>
              /\ Length(Chars(t, a, d)) = (Length(t) + 1) - a
              /\ \A i \in 1 .. (Length(t) + 1) - a : Chars(t, a, d)[i] = t[(a + i) - 1]
  BY <1>1, CharsIs, ZenonT(90)
<1>4b. 3 \in Nat
  OBVIOUS
<1>5. /\ y \in Text /\ Length(y) <= 3
      /\ a + 3 <= Length(t) + 1 => Length(y) = 3 /\ \A i \in 1 .. 3 : y[i] = t[(a + i) - 1]
      /\ a + 3 > Length(t) + 1 /\ a <= Length(t) + 1 =>
           /\ Length(y) = (Length(t) + 1) - a
           /\ \A i \in 1 .. (Length(t) + 1) - a : y[i] = t[(a + i) - 1]
  BY <1>3, <1>4a, <1>4b
<1>6. Length(y) \in 0 .. 3 /\ n + Length(y) <= Length(t)
  BY <1>1, <1>4, <1>5, TextIs
<1>7. \A i \in 1 .. Length(y) : y[i] = t[(a + i) - 1]
  BY <1>1, <1>4, <1>5
<1>8. \A i \in 1 .. Length(y) : y[i] = t[n + i] /\ n + i <= Length(t)
  BY <1>1, <1>2, <1>6, <1>7
<1>9. QED
  BY <1>5, <1>6, <1>8 DEF y

\* A value that stands in a text is what Chars finds there.
LEMMA CharsFinds ==
  ASSUME NEW t \in Text, NEW at \in Nat \ {0}, NEW v \in Text,
         at + Length(v) <= Length(t) + 1, Stands(t, at, v)
  PROVE  Chars(t, at, Length(v)) = v
<1>1. Length(v) \in Nat
  BY TextIs
<1>2. /\ Chars(t, at, Length(v)) \in Text /\ Length(Chars(t, at, Length(v))) = Length(v)
      /\ \A i \in 1 .. Length(v) : Chars(t, at, Length(v))[i] = t[(at + i) - 1]
  <2>1. \A n \in Nat :
          at + n <= Length(t) + 1 =>
            /\ Chars(t, at, n) \in Text /\ Length(Chars(t, at, n)) = n
            /\ \A i \in 1 .. n : Chars(t, at, n)[i] = t[(at + i) - 1]
    BY CharsIs
  <2>2. QED
    BY <1>1, <2>1
<1>3. QED
  BY <1>2, SameText DEF Stands

-----------------------------------------------------------------------------
(* Writing.                                                                *)

\* A counted field's piece is its length and its value.
LEMMA CountedPiece ==
  ASSUME NEW f \in FieldType, NEW v, Fills(v, f), v # <<>>, f.width = 0
  PROVE  /\ Piece(v, f) \in Text /\ Length(v) \in 1 .. 999 /\ Length(Piece(v, f)) = 3 + Length(v)
         /\ \A i \in 1 .. 3 : Piece(v, f)[i] = Lll(Length(v))[i]
         /\ \A i \in 1 .. Length(v) : Piece(v, f)[3 + i] = v[i]
<1>1. Length(v) \in 1 .. 999 /\ v \in Text
  BY DEF Fills
<1>2. Lll(Length(v)) \in Text /\ Length(Lll(Length(v))) = 3
  <2>1. Length(v) \in 0 .. 999
    BY <1>1
  <2>2. QED
    BY <2>1, LllTyped, ZenonT(90)
<1>3. Piece(v, f) = Then(Lll(Length(v)), v)
  BY DEF Piece
<1>4. /\ Piece(v, f) \in Text /\ Length(Piece(v, f)) = 3 + Length(v)
      /\ \A i \in 1 .. 3 : Piece(v, f)[i] = Lll(Length(v))[i]
      /\ \A i \in 1 .. Length(v) : Piece(v, f)[3 + i] = v[i]
  BY <1>1, <1>2, <1>3, JoinedText
<1>5. QED
  BY <1>1, <1>4

\* A field's piece is a text; a counted one is longer than its value.
LEMMA PieceTyped ==
  ASSUME NEW f \in FieldType, NEW v, Fills(v, f)
  PROVE  /\ Piece(v, f) \in Text
         /\ v = <<>> => Length(Piece(v, f)) = 0
         /\ v # <<>> /\ f.width > 0 => Piece(v, f) = v /\ Length(v) = f.width
         /\ v # <<>> /\ f.width = 0 =>
              /\ Length(v) \in 1 .. 999 /\ Length(Piece(v, f)) = 3 + Length(v)
              /\ \A i \in 1 .. 3 : Piece(v, f)[i] = Lll(Length(v))[i]
              /\ \A i \in 1 .. Length(v) : Piece(v, f)[3 + i] = v[i]
<1>0. v \in Text /\ f.width \in 0 .. 20
  BY DEF Fills, FieldType
<1>1. CASE v = <<>>
  BY <1>0, <1>1, TextIs DEF Piece
<1>2. CASE v # <<>> /\ f.width > 0
  BY <1>0, <1>2 DEF Piece, Fills
<1>3. CASE v # <<>> /\ f.width = 0
  BY <1>3, CountedPiece
<1>4. QED
  BY <1>0, <1>1, <1>2, <1>3

\* A field adds its bit, and a text.
LEMMA AppendTyped ==
  ASSUME NEW f \in FieldType, NEW s, s[f.member] \in Text, Length(s[f.member]) <= 999, NEW w \in Message
  PROVE  /\ AppendField(s, w, f) \in Message
         /\ s[f.member] = <<>> => AppendField(s, w, f).bits = w.bits
         /\ s[f.member] # <<>> => AppendField(s, w, f).bits = w.bits \cup {f.bit}
<1> DEFINE v == s[f.member]
           x == IF f.width > 0 THEN Chars(v, 1, f.width) ELSE Then(Lll(Length(v)), v)
<1>1. w.text \in Text /\ w.bits \in SUBSET (1 .. 128) /\ f.bit \in 1 .. 128 /\ f.width \in 0 .. 20
  BY DEF Message, FieldType
<1>2. CASE v = <<>>
  <2>1. AppendField(s, w, f) = w
    BY <1>2 DEF AppendField
  <2>2. QED
    BY <1>2, <2>1
<1>3. CASE v # <<>>
  <2>0. Length(v) \in Nat
    BY TextIs
  <2>1. Length(v) \in 0 .. 999
    BY <2>0
  <2>2. Lll(Length(v)) \in Text
    BY <2>1, LllTyped, ZenonT(90)
  <2>3. 1 \in Nat \ {0} /\ f.width \in Nat
    BY <1>1
  <2>4. Chars(v, 1, f.width) \in Text
    BY <2>3, CharsIs
  <2>5. Then(Lll(Length(v)), v) \in Text
    BY <2>2, JoinedText
  <2>6. x \in Text
    BY <2>4, <2>5
  <2>7. AppendField(s, w, f) = [bits |-> w.bits \cup {f.bit}, text |-> Then(w.text, x)]
    BY <1>3 DEF AppendField, AddBitToByte, Length, Then
  <2> HIDE DEF x
  <2>8. Then(w.text, x) \in Text
    BY <1>1, <2>6, JoinedText
  <2>9. w.bits \cup {f.bit} \in SUBSET (1 .. 128)
    BY <1>1
  <2>10. AppendField(s, w, f) \in Message
    BY <2>7, <2>8, <2>9 DEF Message
  <2>11. QED
    BY <1>3, <2>7, <2>10
<1>4. QED
  BY <1>2, <1>3

\* A value that fills its field adds its piece.
LEMMA AppendFieldIs ==
  ASSUME NEW f \in FieldType, NEW s, Fills(s[f.member], f), NEW w \in Message
  PROVE  AppendField(s, w, f).text = Then(w.text, Piece(s[f.member], f))
<1> DEFINE v == s[f.member]
<1>1. w.text \in Text
  BY DEF Message
<1>2. CASE v = <<>>
  <2>1. AppendField(s, w, f) = w
    BY <1>2 DEF AppendField
  <2>2. Then(w.text, Piece(v, f)) = w.text
    BY <1>1, <1>2, JoinedToNothing DEF Piece
  <2>3. QED
    BY <2>1, <2>2
<1>3. CASE v # <<>>
  <2>1. f.width > 0 => Chars(v, 1, f.width) = v
    <3>1. SUFFICES ASSUME f.width > 0 PROVE Chars(v, 1, f.width) = v
      OBVIOUS
    <3>2. v \in Text /\ Length(v) = f.width /\ Length(v) \in Nat
      BY <1>3, <3>1 DEF Fills, FieldType
    <3>3. Stands(v, 1, v)
      BY <3>2 DEF Stands
    <3>4. QED
      BY <3>2, <3>3, CharsFinds
  <2>2. QED
    BY <1>3, <2>1 DEF AppendField, Piece, Length, Then
<1>4. QED
  BY <1>2, <1>3

\* A table's fields.
LEMMA TableIs ==
  ASSUME NEW T \in Seq(FieldType)
  PROVE  Length(T) \in Nat /\ \A i \in 1 .. Length(T) : T[i] \in FieldType
<1>1. Len(T) \in Nat /\ \A i \in 1 .. Len(T) : T[i] \in FieldType
  BY LenProperties, ElementOfSeq
<1>2. QED
  BY <1>1 DEF Length

\* Values that fill their fields can be written.
LEMMA FillsIsText ==
  ASSUME NEW T \in Seq(FieldType), NEW s, AllFill(T, s)
  PROVE  AllText(T, s)
<1>0. \A f \in FieldType : \A v : Fills(v, f) => v \in Text /\ Length(v) <= 999
  <2>1. \A f \in FieldType : f.width \in 0 .. 20
    BY DEF FieldType
  <2>2. \A v \in Text : Length(v) \in Nat /\ (v = <<>> => Length(v) = 0)
    BY TextIs
  <2>3. ASSUME NEW f \in FieldType, NEW v, Fills(v, f)
        PROVE  v \in Text /\ Length(v) <= 999
    <3>1. v \in Text /\ (v = <<>> \/ Length(v) = f.width \/ Length(v) \in 1 .. 999)
      BY <2>3, ZenonT(90) DEF Fills
    <3> DEFINE n == Length(v)
               m == f.width
    <3>2. n \in Nat /\ m \in 0 .. 20 /\ (v = <<>> => n = 0)
      BY <2>1, <2>2, <3>1
    <3>3. n = 0 \/ n = m \/ n \in 1 .. 999
      BY <3>1, <3>2
    <3> HIDE DEF n, m
    <3>4. n <= 999
      BY <3>2, <3>3
    <3>5. QED
      BY <3>1, <3>4 DEF n
  <2>4. QED
    BY <2>3
<1>1. ASSUME NEW i \in 1 .. Length(T) PROVE s[T[i].member] \in Text /\ Length(s[T[i].member]) <= 999
  <2>1. T[i] \in FieldType /\ Fills(s[T[i].member], T[i])
    BY TableIs DEF AllFill
  <2>2. QED
    BY <1>0, <2>1
<1>2. QED
  BY <1>1 DEF AllText

\* The recursion of Writing defines it, one field after the other.
LEMMA WritingIs ==
  ASSUME NEW T \in Seq(FieldType), NEW s, AllText(T, s), NEW B \in SUBSET (1 .. 128)
  PROVE  /\ Writing(T, B, s)[0] = [bits |-> B, text |-> <<>>]
         /\ \A i \in 0 .. Length(T) : Writing(T, B, s)[i] \in Message
         /\ \A i \in 1 .. Length(T) : Writing(T, B, s)[i] = AppendField(s, Writing(T, B, s)[i - 1], T[i])
<1> DEFINE N == Length(T)
           v == [bits |-> B, text |-> <<>>]
           g == [i \in 1 .. N |-> [w \in Message |-> AppendField(s, w, T[i])]]
           Is(f) == f = [i \in 0 .. N |-> IF i = 0 THEN v ELSE AppendField(s, f[i - 1], T[i])]
<1>1. /\ N \in Nat
      /\ \A i \in 1 .. N : T[i] \in FieldType /\ s[T[i].member] \in Text /\ Length(s[T[i].member]) <= 999
  BY TableIs DEF AllText
<1>2. v \in Message
  BY JoinedToNothing, EmptySeq DEF Message, Text
<1>3. \A i \in 1 .. N, w \in Message : AppendField(s, w, T[i]) \in Message
  BY <1>1, AppendTyped
<1>4. g \in [1 .. N -> [Message -> Message]]
  BY <1>3
<1>5. \E f : Is(f)
  <2> HIDE DEF N, v
  <2>1. PICK f \in [0 .. N -> Message] : f[0] = v /\ \A i \in 1 .. N : f[i] = g[i][f[i - 1]]
    <3>1. AreSteps(g, N, Message)
      BY <1>4 DEF AreSteps
    <3> HIDE DEF g
    <3>2. \E f : IsRecursion(f, N, Message, v, g)
      BY <1>1, <1>2, <3>1, RecursionExists
    <3>3. QED
      BY <3>2 DEF IsRecursion
  <2>2. \A i \in 0 .. N : f[i] = IF i = 0 THEN v ELSE AppendField(s, f[i - 1], T[i])
    <3>1. TAKE i \in 0 .. N
    <3>2. CASE i = 0
      BY <2>1, <3>2
    <3>3. CASE i # 0
      <4>1. i \in 1 .. N /\ i - 1 \in 0 .. N
        BY <1>1, <3>3
      <4>2. f[i - 1] \in Message
        BY <4>1
      <4>3. f[i] = g[i][f[i - 1]]
        BY <2>1, <4>1
      <4>4. QED
        BY <3>3, <4>1, <4>2, <4>3
    <3>4. QED
      BY <3>2, <3>3
  <2>3. Is(f)
    BY <2>1, <2>2
  <2>4. QED
    BY <2>3
<1>6. Is(Writing(T, B, s))
  BY <1>5 DEF Writing, Length
<1> HIDE DEF v
<1>7. \A i \in 0 .. N : Writing(T, B, s)[i] =
                          IF i = 0 THEN v ELSE AppendField(s, Writing(T, B, s)[i - 1], T[i])
  BY <1>6
<1>8. \A i \in 1 .. N : i \in 0 .. N /\ i # 0 /\ 0 \in 0 .. N
  BY <1>1
<1>9. 0 \in 0 .. N
  BY <1>1
<1>10. \A i \in 1 .. N : Writing(T, B, s)[i] = AppendField(s, Writing(T, B, s)[i - 1], T[i])
  BY <1>7, <1>8
<1>11. \A i \in 0 .. N : Writing(T, B, s)[i] \in Message
  <2> DEFINE E == {i \in Nat : Writing(T, B, s)[i] \in Message}
  <2>1. 0 \in E
    BY <1>2, <1>7, <1>9
  <2>2. ASSUME NEW i \in 0 .. N - 1, i \in E PROVE i + 1 \in E
    <3>1. i + 1 \in 1 .. N /\ (i + 1) - 1 = i
      BY <1>1
    <3>2. Writing(T, B, s)[i + 1] = AppendField(s, Writing(T, B, s)[i], T[i + 1])
      BY <1>10, <3>1
    <3>3. QED
      BY <1>3, <2>2, <3>1, <3>2
  <2> HIDE DEF E
  <2>3. 0 .. N \subseteq E
    BY <1>1, <2>1, <2>2, InductionUpTo
  <2>4. QED
    BY <2>3 DEF E
<1>12. QED
  BY <1>7, <1>9, <1>10, <1>11 DEF v

\* The bits say which fields were sent.
BitsSay(T, s, B) ==
  \A i \in 0 .. Length(T), b \in 1 .. 128 :
    b \in Writing(T, B, s)[i].bits <=>
      b \in B \/ \E j \in 1 .. i : s[T[j].member] # <<>> /\ T[j].bit = b

\* They do, after every field.
LEMMA WritingBits ==
  ASSUME NEW T \in Seq(FieldType), NEW s, AllText(T, s), NEW B \in SUBSET (1 .. 128)
  PROVE  BitsSay(T, s, B)
<1> DEFINE N == Length(T)
           W == Writing(T, B, s)
           Sent(i, b) == \E j \in 1 .. i : s[T[j].member] # <<>> /\ T[j].bit = b
           E == {i \in Nat : \A b \in 1 .. 128 : b \in W[i].bits <=> b \in B \/ Sent(i, b)}
<1>1. /\ N \in Nat
      /\ \A i \in 1 .. N : T[i] \in FieldType /\ s[T[i].member] \in Text /\ Length(s[T[i].member]) <= 999
  BY TableIs DEF AllText
<1>2. /\ W[0] = [bits |-> B, text |-> <<>>]
      /\ \A i \in 0 .. N : W[i] \in Message
      /\ \A i \in 1 .. N : W[i] = AppendField(s, W[i - 1], T[i])
  BY WritingIs
<1> HIDE DEF W
<1>3. 0 \in E
  <2>1. W[0].bits = B /\ \A b : ~Sent(0, b)
    BY <1>2
  <2> HIDE DEF Sent
  <2>2. QED
    BY <2>1
<1>4. ASSUME NEW i \in 0 .. N - 1, i \in E PROVE i + 1 \in E
  <2>1. i + 1 \in 1 .. N /\ (i + 1) - 1 = i /\ i \in 0 .. N /\ i \in Nat
    BY <1>1
  <2>2. /\ W[i] \in Message /\ T[i + 1] \in FieldType
        /\ s[T[i + 1].member] \in Text /\ Length(s[T[i + 1].member]) <= 999
    BY <1>1, <1>2, <2>1
  <2>3. W[i + 1] = AppendField(s, W[i], T[i + 1])
    BY <1>2, <2>1
  <2>4. /\ s[T[i + 1].member] = <<>> => W[i + 1].bits = W[i].bits
        /\ s[T[i + 1].member] # <<>> => W[i + 1].bits = W[i].bits \cup {T[i + 1].bit}
    BY <2>2, <2>3, AppendTyped
  <2>5. \A b : Sent(i + 1, b) <=> Sent(i, b) \/ (s[T[i + 1].member] # <<>> /\ T[i + 1].bit = b)
    <3>1. \A j : j \in 1 .. i + 1 <=> j \in 1 .. i \/ j = i + 1
      BY <2>1
    <3>2. QED
      BY <3>1
  <2> HIDE DEF Sent
  <2>6. \A b \in 1 .. 128 : b \in W[i].bits <=> b \in B \/ Sent(i, b)
    BY <1>4
  <2>7. \A b \in 1 .. 128 : b \in W[i + 1].bits <=> b \in B \/ Sent(i + 1, b)
    BY <2>4, <2>5, <2>6
  <2>8. QED
    BY <2>1, <2>7
<1> HIDE DEF E, Sent
<1>5. 0 .. N \subseteq E
  BY <1>1, <1>3, <1>4, InductionUpTo
<1>6. QED
  BY <1>5 DEF E, W, Sent, BitsSay

\* One text's beginning begins the other.
LEMMA BeginsOn ==
  ASSUME NEW t \in Text, NEW u \in Text, NEW v \in Text, Begins(u, t)
  PROVE  Begins(Then(u, v), t) /\ Begins(u, u)
<1>1. Length(t) \in Nat /\ Length(u) \in Nat /\ Length(v) \in Nat
  BY TextIs
<1>2. Length(Then(u, v)) = Length(u) + Length(v) /\ \A i \in 1 .. Length(u) : Then(u, v)[i] = u[i]
  BY JoinedText
<1>3. Length(t) <= Length(u) /\ \A i \in 1 .. Length(t) : u[i] = t[i] /\ i \in 1 .. Length(u)
  BY <1>1 DEF Begins
<1>4. QED
  BY <1>1, <1>2, <1>3 DEF Begins

\* The text grows by one piece after the other.
LEMMA WritingText ==
  ASSUME NEW T \in Seq(FieldType), NEW s, AllFill(T, s), NEW B \in SUBSET (1 .. 128)
  PROVE  /\ Length(Writing(T, B, s)[0].text) = 0
         /\ \A i \in 1 .. Length(T) :
              Writing(T, B, s)[i].text = Then(Writing(T, B, s)[i - 1].text, Piece(s[T[i].member], T[i]))
         /\ \A i \in 0 .. Length(T) :
              /\ Writing(T, B, s)[i].text \in Text
              /\ Begins(Writing(T, B, s)[Length(T)].text, Writing(T, B, s)[i].text)
<1> DEFINE N == Length(T)
           W == Writing(T, B, s)
           E == {n \in Nat : \A i \in 0 .. n : Begins(W[n].text, W[i].text)}
<1>1. N \in Nat /\ \A i \in 1 .. N : T[i] \in FieldType /\ Fills(s[T[i].member], T[i])
  BY TableIs DEF AllFill
<1>2. /\ W[0] = [bits |-> B, text |-> <<>>]
      /\ \A i \in 0 .. N : W[i] \in Message
      /\ \A i \in 1 .. N : W[i] = AppendField(s, W[i - 1], T[i])
  BY FillsIsText, WritingIs
<1> HIDE DEF W
<1>3. \A i \in 0 .. N : W[i].text \in Text
  BY <1>2 DEF Message
<1>4. \A i \in 1 .. N : W[i].text = Then(W[i - 1].text, Piece(s[T[i].member], T[i]))
  <2>1. TAKE i \in 1 .. N
  <2>2. i - 1 \in 0 .. N
    BY <1>1
  <2>3. W[i - 1] \in Message /\ W[i] = AppendField(s, W[i - 1], T[i])
    BY <1>2, <2>2
  <2>4. QED
    BY <1>1, <2>3, AppendFieldIs
<1>5. 0 \in E
  <2>1. W[0].text \in Text /\ Length(W[0].text) \in Nat
    BY <1>1, <1>3, TextIs
  <2>2. Begins(W[0].text, W[0].text)
    BY <2>1 DEF Begins
  <2>3. QED
    BY <2>2
<1>6. ASSUME NEW n \in 0 .. N - 1, n \in E PROVE n + 1 \in E
  <2>1. n + 1 \in 1 .. N /\ (n + 1) - 1 = n /\ n \in 0 .. N /\ n \in Nat /\ n + 1 \in 0 .. N
    BY <1>1
  <2>2. Piece(s[T[n + 1].member], T[n + 1]) \in Text
    BY <1>1, <2>1, PieceTyped
  <2>3. W[n + 1].text = Then(W[n].text, Piece(s[T[n + 1].member], T[n + 1]))
    BY <1>4, <2>1
  <2>4. ASSUME NEW i \in 0 .. n + 1 PROVE Begins(W[n + 1].text, W[i].text)
    <3>1. CASE i = n + 1
      <4>1. W[n + 1].text \in Text /\ Length(W[n + 1].text) \in Nat
        BY <1>3, <2>1, TextIs
      <4>2. QED
        BY <3>1, <4>1 DEF Begins
    <3>2. CASE i # n + 1
      <4>1. i \in 0 .. n /\ i \in 0 .. N
        BY <1>1, <2>1, <3>2
      <4>2. Begins(W[n].text, W[i].text) /\ W[n].text \in Text /\ W[i].text \in Text
        BY <1>3, <1>6, <2>1, <4>1
      <4>3. QED
        BY <2>2, <2>3, <4>2, BeginsOn
    <3>3. QED
      BY <3>1, <3>2
  <2>5. QED
    BY <2>1, <2>4
<1> HIDE DEF E
<1>7. 0 .. N \subseteq E
  BY <1>1, <1>5, <1>6, InductionUpTo
<1>8. N \in 0 .. N
  BY <1>1
<1>9. \A i \in 0 .. N : Begins(W[N].text, W[i].text)
  BY <1>7, <1>8 DEF E
<1>10. Length(W[0].text) = 0
  BY <1>2, <1>3, <1>1, TextIs
<1>11. QED
  BY <1>3, <1>4, <1>9, <1>10 DEF W

-----------------------------------------------------------------------------
(* Reading.                                                                *)

\* The longest value a field can bring, and what one field changes.
Longest(f) == IF f.width > 0 THEN f.width ELSE 999
Changes(s, t, f) == t = s \/ \E v \in Text : t = [s EXCEPT ![f.member] = v] /\ Length(v) <= Longest(f)

\* What a parser does with one field.
LEMMA TakeIs ==
  ASSUME NEW k, NEW f \in FieldType, f.member \in Members(k), NEW r \in Reader(k), NEW w \in Message
  PROVE  /\ Take(w, r, f) \in Reader(k)
         /\ r.lost \/ f.bit \notin Announced(w) => Take(w, r, f) = r
         /\ ~r.lost /\ f.bit \in Announced(w) /\ f.width > 0 =>
              Take(w, r, f) = [at |-> r.at + f.width, lost |-> FALSE,
                               s |-> [r.s EXCEPT ![f.member] = Chars(w.text, r.at, f.width)]]
         /\ \A cs : ~r.lost /\ f.bit \in Announced(w) /\ f.width = 0 /\ cs = Chars(w.text, r.at, 3)
                    /\ (\A i \in 1 .. Length(cs) : IsDigit(cs[i])) =>
              Take(w, r, f) = [at |-> r.at + 3 + Number(cs), lost |-> FALSE,
                               s |-> [r.s EXCEPT ![f.member] = Chars(w.text, r.at + 3, Number(cs))]]
         /\ Changes(r.s, Take(w, r, f).s, f)
<1> DEFINE cs == Chars(w.text, r.at, 3)
           digits == \A i \in 1 .. Length(cs) : IsDigit(cs[i])
<1>1. /\ w.text \in Text /\ r.at \in Nat \ {0} /\ r.s \in [Members(k) -> Text] /\ r.lost \in BOOLEAN
      /\ f.width \in 0 .. 20 /\ r = [at |-> r.at, s |-> r.s, lost |-> r.lost]
  BY DEF Message, Reader, FieldType
<1>2. cs \in Text /\ Length(cs) <= 3
  BY <1>1, CharsIs
<1>3. DOMAIN cs = 1 .. Length(cs)
  BY <1>2, LenProperties DEF Text, Length
<1>4. digits => Number(cs) \in 0 .. 999
  BY <1>2, NumberTyped
<1>5. CASE r.lost \/ f.bit \notin Announced(w)
  <2>1. Take(w, r, f) = r
    BY <1>5 DEF Take
  <2>2. QED
    BY <1>5, <2>1 DEF Changes
<1>6. CASE ~r.lost /\ f.bit \in Announced(w) /\ f.width > 0
  <2>1. Take(w, r, f) = [r EXCEPT !.at = r.at + f.width, !.s[f.member] = Chars(w.text, r.at, f.width)]
    <3>1. \A i : i \notin DOMAIN <<>>
      OBVIOUS
    <3>2. QED
      BY <1>6, <3>1, Zenon DEF Take
  <2>2. Chars(w.text, r.at, f.width) \in Text /\ Length(Chars(w.text, r.at, f.width)) <= f.width
    BY <1>1, CharsIs, SMTT(40)
  <2>3. Take(w, r, f) = [at |-> r.at + f.width, lost |-> FALSE,
                         s |-> [r.s EXCEPT ![f.member] = Chars(w.text, r.at, f.width)]]
    BY <1>1, <1>6, <2>1
  <2>4. r.at + f.width \in Nat \ {0} /\ [r.s EXCEPT ![f.member] = Chars(w.text, r.at, f.width)] \in [Members(k) -> Text]
    BY <1>1, <2>2
  <2>5. Take(w, r, f) \in Reader(k)
    BY <2>3, <2>4 DEF Reader
  <2>6. Take(w, r, f).s = [r.s EXCEPT ![f.member] = Chars(w.text, r.at, f.width)]
    BY <2>3
  <2>7. Longest(f) = f.width
    BY <1>6 DEF Longest
  <2>8. Changes(r.s, Take(w, r, f).s, f)
    BY <2>2, <2>6, <2>7 DEF Changes
  <2>9. QED
    BY <1>6, <2>3, <2>5, <2>8
<1>7. CASE ~r.lost /\ f.bit \in Announced(w) /\ f.width = 0 /\ digits
  <2>1. Take(w, r, f) = [r EXCEPT !.at = r.at + 3 + Number(cs),
                                  !.s[f.member] = Chars(w.text, r.at + 3, Number(cs))]
    <3>1. ~(f.width > 0)
      BY <1>7
    <3>2. QED
      BY <1>3, <1>7, <3>1, Zenon DEF Take
  <2>2. /\ Chars(w.text, r.at + 3, Number(cs)) \in Text
        /\ Length(Chars(w.text, r.at + 3, Number(cs))) <= Number(cs)
        /\ Length(Chars(w.text, r.at + 3, Number(cs))) \in Nat
    <3>1. r.at + 3 \in Nat \ {0} /\ Number(cs) \in Nat
      BY <1>1, <1>4, <1>7
    <3>2. QED
      BY <1>1, <3>1, CharsIs, TextIs
  <2>3. Take(w, r, f) = [at |-> r.at + 3 + Number(cs), lost |-> FALSE,
                         s |-> [r.s EXCEPT ![f.member] = Chars(w.text, r.at + 3, Number(cs))]]
    BY <1>1, <1>7, <2>1
  <2>4. /\ r.at + 3 + Number(cs) \in Nat \ {0}
        /\ [r.s EXCEPT ![f.member] = Chars(w.text, r.at + 3, Number(cs))] \in [Members(k) -> Text]
    BY <1>1, <1>4, <1>7, <2>2, SMTT(40)
  <2>5. Take(w, r, f) \in Reader(k)
    BY <2>3, <2>4 DEF Reader
  <2>6. /\ Take(w, r, f).s = [r.s EXCEPT ![f.member] = Chars(w.text, r.at + 3, Number(cs))]
        /\ Length(Chars(w.text, r.at + 3, Number(cs))) <= 999
    BY <1>4, <1>7, <2>2, <2>3
  <2>6a. Longest(f) = 999
    BY <1>7 DEF Longest
  <2>7. Changes(r.s, Take(w, r, f).s, f)
    BY <2>2, <2>6, <2>6a DEF Changes
  <2>8. ~(f.width > 0) /\ ~(r.lost \/ f.bit \notin Announced(w))
    BY <1>7
  <2>9. QED
    BY <2>3, <2>5, <2>7, <2>8, Zenon
<1>8. CASE ~r.lost /\ f.bit \in Announced(w) /\ f.width = 0 /\ ~digits
  <2>1. Take(w, r, f) = [r EXCEPT !.lost = TRUE]
    <3>1. ~(f.width > 0)
      BY <1>8
    <3>2. QED
      BY <1>3, <1>8, <3>1, Zenon DEF Take
  <2>2. Take(w, r, f) = [at |-> r.at, s |-> r.s, lost |-> TRUE]
    BY <1>1, <2>1
  <2>3. Take(w, r, f) \in Reader(k) /\ Take(w, r, f).s = r.s
    BY <1>1, <2>2 DEF Reader
  <2>4. QED
    BY <1>8, <2>3 DEF Changes
<1>9. QED
  BY <1>1, <1>5, <1>6, <1>7, <1>8

\* The recursion of Reading defines it, one field after the other.
LEMMA ReadingIs ==
  ASSUME NEW k, NEW U \in Seq(FieldType), \A j \in 1 .. Length(U) : U[j].member \in Members(k),
         NEW w \in Message
  PROVE  /\ Reading(U, k, w)[0] = [at |-> 1, s |-> Cleared(k), lost |-> FALSE]
         /\ \A j \in 0 .. Length(U) : Reading(U, k, w)[j] \in Reader(k)
         /\ \A j \in 1 .. Length(U) : Reading(U, k, w)[j] = Take(w, Reading(U, k, w)[j - 1], U[j])
<1> DEFINE N == Length(U)
           v == [at |-> 1, s |-> Cleared(k), lost |-> FALSE]
           V == Reader(k)
           g == [j \in 1 .. N |-> [r \in V |-> Take(w, r, U[j])]]
           Is(f) == f = [i \in 0 .. N |-> IF i = 0 THEN v ELSE Take(w, f[i - 1], U[i])]
<1>1. N \in Nat /\ \A j \in 1 .. N : U[j] \in FieldType /\ U[j].member \in Members(k)
  BY TableIs
<1>2. v \in V
  BY JoinedToNothing, EmptySeq DEF Reader, Cleared, Text
<1>3. \A j \in 1 .. N, r \in V : Take(w, r, U[j]) \in V
  BY <1>1, TakeIs
<1> HIDE DEF V
<1>4. g \in [1 .. N -> [V -> V]]
  BY <1>3
<1>5. \E f : Is(f)
  <2> HIDE DEF N, v
  <2>1. PICK f \in [0 .. N -> V] : f[0] = v /\ \A i \in 1 .. N : f[i] = g[i][f[i - 1]]
    <3>1. AreSteps(g, N, V)
      BY <1>4 DEF AreSteps
    <3> HIDE DEF g
    <3>2. \E f : IsRecursion(f, N, V, v, g)
      BY <1>1, <1>2, <3>1, RecursionExists
    <3>3. QED
      BY <3>2 DEF IsRecursion
  <2>2. \A i \in 0 .. N : f[i] = IF i = 0 THEN v ELSE Take(w, f[i - 1], U[i])
    <3>1. TAKE i \in 0 .. N
    <3>2. CASE i = 0
      BY <2>1, <3>2
    <3>3. CASE i # 0
      <4>1. i \in 1 .. N /\ i - 1 \in 0 .. N
        BY <1>1, <3>3
      <4>2. f[i - 1] \in V
        BY <4>1
      <4>3. f[i] = g[i][f[i - 1]]
        BY <2>1, <4>1
      <4>4. QED
        BY <3>3, <4>1, <4>2, <4>3
    <3>4. QED
      BY <3>2, <3>3
  <2>3. Is(f)
    BY <2>1, <2>2
  <2>4. QED
    BY <2>3
<1>6. Is(Reading(U, k, w))
  BY <1>5 DEF Reading, Length
<1> HIDE DEF v
<1>7. \A i \in 0 .. N : Reading(U, k, w)[i] =
                          IF i = 0 THEN v ELSE Take(w, Reading(U, k, w)[i - 1], U[i])
  BY <1>6
<1>8. \A i \in 1 .. N : i \in 0 .. N /\ i # 0 /\ 0 \in 0 .. N
  BY <1>1
<1>9. 0 \in 0 .. N
  BY <1>1
<1>10. \A i \in 1 .. N : Reading(U, k, w)[i] = Take(w, Reading(U, k, w)[i - 1], U[i])
  BY <1>7, <1>8
<1>11. \A i \in 0 .. N : Reading(U, k, w)[i] \in V
  <2> DEFINE E == {i \in Nat : Reading(U, k, w)[i] \in V}
  <2>1. 0 \in E
    BY <1>2, <1>7, <1>9
  <2>2. ASSUME NEW i \in 0 .. N - 1, i \in E PROVE i + 1 \in E
    <3>1. i + 1 \in 1 .. N /\ (i + 1) - 1 = i
      BY <1>1
    <3>2. Reading(U, k, w)[i + 1] = Take(w, Reading(U, k, w)[i], U[i + 1])
      BY <1>10, <3>1
    <3>3. QED
      BY <1>3, <2>2, <3>1, <3>2
  <2> HIDE DEF E
  <2>3. 0 .. N \subseteq E
    BY <1>1, <2>1, <2>2, InductionUpTo
  <2>4. QED
    BY <2>3 DEF E
<1>12. QED
  BY <1>7, <1>9, <1>10, <1>11 DEF v, V

\* A field whose characters stand where the reader stands is read.
LEMMA ReadsField ==
  ASSUME NEW k, NEW f \in FieldType, f.member \in Members(k), NEW r \in Reader(k), ~r.lost,
         NEW w \in Message, f.bit \in Announced(w),
         NEW v, Fills(v, f), v # <<>>, NEW P \in Text, NEW Q, Q = Then(P, Piece(v, f)),
         r.at = Length(P) + 1, Begins(w.text, Q)
  PROVE  Take(w, r, f) = [at |-> Length(Q) + 1, lost |-> FALSE, s |-> [r.s EXCEPT ![f.member] = v]]
<1> DEFINE x == Piece(v, f)
           n == Length(P)
           t == w.text
<1>1. n \in Nat /\ t \in Text /\ v \in Text /\ Length(t) \in Nat /\ Length(v) \in Nat /\ f.width \in 0 .. 20
  BY TextIs DEF Message, Fills, FieldType
<1>2. /\ x \in Text
      /\ f.width > 0 => x = v /\ Length(v) = f.width
      /\ f.width = 0 => /\ Length(v) \in 1 .. 999 /\ Length(x) = 3 + Length(v)
                        /\ \A i \in 1 .. 3 : x[i] = Lll(Length(v))[i]
                        /\ \A i \in 1 .. Length(v) : x[3 + i] = v[i]
  BY PieceTyped
<1>3. Length(x) \in Nat /\ Length(Q) = n + Length(x) /\ \A i \in 1 .. Length(x) : Q[n + i] = x[i]
  BY <1>2, JoinedText, TextIs
<1> HIDE DEF x, n
<1>4. Length(Q) <= Length(t) /\ \A i \in 1 .. Length(Q) : t[i] = Q[i]
  BY DEF Begins
<1>5. \A i \in 1 .. Length(x) : t[n + i] = x[i]
  <2>1. \A i \in 1 .. Length(x) : n + i \in 1 .. Length(Q)
    BY <1>1, <1>3
  <2>2. QED
    BY <1>3, <1>4, <2>1
<1>6. r.at = n + 1
  BY DEF n
<1> HIDE DEF t
<1>7. CASE f.width > 0
  <2>1. Stands(t, n + 1, v) /\ (n + 1) + Length(v) <= Length(t) + 1
    <3>1. \A i \in 1 .. Length(v) : ((n + 1) + i) - 1 = n + i
      BY <1>1
    <3>2. QED
      BY <1>1, <1>2, <1>3, <1>4, <1>5, <1>7, <3>1 DEF Stands
  <2>2. Chars(t, n + 1, Length(v)) = v
    BY <1>1, <2>1, CharsFinds
  <2>3. Take(w, r, f) = [at |-> (n + 1) + f.width, lost |-> FALSE,
                         s |-> [r.s EXCEPT ![f.member] = Chars(t, n + 1, f.width)]]
    BY <1>6, <1>7, TakeIs DEF t
  <2>4. (n + 1) + f.width = Length(Q) + 1 /\ f.width = Length(v)
    BY <1>1, <1>2, <1>3, <1>7
  <2>5. QED
    BY <2>2, <2>3, <2>4
<1>8. CASE f.width = 0
  <2> DEFINE z == Lll(Length(v))
  <2>1. z \in Text /\ Length(z) = 3 /\ (\A i \in 1 .. 3 : IsDigit(z[i])) /\ Number(z) = Length(v)
    <3>1. Length(v) \in 0 .. 999
      BY <1>2, <1>8
    <3>2. QED
      BY <3>1, LllIs, ZenonT(90)
  <2>2. x[1] = z[1] /\ x[2] = z[2] /\ x[3] = z[3] /\ \A i \in 1 .. Length(v) : x[3 + i] = v[i]
    BY <1>2, <1>8
  <2> HIDE DEF z
  <2>3. Stands(t, n + 1, z) /\ (n + 1) + Length(z) <= Length(t) + 1
    <3>1. \A i \in 1 .. 3 : ((n + 1) + i) - 1 = n + i /\ i \in 1 .. Length(x) /\ (i = 1 \/ i = 2 \/ i = 3)
      BY <1>1, <1>2, <1>8
    <3>2. \A i \in 1 .. 3 : t[((n + 1) + i) - 1] = z[i]
      BY <1>5, <2>2, <3>1
    <3>3. (n + 1) + 3 <= Length(t) + 1
      BY <1>1, <1>2, <1>3, <1>4, <1>8
    <3>4. QED
      BY <2>1, <3>2, <3>3 DEF Stands
  <2>4. Chars(t, n + 1, 3) = z
    <3>1. Chars(t, n + 1, Length(z)) = z
      BY <1>1, <2>1, <2>3, CharsFinds
    <3>2. QED
      BY <2>1, <3>1
  <2>5. Stands(t, n + 4, v) /\ (n + 4) + Length(v) <= Length(t) + 1
    <3>1. \A i \in 1 .. Length(v) : ((n + 4) + i) - 1 = n + (3 + i) /\ 3 + i \in 1 .. Length(x)
      BY <1>1, <1>2, <1>8
    <3>2. \A i \in 1 .. Length(v) : t[((n + 4) + i) - 1] = v[i]
      BY <1>5, <2>2, <3>1
    <3>3. (n + 4) + Length(v) <= Length(t) + 1
      BY <1>1, <1>2, <1>3, <1>4, <1>8
    <3>4. QED
      BY <3>2, <3>3 DEF Stands
  <2>6. Chars(t, n + 4, Length(v)) = v
    BY <1>1, <2>5, CharsFinds
  <2>7. Take(w, r, f) = [at |-> r.at + 3 + Number(z), lost |-> FALSE,
                         s |-> [r.s EXCEPT ![f.member] = Chars(t, r.at + 3, Number(z))]]
    <3>1. z = Chars(w.text, r.at, 3) /\ \A i \in 1 .. Length(z) : IsDigit(z[i])
      BY <1>6, <2>1, <2>4 DEF t
    <3>2. QED
      BY <1>8, <3>1, TakeIs DEF t
  <2>8. r.at + 3 + Number(z) = Length(Q) + 1 /\ Number(z) = Length(v) /\ r.at + 3 = n + 4
    BY <1>1, <1>2, <1>3, <1>6, <1>8, <2>1
  <2>9. QED
    BY <2>6, <2>7, <2>8
<1>9. QED
  BY <1>1, <1>7, <1>8, SMTT(40)

\* A field with a length, a text that lost up to four characters at its end,
\* and what a reader holds after reading something into one member.
IsCounted(f) == f.width = 0
Shortened(t, u) == Begins(u, t) /\ \E c \in 1 .. 4 : Length(t) = Length(u) - c
HasRead(r, s, m) == ~r.lost /\ \E u : r.s = [s EXCEPT ![m] = u]

\* A counted field that lost up to four characters is read as a shorter one,
\* whether they were of its value or of its length.
LEMMA ReadsCutField ==
  ASSUME NEW k, NEW f \in FieldType, f.member \in Members(k), NEW r \in Reader(k), ~r.lost,
         NEW w \in Message, f.bit \in Announced(w), IsCounted(f),
         NEW v, Fills(v, f), v # <<>>, NEW P \in Text, NEW Q, Q = Then(P, Piece(v, f)),
         r.at = Length(P) + 1, Shortened(w.text, Q)
  PROVE  HasRead(Take(w, r, f), r.s, f.member)
<1> DEFINE x == Piece(v, f)
           n == Length(P)
           t == w.text
           l == Length(v)
           z == Lll(l)
           y == Chars(t, n + 1, 3)
<1>0. f.width = 0
  BY DEF IsCounted
<1>0a. PICK c \in 1 .. 4 : Length(t) = Length(Q) - c
  BY DEF Shortened
<1>0b. Begins(Q, t)
  BY DEF Shortened
<1>1. n \in Nat /\ t \in Text /\ v \in Text /\ Length(t) \in Nat
  BY TextIs DEF Message, Fills
<1>2. /\ x \in Text /\ l \in 1 .. 999 /\ Length(x) = 3 + l
      /\ \A i \in 1 .. 3 : x[i] = z[i]
  BY <1>0, CountedPiece
<1>3. Length(Q) = n + (3 + l) /\ \A i \in 1 .. Length(x) : Q[n + i] = x[i]
  BY <1>2, JoinedText, SMTT(40)
<1>4. \A i \in 1 .. 3 : IsDigit(z[i])
  <2>1. l \in 0 .. 999
    BY <1>2
  <2>2. QED
    BY <2>1, LllIs
<1> HIDE DEF x, n, z, l
<1>5. Length(t) = (n + (3 + l)) - c /\ \A i \in 1 .. Length(t) : t[i] = Q[i]
  BY <1>0a, <1>0b, <1>3 DEF Begins
<1>6. r.at = n + 1
  BY DEF n
<1> HIDE DEF t
<1>7. y \in Text /\ Length(y) \in 0 .. 3 /\ \A i \in 1 .. Length(y) : y[i] = t[n + i] /\ n + i <= Length(t)
  <2>1. n <= Length(t)
    BY <1>1, <1>2, <1>5
  <2>2. QED
    BY <1>1, <2>1, ThreeChars
<1> HIDE DEF y
<1>8. \A i \in 1 .. Length(y) : IsDigit(y[i])
  <2>1. TAKE i \in 1 .. Length(y)
  <2>2. i \in 1 .. 3 /\ n + i \in 1 .. Length(t) /\ i \in 1 .. Length(x)
    BY <1>1, <1>2, <1>7
  <2>3. y[i] = t[n + i]
    BY <1>7, <2>2
  <2>4a. t[n + i] = Q[n + i] /\ Q[n + i] = x[i] /\ x[i] = z[i]
    BY <1>2, <1>3, <1>5, <2>2
  <2>4. QED
    BY <1>4, <2>2, <2>3, <2>4a
<1>9. Take(w, r, f) = [at |-> r.at + 3 + Number(y), lost |-> FALSE,
                       s |-> [r.s EXCEPT ![f.member] = Chars(w.text, r.at + 3, Number(y))]]
  <2>1. y = Chars(w.text, r.at, 3)
    BY <1>6 DEF y, t
  <2>2. QED
    BY <1>0, <1>8, <2>1, TakeIs
<1>10. ~Take(w, r, f).lost /\ Take(w, r, f).s = [r.s EXCEPT ![f.member] = Chars(w.text, r.at + 3, Number(y))]
  BY <1>9
<1>11. QED
  BY <1>10 DEF HasRead

-----------------------------------------------------------------------------
(* A writer and a reader side by side.                                     *)

Rising(T) == \A i, j \in 1 .. Length(T) : i < j => T[i].bit < T[j].bit

Belongs(T, k) == \A i \in 1 .. Length(T) : T[i].member \in Members(k)

\* What the writer of T sends the reader of U understands.
Understood(T, U, s) ==
  \A i \in 1 .. Length(T) : s[T[i].member] # <<>> => \E j \in 1 .. Length(U) : U[j] = T[i]

\* The second half of the bitmap is announced when it is used.
SecondHalf(T, s, B) ==
  /\ B \in SUBSET {1}
  /\ B = {1} \/ \A i \in 1 .. Length(T) : s[T[i].member] # <<>> => T[i].bit <= 64

\* Table T, with s written by it, and table U.
Told(T, U, k, s, B) ==
  /\ T \in Seq(FieldType) /\ U \in Seq(FieldType)
  /\ Rising(T) /\ Rising(U) /\ Belongs(T, k) /\ Belongs(U, k)
  /\ s \in [Members(k) -> Text] /\ AllFill(T, s)
  /\ Understood(T, U, s) /\ SecondHalf(T, s, B)

\* A list of numbers, each larger than the one before.
IsRising(t, N) == t \in [1 .. N -> Int] /\ \A a, b \in 1 .. N : a < b => t[a] < t[b]

\* Of two rising lists the first i and the first j are ahead of nothing.
Cuts(t, u, N, M, i, j) ==
  /\ \A a \in 1 .. i, b \in j + 1 .. M : t[a] < u[b]
  /\ \A a \in i + 1 .. N, b \in 1 .. j : u[b] < t[a]

\* Such a place comes after another one.
LEMMA CutsBefore ==
  ASSUME NEW N \in Nat, NEW M \in Nat, NEW t, NEW u, IsRising(t, N), IsRising(u, M),
         NEW i \in 0 .. N, NEW j \in 0 .. M, Cuts(t, u, N, M, i, j)
  PROVE  \/ i = 0 /\ j = 0
         \/ i > 0 /\ Cuts(t, u, N, M, i - 1, j) /\ \A b \in 1 .. M : u[b] # t[i]
         \/ j > 0 /\ Cuts(t, u, N, M, i, j - 1) /\ \A a \in 1 .. N : t[a] # u[j]
         \/ i > 0 /\ j > 0 /\ Cuts(t, u, N, M, i - 1, j - 1) /\ t[i] = u[j]
<1>1. /\ \A a \in 1 .. i, b \in j + 1 .. M : t[a] < u[b]
      /\ \A a \in i + 1 .. N, b \in 1 .. j : u[b] < t[a]
  BY DEF Cuts
<1>2. /\ \A a \in 1 .. N : t[a] \in Int
      /\ \A b \in 1 .. M : u[b] \in Int
      /\ \A a, b \in 1 .. N : a < b => t[a] < t[b]
      /\ \A a, b \in 1 .. M : a < b => u[a] < u[b]
  BY DEF IsRising
<1>7. CASE i > 0 /\ (j = 0 \/ t[i] > u[j])
  <2>1. \A b \in 1 .. M : u[b] # t[i]
    <3>1. TAKE b \in 1 .. M
    <3>2. i \in 1 .. N /\ i \in 1 .. i
      BY <1>7
    <3>3. CASE b > j
      BY <1>1, <1>2, <3>2, <3>3
    <3>4. CASE b <= j
      <4>1. j \in 1 .. M /\ (b < j \/ b = j)
        BY <3>4
      <4>2. u[b] <= u[j]
        BY <1>2, <4>1
      <4>3. QED
        BY <1>2, <1>7, <3>2, <4>1, <4>2
    <3>5. QED
      BY <3>3, <3>4
  <2>2. Cuts(t, u, N, M, i - 1, j)
    <3>1. \A a \in 1 .. i - 1, b \in j + 1 .. M : t[a] < u[b]
      BY <1>1
    <3>2. \A a \in (i - 1) + 1 .. N, b \in 1 .. j : u[b] < t[a]
      <4>1. TAKE a \in (i - 1) + 1 .. N, b \in 1 .. j
      <4>2. CASE a = i
        <5>1. j \in 1 .. M /\ b \in 1 .. M /\ (b < j \/ b = j) /\ i \in 1 .. N
          BY <1>7
        <5>2. u[b] <= u[j]
          BY <1>2, <5>1
        <5>3. QED
          BY <1>2, <1>7, <4>2, <5>1, <5>2
      <4>3. CASE a # i
        BY <1>1, <4>3
      <4>4. QED
        BY <4>2, <4>3
    <3>3. QED
      BY <3>1, <3>2 DEF Cuts
  <2>3. QED
    BY <1>7, <2>1, <2>2
<1>8. CASE j > 0 /\ (i = 0 \/ u[j] > t[i])
  <2>1. \A a \in 1 .. N : t[a] # u[j]
    <3>1. TAKE a \in 1 .. N
    <3>2. j \in 1 .. M /\ j \in 1 .. j
      BY <1>8
    <3>3. CASE a > i
      BY <1>1, <1>2, <3>2, <3>3
    <3>4. CASE a <= i
      <4>1. i \in 1 .. N /\ (a < i \/ a = i)
        BY <3>4
      <4>2. t[a] <= t[i]
        BY <1>2, <4>1
      <4>3. QED
        BY <1>2, <1>8, <3>2, <4>1, <4>2
    <3>5. QED
      BY <3>3, <3>4
  <2>2. Cuts(t, u, N, M, i, j - 1)
    <3>1. \A a \in i + 1 .. N, b \in 1 .. j - 1 : u[b] < t[a]
      BY <1>1
    <3>2. \A a \in 1 .. i, b \in (j - 1) + 1 .. M : t[a] < u[b]
      <4>1. TAKE a \in 1 .. i, b \in (j - 1) + 1 .. M
      <4>2. CASE b = j
        <5>1. i \in 1 .. N /\ a \in 1 .. N /\ (a < i \/ a = i) /\ j \in 1 .. M
          BY <1>8
        <5>2. t[a] <= t[i]
          BY <1>2, <5>1
        <5>3. QED
          BY <1>2, <1>8, <4>2, <5>1, <5>2
      <4>3. CASE b # j
        BY <1>1, <4>3
      <4>4. QED
        BY <4>2, <4>3
    <3>3. QED
      BY <3>1, <3>2 DEF Cuts
  <2>3. QED
    BY <1>8, <2>1, <2>2
<1>9. CASE i > 0 /\ j > 0 /\ t[i] = u[j]
  <2>0. i \in 1 .. N /\ j \in 1 .. M
    BY <1>9
  <2>1. \A a \in 1 .. i - 1, b \in (j - 1) + 1 .. M : t[a] < u[b]
    <3>1. TAKE a \in 1 .. i - 1, b \in (j - 1) + 1 .. M
    <3>2. CASE b = j
      BY <1>2, <1>9, <2>0, <3>2
    <3>3. CASE b # j
      BY <1>1, <3>3
    <3>4. QED
      BY <3>2, <3>3
  <2>2. \A a \in (i - 1) + 1 .. N, b \in 1 .. j - 1 : u[b] < t[a]
    <3>1. TAKE a \in (i - 1) + 1 .. N, b \in 1 .. j - 1
    <3>2. CASE a = i
      BY <1>2, <1>9, <2>0, <3>2
    <3>3. CASE a # i
      BY <1>1, <3>3
    <3>4. QED
      BY <3>2, <3>3
  <2>3. Cuts(t, u, N, M, i - 1, j - 1)
    BY <2>1, <2>2 DEF Cuts
  <2>4. QED
    BY <1>9, <2>3
<1>10. QED
  <2>1. i > 0 /\ j > 0 => i \in 1 .. N /\ j \in 1 .. M
    OBVIOUS
  <2>2. QED
    BY <1>2, <1>7, <1>8, <1>9, <2>1

\* The writer after i fields and the reader after j have the same bits ahead.
Bits(T) == [a \in 1 .. Length(T) |-> T[a].bit]
Aligned(T, U, i, j) == Cuts(Bits(T), Bits(U), Length(T), Length(U), i, j)

\* The bits of fields are numbers, and none is the first.
LEMMA BitNumbers == \A b \in 2 .. 128 : b \in Int /\ b \in 1 .. 128 /\ b # 1
OBVIOUS

\* A field's bit is such a number.
LEMMA BitIs ==
  ASSUME NEW f \in FieldType
  PROVE  f.bit \in 2 .. 128 /\ f.bit \in Int /\ f.bit # 1
<1>1. f.bit \in 2 .. 128
  BY DEF FieldType
<1>2. QED
  BY <1>1, BitNumbers

\* How the two came there.
LEMMA AlignedSteps ==
  ASSUME NEW T \in Seq(FieldType), NEW U \in Seq(FieldType), Rising(T), Rising(U),
         NEW i \in 0 .. Length(T), NEW j \in 0 .. Length(U), Aligned(T, U, i, j)
  PROVE  \/ i = 0 /\ j = 0
         \/ i > 0 /\ Aligned(T, U, i - 1, j) /\ \A b \in 1 .. Length(U) : U[b].bit # T[i].bit
         \/ j > 0 /\ Aligned(T, U, i, j - 1) /\ \A a \in 1 .. Length(T) : T[a].bit # U[j].bit
         \/ i > 0 /\ j > 0 /\ Aligned(T, U, i - 1, j - 1) /\ T[i].bit = U[j].bit
<1> DEFINE N == Length(T)
           M == Length(U)
           t == Bits(T)
           u == Bits(U)
<1>1. N \in Nat /\ M \in Nat
  BY TableIs
<1>2. (\A b \in 1 .. M : U[b].bit = u[b]) /\ (\A a \in 1 .. N : T[a].bit = t[a])
  BY DEF Bits
<1>3. IsRising(t, N) /\ IsRising(u, M)
  <2>1. (\A a \in 1 .. N : T[a] \in FieldType) /\ (\A b \in 1 .. M : U[b] \in FieldType)
    BY TableIs
  <2>3. (\A a \in 1 .. N : T[a].bit \in Int) /\ (\A b \in 1 .. M : U[b].bit \in Int)
    BY <2>1, BitIs
  <2>4. t \in [1 .. N -> Int] /\ u \in [1 .. M -> Int]
    BY <2>3 DEF Bits
  <2>5. (\A a, b \in 1 .. N : a < b => t[a] < t[b]) /\ (\A a, b \in 1 .. M : a < b => u[a] < u[b])
    BY DEF Rising, Bits
  <2>6. QED
    BY <2>4, <2>5 DEF IsRising
<1>4. Cuts(t, u, N, M, i, j)
  BY DEF Aligned
<1> HIDE DEF t, u, N, M
<1>5. i \in 0 .. N /\ j \in 0 .. M
  BY DEF N, M
<1>6. \/ i = 0 /\ j = 0
      \/ i > 0 /\ Cuts(t, u, N, M, i - 1, j) /\ \A b \in 1 .. M : u[b] # t[i]
      \/ j > 0 /\ Cuts(t, u, N, M, i, j - 1) /\ \A a \in 1 .. N : t[a] # u[j]
      \/ i > 0 /\ j > 0 /\ Cuts(t, u, N, M, i - 1, j - 1) /\ t[i] = u[j]
  BY <1>1, <1>3, <1>4, <1>5, CutsBefore, SMTT(40)
<1>7. (i > 0 => i \in 1 .. N) /\ (j > 0 => j \in 1 .. M)
  BY <1>1, <1>5
<1>8. \/ i = 0 /\ j = 0
      \/ i > 0 /\ Cuts(t, u, N, M, i - 1, j) /\ \A b \in 1 .. M : U[b].bit # T[i].bit
      \/ j > 0 /\ Cuts(t, u, N, M, i, j - 1) /\ \A a \in 1 .. N : T[a].bit # U[j].bit
      \/ i > 0 /\ j > 0 /\ Cuts(t, u, N, M, i - 1, j - 1) /\ T[i].bit = U[j].bit
  BY <1>2, <1>6, <1>7
<1>9. QED
  BY <1>8 DEF Aligned, t, u, N, M

\* A field of this bit is sent.
IsSent(T, s, b) == \E a \in 1 .. Length(T) : s[T[a].member] # <<>> /\ T[a].bit = b

\* Which fields a whole bitmap announces: those that were sent.
LEMMA AnnouncedIs ==
  ASSUME NEW T \in Seq(FieldType), NEW s, AllFill(T, s), NEW B \in SUBSET (1 .. 128), SecondHalf(T, s, B),
         NEW w, w.bits = Writing(T, B, s)[Length(T)].bits, NEW b \in 2 .. 128
  PROVE  b \in Announced(w) <=> IsSent(T, s, b)
<1> DEFINE N == Length(T)
           Sent(c) == \E a \in 1 .. N : s[T[a].member] # <<>> /\ T[a].bit = c
<1>1. N \in Nat /\ \A a \in 1 .. N : T[a] \in FieldType
  BY TableIs
<1>1a. N \in 0 .. N
  BY <1>1
<1>1b. \A a \in 1 .. N : T[a].bit \in 2 .. 128
  BY <1>1, BitIs
<1>1c. \A a \in 1 .. N : T[a].bit # 1
  BY <1>1, BitIs
<1>1d. B \in SUBSET {1}
  BY SMTT(40) DEF SecondHalf
<1>2. \A c \in 1 .. 128 : c \in w.bits <=> c \in B \/ Sent(c)
  <2>1. BitsSay(T, s, B)
    BY FillsIsText, WritingBits
  <2>2. QED
    BY <1>1a, <2>1 DEF BitsSay
<1>3. ~Sent(1)
  BY <1>1c
<1>4. B = {1} \/ (Sent(b) => b <= 64)
  BY DEF SecondHalf
<1> HIDE DEF Sent
<1>4a. b \in 1 .. 128 /\ b # 1
  BY BitNumbers
<1>4b. 1 \in 1 .. 128
  OBVIOUS
<1>5. b \in w.bits <=> Sent(b)
  BY <1>1d, <1>2, <1>4a
<1>6. 1 \in w.bits <=> B = {1}
  BY <1>1d, <1>2, <1>3, <1>4b
<1>7. b \in Announced(w) <=> Sent(b)
  <2>1. CASE 1 \in w.bits
    BY <1>5, <2>1 DEF Announced
  <2>2. CASE 1 \notin w.bits
    BY <1>4, <1>5, <1>6, <2>2 DEF Announced
  <2>3. QED
    BY <2>1, <2>2
<1>8. QED
  BY <1>7 DEF Sent, IsSent

\* What a reader knows after the first i fields.
Known(T, s, k, i) ==
  [m \in Members(k) |-> IF \E l \in 1 .. i : T[l].member = m THEN s[m] ELSE <<>>]

\* It grows by one member after the other.
LEMMA KnownGrows ==
  ASSUME NEW k, NEW T, NEW s, NEW i \in Nat \ {0}, T[i].member \in Members(k)
  PROVE  /\ Known(T, s, k, i) = [Known(T, s, k, i - 1) EXCEPT ![T[i].member] = s[T[i].member]]
         /\ s[T[i].member] = <<>> => Known(T, s, k, i) = Known(T, s, k, i - 1)
<1>1. \A l : l \in 1 .. i <=> l \in 1 .. i - 1 \/ l = i
  OBVIOUS
<1>2. \A m : (\E l \in 1 .. i : T[l].member = m) <=> (\E l \in 1 .. i - 1 : T[l].member = m) \/ T[i].member = m
  BY <1>1
<1> DEFINE In(j, m) == \E l \in 1 .. j : T[l].member = m
<1>3. /\ Known(T, s, k, i) = [m \in Members(k) |-> IF In(i, m) THEN s[m] ELSE <<>>]
      /\ Known(T, s, k, i - 1) = [m \in Members(k) |-> IF In(i - 1, m) THEN s[m] ELSE <<>>]
  BY DEF Known
<1>4. \A m : In(i, m) <=> In(i - 1, m) \/ T[i].member = m
  BY <1>2
<1> HIDE DEF In
<1>5. QED
  BY <1>3, <1>4

\* A table that rises has every bit once.
LEMMA BitOnce ==
  ASSUME NEW T \in Seq(FieldType), Rising(T), NEW i \in 1 .. Length(T), NEW j \in 1 .. Length(T),
         T[i].bit = T[j].bit
  PROVE  i = j
<1>1. T[i].bit \in Int /\ T[j].bit \in Int
  BY TableIs, BitIs
<1>2. (i < j => T[i].bit < T[j].bit) /\ (j < i => T[j].bit < T[i].bit)
  BY DEF Rising
<1>3. ~(i < j) /\ ~(j < i)
  BY <1>1, <1>2
<1>4. i \in Int /\ j \in Int
  OBVIOUS
<1>5. QED
  BY <1>3, <1>4

\* What the reader holds where the writer had written i fields.
Place(T, k, s, B, i) ==
  [at |-> Length(Writing(T, B, s)[i].text) + 1, lost |-> FALSE, s |-> Known(T, s, k, i)]

\* What the two share.
LEMMA ToldIs ==
  ASSUME NEW T, NEW U, NEW k, NEW s, NEW B, Told(T, U, k, s, B)
  PROVE  /\ T \in Seq(FieldType) /\ U \in Seq(FieldType) /\ Rising(T) /\ Rising(U)
         /\ AllFill(T, s) /\ SecondHalf(T, s, B) /\ B \in SUBSET (1 .. 128)
         /\ Length(T) \in Nat /\ Length(U) \in Nat
         /\ \A i \in 1 .. Length(T) :
              /\ T[i] \in FieldType /\ T[i].member \in Members(k) /\ Fills(s[T[i].member], T[i])
              /\ s[T[i].member] # <<>> => \E j \in 1 .. Length(U) : U[j] = T[i]
         /\ \A j \in 1 .. Length(U) : U[j] \in FieldType /\ U[j].member \in Members(k)
<1>1. /\ T \in Seq(FieldType) /\ U \in Seq(FieldType) /\ Rising(T) /\ Rising(U)
      /\ AllFill(T, s) /\ SecondHalf(T, s, B) /\ Belongs(T, k) /\ Belongs(U, k) /\ Understood(T, U, s)
  BY DEF Told
<1>2. B \in SUBSET (1 .. 128)
  BY <1>1 DEF SecondHalf
<1>3. /\ Length(T) \in Nat /\ \A i \in 1 .. Length(T) : T[i] \in FieldType
      /\ Length(U) \in Nat /\ \A i \in 1 .. Length(U) : U[i] \in FieldType
  BY <1>1, TableIs
<1>4. QED
  BY <1>1, <1>2, <1>3 DEF Belongs, Understood, AllFill

\* Message w is what was written of s by table T, or its beginning.
Arrived(w, T, s, B) ==
  /\ w \in Message /\ w.bits = Writing(T, B, s)[Length(T)].bits
  /\ Begins(Writing(T, B, s)[Length(T)].text, w.text)

\* The lengths of what is written grow, and it is one message's beginning.
LEMMA TextGrows ==
  ASSUME NEW T \in Seq(FieldType), NEW s, AllFill(T, s), NEW B \in SUBSET (1 .. 128), NEW i \in 1 .. Length(T)
  PROVE  /\ i \in 0 .. Length(T) /\ i - 1 \in 0 .. Length(T) /\ T[i] \in FieldType
         /\ Writing(T, B, s)[i].text \in Text /\ Writing(T, B, s)[i - 1].text \in Text
         /\ Writing(T, B, s)[i].text = Then(Writing(T, B, s)[i - 1].text, Piece(s[T[i].member], T[i]))
         /\ Length(Writing(T, B, s)[i - 1].text) \in Nat /\ Length(Writing(T, B, s)[i].text) \in Nat
         /\ Length(Writing(T, B, s)[i - 1].text) <= Length(Writing(T, B, s)[i].text)
<1> DEFINE x == Piece(s[T[i].member], T[i])
           p == Writing(T, B, s)[i - 1].text
           q == Writing(T, B, s)[i].text
<1>1. Length(T) \in Nat /\ T[i] \in FieldType /\ Fills(s[T[i].member], T[i])
  BY TableIs DEF AllFill
<1>2. i \in 0 .. Length(T) /\ i - 1 \in 0 .. Length(T)
  BY <1>1
<1>3. p \in Text /\ q \in Text /\ q = Then(p, x)
  BY <1>2, WritingText
<1>4. x \in Text
  BY <1>1, PieceTyped
<1> HIDE DEF p, q, x
<1>5. Length(p) \in Nat /\ Length(q) \in Nat /\ Length(x) \in Nat /\ Length(q) = Length(p) + Length(x)
  BY <1>3, <1>4, TextIs, JoinedText
<1>6. Length(p) <= Length(q)
  BY <1>5
<1>7. QED
  BY <1>1, <1>2, <1>3, <1>5, <1>6 DEF p, q, x

\* An empty field writes nothing.
LEMMA NothingWritten ==
  ASSUME NEW T, NEW U, NEW k, NEW s, NEW B, Told(T, U, k, s, B), NEW i \in 1 .. Length(T),
         s[T[i].member] = <<>>
  PROVE  Place(T, k, s, B, i) = Place(T, k, s, B, i - 1)
<1>1. /\ T \in Seq(FieldType) /\ AllFill(T, s) /\ B \in SUBSET (1 .. 128) /\ Length(T) \in Nat
      /\ T[i].member \in Members(k)
  BY ToldIs
<1>2. /\ Writing(T, B, s)[i].text = Then(Writing(T, B, s)[i - 1].text, Piece(s[T[i].member], T[i]))
      /\ Writing(T, B, s)[i - 1].text \in Text
  BY <1>1, TextGrows
<1>3. Piece(s[T[i].member], T[i]) = <<>>
  BY DEF Piece
<1>4. Writing(T, B, s)[i].text = Writing(T, B, s)[i - 1].text
  BY <1>2, <1>3, JoinedToNothing
<1>5. i \in Nat \ {0}
  BY <1>1
<1>6. Known(T, s, k, i) = Known(T, s, k, i - 1)
  BY <1>1, <1>5, KnownGrows
<1>7. QED
  BY <1>4, <1>6 DEF Place

\* What was not sent is not read.
LEMMA NotSentNotRead ==
  ASSUME NEW T, NEW U, NEW k, NEW s, NEW B, Told(T, U, k, s, B), NEW w, Arrived(w, T, s, B),
         NEW j \in 1 .. Length(U), \A a \in 1 .. Length(T) : T[a].bit = U[j].bit => s[T[a].member] = <<>>
  PROVE  Reading(U, k, w)[j] = Reading(U, k, w)[j - 1]
<1>1. /\ T \in Seq(FieldType) /\ AllFill(T, s) /\ B \in SUBSET (1 .. 128) /\ SecondHalf(T, s, B)
      /\ U \in Seq(FieldType) /\ Length(U) \in Nat
      /\ \A b \in 1 .. Length(U) : U[b] \in FieldType /\ U[b].member \in Members(k)
  BY ToldIs
<1>2. w \in Message /\ w.bits = Writing(T, B, s)[Length(T)].bits
  BY DEF Arrived
<1>3. U[j].bit \in 2 .. 128
  BY <1>1, BitIs
<1>4. U[j].bit \notin Announced(w)
  <2>1. ~IsSent(T, s, U[j].bit)
    BY DEF IsSent
  <2>2. QED
    BY <1>1, <1>2, <1>3, <2>1, AnnouncedIs
<1>5. j - 1 \in 0 .. Length(U)
  BY <1>1
<1>6. Reading(U, k, w)[j - 1] \in Reader(k) /\ Reading(U, k, w)[j] = Take(w, Reading(U, k, w)[j - 1], U[j])
  BY <1>1, <1>2, <1>5, ReadingIs
<1>7. U[j] \in FieldType /\ U[j].member \in Members(k)
  BY <1>1
<1>8. QED
  BY <1>2, <1>4, <1>6, <1>7, TakeIs

\* One text begins another when both begin a third one and it is no longer.
LEMMA BothBegin ==
  ASSUME NEW q, NEW t \in Text, NEW u \in Text, Begins(q, t), Begins(q, u), Length(u) <= Length(t)
  PROVE  Begins(t, u)
<1>1. Length(t) \in Nat /\ Length(u) \in Nat
  BY TextIs
<1>2. \A i \in 1 .. Length(u) : i \in 1 .. Length(t)
  BY <1>1
<1>3. QED
  BY <1>2 DEF Begins

\* What was sent, and arrived, is read.
LEMMA SentIsRead ==
  ASSUME NEW T, NEW U, NEW k, NEW s, NEW B, Told(T, U, k, s, B), NEW w, Arrived(w, T, s, B),
         NEW i \in 1 .. Length(T), NEW j \in 1 .. Length(U), U[j] = T[i], s[T[i].member] # <<>>,
         Length(Writing(T, B, s)[i].text) <= Length(w.text),
         Reading(U, k, w)[j - 1] = Place(T, k, s, B, i - 1)
  PROVE  Reading(U, k, w)[j] = Place(T, k, s, B, i)
<1> DEFINE f == T[i]
           v == s[f.member]
           P == Writing(T, B, s)[i - 1].text
           Q == Writing(T, B, s)[i].text
           r == Reading(U, k, w)[j - 1]
<1>1. /\ T \in Seq(FieldType) /\ AllFill(T, s) /\ B \in SUBSET (1 .. 128) /\ SecondHalf(T, s, B)
      /\ U \in Seq(FieldType) /\ Length(U) \in Nat /\ Length(T) \in Nat
      /\ \A b \in 1 .. Length(U) : U[b].member \in Members(k)
  BY ToldIs
<1>1a. f \in FieldType /\ f.member \in Members(k) /\ Fills(v, f)
  BY ToldIs
<1>1b. IsSent(T, s, f.bit)
  BY DEF IsSent
<1>2. /\ w \in Message /\ w.bits = Writing(T, B, s)[Length(T)].bits /\ w.text \in Text
      /\ Begins(Writing(T, B, s)[Length(T)].text, w.text)
  BY DEF Arrived, Message
<1>3. f.bit \in Announced(w)
  <2>1. f.bit \in 2 .. 128
    BY <1>1a, BitIs
  <2>2. QED
    BY <1>1, <1>1b, <1>2, <2>1, AnnouncedIs
<1>4. i \in 0 .. Length(T) /\ P \in Text /\ Q \in Text /\ Q = Then(P, Piece(v, f))
  BY <1>1, TextGrows
<1>5. Begins(w.text, Q)
  <2>1. Begins(Writing(T, B, s)[Length(T)].text, Q)
    BY <1>1, <1>4, WritingText
  <2>2. QED
    BY <1>2, <1>4, <2>1, BothBegin
<1>6. j - 1 \in 0 .. Length(U)
  BY <1>1
<1>7. r \in Reader(k) /\ Reading(U, k, w)[j] = Take(w, r, f)
  BY <1>1, <1>2, <1>6, ReadingIs, ZenonT(90)
<1>8. ~r.lost /\ r.at = Length(P) + 1 /\ r.s = Known(T, s, k, i - 1)
  BY DEF Place
<1>9. Known(T, s, k, i) = [Known(T, s, k, i - 1) EXCEPT ![f.member] = v]
  <2>1. i \in Nat \ {0}
    BY <1>1
  <2>2. QED
    BY <1>1a, <2>1, KnownGrows
<1>10. v # <<>>
  OBVIOUS
<1> HIDE DEF f, v, P, Q, r
<1>11. Take(w, r, f) = [at |-> Length(Q) + 1, lost |-> FALSE, s |-> [r.s EXCEPT ![f.member] = v]]
  BY <1>1a, <1>2, <1>3, <1>4, <1>5, <1>7, <1>8, <1>10, ReadsField
<1>12. QED
  BY <1>7, <1>8, <1>9, <1>11 DEF Place, Q

\* With so many fields on both sides together, the two agree.
AgreeUpTo(T, U, k, s, B, w, n) ==
  \A i \in 0 .. Length(T), j \in 0 .. Length(U) :
    (i + j <= n /\ Aligned(T, U, i, j) /\ Length(Writing(T, B, s)[i].text) <= Length(w.text)) =>
      Reading(U, k, w)[j] = Place(T, k, s, B, i)

\* Nothing is written and nothing read at first.
LEMMA AgreeAtFirst ==
  ASSUME NEW T, NEW U, NEW k, NEW s, NEW B, Told(T, U, k, s, B), NEW w, Arrived(w, T, s, B)
  PROVE  AgreeUpTo(T, U, k, s, B, w, 0)
<1>1. /\ T \in Seq(FieldType) /\ AllFill(T, s) /\ B \in SUBSET (1 .. 128) /\ U \in Seq(FieldType)
      /\ \A b \in 1 .. Length(U) : U[b].member \in Members(k)
  BY ToldIs
<1>2. w \in Message
  BY DEF Arrived
<1>3. Reading(U, k, w)[0] = [at |-> 1, s |-> Cleared(k), lost |-> FALSE]
  BY <1>1, <1>2, ReadingIs
<1>4. Length(Writing(T, B, s)[0].text) = 0
  BY <1>1, WritingText
<1>5. Known(T, s, k, 0) = Cleared(k)
  BY DEF Known, Cleared
<1>6. Place(T, k, s, B, 0) = [at |-> 1, s |-> Cleared(k), lost |-> FALSE]
  <2>1. Length(Writing(T, B, s)[0].text) + 1 = 1
    BY <1>4
  <2>2. QED
    BY <1>5, <2>1, Zenon DEF Place
<1>7. \A i \in 0 .. Length(T), j \in 0 .. Length(U) : i + j <= 0 => i = 0 /\ j = 0
  OBVIOUS
<1>8. QED
  BY <1>3, <1>6, <1>7 DEF AgreeUpTo

\* One more field on either side.
LEMMA AgreeNext ==
  ASSUME NEW T, NEW U, NEW k, NEW s, NEW B, Told(T, U, k, s, B), NEW w, Arrived(w, T, s, B),
         NEW n \in Nat, AgreeUpTo(T, U, k, s, B, w, n)
  PROVE  AgreeUpTo(T, U, k, s, B, w, n + 1)
<1> SUFFICES ASSUME NEW i \in 0 .. Length(T), NEW j \in 0 .. Length(U), i + j <= n + 1, Aligned(T, U, i, j),
                    Length(Writing(T, B, s)[i].text) <= Length(w.text)
             PROVE  Reading(U, k, w)[j] = Place(T, k, s, B, i)
  BY DEF AgreeUpTo
<1> DEFINE N == Length(T)
           M == Length(U)
           Short(a) == Length(Writing(T, B, s)[a].text) <= Length(w.text)
           R(b) == Reading(U, k, w)[b]
           P(a) == Place(T, k, s, B, a)
<1>1. /\ T \in Seq(FieldType) /\ U \in Seq(FieldType) /\ Rising(T) /\ Rising(U)
      /\ AllFill(T, s) /\ B \in SUBSET (1 .. 128) /\ N \in Nat /\ M \in Nat
  BY ToldIs
<1>2. \A a \in 0 .. N, b \in 0 .. M : a + b <= n /\ Aligned(T, U, a, b) /\ Short(a) => R(b) = P(a)
  BY DEF AgreeUpTo
<1>3. \A a \in 1 .. N : s[T[a].member] # <<>> => \E b \in 1 .. M : U[b] = T[a]
  BY ToldIs
<1>4. \A a \in 1 .. N : s[T[a].member] = <<>> => P(a) = P(a - 1)
  BY NothingWritten
<1>5. \A b \in 1 .. M : (\A a \in 1 .. N : T[a].bit = U[b].bit => s[T[a].member] = <<>>) => R(b) = R(b - 1)
  BY NotSentNotRead
<1>6. \A a \in 1 .. N : Short(a) => Short(a - 1)
  <2>1. TAKE a \in 1 .. N
  <2>2. Length(w.text) \in Nat
    BY TextIs DEF Arrived, Message
  <2>3. /\ Length(Writing(T, B, s)[a - 1].text) \in Nat /\ Length(Writing(T, B, s)[a].text) \in Nat
        /\ Length(Writing(T, B, s)[a - 1].text) <= Length(Writing(T, B, s)[a].text)
    BY <1>1, TextGrows
  <2>4. QED
    BY <2>2, <2>3
<1>7. \/ i = 0 /\ j = 0
      \/ i > 0 /\ Aligned(T, U, i - 1, j) /\ \A b \in 1 .. M : U[b].bit # T[i].bit
      \/ j > 0 /\ Aligned(T, U, i, j - 1) /\ \A a \in 1 .. N : T[a].bit # U[j].bit
      \/ i > 0 /\ j > 0 /\ Aligned(T, U, i - 1, j - 1) /\ T[i].bit = U[j].bit
  BY <1>1, AlignedSteps
<1>8. Short(i)
  OBVIOUS
<1> HIDE DEF Short, R, P
<1>9. /\ i > 0 => i \in 1 .. N /\ i - 1 \in 0 .. N
      /\ j > 0 => j \in 1 .. M /\ j - 1 \in 0 .. M
  BY <1>1
<1> HIDE DEF N, M
<1>10. CASE i = 0 /\ j = 0
  <2>1. i + j <= n
    BY <1>10
  <2>2. i \in 0 .. N /\ j \in 0 .. M
    BY DEF N, M
  <2>3. QED
    BY <1>2, <1>8, <2>1, <2>2 DEF R, P
<1>11. CASE i > 0 /\ Aligned(T, U, i - 1, j) /\ \A b \in 1 .. M : U[b].bit # T[i].bit
  <2>1. i \in 1 .. N /\ i - 1 \in 0 .. N /\ j \in 0 .. M
    BY <1>9, <1>11 DEF M
  <2>2. s[T[i].member] = <<>>
    BY <1>3, <1>11, <2>1
  <2>3. P(i) = P(i - 1) /\ Short(i - 1)
    BY <1>4, <1>6, <1>8, <2>1, <2>2
  <2>4. (i - 1) + j <= n
    OBVIOUS
  <2>5. R(j) = P(i - 1)
    BY <1>2, <1>11, <2>1, <2>3, <2>4
  <2>6. QED
    BY <2>3, <2>5 DEF R, P
<1>12. CASE j > 0 /\ Aligned(T, U, i, j - 1) /\ \A a \in 1 .. N : T[a].bit # U[j].bit
  <2>1. j \in 1 .. M /\ j - 1 \in 0 .. M /\ i \in 0 .. N
    BY <1>9, <1>12 DEF N
  <2>2. R(j) = R(j - 1)
    BY <1>5, <1>12, <2>1
  <2>3. i + (j - 1) <= n
    OBVIOUS
  <2>4. R(j - 1) = P(i)
    BY <1>2, <1>8, <1>12, <2>1, <2>3
  <2>5. QED
    BY <2>2, <2>4 DEF R, P
<1>13. CASE i > 0 /\ j > 0 /\ Aligned(T, U, i - 1, j - 1) /\ T[i].bit = U[j].bit
  <2>1. i \in 1 .. N /\ i - 1 \in 0 .. N /\ j \in 1 .. M /\ j - 1 \in 0 .. M
    BY <1>9, <1>13
  <2>2. (i - 1) + (j - 1) <= n
    OBVIOUS
  <2>3. R(j - 1) = P(i - 1)
    BY <1>2, <1>6, <1>8, <1>13, <2>1, <2>2
  <2>4. CASE s[T[i].member] = <<>>
    <3>1. \A a \in 1 .. N : T[a].bit = U[j].bit => a = i
      BY <1>1, <1>13, <2>1, BitOnce DEF N
    <3>2. R(j) = R(j - 1)
      BY <1>5, <2>1, <2>4, <3>1
    <3>3. P(i) = P(i - 1)
      BY <1>4, <2>1, <2>4
    <3>4. QED
      BY <2>3, <3>2, <3>3 DEF R, P
  <2>5. CASE s[T[i].member] # <<>>
    <3>1. PICK b \in 1 .. M : U[b] = T[i]
      BY <1>3, <2>1, <2>5
    <3>2. b = j
      BY <1>1, <1>13, <2>1, <3>1, BitOnce DEF M
    <3>3. U[j] = T[i]
      BY <3>1, <3>2
    <3>4. QED
      BY <1>8, <2>1, <2>3, <2>5, <3>3, SentIsRead DEF R, P, Short, N, M
  <2>6. QED
    BY <2>4, <2>5
<1>14. QED
  BY <1>7, <1>10, <1>11, <1>12, <1>13

\* Where the two have the same bits ahead they agree.
LEMMA WalksAgree ==
  ASSUME NEW T, NEW U, NEW k, NEW s, NEW B, Told(T, U, k, s, B), NEW w, Arrived(w, T, s, B),
         NEW i \in 0 .. Length(T), NEW j \in 0 .. Length(U), Aligned(T, U, i, j),
         Length(Writing(T, B, s)[i].text) <= Length(w.text)
  PROVE  Reading(U, k, w)[j] = Place(T, k, s, B, i)
<1> DEFINE E == {n \in Nat : AgreeUpTo(T, U, k, s, B, w, n)}
           z == i + j
<1>1. 0 \in E
  BY AgreeAtFirst
<1>2. ASSUME NEW n \in 0 .. z - 1, n \in E PROVE n + 1 \in E
  <2>1. n \in Nat /\ AgreeUpTo(T, U, k, s, B, w, n)
    BY <1>2
  <2>2. AgreeUpTo(T, U, k, s, B, w, n + 1)
    BY <2>1, AgreeNext
  <2>3. QED
    BY <2>1, <2>2
<1>3. z \in Nat /\ z \in 0 .. z /\ i + j <= z
  OBVIOUS
<1> HIDE DEF E, z
<1>4. z \in E
  BY <1>1, <1>2, <1>3, InductionUpTo
<1>5. QED
  BY <1>3, <1>4 DEF E, AgreeUpTo

\* The bits of a table that rises are a rising list.
LEMMA RisingBits ==
  ASSUME NEW T \in Seq(FieldType), Rising(T)
  PROVE  IsRising(Bits(T), Length(T)) /\ \A a \in 1 .. Length(T) : Bits(T)[a] = T[a].bit
<1>1. \A a \in 1 .. Length(T) : T[a].bit \in Int
  BY TableIs, BitIs
<1>2. Bits(T) \in [1 .. Length(T) -> Int] /\ \A a \in 1 .. Length(T) : Bits(T)[a] = T[a].bit
  BY <1>1 DEF Bits
<1>3. \A a, b \in 1 .. Length(T) : a < b => Bits(T)[a] < Bits(T)[b]
  BY <1>2 DEF Rising
<1>4. QED
  BY <1>2, <1>3 DEF IsRising

\* Two rising lists can be cut before what they share.
LEMMA CutsAt ==
  ASSUME NEW N \in Nat, NEW M \in Nat, NEW t, NEW u, IsRising(t, N), IsRising(u, M),
         NEW i \in 1 .. N, NEW j \in 1 .. M, t[i] = u[j]
  PROVE  Cuts(t, u, N, M, i - 1, j - 1)
<1>1. /\ \A a \in 1 .. N : t[a] \in Int
      /\ \A b \in 1 .. M : u[b] \in Int
      /\ \A a, b \in 1 .. N : a < b => t[a] < t[b]
      /\ \A a, b \in 1 .. M : a < b => u[a] < u[b]
  BY DEF IsRising
<1>2. ASSUME NEW a \in 1 .. i - 1, NEW b \in (j - 1) + 1 .. M PROVE t[a] < u[b]
  <2>1. a \in 1 .. N /\ a < i /\ b \in 1 .. M /\ (b = j \/ j < b)
    OBVIOUS
  <2>2. t[a] < t[i] /\ u[j] <= u[b]
    BY <1>1, <2>1
  <2>3. QED
    BY <1>1, <2>1, <2>2
<1>3. ASSUME NEW a \in (i - 1) + 1 .. N, NEW b \in 1 .. j - 1 PROVE u[b] < t[a]
  <2>1. b \in 1 .. M /\ b < j /\ a \in 1 .. N /\ (a = i \/ i < a)
    OBVIOUS
  <2>2. u[b] < u[j] /\ t[i] <= t[a]
    BY <1>1, <2>1
  <2>3. QED
    BY <1>1, <2>1, <2>2
<1>4. QED
  BY <1>2, <1>3 DEF Cuts

\* A writer and a reader are side by side before a field of both.
LEMMA AlignedAt ==
  ASSUME NEW T \in Seq(FieldType), NEW U \in Seq(FieldType), Rising(T), Rising(U),
         NEW i \in 1 .. Length(T), NEW j \in 1 .. Length(U), U[j] = T[i]
  PROVE  Aligned(T, U, i - 1, j - 1)
<1>1. Length(T) \in Nat /\ Length(U) \in Nat
  BY TableIs
<1>2. Bits(T)[i] = T[i].bit /\ Bits(U)[j] = T[i].bit
  BY RisingBits
<1>3. IsRising(Bits(T), Length(T)) /\ IsRising(Bits(U), Length(U))
  BY RisingBits
<1>4. Cuts(Bits(T), Bits(U), Length(T), Length(U), i - 1, j - 1)
  BY <1>1, <1>2, <1>3, CutsAt
<1>5. QED
  BY <1>4 DEF Aligned

\* A message that arrived whole is read as it was written.
LEMMA WholeIsRead ==
  ASSUME NEW T, NEW U, NEW k, NEW s, NEW B, Told(T, U, k, s, B)
  PROVE  /\ ~Parsed(U, k, Written(T, B, s)).lost
         /\ Parsed(U, k, Written(T, B, s)).s = Known(T, s, k, Length(T))
         /\ Written(T, B, s) \in Message
<1> DEFINE w == Written(T, B, s)
           N == Length(T)
           M == Length(U)
<1>1. /\ T \in Seq(FieldType) /\ AllFill(T, s) /\ B \in SUBSET (1 .. 128)
      /\ N \in Nat /\ M \in Nat
  BY ToldIs
<1>2. w = Writing(T, B, s)[N] /\ Parsed(U, k, w) = Reading(U, k, w)[M]
  BY DEF Written, Parsed, Length
<1> HIDE DEF w
<1>3. N \in 0 .. N /\ M \in 0 .. M
  BY <1>1
<1>4. w \in Message
  BY <1>1, <1>2, <1>3, FillsIsText, WritingIs
<1>5. Arrived(w, T, s, B)
  <2>1. w.text \in Text /\ Length(w.text) \in Nat
    BY <1>4, TextIs DEF Message
  <2>2. Begins(w.text, w.text)
    BY <2>1 DEF Begins
  <2>3. QED
    BY <1>2, <1>4, <2>2 DEF Arrived
<1>6. Length(Writing(T, B, s)[N].text) <= Length(w.text)
  BY <1>2, <1>4, TextIs DEF Message
<1>7. Aligned(T, U, N, M)
  <2>1. (\A a \in N + 1 .. N : FALSE) /\ (\A b \in M + 1 .. M : FALSE)
    BY <1>1
  <2>2. QED
    BY <2>1 DEF Aligned, Cuts
<1>8. Reading(U, k, w)[M] = Place(T, k, s, B, N)
  BY <1>3, <1>5, <1>6, <1>7, WalksAgree
<1>9. ~Place(T, k, s, B, N).lost /\ Place(T, k, s, B, N).s = Known(T, s, k, N)
  BY DEF Place
<1>10. QED
  BY <1>2, <1>4, <1>8, <1>9 DEF w

\* After its last field a table writes nothing.
LEMMA AfterTheLast ==
  ASSUME NEW T, NEW U, NEW k, NEW s, NEW B, Told(T, U, k, s, B), NEW i \in 1 .. Length(T),
         \A a \in i + 1 .. Length(T) : s[T[a].member] = <<>>
  PROVE  Place(T, k, s, B, Length(T)) = Place(T, k, s, B, i)
<1> DEFINE N == Length(T)
           P(a) == Place(T, k, s, B, a)
           E == {d \in Nat : P(i + d) = P(i)}
<1>1. N \in Nat
  BY ToldIs
<1>2. \A a \in i + 1 .. N : P(a) = P(a - 1)
  <2>1. TAKE a \in i + 1 .. N
  <2>2. a \in 1 .. N /\ s[T[a].member] = <<>>
    OBVIOUS
  <2>3. QED
    BY <2>2, NothingWritten
<1> HIDE DEF P
<1>3. 0 \in E
  BY <1>1
<1>4. ASSUME NEW d \in 0 .. (N - i) - 1, d \in E PROVE d + 1 \in E
  <2>1. i + (d + 1) \in i + 1 .. N /\ (i + (d + 1)) - 1 = i + d /\ d + 1 \in Nat
    BY <1>1
  <2>2. P(i + d) = P(i)
    BY <1>4
  <2>3. P(i + (d + 1)) = P(i)
    BY <1>2, <2>1, <2>2
  <2>4. QED
    BY <2>1, <2>3
<1>5. N - i \in Nat /\ N - i \in 0 .. N - i /\ i + (N - i) = N
  BY <1>1
<1> HIDE DEF E
<1>6. N - i \in E
  BY <1>3, <1>4, <1>5, InductionUpTo
<1>7. P(i + (N - i)) = P(i)
  BY <1>6 DEF E
<1>8. QED
  BY <1>5, <1>7 DEF P

\* Field i of a table is the last one sent.
IsLast(T, s, i) ==
  /\ s[T[i].member] # <<>>
  /\ \A a \in i + 1 .. Length(T) : s[T[a].member] = <<>>

\* What comes behind the last field sent is not read.
LEMMA NothingBehind ==
  ASSUME NEW T, NEW U, NEW k, NEW s, NEW B, Told(T, U, k, s, B), NEW w, Arrived(w, T, s, B),
         NEW i \in 1 .. Length(T), NEW j \in 1 .. Length(U), U[j] = T[i],
         IsLast(T, s, i)
  PROVE  Reading(U, k, w)[Length(U)] = Reading(U, k, w)[j]
<1> DEFINE N == Length(T)
           M == Length(U)
           R(b) == Reading(U, k, w)[b]
           E == {d \in Nat : R(j + d) = R(j)}
<1>1. /\ T \in Seq(FieldType) /\ U \in Seq(FieldType) /\ Rising(T) /\ Rising(U)
      /\ N \in Nat /\ M \in Nat
  BY ToldIs
<1>2. \A b \in j + 1 .. M : R(b) = R(b - 1)
  <2>1. TAKE b \in j + 1 .. M
  <2>2. b \in 1 .. M /\ j < b
    OBVIOUS
  <2>3. ASSUME NEW a \in 1 .. N, T[a].bit = U[b].bit PROVE s[T[a].member] = <<>>
    <3>1. T[i].bit < T[a].bit
      BY <2>2, <2>3 DEF Rising, Told
    <3>2. T[i].bit \in Int /\ T[a].bit \in Int /\ (a < i => T[a].bit < T[i].bit)
      BY <1>1, TableIs, BitIs DEF Rising
    <3>3. ~(a < i) /\ a # i
      BY <3>1, <3>2
    <3>4. a \in i + 1 .. N
      BY <1>1, <3>3
    <3>5. QED
      BY <3>4 DEF IsLast
  <2>4. QED
    BY <2>2, <2>3, NotSentNotRead
<1> HIDE DEF R
<1>3. 0 \in E
  BY <1>1
<1>4. ASSUME NEW d \in 0 .. (M - j) - 1, d \in E PROVE d + 1 \in E
  <2>1. j + (d + 1) \in j + 1 .. M /\ (j + (d + 1)) - 1 = j + d /\ d + 1 \in Nat
    BY <1>1
  <2>2. R(j + d) = R(j)
    BY <1>4
  <2>3. R(j + (d + 1)) = R(j)
    BY <1>2, <2>1, <2>2
  <2>4. QED
    BY <2>1, <2>3
<1>5. M - j \in Nat /\ M - j \in 0 .. M - j /\ j + (M - j) = M
  BY <1>1
<1> HIDE DEF E
<1>6. M - j \in E
  BY <1>3, <1>4, <1>5, InductionUpTo
<1>7. R(j + (M - j)) = R(j)
  BY <1>6 DEF E
<1>8. QED
  BY <1>5, <1>7 DEF R

\* A message that lost up to four characters of a counted field, the last one
\* sent, is read as it was written but for this field.
LEMMA CutIsRead ==
  ASSUME NEW T, NEW U, NEW k, NEW s, NEW B, Told(T, U, k, s, B), NEW w, Arrived(w, T, s, B),
         NEW i \in 1 .. Length(T), IsLast(T, s, i), IsCounted(T[i]), Shortened(w.text, Written(T, B, s).text)
  PROVE  HasRead(Parsed(U, k, w), Known(T, s, k, Length(T)), T[i].member)
<1> DEFINE f == T[i]
           v == s[f.member]
           N == Length(T)
           P == Writing(T, B, s)[i - 1].text
           Q == Writing(T, B, s)[i].text
<1>1. /\ T \in Seq(FieldType) /\ AllFill(T, s) /\ B \in SUBSET (1 .. 128) /\ SecondHalf(T, s, B)
      /\ U \in Seq(FieldType) /\ Length(U) \in Nat /\ N \in Nat
      /\ Rising(T) /\ Rising(U)
  BY ToldIs
<1>1a. f \in FieldType /\ f.member \in Members(k) /\ Fills(v, f) 
  BY ToldIs
<1>1e. v # <<>>
  BY DEF IsLast
<1>1d. f.width = 0
  BY DEF IsCounted
<1>1b. \A b \in 1 .. Length(U) : U[b].member \in Members(k)
  BY ToldIs
<1>1c. IsSent(T, s, f.bit)
  BY DEF IsSent, IsLast
<1>2. /\ w \in Message /\ w.bits = Writing(T, B, s)[N].bits /\ w.text \in Text
      /\ Begins(Writing(T, B, s)[N].text, w.text)
  BY DEF Arrived, Message
<1>3. f.bit \in Announced(w)
  <2>1. f.bit \in 2 .. 128
    BY <1>1a, BitIs
  <2>2. QED
    BY <1>1, <1>1c, <1>2, <2>1, AnnouncedIs
<1>4. i \in 0 .. N /\ i - 1 \in 0 .. N /\ P \in Text /\ Q \in Text /\ Q = Then(P, Piece(v, f))
  BY <1>1, TextGrows
<1>5. Place(T, k, s, B, N) = Place(T, k, s, B, i)
  BY AfterTheLast DEF IsLast
<1>6. Known(T, s, k, N) = Known(T, s, k, i) /\ Length(Writing(T, B, s)[N].text) = Length(Q)
  <2>1. /\ Length(Writing(T, B, s)[N].text) + 1 = Length(Q) + 1
        /\ Known(T, s, k, N) = Known(T, s, k, i)
    BY <1>5 DEF Place
  <2>2. N \in 0 .. N
    BY <1>1
  <2>3. Writing(T, B, s)[N].text \in Text
    BY <1>1, <2>2, WritingText
  <2>4. Length(Q) \in Int /\ Length(Writing(T, B, s)[N].text) \in Int
    BY <1>4, <2>3, TextIs
  <2>5. QED
    BY <2>1, <2>4
<1>7. Writing(T, B, s)[N].text = Q
  <2>1. N \in 0 .. N
    BY <1>1
  <2>2. Begins(Writing(T, B, s)[N].text, Q) /\ Writing(T, B, s)[N].text \in Text
    BY <1>1, <1>4, <2>1, WritingText
  <2>3. \A a \in 1 .. Length(Q) : Writing(T, B, s)[N].text[a] = Q[a]
    BY <2>2 DEF Begins
  <2>4. QED
    BY <1>4, <1>6, <2>2, <2>3, SameText
<1>8. Written(T, B, s).text = Q
  BY <1>7 DEF Written, Length
<1>9. PICK j \in 1 .. Length(U) : U[j] = f
  BY <1>1e, ToldIs
<1>9a. PICK c \in 1 .. 4 : Length(w.text) = Length(Q) - c
  BY <1>8 DEF Shortened
<1>10. j \in 0 .. Length(U) /\ j - 1 \in 0 .. Length(U)
  BY <1>1
<1>11. Aligned(T, U, i - 1, j - 1)
  BY <1>1, <1>9, AlignedAt
<1>12. Length(P) <= Length(w.text)
  <2> DEFINE x == Piece(v, f)
  <2>0. Q = Then(P, x)
    BY <1>4
  <2> HIDE DEF P, Q, v, f
  <2>1. Piece(v, f) \in Text /\ Length(Piece(v, f)) = 3 + Length(v) /\ Length(v) \in 1 .. 999
    BY <1>1a, <1>1d, <1>1e, CountedPiece
  <2> HIDE DEF x
  <2>2. Length(Q) = Length(P) + Length(x)
    <3>1. x \in Text
      BY <2>1 DEF x
    <3>2. QED
      BY <1>4, <2>0, <3>1, JoinedText
  <2>3. Length(w.text) = Length(Q) - c
    BY <1>9a
  <2>4. Length(P) \in Nat
    BY <1>4, TextIs
  <2>5. QED
    BY <2>1, <2>2, <2>3, <2>4, SMTT(40) DEF x
<1> DEFINE r == Reading(U, k, w)[j - 1]
<1>13. r = Place(T, k, s, B, i - 1)
  BY <1>4, <1>10, <1>11, <1>12, WalksAgree
<1>14. r \in Reader(k) /\ Reading(U, k, w)[j] = Take(w, r, f)
  BY <1>1, <1>1b, <1>2, <1>9, <1>10, ReadingIs, ZenonT(90)
<1>15. ~r.lost /\ r.at = Length(P) + 1 /\ r.s = Known(T, s, k, i - 1)
  BY <1>13 DEF Place
<1>16. Shortened(w.text, Q) /\ IsCounted(f)
  BY <1>8
<1>17. Known(T, s, k, i) = [Known(T, s, k, i - 1) EXCEPT ![f.member] = v]
  <2>1. i \in Nat \ {0}
    BY <1>1
  <2>2. QED
    BY <1>1a, <2>1, KnownGrows
<1>18. Reading(U, k, w)[Length(U)] = Reading(U, k, w)[j]
  BY <1>9, NothingBehind
<1> HIDE DEF f, v, P, Q, r
<1>19. HasRead(Take(w, r, f), r.s, f.member)
  BY <1>1a, <1>1e, <1>2, <1>3, <1>4, <1>14, <1>15, <1>16, ReadsCutField
<1>20. PICK u : Take(w, r, f).s = [r.s EXCEPT ![f.member] = u]
  BY <1>19 DEF HasRead
<1>21. Parsed(U, k, w) = Take(w, r, f)
  BY <1>14, <1>18 DEF Parsed, Length
<1>22. [r.s EXCEPT ![f.member] = u] = [Known(T, s, k, N) EXCEPT ![f.member] = u]
  <2>1. Known(T, s, k, N) = [r.s EXCEPT ![f.member] = v]
    BY <1>6, <1>15, <1>17
  <2>2. r.s \in [Members(k) -> Text]
    BY <1>14 DEF Reader
  <2>3. QED
    BY <1>1a, <2>1, <2>2
<1>23. QED
  BY <1>19, <1>20, <1>21, <1>22 DEF f, HasRead

-----------------------------------------------------------------------------
(* What is read fits.                                                      *)

\* Every member of a structure is within its limit.
Within(s, k, limit) == \A m \in Members(k) : Length(s[m]) <= limit[m]

\* No field of the table can exceed its member.
Limited(U, limit) ==
  \A j \in 1 .. Length(U) : Longest(U[j]) <= limit[U[j].member]

\* One field keeps the limits.
LEMMA TakeFits ==
  ASSUME NEW k, NEW f \in FieldType, f.member \in Members(k), NEW r \in Reader(k), NEW w \in Message,
         NEW limit \in [Members(k) -> Nat], Within(r.s, k, limit),
         Longest(f) <= limit[f.member]
  PROVE  Within(Take(w, r, f).s, k, limit)
<1> DEFINE n == Longest(f)
           z == Take(w, r, f).s
<1>1. f.width \in 0 .. 20
  BY DEF FieldType
<1>1a. n \in Nat
  BY <1>1 DEF Longest
<1>2. z = r.s \/ \E v \in Text : z = [r.s EXCEPT ![f.member] = v] /\ Length(v) <= n
  <2>1. Changes(r.s, Take(w, r, f).s, f)
    BY TakeIs
  <2>2. QED
    BY <2>1 DEF Changes
<1>3. r.s \in [Members(k) -> Text]
  BY DEF Reader
<1>4. n <= limit[f.member] /\ limit[f.member] \in Nat
  OBVIOUS
<1> HIDE DEF n, z
<1>5. CASE z = r.s
  BY <1>5 DEF z
<1>6. CASE \E v \in Text : z = [r.s EXCEPT ![f.member] = v] /\ Length(v) <= n
  <2>1. PICK v \in Text : z = [r.s EXCEPT ![f.member] = v] /\ Length(v) <= n
    BY <1>6
  <2>2. Length(v) <= limit[f.member]
    BY <1>1a, <1>4, <2>1, TextIs
  <2>3. \A m \in Members(k) : z[m] = IF m = f.member THEN v ELSE r.s[m]
    BY <1>3, <2>1
  <2>4. \A m \in Members(k) : Length(z[m]) <= limit[m]
    BY <2>2, <2>3 DEF Within
  <2>5. QED
    BY <2>4 DEF Within, z
<1>7. QED
  BY <1>2, <1>5, <1>6

\* So does a whole table, whatever the message is.
LEMMA ReadingFits ==
  ASSUME NEW k, NEW U \in Seq(FieldType), Belongs(U, k), NEW w \in Message,
         NEW limit \in [Members(k) -> Nat], Limited(U, limit)
  PROVE  Parsed(U, k, w) \in Reader(k) /\ Within(Parsed(U, k, w).s, k, limit)
<1> DEFINE N == Length(U)
           R(j) == Reading(U, k, w)[j]
           E == {j \in Nat : Within(R(j).s, k, limit)}
<1>1. N \in Nat /\ \A j \in 1 .. N : U[j] \in FieldType /\ U[j].member \in Members(k)
  BY TableIs DEF Belongs
<1>2. /\ R(0) = [at |-> 1, s |-> Cleared(k), lost |-> FALSE]
      /\ \A j \in 0 .. N : R(j) \in Reader(k)
      /\ \A j \in 1 .. N : R(j) = Take(w, R(j - 1), U[j])
  BY <1>1, ReadingIs
<1>3. \A j \in 1 .. N : Longest(U[j]) <= limit[U[j].member]
  BY DEF Limited
<1> HIDE DEF N, R
<1>4. 0 \in E
  <2>1. \A m \in Members(k) : R(0).s[m] = <<>>
    BY <1>2 DEF Cleared
  <2>2. Length(<<>>) = 0
    BY TextIs, JoinedToNothing, EmptySeq DEF Text
  <2>3. \A m \in Members(k) : Length(R(0).s[m]) <= limit[m]
    BY <2>1, <2>2
  <2>4. QED
    BY <2>3 DEF Within
<1>5. ASSUME NEW j \in 0 .. N - 1, j \in E PROVE j + 1 \in E
  <2>1. j + 1 \in 1 .. N /\ (j + 1) - 1 = j /\ j \in 0 .. N /\ j + 1 \in Nat
    BY <1>1
  <2>2. R(j + 1) = Take(w, R(j), U[j + 1]) /\ R(j) \in Reader(k)
    BY <1>2, <2>1
  <2>3. Within(R(j).s, k, limit)
    BY <1>5
  <2>4. U[j + 1] \in FieldType /\ U[j + 1].member \in Members(k)
    BY <1>1, <2>1
  <2>5. Longest(U[j + 1]) <= limit[U[j + 1].member]
    BY <1>3, <2>1
  <2>6. Within(Take(w, R(j), U[j + 1]).s, k, limit)
    BY <2>2, <2>3, <2>4, <2>5, TakeFits
  <2>7. QED
    BY <2>1, <2>2, <2>6
<1> HIDE DEF E
<1>6. N \in 0 .. N
  BY <1>1
<1>6a. N \in E
  BY <1>1, <1>4, <1>5, <1>6, InductionUpTo
<1>7. Within(R(N).s, k, limit) /\ R(N) \in Reader(k)
  BY <1>2, <1>6, <1>6a DEF E
<1>8. Parsed(U, k, w) = R(N)
  BY DEF Parsed, R, N, Length
<1>9. QED
  BY <1>7, <1>8

-----------------------------------------------------------------------------
(* How the tables compare.                                                 *)

\* Bits that rise from one field to the next rise.
LEMMA RisesByStep ==
  ASSUME NEW T \in Seq(FieldType), NEW n \in Nat, Length(T) = n,
         \A i \in 1 .. n - 1 : T[i].bit < T[i + 1].bit
  PROVE  Rising(T)
<1>1. \A i \in 1 .. n : T[i].bit \in Int
  BY TableIs, BitIs
<1> SUFFICES ASSUME NEW i \in 1 .. n, NEW j \in 1 .. n, i < j PROVE T[i].bit < T[j].bit
  BY DEF Rising
<1> DEFINE E == {d \in Nat : i + 1 + d <= n => T[i].bit < T[i + 1 + d].bit}
<1>2. 0 \in E
  OBVIOUS
<1>3. ASSUME NEW d \in 0 .. (j - i - 1) - 1, d \in E PROVE d + 1 \in E
  <2>1. i + 1 + d \in 1 .. n - 1 /\ (i + 1 + d) + 1 = i + 1 + (d + 1) /\ d + 1 \in Nat
    <3>1. i \in Int /\ j \in Int /\ d \in Nat /\ i >= 1 /\ j <= n /\ d <= (j - i - 1) - 1
      OBVIOUS
    <3>2. i + 1 + d >= 1 /\ i + 1 + d <= n - 1
      BY <3>1
    <3>3. i + 1 + d \in 1 .. n - 1
      BY <3>1, <3>2
    <3>4. QED
      BY <3>1, <3>3
  <2>2. T[i].bit < T[i + 1 + d].bit
    BY <1>3, <2>1
  <2>3. T[i + 1 + d].bit < T[i + 1 + (d + 1)].bit
    BY <2>1
  <2>4. i + 1 + d \in 1 .. n /\ i + 1 + (d + 1) \in 1 .. n
    BY <2>1
  <2>5. T[i].bit \in Int /\ T[i + 1 + d].bit \in Int /\ T[i + 1 + (d + 1)].bit \in Int
    BY <1>1, <2>4
  <2>6. T[i].bit < T[i + 1 + (d + 1)].bit
    BY <2>2, <2>3, <2>5
  <2>7. QED
    BY <2>1, <2>6
<1>4. j - i - 1 \in Nat /\ j - i - 1 \in 0 .. j - i - 1 /\ i + 1 + (j - i - 1) = j
  OBVIOUS
<1> HIDE DEF E
<1>5. j - i - 1 \in E
  BY <1>2, <1>3, <1>4, InductionUpTo
<1>6. QED
  BY <1>4, <1>5 DEF E

\* The members of a kind, and those with a length.
LEMMA MembersIs ==
  ASSUME NEW k, Format(k) \in Seq(FieldType)
  PROVE  Members(k) = {Format(k)[i].member : i \in 1 .. Length(Format(k))}
<1>1. DOMAIN Format(k) = 1 .. Length(Format(k))
  BY LenProperties DEF Length
<1>2. QED
  BY <1>1 DEF Members, ToSet

\* What the terminal speaks of purchases and reversals, field by field.
FinSpoken ==
  <<Fixed(3, 6), Fixed(4, 12), Fixed(7, 10), Fixed(11, 6), Fixed(12, 6), Fixed(13, 4),
    Fixed(19, 3), Fixed(22, 3), Fixed(23, 3), Fixed(38, 6), Fixed(39, 2), Fixed(41, 16),
    Fixed(42, 20), Fixed(49, 3), Fixed(52, 16), Counted(55), Counted(60), Counted(61),
    Counted(62), Counted(63), Fixed(67, 2), Fixed(70, 3), Counted(90), Fixed(118, 2),
    Counted(120), Counted(121), Counted(123), Counted(124), Counted(125), Counted(127)>>
RevSpoken ==
  <<Fixed(3, 6), Fixed(4, 12), Fixed(7, 10), Fixed(11, 6), Fixed(12, 6), Fixed(13, 4),
    Fixed(22, 3), Fixed(23, 3), Fixed(38, 6), Fixed(39, 2), Fixed(41, 16), Fixed(42, 20),
    Fixed(49, 3), Counted(55), Counted(60), Counted(61), Counted(62), Counted(63),
    Fixed(70, 3), Counted(90), Fixed(118, 2), Counted(120), Counted(121), Counted(123),
    Counted(124), Counted(125), Counted(127)>>

\* A field is spoken as it is, but that of bit 118.
SpokenField(f) == IF f.bit = 118 THEN Fixed(118, 2) ELSE f

\* A table is spoken field by field.
IsSpoken(S, T, n) ==
  Len(T) = n /\ S = [i \in 1 .. n |-> S[i]] /\ \A i \in 1 .. n : SpokenField(T[i]) = S[i]

LEMMA SpokenIs ==
  ASSUME NEW T, NEW n, NEW S, IsSpoken(S, T, n)
  PROVE  Spoken(T) = S
<1>0. Len(T) = n /\ S = [i \in 1 .. n |-> S[i]] /\ \A i \in 1 .. n : SpokenField(T[i]) = S[i]
  BY DEF IsSpoken
<1>1. Spoken(T) = [i \in 1 .. n |-> SpokenField(T[i])]
  BY <1>0 DEF Spoken, SpokenField
<1>2. [i \in 1 .. n |-> SpokenField(T[i])] = [i \in 1 .. n |-> S[i]]
  BY <1>0
<1>3. QED
  BY <1>0, <1>1, <1>2

LEMMA FormatsAre ==
  Format("NET") = NetFormat /\ Format("FIN") = FinSpoken /\ Format("REV") = RevSpoken
<1>1. /\ Format("NET") = Spoken(NetFormat) /\ Format("FIN") = Spoken(FinFormat)
      /\ Format("REV") = Spoken(RevFormat)
  BY DEF Format, Formats, Documented, Kinds
<1>2. Spoken(NetFormat) = NetFormat
  <2>1. Len(NetFormat) = 15
    BY DEF NetFormat
  <2>2. \A i \in 1 .. 15 : SpokenField(NetFormat[i]) = NetFormat[i]
    BY DEF SpokenField, NetFormat, Fixed, Counted, Field
  <2>3. NetFormat = [i \in 1 .. 15 |-> NetFormat[i]]
    BY DEF NetFormat
  <2>4. IsSpoken(NetFormat, NetFormat, 15)
    BY <2>1, <2>2, <2>3 DEF IsSpoken
  <2>5. QED
    BY <2>4, SpokenIs
<1>3. Spoken(FinFormat) = FinSpoken
  <2>1. Len(FinFormat) = 30
    BY DEF FinFormat
  <2>2. \A i \in 1 .. 30 : SpokenField(FinFormat[i]) = FinSpoken[i]
    BY DEF SpokenField, FinFormat, FinSpoken, Fixed, Counted, Field
  <2>3. FinSpoken = [i \in 1 .. 30 |-> FinSpoken[i]]
    BY DEF FinSpoken
  <2>4. IsSpoken(FinSpoken, FinFormat, 30)
    BY <2>1, <2>2, <2>3 DEF IsSpoken
  <2>5. QED
    BY <2>4, SpokenIs
<1>4. Spoken(RevFormat) = RevSpoken
  <2>1. Len(RevFormat) = 27
    BY DEF RevFormat
  <2>2. \A i \in 1 .. 27 : SpokenField(RevFormat[i]) = RevSpoken[i]
    BY DEF SpokenField, RevFormat, RevSpoken, Fixed, Counted, Field
  <2>3. RevSpoken = [i \in 1 .. 27 |-> RevSpoken[i]]
    BY DEF RevSpoken
  <2>4. IsSpoken(RevSpoken, RevFormat, 27)
    BY <2>1, <2>2, <2>3 DEF IsSpoken
  <2>5. QED
    BY <2>4, SpokenIs
<1>5. QED
  BY <1>1, <1>2, <1>3, <1>4

\* The counted members are these.
LEMMA CountedAre == CountedMembers = {55, 60, 61, 62, 63, 90, 120, 121, 123, 124, 125, 127}
<1> DEFINE S == {55, 60, 61, 62, 63, 90, 120, 121, 123, 124, 125, 127}
<1>1. \A i \in 1 .. 30 : FinSpoken[i].width = 0 <=> FinSpoken[i].member \in S
  BY DEF FinSpoken, Fixed, Counted, Field
<1>2. \A m \in S : \E i \in 1 .. 30 : FinSpoken[i].member = m
  BY DEF FinSpoken, Fixed, Counted, Field
<1>3. DOMAIN FinSpoken = 1 .. 30
  BY DEF FinSpoken
<1>4. CountedMembers = {f.member : f \in {g \in {FinSpoken[i] : i \in 1 .. 30} : g.width = 0}}
  BY <1>3, FormatsAre DEF CountedMembers, ToSet
<1>5. \A m : m \in CountedMembers <=> \E i \in 1 .. 30 : FinSpoken[i].member = m /\ FinSpoken[i].width = 0
  BY <1>4
<1> HIDE DEF S
<1>6. \A m : m \in CountedMembers <=> m \in S
  BY <1>1, <1>2, <1>5
<1>7. CountedMembers = S
  BY <1>6
<1>8. QED
  BY <1>7 DEF S

\* A table by its length.
IsTable(T, n) == T \in Seq(FieldType) /\ Length(T) = n /\ \A i \in 1 .. n - 1 : T[i].bit < T[i + 1].bit

\* Two tables joined.
LEMMA JoinedTable ==
  ASSUME NEW A \in Seq(FieldType), NEW B \in Seq(FieldType), NEW P, IsJoined(P, A, B),
         NEW a \in Nat, NEW b \in Nat, Length(A) = a, Length(B) = b
  PROVE  P \in Seq(FieldType) /\ Length(P) = a + b
<1>1. P \in Seq(FieldType) /\ Len(P) = Len(A) + Len(B)
  BY Joined
<1>2. QED
  BY <1>1 DEF Length

\* The tables of network messages.
LEMMA NetTables ==
  /\ IsTable(NetFormat, 15) /\ IsTable(NetParser, 15)
  /\ NetMaker = NetFormat
  /\ \A j \in 1 .. 14 : NetParser[j] = NetFormat[j]
  /\ NetParser[15] = Field(128, 127, 0) /\ NetFormat[15] = Field(127, 127, 0)
<1>1. NetFormat \in Seq(FieldType) /\ NetParser \in Seq(FieldType)
  BY DEF NetFormat, NetParser, Fixed, Counted, Field, FieldType
<1>2. Len(NetFormat) = 15 /\ Len(NetParser) = 15
  BY DEF NetFormat, NetParser
<1>3. \A i \in 1 .. 14 : NetFormat[i].bit < NetFormat[i + 1].bit
  BY DEF NetFormat, Fixed, Counted, Field
<1>4. \A i \in 1 .. 14 : NetParser[i].bit < NetParser[i + 1].bit
  BY DEF NetParser, Fixed, Counted, Field
<1>5. NetMaker = NetFormat
  BY DEF NetFormat, NetMaker
<1>6. \A j \in 1 .. 14 : NetParser[j] = NetFormat[j]
  BY DEF NetFormat, NetParser, Fixed, Counted, Field
<1>7. NetParser[15] = Field(128, 127, 0) /\ NetFormat[15] = Field(127, 127, 0)
  BY DEF NetFormat, NetParser, Counted, Fixed
<1>8. QED
  BY <1>1, <1>2, <1>3, <1>4, <1>5, <1>6, <1>7 DEF IsTable, Length

\* The tables of purchases.
LEMMA FinFormatIs ==
  /\ IsTable(FinSpoken, 30) /\ FinSpoken[10] = Field(38, 38, 6) /\ FinSpoken[9] = Field(23, 23, 3)
<1>1. FinSpoken \in Seq(FieldType)
  BY DEF FinSpoken, Fixed, Counted, Field, FieldType
<1>2. Len(FinSpoken) = 30
  BY DEF FinSpoken
<1>3. \A i \in 1 .. 29 : FinSpoken[i].bit < FinSpoken[i + 1].bit
  BY DEF FinSpoken, Fixed, Counted, Field
<1>4. FinSpoken[10] = Field(38, 38, 6) /\ FinSpoken[9] = Field(23, 23, 3)
  BY DEF FinSpoken, Fixed, Counted, Field
<1>5. QED
  BY <1>1, <1>2, <1>3, <1>4 DEF IsTable, Length

\* The parser's two halves are the structure's fields.
LEMMA FinParserIs ==
  ASSUME NEW P, IsJoined(P, FinParserFirst, FinParserSecond)
  PROVE  P = FinSpoken
<1>1. FinParserFirst \in Seq(FieldType) /\ FinParserSecond \in Seq(FieldType)
  BY DEF FinParserFirst, FinParserSecond, Fixed, Counted, Field, FieldType
<1>2. Length(FinParserFirst) = 20 /\ Length(FinParserSecond) = 10
  BY DEF Length, FinParserFirst, FinParserSecond
<1>3. \A i \in 1 .. 30 : P[i] = FinSpoken[i]
  BY DEF IsJoined, FinSpoken, FinParserFirst, FinParserSecond, Fixed, Counted, Field
<1>4. P \in Seq(FieldType) /\ Length(P) = 20 + 10
  BY <1>1, <1>2, JoinedTable
<1>5. P \in Seq(FieldType) /\ Len(P) = 30
  BY <1>4 DEF Length
<1>6. FinSpoken \in Seq(FieldType) /\ Len(FinSpoken) = 30
  BY FinFormatIs DEF IsTable, Length
<1>7. QED
  BY <1>3, <1>5, <1>6, SeqEqual

\* The maker's are, too, but for the host NSU.
LEMMA FinMakerIs ==
  ASSUME NEW P, IsJoined(P, FinMakerFirst, FinMakerSecond)
  PROVE  /\ IsTable(P, 30) /\ P[10] = Field(38, 23, 6)
         /\ \A i \in 1 .. 30 : i # 10 => P[i] = FinSpoken[i]
<1>1. FinMakerFirst \in Seq(FieldType) /\ FinMakerSecond \in Seq(FieldType)
  BY DEF FinMakerFirst, FinMakerSecond, Fixed, Counted, Field, FieldType
<1>2. Length(FinMakerFirst) = 20 /\ Length(FinMakerSecond) = 10
  BY DEF Length, FinMakerFirst, FinMakerSecond
<1>3. \A i \in 1 .. 30 : i # 10 => P[i] = FinSpoken[i]
  BY DEF IsJoined, FinSpoken, FinMakerFirst, FinMakerSecond, Fixed, Counted, Field
<1>4. P[10] = Field(38, 23, 6)
  BY DEF IsJoined, FinMakerFirst, FinMakerSecond, Fixed, Counted, Field
<1>5. \A i \in 1 .. 29 : P[i].bit < P[i + 1].bit
  BY DEF IsJoined, FinMakerFirst, FinMakerSecond, Fixed, Counted, Field
<1>6. P \in Seq(FieldType) /\ Length(P) = 20 + 10
  BY <1>1, <1>2, JoinedTable
<1>7. Length(P) = 30
  BY <1>6
<1>8. IsTable(P, 30)
  BY <1>5, <1>6, <1>7 DEF IsTable
<1>9. QED
  BY <1>3, <1>4, <1>8

\* The tables of reversals.
LEMMA RevFormatIs ==
  /\ IsTable(RevSpoken, 27) /\ RevSpoken[9] = Field(38, 38, 6) /\ RevSpoken[8] = Field(23, 23, 3)
  /\ RevSpoken[21] = Field(118, 118, 2)
<1>1. RevSpoken \in Seq(FieldType)
  BY DEF RevSpoken, Fixed, Counted, Field, FieldType
<1>2. Len(RevSpoken) = 27
  BY DEF RevSpoken
<1>3. \A i \in 1 .. 26 : RevSpoken[i].bit < RevSpoken[i + 1].bit
  BY DEF RevSpoken, Fixed, Counted, Field
<1>4. RevSpoken[9] = Field(38, 38, 6) /\ RevSpoken[8] = Field(23, 23, 3) /\ RevSpoken[21] = Field(118, 118, 2)
  BY DEF RevSpoken, Fixed, Counted, Field
<1>5. QED
  BY <1>1, <1>2, <1>3, <1>4 DEF IsTable, Length

\* The parser of reversals has all their fields but one.
LEMMA RevParserIs ==
  ASSUME NEW P, IsJoined(P, RevParserFirst, RevParserSecond)
  PROVE  /\ IsTable(P, 26)
         /\ (\A j \in 1 .. 20 : P[j] = RevSpoken[j]) /\ (\A j \in 21 .. 26 : P[j] = RevSpoken[j + 1])
<1>1. RevParserFirst \in Seq(FieldType) /\ RevParserSecond \in Seq(FieldType)
  BY DEF RevParserFirst, RevParserSecond, Fixed, Counted, Field, FieldType
<1>2. Length(RevParserFirst) = 18 /\ Length(RevParserSecond) = 8
  BY DEF Length, RevParserFirst, RevParserSecond
<1>3. (\A j \in 1 .. 20 : P[j] = RevSpoken[j]) /\ (\A j \in 21 .. 26 : P[j] = RevSpoken[j + 1])
  BY DEF IsJoined, RevSpoken, RevParserFirst, RevParserSecond, Fixed, Counted, Field
<1>5. \A i \in 1 .. 25 : P[i].bit < P[i + 1].bit
  BY DEF IsJoined, RevParserFirst, RevParserSecond, Fixed, Counted, Field
<1>6. P \in Seq(FieldType) /\ Length(P) = 18 + 8
  BY <1>1, <1>2, JoinedTable
<1>7. Length(P) = 26
  BY <1>6
<1>8. IsTable(P, 26)
  BY <1>5, <1>6, <1>7 DEF IsTable
<1>9. QED
  BY <1>3, <1>8

\* So has the maker, with the member of DE23 under the bit of the host NSU.
LEMMA RevMakerIs ==
  ASSUME NEW P, IsJoined(P, RevMakerFirst, RevMakerSecond)
  PROVE  /\ IsTable(P, 26) /\ P[9] = Field(38, 23, 6)
         /\ (\A j \in 1 .. 20 : j # 9 => P[j] = RevSpoken[j]) /\ (\A j \in 21 .. 26 : P[j] = RevSpoken[j + 1])
<1>1. RevMakerFirst \in Seq(FieldType) /\ RevMakerSecond \in Seq(FieldType)
  BY DEF RevMakerFirst, RevMakerSecond, Fixed, Counted, Field, FieldType
<1>2. Length(RevMakerFirst) = 18 /\ Length(RevMakerSecond) = 8
  BY DEF Length, RevMakerFirst, RevMakerSecond
<1>3. (\A j \in 1 .. 20 : j # 9 => P[j] = RevSpoken[j]) /\ (\A j \in 21 .. 26 : P[j] = RevSpoken[j + 1])
  BY DEF IsJoined, RevSpoken, RevMakerFirst, RevMakerSecond, Fixed, Counted, Field
<1>4. P[9] = Field(38, 23, 6)
  BY DEF IsJoined, RevMakerFirst, RevMakerSecond, Fixed, Counted, Field
<1>5. \A i \in 1 .. 25 : P[i].bit < P[i + 1].bit
  BY DEF IsJoined, RevMakerFirst, RevMakerSecond, Fixed, Counted, Field
<1>6. P \in Seq(FieldType) /\ Length(P) = 18 + 8
  BY <1>1, <1>2, JoinedTable
<1>7. Length(P) = 26
  BY <1>6
<1>8. IsTable(P, 26)
  BY <1>5, <1>6, <1>7 DEF IsTable
<1>9. QED
  BY <1>3, <1>4, <1>8

\* What there is to say of the six tables of a kind of message.
FormatIs(F) ==
  /\ F \in Seq(FieldType) /\ Rising(F)
  /\ \A i \in 1 .. Length(F) : F[i].bit = F[i].member
  /\ \A i \in 1 .. Length(F) : F[i].width = 0 <=> F[i].member \in CountedMembers

\* The first n fields of F are among the first m of P, but for some members.
Listed(F, n, P, m, but) == \A i \in 1 .. n : F[i].member \notin but => \E j \in 1 .. m : P[j] = F[i]

\* Every field of P has a member and a width of F.
Shaped(P, m, F, n) == \A j \in 1 .. m : \E i \in 1 .. n : F[i].member = P[j].member /\ F[i].width = P[j].width

HasMember(F, n, x) == \E i \in 1 .. n : F[i].member = x

ParserMatches(F, P, unread) ==
  /\ P \in Seq(FieldType) /\ Rising(P)
  /\ Listed(F, Length(F), P, Length(P), unread)
  /\ Shaped(P, Length(P), F, Length(F))

MakerMatches(F, M, unread) ==
  /\ M \in Seq(FieldType) /\ Rising(M)
  /\ Listed(M, Length(M), F, Length(F), {23})
  /\ Listed(F, Length(F), M, Length(M), unread \cup {38})
  /\ HasMember(F, Length(F), 23) \/ ~HasMember(M, Length(M), 23)
  /\ ~HasMember(M, Length(M), 38)

\* The bits of fields as numbers, for arithmetic.
LEMMA StepBits ==
  ASSUME NEW T, NEW n \in Nat, IsTable(T, n)
  PROVE  T \in Seq(FieldType) /\ Length(T) = n /\ Rising(T)
BY RisesByStep DEF IsTable

\* A format, by its number of fields.
LEMMA FormatBy ==
  ASSUME NEW F \in Seq(FieldType), NEW n \in Nat, Length(F) = n, Rising(F),
         \A i \in 1 .. n : F[i].bit = F[i].member,
         \A i \in 1 .. n : F[i].width = 0 <=>
           F[i].member \in {55, 60, 61, 62, 63, 90, 120, 121, 123, 124, 125, 127}
  PROVE  FormatIs(F)
<1>1. \A i \in 1 .. n : F[i].width = 0 <=> F[i].member \in CountedMembers
  BY CountedAre
<1>2. QED
  BY <1>1 DEF FormatIs

\* Network messages.
LEMMA NetMatches == FormatIs(NetFormat) /\ ParserMatches(NetFormat, NetParser, {127})
<1>2. /\ NetFormat \in Seq(FieldType) /\ Length(NetFormat) = 15 /\ Rising(NetFormat)
      /\ NetParser \in Seq(FieldType) /\ Length(NetParser) = 15 /\ Rising(NetParser)
  BY NetTables, StepBits
<1>3. \A i \in 1 .. 15 : NetFormat[i].bit = NetFormat[i].member
  BY DEF NetFormat, Fixed, Counted, Field
<1>3a. \A i \in 1 .. 15 : NetFormat[i].width = 0 <=>
        NetFormat[i].member \in {55, 60, 61, 62, 63, 90, 120, 121, 123, 124, 125, 127}
  BY DEF NetFormat, Fixed, Counted, Field
<1>4. FormatIs(NetFormat)
  BY <1>2, <1>3, <1>3a, FormatBy
<1>5. \A j \in 1 .. 14 : NetParser[j] = NetFormat[j] /\ j \in 1 .. 15
  BY NetTables
<1>6. NetParser[15].member = NetFormat[15].member /\ NetParser[15].width = NetFormat[15].width /\ NetFormat[15].member = 127
  BY NetTables DEF Field
<1>7. \A j \in 1 .. 15 : j \in 1 .. 14 \/ j = 15
  OBVIOUS
<1>8. 15 \in 1 .. 15
  OBVIOUS
<1>9. \A i \in 1 .. 15 : NetFormat[i].member # 127 => \E j \in 1 .. 15 : NetParser[j] = NetFormat[i]
  BY <1>5, <1>6, <1>7
<1>10. \A j \in 1 .. 15 : \E i \in 1 .. 15 :
         NetFormat[i].member = NetParser[j].member /\ NetFormat[i].width = NetParser[j].width
  BY <1>5, <1>6, <1>7, <1>8
<1>11. ParserMatches(NetFormat, NetParser, {127})
  <2>1. Listed(NetFormat, 15, NetParser, 15, {127})
    BY <1>9 DEF Listed
  <2>2. Shaped(NetParser, 15, NetFormat, 15)
    BY <1>10 DEF Shaped
  <2>3. QED
    BY <1>2, <2>1, <2>2 DEF ParserMatches
<1>12. QED
  BY <1>4, <1>11

\* Their maker.
LEMMA NetMakerMatches == MakerMatches(NetFormat, NetFormat, {127})
<1>2. NetFormat \in Seq(FieldType) /\ Length(NetFormat) = 15 /\ Rising(NetFormat)
  BY NetTables, StepBits
<1>3. \A i \in 1 .. 15 : NetFormat[i].member # 38 /\ NetFormat[i].member # 23
  BY DEF NetFormat, Fixed, Counted, Field
<1>4. QED
  <2>1. Listed(NetFormat, 15, NetFormat, 15, {23}) /\ Listed(NetFormat, 15, NetFormat, 15, {127} \cup {38})
    BY DEF Listed
  <2>2. ~HasMember(NetFormat, 15, 23) /\ ~HasMember(NetFormat, 15, 38)
    BY <1>3 DEF HasMember
  <2>3. QED
    BY <1>2, <2>1, <2>2 DEF MakerMatches

\* Purchases.
LEMMA FinMatches == FormatIs(FinSpoken) /\ ParserMatches(FinSpoken, FinSpoken, {})
<1>2. FinSpoken \in Seq(FieldType) /\ Length(FinSpoken) = 30 /\ Rising(FinSpoken)
  BY FinFormatIs, StepBits
<1>3. \A i \in 1 .. 30 : FinSpoken[i].bit = FinSpoken[i].member
  BY DEF FinSpoken, Fixed, Counted, Field
<1>3a. \A i \in 1 .. 30 : FinSpoken[i].width = 0 <=>
         FinSpoken[i].member \in {55, 60, 61, 62, 63, 90, 120, 121, 123, 124, 125, 127}
  BY DEF FinSpoken, Fixed, Counted, Field
<1>4. FormatIs(FinSpoken)
  BY <1>2, <1>3, <1>3a, FormatBy
<1>5. ParserMatches(FinSpoken, FinSpoken, {})
  BY <1>2 DEF ParserMatches, Listed, Shaped
<1>6. QED
  BY <1>4, <1>5

\* Their maker.
LEMMA FinMakerMatches ==
  ASSUME NEW P, IsJoined(P, FinMakerFirst, FinMakerSecond)
  PROVE  MakerMatches(FinSpoken, P, {})
<1>3. IsTable(P, 30) /\ P[10] = Field(38, 23, 6) /\ \A i \in 1 .. 30 : i # 10 => P[i] = FinSpoken[i]
  BY FinMakerIs
<1>4. Length(FinSpoken) = 30 /\ P \in Seq(FieldType) /\ Length(P) = 30 /\ Rising(P)
  BY <1>3, FinFormatIs, StepBits
<1>5. FinSpoken[10].member = 38 /\ FinSpoken[9].member = 23 /\ P[10].member = 23
  BY <1>3, FinFormatIs DEF Field
<1>6. \A i \in 1 .. 30 : i # 10 => FinSpoken[i].member # 38
  BY DEF FinSpoken, Fixed, Counted, Field
<1>7. 9 \in 1 .. 30
  OBVIOUS
<1>8. \A j \in 1 .. 30 :
        P[j].member = 23 \/ \E i \in 1 .. 30 : FinSpoken[i] = P[j]
  BY <1>3, <1>5
<1>8a. \A j \in 1 .. 30 : P[j].member # 38
  BY <1>3, <1>5, <1>6
<1>9. \A i \in 1 .. 30 : FinSpoken[i].member # 38 /\ FinSpoken[i].member \notin {} => \E j \in 1 .. 30 : P[j] = FinSpoken[i]
  BY <1>3, <1>5
<1>10. QED
  <2>1. Listed(P, 30, FinSpoken, 30, {23})
    BY <1>8 DEF Listed
  <2>2. Listed(FinSpoken, 30, P, 30, {} \cup {38})
    BY <1>9 DEF Listed
  <2>3. HasMember(FinSpoken, 30, 23) /\ ~HasMember(P, 30, 38)
    BY <1>5, <1>7, <1>8a DEF HasMember
  <2>4. QED
    BY <1>4, <2>1, <2>2, <2>3 DEF MakerMatches

\* Reversals.
LEMMA RevMatches ==
  ASSUME NEW P, IsJoined(P, RevParserFirst, RevParserSecond)
  PROVE  FormatIs(RevSpoken) /\ ParserMatches(RevSpoken, P, {118})
<1>2. /\ RevSpoken \in Seq(FieldType) /\ Length(RevSpoken) = 27 /\ Rising(RevSpoken)
      /\ P \in Seq(FieldType) /\ Length(P) = 26 /\ Rising(P)
  BY RevFormatIs, RevParserIs, StepBits
<1>3. \A i \in 1 .. 27 : RevSpoken[i].bit = RevSpoken[i].member
  BY DEF RevSpoken, Fixed, Counted, Field
<1>3a. \A i \in 1 .. 27 : RevSpoken[i].width = 0 <=>
         RevSpoken[i].member \in {55, 60, 61, 62, 63, 90, 120, 121, 123, 124, 125, 127}
  BY DEF RevSpoken, Fixed, Counted, Field
<1>4. FormatIs(RevSpoken)
  BY <1>2, <1>3, <1>3a, FormatBy
<1>5. (\A j \in 1 .. 20 : P[j] = RevSpoken[j]) /\ (\A j \in 21 .. 26 : P[j] = RevSpoken[j + 1])
  BY RevParserIs
<1>6. RevSpoken[21].member = 118
  BY RevFormatIs DEF Field
<1>7. \A i \in 1 .. 27 :
        \/ i \in 1 .. 20 /\ i \in 1 .. 26
        \/ i = 21
        \/ i - 1 \in 21 .. 26 /\ i - 1 \in 1 .. 26 /\ (i - 1) + 1 = i
  OBVIOUS
<1>8. \A j \in 1 .. 26 :
        \/ j \in 1 .. 20 /\ j \in 1 .. 27
        \/ j \in 21 .. 26 /\ j + 1 \in 1 .. 27
  OBVIOUS
<1>9. \A i \in 1 .. 27 : RevSpoken[i].member # 118 => \E j \in 1 .. 26 : P[j] = RevSpoken[i]
  BY <1>5, <1>6, <1>7
<1>10. \A j \in 1 .. 26 : \E i \in 1 .. 27 : RevSpoken[i] = P[j]
  BY <1>5, <1>8
<1>11. ParserMatches(RevSpoken, P, {118})
  <2>1. Listed(RevSpoken, 27, P, 26, {118})
    BY <1>9 DEF Listed
  <2>2. Shaped(P, 26, RevSpoken, 27)
    BY <1>10 DEF Shaped
  <2>3. QED
    BY <1>2, <2>1, <2>2 DEF ParserMatches
<1>12. QED
  BY <1>4, <1>11

\* Their maker.
LEMMA RevMakerMatches ==
  ASSUME NEW P, IsJoined(P, RevMakerFirst, RevMakerSecond)
  PROVE  MakerMatches(RevSpoken, P, {118})
<1>3. /\ IsTable(P, 26) /\ P[9] = Field(38, 23, 6)
      /\ (\A j \in 1 .. 20 : j # 9 => P[j] = RevSpoken[j]) /\ (\A j \in 21 .. 26 : P[j] = RevSpoken[j + 1])
  BY RevMakerIs
<1>4. Length(RevSpoken) = 27 /\ P \in Seq(FieldType) /\ Length(P) = 26 /\ Rising(P)
  BY <1>3, RevFormatIs, StepBits DEF IsTable
<1>5. RevSpoken[9].member = 38 /\ RevSpoken[8].member = 23 /\ P[9].member = 23 /\ RevSpoken[21].member = 118
  BY <1>3, RevFormatIs DEF Field
<1>6. \A i \in 1 .. 27 : i # 9 => RevSpoken[i].member # 38
  BY DEF RevSpoken, Fixed, Counted, Field
<1>7. 8 \in 1 .. 27
  OBVIOUS
<1>7a. \A i \in 1 .. 27 :
        \/ i \in 1 .. 20 /\ i \in 1 .. 26
        \/ i = 21
        \/ i - 1 \in 21 .. 26 /\ i - 1 \in 1 .. 26 /\ (i - 1) + 1 = i
  OBVIOUS
<1>7b. \A j \in 1 .. 26 :
        \/ j \in 1 .. 20 /\ j \in 1 .. 27
        \/ j \in 21 .. 26 /\ j + 1 \in 1 .. 27 /\ j + 1 # 9
  OBVIOUS
<1>8. \A j \in 1 .. 26 : P[j].member = 23 \/ \E i \in 1 .. 27 : RevSpoken[i] = P[j]
  BY <1>3, <1>5, <1>7b
<1>8a. \A j \in 1 .. 26 : P[j].member # 38
  BY <1>3, <1>5, <1>6, <1>7b
<1>9. \A i \in 1 .. 27 : RevSpoken[i].member # 38 /\ RevSpoken[i].member \notin {118} => \E j \in 1 .. 26 : P[j] = RevSpoken[i]
  BY <1>3, <1>5, <1>7a
<1>10. QED
  <2>1. Listed(P, 26, RevSpoken, 27, {23})
    BY <1>8 DEF Listed
  <2>2. Listed(RevSpoken, 27, P, 26, {118} \cup {38})
    BY <1>9 DEF Listed
  <2>3. HasMember(RevSpoken, 27, 23) /\ ~HasMember(P, 26, 38)
    BY <1>5, <1>7, <1>8a DEF HasMember
  <2>4. QED
    BY <1>4, <2>1, <2>2, <2>3 DEF MakerMatches

\* How the tables compare.
LEMMA TablesMatch ==
  ASSUME NEW k \in Kinds
  PROVE  /\ FormatIs(Format(k)) /\ ParserMatches(Format(k), Parser(k), Unread(k))
         /\ MakerMatches(Format(k), Maker(k), Unread(k))
<1>1. CASE k = "NET"
  <2>1. Format(k) = NetFormat /\ Parser(k) = NetParser /\ Maker(k) = NetFormat /\ Unread(k) = {127}
    BY <1>1, NetTables, FormatsAre DEF Parser, Maker, Unread
  <2>2. QED
    BY <2>1, NetMatches, NetMakerMatches
<1>2. CASE k = "FIN"
  <2>1. Format(k) = FinSpoken /\ Unread(k) = {}
    BY <1>2, FormatsAre DEF Unread
  <2>2. IsJoined(Parser(k), FinParserFirst, FinParserSecond) /\ IsJoined(Maker(k), FinMakerFirst, FinMakerSecond)
    BY <1>2 DEF Parser, Maker, IsJoined
  <2>3. Parser(k) = FinSpoken
    BY <2>2, FinParserIs
  <2>4. QED
    BY <2>1, <2>2, <2>3, FinMatches, FinMakerMatches
<1>3. CASE k = "REV"
  <2>1. Format(k) = RevSpoken /\ Unread(k) = {118}
    BY <1>3, FormatsAre DEF Unread
  <2>2. IsJoined(Parser(k), RevParserFirst, RevParserSecond) /\ IsJoined(Maker(k), RevMakerFirst, RevMakerSecond)
    BY <1>3 DEF Parser, Maker, IsJoined
  <2>3. QED
    BY <2>1, <2>2, RevMatches, RevMakerMatches
<1>4. QED
  BY <1>1, <1>2, <1>3 DEF Kinds

-----------------------------------------------------------------------------
(* Requests.                                                               *)

\* The members of a kind are those of its format's fields.
LEMMA FieldOfMember ==
  ASSUME NEW k \in Kinds
  PROVE  /\ \A i \in 1 .. Length(Format(k)) : Format(k)[i].member \in Members(k)
         /\ \A m \in Members(k) : \E i \in 1 .. Length(Format(k)) : Format(k)[i].member = m
         /\ Members(k) \subseteq 2 .. 128
<1>1. Format(k) \in Seq(FieldType)
  BY TablesMatch DEF FormatIs
<1>2. Members(k) = {Format(k)[i].member : i \in 1 .. Length(Format(k))}
  BY <1>1, MembersIs
<1>3. \A f \in FieldType : f.member \in 2 .. 128
  BY DEF FieldType
<1>4. \A i \in 1 .. Length(Format(k)) : Format(k)[i].member \in 2 .. 128
  BY <1>1, <1>3, TableIs
<1>5. QED
  BY <1>2, <1>4

\* A member has one field.
LEMMA OneField ==
  ASSUME NEW k \in Kinds, NEW i \in 1 .. Length(Format(k)), NEW j \in 1 .. Length(Format(k)),
         Format(k)[i].member = Format(k)[j].member
  PROVE  i = j
<1>1. Format(k) \in Seq(FieldType) /\ Rising(Format(k)) /\ Format(k)[i].bit = Format(k)[j].bit
  BY TablesMatch DEF FormatIs
<1>2. QED
  BY <1>1, BitOnce

\* The width of a member is its field's, or the length given.
LEMMA WidthIs ==
  ASSUME NEW k \in Kinds, NEW i \in 1 .. Length(Format(k)), NEW size
  PROVE  /\ Width(k, Format(k)[i].member, size) = IF Format(k)[i].width > 0 THEN Format(k)[i].width ELSE size
         /\ Format(k)[i] \in FieldType
<1> DEFINE m == Format(k)[i].member
           S == ToSet(Format(k))
           f == CHOOSE g \in S : g.member = m
<1>1. Format(k) \in Seq(FieldType)
  BY TablesMatch DEF FormatIs
<1>2. S = {Format(k)[j] : j \in 1 .. Length(Format(k))}
  BY <1>1, LenProperties DEF ToSet, Length
<1> HIDE DEF S
<1>3. \E g \in S : g.member = m
  BY <1>2
<1>4. f \in S /\ f.member = m
  BY <1>3
<1>5. f = Format(k)[i]
  BY <1>2, <1>4, OneField
<1>6. Width(k, m, size) = IF f.width > 0 THEN f.width ELSE size
  BY DEF Width, S
<1>7. QED
  BY <1>1, <1>5, <1>6, TableIs

\* A value that is there and fills its field.
IsValue(v, f) == v # <<>> /\ Fills(v, f)

\* Who writes, and how long the values of counted fields are.
IsWriter(by) == by \in {"terminal", "ISM"}
IsSize(n) == n \in 1 .. 999

\* The values of terminal and ISM do.
LEMMA ValueIs ==
  ASSUME NEW k \in Kinds, NEW i \in 1 .. Length(Format(k)), NEW size, IsSize(size), NEW by, IsWriter(by)
  PROVE  IsValue(Value(by, k, Format(k)[i].member, size), Format(k)[i])
<1> DEFINE f == Format(k)[i]
           m == f.member
           n == Width(k, m, size)
           v == Value(by, k, m, size)
<1>0. size \in 1 .. 999 /\ by \in {"terminal", "ISM"}
  BY DEF IsSize, IsWriter
<1>1. n = (IF f.width > 0 THEN f.width ELSE size) /\ f.width \in 0 .. 20 /\ m \in 2 .. 128
  BY WidthIs DEF FieldType
<1> HIDE DEF f, m, n
<1>2. n \in Nat /\ n > 0
  BY <1>0, <1>1
<1>3. v = [j \in 1 .. n |-> Character(by, m, j)]
  BY DEF Value, n
<1>4. m \in Nat
  BY <1>1
<1>5. \A j \in 1 .. n : Character(by, m, j) \in Letter
  BY <1>0, <1>2, <1>4 DEF Letter
<1>6. v \in Seq(Letter) /\ Len(v) = n
  BY <1>2, <1>3, <1>5, IsASeq
<1>7. v \in Text /\ Length(v) = n
  BY <1>6 DEF Text, Length
<1> HIDE DEF v
<1>8. v # <<>>
  BY <1>2, <1>7, TextIs
<1>9. Fills(v, f)
  BY <1>0, <1>1, <1>7, SMTT(40) DEF Fills
<1>10. QED
  BY <1>8, <1>9 DEF v, m, f, IsValue

\* A request a terminal can send.
IsRequest(r) ==
  /\ r.kind \in Kinds /\ r.code \in 0 .. 4
  /\ r.fields \subseteq Members(r.kind) \ Unread(r.kind)
  /\ r.size \in 1 .. 999

\* What it writes, and what of it arrives.
WholeRequest(r) == Written(Format(r.kind), Second(r.kind, r.fields), Structure(r))
Request(r) == [WholeRequest(r) EXCEPT !.text = Chars(@, 1, Len(@) - r.cut)]
IsCutRequest(r) == IsRequest(r) /\ r.cut \in 0 .. 4 /\ r.cut <= Length(WholeRequest(r).text)

\* The structure of a request.
LEMMA StructureIs ==
  ASSUME NEW r, IsRequest(r)
  PROVE  /\ Structure(r) \in [Members(r.kind) -> Text]
         /\ AllFill(Format(r.kind), Structure(r))
         /\ \A m \in Members(r.kind) : Structure(r)[m] # <<>> <=> m \in r.fields
<1> DEFINE k == r.kind
           F == Format(k)
           V(m) == Value("terminal", k, m, r.size)
<1>1. k \in Kinds /\ r.size \in 1 .. 999
  BY DEF IsRequest
<1>2. Structure(r) = [m \in Members(k) |-> IF m \in r.fields THEN V(m) ELSE <<>>]
  BY DEF Structure
<1> HIDE DEF k
<1>3. \A i \in 1 .. Length(F) : V(F[i].member) # <<>> /\ Fills(V(F[i].member), F[i])
  <2>1. IsWriter("terminal") /\ IsSize(r.size)
    BY <1>1 DEF IsWriter, IsSize
  <2>2. \A i \in 1 .. Length(F) : IsValue(V(F[i].member), F[i])
    BY <1>1, <2>1, ValueIs
  <2> HIDE DEF F, V
  <2>3. QED
    BY <2>2 DEF IsValue
<1>4. /\ \A i \in 1 .. Length(F) : F[i].member \in Members(k)
      /\ \A m \in Members(k) : \E i \in 1 .. Length(F) : F[i].member = m
  BY <1>1, FieldOfMember
<1> HIDE DEF F, V, k
<1>5. \A m \in Members(k) : V(m) # <<>> /\ V(m) \in Text
  BY <1>3, <1>4 DEF Fills
<1>6. <<>> \in Text /\ \A f : Fills(<<>>, f)
  BY EmptySeq DEF Text, Fills
<1>7. Structure(r) \in [Members(k) -> Text]
  BY <1>2, <1>5, <1>6
<1>8. \A i \in 1 .. Length(F) : Fills(Structure(r)[F[i].member], F[i])
  BY <1>2, <1>3, <1>4, <1>6
<1>9. \A m \in Members(k) : Structure(r)[m] # <<>> <=> m \in r.fields
  BY <1>2, <1>5
<1>10. QED
  BY <1>7, <1>8, <1>9 DEF AllFill, F, k

\* A table whose fields have members of a format belongs to its kind.
LEMMA ShapedBelongs ==
  ASSUME NEW k \in Kinds, NEW P, Shaped(P, Length(P), Format(k), Length(Format(k)))
  PROVE  Belongs(P, k)
<1>1. \A i \in 1 .. Length(Format(k)) : Format(k)[i].member \in Members(k)
  BY FieldOfMember
<1>2. QED
  BY <1>1 DEF Shaped, Belongs

\* What a terminal writes is for the parser.
LEMMA RequestTold ==
  ASSUME NEW r, IsRequest(r)
  PROVE  Told(Format(r.kind), Parser(r.kind), r.kind, Structure(r), Second(r.kind, r.fields))
<1> DEFINE k == r.kind
           F == Format(k)
           s == Structure(r)
           B == Second(k, r.fields)
<1>1. k \in Kinds /\ r.fields \subseteq Members(k) \ Unread(k)
  BY DEF IsRequest
<1>2. FormatIs(F) /\ ParserMatches(F, Parser(k), Unread(k))
  BY <1>1, TablesMatch
<1>3. s \in [Members(k) -> Text] /\ AllFill(F, s) /\ \A m \in Members(k) : s[m] # <<>> <=> m \in r.fields
  BY StructureIs
<1>4. /\ \A i \in 1 .. Length(F) : F[i].member \in Members(k)
      /\ Members(k) \subseteq 2 .. 128
  BY <1>1, FieldOfMember
<1>5. Belongs(F, k) /\ Belongs(Parser(k), k)
  BY <1>1, <1>2, <1>4, ShapedBelongs DEF Belongs, ParserMatches
<1>6. Understood(F, Parser(k), s)
  <2>1. \A i \in 1 .. Length(F) : s[F[i].member] # <<>> => F[i].member \notin Unread(k)
    BY <1>1, <1>3, <1>4
  <2>2. QED
    BY <1>2, <2>1 DEF Understood, ParserMatches, Listed
<1>7. SecondHalf(F, s, B)
  <2>1. B = IF \E m \in r.fields : m > 64 THEN {1} ELSE {}
    BY DEF Second
  <2>2. \A i \in 1 .. Length(F) : s[F[i].member] # <<>> => F[i].member \in r.fields /\ F[i].bit = F[i].member
    BY <1>2, <1>3, <1>4 DEF FormatIs
  <2>3. \A m \in r.fields : m \in Int
    BY <1>1, <1>4
  <2> HIDE DEF B, F, s, k
  <2>4. CASE \E m \in r.fields : m > 64
    BY <2>1, <2>4 DEF SecondHalf
  <2>5. CASE \A m \in r.fields : ~(m > 64)
    <3>1. \A m \in r.fields : m <= 64
      BY <2>3, <2>5
    <3>2. B = {}
      BY <2>1, <2>5
    <3>3. QED
      BY <2>2, <3>1, <3>2 DEF SecondHalf
  <2>6. QED
    BY <2>4, <2>5
<1>8. QED
  BY <1>2, <1>3, <1>5, <1>6, <1>7 DEF Told, FormatIs, ParserMatches

\* A text's beginning, as Chars takes it.
LEMMA CharsBegin ==
  ASSUME NEW t \in Text, NEW c \in Nat, c <= Length(t)
  PROVE  /\ Chars(t, 1, Length(t) - c) \in Text
         /\ Length(Chars(t, 1, Length(t) - c)) = Length(t) - c
         /\ Begins(t, Chars(t, 1, Length(t) - c))
         /\ c = 0 => Chars(t, 1, Length(t) - c) = t
<1> DEFINE n == Length(t) - c
           u == Chars(t, 1, n)
<1>1. Length(t) \in Nat /\ n \in Nat /\ n <= Length(t)
  BY TextIs
<1>2. \A d \in Nat : 1 + d <= Length(t) + 1 =>
        /\ Chars(t, 1, d) \in Text /\ Length(Chars(t, 1, d)) = d
        /\ \A i \in 1 .. d : Chars(t, 1, d)[i] = t[(1 + i) - 1]
  <2>1. \A a \in Nat \ {0}, d \in Nat : a + d <= Length(t) + 1 =>
          /\ Chars(t, a, d) \in Text /\ Length(Chars(t, a, d)) = d
          /\ \A i \in 1 .. d : Chars(t, a, d)[i] = t[(a + i) - 1]
    BY CharsIs
  <2>2. 1 \in Nat \ {0}
    OBVIOUS
  <2>3. QED
    BY <2>1, <2>2
<1> HIDE DEF n
<1>3. 1 + n <= Length(t) + 1 /\ \A i \in 1 .. n : (1 + i) - 1 = i
  BY <1>1
<1>4. u \in Text /\ Length(u) = n /\ \A i \in 1 .. n : u[i] = t[i]
  BY <1>1, <1>2, <1>3
<1>5. Begins(t, u)
  BY <1>1, <1>4 DEF Begins
<1>6. c = 0 => n = Length(t)
  BY <1>1 DEF n
<1>7. c = 0 => u = t
  BY <1>4, <1>6, SameText
<1>8. QED
  BY <1>4, <1>5, <1>7 DEF n

\* What arrives of a request is its beginning, under its bitmap.
LEMMA RequestArrives ==
  ASSUME NEW r, IsCutRequest(r)
  PROVE  /\ Arrived(Request(r), Format(r.kind), Structure(r), Second(r.kind, r.fields))
         /\ WholeRequest(r) \in Message
         /\ r.cut = 0 => Request(r) = WholeRequest(r)
         /\ r.cut # 0 => Shortened(Request(r).text, WholeRequest(r).text)
<1> DEFINE k == r.kind
           w == WholeRequest(r)
           c == r.cut
           u == Chars(w.text, 1, Length(w.text) - c)
           W == Writing(Format(k), Second(k, r.fields), Structure(r))[Length(Format(k))]
<1>1. IsRequest(r) /\ c \in 0 .. 4 /\ c <= Length(w.text)
  BY DEF IsCutRequest
<1>2. w \in Message
  BY <1>1, RequestTold, WholeIsRead DEF WholeRequest
<1>3. w.text \in Text /\ w = [bits |-> w.bits, text |-> w.text] /\ w.bits \in SUBSET (1 .. 128)
  BY <1>2 DEF Message
<1>4. w = W
  BY DEF WholeRequest, Written, Length
<1>5. Request(r) = [w EXCEPT !.text = u]
  BY DEF Request, Length
<1> HIDE DEF w, W
<1>6. Request(r) = [bits |-> w.bits, text |-> u]
  BY <1>3, <1>5
<1>7. c \in Nat
  BY <1>1
<1> HIDE DEF c
<1>8. u \in Text /\ Length(u) = Length(w.text) - c /\ Begins(w.text, u) /\ (c = 0 => u = w.text)
  BY <1>1, <1>3, <1>7, CharsBegin
<1> HIDE DEF u
<1>9. Request(r) \in Message
  BY <1>3, <1>6, <1>8 DEF Message
<1>10. Arrived(Request(r), Format(k), Structure(r), Second(k, r.fields))
  BY <1>4, <1>6, <1>8, <1>9 DEF Arrived, W
<1>11. c = 0 => Request(r) = w
  BY <1>3, <1>6, <1>8
<1>12. c # 0 => Shortened(Request(r).text, w.text)
  <2>1. c # 0 => c \in 1 .. 4
    BY <1>1
  <2>2. QED
    BY <1>6, <1>8, <2>1 DEF Shortened
<1>13. QED
  BY <1>2, <1>10, <1>11, <1>12 DEF w, c

\* What the ISM reads of a request.
Received(r) == Parsed(Parser(r.kind), r.kind, Request(r))

\* After all fields every member is known.
LEMMA AllKnown ==
  ASSUME NEW r, IsRequest(r)
  PROVE  Known(Format(r.kind), Structure(r), r.kind, Length(Format(r.kind))) = Structure(r)
<1>1. \A m \in Members(r.kind) : \E i \in 1 .. Length(Format(r.kind)) : Format(r.kind)[i].member = m
  BY FieldOfMember DEF IsRequest
<1>2. Structure(r) \in [Members(r.kind) -> Text]
  BY StructureIs
<1>3. Known(Format(r.kind), Structure(r), r.kind, Length(Format(r.kind)))
        = [m \in Members(r.kind) |-> Structure(r)[m]]
  BY <1>1 DEF Known
<1>4. QED
  BY <1>2, <1>3

\* A whole request is understood.
LEMMA WholeRequestIsRead ==
  ASSUME NEW r, IsCutRequest(r), r.cut = 0
  PROVE  ~Received(r).lost /\ Received(r).s = Structure(r)
<1>1. IsRequest(r)
  BY DEF IsCutRequest
<1>2. Told(Format(r.kind), Parser(r.kind), r.kind, Structure(r), Second(r.kind, r.fields))
  BY <1>1, RequestTold
<1>3. Request(r) = Written(Format(r.kind), Second(r.kind, r.fields), Structure(r))
  BY RequestArrives DEF WholeRequest
<1>4. QED
  BY <1>1, <1>2, <1>3, WholeIsRead, AllKnown DEF Received

\* The member of a request with the highest number, and that it has a length.
Latest(r) == Max(r.fields)
EndsCounted(r) == r.fields # {} /\ Latest(r) \in CountedMembers

\* It is the field sent last.
LEMMA LatestIsLast ==
  ASSUME NEW r, IsRequest(r), EndsCounted(r)
  PROVE  /\ Latest(r) \in r.fields
         /\ \E i \in 1 .. Length(Format(r.kind)) :
              /\ Format(r.kind)[i].member = Latest(r)
              /\ IsLast(Format(r.kind), Structure(r), i) /\ IsCounted(Format(r.kind)[i])
<1> DEFINE k == r.kind
           F == Format(k)
           m == Latest(r)
<1>1. k \in Kinds /\ r.fields \subseteq Members(k) /\ r.fields # {} /\ m \in CountedMembers
  BY DEF IsRequest, EndsCounted
<1>2. /\ \A i \in 1 .. Length(F) : F[i].member \in Members(k)
      /\ \A x \in Members(k) : \E i \in 1 .. Length(F) : F[i].member = x
      /\ Members(k) \subseteq 2 .. 128
  BY <1>1, FieldOfMember
<1>3. m \in r.fields /\ \A x \in r.fields : x <= m
  <2>1. r.fields \subseteq Nat /\ 128 \in Nat /\ \A x \in r.fields : x <= 128
    BY <1>1, <1>2
  <2>2. QED
    BY <1>1, <2>1, MaxIsGreatest DEF Latest
<1>4. PICK i \in 1 .. Length(F) : F[i].member = m
  BY <1>1, <1>2, <1>3
<1>5. /\ F \in Seq(FieldType) /\ Rising(F)
      /\ \A j \in 1 .. Length(F) : F[j].bit = F[j].member
      /\ \A j \in 1 .. Length(F) : F[j].width = 0 <=> F[j].member \in CountedMembers
  BY <1>1, TablesMatch DEF FormatIs
<1>6. IsCounted(F[i])
  BY <1>1, <1>4, <1>5 DEF IsCounted
<1>7. \A x \in Members(k) : Structure(r)[x] # <<>> <=> x \in r.fields
  BY StructureIs
<1>8. Length(F) \in Nat /\ \A j \in 1 .. Length(F) : F[j].bit \in Int
  BY <1>5, TableIs, BitIs
<1> HIDE DEF F, m, k
<1>9. ASSUME NEW a \in i + 1 .. Length(F) PROVE Structure(r)[F[a].member] = <<>>
  <2>1. a \in 1 .. Length(F) /\ i < a
    BY <1>8
  <2>2. F[i].bit < F[a].bit
    BY <1>5, <2>1 DEF Rising
  <2>3. ~(F[a].bit <= F[i].bit)
    BY <1>8, <2>1, <2>2
  <2>4. F[a].member \notin r.fields
    BY <1>3, <1>4, <1>5, <2>1, <2>3
  <2>5. QED
    BY <1>2, <1>7, <2>1, <2>4
<1>10. Structure(r)[F[i].member] # <<>>
  BY <1>1, <1>3, <1>4, <1>7
<1>11. IsLast(F, Structure(r), i)
  BY <1>9, <1>10 DEF IsLast
<1>12. QED
  BY <1>3, <1>4, <1>6, <1>11 DEF F, m, k

\* A request that lost its end in a counted field is understood but for it.
LEMMA CutRequestIsRead ==
  ASSUME NEW r, IsCutRequest(r), r.cut # 0, EndsCounted(r)
  PROVE  HasRead(Received(r), Structure(r), Latest(r))
<1> DEFINE F == Format(r.kind)
           s == Structure(r)
           B == Second(r.kind, r.fields)
<1>1. IsRequest(r)
  BY DEF IsCutRequest
<1>2. Told(F, Parser(r.kind), r.kind, s, B)
  BY <1>1, RequestTold
<1>3. Arrived(Request(r), F, s, B) /\ Shortened(Request(r).text, Written(F, B, s).text)
  BY RequestArrives DEF WholeRequest
<1>4. PICK i \in 1 .. Length(F) : F[i].member = Latest(r) /\ IsLast(F, s, i) /\ IsCounted(F[i])
  BY <1>1, LatestIsLast
<1>5. Known(F, s, r.kind, Length(F)) = s
  BY <1>1, AllKnown
<1> HIDE DEF F, s, B
<1>6. HasRead(Parsed(Parser(r.kind), r.kind, Request(r)), Known(F, s, r.kind, Length(F)), F[i].member)
  BY <1>2, <1>3, <1>4, CutIsRead
<1>7. QED
  BY <1>4, <1>5, <1>6 DEF Received, s

-----------------------------------------------------------------------------
(* Replies.                                                                *)

\* The arrays of def_types.h.
Limit(k) == [m \in Members(k) |-> IF m \in CountedMembers THEN 999 ELSE Width(k, m, 0)]

\* A field's longest value is its member's array.
LEMMA LimitIs ==
  ASSUME NEW k \in Kinds
  PROVE  /\ Limit(k) \in [Members(k) -> Nat]
         /\ \A i \in 1 .. Length(Format(k)) : Limit(k)[Format(k)[i].member] = Longest(Format(k)[i])
         /\ \A m \in Members(k) : Limit(k)[m] <= 999
<1> DEFINE F == Format(k)
<1>1. /\ \A i \in 1 .. Length(F) : F[i].member \in Members(k)
      /\ \A m \in Members(k) : \E i \in 1 .. Length(F) : F[i].member = m
  BY FieldOfMember
<1>2. F \in Seq(FieldType) /\ \A i \in 1 .. Length(F) : F[i].width = 0 <=> F[i].member \in CountedMembers
  BY TablesMatch DEF FormatIs
<1>3. \A f \in FieldType : f.width \in 0 .. 20
  BY DEF FieldType
<1>4. \A i \in 1 .. Length(F) : F[i].width \in 0 .. 20
  BY <1>2, <1>3, TableIs
<1>5. \A i \in 1 .. Length(F) : Width(k, F[i].member, 0) = IF F[i].width > 0 THEN F[i].width ELSE 0
  BY WidthIs
<1>6. \A i \in 1 .. Length(F) :
        Limit(k)[F[i].member] = IF F[i].member \in CountedMembers THEN 999 ELSE Width(k, F[i].member, 0)
  BY <1>1 DEF Limit
<1> HIDE DEF F
<1>7. ASSUME NEW i \in 1 .. Length(F)
      PROVE  Limit(k)[F[i].member] = Longest(F[i]) /\ Longest(F[i]) \in Nat /\ Longest(F[i]) <= 999
  <2>1. F[i].width \in 0 .. 20
    BY <1>4
  <2>2. CASE F[i].width = 0
    BY <1>2, <1>6, <2>2 DEF Longest
  <2>3. CASE F[i].width > 0
    <3>1. F[i].member \notin CountedMembers
      BY <1>2, <2>3
    <3>2. Limit(k)[F[i].member] = F[i].width
      BY <1>5, <1>6, <2>3, <3>1
    <3>3. QED
      BY <2>1, <2>3, <3>2 DEF Longest
  <2>4. QED
    BY <2>1, <2>2, <2>3
<1>8. \A m \in Members(k) : Limit(k)[m] \in Nat /\ Limit(k)[m] <= 999
  BY <1>1, <1>7
<1>9. Limit(k) \in [Members(k) -> Nat]
  BY <1>8 DEF Limit
<1>10. QED
  BY <1>7, <1>8, <1>9 DEF F

\* What the parser read of any request fits.
LEMMA ReceivedFits ==
  ASSUME NEW r, IsCutRequest(r)
  PROVE  Received(r) \in Reader(r.kind) /\ Within(Received(r).s, r.kind, Limit(r.kind))
<1> DEFINE k == r.kind
           P == Parser(k)
           F == Format(k)
<1>1. k \in Kinds
  BY DEF IsCutRequest, IsRequest
<1>2. P \in Seq(FieldType) /\ Shaped(P, Length(P), F, Length(F))
  BY <1>1, TablesMatch DEF ParserMatches
<1>3. Belongs(P, k)
  BY <1>1, <1>2, ShapedBelongs
<1>4. Request(r) \in Message
  BY RequestArrives DEF Arrived
<1>5. /\ Limit(k) \in [Members(k) -> Nat]
      /\ \A i \in 1 .. Length(F) : Limit(k)[F[i].member] = Longest(F[i])
  BY <1>1, LimitIs
<1>6. ASSUME NEW j \in 1 .. Length(P) PROVE Longest(P[j]) <= Limit(k)[P[j].member]
  <2>1. PICK i \in 1 .. Length(F) : F[i].member = P[j].member /\ F[i].width = P[j].width
    BY <1>2 DEF Shaped
  <2>2. Longest(P[j]) = Longest(F[i])
    BY <2>1 DEF Longest
  <2>3. Limit(k)[P[j].member] = Longest(P[j])
    BY <1>5, <2>1, <2>2
  <2>4. P[j].member \in Members(k)
    BY <1>3 DEF Belongs
  <2>5. Longest(P[j]) \in Nat
    BY <1>5, <2>3, <2>4
  <2>6. QED
    BY <2>3, <2>5
<1>7. Limited(P, Limit(k))
  BY <1>6 DEF Limited
<1>8. QED
  BY <1>2, <1>3, <1>4, <1>5, <1>7, ReadingFits DEF Received

\* Which fields a handler answers, and from where.
IsOwn(own, k, code) == own \in Own(k, code) /\ (k = "NET" => code \in 1 .. 4)

\* A handler fills and repeats different fields, and neither DE23 nor DE118.
LEMMA HandlerFields ==
  ASSUME NEW k \in Kinds, NEW code, NEW own, IsOwn(own, k, code)
  PROVE  /\ own \cap Echoed(k, code) = {}
         /\ {23, 118} \cap (own \cup Echoed(k, code)) = {} /\ 38 \notin Echoed(k, code)
         /\ k = "NET" => 127 \notin own \cup Echoed(k, code)
         /\ k = "FIN" => own = {7, 38, 39, 55, 62, 124, 127}
<1>1. own \in Own(k, code) /\ (k = "NET" => code \in 1 .. 4)
  BY DEF IsOwn
<1>2. CASE k = "NET"
  <2>1. code \in {1, 2, 3, 4}
    BY <1>1, <1>2
  <2>2. (own = {7, 39, 62} /\ code = 1) \/ own \subseteq {19, 39, 62, 63, 120}
    BY <1>1, <1>2, <2>1 DEF Own
  <2>3. Echoed(k, code) = {11, 12, 13, 41, 42} \cup IF code = 1 THEN {} ELSE {7}
    BY <1>2 DEF Echoed
  <2>4. QED
    BY <1>2, <2>2, <2>3
<1>3. CASE k = "FIN"
  <2>1. own = {7, 38, 39, 55, 62, 124, 127}
    BY <1>1, <1>3 DEF Own
  <2>2. Echoed(k, code) = {3, 4, 11, 12, 13, 19, 22, 41, 42, 49, 61, 63, 120, 123}
    BY <1>3 DEF Echoed
  <2>3. QED
    BY <1>3, <2>1, <2>2
<1>4. CASE k = "REV"
  <2>1. own = {7, 38, 39, 55, 62, 124, 127}
    BY <1>1, <1>4 DEF Own
  <2>2. Echoed(k, code) = {3, 4, 11, 12, 13, 22, 41, 42, 49, 61, 63, 120, 123}
    BY <1>4 DEF Echoed
  <2>3. QED
    BY <1>4, <2>1, <2>2
<1>5. QED
  BY <1>2, <1>3, <1>4 DEF Kinds

\* The repeated fields are members.
LEMMA EchoedAreMembers ==
  ASSUME NEW k \in Kinds, NEW code
  PROVE  Echoed(k, code) \subseteq Members(k)
<1>1. \A i \in 1 .. Length(Format(k)) : Format(k)[i].member \in Members(k)
  BY FieldOfMember
<1>2. CASE k = "NET"
  <2>1. Echoed(k, code) \subseteq {7, 11, 12, 13, 41, 42}
    BY <1>2 DEF Echoed
  <2>2. \A m \in {7, 11, 12, 13, 41, 42} : \E i \in 1 .. 15 : NetFormat[i].member = m
    BY DEF NetFormat, Fixed, Counted, Field
  <2>3. Format(k) = NetFormat /\ Length(NetFormat) = 15
    BY <1>2, NetTables, FormatsAre DEF IsTable
  <2>4. QED
    BY <1>1, <2>1, <2>2, <2>3
<1>3. CASE k = "FIN"
  <2>1. Echoed(k, code) = {3, 4, 11, 12, 13, 19, 22, 41, 42, 49, 61, 63, 120, 123}
    BY <1>3 DEF Echoed
  <2>2. \A m \in {3, 4, 11, 12, 13, 19, 22, 41, 42, 49, 61, 63, 120, 123} : \E i \in 1 .. 30 : FinSpoken[i].member = m
    BY DEF FinSpoken, Fixed, Counted, Field
  <2>3. Format(k) = FinSpoken /\ Length(FinSpoken) = 30
    BY <1>3, FinFormatIs, FormatsAre DEF IsTable
  <2>4. QED
    BY <1>1, <2>1, <2>2, <2>3
<1>4. CASE k = "REV"
  <2>1. Echoed(k, code) = {3, 4, 11, 12, 13, 22, 41, 42, 49, 61, 63, 120, 123}
    BY <1>4 DEF Echoed
  <2>2. \A m \in {3, 4, 11, 12, 13, 22, 41, 42, 49, 61, 63, 120, 123} : \E i \in 1 .. 27 : RevSpoken[i].member = m
    BY DEF RevSpoken, Fixed, Counted, Field
  <2>3. Format(k) = RevSpoken /\ Length(RevSpoken) = 27
    BY <1>4, RevFormatIs, FormatsAre DEF IsTable
  <2>4. QED
    BY <1>1, <2>1, <2>2, <2>3
<1>5. QED
  BY <1>2, <1>3, <1>4 DEF Kinds

\* A value that fills its field is no longer than the field's longest.
LEMMA FillsLongest ==
  ASSUME NEW f \in FieldType, NEW v, Fills(v, f)
  PROVE  v \in Text /\ Length(v) <= Longest(f)
<1>1. v \in Text /\ (v = <<>> \/ (f.width > 0 /\ Length(v) = f.width) \/ (f.width = 0 /\ Length(v) \in 1 .. 999))
  BY DEF Fills
<1>2. f.width \in 0 .. 20
  BY DEF FieldType
<1>3. Length(v) \in Nat /\ (v = <<>> => Length(v) = 0)
  BY <1>1, TextIs
<1>4. Longest(f) = IF f.width > 0 THEN f.width ELSE 999
  BY DEF Longest
<1> DEFINE n == Length(v)
           m == f.width
<1>5. n = 0 \/ (m > 0 /\ n = m) \/ (m = 0 /\ n \in 1 .. 999)
  BY <1>1, <1>3
<1>6. n \in Nat /\ m \in 0 .. 20
  BY <1>2, <1>3
<1> HIDE DEF n, m
<1>7. n <= IF m > 0 THEN m ELSE 999
  BY <1>5, <1>6
<1>8. QED
  BY <1>1, <1>4, <1>7 DEF n, m

\* What the makers write are members of the structure.
LEMMA MakerBelongs ==
  ASSUME NEW k \in Kinds
  PROVE  /\ Maker(k) \in Seq(FieldType) /\ Rising(Maker(k)) /\ Belongs(Maker(k), k)
         /\ \A j \in 1 .. Length(Maker(k)) :
              Maker(k)[j].member # 23 => \E i \in 1 .. Length(Format(k)) : Format(k)[i] = Maker(k)[j]
<1> DEFINE F == Format(k)
           M == Maker(k)
<1>1. MakerMatches(F, M, Unread(k))
  BY TablesMatch
<1>2. \A i \in 1 .. Length(F) : F[i].member \in Members(k)
  BY FieldOfMember
<1> HIDE DEF F, M
<1>3. \A j \in 1 .. Length(M) : M[j].member # 23 => \E i \in 1 .. Length(F) : F[i] = M[j]
  BY <1>1 DEF MakerMatches, Listed
<1>4. ASSUME NEW j \in 1 .. Length(M) PROVE M[j].member \in Members(k)
  <2>1. CASE M[j].member # 23
    BY <1>2, <1>3, <2>1
  <2>2. CASE M[j].member = 23
    <3>1. HasMember(F, Length(F), 23)
      BY <1>1, <2>2 DEF MakerMatches, HasMember
    <3>2. QED
      BY <1>2, <2>2, <3>1 DEF HasMember
  <2>3. QED
    BY <2>1, <2>2
<1>5. QED
  BY <1>1, <1>3, <1>4 DEF MakerMatches, Belongs, F, M

\* The answer to a request.
IsAnswer(a, r, own, size) ==
  /\ IsOwn(own, r.kind, r.code) /\ IsSize(size)
  /\ a = Answer(r.kind, r.code, Received(r).s, own, size)

\* A member is the ISM's own, the request's or empty.
LEMMA AnswerIs ==
  ASSUME NEW r, NEW a, NEW own, NEW size, IsCutRequest(r), IsAnswer(a, r, own, size),
         NEW m \in Members(r.kind)
  PROVE  /\ m \in own => a[m] = Value("ISM", r.kind, m, size)
         /\ m \in Echoed(r.kind, r.code) => a[m] = Received(r).s[m] /\ m \notin own
         /\ m \notin own \cup Echoed(r.kind, r.code) => a[m] = <<>>
         /\ m \in {23, 118} => a[m] = <<>>
         /\ m \in Unread(r.kind) => a[m] = <<>>
         /\ m = 38 => m \notin Echoed(r.kind, r.code)
<1> DEFINE k == r.kind
           E == Echoed(k, r.code)
<1>1. k \in Kinds
  BY DEF IsCutRequest, IsRequest
<1>2. IsOwn(own, k, r.code) /\ a = Answer(k, r.code, Received(r).s, own, size)
  BY DEF IsAnswer
<1>3. /\ own \cap E = {} /\ {23, 118} \cap (own \cup E) = {} /\ 38 \notin E
      /\ k = "NET" => 127 \notin own \cup E
  BY <1>1, <1>2, HandlerFields
<1>4. a[m] = CASE m \in own -> Value("ISM", k, m, size)
               [] m \in E -> Received(r).s[m]
               [] OTHER -> <<>>
  BY <1>2 DEF Answer
<1>5. m \in Unread(k) => m \notin own \cup E
  BY <1>1, <1>3 DEF Unread, Kinds
<1> HIDE DEF k, E
<1>6. /\ m \in own => a[m] = Value("ISM", k, m, size)
      /\ m \in E => a[m] = Received(r).s[m] /\ m \notin own
      /\ m \notin own \cup E => a[m] = <<>>
  BY <1>3, <1>4
<1>7. m \in {23, 118} => m \notin own \cup E
  BY <1>3
<1>8. QED
  BY <1>3, <1>5, <1>6, <1>7 DEF k, E

\* An answer fits the structure.
LEMMA AnswerFits ==
  ASSUME NEW r, NEW a, NEW own, NEW size, IsCutRequest(r), IsAnswer(a, r, own, size)
  PROVE  /\ a \in [Members(r.kind) -> Text] /\ Within(a, r.kind, Limit(r.kind))
         /\ AllText(Maker(r.kind), a)
<1> DEFINE k == r.kind
           F == Format(k)
           M == Maker(k)
<1>1. k \in Kinds
  BY DEF IsCutRequest, IsRequest
<1>2. IsSize(size) /\ IsWriter("ISM") /\ a = Answer(k, r.code, Received(r).s, own, size)
  BY DEF IsAnswer, IsWriter
<1>3. /\ Limit(k) \in [Members(k) -> Nat] /\ \A m \in Members(k) : Limit(k)[m] <= 999
      /\ \A i \in 1 .. Length(F) : Limit(k)[F[i].member] = Longest(F[i])
  BY <1>1, LimitIs
<1>4. Received(r) \in Reader(k) /\ Within(Received(r).s, k, Limit(k))
  BY ReceivedFits
<1>5. ASSUME NEW m \in Members(k) PROVE a[m] \in Text /\ Length(a[m]) <= Limit(k)[m]
  <2>1. CASE m \in own
    <3>1. PICK i \in 1 .. Length(F) : F[i].member = m
      BY <1>1, FieldOfMember
    <3>2. IsValue(Value("ISM", k, m, size), F[i])
      BY <1>1, <1>2, <3>1, ValueIs
    <3>3. F[i] \in FieldType
      BY <1>1, WidthIs
    <3>4. Fills(a[m], F[i])
      BY <2>1, <3>2, AnswerIs DEF IsValue
    <3>5. a[m] \in Text /\ Length(a[m]) <= Longest(F[i])
      BY <3>3, <3>4, FillsLongest
    <3>6. QED
      BY <1>3, <3>1, <3>5
  <2>2. CASE m \in Echoed(k, r.code)
    <3>1. a[m] = Received(r).s[m]
      BY <2>2, AnswerIs
    <3>2. Received(r).s[m] \in Text
      BY <1>4 DEF Reader
    <3>3. QED
      BY <1>4, <3>1, <3>2 DEF Within
  <2>3. CASE m \notin own \cup Echoed(k, r.code)
    <3>1. a[m] = <<>>
      BY <2>3, AnswerIs
    <3>2. <<>> \in Text
      BY EmptySeq DEF Text
    <3>3. Length(<<>>) = 0
      BY <3>2, TextIs
    <3>4. Limit(k)[m] \in Nat
      BY <1>3
    <3>5. QED
      BY <3>1, <3>2, <3>3, <3>4
  <2>4. QED
    BY <2>1, <2>2, <2>3
<1>6. a \in [Members(k) -> Text]
  <2>1. \E e : a = [m \in Members(k) |-> e[m]]
    <3>1. a = [m \in Members(k) |-> a[m]]
      BY <1>2 DEF Answer
    <3>2. QED
      BY <3>1
  <2>2. QED
    BY <1>5, <2>1
<1>7. ASSUME NEW j \in 1 .. Length(M) PROVE a[M[j].member] \in Text /\ Length(a[M[j].member]) <= 999
  <2>1. M[j].member \in Members(k)
    BY <1>1, MakerBelongs DEF Belongs
  <2> DEFINE m == M[j].member
  <2>2. a[m] \in Text /\ Length(a[m]) <= Limit(k)[m] /\ Limit(k)[m] \in Nat /\ Limit(k)[m] <= 999
    BY <1>3, <1>5, <2>1
  <2>3. Length(a[m]) \in Nat
    BY <2>2, TextIs
  <2>4. QED
    BY <2>2, <2>3
<1>8. QED
  BY <1>5, <1>6, <1>7 DEF Within, AllText

\* Requests whose answer can be read: whole, or cut in a counted field.
IsClear(r) == r.cut = 0 \/ EndsCounted(r)

\* What the parser leaves of a clear request differs in one counted member.
LEMMA ClearIsRead ==
  ASSUME NEW r, IsCutRequest(r), IsClear(r), NEW m \in Members(r.kind)
  PROVE  /\ Received(r).s[m] = Structure(r)[m] \/ (r.cut # 0 /\ m = Latest(r))
         /\ r.cut # 0 => Latest(r) \in CountedMembers
<1>1. CASE r.cut = 0
  BY <1>1, WholeRequestIsRead
<1>2. CASE r.cut # 0
  <2>1. EndsCounted(r)
    BY <1>2 DEF IsClear
  <2>2. HasRead(Received(r), Structure(r), Latest(r))
    BY <1>2, <2>1, CutRequestIsRead
  <2>3. PICK u : Received(r).s = [Structure(r) EXCEPT ![Latest(r)] = u]
    BY <2>2 DEF HasRead
  <2>4. m \in DOMAIN Structure(r)
    BY DEF Structure
  <2>5. m # Latest(r) => Received(r).s[m] = Structure(r)[m]
    BY <2>3, <2>4
  <2>6. QED
    BY <1>2, <2>1, <2>5 DEF EndsCounted
<1>3. QED
  BY <1>1, <1>2

\* What is repeated of a clear request fills its field.
LEMMA ReceivedFills ==
  ASSUME NEW r, IsCutRequest(r), IsClear(r), NEW i \in 1 .. Length(Format(r.kind))
  PROVE  Fills(Received(r).s[Format(r.kind)[i].member], Format(r.kind)[i])
<1> DEFINE k == r.kind
           f == Format(k)[i]
           m == f.member
           v == Received(r).s[m]
<1>1. k \in Kinds /\ IsRequest(r)
  BY DEF IsCutRequest, IsRequest
<1>2. m \in Members(k)
  BY <1>1, FieldOfMember
<1>3. CASE v = Structure(r)[m]
  BY <1>1, <1>3, StructureIs, SMTT(40) DEF AllFill
<1>4. CASE r.cut # 0 /\ m = Latest(r)
  <2>1. m \in CountedMembers
    BY <1>2, <1>4, ClearIsRead
  <2>2. f.width = 0
    BY <1>1, <2>1, TablesMatch DEF FormatIs
  <2>3. v \in Text /\ Length(v) <= Limit(k)[m]
    BY <1>2, ReceivedFits DEF Reader, Within
  <2>4. Limit(k)[m] = Longest(f)
    BY <1>1, LimitIs
  <2>5. Longest(f) = 999
    BY <2>2 DEF Longest
  <2>6. Length(v) \in Nat /\ Length(v) <= 999 /\ (v = <<>> <=> Length(v) = 0)
    BY <2>3, <2>4, <2>5, TextIs, SMTT(40)
  <2>7. v = <<>> \/ Length(v) \in 1 .. 999
    <3> DEFINE n == Length(v)
    <3>1. n \in Nat /\ n <= 999 /\ (n = 0 => v = <<>>)
      BY <2>6
    <3>2. n = 0 \/ n \in 1 .. 999
      <4> HIDE DEF n
      <4>1. QED
        BY <3>1
    <3>3. QED
      BY <3>1, <3>2
  <2>8. QED
    BY <2>2, <2>3, <2>7 DEF Fills
<1>5. QED
  BY <1>2, <1>3, <1>4, ClearIsRead

\* The maker can tell the terminal the answer to a clear request.
LEMMA ReplyTold ==
  ASSUME NEW r, NEW a, NEW own, NEW size, IsCutRequest(r), IsClear(r), IsAnswer(a, r, own, size)
  PROVE  Told(Maker(r.kind), Format(r.kind), r.kind, a, {1})
<1> DEFINE k == r.kind
           F == Format(k)
           M == Maker(k)
<1>1. k \in Kinds
  BY DEF IsCutRequest, IsRequest
<1>2. IsSize(size) /\ IsWriter("ISM")
  BY DEF IsAnswer, IsWriter
<1>3. /\ M \in Seq(FieldType) /\ Rising(M) /\ Belongs(M, k)
      /\ \A j \in 1 .. Length(M) : M[j].member # 23 => \E i \in 1 .. Length(F) : F[i] = M[j]
  BY <1>1, MakerBelongs
<1>4. F \in Seq(FieldType) /\ Rising(F)
  BY <1>1, TablesMatch DEF FormatIs
<1>5. Belongs(F, k)
  BY <1>1, FieldOfMember DEF Belongs
<1>6. a \in [Members(k) -> Text]
  BY AnswerFits
<1>7. ASSUME NEW j \in 1 .. Length(M), a[M[j].member] # <<>>
      PROVE  Fills(a[M[j].member], M[j]) /\ \E i \in 1 .. Length(F) : F[i] = M[j]
  <2>1. M[j].member \in Members(k)
    BY <1>3 DEF Belongs
  <2>2. M[j].member # 23
    BY <1>7, <2>1, AnswerIs
  <2>3. PICK i \in 1 .. Length(F) : F[i] = M[j]
    BY <1>3, <2>2
  <2>4. CASE M[j].member \in own
    <3>1. IsValue(Value("ISM", k, F[i].member, size), F[i])
      BY <1>1, <1>2, ValueIs
    <3>2. a[M[j].member] = Value("ISM", k, F[i].member, size)
      BY <2>1, <2>3, <2>4, AnswerIs
    <3>3. QED
      BY <2>3, <3>1, <3>2 DEF IsValue
  <2>5. CASE M[j].member \in Echoed(k, r.code)
    <3>1. a[M[j].member] = Received(r).s[F[i].member]
      BY <2>1, <2>3, <2>5, AnswerIs
    <3>2. Fills(Received(r).s[F[i].member], F[i])
      BY ReceivedFills
    <3>3. QED
      BY <2>3, <3>1, <3>2
  <2>6. QED
    BY <1>7, <2>1, <2>4, <2>5, AnswerIs
<1>8. \A f : Fills(<<>>, f)
  BY EmptySeq DEF Fills, Text
<1>9. AllFill(M, a)
  BY <1>7, <1>8 DEF AllFill
<1>10. Understood(M, F, a)
  BY <1>7 DEF Understood
<1>11. SecondHalf(M, a, {1})
  BY DEF SecondHalf
<1>12. QED
  BY <1>3, <1>4, <1>5, <1>6, <1>9, <1>10, <1>11 DEF Told

\* A maker leaves out the host's NSU and what a handler leaves empty.
LEMMA MadeIs ==
  ASSUME NEW r, NEW a, NEW own, NEW size, IsCutRequest(r), IsAnswer(a, r, own, size),
         NEW m \in Members(r.kind)
  PROVE  /\ m = 38 => \A j \in 1 .. Length(Maker(r.kind)) : Maker(r.kind)[j].member # m
         /\ m # 38 /\ a[m] # <<>> =>
              \E j \in 1 .. Length(Maker(r.kind)) :
                Maker(r.kind)[j].member = m /\ Maker(r.kind)[j].bit = m
<1> DEFINE k == r.kind
           F == Format(k)
           M == Maker(k)
<1>1. k \in Kinds
  BY DEF IsCutRequest, IsRequest
<1>2. MakerMatches(F, M, Unread(k)) /\ FormatIs(F)
  BY <1>1, TablesMatch
<1>3. PICK i \in 1 .. Length(F) : F[i].member = m
  BY <1>1, FieldOfMember
<1>4. F[i].bit = m
  BY <1>2, <1>3 DEF FormatIs
<1>5. m \in Unread(k) => a[m] = <<>>
  BY AnswerIs
<1> HIDE DEF F, M
<1>6. \A j \in 1 .. Length(M) : M[j].member # 38
  BY <1>2 DEF MakerMatches, HasMember
<1>7. m \notin Unread(k) \cup {38} => \E j \in 1 .. Length(M) : M[j] = F[i]
  BY <1>2, <1>3 DEF MakerMatches, Listed
<1>8. m # 38 /\ a[m] # <<>> => \E j \in 1 .. Length(M) : M[j].member = m /\ M[j].bit = m
  BY <1>3, <1>4, <1>5, <1>7
<1>9. QED
  BY <1>6, <1>8 DEF M

\* What the terminal reads of it.
LEMMA ReplyIsRead ==
  ASSUME NEW r, NEW a, NEW own, NEW size, IsCutRequest(r), IsClear(r), IsAnswer(a, r, own, size),
         NEW p, p = Parsed(Format(r.kind), r.kind, Written(Maker(r.kind), {1}, a))
  PROVE  /\ ~p.lost
         /\ \A m \in Members(r.kind) : p.s[m] = IF m = 38 THEN <<>> ELSE a[m]
<1> DEFINE k == r.kind
           M == Maker(k)
<1>1. Told(M, Format(k), k, a, {1})
  BY ReplyTold
<1>2. ~p.lost /\ p.s = Known(M, a, k, Length(M))
  BY <1>1, WholeIsRead
<1>3. ASSUME NEW m \in Members(k) PROVE p.s[m] = IF m = 38 THEN <<>> ELSE a[m]
  <2>1. p.s[m] = IF \E l \in 1 .. Length(M) : M[l].member = m THEN a[m] ELSE <<>>
    BY <1>2 DEF Known
  <2>2. CASE m = 38
    <3>1. \A l \in 1 .. Length(M) : M[l].member # m
      BY <2>2, MadeIs
    <3>2. QED
      BY <2>1, <2>2, <3>1
  <2>3. CASE m # 38 /\ a[m] # <<>>
    <3>1. \E l \in 1 .. Length(M) : M[l].member = m
      BY <2>3, MadeIs
    <3>2. QED
      BY <2>1, <2>3, <3>1
  <2>4. CASE m # 38 /\ a[m] = <<>>
    BY <2>1, <2>4
  <2>5. QED
    BY <2>2, <2>3, <2>4
<1>4. QED
  BY <1>2, <1>3

\* The bitmap of a reply.
LEMMA ReplyBits ==
  ASSUME NEW r, NEW a, NEW own, NEW size, IsCutRequest(r), IsAnswer(a, r, own, size),
         NEW w, w = Written(Maker(r.kind), {1}, a)
  PROVE  /\ w \in Message
         /\ \A b \in 1 .. 128 :
              b \in w.bits <=> b = 1 \/ (b \in Members(r.kind) /\ b # 38 /\ a[b] # <<>>)
<1> DEFINE k == r.kind
           F == Format(k)
           M == Maker(k)
<1>1. k \in Kinds
  BY DEF IsCutRequest, IsRequest
<1>2. AllText(M, a)
  BY AnswerFits
<1>3. /\ M \in Seq(FieldType) /\ Belongs(M, k)
      /\ \A j \in 1 .. Length(M) : M[j].member # 23 => \E i \in 1 .. Length(F) : F[i] = M[j]
  BY <1>1, MakerBelongs
<1>4. FormatIs(F)
  BY <1>1, TablesMatch
<1>5. {1} \in SUBSET (1 .. 128)
  OBVIOUS
<1>6. BitsSay(M, a, {1})
  BY <1>2, <1>3, <1>5, WritingBits
<1>7. Length(M) \in Nat /\ Length(M) \in 0 .. Length(M)
  BY <1>3, TableIs
<1>8. w \in Message
  BY <1>2, <1>3, <1>5, <1>7, WritingIs DEF Written, Length
<1>9. \A b \in 1 .. 128 : b \in w.bits <=> b \in {1} \/ \E j \in 1 .. Length(M) : a[M[j].member] # <<>> /\ M[j].bit = b
  <2>1. w = Writing(M, {1}, a)[Length(M)]
    BY DEF Written, Length
  <2> HIDE DEF M
  <2>2. QED
    BY <1>6, <1>7, <2>1 DEF BitsSay
<1>10. ASSUME NEW j \in 1 .. Length(M), a[M[j].member] # <<>>
       PROVE  M[j].member \in Members(k) /\ M[j].member # 38 /\ M[j].bit = M[j].member
  <2>1. M[j].member \in Members(k)
    BY <1>3 DEF Belongs
  <2>2. M[j].member # 23
    BY <1>10, <2>1, AnswerIs
  <2>3. M[j].bit = M[j].member
    BY <1>3, <1>4, <2>2 DEF FormatIs
  <2>4. M[j].member # 38
    BY <2>1, MadeIs
  <2>5. QED
    BY <2>1, <2>3, <2>4
<1>11. ASSUME NEW m \in Members(k), m # 38, a[m] # <<>>
       PROVE  \E j \in 1 .. Length(M) : a[M[j].member] # <<>> /\ M[j].bit = m
  <2>1. PICK j \in 1 .. Length(M) : M[j].member = m /\ M[j].bit = m
    BY <1>11, MadeIs
  <2>2. QED
    BY <1>11, <2>1
<1> HIDE DEF M, k
<1>12. ASSUME NEW b \in 1 .. 128
       PROVE  b \in w.bits <=> b = 1 \/ (b \in Members(k) /\ b # 38 /\ a[b] # <<>>)
  <2> DEFINE Sent == \E j \in 1 .. Length(M) : a[M[j].member] # <<>> /\ M[j].bit = b
             Filled == b \in Members(k) /\ b # 38 /\ a[b] # <<>>
  <2>1. Sent => Filled
    BY <1>10
  <2>2. Filled => Sent
    BY <1>11, SMTT(40)
  <2>3. b \in w.bits <=> b = 1 \/ Sent
    BY <1>9
  <2> HIDE DEF Sent, Filled
  <2>4. b \in w.bits <=> b = 1 \/ Filled
    BY <2>1, <2>2, <2>3
  <2>5. QED
    BY <2>4 DEF Filled
<1>13. QED
  BY <1>8, <1>12 DEF k

-----------------------------------------------------------------------------
(* The exchange.                                                           *)

\* Members that the handlers and the test name.
LEMMA NamedMembers == 70 \in Members("NET") /\ TestFields \subseteq Members("FIN")
<1>1. NetFormat[12].member = 70
  BY DEF NetFormat, Fixed, Counted, Field
<1>2. Format("NET") = NetFormat /\ Length(NetFormat) = 15
  BY NetTables, FormatsAre DEF IsTable
<1>3. 70 \in Members("NET")
  BY <1>1, <1>2, FieldOfMember DEF Kinds
<1>4. \A m \in {3, 4, 7, 11, 12, 13, 22, 23, 41, 42, 49, 52, 55, 61, 63, 67, 70, 118, 125} :
        \E i \in 1 .. 30 : FinSpoken[i].member = m
  BY DEF FinSpoken, Fixed, Counted, Field
<1>5. Format("FIN") = FinSpoken /\ Length(FinSpoken) = 30
  BY FinFormatIs, FormatsAre DEF IsTable
<1>6. TestFields \subseteq Members("FIN")
  BY <1>4, <1>5, FieldOfMember DEF Kinds, TestFields
<1>7. QED
  BY <1>3, <1>6

\* Every request's fields are documented and read.
LEMMA FieldSetsAre ==
  ASSUME NEW k \in Kinds, NEW ms \in FieldSets(k)
  PROVE  ms \subseteq Members(k) \ Unread(k)
<1> DEFINE all == Members(k) \ Unread(k)
<1>1. \/ ms \subseteq all
      \/ k = "NET" /\ \E S : S \subseteq all /\ ms = S \cup {70}
      \/ k = "FIN" /\ ms = TestFields
  <2>1. CASE ms \in ({{}} \cup {{a, b} : a \in all, b \in all}) \cup ({all} \cup {all \ {a} : a \in all})
    BY <2>1
  <2>2. CASE k = "NET" /\ ms \in {S \cup {70} : S \in {{}} \cup {{a, b} : a \in all, b \in all}}
    BY <2>2
  <2>3. CASE k = "FIN" /\ ms = TestFields
    BY <2>3
  <2>4. QED
    BY <2>1, <2>2, <2>3 DEF FieldSets
<1>2. CASE ms \subseteq all
  BY <1>2
<1>3. CASE k = "NET" /\ \E S : S \subseteq all /\ ms = S \cup {70}
  <2>1. 70 \in all
    BY <1>3, NamedMembers DEF Unread
  <2>2. QED
    BY <1>3, <2>1
<1>4. CASE k = "FIN" /\ ms = TestFields
  BY <1>4, NamedMembers DEF Unread
<1>5. QED
  BY <1>1, <1>2, <1>3, <1>4

\* What a terminal may ask.
LEMMA SentIsRequest ==
  ASSUME NEW k \in Kinds, NEW size \in Sizes, NEW cut \in 0 .. MaxCut,
         NEW code \in (IF k = "NET" THEN 0 .. 4 ELSE {0}), NEW ms \in FieldSets(k), NEW r,
         r = [kind |-> k, code |-> code, fields |-> ms, size |-> size, cut |-> cut],
         cut <= Len(Written(Format(k), Second(k, ms), Structure(r)).text)
  PROVE  IsCutRequest(r)
<1>1. r.kind = k /\ r.code = code /\ r.fields = ms /\ r.size = size /\ r.cut = cut
  OBVIOUS
<1>2. code \in 0 .. 4
  OBVIOUS
<1>3. ms \subseteq Members(k) \ Unread(k)
  BY FieldSetsAre
<1>4. size \in 1 .. 999
  BY SizesAssumption
<1>5. cut \in 0 .. 4
  BY MaxCutAssumption
<1>6. cut <= Length(WholeRequest(r).text)
  BY <1>1 DEF WholeRequest, Length
<1>7. QED
  BY <1>1, <1>2, <1>3, <1>4, <1>5, <1>6 DEF IsCutRequest, IsRequest

\* While the ISM has a request, it has one a terminal may send, and the wire
\* carries it; afterwards the wire carries the answer to what was read of it.
Asked ==
  /\ pc \in {"idle", "sent", "parsed", "answered", "closed", "unanswered"}
  /\ pc = "idle" => request = NoRequest /\ wire = NoWire
  /\ pc # "idle" => IsCutRequest(request)

Carried == pc \in {"sent", "parsed", "unanswered"} => wire = Request(request)

Understanding == pc \notin {"idle", "sent"} => got = Received(request)

Answering ==
  pc \in {"answered", "closed"} =>
    /\ \E own, size : IsAnswer(reply, request, own, size)
    /\ wire = Written(Maker(request.kind), {1}, reply)

Closing == pc = "closed" => read = Parsed(Format(request.kind), request.kind, wire)

IInv == Asked /\ Carried /\ Understanding /\ Answering /\ Closing

\* The invariant holds at first.
LEMMA IInvAtFirst ==
  ASSUME Init
  PROVE  IInv
BY DEF Init, IInv, Asked, Carried, Understanding, Answering, Closing

\* Every step keeps it.
LEMMA IInvNext ==
  ASSUME IInv, [Next]_vars
  PROVE  IInv'
<1>1. CASE TerminalSends
  <2>1. PICK k \in Kinds, size \in Sizes, cut \in 0 .. MaxCut :
          \E code \in (IF k = "NET" THEN 0 .. 4 ELSE {0}), ms \in FieldSets(k) :
            LET r == [kind |-> k, code |-> code, fields |-> ms, size |-> size, cut |-> cut]
                w == Written(Format(k), Second(k, ms), Structure(r))
            IN /\ cut <= Len(w.text)
               /\ request' = r
               /\ wire' = [w EXCEPT !.text = Chars(@, 1, Len(@) - cut)]
    BY <1>1 DEF TerminalSends
  <2>2. PICK code \in (IF k = "NET" THEN 0 .. 4 ELSE {0}), ms \in FieldSets(k) :
            LET r == [kind |-> k, code |-> code, fields |-> ms, size |-> size, cut |-> cut]
                w == Written(Format(k), Second(k, ms), Structure(r))
            IN /\ cut <= Len(w.text)
               /\ request' = r
               /\ wire' = [w EXCEPT !.text = Chars(@, 1, Len(@) - cut)]
    BY <2>1
  <2> DEFINE r == [kind |-> k, code |-> code, fields |-> ms, size |-> size, cut |-> cut]
             w == Written(Format(k), Second(k, ms), Structure(r))
  <2>3. cut <= Len(w.text) /\ request' = r /\ wire' = [w EXCEPT !.text = Chars(@, 1, Len(@) - cut)]
    BY <2>2
  <2>4. IsCutRequest(r)
    BY <2>3, SentIsRequest
  <2>5. r.kind = k /\ r.fields = ms /\ r.cut = cut
    OBVIOUS
  <2>6. Request(r) = [w EXCEPT !.text = Chars(@, 1, Len(@) - cut)]
    BY <2>5 DEF Request, WholeRequest
  <2> HIDE DEF r, w
  <2>7. request' = r /\ wire' = Request(r) /\ pc' = "sent"
    BY <1>1, <2>3, <2>6 DEF TerminalSends
  <2>8. IsCutRequest(request')
    BY <2>4, <2>7
  <2>9. wire' = Request(request')
    BY <2>7
  <2>10. IsCutRequest(request)' /\ wire' = Request(request)'
    BY <2>8, <2>9
  <2>11. QED
    BY <2>7, <2>10 DEF IInv, Asked, Carried, Understanding, Answering, Closing
<1>2. CASE IsmParses
  <2>1. pc = "sent" /\ pc' = "parsed" /\ request' = request /\ wire' = wire
    BY <1>2 DEF IsmParses
  <2>2. wire = Request(request) /\ IsCutRequest(request)
    BY <2>1 DEF IInv, Asked, Carried
  <2>3. got' = Received(request)
    BY <1>2, <2>2 DEF IsmParses, Received
  <2>4. IsCutRequest(request') /\ wire' = Request(request') /\ got' = Received(request')
    BY <2>1, <2>2, <2>3
  <2>5. QED
    BY <2>1, <2>4 DEF IInv, Asked, Carried, Understanding, Answering, Closing
<1>3. CASE IsmAnswers
  <2>1. pc = "parsed" /\ pc' = "answered" /\ request' = request /\ got' = got
    BY <1>3 DEF IsmAnswers
  <2>2. got = Received(request) /\ IsCutRequest(request)
    BY <2>1 DEF IInv, Asked, Understanding
  <2>3. PICK own \in Own(request.kind, request.code), size \in Sizes :
          reply' = Answer(request.kind, request.code, got.s, own, size)
    BY <1>3 DEF IsmAnswers
  <2>4. IsOwn(own, request.kind, request.code)
    BY <1>3, <2>3 DEF IsmAnswers, Recognized, IsOwn
  <2>5. IsSize(size)
    BY <2>3, SizesAssumption DEF IsSize
  <2>6. IsAnswer(reply', request, own, size)
    BY <2>2, <2>3, <2>4, <2>5 DEF IsAnswer
  <2>7. wire' = Written(Maker(request.kind), {1}, reply')
    BY <1>3 DEF IsmAnswers
  <2>8. /\ IsCutRequest(request') /\ got' = Received(request')
        /\ IsAnswer(reply', request', own, size)
        /\ wire' = Written(Maker(request'.kind), {1}, reply')
    BY <2>1, <2>2, <2>6, <2>7
  <2>9. QED
    BY <2>1, <2>8 DEF IInv, Asked, Carried, Understanding, Answering, Closing
<1>4. CASE IsmIsSilent
  <2>1. pc = "parsed" /\ pc' = "unanswered" /\ request' = request /\ wire' = wire /\ got' = got
    BY <1>4 DEF IsmIsSilent
  <2>2. wire = Request(request) /\ IsCutRequest(request) /\ got = Received(request)
    BY <2>1 DEF IInv, Asked, Carried, Understanding
  <2>3. IsCutRequest(request') /\ wire' = Request(request') /\ got' = Received(request')
    BY <2>1, <2>2
  <2>4. QED
    BY <2>1, <2>3 DEF IInv, Asked, Carried, Understanding, Answering, Closing
<1>5. CASE TerminalReads
  <2>1. /\ pc = "answered" /\ pc' = "closed" /\ request' = request /\ wire' = wire /\ got' = got
        /\ reply' = reply /\ read' = Parsed(Format(request.kind), request.kind, wire)
    BY <1>5 DEF TerminalReads
  <2>2. IsCutRequest(request) /\ got = Received(request) /\ wire = Written(Maker(request.kind), {1}, reply)
    BY <2>1 DEF IInv, Asked, Understanding, Answering
  <2>3. PICK own, size : IsAnswer(reply, request, own, size)
    BY <2>1 DEF IInv, Answering
  <2>4. /\ IsCutRequest(request') /\ got' = Received(request')
        /\ IsAnswer(reply', request', own, size)
        /\ wire' = Written(Maker(request'.kind), {1}, reply')
        /\ read' = Parsed(Format(request'.kind), request'.kind, wire')
    BY <2>1, <2>2, <2>3
  <2>5. QED
    BY <2>1, <2>4 DEF IInv, Asked, Carried, Understanding, Answering, Closing
<1>6. CASE TerminalCloses
  BY <1>6 DEF TerminalCloses, IInv, Asked, Carried, Understanding, Answering, Closing
<1>7. CASE UNCHANGED vars
  <2>1. /\ pc' = pc /\ request' = request /\ wire' = wire /\ got' = got /\ reply' = reply /\ read' = read
    BY <1>7 DEF vars
  <2>2. Asked' /\ Carried' /\ Understanding'
    BY <2>1 DEF IInv, Asked, Carried, Understanding
  <2>3. Answering'
    BY <2>1 DEF IInv, Answering
  <2>4. Closing'
    BY <2>1 DEF IInv, Closing
  <2>5. QED
    BY <2>2, <2>3, <2>4 DEF IInv
<1>8. QED
  BY <1>1, <1>2, <1>3, <1>4, <1>5, <1>6, <1>7 DEF Next

\* Each exchange carries one request, and the answer to what was read of it.
THEOREM ExchangeInvariant == Spec => []IInv
<1>1. Init => IInv
  BY IInvAtFirst
<1>2. IInv /\ [Next]_vars => IInv'
  BY IInvNext
<1>3. QED
  BY <1>1, <1>2, PTL DEF Spec

\* A structure within its arrays fits.
LEMMA FitsBy ==
  ASSUME NEW s, s \in [Members(request.kind) -> Text], Within(s, request.kind, Limit(request.kind))
  PROVE  Fits(s)
<1>1. DOMAIN s = Members(request.kind)
  OBVIOUS
<1>2. \A m \in Members(request.kind) :
        Length(s[m]) <= IF m \in CountedMembers THEN 999 ELSE Width(request.kind, m, 0)
  BY DEF Within, Limit
<1>3. QED
  BY <1>1, <1>2 DEF Fits, Length

\* The bitmap and the structures stay in their types.
LEMMA TypeIs == IInv => TypeOK
<1> SUFFICES ASSUME IInv PROVE TypeOK
  OBVIOUS
<1>1. request.kind \in Kinds /\ request.fields \subseteq Members(request.kind)
  <2>1. CASE pc = "idle"
    <3>1. request = NoRequest
      BY <2>1 DEF IInv, Asked
    <3>2. request.kind = "FIN" /\ request.fields = {}
      BY <3>1 DEF NoRequest
    <3>3. QED
      BY <3>2 DEF Kinds
  <2>2. CASE pc # "idle"
    BY <2>2 DEF IInv, Asked, IsCutRequest, IsRequest
  <2>3. QED
    BY <2>1, <2>2
<1>2. pc \in {"answered", "closed"} =>
        wire.bits \subseteq 1 .. 128 /\ reply \in [Members(request.kind) -> Text]
        /\ Within(reply, request.kind, Limit(request.kind))
  <2>1. SUFFICES ASSUME pc \in {"answered", "closed"}
                 PROVE  wire.bits \subseteq 1 .. 128 /\ reply \in [Members(request.kind) -> Text]
                        /\ Within(reply, request.kind, Limit(request.kind))
    OBVIOUS
  <2>2. PICK own, size : IsAnswer(reply, request, own, size)
    BY <2>1 DEF IInv, Answering
  <2>3. IsCutRequest(request) /\ wire = Written(Maker(request.kind), {1}, reply)
    BY <2>1 DEF IInv, Asked, Answering
  <2>4. wire \in Message
    BY <2>2, <2>3, ReplyBits
  <2>5. reply \in [Members(request.kind) -> Text] /\ Within(reply, request.kind, Limit(request.kind))
    BY <2>2, <2>3, AnswerFits
  <2>6. QED
    BY <2>4, <2>5 DEF Message
<1>3. wire.bits \subseteq 1 .. 128
  <2>1. CASE pc = "idle"
    BY <2>1 DEF IInv, Asked, NoWire
  <2>2. CASE pc \in {"sent", "parsed", "unanswered"}
    <3>1. IsCutRequest(request) /\ wire = Request(request)
      BY <2>2 DEF IInv, Asked, Carried
    <3>2. wire \in Message
      BY <3>1, RequestArrives DEF Arrived
    <3>3. QED
      BY <3>2 DEF Message
  <2>3. QED
    BY <1>2, <2>1, <2>2 DEF IInv, Asked
<1>4. Fits(<<>>)
  BY DEF Fits
<1>5. pc \notin {"idle", "sent"} => Fits(got.s)
  <2>1. SUFFICES ASSUME pc \notin {"idle", "sent"} PROVE Fits(got.s)
    OBVIOUS
  <2>2. IsCutRequest(request) /\ got = Received(request)
    BY <2>1 DEF IInv, Asked, Understanding
  <2>3. got.s \in [Members(request.kind) -> Text] /\ Within(got.s, request.kind, Limit(request.kind))
    BY <2>2, ReceivedFits DEF Reader
  <2>4. QED
    BY <2>3, FitsBy
<1>6. pc \in {"answered", "closed"} => Fits(reply)
  BY <1>2, FitsBy
<1>7. QED
  BY <1>1, <1>3, <1>4, <1>5, <1>6 DEF TypeOK, IInv, Asked

\* What the parser and the handler write into a structure stays within the
\* arrays of def_types.h, whatever arrives and however much of its end is lost.
THEOREM MessagesFit == Spec => []TypeOK
BY ExchangeInvariant, TypeIs, PTL

\* A whole request is read as it was written.
LEMMA UnderstoodWhole == IInv => RequestIsUnderstood
<1> SUFFICES ASSUME IInv, pc \notin {"idle", "sent"}, request.cut = 0
             PROVE  ~ got.lost /\ got.s = Structure(request)
  BY DEF RequestIsUnderstood
<1>1. IsCutRequest(request) /\ got = Received(request)
  BY DEF IInv, Asked, Understanding
<1>2. QED
  BY <1>1, WholeRequestIsRead

\* A request that arrives whole fills the structure with the terminal's
\* values, for every set of the fields it sends: the three parsers agree with
\* def_types.h on the order, the bit and the width of these fields, but for
\* DE118, which the terminal writes as test_ism.c does and not with the length
\* def_types.h gives it.  The fields of Unread are not sent.
THEOREM RequestsAreUnderstood == Spec => []RequestIsUnderstood
BY ExchangeInvariant, UnderstoodWhole, PTL

\* A closed exchange whose request was whole or ended in a counted field.
LEMMA ClosedIs ==
  ASSUME IInv, pc = "closed", request.cut = 0 \/ LastCounted
  PROVE  /\ IsCutRequest(request) /\ IsClear(request) /\ \E own, size : IsAnswer(reply, request, own, size)
         /\ read = Parsed(Format(request.kind), request.kind, Written(Maker(request.kind), {1}, reply))
         /\ DOMAIN reply = Members(request.kind)
<1>1. IsCutRequest(request)
  BY DEF IInv, Asked
<1>2. IsClear(request)
  BY DEF LastCounted, LastSent, IsClear, EndsCounted, Latest
<1>3. PICK own, size : IsAnswer(reply, request, own, size)
  BY DEF IInv, Answering
<1>4. read = Parsed(Format(request.kind), request.kind, Written(Maker(request.kind), {1}, reply))
  BY DEF IInv, Answering, Closing
<1>5. DOMAIN reply = Members(request.kind)
  BY <1>1, <1>3, AnswerFits
<1>6. QED
  BY <1>1, <1>2, <1>3, <1>4, <1>5

\* The terminal reads what the maker wrote.
LEMMA ReplyUnderstood == IInv => ReplyIsUnderstood
<1> SUFFICES ASSUME IInv, pc = "closed", request.cut = 0 \/ LastCounted
             PROVE  ~ read.lost /\ \A m \in DOMAIN reply : read.s[m] = IF m = 38 THEN <<>> ELSE reply[m]
  BY DEF ReplyIsUnderstood
<1>1. /\ IsCutRequest(request) /\ IsClear(request)
      /\ read = Parsed(Format(request.kind), request.kind, Written(Maker(request.kind), {1}, reply))
      /\ DOMAIN reply = Members(request.kind)
  BY ClosedIs
<1>2. PICK own, size : IsAnswer(reply, request, own, size)
  BY ClosedIs
<1>3. QED
  BY <1>1, <1>2, ReplyIsRead

\* A terminal can read every reply to a request that was whole, or was cut in
\* a counted field, and finds all the handler put into the structure but the
\* host's NSU: the three makers agree with def_types.h on every field they
\* write.  (None writes DE118, whose format def_types.h has otherwise.)
THEOREM RepliesAreUnderstood == Spec => []ReplyIsUnderstood
BY ExchangeInvariant, ReplyUnderstood, PTL

\* What is repeated comes back as it was sent.
LEMMA EchoesFound == IInv => EchoesMatch
<1> SUFFICES ASSUME IInv, pc = "closed", request.cut = 0 \/ LastCounted,
                    NEW m \in Echoed(request.kind, request.code)
             PROVE  \/ request.cut > 0 /\ m = LastSent
                    \/ read.s[m] = Structure(request)[m]
  BY DEF EchoesMatch
<1>1. /\ IsCutRequest(request) /\ IsClear(request)
      /\ read = Parsed(Format(request.kind), request.kind, Written(Maker(request.kind), {1}, reply))
  BY ClosedIs
<1>2. PICK own, size : IsAnswer(reply, request, own, size)
  BY ClosedIs
<1>3. request.kind \in Kinds /\ request.cut \in 0 .. 4
  BY <1>1 DEF IsCutRequest, IsRequest
<1>4. m \in Members(request.kind)
  BY <1>3, EchoedAreMembers
<1>5. m # 38 /\ reply[m] = Received(request).s[m]
  BY <1>1, <1>2, <1>4, AnswerIs
<1>6. read.s[m] = reply[m]
  BY <1>1, <1>2, <1>4, <1>5, ReplyIsRead
<1>7. Received(request).s[m] = Structure(request)[m] \/ (request.cut # 0 /\ m = Latest(request))
  BY <1>1, <1>4, ClearIsRead
<1>8. request.cut # 0 => request.cut > 0
  BY <1>3
<1>9. Latest(request) = LastSent
  BY DEF Latest, LastSent
<1>10. QED
  BY <1>5, <1>6, <1>7, <1>8, <1>9

\* What a terminal finds in the fields its reply must repeat is what it sent,
\* through its own format, the parser, the handler and the maker.
THEOREM EchoesComeBack == Spec => []EchoesMatch
BY ExchangeInvariant, EchoesFound, PTL

\* The bits of the reply under way.
LEMMA AnsweredBits ==
  ASSUME IInv, pc = "answered"
  PROVE  /\ wire \in Message
         /\ \A b \in 1 .. 128 :
              b \in wire.bits <=> b = 1 \/ (b \in Members(request.kind) /\ b # 38 /\ reply[b] # <<>>)
<1>1. IsCutRequest(request) /\ wire = Written(Maker(request.kind), {1}, reply)
  BY DEF IInv, Asked, Answering
<1>2. PICK own, size : IsAnswer(reply, request, own, size)
  BY DEF IInv, Answering
<1>3. QED
  BY <1>1, <1>2, ReplyBits

\* Of the fields the handler repeats, the test sends all but three.
LEMMA TestBits == IInv => TestReplyBitmap
<1> DEFINE E == {3, 4, 11, 12, 13, 22, 41, 42, 49, 61, 63}
           O == {7, 39, 55, 62, 124, 127}
<1> SUFFICES ASSUME IInv, pc = "answered", request.kind = "FIN", request.fields = TestFields,
                    request.cut = 0
             PROVE  wire.bits = {1, 3, 4, 7, 11, 12, 13, 22, 39, 41, 42, 49, 55, 61, 62, 63, 124, 127}
  BY DEF TestReplyBitmap
<1>1. IsCutRequest(request) /\ wire = Written(Maker("FIN"), {1}, reply)
  BY DEF IInv, Asked, Answering
<1>2. PICK own, size : IsAnswer(reply, request, own, size)
  BY DEF IInv, Answering
<1>3. own = O \cup {38}
  <2>1. IsOwn(own, "FIN", request.code)
    BY <1>2 DEF IsAnswer
  <2>2. own = {7, 38, 39, 55, 62, 124, 127}
    BY <2>1, HandlerFields DEF Kinds
  <2>3. QED
    BY <2>2
<1>4. Echoed("FIN", request.code) = E \cup {19, 120, 123}
  BY DEF Echoed
<1>5. E \subseteq TestFields /\ {19, 120, 123} \cap TestFields = {}
  BY DEF TestFields
<1>6. TestFields \subseteq Members("FIN") /\ E \cup {19, 120, 123} \subseteq Members("FIN")
  BY <1>4, NamedMembers, EchoedAreMembers DEF Kinds
<1>7. O \subseteq Members("FIN")
  <2>1. \A m \in {7, 39, 55, 62, 124, 127} : \E i \in 1 .. 30 : FinSpoken[i].member = m
    BY DEF FinSpoken, Fixed, Counted, Field
  <2>2. Format("FIN") = FinSpoken /\ Length(FinSpoken) = 30
    BY FinFormatIs, FormatsAre DEF IsTable
  <2>3. \A i \in 1 .. 30 : FinSpoken[i].member \in Members("FIN")
    BY <2>2, FieldOfMember DEF Kinds
  <2>4. {7, 39, 55, 62, 124, 127} \subseteq Members("FIN")
    BY <2>1, <2>3, SMTT(40)
  <2>5. QED
    BY <2>4
<1>8. ASSUME NEW m \in Members("FIN") PROVE m # 38 /\ reply[m] # <<>> <=> m \in E \cup O
  <2>1. m \in TestFields <=> Received(request).s[m] # <<>>
    <3>1. IsRequest(request)
      BY <1>1 DEF IsCutRequest
    <3>2. Structure(request)[m] # <<>> <=> m \in request.fields
      BY <3>1, StructureIs
    <3>3. Received(request).s = Structure(request)
      BY <1>1, WholeRequestIsRead
    <3>4. QED
      BY <3>2, <3>3
  <2>2. CASE m \in own
    <3>1. reply[m] = Value("ISM", "FIN", m, size)
      BY <1>1, <1>2, <2>2, AnswerIs
    <3>2. IsSize(size) /\ IsWriter("ISM")
      BY <1>2 DEF IsAnswer, IsWriter
    <3>3. PICK i \in 1 .. Length(Format("FIN")) : Format("FIN")[i].member = m
      BY FieldOfMember DEF Kinds
    <3>4. reply[m] # <<>>
      BY <3>1, <3>2, <3>3, ValueIs DEF Kinds, IsValue
    <3>5. m \in O <=> m # 38
      BY <1>3, <2>2
    <3>6. 38 \notin E
      OBVIOUS
    <3>7. QED
      BY <1>3, <3>4, <3>5, <3>6
  <2>3. CASE m \in Echoed("FIN", request.code)
    <3>1. reply[m] = Received(request).s[m] /\ m \notin own /\ m # 38
      BY <1>1, <1>2, <2>3, AnswerIs
    <3>2. m \notin O
      BY <1>3, <3>1
    <3>3. m \in E <=> m \in TestFields
      BY <1>4, <1>5, <2>3
    <3>4. QED
      BY <2>1, <3>1, <3>2, <3>3
  <2>4. CASE m \notin own \cup Echoed("FIN", request.code)
    <3>1. reply[m] = <<>>
      BY <1>1, <1>2, <2>4, AnswerIs
    <3>2. QED
      BY <1>3, <1>4, <2>4, <3>1
  <2>5. QED
    BY <2>2, <2>3, <2>4
<1>9. /\ wire \in Message
      /\ \A b \in 1 .. 128 : b \in wire.bits <=> b = 1 \/ (b \in Members("FIN") /\ b # 38 /\ reply[b] # <<>>)
  <2>1. /\ wire \in Message
        /\ \A b \in 1 .. 128 :
             b \in wire.bits <=> b = 1 \/ (b \in Members(request.kind) /\ b # 38 /\ reply[b] # <<>>)
    BY AnsweredBits
  <2>2. QED
    BY <2>1
<1>10. wire.bits \subseteq 1 .. 128
  BY <1>9 DEF Message
<1>11. {1} \cup E \cup O \subseteq 1 .. 128
  OBVIOUS
<1>12. E \cup O \subseteq Members("FIN")
  BY <1>6, <1>7
<1> HIDE DEF E, O
<1>13. \A b \in 1 .. 128 : b \in wire.bits <=> b = 1 \/ b \in E \cup O
  BY <1>8, <1>9, <1>12
<1>14. wire.bits = {1} \cup E \cup O
  BY <1>10, <1>11, <1>13
<1>15. QED
  BY <1>14 DEF E, O

\* The purchase of test_ism.c is answered with the bitmap it asserts, whatever
\* the lengths of the fields' values.
THEOREM TestIsAnswered == Spec => []TestReplyBitmap
BY ExchangeInvariant, TestBits, PTL

=============================================================================
