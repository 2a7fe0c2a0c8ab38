-------------------------- MODULE HsmService_proofs --------------------------
(***************************************************************************)
(* Proofs about the HSM's loop, for any cards, devices, counters and       *)
(* damage: an answer to a readable request judges the PIN its customer     *)
(* typed, a reply shows no card but its own or the one decrypted last, and *)
(* the process ends over no whole request of a card whose PAN has thirteen *)
(* digits.                                                                 *)
(*                                                                         *)
(* Texts are joined, cut and parsed, so much is said of lengths.  The      *)
(* predicates LenIs, Holds, IsHeard and the like are there to be cited     *)
(* unexpanded.                                                             *)
(***************************************************************************)
EXTENDS HsmService, HsmKeys_proofs, FiniteSetTheorems

-----------------------------------------------------------------------------
(* C strings.                                                              *)

\* EndOf finds the first terminator, or the end of the buffer.
LEMMA EndIs ==
  ASSUME NEW b, NEW i \in Nat \ {0}, NEW nul, NEW len \in Nat, Len(b) = len
  PROVE  /\ EndOf(b, i, nul) \in Nat
         /\ EndOf(b, i, nul) <= len + 1
         /\ \/ EndOf(b, i, nul) = len + 1
            \/ EndOf(b, i, nul) \in i .. len /\ b[EndOf(b, i, nul)] = nul
         /\ \A j \in i .. len : b[j] = nul => EndOf(b, i, nul) <= j
<1> DEFINE ends == {j \in i .. len : b[j] = nul}
           first(j) == b[j] = nul /\ \A k \in i .. j - 1 : b[k] # nul
<1>1. CASE ends = {}
  <2>1. EndOf(b, i, nul) = len + 1
    BY <1>1 DEF EndOf
  <2>2. QED
    BY <1>1, <2>1
<1>2. CASE ends # {}
  <2>1. ends \subseteq Nat
    OBVIOUS
  <2>2. Min(ends) \in ends /\ \A j \in ends : Min(ends) <= j
    <3> HIDE DEF ends
    <3>1. QED
      BY <1>2, <2>1, MinIsLeast
  <2>3. Min(ends) \in i .. len /\ first(Min(ends))
    BY <2>2
  <2>4. EndOf(b, i, nul) = CHOOSE j \in i .. len : first(j)
    BY <1>2 DEF EndOf
  <2> DEFINE e == CHOOSE j \in i .. len : first(j)
  <2>5. e \in i .. len /\ first(e)
    <3> HIDE DEF first
    <3>1. QED
      BY <2>3
  <2> HIDE DEF e
  <2>6. \A j \in i .. len : b[j] = nul => e <= j
    BY <2>5
  <2>7. EndOf(b, i, nul) = e
    BY <2>4 DEF e
  <2>8. QED
    BY <2>5, <2>6, <2>7
<1>3. QED
  BY <1>1, <1>2

\* The smaller of two numbers.
LEMMA LesserIs ==
  ASSUME NEW x \in Nat, NEW y \in Nat
  PROVE  Min({x, y}) = IF x <= y THEN x ELSE y
<1> DEFINE two == {x, y}
<1>1. two \subseteq Nat /\ two # {}
  OBVIOUS
<1>2. Min(two) \in two /\ \A j \in two : Min(two) <= j
  BY <1>1, MinIsLeast
<1>3. QED
  BY <1>2

\* A string that fills its n characters.
LEMMA CStringFull ==
  ASSUME NEW b, NEW i \in Nat \ {0}, NEW n \in Nat, NEW nul, NEW len \in Nat, Len(b) = len,
         (i + n) - 1 <= len, \A j \in i .. (i + n) - 1 : b[j] # nul
  PROVE  CString(b, i, n, nul) = SubSeq(b, i, (i + n) - 1)
<1> DEFINE e == EndOf(b, i, nul)
<1>1. e \in Nat /\ (e = len + 1 \/ (e \in i .. len /\ b[e] = nul))
  BY EndIs
<1>2. e >= i + n
  BY <1>1
<1>3. e - 1 \in Nat /\ (i + n) - 1 \in Nat /\ (i + n) - 1 <= e - 1
  BY <1>1, <1>2
<1> HIDE DEF e
<1>4. Min({e - 1, (i + n) - 1}) = (i + n) - 1
  BY <1>3, LesserIs
<1>5. QED
  BY <1>4 DEF CString, e

\* A string that ends before its nth character, at position k - 1.
LEMMA CStringEnded ==
  ASSUME NEW b, NEW i \in Nat \ {0}, NEW n \in Nat, NEW nul, NEW len \in Nat, Len(b) = len,
         NEW k \in i .. len + 1, k - 1 <= (i + n) - 1, k <= len => b[k] = nul,
         \A j \in i .. k - 1 : b[j] # nul
  PROVE  CString(b, i, n, nul) = SubSeq(b, i, k - 1)
<1> DEFINE e == EndOf(b, i, nul)
<1>1. /\ e \in Nat /\ e <= len + 1 /\ (e = len + 1 \/ (e \in i .. len /\ b[e] = nul))
      /\ \A j \in i .. len : b[j] = nul => e <= j
  BY EndIs
<1>2. e <= k
  BY <1>1
<1>3. ~(e <= k - 1)
  BY <1>1
<1>4. e = k /\ k - 1 \in Nat /\ (i + n) - 1 \in Nat
  BY <1>1, <1>2, <1>3
<1> HIDE DEF e
<1>5. Min({e - 1, (i + n) - 1}) = k - 1
  BY <1>4, LesserIs
<1>6. QED
  BY <1>5 DEF CString, e

\* Behind the end of a buffer there is no string.
LEMMA CStringBehind ==
  ASSUME NEW b, NEW i \in Nat \ {0}, NEW n \in Nat, NEW nul, NEW len \in Nat, Len(b) = len,
         i > len
  PROVE  CString(b, i, n, nul) = <<>>
<1> DEFINE e == EndOf(b, i, nul)
<1>1. e \in Nat /\ (e = len + 1 \/ e \in i .. len)
  BY EndIs
<1>2. e = len + 1
  BY <1>1
<1>3. e - 1 = len /\ (i + n) - 1 \in Nat
  BY <1>2
<1> HIDE DEF e
<1>4. Min({e - 1, (i + n) - 1}) \in Nat /\ Min({e - 1, (i + n) - 1}) < i
  BY <1>3, LesserIs
<1>5. CString(b, i, n, nul) = SubSeq(b, i, Min({e - 1, (i + n) - 1}))
  BY DEF CString, e
<1>6. SubSeq(b, i, Min({e - 1, (i + n) - 1})) = <<>>
  BY <1>4, SubSeqEmpty
<1>7. QED
  BY <1>5, <1>6

-----------------------------------------------------------------------------
(* The text of a card, and what the parser reads in it.                    *)

\* The field that begins at position i of s has the value v.
Holds(s, i, v) ==
  /\ (i + 5) + Len(v) <= Len(s)
  /\ s[i + 3] = Len(v) \div 100 /\ s[i + 4] = (Len(v) \div 10) % 10 /\ s[i + 5] = Len(v) % 10
  /\ \A j \in 1 .. Len(v) : s[(i + 5) + j] = v[j]

\* A text by its length and its characters.
LEMMA LenOfText == \A s \in Text : Len(s) \in Nat /\ \A i \in 1 .. Len(s) : s[i] \in 0 .. 10
BY ElementOfSeq, LenProperties DEF Text, Letter

\* atoi reads what ThreeDigits wrote.
LEMMA AtoiOfDigits ==
  ASSUME NEW n \in 0 .. 999, NEW t, Len(t) = 3,
         t[1] = n \div 100, t[2] = (n \div 10) % 10, t[3] = n % 10
  PROVE  Atoi(t) = n
<1>1. t[1] \in 0 .. 9 /\ t[2] \in 0 .. 9 /\ t[3] \in 0 .. 9
  OBVIOUS
<1>2. Len(t) >= 1 /\ Len(t) >= 2 /\ Len(t) >= 3
  OBVIOUS
<1>3. Atoi(t) = 100 * t[1] + 10 * t[2] + t[3]
  BY <1>1, <1>2 DEF Atoi
<1>4. QED
  BY <1>3

\* A value of n characters is a field of s, and its place is one the parser knows.
Sits(v, n, s, i) ==
  /\ s \in Text /\ i \in 1 .. MaxText /\ v \in Text /\ n \in 0 .. 999
  /\ LenIs(v, n) /\ Holds(s, i, v)

\* The parser reads the length and the value of such a field.
LEMMA FieldRead ==
  ASSUME NEW s, NEW i, NEW v, NEW n, Sits(v, n, s, i)
  PROVE  LengthAt(s)[i] = n /\ ValueAt(s)[i] = v
<1> /\ s \in Text /\ i \in 1 .. MaxText /\ v \in Text /\ n \in 0 .. 999
    /\ LenIs(v, n) /\ Holds(s, i, v)
  BY DEF Sits
<1>0. Len(v) = n /\ i \in Nat \ {0} /\ n \in Nat
  BY DEF LenIs
<1>1. PICK len \in Nat : Len(s) = len /\ \A j \in 1 .. len : s[j] \in 0 .. 10
  BY LenOfText
<1>2. /\ (i + 5) + n <= len
      /\ s[i + 3] = n \div 100 /\ s[i + 4] = (n \div 10) % 10 /\ s[i + 5] = n % 10
      /\ \A j \in 1 .. n : s[(i + 5) + j] = v[j]
  BY <1>0, <1>1 DEF Holds
<1>3. \A j \in 1 .. len : s[j] # NoChar
  BY <1>1, SMTT(40) DEF NoChar
<1>4. LengthAt(s)[i] = n
  <2> DEFINE t == CString(s, i + 3, 3, NoChar)
  <2>1. t = SubSeq(s, i + 3, ((i + 3) + 3) - 1)
    <3>1. ((i + 3) + 3) - 1 <= len /\ i + 3 \in Nat \ {0} /\ 3 \in Nat
      BY <1>0, <1>1, <1>2
    <3>2. \A j \in i + 3 .. ((i + 3) + 3) - 1 : s[j] # NoChar
      BY <1>3, <3>1
    <3>3. QED
      BY <1>1, <3>1, <3>2, CStringFull, ZenonT(90)
  <2>2. t = SubSeq(s, i + 3, i + 5)
    <3>1. ((i + 3) + 3) - 1 = i + 5
      OBVIOUS
    <3>2. QED
      BY <2>1, <3>1
  <2>3. Len(t) = 3 /\ t[1] = s[i + 3] /\ t[2] = s[i + 4] /\ t[3] = s[i + 5]
    <3> HIDE DEF t
    <3>1. Len(t) = 3 /\ \A j \in 1 .. 3 : t[j] = s[((i + 3) + j) - 1]
      <4>1. i + 3 \in Nat \ {0} /\ 3 \in Nat /\ i + 5 = ((i + 3) + 3) - 1 /\ i + 5 <= Len(s)
        BY <1>0, <1>1, <1>2
      <4>2. s \in Seq(0 .. Letter) /\ i + 5 \in Int
        BY DEF Text
      <4>3. QED
        BY <2>2, <4>1, <4>2, PieceIs
    <3>2. /\ ((i + 3) + 1) - 1 = i + 3 /\ ((i + 3) + 2) - 1 = i + 4 /\ ((i + 3) + 3) - 1 = i + 5
          /\ 1 \in 1 .. 3 /\ 2 \in 1 .. 3 /\ 3 \in 1 .. 3
      OBVIOUS
    <3>3. QED
      BY <3>1, <3>2
  <2> HIDE DEF t
  <2>4. Atoi(t) = n
    <3>1. \A u : /\ Len(u) = 3
                  /\ u[1] = n \div 100 /\ u[2] = (n \div 10) % 10 /\ u[3] = n % 10
                  => Atoi(u) = n
      BY AtoiOfDigits, ZenonT(90)
    <3>2. t[1] = n \div 100 /\ t[2] = (n \div 10) % 10 /\ t[3] = n % 10
      BY <1>2, <2>3
    <3>3. QED
      BY <2>3, <3>1, <3>2
  <2>5. QED
    BY <2>4 DEF LengthAt, t
<1>5. ValueAt(s)[i] = CString(s, i + 6, n, NoChar)
  BY <1>4 DEF ValueAt
<1>6. CString(s, i + 6, n, NoChar) = SubSeq(s, i + 6, (i + 5) + n)
  <2>1. /\ ((i + 6) + n) - 1 <= len /\ i + 6 \in Nat \ {0} /\ n \in Nat
        /\ ((i + 6) + n) - 1 = (i + 5) + n
    BY <1>1, <1>2
  <2>2. \A j \in i + 6 .. ((i + 6) + n) - 1 : s[j] # NoChar
    BY <1>3, <2>1
  <2>3. CString(s, i + 6, n, NoChar) = SubSeq(s, i + 6, ((i + 6) + n) - 1)
    BY <1>1, <2>1, <2>2, CStringFull
  <2>4. QED
    BY <2>1, <2>3
<1>7. SubSeq(s, i + 6, (i + 5) + n) = v
  <2> DEFINE t == SubSeq(s, i + 6, (i + 5) + n)
             V == 0 .. Letter
  <2>1. t \in Text /\ Len(t) = n /\ \A j \in 1 .. n : t[j] = s[((i + 6) + j) - 1]
    <3>1. /\ i + 6 \in Nat \ {0} /\ n \in Nat /\ (i + 5) + n = ((i + 6) + n) - 1
          /\ (i + 5) + n <= Len(s)
      BY <1>1, <1>2
    <3>2. s \in Seq(V) /\ (i + 5) + n \in Int
      BY DEF Text
    <3>3. t = SubSeq(s, i + 6, (i + 5) + n)
      OBVIOUS
    <3> HIDE DEF t, V
    <3>4. t \in Seq(V) /\ Len(t) = n /\ \A j \in 1 .. n : t[j] = s[((i + 6) + j) - 1]
      BY <3>1, <3>2, <3>3, PieceIs
    <3>5. QED
      BY <3>4 DEF V, Text
  <2>3. \A j \in 1 .. n : ((i + 6) + j) - 1 = (i + 5) + j
    OBVIOUS
  <2> HIDE DEF t, V
  <2>4. Len(t) = n /\ \A j \in 1 .. n : t[j] = v[j]
    BY <1>2, <2>1, <2>3
  <2>5. v \in Seq(V) /\ t \in Seq(V)
    BY <2>1 DEF V, Text
  <2>6. t = v
    BY <1>0, <2>4, <2>5, SeqEqual
  <2>7. QED
    BY <2>6 DEF t
<1>8. QED
  BY <1>4, <1>5, <1>6, <1>7

\* A field in front of its tag's six characters.
LEMMA TaggedIs ==
  ASSUME NEW v \in Text, NEW n \in 0 .. 999, LenIs(v, n), NEW digit \in 0 .. 10
  PROVE  /\ Tagged(v, digit) \in Text /\ LenIs(Tagged(v, digit), 6 + n)
         /\ Holds(Tagged(v, digit), 1, v)
<1>0. Len(v) = n
  BY DEF LenIs
<1> DEFINE V == 0 .. Letter
           tag == <<Letter, Letter, digit>>
           len == ThreeDigits(Len(v))
           front == tag \o len
           all == Tagged(v, digit)
<1>1. tag \in Seq(V) /\ Len(tag) = 3
  BY DEF Letter
<1>2. /\ len \in Seq(V) /\ Len(len) = 3
      /\ len[1] = n \div 100 /\ len[2] = (n \div 10) % 10 /\ len[3] = n % 10
  <2>1. n \div 100 \in 0 .. 10 /\ (n \div 10) % 10 \in 0 .. 10 /\ n % 10 \in 0 .. 10
    OBVIOUS
  <2>2. len = <<n \div 100, (n \div 10) % 10, n % 10>>
    BY <1>0 DEF ThreeDigits
  <2> HIDE DEF len
  <2>3. QED
    BY <2>1, <2>2 DEF Letter
<1>3. v \in Seq(V)
  BY DEF Text
<1>4. IsJoined(front, tag, len) /\ IsJoined(all, front, v)
  BY DEF Tagged, IsJoined
<1> HIDE DEF V, tag, len, front, all
<1>5. front \in Seq(V) /\ Len(front) = 6 /\ \A j \in 1 .. 3 : front[3 + j] = len[j]
  <2>1. /\ front \in Seq(V) /\ Len(front) = Len(tag) + Len(len)
        /\ \A i \in 1 .. Len(len) : front[Len(tag) + i] = len[i]
    <3>1. tag \in Seq(V) /\ len \in Seq(V)
      BY <1>1, <1>2
    <3>2. QED
      BY <1>4, <3>1, Joined
  <2>2. QED
    BY <1>1, <1>2, <2>1
<1>6. /\ all \in Seq(V) /\ Len(all) = 6 + n
      /\ \A i \in 1 .. 6 : all[i] = front[i]
      /\ \A j \in 1 .. n : all[6 + j] = v[j]
  <2>1. /\ all \in Seq(V) /\ Len(all) = Len(front) + Len(v)
        /\ \A i \in 1 .. Len(front) : all[i] = front[i]
        /\ \A i \in 1 .. Len(v) : all[Len(front) + i] = v[i]
    <3>1. front \in Seq(V)
      BY <1>5
    <3>2. QED
      BY <1>3, <1>4, <3>1, Joined
  <2>2. QED
    BY <1>0, <1>5, <2>1
<1>7. all[4] = len[1] /\ all[5] = len[2] /\ all[6] = len[3]
  <2>1. front[3 + 1] = len[1] /\ front[3 + 2] = len[2] /\ front[3 + 3] = len[3]
    BY <1>5
  <2>2. all[4] = front[4] /\ all[5] = front[5] /\ all[6] = front[6]
    BY <1>6
  <2>3. QED
    BY <2>1, <2>2
<1>8. Holds(all, 1, v)
  BY <1>0, <1>2, <1>6, <1>7 DEF Holds
<1>9. QED
  BY <1>0, <1>6, <1>8 DEF all, V, Text, LenIs

\* What a text holds, it holds at the same place with more behind it,
LEMMA HoldsWithMore ==
  ASSUME NEW s \in Text, NEW u, NEW i \in Nat \ {0}, NEW v \in Text, Holds(s, i, v),
         Len(u) \in Nat, Len(s) <= Len(u), \A j \in 1 .. (i + 5) + Len(v) : u[j] = s[j]
  PROVE  Holds(u, i, v)
<1>1. PICK n \in Nat : Len(v) = n
  BY LenOfText
<1>2. PICK m \in Nat : Len(s) = m
  BY LenOfText
<1>3. i + 3 \in 1 .. (i + 5) + n /\ i + 4 \in 1 .. (i + 5) + n /\ i + 5 \in 1 .. (i + 5) + n
  OBVIOUS
<1>4. \A j \in 1 .. n : (i + 5) + j \in 1 .. (i + 5) + n
  OBVIOUS
<1>5. QED
  BY <1>1, <1>2, <1>3, <1>4 DEF Holds

\* and later with more in front of it.
LEMMA HoldsBehind ==
  ASSUME NEW t \in Text, NEW u, NEW k \in Nat, NEW i, i = k + 1, NEW v \in Text, Holds(t, 1, v),
         Len(u) \in Nat, k + Len(t) <= Len(u), \A j \in 1 .. Len(t) : u[k + j] = t[j]
  PROVE  Holds(u, i, v)
<1>1. PICK n \in Nat : Len(v) = n
  BY LenOfText
<1>2. PICK m \in Nat : Len(t) = m
  BY LenOfText
<1>3. /\ (1 + 5) + n <= m
      /\ t[1 + 3] = n \div 100 /\ t[1 + 4] = (n \div 10) % 10 /\ t[1 + 5] = n % 10
      /\ \A j \in 1 .. n : t[(1 + 5) + j] = v[j]
  BY <1>1, <1>2 DEF Holds
<1>4. \A j \in 1 .. m : u[k + j] = t[j]
  BY <1>2
<1>5. /\ u[k + 4] = n \div 100 /\ u[k + 5] = (n \div 10) % 10 /\ u[k + 6] = n % 10
      /\ \A j \in 1 .. n : u[k + (6 + j)] = v[j]
  <2>1. 4 \in 1 .. m /\ 5 \in 1 .. m /\ 6 \in 1 .. m
    BY <1>3
  <2>2. \A j \in 1 .. n : 6 + j \in 1 .. m /\ (1 + 5) + j = 6 + j
    BY <1>3
  <2>3. QED
    BY <1>3, <1>4, <2>1, <2>2, SMTT(40)
<1>6. /\ i + 3 = k + 4 /\ i + 4 = k + 5 /\ i + 5 = k + 6
      /\ \A j \in 1 .. n : (i + 5) + j = k + (6 + j)
  OBVIOUS
<1>7. (i + 5) + n <= Len(u)
  BY <1>2, <1>3
<1>8. QED
  BY <1>1, <1>5, <1>6, <1>7 DEF Holds

\* What a text holds, it holds with another text behind it.
LEMMA MoreBehind ==
  ASSUME NEW s \in Text, NEW m \in Nat, LenIs(s, m), NEW z \in Text, NEW k \in Nat, LenIs(z, k),
         NEW u, IsJoined(u, s, z)
  PROVE  /\ u \in Text /\ LenIs(u, m + k)
         /\ \A w \in Text, i \in Nat \ {0} : Holds(s, i, w) => Holds(u, i, w)
         /\ \A i \in 1 .. m : u[i] = s[i]
         /\ \A i \in 1 .. k : u[m + i] = z[i]
<1>1. /\ u \in Text /\ Len(u) = Len(s) + Len(z)
      /\ \A i \in 1 .. Len(s) : u[i] = s[i]
      /\ \A i \in 1 .. Len(z) : u[Len(s) + i] = z[i]
  <2>1. s \in Seq(0 .. Letter) /\ z \in Seq(0 .. Letter)
    BY DEF Text
  <2>2. QED
    BY <2>1, Joined DEF Text
<1>2. Len(s) = m /\ Len(z) = k
  BY DEF LenIs
<1>3. Len(u) = m + k /\ \A i \in 1 .. m : u[i] = s[i]
  BY <1>1, <1>2
<1>4. ASSUME NEW w \in Text, NEW i \in Nat \ {0}, Holds(s, i, w) PROVE Holds(u, i, w)
  <2>1. PICK n \in Nat : Len(w) = n
    BY LenOfText
  <2>2. (i + 5) + n <= m
    BY <1>2, <1>4, <2>1 DEF Holds
  <2>3. \A j \in 1 .. (i + 5) + n : u[j] = s[j]
    BY <1>3, <2>2
  <2>4. Len(u) \in Nat /\ Len(s) <= Len(u)
    BY <1>2, <1>3
  <2>5. \A j \in 1 .. (i + 5) + Len(w) : u[j] = s[j]
    BY <2>1, <2>3
  <2>6. QED
    BY <1>4, <2>4, <2>5, HoldsWithMore
<1>5. \A i \in 1 .. k : u[m + i] = z[i]
  BY <1>1, <1>2
<1>6. QED
  BY <1>1, <1>3, <1>4, <1>5 DEF LenIs

\* With a field behind it, it holds the field as well.
LEMMA FieldBehind ==
  ASSUME NEW s \in Text, NEW m \in Nat, LenIs(s, m),
         NEW v \in Text, NEW n \in 0 .. 999, LenIs(v, n), NEW digit \in 0 .. 10,
         NEW u, IsJoined(u, s, Tagged(v, digit))
  PROVE  /\ u \in Text /\ LenIs(u, m + (6 + n)) /\ Holds(u, m + 1, v)
         /\ \A w \in Text, i \in Nat \ {0} : Holds(s, i, w) => Holds(u, i, w)
<1> DEFINE t == Tagged(v, digit)
<1>1. t \in Text /\ LenIs(t, 6 + n) /\ Holds(t, 1, v)
  BY TaggedIs, ZenonT(90)
<1>0. 6 + n \in Nat
  OBVIOUS
<1> HIDE DEF t
<1>2. IsJoined(u, s, t)
  BY DEF t
<1>3. /\ u \in Text /\ LenIs(u, m + (6 + n))
      /\ \A w \in Text, i \in Nat \ {0} : Holds(s, i, w) => Holds(u, i, w)
      /\ \A i \in 1 .. 6 + n : u[m + i] = t[i]
  BY <1>0, <1>1, <1>2, MoreBehind
<1>4. Holds(u, m + 1, v)
  <2>1. Len(u) = m + (6 + n) /\ Len(t) = 6 + n
    BY <1>1, <1>3 DEF LenIs
  <2>2. Len(u) \in Nat /\ m + Len(t) <= Len(u) /\ \A j \in 1 .. Len(t) : u[m + j] = t[j]
    BY <1>3, <2>1
  <2>3. QED
    BY <1>1, <2>2, HoldsBehind
<1>5. QED
  BY <1>3, <1>4, SMTT(40)

-----------------------------------------------------------------------------
(* The text of a card holds its five fields, one behind the other.         *)

HoldsCard(s, c) ==
  \E p \in 0 .. 19, a \in 0 .. 76, b \in 0 .. 37, d \in 0 .. 4, e \in 0 .. 4 :
    /\ LenIs(Face[c].pan, p) /\ LenIs(Face[c].track1, a) /\ LenIs(Face[c].track2, b)
    /\ LenIs(Face[c].dtv, d) /\ LenIs(Face[c].cvv, e)
    /\ Holds(s, 1, Face[c].pan)
    /\ Holds(s, (6 + p) + 1, Face[c].track1)
    /\ Holds(s, ((6 + p) + (6 + a)) + 1, Face[c].track2)
    /\ Holds(s, (((6 + p) + (6 + a)) + (6 + b)) + 1, Face[c].dtv)
    /\ Holds(s, ((((6 + p) + (6 + a)) + (6 + b)) + (6 + d)) + 1, Face[c].cvv)

\* The fields of a card, with the widths of st_CryptoData.
LEMMA FaceIs ==
  ASSUME NEW c \in Cards
  PROVE  /\ Face[c].pan \in Text /\ Face[c].track1 \in Text /\ Face[c].track2 \in Text
         /\ Face[c].dtv \in Text /\ Face[c].cvv \in Text
         /\ \E p \in 0 .. 19 : LenIs(Face[c].pan, p)
         /\ \E a \in 0 .. 76 : LenIs(Face[c].track1, a)
         /\ \E b \in 0 .. 37 : LenIs(Face[c].track2, b)
         /\ \E d \in 0 .. 4 : LenIs(Face[c].dtv, d)
         /\ \E e \in 0 .. 4 : LenIs(Face[c].cvv, e)
<1> DEFINE f == Face[c]
<1>1. /\ f.pan \in Seq(0 .. 9) /\ f.track1 \in Text /\ f.track2 \in Text
      /\ f.dtv \in Text /\ f.cvv \in Text /\ Len(f.pan) <= 19
      /\ Len(f.track1) <= 76 /\ Len(f.track2) <= 37 /\ Len(f.dtv) <= 4 /\ Len(f.cvv) <= 4
  BY CardsAssumption
<1> HIDE DEF f
<1>2. f.pan \in Text
  BY <1>1, ElementOfSeq DEF Text, Letter
<1>3. \A v \in Text, n \in Nat : Len(v) <= n => \E m \in 0 .. n : LenIs(v, m)
  BY LenOfText DEF LenIs
<1>4. /\ \E p \in 0 .. 19 : LenIs(f.pan, p)
      /\ \E a \in 0 .. 76 : LenIs(f.track1, a) /\ \E b \in 0 .. 37 : LenIs(f.track2, b)
      /\ \E d \in 0 .. 4 : LenIs(f.dtv, d) /\ \E e \in 0 .. 4 : LenIs(f.cvv, e)
  <2>1. QED
    BY <1>1, <1>2, <1>3
<1>5. QED
  BY <1>1, <1>2, <1>4 DEF f

\* A card's text holds its five fields and fills whole blocks.
LEMMA CardTextIs ==
  ASSUME NEW c \in Cards
  PROVE  /\ Texts[c] \in Text /\ HoldsCard(Texts[c], c)
         /\ \E t \in 32 .. 200, p \in 0 .. 19 :
              LenIs(Texts[c], t) /\ t % 8 = 0 /\ LenIs(Face[c].pan, p) /\ p + 30 <= t
<1> DEFINE f == Face[c]
           u1 == Tagged(f.pan, Letter)
           u2 == u1 \o Tagged(f.track1, 1)
           u3 == u2 \o Tagged(f.track2, 2)
           u4 == u3 \o Tagged(f.dtv, Letter)
           u5 == u4 \o Tagged(f.cvv, Letter)
<1>1. PICK p \in 0 .. 19, a \in 0 .. 76, b \in 0 .. 37, d \in 0 .. 4, e \in 0 .. 4 :
        /\ LenIs(f.pan, p) /\ LenIs(f.track1, a) /\ LenIs(f.track2, b)
        /\ LenIs(f.dtv, d) /\ LenIs(f.cvv, e)
  BY FaceIs
<1>01. d + e >= 2
  BY <1>1, CardsAssumption DEF LenIs
<1>2. /\ f.pan \in Text /\ f.track1 \in Text /\ f.track2 \in Text
      /\ f.dtv \in Text /\ f.cvv \in Text
  BY FaceIs
<1> DEFINE n1 == 6 + p
           n2 == n1 + (6 + a)
           n3 == n2 + (6 + b)
           n4 == n3 + (6 + d)
           n5 == n4 + (6 + e)
           k == (8 - (n5 % 8)) % 8
           z == [i \in 1 .. k |-> Letter]
<1>3. /\ IsJoined(u2, u1, Tagged(f.track1, 1)) /\ IsJoined(u3, u2, Tagged(f.track2, 2))
      /\ IsJoined(u4, u3, Tagged(f.dtv, Letter)) /\ IsJoined(u5, u4, Tagged(f.cvv, Letter))
      /\ u1 = Tagged(f.pan, 10) /\ Texts[c] = CardText(f)
  BY DEF IsJoined, Letter, Texts
<1>4. /\ p \in 0 .. 999 /\ a \in 0 .. 999 /\ b \in 0 .. 999 /\ d \in 0 .. 999 /\ e \in 0 .. 999
      /\ n1 \in Nat /\ n2 \in Nat /\ n3 \in Nat /\ n4 \in Nat /\ n5 \in Nat /\ k \in Nat
      /\ 1 \in 0 .. 10 /\ 2 \in 0 .. 10 /\ 10 \in 0 .. 10 /\ Letter \in 0 .. 10
  BY DEF Letter
<1>5. n5 + k \in 32 .. 200 /\ (n5 + k) % 8 = 0 /\ p + 30 <= n5 + k
  <2>1. n5 \in 32 .. 190 /\ p + 30 <= n5
    BY <1>01
  <2> HIDE DEF n5
  <2>2. n5 + k \in 32 .. 200 /\ (n5 + k) % 8 = 0 /\ k \in Nat
    BY <2>1
  <2> HIDE DEF k
  <2>3. n5 + k \in Nat
    BY <2>2
  <2>4. n5 + k \in 32 .. 200 /\ (n5 + k) % 8 = 0
    BY <2>2, <2>3
  <2>5. p + 30 <= n5 + k
    BY <2>1, <2>2
  <2>6. QED
    BY <2>4, <2>5
<1>6. LenIs(u5, n5) => Texts[c] = u5 \o z
  <2>1. CardText(f) = u5 \o [i \in 1 .. (8 - (Len(u5) % 8)) % 8 |-> Letter]
    BY DEF CardText
  <2> HIDE DEF u5, n5
  <2>2. QED
    BY <1>3, <2>1 DEF LenIs
<1> HIDE DEF f, u1, u2, u3, u4, u5
<1>7. u1 \in Text /\ LenIs(u1, 6 + p) /\ Holds(u1, 1, f.pan)
  <2>1. f.pan \in Text /\ p \in 0 .. 999 /\ LenIs(f.pan, p) /\ 10 \in 0 .. 10
    BY <1>1, <1>2, <1>4, SMTT(40)
  <2>2. Tagged(f.pan, 10) \in Text /\ LenIs(Tagged(f.pan, 10), 6 + p) /\ Holds(Tagged(f.pan, 10), 1, f.pan)
    BY <2>1, TaggedIs, ZenonT(90)
  <2>3. QED
    BY <1>3, <2>2
<1>8. /\ u2 \in Text /\ LenIs(u2, n1 + (6 + a)) /\ Holds(u2, n1 + 1, f.track1)
      /\ \A w \in Text, i \in Nat \ {0} : Holds(u1, i, w) => Holds(u2, i, w)
  <2>1. n1 \in Nat /\ LenIs(u1, n1) /\ u1 \in Text
    BY <1>4, <1>7
  <2> HIDE DEF n1
  <2>2. /\ f.track1 \in Text /\ a \in 0 .. 999 /\ LenIs(f.track1, a) /\ 1 \in 0 .. 10
        /\ IsJoined(u2, u1, Tagged(f.track1, 1))
    BY <1>1, <1>2, <1>3, <1>4
  <2> HIDE DEF n5, k, z
  <2>3. QED
    BY <2>1, <2>2, FieldBehind, ZenonT(90)
<1>9. /\ u3 \in Text /\ LenIs(u3, n2 + (6 + b)) /\ Holds(u3, n2 + 1, f.track2)
      /\ \A w \in Text, i \in Nat \ {0} : Holds(u2, i, w) => Holds(u3, i, w)
  <2>1. n2 \in Nat /\ LenIs(u2, n2) /\ u2 \in Text
    BY <1>4, <1>8
  <2> HIDE DEF n2
  <2>2. /\ f.track2 \in Text /\ b \in 0 .. 999 /\ LenIs(f.track2, b) /\ 2 \in 0 .. 10
        /\ IsJoined(u3, u2, Tagged(f.track2, 2))
    BY <1>1, <1>2, <1>3, <1>4
  <2> HIDE DEF n5, k, z
  <2>3. QED
    BY <2>1, <2>2, FieldBehind, ZenonT(90)
<1>10. /\ u4 \in Text /\ LenIs(u4, n3 + (6 + d)) /\ Holds(u4, n3 + 1, f.dtv)
      /\ \A w \in Text, i \in Nat \ {0} : Holds(u3, i, w) => Holds(u4, i, w)
  <2>1. n3 \in Nat /\ LenIs(u3, n3) /\ u3 \in Text
    BY <1>4, <1>9
  <2> HIDE DEF n3
  <2>2. /\ f.dtv \in Text /\ d \in 0 .. 999 /\ LenIs(f.dtv, d) /\ Letter \in 0 .. 10
        /\ IsJoined(u4, u3, Tagged(f.dtv, Letter))
    BY <1>1, <1>2, <1>3, <1>4
  <2> HIDE DEF n5, k, z
  <2>3. QED
    BY <2>1, <2>2, FieldBehind, ZenonT(90)
<1>11. /\ u5 \in Text /\ LenIs(u5, n4 + (6 + e)) /\ Holds(u5, n4 + 1, f.cvv)
      /\ \A w \in Text, i \in Nat \ {0} : Holds(u4, i, w) => Holds(u5, i, w)
  <2>1. n4 \in Nat /\ LenIs(u4, n4) /\ u4 \in Text
    BY <1>4, <1>10
  <2> HIDE DEF n4
  <2>2. /\ f.cvv \in Text /\ e \in 0 .. 999 /\ LenIs(f.cvv, e) /\ Letter \in 0 .. 10
        /\ IsJoined(u5, u4, Tagged(f.cvv, Letter))
    BY <1>1, <1>2, <1>3, <1>4
  <2> HIDE DEF n5, k, z
  <2>3. QED
    BY <2>1, <2>2, FieldBehind, ZenonT(90)
<1> HIDE DEF n1, n2, n3, n4
<1>12. z \in Text /\ LenIs(z, k) /\ LenIs(u5, n5)
  <2> HIDE DEF k
  <2>1. QED
    BY <1>4, <1>11 DEF Text, Letter, LenIs
<1> HIDE DEF z, k, n5
<1>13. IsJoined(Texts[c], u5, z)
  BY <1>6, <1>12 DEF IsJoined
<1>14. /\ Texts[c] \in Text /\ LenIs(Texts[c], n5 + k)
       /\ \A w \in Text, i \in Nat \ {0} : Holds(u5, i, w) => Holds(Texts[c], i, w)
  BY <1>4, <1>11, <1>12, <1>13, MoreBehind
<1>15. /\ Holds(Texts[c], 1, f.pan) /\ Holds(Texts[c], n1 + 1, f.track1)
       /\ Holds(Texts[c], n2 + 1, f.track2) /\ Holds(Texts[c], n3 + 1, f.dtv)
       /\ Holds(Texts[c], n4 + 1, f.cvv)
  <2>1. 1 \in Nat \ {0} /\ n1 + 1 \in Nat \ {0} /\ n2 + 1 \in Nat \ {0} /\ n3 + 1 \in Nat \ {0}
        /\ n4 + 1 \in Nat \ {0}
    BY <1>4
  <2>2. QED
    BY <1>2, <1>7, <1>8, <1>9, <1>10, <1>11, <1>14, <2>1
<1>16. HoldsCard(Texts[c], c)
  BY <1>1, <1>15 DEF HoldsCard, f, n1, n2, n3, n4
<1>17. LenIs(f.pan, p)
  BY <1>1
<1>18. QED
  BY <1>5, <1>14, <1>16, <1>17 DEF f

\* No card's text is longer than MaxText.
LEMMA MaxTextIs ==
  /\ MaxText \in 32 .. 200
  /\ \A c \in Cards, t \in Nat : LenIs(Texts[c], t) => t <= MaxText
<1> DEFINE T == {Len(Texts[c]) : c \in Cards}
<1>1. \A c \in Cards : Len(Texts[c]) \in 32 .. 200
  BY CardTextIs DEF LenIs
<1>2. T \subseteq Nat /\ T # {} /\ 200 \in Nat /\ \A y \in T : y <= 200
  <2>1. T \subseteq 32 .. 200
    BY <1>1
  <2>2. T # {}
    BY CardsAssumption
  <2> HIDE DEF T
  <2>3. QED
    BY <2>1, <2>2
<1>3. Max(T) \in T /\ \A y \in T : y <= Max(T)
  <2> HIDE DEF T
  <2>1. QED
    BY <1>2, MaxIsGreatest
<1>4. MaxText = Max(T)
  BY DEF MaxText
<1>5. QED
  BY <1>1, <1>3, <1>4 DEF LenIs

-----------------------------------------------------------------------------
(* What the parser makes of the decrypted data.                            *)

\* The text it parses is what stands before the first character that was
\* never written.
LEMMA TextRead ==
  ASSUME NEW clear \in Seq(-1 .. 10), LenIs(clear, MaxText + 1),
         NEW text, text = CString(clear, 1, MaxText, NoChar)
  PROVE  /\ text \in Text
         /\ \E n \in 0 .. MaxText :
              /\ LenIs(text, n)
              /\ \A i \in 1 .. n : text[i] = clear[i]
              /\ \A m \in 0 .. MaxText : (\A i \in 1 .. m : clear[i] # NoChar) => m <= n
              /\ clear[1] = NoChar => n = 0
<1> DEFINE e == EndOf(clear, 1, NoChar)
           len == MaxText + 1
           n == Min({e - 1, (1 + MaxText) - 1})
<1>1. MaxText \in Nat /\ len \in Nat /\ Len(clear) = len
  BY MaxTextIs DEF LenIs
<1>2. /\ e \in Nat /\ e <= len + 1 /\ (e = len + 1 \/ (e \in 1 .. len /\ clear[e] = NoChar))
      /\ \A j \in 1 .. len : clear[j] = NoChar => e <= j
  <2> HIDE DEF e, len
  <2>1. 1 \in Nat \ {0}
    OBVIOUS
  <2>2. QED
    BY <1>1, <2>1, EndIs DEF e
<1>3. text = SubSeq(clear, 1, n)
  BY DEF CString
<1> HIDE DEF e
<1>4. n \in 0 .. MaxText /\ n <= e - 1 /\ (n = e - 1 \/ n = MaxText)
  <2>1. e - 1 \in Nat /\ (1 + MaxText) - 1 = MaxText
    BY <1>1, <1>2
  <2>2. n = IF e - 1 <= MaxText THEN e - 1 ELSE MaxText
    BY <1>1, <2>1, LesserIs
  <2> HIDE DEF n
  <2>3. QED
    BY <1>1, <2>1, <2>2
<1> HIDE DEF n
<1>5. text \in Seq(-1 .. 10) /\ Len(text) = n /\ \A i \in 1 .. n : text[i] = clear[i]
  <2> DEFINE V == -1 .. 10
  <2>1. clear \in Seq(V) /\ 1 \in Nat \ {0} /\ n \in Nat /\ n \in Int /\ n = (1 + n) - 1
    BY <1>1, <1>4
  <2>2. n <= Len(clear)
    BY <1>1, <1>4
  <2> HIDE DEF V
  <2>3. text \in Seq(V) /\ Len(text) = n /\ \A i \in 1 .. n : text[i] = clear[(1 + i) - 1]
    BY <1>3, <2>1, <2>2, PieceIs
  <2>4. \A i \in 1 .. n : (1 + i) - 1 = i
    BY <1>4
  <2>5. QED
    BY <2>3, <2>4 DEF V
<1>6. \A i \in 1 .. n : text[i] \in 0 .. 10
  <2>1. \A i \in 1 .. n : clear[i] # NoChar
    BY <1>1, <1>2, <1>4
  <2>2. \A i \in 1 .. n : text[i] \in -1 .. 10
    BY <1>5, ElementOfSeq
  <2>3. QED
    BY <1>5, <2>1, <2>2 DEF NoChar
<1>7. text \in Text
  BY <1>5, <1>6 DEF Text, Letter
<1>8. \A m \in 0 .. MaxText : (\A i \in 1 .. m : clear[i] # NoChar) => m <= n
  BY <1>1, <1>2, <1>4
<1>9. clear[1] = NoChar => n = 0
  BY <1>1, <1>2, <1>4
<1>10. LenIs(text, n)
  BY <1>5 DEF LenIs
<1>11. QED
  BY <1>4, <1>5, <1>7, <1>8, <1>9, <1>10

\* A field at position i of a text is read as it was written.
LEMMA PlainlyRead ==
  ASSUME NEW s \in Text, NEW i \in Nat \ {0}, NEW v \in Text, NEW n \in 0 .. 999, LenIs(v, n),
         Holds(s, i, v), NEW m \in 0 .. MaxText, LenIs(s, m)
  PROVE  LengthAt(s)[i] = n /\ ValueAt(s)[i] = v
<1>1. MaxText \in Nat
  BY MaxTextIs
<1>2. (i + 5) + n <= m
  BY DEF Holds, LenIs
<1>3. i \in 1 .. MaxText
  BY <1>1, <1>2
<1>4. Sits(v, n, s, i)
  BY <1>3 DEF Sits
<1>5. QED
  BY <1>4, FieldRead

\* A copy into a cleared member leaves the value.
LEMMA IntoNothing == \A v \in Text : Strncpy(<<>>, v) = v
<1> SUFFICES ASSUME NEW v \in Text PROVE Strncpy(<<>>, v) = v
  OBVIOUS
<1>1. PICK n \in Nat : Len(v) = n
  BY LenOfText
<1>2. SubSeq(<<>>, n + 1, Len(<<>>)) = <<>>
  <2>1. n + 1 \in Int /\ Len(<<>>) = 0 /\ 0 \in Int /\ n + 1 > 0
    OBVIOUS
  <2>2. QED
    BY <2>1, SubSeqEmpty
<1>3. v \in Seq(0 .. Letter)
  BY DEF Text
<1>4. v \o <<>> = v
  BY <1>3, ConcatEmptySeq
<1>5. QED
  BY <1>1, <1>2, <1>4 DEF Strncpy

\* A text with a card's five fields parses to the card,
LEMMA WholeRead ==
  ASSUME NEW c \in Cards, NEW s \in Text, NEW m \in 0 .. MaxText, LenIs(s, m), HoldsCard(s, c),
         NEW old
  PROVE  Parsed(old, s) = Face[c]
<1>1. PICK p \in 0 .. 19, a \in 0 .. 76, b \in 0 .. 37, d \in 0 .. 4, e \in 0 .. 4 :
        /\ LenIs(Face[c].pan, p) /\ LenIs(Face[c].track1, a) /\ LenIs(Face[c].track2, b)
        /\ LenIs(Face[c].dtv, d) /\ LenIs(Face[c].cvv, e)
        /\ Holds(s, 1, Face[c].pan)
        /\ Holds(s, (6 + p) + 1, Face[c].track1)
        /\ Holds(s, ((6 + p) + (6 + a)) + 1, Face[c].track2)
        /\ Holds(s, (((6 + p) + (6 + a)) + (6 + b)) + 1, Face[c].dtv)
        /\ Holds(s, ((((6 + p) + (6 + a)) + (6 + b)) + (6 + d)) + 1, Face[c].cvv)
  BY DEF HoldsCard
<1> DEFINE i2 == (6 + p) + 1
           i3 == ((6 + p) + (6 + a)) + 1
           i4 == (((6 + p) + (6 + a)) + (6 + b)) + 1
           i5 == ((((6 + p) + (6 + a)) + (6 + b)) + (6 + d)) + 1
<1>2. /\ Face[c].pan \in Text /\ Face[c].track1 \in Text /\ Face[c].track2 \in Text
      /\ Face[c].dtv \in Text /\ Face[c].cvv \in Text
  BY FaceIs
<1>3. /\ 1 \in Nat \ {0} /\ i2 \in Nat \ {0} /\ i3 \in Nat \ {0} /\ i4 \in Nat \ {0}
      /\ i5 \in Nat \ {0} /\ p \in 0 .. 999 /\ a \in 0 .. 999 /\ b \in 0 .. 999
      /\ d \in 0 .. 999 /\ e \in 0 .. 999
  OBVIOUS
<1>4. (1 + 6) + p = i2 /\ (i2 + 6) + a = i3 /\ (i3 + 6) + b = i4 /\ (i4 + 6) + d = i5
  OBVIOUS
<1>5. /\ Holds(s, 1, Face[c].pan) /\ Holds(s, i2, Face[c].track1)
      /\ Holds(s, i3, Face[c].track2) /\ Holds(s, i4, Face[c].dtv) /\ Holds(s, i5, Face[c].cvv)
  BY <1>1
<1> HIDE DEF i2, i3, i4, i5
<1>6. LengthAt(s)[1] = p /\ ValueAt(s)[1] = Face[c].pan
  <2> DEFINE i == 1
  <2>1. /\ Face[c].pan \in Text /\ LenIs(Face[c].pan, p) /\ p \in 0 .. 999
        /\ i \in Nat \ {0} /\ Holds(s, i, Face[c].pan)
    BY <1>1, <1>2, <1>3, <1>5
  <2> HIDE DEF i
  <2>2. LengthAt(s)[i] = p /\ ValueAt(s)[i] = Face[c].pan
    BY <2>1, PlainlyRead, ZenonT(90)
  <2>3. QED
    BY <2>2 DEF i
<1>7. LengthAt(s)[i2] = a /\ ValueAt(s)[i2] = Face[c].track1
  <2>1. /\ Face[c].track1 \in Text /\ LenIs(Face[c].track1, a) /\ a \in 0 .. 999
        /\ i2 \in Nat \ {0} /\ Holds(s, i2, Face[c].track1)
    BY <1>1, <1>2, <1>3, <1>5
  <2>2. QED
    BY <2>1, PlainlyRead, ZenonT(90)
<1>8. LengthAt(s)[i3] = b /\ ValueAt(s)[i3] = Face[c].track2
  <2>1. /\ Face[c].track2 \in Text /\ LenIs(Face[c].track2, b) /\ b \in 0 .. 999
        /\ i3 \in Nat \ {0} /\ Holds(s, i3, Face[c].track2)
    BY <1>1, <1>2, <1>3, <1>5
  <2>2. QED
    BY <2>1, PlainlyRead, ZenonT(90)
<1>9. LengthAt(s)[i4] = d /\ ValueAt(s)[i4] = Face[c].dtv
  <2>1. /\ Face[c].dtv \in Text /\ LenIs(Face[c].dtv, d) /\ d \in 0 .. 999
        /\ i4 \in Nat \ {0} /\ Holds(s, i4, Face[c].dtv)
    BY <1>1, <1>2, <1>3, <1>5
  <2>2. QED
    BY <2>1, PlainlyRead, ZenonT(90)
<1>10. ValueAt(s)[i5] = Face[c].cvv
  <2>1. /\ Face[c].cvv \in Text /\ LenIs(Face[c].cvv, e) /\ e \in 0 .. 999
        /\ i5 \in Nat \ {0} /\ Holds(s, i5, Face[c].cvv)
    BY <1>1, <1>2, <1>3, <1>5
  <2>2. QED
    BY <2>1, PlainlyRead, ZenonT(90)
<1>11. Starts(s) = <<1, i2, i3, i4, i5>>
  BY <1>4, <1>6, <1>7, <1>8, <1>9 DEF Starts
<1>12. /\ Starts(s)[1] = 1 /\ Starts(s)[2] = i2 /\ Starts(s)[3] = i3 /\ Starts(s)[4] = i4
       /\ Starts(s)[5] = i5
  BY <1>11
<1>13. Parsed(old, s) =
         [pan |-> Face[c].pan, track1 |-> Face[c].track1, track2 |-> Face[c].track2,
          dtv |-> Face[c].dtv, cvv |-> Face[c].cvv]
  <2>1. /\ Strncpy(<<>>, Face[c].pan) = Face[c].pan
        /\ Strncpy(<<>>, Face[c].track1) = Face[c].track1
        /\ Strncpy(<<>>, Face[c].track2) = Face[c].track2
        /\ Strncpy(<<>>, Face[c].dtv) = Face[c].dtv /\ Strncpy(<<>>, Face[c].cvv) = Face[c].cvv
    BY <1>2, IntoNothing
  <2>2. QED
    BY <1>6, <1>7, <1>8, <1>9, <1>10, <1>12, <2>1 DEF Parsed, ParsedInto, Cleared
<1>14. Face[c] = [pan |-> Face[c].pan, track1 |-> Face[c].track1, track2 |-> Face[c].track2,
                  dtv |-> Face[c].dtv, cvv |-> Face[c].cvv]
  <2>1. Face[c] \in [pan : Seq(0 .. 9), track1 : Text, track2 : Text, dtv : Text, cvv : Text]
    BY CardsAssumption
  <2>2. QED
    BY <2>1
<1>15. QED
  BY <1>13, <1>14, SMTT(40)

\* one that begins with a card's number to that number, and none to none.
LEMMA PanRead ==
  ASSUME NEW c \in Cards, NEW s \in Text, NEW m \in 0 .. MaxText, LenIs(s, m),
         Holds(s, 1, Face[c].pan), NEW old
  PROVE  Parsed(old, s).pan = Face[c].pan
<1>1. PICK p \in 0 .. 19 : LenIs(Face[c].pan, p)
  BY FaceIs
<1>2. Face[c].pan \in Text /\ p \in 0 .. 999 /\ 1 \in Nat \ {0}
  BY FaceIs
<1>3. ValueAt(s)[1] = Face[c].pan
  <2> DEFINE i == 1
  <2>1. /\ Face[c].pan \in Text /\ LenIs(Face[c].pan, p) /\ p \in 0 .. 999 /\ i \in Nat \ {0}
        /\ Holds(s, i, Face[c].pan)
    BY <1>1, <1>2
  <2> HIDE DEF i
  <2>2. ValueAt(s)[i] = Face[c].pan
    BY <2>1, PlainlyRead, ZenonT(90)
  <2>3. QED
    BY <2>2 DEF i
<1>4. Starts(s)[1] = 1
  BY DEF Starts
<1>5. QED
  BY <1>2, <1>3, <1>4, IntoNothing DEF Parsed, ParsedInto, Cleared

\* An empty text has an empty PAN.
LEMMA NothingRead == \A old : Parsed(old, <<>>).pan = <<>>
<1> DEFINE s == <<>>
<1>1. 1 \in 1 .. MaxText /\ Len(s) = 0
  BY MaxTextIs
<1> HIDE DEF s
<1>2. CString(s, 1 + 3, 3, NoChar) = <<>>
  <2>1. 1 + 3 \in Nat \ {0} /\ 3 \in Nat /\ 0 \in Nat /\ 1 + 3 > 0
    OBVIOUS
  <2>2. QED
    BY <1>1, <2>1, CStringBehind
<1>3. LengthAt(s)[1] = 0
  <2>1. ~(Len(<<>>) >= 1)
    OBVIOUS
  <2>2. Atoi(<<>>) = 0
    BY <2>1 DEF Atoi
  <2>3. QED
    BY <1>1, <1>2, <2>2 DEF LengthAt
<1>4. ValueAt(s)[1] = <<>>
  <2>1. 1 + 6 \in Nat \ {0} /\ 0 \in Nat /\ 1 + 6 > 0
    OBVIOUS
  <2>2. CString(s, 1 + 6, 0, NoChar) = <<>>
    BY <1>1, <2>1, CStringBehind
  <2>3. QED
    BY <1>1, <1>3, <2>2 DEF ValueAt
<1>5. Starts(s)[1] = 1
  BY DEF Starts
<1>6. <<>> \in Text
  BY DEF Text
<1>7. QED
  BY <1>4, <1>5, <1>6, IntoNothing DEF Parsed, ParsedInto, Cleared, s

-----------------------------------------------------------------------------
(* What the client sends.                                                  *)

Written ==
  ({"ksn"} \X (Devices \X Nat) \X Nat) \cup ({"pin"} \X (Devices \X Nat \X Cards) \X Nat)
  \cup ({"data"} \X Cards \X Nat)
Characters == Written \cup {Nul}

\* The purchases a PIN pad makes.
Asked == {r \in Request : r.n \in CounterValues /\ (r.lacks # "nothing" => r.cut = 0)}

\* No character of a message is a terminator.
LEMMA NulIsNone == Nul \notin Written
BY DEF Nul, Written

\* Every character of data is of some card.
LEMMA DataIsCards ==
  \A x \in Characters : x[1] = "data" => x[2] \in Cards
BY DEF Characters, Written, Nul

\* The members of a request.
LEMMA AskedIs ==
  ASSUME NEW r \in Asked
  PROVE  /\ r \in Request /\ r.device \in Devices /\ r.n \in Nat /\ r.n \in CounterValues
         /\ r.card \in Cards /\ r.cut \in 0 .. 4
         /\ r.lacks \in {"nothing", "ksn", "data"}
         /\ r.lacks # "nothing" => r.cut = 0
BY BoundsAssumption DEF Asked, Request

\* The characters of a part of a message.
LEMMA PartIs ==
  ASSUME NEW name, NEW of, NEW n \in Nat,
         \A i \in 1 .. n : <<name, of, i>> \in Written
  PROVE  /\ Part(name, of, n) \in Seq(Written) /\ LenIs(Part(name, of, n), n)
         /\ \A i \in 1 .. n : Part(name, of, n)[i] = <<name, of, i>>
BY DEF Part, LenIs

\* The three parts of a message.
LEMMA PartsAre ==
  ASSUME NEW r \in Asked, NEW t \in Nat, LenIs(Texts[r.card], t)
  PROVE  /\ KsnChars(r) \in Seq(Written) /\ LenIs(KsnChars(r), 20)
         /\ \A i \in 1 .. 20 : KsnChars(r)[i] = <<"ksn", <<r.device, r.n>>, i>>
         /\ PinChars(r) \in Seq(Written) /\ LenIs(PinChars(r), 16)
         /\ \A i \in 1 .. 16 : PinChars(r)[i] = <<"pin", <<r.device, r.n, r.card>>, i>>
         /\ DataChars(r) \in Seq(Written) /\ LenIs(DataChars(r), 2 * t)
         /\ \A i \in 1 .. 2 * t : DataChars(r)[i] = <<"data", r.card, i>>
<1>1. r.device \in Devices /\ r.n \in Nat /\ r.card \in Cards
  BY AskedIs
<1> DEFINE d == r.device
           n == r.n
           c == r.card
<1>2. KsnChars(r) = Part("ksn", <<d, n>>, 20) /\ PinChars(r) = Part("pin", <<d, n, c>>, 16)
  BY DEF KsnChars, PinChars
<1>3. DataChars(r) = Part("data", c, 2 * t) /\ 2 * t \in Nat
  BY DEF DataChars, LenIs
<1> HIDE DEF d, n, c
<1>4. /\ \A i \in 1 .. 20 : <<"ksn", <<d, n>>, i>> \in Written
      /\ \A i \in 1 .. 16 : <<"pin", <<d, n, c>>, i>> \in Written
      /\ \A i \in 1 .. 2 * t : <<"data", c, i>> \in Written
  BY <1>1 DEF Written, d, n, c
<1>5. /\ KsnChars(r) \in Seq(Written) /\ LenIs(KsnChars(r), 20)
      /\ \A i \in 1 .. 20 : KsnChars(r)[i] = <<"ksn", <<d, n>>, i>>
  BY <1>2, <1>4 DEF Part, LenIs
<1>6. /\ PinChars(r) \in Seq(Written) /\ LenIs(PinChars(r), 16)
      /\ \A i \in 1 .. 16 : PinChars(r)[i] = <<"pin", <<d, n, c>>, i>>
  BY <1>2, <1>4 DEF Part, LenIs
<1>7. /\ DataChars(r) \in Seq(Written) /\ LenIs(DataChars(r), 2 * t)
      /\ \A i \in 1 .. 2 * t : DataChars(r)[i] = <<"data", c, i>>
  BY <1>3, <1>4, PartIs
<1>8. QED
  BY <1>5, <1>6, <1>7 DEF d, n, c

\* What of a purchase reaches the HSM: how many characters, and, when nothing
\* lacks but the last ones, which.
LEMMA MessageIs ==
  ASSUME NEW r \in Asked, NEW t \in 32 .. 200, LenIs(Texts[r.card], t)
  PROVE  /\ Message(r) \in Seq(Written)
         /\ r.lacks = "ksn" => LenIs(Message(r), 16 + 2 * t)
         /\ r.lacks = "data" => LenIs(Message(r), 36)
         /\ r.lacks = "nothing" =>
              /\ LenIs(Message(r), 36 + (2 * t - r.cut))
              /\ \A i \in 1 .. 20 : Message(r)[i] = <<"ksn", <<r.device, r.n>>, i>>
              /\ \A i \in 1 .. 16 :
                   Message(r)[20 + i] = <<"pin", <<r.device, r.n, r.card>>, i>>
              /\ \A i \in 1 .. 2 * t - r.cut : Message(r)[36 + i] = <<"data", r.card, i>>
<1> DEFINE V == Written
           a == IF r.lacks = "ksn" THEN <<>> ELSE KsnChars(r)
           b == PinChars(r)
           data == DataChars(r)
           d == IF r.lacks = "data" THEN <<>> ELSE SubSeq(data, 1, 2 * t - r.cut)
           m == 2 * t - r.cut
           ab == a \o b
           all == Message(r)
<1>0. t \in Nat /\ r.cut \in 0 .. 4 /\ r.lacks \in {"nothing", "ksn", "data"}
      /\ (r.lacks # "nothing" => r.cut = 0)
  BY AskedIs
<1>1. /\ KsnChars(r) \in Seq(V) /\ LenIs(KsnChars(r), 20)
      /\ \A i \in 1 .. 20 : KsnChars(r)[i] = <<"ksn", <<r.device, r.n>>, i>>
      /\ b \in Seq(V) /\ LenIs(b, 16)
      /\ \A i \in 1 .. 16 : b[i] = <<"pin", <<r.device, r.n, r.card>>, i>>
      /\ data \in Seq(V) /\ LenIs(data, 2 * t)
      /\ \A i \in 1 .. 2 * t : data[i] = <<"data", r.card, i>>
  BY <1>0, PartsAre
<1>2. m \in Nat /\ m <= 2 * t
  BY <1>0
<1>3. IsJoined(ab, a, b) /\ IsJoined(all, ab, d)
  BY <1>1 DEF IsJoined, Message, LenIs
<1> HIDE DEF V, b, data, ab, all
<1>4. /\ SubSeq(data, 1, m) \in Seq(V) /\ Len(SubSeq(data, 1, m)) = m
      /\ \A i \in 1 .. m : SubSeq(data, 1, m)[i] = data[i]
  <2> DEFINE s == SubSeq(data, 1, m)
  <2>1. 1 \in Nat \ {0} /\ m \in Int /\ m = (1 + m) - 1
    BY <1>2
  <2>2. m <= Len(data)
    BY <1>1, <1>2 DEF LenIs
  <2>3. s = SubSeq(data, 1, m)
    OBVIOUS
  <2>4. data \in Seq(V)
    BY <1>1
  <2> HIDE DEF s, m
  <2>5. s \in Seq(V) /\ Len(s) = m /\ \A i \in 1 .. m : s[i] = data[(1 + i) - 1]
    BY <1>2, <2>1, <2>2, <2>3, <2>4, PieceIs
  <2>6. \A i \in 1 .. m : (1 + i) - 1 = i
    BY <1>2
  <2>7. QED
    BY <2>5, <2>6 DEF s
<1>5. a \in Seq(V) /\ d \in Seq(V)
  BY <1>1, <1>4 DEF m
<1>6. /\ r.lacks = "ksn" => Len(a) = 0
      /\ r.lacks # "ksn" => Len(a) = 20 /\ a = KsnChars(r)
      /\ r.lacks = "data" => Len(d) = 0
      /\ r.lacks # "data" => Len(d) = m /\ d = SubSeq(data, 1, m)
  BY <1>1, <1>4 DEF LenIs, m
<1> HIDE DEF a, d, m
<1>7. /\ ab \in Seq(V) /\ Len(ab) = Len(a) + Len(b)
      /\ \A i \in 1 .. Len(a) : ab[i] = a[i]
      /\ \A i \in 1 .. Len(b) : ab[Len(a) + i] = b[i]
  <2>1. a \in Seq(V) /\ b \in Seq(V) /\ IsJoined(ab, a, b)
    BY <1>1, <1>3, <1>5
  <2>2. QED
    BY <2>1, Joined
<1>8. /\ all \in Seq(V) /\ Len(all) = Len(ab) + Len(d)
      /\ \A i \in 1 .. Len(ab) : all[i] = ab[i]
      /\ \A i \in 1 .. Len(d) : all[Len(ab) + i] = d[i]
  <2>1. ab \in Seq(V) /\ d \in Seq(V) /\ IsJoined(all, ab, d)
    BY <1>3, <1>5, <1>7
  <2>2. QED
    BY <2>1, Joined
<1>9. Len(b) = 16
  BY <1>1 DEF LenIs
<1>10. ASSUME r.lacks = "ksn" PROVE Len(all) = 16 + 2 * t
  <2>1. Len(a) = 0 /\ Len(d) = m /\ m = 2 * t
    BY <1>0, <1>6, <1>10 DEF m
  <2>2. Len(ab) = 16
    BY <1>7, <1>9, <2>1
  <2>3. QED
    BY <1>8, <2>1, <2>2
<1>11. ASSUME r.lacks = "data" PROVE Len(all) = 36
  <2>1. Len(a) = 20 /\ Len(d) = 0
    BY <1>6, <1>11
  <2>2. Len(ab) = 36
    BY <1>7, <1>9, <2>1, SMTT(40)
  <2>3. QED
    BY <1>8, <2>1, <2>2
<1>12. ASSUME r.lacks = "nothing"
       PROVE  /\ Len(all) = 36 + m
              /\ \A i \in 1 .. 20 : all[i] = <<"ksn", <<r.device, r.n>>, i>>
              /\ \A i \in 1 .. 16 : all[20 + i] = <<"pin", <<r.device, r.n, r.card>>, i>>
              /\ \A i \in 1 .. m : all[36 + i] = <<"data", r.card, i>>
  <2>1. Len(a) = 20 /\ a = KsnChars(r) /\ Len(d) = m /\ d = SubSeq(data, 1, m)
    BY <1>6, <1>12
  <2>2. Len(ab) = 36
    BY <1>7, <1>9, <2>1
  <2>3. /\ \A i \in 1 .. 20 : all[i] = a[i]
        /\ \A i \in 1 .. 16 : all[20 + i] = b[i]
    <3>1. /\ \A i \in 1 .. 36 : all[i] = ab[i]
          /\ \A i \in 1 .. 20 : ab[i] = a[i]
          /\ \A i \in 1 .. 16 : ab[20 + i] = b[i]
      BY <1>7, <1>8, <1>9, <2>1, <2>2
    <3>2. /\ \A i \in 1 .. 20 : i \in 1 .. 36
          /\ \A i \in 1 .. 16 : 20 + i \in 1 .. 36
      OBVIOUS
    <3>3. QED
      BY <3>1, <3>2
  <2>4. \A i \in 1 .. m : all[36 + i] = d[i]
    BY <1>8, <2>1, <2>2
  <2>5. \A i \in 1 .. m : d[i] = <<"data", r.card, i>>
    <3>1. \A i \in 1 .. m : i \in 1 .. 2 * t
      BY <1>0, <1>2
    <3>2. QED
      BY <1>1, <1>4, <2>1, <3>1
  <2>6. Len(all) = 36 + m
    BY <1>8, <2>1, <2>2
  <2>7. QED
    BY <1>1, <2>1, <2>3, <2>4, <2>5, <2>6
<1>13. QED
  BY <1>8, <1>10, <1>11, <1>12 DEF all, V, m, LenIs

-----------------------------------------------------------------------------
(* What the HSM makes of it.                                               *)

\* The buffer with a message, its end, and what was in the buffer behind.
LEMMA HeardIs ==
  ASSUME NEW old \in Seq(Characters), NEW size \in Nat, LenIs(old, size),
         NEW s \in Seq(Written), NEW m \in 0 .. size - 1, LenIs(s, m)
  PROVE  /\ Strcpy(old, s) \in Seq(Characters) /\ LenIs(Strcpy(old, s), size)
         /\ \A i \in 1 .. m : Strcpy(old, s)[i] = s[i]
         /\ Strcpy(old, s)[m + 1] = Nul
<1> DEFINE V == Characters
           u == s \o <<Nul>>
           rest == SubSeq(old, m + 2, size)
           h == Strcpy(old, s)
<1>0. Len(old) = size /\ Len(s) = m
  BY DEF LenIs
<1>1. IsJoined(u, s, <<Nul>>) /\ IsJoined(h, u, rest)
  BY <1>0 DEF IsJoined, Strcpy
<1>2. s \in Seq(V) /\ <<Nul>> \in Seq(V) /\ old \in Seq(V)
  <2>1. Written \subseteq V /\ Nul \in V
    BY DEF Characters
  <2>2. s \in Seq(V)
    BY <2>1
  <2>3. <<Nul>> \in Seq(V)
    <3> HIDE DEF V
    <3>1. QED
      BY <2>1
  <2>4. QED
    BY <2>2, <2>3
<1> HIDE DEF V, u, rest, h
<1>3. rest \in Seq(V) /\ Len(rest) = size - (m + 1)
  <2> DEFINE k == size - (m + 1)
             a == m + 2
  <2>1. k \in Nat /\ a \in Nat \ {0} /\ size \in Int /\ size = (a + k) - 1 /\ size <= Len(old)
    BY <1>0
  <2>2. rest = SubSeq(old, a, size)
    BY DEF rest
  <2> HIDE DEF k, a
  <2>3. rest \in Seq(V) /\ Len(rest) = k
    BY <1>2, <2>1, <2>2, PieceIs
  <2>4. QED
    BY <2>3 DEF k
<1>4. /\ u \in Seq(V) /\ Len(u) = Len(s) + Len(<<Nul>>)
      /\ \A i \in 1 .. Len(s) : u[i] = s[i]
      /\ \A i \in 1 .. Len(<<Nul>>) : u[Len(s) + i] = <<Nul>>[i]
  <2> DEFINE w == <<Nul>>
  <2>1. s \in Seq(V) /\ w \in Seq(V) /\ IsJoined(u, s, w)
    BY <1>1, <1>2
  <2> HIDE DEF w
  <2>2. /\ u \in Seq(V) /\ Len(u) = Len(s) + Len(w)
        /\ \A i \in 1 .. Len(s) : u[i] = s[i]
        /\ \A i \in 1 .. Len(w) : u[Len(s) + i] = w[i]
    BY <2>1, Joined
  <2>3. QED
    BY <2>2 DEF w
<1>5. Len(u) = m + 1 /\ u[m + 1] = Nul /\ \A i \in 1 .. m : u[i] = s[i]
  <2>1. Len(<<Nul>>) = 1 /\ <<Nul>>[1] = Nul /\ 1 \in 1 .. 1
    OBVIOUS
  <2>2. QED
    BY <1>0, <1>4, <2>1
<1>6. /\ h \in Seq(V) /\ Len(h) = Len(u) + Len(rest)
      /\ \A i \in 1 .. Len(u) : h[i] = u[i]
  <2>1. u \in Seq(V) /\ rest \in Seq(V)
    BY <1>3, <1>4
  <2>2. QED
    BY <1>1, <2>1, Joined
<1>7. Len(h) = size
  BY <1>3, <1>5, <1>6
<1>8. h[m + 1] = Nul /\ \A i \in 1 .. m : h[i] = s[i]
  <2>1. m + 1 \in 1 .. m + 1 /\ \A i \in 1 .. m : i \in 1 .. m + 1
    OBVIOUS
  <2>2. \A i \in 1 .. m + 1 : h[i] = u[i]
    BY <1>5, <1>6
  <2>3. QED
    BY <1>5, <2>1, <2>2
<1>9. QED
  BY <1>6, <1>7, <1>8 DEF LenIs, h, V

Behind(data, n, s) == \A i \in 1 .. n : data[i] = s[36 + i]

\* The three strings in a buffer with a message of at least 36 characters.
LEMMA StringsHeard ==
  ASSUME NEW h \in Seq(Characters), NEW size \in Nat, LenIs(h, size),
         NEW s \in Seq(Written), NEW m \in 36 .. size - 1, LenIs(s, m),
         \A i \in 1 .. m : h[i] = s[i], h[m + 1] = Nul
  PROVE  /\ LenIs(CString(h, 1, 20, Nul), 20)
         /\ \A i \in 1 .. 20 : CString(h, 1, 20, Nul)[i] = s[i]
         /\ LenIs(CString(h, 21, 16, Nul), 16)
         /\ \A i \in 1 .. 16 : CString(h, 21, 16, Nul)[i] = s[20 + i]
         /\ LenIs(CString(h, 37, size, Nul), m - 36)
         /\ Behind(CString(h, 37, size, Nul), m - 36, s)
         /\ CString(h, 1, 20, Nul) \in Seq(Characters)
         /\ CString(h, 21, 16, Nul) \in Seq(Characters)
         /\ CString(h, 37, size, Nul) \in Seq(Characters)
<1> DEFINE V == Characters
           ksn == CString(h, 1, 20, Nul)
           pin == CString(h, 21, 16, Nul)
           data == CString(h, 37, size, Nul)
<1>0. Len(h) = size /\ Len(s) = m /\ h \in Seq(V)
  BY DEF LenIs
<1>1. \A i \in 1 .. m : h[i] # Nul
  <2>1. \A i \in 1 .. m : s[i] \in Written
    BY <1>0, ElementOfSeq
  <2>2. QED
    BY <2>1, NulIsNone
<1>2. ksn = SubSeq(h, 1, 20)
  <2> DEFINE i == 1
             n == 20
  <2>1. (i + n) - 1 = 20 /\ (i + n) - 1 <= size /\ i \in Nat \ {0} /\ n \in Nat
    OBVIOUS
  <2>2. \A j \in i .. (i + n) - 1 : h[j] # Nul
    BY <1>1, <2>1
  <2>3. ksn = CString(h, i, n, Nul)
    OBVIOUS
  <2> HIDE DEF i, n, ksn
  <2>4. ksn = SubSeq(h, i, (i + n) - 1)
    BY <1>0, <2>1, <2>2, <2>3, CStringFull
  <2>5. QED
    BY <2>1, <2>4 DEF i
<1>3. pin = SubSeq(h, 21, 36)
  <2> DEFINE i == 21
             n == 16
  <2>1. (i + n) - 1 = 36 /\ (i + n) - 1 <= size /\ i \in Nat \ {0} /\ n \in Nat
    OBVIOUS
  <2>2. \A j \in i .. (i + n) - 1 : h[j] # Nul
    BY <1>1, <2>1
  <2>3. pin = CString(h, i, n, Nul)
    OBVIOUS
  <2> HIDE DEF i, n, pin
  <2>4. pin = SubSeq(h, i, (i + n) - 1)
    BY <1>0, <2>1, <2>2, <2>3, CStringFull
  <2>5. QED
    BY <2>1, <2>4 DEF i
<1>4. data = SubSeq(h, 37, m)
  <2> DEFINE k == m + 1
  <2>1. /\ 37 \in Nat \ {0} /\ k \in 37 .. size + 1 /\ k - 1 <= (37 + size) - 1 /\ k - 1 = m
        /\ k <= size
    OBVIOUS
  <2>2. \A j \in 37 .. k - 1 : h[j] # Nul
    BY <1>1, <2>1
  <2>3. k <= size => h[k] = Nul
    OBVIOUS
  <2> HIDE DEF k
  <2>4. data = SubSeq(h, 37, k - 1)
    BY <1>0, <2>1, <2>2, <2>3, CStringEnded
  <2>5. QED
    BY <2>1, <2>4
<1> HIDE DEF V, ksn, pin, data
<1>5. ksn \in Seq(V) /\ Len(ksn) = 20 /\ \A i \in 1 .. 20 : ksn[i] = s[i]
  <2> DEFINE a == 1
             n == 20
  <2>1. a \in Nat \ {0} /\ n \in Nat /\ n \in Int /\ n = (a + n) - 1 /\ n <= Len(h)
    BY <1>0
  <2>2. ksn = SubSeq(h, a, n)
    BY <1>2
  <2> HIDE DEF a, n
  <2>3. ksn \in Seq(V) /\ Len(ksn) = n /\ \A i \in 1 .. n : ksn[i] = h[(a + i) - 1]
    BY <1>0, <2>1, <2>2, PieceIs
  <2>4. n = 20 /\ \A i \in 1 .. 20 : (a + i) - 1 = i /\ i \in 1 .. m
    BY DEF a, n
  <2>5. QED
    BY <2>3, <2>4
<1>6. pin \in Seq(V) /\ Len(pin) = 16 /\ \A i \in 1 .. 16 : pin[i] = s[20 + i]
  <2> DEFINE a == 21
             n == 16
             b == 36
  <2>1. a \in Nat \ {0} /\ n \in Nat /\ b \in Int /\ b = (a + n) - 1 /\ b <= Len(h)
    BY <1>0
  <2>2. pin = SubSeq(h, a, b)
    BY <1>3
  <2> HIDE DEF a, n, b
  <2>3. pin \in Seq(V) /\ Len(pin) = n /\ \A i \in 1 .. n : pin[i] = h[(a + i) - 1]
    BY <1>0, <2>1, <2>2, PieceIs
  <2>4. n = 16 /\ \A i \in 1 .. 16 : (a + i) - 1 = 20 + i /\ 20 + i \in 1 .. m
    BY DEF a, n
  <2>5. QED
    BY <2>3, <2>4
<1>7. data \in Seq(V) /\ Len(data) = m - 36 /\ \A i \in 1 .. m - 36 : data[i] = s[36 + i]
  <2> DEFINE a == 37
             n == m - 36
  <2>1. a \in Nat \ {0} /\ n \in Nat /\ m \in Int /\ m = (a + n) - 1 /\ m <= Len(h)
    BY <1>0
  <2>2. data = SubSeq(h, a, m)
    BY <1>4
  <2> HIDE DEF a, n
  <2>3. data \in Seq(V) /\ Len(data) = n /\ \A i \in 1 .. n : data[i] = h[(a + i) - 1]
    BY <1>0, <2>1, <2>2, PieceIs
  <2>4. n = m - 36 /\ \A i \in 1 .. m - 36 : (a + i) - 1 = 36 + i /\ 36 + i \in 1 .. m
    BY DEF a, n
  <2>5. QED
    BY <2>3, <2>4
<1>8. QED
  BY <1>5, <1>6, <1>7 DEF Behind, LenIs, ksn, pin, data, V

\* Without a message there is not even a KSN.
LEMMA NothingHeard ==
  ASSUME NEW h, NEW size \in Nat \ {0}, LenIs(h, size), h[1] = Nul
  PROVE  CString(h, 1, 20, Nul) = <<>>
<1>1. Len(h) = size /\ 1 \in Nat \ {0} /\ 20 \in Nat /\ 1 \in 1 .. size + 1 /\ 1 - 1 = 0
      /\ 0 <= (1 + 20) - 1
  BY DEF LenIs
<1>2. CString(h, 1, 20, Nul) = SubSeq(h, 1, 0)
  <2>1. \A j \in 1 .. 1 - 1 : h[j] # Nul
    OBVIOUS
  <2>2. 1 - 1 <= (1 + 20) - 1 /\ (1 <= size => h[1] = Nul)
    OBVIOUS
  <2>3. CString(h, 1, 20, Nul) = SubSeq(h, 1, 1 - 1)
    BY <1>1, <2>1, <2>2, CStringEnded
  <2>4. QED
    BY <1>1, <2>3
<1>3. SubSeq(h, 1, 0) = <<>>
  <2>1. 1 \in Int /\ 0 \in Int /\ 1 > 0
    OBVIOUS
  <2>2. QED
    BY <2>1, SubSeqEmpty
<1>4. QED
  BY <1>2, <1>3

\* s is the data of card c, k blocks of eight bytes, or lacks its last character.
Carries(s, len, c, t, k) ==
  /\ c \in Cards /\ t \in Nat /\ LenIs(Texts[c], t) /\ k \in Nat /\ t = 8 * k
  /\ len \in 2 * t - 1 .. 2 * t /\ LenIs(s, len)
  /\ \A i \in 1 .. len : s[i] = <<"data", c, i>>

\* A block of the data whose sixteen characters have all arrived is intact and
\* deciphers to its eight characters, and any other to eight characters.
LEMMA BlockDeciphers ==
  ASSUME NEW s, NEW len, NEW c, NEW t, NEW k, Carries(s, len, c, t, k),
         NEW b \in 1 .. k, NEW j \in 1 .. 8
  PROVE  /\ DecipheredBlock(s, b)[j] \in 0 .. 10
         /\ 16 * b <= len => /\ DecipheredBlock(s, b)[j] = Texts[c][8 * (b - 1) + j]
                             /\ Intact(s, b)
<1> DEFINE chars == BlockChars(s, b)
           first == chars[1]
           at == 16 * (b - 1) + 1
<1>0. /\ c \in Cards /\ t \in Nat /\ k \in Nat /\ t = 8 * k /\ len \in 2 * t - 1 .. 2 * t
      /\ \A i \in 1 .. len : s[i] = <<"data", c, i>>
  BY DEF Carries
<1>1. Len(s) = len /\ Len(Texts[c]) = t
  BY DEF Carries, LenIs
<1>2. DecipheredBlock(s, b)[j] =
        IF Intact(s, b) THEN Texts[first[2]][((first[3] - 1) \div 2) + j] ELSE 10
  <2>1. DecipheredBlock(s, b) =
          IF Intact(s, b) THEN [i \in 1 .. 8 |-> Texts[first[2]][((first[3] - 1) \div 2) + i]]
                          ELSE [i \in 1 .. 8 |-> Letter]
    BY DEF DecipheredBlock
  <2> HIDE DEF first, chars
  <2>2. QED
    BY <2>1 DEF Letter
<1>01. chars = [i \in 1 .. 16 |-> IF 16 * (b - 1) + i <= Len(s) THEN s[16 * (b - 1) + i] ELSE Nul]
  BY DEF BlockChars
<1>02. /\ first[1] = "data" /\ first[3] % 16 = 1
       /\ \A i \in 1 .. 16 : chars[i] = <<"data", first[2], first[3] + i - 1>>
       => Intact(s, b)
  BY DEF Intact
<1> HIDE DEF chars
<1>3. at \in 1 .. len /\ at % 16 = 1 /\ (at - 1) \div 2 = 8 * (b - 1)
  BY <1>0
<1>4. first = <<"data", c, at>>
  <2>1. chars[1] = s[at]
    BY <1>0, <1>01, <1>1, <1>3
  <2>2. QED
    BY <1>0, <1>3, <2>1
<1>5. first[1] = "data" /\ first[2] = c /\ first[3] = at
  BY <1>4
<1>6. 16 * b <= len => Intact(s, b)
  <2>1. ASSUME 16 * b <= len, NEW i \in 1 .. 16
        PROVE  chars[i] = <<"data", first[2], first[3] + i - 1>>
    <3>1. 16 * (b - 1) + i \in 1 .. len /\ 16 * (b - 1) + i = at + i - 1
      BY <1>0, <2>1
    <3>2. chars[i] = s[16 * (b - 1) + i]
      BY <1>0, <1>01, <1>1, <3>1
    <3>3. chars[i] = <<"data", c, at + i - 1>>
      BY <1>0, <3>1, <3>2
    <3> HIDE DEF first, at
    <3>4. QED
      BY <1>5, <3>3
  <2> HIDE DEF first, at
  <2>2. first[3] % 16 = 1
    BY <1>3, <1>5
  <2>3. QED
    BY <1>02, <1>5, <2>1, <2>2
<1>7. Texts[first[2]][((first[3] - 1) \div 2) + j] = Texts[c][8 * (b - 1) + j]
  BY <1>3, <1>5
<1>8. Texts[c][8 * (b - 1) + j] \in 0 .. 10
  <2>1. 8 * (b - 1) + j \in 1 .. t
    BY <1>0
  <2>2. Texts[c] \in Text
    BY <1>0, CardTextIs
  <2>3. QED
    BY <1>1, <2>1, <2>2, LenOfText
<1> HIDE DEF first, at
<1>9. QED
  BY <1>2, <1>6, <1>7, <1>8

\* The text the data of a card deciphers to, whole or without its last block.
LEMMA DataDeciphers ==
  ASSUME NEW c \in Cards, NEW t \in 32 .. 200, LenIs(Texts[c], t), t % 8 = 0,
         NEW s, NEW cut \in 0 .. 1, LenIs(s, 2 * t - cut),
         \A i \in 1 .. 2 * t - cut : s[i] = <<"data", c, i>>
  PROVE  /\ Deciphers(Len(s))
         /\ MkWkDecryptData(s) \in Seq(0 .. 10) /\ LenIs(MkWkDecryptData(s), t)
         /\ \A i \in 1 .. t - 8 * cut : MkWkDecryptData(s)[i] = Texts[c][i]
         /\ cut = 0 => Intact(s, Bytes(Len(s)) \div 8)
<1> DEFINE len == 2 * t - cut
           k == t \div 8
           w == MkWkDecryptData(s)
<1>1. Len(s) = len /\ len \in 2 * t - 1 .. 2 * t /\ t \in Nat /\ k \in Nat /\ t = 8 * k
  BY DEF LenIs
<1>2. Bytes(Len(s)) = t
  <2> HIDE DEF k
  <2>1. (len + 1) \div 2 = t
    OBVIOUS
  <2>2. QED
    BY <1>1, <2>1 DEF Bytes
<1>3. Deciphers(Len(s))
  BY <1>2 DEF Deciphers
<1>4. w = [i \in 1 .. t |-> DecipheredBlock(s, ((i - 1) \div 8) + 1)[((i - 1) % 8) + 1]]
  <2>1. w = [i \in 1 .. 8 * (t \div 8) |-> DecipheredBlock(s, ((i - 1) \div 8) + 1)[((i - 1) % 8) + 1]]
    BY <1>2 DEF MkWkDecryptData
  <2>2. 8 * (t \div 8) = t
    OBVIOUS
  <2> HIDE DEF w
  <2>3. QED
    BY <2>1, <2>2
<1>5. LenIs(s, len) /\ \A i \in 1 .. len : s[i] = <<"data", c, i>>
  OBVIOUS
<1>05. cut = 0 => 16 * k <= len
  BY <1>1
<1>06. Bytes(Len(s)) \div 8 = k /\ k >= 1
  BY <1>2
<1> HIDE DEF w, k, len
<1>6. Carries(s, len, c, t, k)
  BY <1>1, <1>5 DEF Carries
<1>07. cut = 0 => Intact(s, Bytes(Len(s)) \div 8)
  <2>1. k \in 1 .. k /\ 1 \in 1 .. 8
    BY <1>1, <1>06
  <2>2. 16 * k <= len => Intact(s, k)
    BY <1>6, <2>1, BlockDeciphers
  <2>3. QED
    BY <1>05, <1>06, <2>2
<1>7. ASSUME NEW i \in 1 .. t
      PROVE  w[i] \in 0 .. 10 /\ (i <= t - 8 * cut => w[i] = Texts[c][i])
  <2> DEFINE b == ((i - 1) \div 8) + 1
             j == ((i - 1) % 8) + 1
  <2>1. b \in 1 .. k /\ j \in 1 .. 8 /\ 8 * (b - 1) + j = i
    BY <1>1
  <2>2. i <= t - 8 * cut => 16 * b <= len
    <3> HIDE DEF b, j
    <3>1. ASSUME i <= t - 8 * cut PROVE 16 * b <= len
      <4>1. CASE cut = 0
        <5>1. 8 * b <= 8 * k
          BY <1>1, <2>1
        <5>2. QED
          BY <1>1, <2>1, <4>1, <5>1 DEF len
      <4>2. CASE cut = 1
        <5>1. 8 * (b - 1) + 1 <= 8 * k - 8
          BY <1>1, <2>1, <3>1, <4>2
        <5>2. b <= k - 1
          BY <1>1, <2>1, <5>1
        <5>3. QED
          BY <1>1, <2>1, <4>2, <5>2 DEF len
      <4>3. QED
        BY <4>1, <4>2
    <3>2. QED
      BY <3>1
  <2>3. w[i] = DecipheredBlock(s, b)[j]
    BY <1>4
  <2> HIDE DEF b, j
  <2>4. /\ DecipheredBlock(s, b)[j] \in 0 .. 10
        /\ 16 * b <= len => DecipheredBlock(s, b)[j] = Texts[c][8 * (b - 1) + j]
    <3>1. QED
      BY <1>6, <2>1, BlockDeciphers
  <2>5. QED
    BY <2>1, <2>2, <2>3, <2>4
<1>8. w \in Seq(0 .. 10) /\ LenIs(w, t)
  <2>1. DOMAIN w = 1 .. t
    BY <1>4
  <2>2. w \in [1 .. t -> 0 .. 10]
    BY <1>4, <1>7
  <2>3. QED
    BY <1>1, <2>2 DEF LenIs
<1>9. QED
  BY <1>07, <1>3, <1>7, <1>8 DEF w

\* bAux then: the text, and what stood behind it.
LEMMA DecryptedIs ==
  ASSUME NEW old \in Seq(-1 .. 10), NEW size \in Nat, LenIs(old, size),
         NEW w \in Seq(0 .. 10), NEW t \in 0 .. size, LenIs(w, t)
  PROVE  /\ Strncpy(old, w) \in Seq(-1 .. 10) /\ LenIs(Strncpy(old, w), size)
         /\ \A i \in 1 .. t : Strncpy(old, w)[i] = w[i]
<1> DEFINE V == -1 .. 10
           rest == SubSeq(old, t + 1, size)
           u == Strncpy(old, w)
<1>1. IsJoined(u, w, rest) /\ Len(old) = size /\ Len(w) = t
  BY DEF LenIs, IsJoined, Strncpy
<1>2. w \in Seq(V) /\ old \in Seq(V)
  <2>1. 0 .. 10 \subseteq V
    OBVIOUS
  <2>2. QED
    BY <2>1
<1> HIDE DEF V, rest, u
<1>3. rest \in Seq(V) /\ Len(rest) = size - t
  <2> DEFINE k == size - t
             a == t + 1
  <2>1. k \in Nat /\ a \in Nat \ {0} /\ size \in Int /\ size = (a + k) - 1 /\ size <= Len(old)
    BY <1>1
  <2>2. rest = SubSeq(old, a, size)
    BY DEF rest
  <2> HIDE DEF k, a
  <2>3. rest \in Seq(V) /\ Len(rest) = k
    BY <1>2, <2>1, <2>2, PieceIs
  <2>4. QED
    BY <2>3 DEF k
<1>4. /\ u \in Seq(V) /\ Len(u) = Len(w) + Len(rest)
      /\ \A i \in 1 .. Len(w) : u[i] = w[i]
  <2>1. w \in Seq(V) /\ rest \in Seq(V) /\ IsJoined(u, w, rest)
    BY <1>1, <1>2, <1>3
  <2>2. QED
    BY <2>1, Joined
<1>5. Len(u) = size
  BY <1>1, <1>3, <1>4
<1>6. QED
  BY <1>1, <1>4, <1>5 DEF LenIs, u, V

-----------------------------------------------------------------------------
(* bAux, from one connection to the next.                                  *)

\* bAux begins with the data of card c, as far as its number.
BeginsWith(s, c) ==
  \E p \in 0 .. 19 : LenIs(Face[c].pan, p) /\ \A i \in 1 .. 6 + p : s[i] = Texts[c][i]

\* What is parsed then has the number of this card.
LEMMA BeginningRead ==
  ASSUME NEW c \in Cards, NEW clear \in Seq(-1 .. 10), LenIs(clear, MaxText + 1),
         BeginsWith(clear, c), NEW text, text = CString(clear, 1, MaxText, NoChar), NEW old
  PROVE  Parsed(old, text).pan = Face[c].pan
<1>1. PICK p \in 0 .. 19 : LenIs(Face[c].pan, p) /\ \A i \in 1 .. 6 + p : clear[i] = Texts[c][i]
  BY DEF BeginsWith
<1>2. PICK t \in 32 .. 200 : LenIs(Texts[c], t) /\ p + 30 <= t
  <2>1. PICK t \in 32 .. 200, q \in 0 .. 19 :
          LenIs(Texts[c], t) /\ t % 8 = 0 /\ LenIs(Face[c].pan, q) /\ q + 30 <= t
    BY CardTextIs
  <2>2. p = q
    BY <1>1, <2>1 DEF LenIs
  <2>3. QED
    BY <2>1, <2>2
<1>3. MaxText \in 32 .. 200 /\ t <= MaxText
  BY <1>2, MaxTextIs
<1>4. PICK n \in 0 .. MaxText :
        /\ text \in Text /\ LenIs(text, n)
        /\ \A i \in 1 .. n : text[i] = clear[i]
        /\ \A m \in 0 .. MaxText : (\A i \in 1 .. m : clear[i] # NoChar) => m <= n
  BY TextRead, SMTT(40)
<1>5. Texts[c] \in Text /\ Holds(Texts[c], 1, Face[c].pan)
  BY CardTextIs DEF HoldsCard
<1>6. 6 + p <= n
  <2>1. \A i \in 1 .. 6 + p : clear[i] \in 0 .. 10
    <3>1. \A i \in 1 .. 6 + p : i \in 1 .. t
      BY <1>2
    <3>2. \A i \in 1 .. t : Texts[c][i] \in 0 .. 10
      BY <1>2, <1>5, LenOfText DEF LenIs
    <3>3. QED
      BY <1>1, <3>1, <3>2
  <2>2. \A i \in 1 .. 6 + p : clear[i] # NoChar
    BY <2>1, SMTT(40) DEF NoChar
  <2>3. 6 + p \in 0 .. MaxText
    BY <1>2, <1>3
  <2>4. QED
    BY <1>4, <2>2, <2>3
<1>7. Holds(text, 1, Face[c].pan)
  <2>1. Face[c].pan \in Text /\ Len(Face[c].pan) = p /\ Len(Texts[c]) = t
    BY <1>1, <1>2, FaceIs DEF LenIs
  <2>2. \A j \in 1 .. 6 + p : text[j] = Texts[c][j]
    BY <1>1, <1>3, <1>4, <1>6
  <2>3. Len(text) = n /\ n \in Nat
    BY <1>3, <1>4 DEF LenIs
  <2>4. Holds(Texts[c], 1, Face[c].pan) => Holds(text, 1, Face[c].pan)
    <3> DEFINE v == Face[c].pan
    <3>0. Len(v) = p
      BY <2>1
    <3>1. 1 + 3 \in 1 .. 6 + p /\ 1 + 4 \in 1 .. 6 + p /\ 1 + 5 \in 1 .. 6 + p
          /\ \A j \in 1 .. p : (1 + 5) + j \in 1 .. 6 + p
      OBVIOUS
    <3>2. (1 + 5) + p <= n
      BY <1>6, <1>3
    <3> HIDE DEF v
    <3>3. Holds(Texts[c], 1, v) => Holds(text, 1, v)
      BY <2>2, <2>3, <3>0, <3>1, <3>2 DEF Holds
    <3>4. QED
      BY <3>3 DEF v
  <2>5. QED
    BY <1>5, <2>4
<1>8. QED
  <2>1. text \in Text /\ n \in 0 .. MaxText /\ LenIs(text, n)
    BY <1>4
  <2>2. QED
    BY <1>7, <2>1, PanRead

-----------------------------------------------------------------------------
(* A connection is served.                                                 *)

\* What a text holds, a longer one holds that begins like it.
LEMMA HoldsLonger ==
  ASSUME NEW s \in Text, NEW t \in Nat, LenIs(s, t), NEW u, NEW n \in Nat, LenIs(u, n), t <= n,
         \A j \in 1 .. t : u[j] = s[j], NEW i \in Nat \ {0}, NEW v \in Text, Holds(s, i, v)
  PROVE  Holds(u, i, v)
<1>1. PICK k \in Nat : Len(v) = k
  BY LenOfText
<1>2. Len(s) = t /\ Len(u) = n
  BY DEF LenIs
<1>3. (i + 5) + k <= t
  BY <1>1, <1>2 DEF Holds
<1>4. \A j \in 1 .. (i + 5) + k : u[j] = s[j]
  BY <1>3
<1>5. Len(u) \in Nat /\ Len(s) <= Len(u) /\ \A j \in 1 .. (i + 5) + Len(v) : u[j] = s[j]
  BY <1>1, <1>2, <1>4, SMTT(40)
<1>6. QED
  BY <1>5, HoldsWithMore

\* A text that begins with that of a card holds its fields.
LEMMA LongerHoldsCard ==
  ASSUME NEW c \in Cards, NEW t \in Nat, LenIs(Texts[c], t), NEW u, NEW n \in Nat, LenIs(u, n),
         t <= n, \A j \in 1 .. t : u[j] = Texts[c][j]
  PROVE  HoldsCard(u, c)
<1>1. Texts[c] \in Text /\ HoldsCard(Texts[c], c)
  BY CardTextIs
<1>2. PICK p \in 0 .. 19, a \in 0 .. 76, b \in 0 .. 37, d \in 0 .. 4, e \in 0 .. 4 :
        /\ LenIs(Face[c].pan, p) /\ LenIs(Face[c].track1, a) /\ LenIs(Face[c].track2, b)
        /\ LenIs(Face[c].dtv, d) /\ LenIs(Face[c].cvv, e)
        /\ Holds(Texts[c], 1, Face[c].pan)
        /\ Holds(Texts[c], (6 + p) + 1, Face[c].track1)
        /\ Holds(Texts[c], ((6 + p) + (6 + a)) + 1, Face[c].track2)
        /\ Holds(Texts[c], (((6 + p) + (6 + a)) + (6 + b)) + 1, Face[c].dtv)
        /\ Holds(Texts[c], ((((6 + p) + (6 + a)) + (6 + b)) + (6 + d)) + 1, Face[c].cvv)
  BY <1>1 DEF HoldsCard
<1>3. /\ 1 \in Nat \ {0} /\ (6 + p) + 1 \in Nat \ {0} /\ ((6 + p) + (6 + a)) + 1 \in Nat \ {0}
      /\ (((6 + p) + (6 + a)) + (6 + b)) + 1 \in Nat \ {0}
      /\ ((((6 + p) + (6 + a)) + (6 + b)) + (6 + d)) + 1 \in Nat \ {0}
  OBVIOUS
<1>4. /\ Face[c].pan \in Text /\ Face[c].track1 \in Text /\ Face[c].track2 \in Text
      /\ Face[c].dtv \in Text /\ Face[c].cvv \in Text
  BY FaceIs
<1>5. \A i \in Nat \ {0}, v \in Text : Holds(Texts[c], i, v) => Holds(u, i, v)
  BY <1>1, HoldsLonger
<1>6. QED
  BY <1>2, <1>3, <1>4, <1>5, ZenonT(90) DEF HoldsCard

\* recvMessage has room for every message and its terminator.
LEMMA MaxMsgIs ==
  /\ MAX_MSG \in Nat
  /\ \A t \in Nat, c \in Cards : LenIs(Texts[c], t) => 36 + 2 * t \in 0 .. MAX_MSG - 1
<1>1. MaxText \in 32 .. 200 /\ \A c \in Cards, t \in Nat : LenIs(Texts[c], t) => t <= MaxText
  BY MaxTextIs
<1>2. MAX_MSG = 36 + 2 * MaxText + 1
  BY DEF MAX_MSG
<1>3. QED
  BY <1>1, <1>2

IsHeard(heard, old, r) == heard = Strcpy(old, Message(r))

\* Any message finds room in recvMessage.
LEMMA MessageHeard ==
  ASSUME NEW r \in Asked, NEW old \in Seq(Characters), LenIs(old, MAX_MSG)
  PROVE  /\ Strcpy(old, Message(r)) \in Seq(Characters)
         /\ LenIs(Strcpy(old, Message(r)), MAX_MSG)
         /\ \E m \in 36 .. MAX_MSG - 1 :
              /\ LenIs(Message(r), m)
              /\ \A i \in 1 .. m : Strcpy(old, Message(r))[i] = Message(r)[i]
              /\ Strcpy(old, Message(r))[m + 1] = Nul
<1>1. r.card \in Cards /\ r.cut \in 0 .. 4 /\ r.lacks \in {"nothing", "ksn", "data"}
  BY AskedIs
<1>2. PICK t \in 32 .. 200 : LenIs(Texts[r.card], t)
  BY <1>1, CardTextIs
<1>3. MAX_MSG \in Nat /\ 36 + 2 * t \in 0 .. MAX_MSG - 1
  <2>1. t \in Nat
    OBVIOUS
  <2>2. QED
    BY <1>1, <1>2, <2>1, MaxMsgIs
<1>4. /\ Message(r) \in Seq(Written)
      /\ r.lacks = "ksn" => LenIs(Message(r), 16 + 2 * t)
      /\ r.lacks = "data" => LenIs(Message(r), 36)
      /\ r.lacks = "nothing" => LenIs(Message(r), 36 + (2 * t - r.cut))
  BY <1>2, MessageIs
<1>5. \E m \in 36 .. MAX_MSG - 1 : LenIs(Message(r), m)
  <2>1. /\ 16 + 2 * t \in 36 .. MAX_MSG - 1 /\ 36 \in 36 .. MAX_MSG - 1
        /\ 36 + (2 * t - r.cut) \in 36 .. MAX_MSG - 1
    BY <1>1, <1>3, SMTT(40)
  <2>2. QED
    BY <1>1, <1>4, <2>1
<1>6. PICK m \in 36 .. MAX_MSG - 1 : LenIs(Message(r), m)
  BY <1>5
<1>7. m \in 0 .. MAX_MSG - 1
  BY <1>3
<1>8. /\ Strcpy(old, Message(r)) \in Seq(Characters) /\ LenIs(Strcpy(old, Message(r)), MAX_MSG)
      /\ \A i \in 1 .. m : Strcpy(old, Message(r))[i] = Message(r)[i]
      /\ Strcpy(old, Message(r))[m + 1] = Nul
  BY <1>3, <1>4, <1>6, <1>7, HeardIs
<1>9. QED
  BY <1>6, <1>8

Complete(r) == r.lacks = "nothing"

\* The three strings of a request that lacks nothing but, at most, its last
\* characters.
LEMMA PartsHeard ==
  ASSUME NEW r \in Asked, Complete(r), NEW t \in 32 .. 200, LenIs(Texts[r.card], t),
         NEW old \in Seq(Characters), LenIs(old, MAX_MSG),
         NEW heard, IsHeard(heard, old, r)
  PROVE  /\ CString(heard, 1, 20, Nul) = KsnChars(r)
         /\ CString(heard, 21, 16, Nul) = PinChars(r)
         /\ LenIs(CString(heard, 37, MAX_MSG, Nul), 2 * t - r.cut)
         /\ \A i \in 1 .. 2 * t - r.cut :
              CString(heard, 37, MAX_MSG, Nul)[i] = <<"data", r.card, i>>
<1> DEFINE ksn == CString(heard, 1, 20, Nul)
           pin == CString(heard, 21, 16, Nul)
           data == CString(heard, 37, MAX_MSG, Nul)
           k == 2 * t - r.cut
           s == Message(r)
<1>1. /\ s \in Seq(Written) /\ LenIs(s, 36 + k)
      /\ \A i \in 1 .. 20 : s[i] = <<"ksn", <<r.device, r.n>>, i>>
      /\ \A i \in 1 .. 16 : s[20 + i] = <<"pin", <<r.device, r.n, r.card>>, i>>
      /\ \A i \in 1 .. k : s[36 + i] = <<"data", r.card, i>>
  BY MessageIs DEF Complete
<1>2. PICK m \in 36 .. MAX_MSG - 1 :
        /\ heard \in Seq(Characters) /\ LenIs(heard, MAX_MSG)
        /\ LenIs(s, m) /\ \A i \in 1 .. m : heard[i] = s[i]
        /\ heard[m + 1] = Nul
  BY MessageHeard DEF IsHeard
<1>3. MAX_MSG \in Nat /\ k \in Nat
  BY MaxMsgIs, AskedIs
<1> HIDE DEF s, k
<1>4. m - 36 = k
  <2>1. Len(s) = 36 + k /\ Len(s) = m
    BY <1>1, <1>2 DEF LenIs
  <2>2. QED
    BY <1>3, <2>1
<1>5. /\ LenIs(ksn, 20) /\ \A i \in 1 .. 20 : ksn[i] = s[i]
      /\ LenIs(pin, 16) /\ \A i \in 1 .. 16 : pin[i] = s[20 + i]
      /\ LenIs(data, m - 36) /\ \A i \in 1 .. m - 36 : data[i] = s[36 + i]
      /\ ksn \in Seq(Characters) /\ pin \in Seq(Characters)
  <2>1. s \in Seq(Written) /\ heard \in Seq(Characters)
    BY <1>1, <1>2
  <2>2. /\ LenIs(heard, MAX_MSG) /\ LenIs(s, m) /\ \A i \in 1 .. m : heard[i] = s[i]
        /\ heard[m + 1] = Nul
    BY <1>2
  <2>3. LenIs(ksn, 20) /\ (\A i \in 1 .. 20 : ksn[i] = s[i]) /\ ksn \in Seq(Characters)
    BY <1>3, <2>1, <2>2, StringsHeard, ZenonT(90)
  <2>4. LenIs(pin, 16) /\ (\A i \in 1 .. 16 : pin[i] = s[20 + i]) /\ pin \in Seq(Characters)
    BY <1>3, <2>1, <2>2, StringsHeard, ZenonT(90)
  <2>5. LenIs(data, m - 36)
    BY <1>3, <2>1, <2>2, StringsHeard
  <2>6. Behind(data, m - 36, s)
    BY <1>3, <2>1, <2>2, StringsHeard
  <2> HIDE DEF ksn, pin, data
  <2>7. QED
    BY <2>3, <2>4, <2>5, <2>6 DEF Behind
<1> HIDE DEF ksn, pin, data
<1>6. /\ KsnChars(r) \in Seq(Written) /\ LenIs(KsnChars(r), 20)
      /\ \A i \in 1 .. 20 : KsnChars(r)[i] = <<"ksn", <<r.device, r.n>>, i>>
      /\ PinChars(r) \in Seq(Written) /\ LenIs(PinChars(r), 16)
      /\ \A i \in 1 .. 16 : PinChars(r)[i] = <<"pin", <<r.device, r.n, r.card>>, i>>
  <2>1. t \in Nat
    OBVIOUS
  <2>2. QED
    BY <2>1, PartsAre
<1>7. Written \subseteq Characters
  BY DEF Characters
<1>8. ksn = KsnChars(r)
  <2>1. ksn \in Seq(Characters) /\ KsnChars(r) \in Seq(Characters)
    <3>1. ksn \in Seq(Characters) /\ KsnChars(r) \in Seq(Written)
      BY <1>5, <1>6
    <3>2. QED
      BY <1>7, <3>1
  <2>2. Len(ksn) = Len(KsnChars(r)) /\ \A i \in 1 .. Len(ksn) : ksn[i] = KsnChars(r)[i]
    <3>1. Len(ksn) = 20 /\ Len(KsnChars(r)) = 20
      BY <1>5, <1>6, SMTT(40) DEF LenIs
    <3>2. \A i \in 1 .. 20 : ksn[i] = KsnChars(r)[i]
      BY <1>1, <1>5, <1>6
    <3>3. QED
      BY <3>1, <3>2
  <2>3. QED
    BY <2>1, <2>2, SeqEqual
<1>9. pin = PinChars(r)
  <2>1. pin \in Seq(Characters) /\ PinChars(r) \in Seq(Characters)
    <3>1. pin \in Seq(Characters) /\ PinChars(r) \in Seq(Written)
      BY <1>5, <1>6
    <3>2. QED
      BY <1>7, <3>1
  <2>2. Len(pin) = Len(PinChars(r)) /\ \A i \in 1 .. Len(pin) : pin[i] = PinChars(r)[i]
    <3>1. Len(pin) = 16 /\ Len(PinChars(r)) = 16
      BY <1>5, <1>6, SMTT(40) DEF LenIs
    <3>2. \A i \in 1 .. 16 : pin[i] = PinChars(r)[i]
      BY <1>1, <1>5, <1>6
    <3>3. QED
      BY <3>1, <3>2
  <2>3. QED
    BY <2>1, <2>2, SeqEqual
<1>10. LenIs(data, k) /\ \A i \in 1 .. k : data[i] = <<"data", r.card, i>>
  BY <1>1, <1>4, <1>5
<1>11. QED
  BY <1>8, <1>9, <1>10 DEF ksn, pin, data, k

\* Nothing of a request that lacks more than one character deciphers.
LEMMA DamagedDoesNotDecipher ==
  ASSUME NEW r \in Asked, ~Readable(r), NEW old \in Seq(Characters), LenIs(old, MAX_MSG),
         NEW heard, IsHeard(heard, old, r)
  PROVE  ~Deciphers(Len(CString(heard, 37, MAX_MSG, Nul)))
<1> DEFINE data == CString(heard, 37, MAX_MSG, Nul)
<1>1. r.card \in Cards /\ r.cut \in 0 .. 4 /\ r.lacks \in {"nothing", "ksn", "data"}
  BY AskedIs
<1>2. PICK t \in 32 .. 200 : LenIs(Texts[r.card], t) /\ t % 8 = 0
  BY <1>1, CardTextIs, SMTT(40)
<1>3. /\ Message(r) \in Seq(Written)
      /\ r.lacks = "ksn" => LenIs(Message(r), 16 + 2 * t)
      /\ r.lacks = "data" => LenIs(Message(r), 36)
      /\ r.lacks = "nothing" => LenIs(Message(r), 36 + (2 * t - r.cut))
  BY <1>2, MessageIs
<1>4. PICK m \in 36 .. MAX_MSG - 1 :
        /\ heard \in Seq(Characters) /\ LenIs(heard, MAX_MSG)
        /\ LenIs(Message(r), m) /\ \A i \in 1 .. m : heard[i] = Message(r)[i]
        /\ heard[m + 1] = Nul
  BY MessageHeard DEF IsHeard
<1>5. MAX_MSG \in Nat
  BY MaxMsgIs
<1>6. LenIs(data, m - 36)
  BY <1>3, <1>4, <1>5, StringsHeard
<1>7. Len(data) = m - 36 /\ Len(Message(r)) = m
  BY <1>4, <1>6 DEF LenIs
<1> HIDE DEF data
<1>8. CASE r.lacks = "ksn"
  <2>1. Len(data) = 2 * t - 20
    BY <1>3, <1>7, <1>8 DEF LenIs
  <2>2. ((2 * t - 20) + 1) \div 2 = t - 10 /\ (t - 10) % 8 # 0
    BY <1>2
  <2>3. QED
    BY <2>1, <2>2 DEF Deciphers, Bytes, data
<1>9. CASE r.lacks = "data"
  <2>1. Len(data) = 0
    BY <1>3, <1>7, <1>9 DEF LenIs
  <2>2. QED
    BY <2>1 DEF Deciphers, Bytes, data
<1>10. CASE r.lacks = "nothing"
  <2>1. Len(data) = 2 * t - r.cut /\ r.cut \in 2 .. 4
    BY <1>1, <1>3, <1>7, <1>10 DEF LenIs, Readable
  <2>2. ((2 * t - r.cut) + 1) \div 2 \in {t - 1, t - 2}
    <3>1. r.cut = 2 \/ r.cut = 3 \/ r.cut = 4
      BY <2>1
    <3>2. /\ ((2 * t - 2) + 1) \div 2 = t - 1 /\ ((2 * t - 3) + 1) \div 2 = t - 1
          /\ ((2 * t - 4) + 1) \div 2 = t - 2
      OBVIOUS
    <3>3. QED
      BY <3>1, <3>2
  <2>3. (t - 1) % 8 # 0 /\ (t - 2) % 8 # 0
    BY <1>2, SMTT(40)
  <2>4. QED
    BY <2>1, <2>2, <2>3 DEF Deciphers, Bytes, data
<1>11. QED
  BY <1>1, <1>8, <1>9, <1>10

\* What Serve makes of a message: bAux, and t_cryptoData.
IsClear(clear, plainly, heard) ==
  clear = Decrypted(plainly, CString(heard, 37, MAX_MSG, Nul))
IsCard(card, before, clear) ==
  card \in Readings(before, clear, CString(clear, 1, MaxText, NoChar))
Garbled(heard, clear) ==
  LengthIsGarbled(CString(heard, 37, MAX_MSG, Nul), CString(clear, 1, MaxText, NoChar))

\* A buffer of decrypted data.
IsPlain(s) == s \in Seq(-1 .. 10) /\ LenIs(s, MaxText + 1)

\* A spoilt bAux is one, and begins with no card's data: a PAN's length has a
\* digit in front.
LEMMA SpoiltIs ==
  /\ IsPlain(Spoilt) /\ Spoilt[1] # NoChar
  /\ \A s : \A c \in Cards : BeginsWith(s, c) => s # Spoilt
<1>1. MaxText \in 32 .. 200
  BY MaxTextIs
<1>2. Spoilt \in Seq(-1 .. 10) /\ LenIs(Spoilt, MaxText + 1)
  BY <1>1 DEF Spoilt, Letter, LenIs
<1>3. Spoilt[1] = 10 /\ Spoilt[4] = 10
  BY <1>1 DEF Spoilt, Letter
<1>4. ASSUME NEW s, NEW c \in Cards, BeginsWith(s, c) PROVE s[4] # 10
  <2>1. PICK p \in 0 .. 19 : LenIs(Face[c].pan, p) /\ \A i \in 1 .. 6 + p : s[i] = Texts[c][i]
    BY <1>4 DEF BeginsWith
  <2>2. s[4] = Texts[c][4]
    <3>1. 4 \in 1 .. 6 + p
      OBVIOUS
    <3>2. QED
      BY <2>1, <3>1
  <2>3. Holds(Texts[c], 1, Face[c].pan)
    BY CardTextIs DEF HoldsCard
  <2>4. Texts[c][4] = Len(Face[c].pan) \div 100
    <3>1. Texts[c][1 + 3] = Len(Face[c].pan) \div 100
      BY <2>3 DEF Holds
    <3>2. 1 + 3 = 4
      OBVIOUS
    <3>3. QED
      BY <3>1, <3>2
  <2>5. Len(Face[c].pan) = p
    BY <2>1 DEF LenIs
  <2>6. p \div 100 = 0
    OBVIOUS
  <2>7. QED
    BY <2>2, <2>4, <2>5, <2>6
<1>5. QED
  BY <1>2, <1>3, <1>4 DEF IsPlain, NoChar

\* What is parsed of a bAux that is not spoilt.
LEMMA UnspoiltRead ==
  ASSUME NEW clear, clear # Spoilt, NEW before, NEW card, IsCard(card, before, clear)
  PROVE  card = Parsed(before, CString(clear, 1, MaxText, NoChar))
BY DEF IsCard, Readings

\* A card has five members.
LEMMA MembersOfCard ==
  ASSUME NEW clear, NEW before, NEW card, IsCard(card, before, clear)
  PROVE  DOMAIN card = DOMAIN Cleared
<1>1. DOMAIN Parsed(before, CString(clear, 1, MaxText, NoChar)) = DOMAIN Cleared
  BY DEF Parsed, ParsedInto, Cleared
<1>2. ASSUME NEW c \in Cards PROVE DOMAIN Face[c] = DOMAIN Cleared
  <2>1. Face[c] \in [pan : Seq(0 .. 9), track1 : Text, track2 : Text, dtv : Text, cvv : Text]
    BY CardsAssumption
  <2>2. QED
    BY <2>1 DEF Cleared
<1>3. QED
  BY <1>1, <1>2 DEF IsCard, Readings

\* The data of a readable request fills the beginning of bAux, and is parsed.
LEMMA DataRead ==
  ASSUME NEW r \in Asked, Readable(r), NEW old \in Seq(Characters), LenIs(old, MAX_MSG),
         NEW heard, IsHeard(heard, old, r), NEW plainly, IsPlain(plainly),
         NEW clear, IsClear(clear, plainly, heard), NEW before, NEW card, IsCard(card, before, clear)
  PROVE  /\ IsPlain(clear) /\ BeginsWith(clear, r.card) /\ card.pan = Face[r.card].pan
         /\ r.cut = 0 => card = Face[r.card] /\ ~Garbled(heard, clear)
         /\ Deciphers(Len(CString(heard, 37, MAX_MSG, Nul)))
         /\ CString(heard, 37, MAX_MSG, Nul)[1] = <<"data", r.card, 1>>
<1> DEFINE data == CString(heard, 37, MAX_MSG, Nul)
           c == r.card
           cut == r.cut
           w == MkWkDecryptData(data)
<1>1. c \in Cards /\ cut \in 0 .. 1 /\ Complete(r)
  BY AskedIs DEF Readable, Complete
<1>2. PICK t \in 32 .. 200, p \in 0 .. 19 :
        LenIs(Texts[c], t) /\ t % 8 = 0 /\ LenIs(Face[c].pan, p) /\ p + 30 <= t
  BY <1>1, CardTextIs
<1>3. LenIs(data, 2 * t - cut) /\ \A i \in 1 .. 2 * t - cut : data[i] = <<"data", c, i>>
  BY <1>1, <1>2, PartsHeard, ZenonT(90)
<1> HIDE DEF data, c, cut
<1>4. /\ Deciphers(Len(data)) /\ w \in Seq(0 .. 10) /\ LenIs(w, t)
      /\ \A i \in 1 .. t - 8 * cut : w[i] = Texts[c][i]
      /\ cut = 0 => Intact(data, Bytes(Len(data)) \div 8)
  BY <1>1, <1>2, <1>3, DataDeciphers
<1>5. data[1] = <<"data", c, 1>>
  <2>1. 1 \in 1 .. 2 * t - cut
    BY <1>1
  <2>2. QED
    BY <1>3, <2>1
<1> HIDE DEF w
<1>6. MaxText \in 32 .. 200 /\ t <= MaxText
  <2>1. t \in Nat
    OBVIOUS
  <2>2. QED
    BY <1>1, <1>2, <2>1, MaxTextIs
<1>7. clear = Strncpy(plainly, w)
  BY <1>4 DEF IsClear, Decrypted, data, w
<1>8. /\ clear \in Seq(-1 .. 10) /\ LenIs(clear, MaxText + 1)
      /\ \A i \in 1 .. t : clear[i] = w[i]
  <2> DEFINE size == MaxText + 1
  <2>1. plainly \in Seq(-1 .. 10) /\ LenIs(plainly, size)
    BY DEF IsPlain
  <2>2. size \in Nat /\ t \in 0 .. size
    BY <1>6
  <2> HIDE DEF size
  <2>3. /\ Strncpy(plainly, w) \in Seq(-1 .. 10) /\ LenIs(Strncpy(plainly, w), size)
        /\ \A i \in 1 .. t : Strncpy(plainly, w)[i] = w[i]
    BY <1>4, <2>1, <2>2, DecryptedIs
  <2>4. QED
    BY <1>7, <2>3 DEF size
<1>9. BeginsWith(clear, c)
  <2>1. \A i \in 1 .. 6 + p : i \in 1 .. t - 8 * cut /\ i \in 1 .. t
    <3>0. 8 * cut <= 8 /\ 8 * cut \in Nat
      BY <1>1
    <3>1. 6 + p <= t - 8 * cut
      BY <1>2, <3>0
    <3>2. t - 8 * cut <= t
      BY <1>1
    <3>3. QED
      BY <1>1, <3>1, <3>2
  <2>2. \A i \in 1 .. 6 + p : clear[i] = Texts[c][i]
    BY <1>4, <1>8, <2>1
  <2>3. QED
    BY <1>2, <2>2 DEF BeginsWith
<1> DEFINE text == CString(clear, 1, MaxText, NoChar)
<1>10. card = Parsed(before, text)
  BY <1>1, <1>9, SpoiltIs, UnspoiltRead
<1>11. card.pan = Face[c].pan
  <2>1. text = CString(clear, 1, MaxText, NoChar)
    OBVIOUS
  <2> HIDE DEF text
  <2>2. Parsed(before, text).pan = Face[c].pan
    BY <1>1, <1>8, <1>9, <2>1, BeginningRead
  <2>3. QED
    BY <1>10, <2>2
<1>12. ASSUME cut = 0 PROVE card = Face[c]
  <2>1. \A i \in 1 .. t : clear[i] = Texts[c][i]
    <3>1. t - 8 * cut = t
      BY <1>12
    <3>2. QED
      BY <1>4, <1>8, <3>1
  <2>2. text = CString(clear, 1, MaxText, NoChar)
    OBVIOUS
  <2> HIDE DEF text
  <2>3. PICK n \in 0 .. MaxText :
          /\ text \in Text /\ LenIs(text, n)
          /\ \A i \in 1 .. n : text[i] = clear[i]
          /\ \A m \in 0 .. MaxText : (\A i \in 1 .. m : clear[i] # NoChar) => m <= n
    BY <1>8, <2>2, TextRead
  <2>4. t <= n
    <3>1. Texts[c] \in Text
      BY <1>1, CardTextIs
    <3>2. \A i \in 1 .. t : Texts[c][i] \in 0 .. 10
      BY <1>2, <3>1, LenOfText DEF LenIs
    <3>3. \A i \in 1 .. t : clear[i] # NoChar
      BY <2>1, <3>2, SMTT(40) DEF NoChar
    <3>4. t \in 0 .. MaxText
      BY <1>6
    <3>5. QED
      BY <2>3, <3>3, <3>4
  <2>5. \A i \in 1 .. t : text[i] = Texts[c][i]
    <3>1. \A i \in 1 .. t : i \in 1 .. n
      BY <1>6, <2>4
    <3>2. QED
      BY <2>1, <2>3, <3>1
  <2>6. HoldsCard(text, c)
    <3>1. t \in Nat /\ n \in Nat
      BY <1>6
    <3>2. LenIs(Texts[c], t) /\ LenIs(text, n)
      BY <1>2, <2>3
    <3>3. QED
      BY <1>1, <2>4, <2>5, <3>1, <3>2, LongerHoldsCard
  <2>7. Parsed(before, text) = Face[c]
    <3>1. text \in Text /\ LenIs(text, n)
      BY <2>3
    <3>2. QED
      BY <1>1, <2>6, <3>1, WholeRead
  <2>8. QED
    BY <1>10, <2>7
<1>13. cut = 0 => ~Garbled(heard, clear)
  BY <1>4 DEF Garbled, LengthIsGarbled, data
<1>14. QED
  BY <1>4, <1>5, <1>8, <1>9, <1>11, <1>12, <1>13 DEF data, c, cut, IsPlain

\* The PIN block of a request that was heard leads to the PIN that was typed,
\* under whatever key of whatever device: for both sides derive the same key.
LEMMA PinBlockRead ==
  ASSUME NEW r \in Asked, Len(Face[r.card].pan) >= 13
  PROVE  PinBlocks(KsnChars(r), PinChars(r)) = {doDukptEncryptPinBlock(PinOf[r.card], Face[r.card].pan)}
<1> DEFINE d == r.device
           n == r.n
           c == r.card
           ksn == KsnChars(r)
           pin == PinChars(r)
           sent == doDukptEncryptPinBlock(PinOf[c], Face[c].pan)
           key == WalkedKeys[<<d, n>>]
<1>1. d \in Devices /\ n \in CounterValues
  BY AskedIs
<1>2. ksn[1] = <<"ksn", <<d, n>>, 1>> /\ pin[1] = <<"pin", <<d, n, c>>, 1>>
  BY DEF KsnChars, PinChars, Part
<1>3. ksn[1][1] = "ksn" /\ ksn[1][2] = <<d, n>> /\ ksn[1][2][1] = d /\ ksn[1][2][2] = n
  BY <1>2
<1>4. pin[1][1] = "pin" /\ pin[1][2][1] = d /\ pin[1][2][2] = n /\ pin[1][2][3] = c
  BY <1>2
<1>5. /\ pin = PinChars([device |-> d, n |-> n, card |-> c])
      /\ ksn = KsnChars([device |-> d, n |-> n])
  BY DEF PinChars, KsnChars
<1>6. key = DeviceKeys[<<d, n>>]
  BY <1>1, KeysAgree DEF WalkedKeys, DeviceKeys
<1>7. PadBlock(d, n, c) = TDes(key, sent)
  BY <1>6 DEF PadBlock
<1> HIDE DEF sent, key
<1>8. IsUnder(key, TDes(key, sent)) /\ Inside(TDes(key, sent)) = sent
  <2> DEFINE k == <<"tdes", key.l, key.r, sent>>
  <2>1. TDes(key, sent) = {k} /\ k[2] = key.l /\ k[3] = key.r /\ k[4] = sent
    BY DEF TDes
  <2> HIDE DEF k
  <2>2. (CHOOSE x \in {k} : TRUE) = k
    OBVIOUS
  <2>3. QED
    BY <2>1, <2>2 DEF IsUnder, Inside
<1>9. PinBlocks(ksn, pin) =
        IF /\ pin[1][1] = "pin"
           /\ pin = PinChars([device |-> pin[1][2][1], n |-> pin[1][2][2], card |-> pin[1][2][3]])
           /\ ksn[1][1] = "ksn" /\ ksn = KsnChars([device |-> ksn[1][2][1], n |-> ksn[1][2][2]])
           /\ Len(Face[pin[1][2][3]].pan) >= 13
           /\ IsUnder(WalkedKeys[ksn[1][2]], PadBlock(pin[1][2][1], pin[1][2][2], pin[1][2][3]))
        THEN {Inside(PadBlock(pin[1][2][1], pin[1][2][2], pin[1][2][3]))}
        ELSE GarbledBlocks
  BY DEF PinBlocks
<1> HIDE DEF ksn, pin
<1>10. PinBlocks(ksn, pin) = {sent}
  <2>1. WalkedKeys[ksn[1][2]] = key
    BY <1>3 DEF key
  <2>2. QED
    BY <1>3, <1>4, <1>5, <1>7, <1>8, <1>9, <2>1
<1>11. QED
  BY <1>10 DEF ksn, pin, sent, c

\* The PIN of every card with thirteen digits comes out of its block.
LEMMA PinRead ==
  ASSUME NEW c \in Cards, Len(Face[c].pan) >= 13
  PROVE  doDukptDecryptPinBlock(doDukptEncryptPinBlock(PinOf[c], Face[c].pan), Face[c].pan) = PinOf[c]
<1>1. /\ PinOf[c] \in Seq(0 .. 9) /\ Len(PinOf[c]) \in 0 .. 14
      /\ Face[c].pan \in Seq(0 .. 9)
  <2>1. PinOf[c] \in Seq(0 .. 9) /\ Face[c].pan \in Seq(0 .. 9)
    BY CardsAssumption
  <2>2. Len(PinOf[c]) \in 4 .. 8
    BY CardsAssumption
  <2>3. \A x : x \in 4 .. 8 => x \in 0 .. 14
    OBVIOUS
  <2>4. QED
    BY <2>1, <2>2, <2>3
<1>2. QED
  BY <1>1, PinComesOut

\* The rules see a PIN of four to eight digits whole.
LEMMA PinJudged ==
  ASSUME NEW c \in Cards
  PROVE  Judged(PinOf[c]) = {Rules!PinRefused(PinOf[c])}
<1> DEFINE pin == PinOf[c]
           n == Len(pin)
<1>1. pin \in Seq(0 .. 9) /\ n \in 4 .. 8
  BY CardsAssumption
<1>2. Max({1, n - 7}) = 1
  <2> HIDE DEF n
  <2> DEFINE k == n - 7
             T == {1, k}
  <2>1. k \in Int /\ k <= 1
    BY <1>1
  <2> HIDE DEF k
  <2>2. 1 \in T /\ (\A y \in T : 1 >= y) /\ \A x \in T : (\A y \in T : x >= y) => x = 1
    BY <2>1
  <2> HIDE DEF T
  <2>3. Max(T) = 1
    BY <2>2 DEF Max
  <2>4. QED
    BY <2>3 DEF T, k
<1>3. Password(pin) = pin
  <2>1. SubSeq(pin, 1, Len(pin)) = pin
    BY <1>1, SubSeqFull
  <2>2. QED
    BY <1>2, <2>1 DEF Password
<1>4. Len(Password(pin)) = n
  BY <1>3
<1> HIDE DEF n
<1>5. ~(Len(Password(pin)) < 4)
  BY <1>1, <1>4
<1>6. QED
  BY <1>3, <1>5 DEF Judged

-----------------------------------------------------------------------------
(* The inductive invariant.                                                *)

Connections ==
  {c \in [of : Asked, text : Seq(Written), gone : BOOLEAN] : c.text \in {<<>>, Message(c.of)}}

\* The ISM's request, and its one connection.
Session ==
  /\ hsm \in {"up", "dead"} /\ ism \in {"free", "connecting", "connected", "sent"}
  /\ request \in Asked \cup {None}
  /\ (request = None) <=> (ism = "free")
  /\ queue \in Seq(Connections)
  /\ \A i, j \in Mine : i = j
  /\ \A i \in Mine :
       /\ queue[i].of = request /\ ism \in {"connected", "sent"}
       /\ (queue[i].text = <<>>) <=> (ism = "connected")

\* No device's counter has gone further than all requests together.
Counting ==
  /\ asked \in Nat /\ asked <= MaxRequests
  /\ counter \in [Devices -> Nat]
  /\ \A d \in Devices : \E n \in Counters : counter[d] <= n + asked

\* The buffers keep their size; bAux begins with the data of the card that was
\* decrypted last, or it is spoilt, or there is none yet.
Buffers ==
  /\ recv \in Seq(Characters) /\ LenIs(recv, MAX_MSG)
  /\ IsPlain(plain)
  /\ DOMAIN crypto = DOMAIN Cleared
  /\ opened \in Cards \cup {None}
  /\ opened = None => plain[1] = NoChar \/ plain = Spoilt
  /\ opened # None => BeginsWith(plain, opened)

\* A reply closes the connection, and answers the request.
Answered ==
  reply # None =>
    /\ ism = "sent" /\ Mine = {}
    /\ Readable(request) => reply.pin = PinOf[request.card]
    /\ Readable(request) /\ request.cut = 0 => reply.card = Face[request.card]
    /\ StrangersAreRecent

Inv ==
  Session /\ Counting /\ Buffers /\ Answered /\ DiesOnlyOfDamage /\ JudgedByItsOwnPin

-----------------------------------------------------------------------------
(* What serving a connection comes to.                                     *)

FatalHeard(heard, card) ==
  Fatal(CString(heard, 1, 20, Nul), CString(heard, 21, 16, Nul), card.pan)
BlocksHeard(heard) == PinBlocks(CString(heard, 1, 20, Nul), CString(heard, 21, 16, Nul))
OpenedBy(heard, last) ==
  LET data == CString(heard, 37, MAX_MSG, Nul)
  IN  IF Deciphers(Len(data)) /\ data[1][1] = "data" /\ data[1][3] = 1 THEN data[1][2] ELSE last

FatalServed(heard, clear, card) == FatalHeard(heard, card) \/ Garbled(heard, clear)

Copies(heard, clear) ==
  AfterCopies(clear, CString(heard, 37, MAX_MSG, Nul), CString(clear, 1, MaxText, NoChar))

Answers(heard, clear, card) ==
  /\ plain' \in Copies(heard, clear)
  /\ opened' = IF plain' = Spoilt THEN None ELSE OpenedBy(heard, opened)
  /\ \E block \in BlocksHeard(heard) :
       reply' = IF Head(queue).gone THEN reply
                ELSE [card |-> card, last |-> opened',
                      pin |-> doDukptDecryptPinBlock(block, card.pan)]
  /\ recv' = heard /\ crypto' = card
  /\ queue' = Tail(queue)
  /\ UNCHANGED <<hsm, cause>>

ServeBody(heard, ksn, pin, data, clear, text, card) ==
  \/ /\ Fatal(ksn, pin, card.pan) \/ LengthIsGarbled(data, text)
     /\ Dies(Head(queue))
     /\ UNCHANGED reply
  \/ /\ ~Fatal(ksn, pin, card.pan)
     /\ plain' \in AfterCopies(clear, data, text)
     /\ opened' = IF plain' = Spoilt THEN None
                  ELSE IF Deciphers(Len(data)) /\ data[1][1] = "data" /\ data[1][3] = 1
                  THEN data[1][2] ELSE opened
     /\ \E block \in PinBlocks(ksn, pin) :
          reply' = IF Head(queue).gone THEN reply
                   ELSE [card |-> card, last |-> opened',
                         pin |-> doDukptDecryptPinBlock(block, card.pan)]
     /\ recv' = heard /\ crypto' = card
     /\ queue' = Tail(queue)
     /\ UNCHANGED <<hsm, cause>>

IsRead(heard, s) == heard = Strcpy(recv, s)

\* Serve by the values main reads: the message, bAux and t_cryptoData.
LEMMA ServeIs ==
  ASSUME Serve
  PROVE  /\ hsm = "up" /\ queue # <<>> /\ MayRead(Head(queue))
         /\ UNCHANGED <<ism, request, told, counter, asked, kills>>
         /\ \E heard, clear, card :
              /\ IsRead(heard, Head(queue).text) /\ IsClear(clear, plain, heard)
              /\ IsCard(card, crypto, clear)
              /\ \/ FatalServed(heard, clear, card) /\ Dies(Head(queue)) /\ UNCHANGED reply
                 \/ ~FatalHeard(heard, card) /\ Answers(heard, clear, card)
<1> DEFINE heard == Strcpy(recv, Head(queue).text)
           ksn == CString(heard, 1, 20, Nul)
           pin == CString(heard, 21, 16, Nul)
           data == CString(heard, 37, MAX_MSG, Nul)
           clear == Decrypted(plain, data)
           text == CString(clear, 1, MaxText, NoChar)
<1>1. /\ hsm = "up" /\ queue # <<>> /\ MayRead(Head(queue))
      /\ UNCHANGED <<ism, request, told, counter, asked, kills>>
  BY DEF Serve
<1>2. PICK card : card \in Readings(crypto, clear, text)
                  /\ ServeBody(heard, ksn, pin, data, clear, text, card)
  <2>1. \E h \in {Strcpy(recv, Head(queue).text)} :
        \E k \in {CString(h, 1, 20, Nul)}, p \in {CString(h, 21, 16, Nul)},
           d \in {CString(h, 37, MAX_MSG, Nul)} :
        \E c \in {Decrypted(plain, d)} :
        \E t \in {CString(c, 1, MaxText, NoChar)} :
        \E f \in Readings(crypto, c, t) : ServeBody(h, k, p, d, c, t, f)
    BY Zenon DEF Serve, ServeBody
  <2>2. QED
    BY <2>1, Zenon, ZenonT(90)
<1>3. IsRead(heard, Head(queue).text) /\ IsClear(clear, plain, heard) /\ IsCard(card, crypto, clear)
  BY <1>2 DEF IsRead, IsClear, IsCard
<1>4. \/ FatalServed(heard, clear, card) /\ Dies(Head(queue)) /\ UNCHANGED reply
      \/ ~FatalHeard(heard, card) /\ Answers(heard, clear, card)
  BY <1>2, Zenon DEF ServeBody, FatalServed, FatalHeard, Garbled, Copies, Answers, OpenedBy,
                     BlocksHeard
<1> HIDE DEF heard, ksn, pin, data, clear, text
<1>5. QED
  BY <1>1, <1>3, <1>4

\* A readable request: its card is decrypted, and with thirteen digits in its
\* PAN its PIN comes out and the HSM lives.
LEMMA ServedReadable ==
  ASSUME NEW r \in Asked, Readable(r), NEW old \in Seq(Characters), LenIs(old, MAX_MSG),
         NEW heard, IsHeard(heard, old, r), NEW plainly, IsPlain(plainly),
         NEW clear, IsClear(clear, plainly, heard), NEW before, NEW card, IsCard(card, before, clear)
  PROVE  /\ FatalHeard(heard, card) <=> Len(Face[r.card].pan) < 13
         /\ \A last : OpenedBy(heard, last) = r.card
         /\ Len(Face[r.card].pan) >= 13 =>
              BlocksHeard(heard) = {doDukptEncryptPinBlock(PinOf[r.card], Face[r.card].pan)}
<1>1. r.card \in Cards /\ Complete(r)
  BY AskedIs DEF Readable, Complete
<1>2. PICK t \in 32 .. 200 : LenIs(Texts[r.card], t)
  BY <1>1, CardTextIs
<1>3. CString(heard, 1, 20, Nul) = KsnChars(r) /\ CString(heard, 21, 16, Nul) = PinChars(r)
  BY <1>1, <1>2, PartsHeard
<1>4. /\ card.pan = Face[r.card].pan
      /\ Deciphers(Len(CString(heard, 37, MAX_MSG, Nul)))
      /\ CString(heard, 37, MAX_MSG, Nul)[1] = <<"data", r.card, 1>>
  BY DataRead
<1>5. FatalHeard(heard, card) <=> Len(Face[r.card].pan) < 13
  <2>1. Len(KsnChars(r)) = 20 /\ Len(PinChars(r)) = 16
    <3>1. t \in Nat
      OBVIOUS
    <3>2. LenIs(KsnChars(r), 20) /\ LenIs(PinChars(r), 16)
      BY <1>2, <3>1, PartsAre
    <3>3. QED
      BY <3>2 DEF LenIs
  <2>2. ~(Len(KsnChars(r)) < 19) /\ ~(Len(PinChars(r)) < 15)
    <3>1. ~(20 < 19) /\ ~(16 < 15)
      OBVIOUS
    <3>2. QED
      BY <2>1, <3>1
  <2>3. QED
    BY <1>3, <1>4, <2>2, Zenon DEF FatalHeard, Fatal
<1>6. \A last : OpenedBy(heard, last) = r.card
  BY <1>4 DEF OpenedBy
<1>7. ASSUME Len(Face[r.card].pan) >= 13
      PROVE  BlocksHeard(heard) = {doDukptEncryptPinBlock(PinOf[r.card], Face[r.card].pan)}
  BY <1>3, <1>7, PinBlockRead DEF BlocksHeard
<1>8. QED
  BY <1>5, <1>6, <1>7

\* Any other: bAux stays what it was.
LEMMA ServedDamaged ==
  ASSUME NEW r \in Asked, ~Readable(r), NEW old \in Seq(Characters), LenIs(old, MAX_MSG),
         NEW heard, IsHeard(heard, old, r), NEW plainly, NEW clear, IsClear(clear, plainly, heard)
  PROVE  /\ clear = plainly /\ ~Garbled(heard, clear)
         /\ \A last : OpenedBy(heard, last) = last
<1>1. ~Deciphers(Len(CString(heard, 37, MAX_MSG, Nul)))
  BY DamagedDoesNotDecipher
<1>2. QED
  BY <1>1 DEF IsClear, Decrypted, OpenedBy, Garbled, LengthIsGarbled

\* A process that has not decrypted anything yet finds no PAN, and ends.
LEMMA ServedUnopened ==
  ASSUME NEW clear, IsPlain(clear), clear[1] = NoChar, NEW before, NEW card,
         IsCard(card, before, clear), NEW heard
  PROVE  FatalHeard(heard, card)
<1> DEFINE text == CString(clear, 1, MaxText, NoChar)
<1>1. clear \in Seq(-1 .. 10) /\ LenIs(clear, MaxText + 1)
  BY DEF IsPlain
<1>2. text = CString(clear, 1, MaxText, NoChar)
  OBVIOUS
<1>3. card = Parsed(before, text)
  BY SpoiltIs, UnspoiltRead
<1> HIDE DEF text
<1>4. text \in Text /\ LenIs(text, 0)
  BY <1>1, <1>2, TextRead
<1>5. text = <<>>
  BY <1>4 DEF LenIs, Text
<1>6. card.pan = <<>>
  BY <1>3, <1>5, NothingRead
<1>7. Len(<<>>) < 13
  OBVIOUS
<1>8. QED
  BY <1>6, <1>7 DEF FatalHeard, Fatal

\* So does one whose peer has gone without a word.
LEMMA ServedNothing ==
  ASSUME NEW old \in Seq(Characters), LenIs(old, MAX_MSG), NEW card
  PROVE  FatalHeard(Strcpy(old, <<>>), card)
<1> DEFINE h == Strcpy(old, <<>>)
<1>1. MAX_MSG \in Nat /\ 37 <= MAX_MSG
  BY MaxMsgIs, MaxTextIs DEF MAX_MSG
<1>2. LenIs(h, MAX_MSG) /\ h[1] = Nul
  <2> DEFINE s == <<>>
             m == 0
  <2>1. s \in Seq(Written) /\ LenIs(s, m) /\ m \in 0 .. MAX_MSG - 1 /\ m + 1 = 1
    BY <1>1 DEF LenIs
  <2> HIDE DEF s, m
  <2>2. LenIs(Strcpy(old, s), MAX_MSG) /\ Strcpy(old, s)[m + 1] = Nul
    BY <1>1, <2>1, HeardIs
  <2>3. QED
    BY <2>1, <2>2 DEF s
<1> HIDE DEF h
<1>3. CString(h, 1, 20, Nul) = <<>>
  <2> DEFINE size == MAX_MSG
  <2>1. size \in Nat \ {0} /\ LenIs(h, size)
    BY <1>1, <1>2
  <2> HIDE DEF size
  <2>2. QED
    BY <1>2, <2>1, NothingHeard
<1>4. Len(<<>>) < 19
  OBVIOUS
<1>5. QED
  BY <1>3, <1>4 DEF FatalHeard, Fatal, h

-----------------------------------------------------------------------------
(* The invariant holds at first, and every action preserves it.            *)

\* None is neither a request nor a card.
LEMMA NoneIsNone == (\A r \in Asked : r # None) /\ \A c \in Cards : c # None
BY NoneAssumption DEF Asked

\* No message is empty.
LEMMA SomethingIsSent ==
  ASSUME NEW r \in Asked
  PROVE  Message(r) \in Seq(Written) /\ Message(r) # <<>>
<1>1. r.card \in Cards /\ r.cut \in 0 .. 4 /\ r.lacks \in {"nothing", "ksn", "data"}
  BY AskedIs
<1>2. PICK t \in 32 .. 200 : LenIs(Texts[r.card], t)
  BY <1>1, CardTextIs, SMTT(40)
<1>3. /\ Message(r) \in Seq(Written)
      /\ r.lacks = "ksn" => LenIs(Message(r), 16 + 2 * t)
      /\ r.lacks = "data" => LenIs(Message(r), 36)
      /\ r.lacks = "nothing" => LenIs(Message(r), 36 + (2 * t - r.cut))
  BY <1>2, MessageIs
<1>4. 16 + 2 * t # 0 /\ 36 # 0 /\ 36 + (2 * t - r.cut) # 0
  BY <1>1
<1>5. Len(Message(r)) # 0
  BY <1>1, <1>3, <1>4 DEF LenIs
<1>6. Len(<<>>) = 0
  OBVIOUS
<1>7. QED
  BY <1>3, <1>5, <1>6

\* The next transaction's counter is one of a KSN.
LEMMA CounterStays ==
  ASSUME Counting, NEW d \in Devices
  PROVE  /\ counter[d] \in CounterValues
         /\ asked < MaxRequests => counter[d] + 1 \in CounterValues
<1>1. counter[d] \in Nat /\ asked \in Nat /\ asked <= MaxRequests
  BY DEF Counting
<1>2. PICK n \in Counters : counter[d] <= n + asked
  BY DEF Counting
<1>3. n \in Nat /\ MaxRequests \in Nat /\ n + MaxRequests \in CounterValues
  BY BoundsAssumption
<1>4. Power2[CounterBits] \in Nat
  BY Power2Is, CounterBitsAssumption
<1> DEFINE top == Power2[CounterBits] - 1
<1>5. top \in Int /\ CounterValues = 0 .. top
  BY <1>4 DEF CounterValues
<1> HIDE DEF top
<1>6. n + MaxRequests <= top
  BY <1>3, <1>5
<1>7. QED
  BY <1>1, <1>2, <1>3, <1>5, <1>6

\* Every step keeps the counters below their bound.
LEMMA NextCounting ==
  ASSUME Counting, [Next]_vars
  PROVE  Counting'
<1>1. CASE UNCHANGED <<asked, counter>>
  BY <1>1 DEF Counting
<1>2. CASE TerminalPays
  <2>1. PICK d \in Devices : counter' = [counter EXCEPT ![d] = @ + 1]
    BY <1>2 DEF TerminalPays
  <2>2. asked' = asked + 1 /\ asked < MaxRequests /\ asked \in Nat /\ MaxRequests \in Nat
        /\ counter \in [Devices -> Nat]
    BY <1>2, BoundsAssumption DEF TerminalPays, Counting
  <2>3. counter' \in [Devices -> Nat]
    BY <2>1, <2>2
  <2>4. ASSUME NEW e \in Devices PROVE \E n \in Counters : counter'[e] <= n + asked'
    <3>1. PICK n \in Counters : counter[e] <= n + asked
      BY DEF Counting
    <3>2. n \in Nat
      BY BoundsAssumption
    <3>3. counter'[e] <= counter[e] + 1 /\ counter'[e] \in Nat /\ counter[e] \in Nat
      BY <2>1, <2>2, <2>3
    <3>4. counter'[e] <= n + asked'
      BY <2>2, <3>1, <3>2, <3>3
    <3>5. QED
      BY <3>4
  <2>5. asked' \in Nat /\ asked' <= MaxRequests
    BY <2>2
  <2>6. QED
    BY <2>3, <2>4, <2>5 DEF Counting
<1>3. [Next]_vars => TerminalPays \/ UNCHANGED <<asked, counter>>
  BY DEF Next, vars, IsmConnects, IsmSends, IsmReceives, Serve, KillHsm, KillIsm, Restart
<1>4. QED
  BY <1>1, <1>2, <1>3

\* A new process has empty buffers.
LEMMA EmptyBuffers ==
  ASSUME NEW r, r = [i \in 1 .. MAX_MSG |-> Nul],
         NEW p, p = Emptied
  PROVE  r \in Seq(Characters) /\ LenIs(r, MAX_MSG) /\ IsPlain(p) /\ p[1] = NoChar
<1>1. MAX_MSG \in Nat /\ MaxText \in Nat
  BY MaxMsgIs, MaxTextIs
<1>2. Nul \in Characters /\ NoChar \in -1 .. 10
  BY DEF Characters, NoChar
<1>3. r \in Seq(Characters) /\ LenIs(r, MAX_MSG)
  BY <1>1, <1>2 DEF LenIs
<1>4. p \in Seq(-1 .. 10) /\ LenIs(p, MaxText + 1)
  BY <1>1, <1>2 DEF LenIs, Emptied
<1>5. p[1] = NoChar
  BY <1>1 DEF Emptied
<1>6. QED
  BY <1>3, <1>4, <1>5 DEF IsPlain

\* The invariant holds at first.
LEMMA InitInv == Init => Inv
<1> SUFFICES ASSUME Init PROVE Inv
  OBVIOUS
<1>1. queue \in Seq(Connections) /\ Mine = {}
  BY DEF Init, Mine
<1>2. Session
  BY <1>1 DEF Init, Session
<1>3. Counting
  <2>1. counter \in [Devices -> Counters] /\ asked = 0 /\ Counters \subseteq Nat /\ MaxRequests \in Nat
    BY BoundsAssumption DEF Init
  <2>2. \A d \in Devices : counter[d] \in Counters /\ counter[d] <= counter[d] + 0
    <3>1. \A n \in Counters : n <= n + 0
      BY <2>1
    <3>2. QED
      BY <2>1, <3>1
  <2>3. \A d \in Devices : \E n \in Counters : counter[d] <= n + asked
    BY <2>1, <2>2
  <2>4. counter \in [Devices -> Nat]
    BY <2>1
  <2>5. asked \in Nat /\ asked <= MaxRequests
    BY <2>1
  <2>6. QED
    BY <2>3, <2>4, <2>5 DEF Counting
<1>4. Buffers
  <2>1. recv \in Seq(Characters) /\ LenIs(recv, MAX_MSG) /\ IsPlain(plain) /\ plain[1] = NoChar
    BY EmptyBuffers DEF Init
  <2>2. QED
    BY <2>1 DEF Init, Buffers
<1>5. QED
  BY <1>2, <1>3, <1>4 DEF Init, Inv, Answered, DiesOnlyOfDamage, JudgedByItsOwnPin

\* A new process has empty buffers and no connections.
LEMMA DiesEmpties ==
  ASSUME NEW w, Dies(w)
  PROVE  Buffers' /\ queue' = <<>> /\ Mine' = {}
<1>1. /\ recv' \in Seq(Characters) /\ LenIs(recv', MAX_MSG) /\ IsPlain(plain') /\ plain'[1] = NoChar
  BY EmptyBuffers DEF Dies
<1>2. crypto' = Cleared /\ opened' = None /\ queue' = <<>>
  BY DEF Dies
<1>3. Mine' = {}
  BY <1>2 DEF Mine
<1>4. Buffers'
  BY <1>1, <1>2 DEF Buffers
<1>5. QED
  BY <1>2, <1>3, <1>4

\* A step that leaves the buffers alone keeps what holds of them.
LEMMA SameBuffers ==
  ASSUME Buffers, UNCHANGED <<recv, plain, crypto, opened>>
  PROVE  Buffers'
BY DEF Buffers

\* With nothing sent and nothing received yet there is no reply.
LEMMA NoReply == Session /\ Answered /\ ism # "sent" => reply = None
BY DEF Answered

\* A purchase: nothing was read of it.
LEMMA TerminalPaysInv ==
  Inv /\ TerminalPays =>
    Session' /\ Buffers' /\ Answered' /\ DiesOnlyOfDamage' /\ JudgedByItsOwnPin'
<1> SUFFICES ASSUME Inv, TerminalPays
             PROVE  Session' /\ Buffers' /\ Answered' /\ DiesOnlyOfDamage' /\ JudgedByItsOwnPin'
  OBVIOUS
<1>0. /\ ism = "free" /\ asked < MaxRequests /\ ism' = "connecting" /\ told' = None
      /\ UNCHANGED <<hsm, recv, plain, crypto, queue, opened, cause, reply>>
  BY DEF TerminalPays, hsmVars
<1>1. request' \in Asked
  <2>1. PICK d \in Devices, c \in Cards :
          \E damage \in {<<n, "nothing">> : n \in Cuts} \cup {<<0, "ksn">>, <<0, "data">>} :
            request' = [device |-> d, n |-> counter[d] + 1, card |-> c,
                        cut |-> damage[1], lacks |-> damage[2]]
    BY DEF TerminalPays
  <2>2. PICK damage \in {<<n, "nothing">> : n \in Cuts} \cup {<<0, "ksn">>, <<0, "data">>} :
          request' = [device |-> d, n |-> counter[d] + 1, card |-> c,
                      cut |-> damage[1], lacks |-> damage[2]]
    BY <2>1
  <2>3. /\ damage[1] \in Cuts /\ damage[2] \in {"nothing", "ksn", "data"}
        /\ damage[2] # "nothing" => damage[1] = 0
    BY <2>2, BoundsAssumption
  <2>4. counter[d] + 1 \in CounterValues /\ counter[d] + 1 \in Nat
    BY <1>0, CounterStays DEF Inv, CounterValues
  <2>5. QED
    BY <2>2, <2>3, <2>4 DEF Asked, Request
<1>2. Mine = {}
  BY <1>0 DEF Inv, Session
<1>3. Mine' = {}
  BY <1>0, <1>2 DEF Mine
<1>4. Session'
  BY <1>0, <1>1, <1>3, NoneIsNone DEF Inv, Session
<1>5. reply' = None
  BY <1>0, NoReply DEF Inv
<1>6. Buffers'
  BY <1>0, SameBuffers DEF Inv
<1>7. QED
  BY <1>0, <1>4, <1>5, <1>6 DEF Inv, Answered, DiesOnlyOfDamage, JudgedByItsOwnPin

\* A connection without a text, or a verdict without a connection.
LEMMA IsmConnectsInv ==
  ASSUME Inv, IsmConnects
  PROVE  Session' /\ Buffers' /\ Answered' /\ DiesOnlyOfDamage' /\ JudgedByItsOwnPin'
<1>1. ism = "connecting" /\ Mine = {} /\ request \in Asked /\ reply = None
  BY NoReply DEF IsmConnects, Inv, Session
<1>2. UNCHANGED <<recv, plain, crypto, opened, cause, hsm>>
  BY DEF IsmConnects
<1>3. Buffers'
  BY <1>2, SameBuffers DEF Inv
<1>4. DiesOnlyOfDamage'
  BY <1>2 DEF Inv, DiesOnlyOfDamage
<1>5. CASE hsm = "up" /\ ism' = "connected" /\ UNCHANGED <<request, reply, told>>
           /\ queue' = Append(queue, [of |-> request, text |-> <<>>, gone |-> FALSE])
  <2> DEFINE c == [of |-> request, text |-> <<>>, gone |-> FALSE]
             n == Len(queue)
  <2>1. c \in Connections
    BY <1>1 DEF Connections
  <2>2. queue \in Seq(Connections) /\ n \in Nat
    BY DEF Inv, Session
  <2>3. /\ queue' \in Seq(Connections) /\ Len(queue') = n + 1
        /\ queue'[n + 1] = c /\ \A i \in 1 .. n : queue'[i] = queue[i]
    <3> HIDE DEF c
    <3>1. queue' = Append(queue, c)
      BY <1>5 DEF c
    <3>2. QED
      BY <2>1, <2>2, <3>1, AppendProperties
  <2> HIDE DEF n
  <2>4. Mine' = {n + 1}
    <3>1. \A i \in 1 .. n : queue[i].gone
      BY <1>1 DEF Mine, n
    <3>2. \A i \in 1 .. n + 1 : i \in 1 .. n \/ i = n + 1
      BY <2>2
    <3>3. n + 1 \in 1 .. n + 1
      BY <2>2
    <3>4. ~c.gone
      OBVIOUS
    <3> HIDE DEF c
    <3>5. QED
      BY <2>3, <3>1, <3>2, <3>3, <3>4 DEF Mine
  <2>5. c.of = request /\ c.text = <<>>
    OBVIOUS
  <2> HIDE DEF c
  <2>6. Session'
    BY <1>1, <1>2, <1>5, <2>3, <2>4, <2>5, NoneIsNone DEF Inv, Session
  <2>7. Answered' /\ JudgedByItsOwnPin'
    BY <1>1, <1>5 DEF Inv, Answered, JudgedByItsOwnPin
  <2>8. QED
    BY <1>3, <1>4, <2>6, <2>7
<1>6. CASE Concludes("unreachable", FALSE) /\ UNCHANGED queue
  <2>1. ism' = "free" /\ request' = None /\ reply' = None /\ Mine' = {}
    BY <1>1, <1>6 DEF Concludes, Mine
  <2>2. Session'
    BY <1>2, <1>6, <2>1 DEF Inv, Session
  <2>3. JudgedByItsOwnPin'
    BY <1>6 DEF Concludes, JudgedByItsOwnPin
  <2>4. QED
    BY <1>3, <1>4, <2>1, <2>2, <2>3 DEF Answered
<1>7. QED
  BY <1>5, <1>6 DEF IsmConnects

\* The one connection of the ISM gets its message.
LEMMA IsmSendsInv ==
  ASSUME Inv, IsmSends
  PROVE  Session' /\ Buffers' /\ Answered' /\ DiesOnlyOfDamage' /\ JudgedByItsOwnPin'
<1>1. ism = "connected" /\ ism' = "sent" /\ request \in Asked /\ reply = None
  BY NoReply DEF IsmSends, Inv, Session
<1>2. UNCHANGED <<recv, plain, crypto, opened, cause, hsm, request, reply, told>>
  BY DEF IsmSends
<1> DEFINE n == Len(queue)
<1>3. queue \in Seq(Connections) /\ n \in Nat
  BY DEF Inv, Session
<1>4. queue' = [i \in 1 .. n |->
                  IF i \in Mine THEN [queue[i] EXCEPT !.text = Message(request)] ELSE queue[i]]
  BY DEF IsmSends
<1> HIDE DEF n
<1>5. \A i \in 1 .. n : queue[i] \in Connections
  BY <1>3, ElementOfSeq DEF n
<1>6. \A i \in Mine : queue[i].of = request /\ ~queue[i].gone
  BY DEF Inv, Session, Mine
<1>7. ASSUME NEW i \in 1 .. n
      PROVE  /\ queue'[i] \in Connections /\ queue'[i].gone = queue[i].gone
             /\ i \in Mine => queue'[i].of = request /\ queue'[i].text # <<>>
  <2>1. CASE i \in Mine
    <3>1. queue'[i] = [queue[i] EXCEPT !.text = Message(request)]
      BY <1>4, <2>1
    <3>2. /\ queue'[i].of = queue[i].of /\ queue'[i].gone = queue[i].gone
          /\ queue'[i].text = Message(request)
          /\ queue'[i] \in [of : Asked, text : Seq(Written), gone : BOOLEAN]
      BY <1>1, <1>5, <3>1, SomethingIsSent DEF Connections
    <3>3. QED
      BY <1>1, <1>6, <2>1, <3>2, SomethingIsSent DEF Connections
  <2>2. CASE i \notin Mine
    BY <1>4, <1>5, <2>2
  <2>3. QED
    BY <2>1, <2>2
<1>8. queue' \in Seq(Connections) /\ Len(queue') = n
  <2>1. queue' \in [1 .. n -> Connections]
    BY <1>4, <1>7
  <2>2. QED
    BY <1>3, <2>1
<1>9. Mine' = Mine
  BY <1>7, <1>8 DEF Mine, n
<1>10. \A i \in Mine : i \in 1 .. n
  BY DEF Mine, n
<1>11. Session'
  BY <1>1, <1>2, <1>7, <1>8, <1>9, <1>10 DEF Inv, Session
<1>12. Buffers'
  BY <1>2, SameBuffers DEF Inv
<1>13. QED
  BY <1>1, <1>2, <1>11, <1>12 DEF Inv, Answered, DiesOnlyOfDamage, JudgedByItsOwnPin

\* The verdict judges the PIN of the reply, and Answered says whose it is.
LEMMA IsmReceivesInv ==
  ASSUME Inv, IsmReceives
  PROVE  Session' /\ Buffers' /\ Answered' /\ DiesOnlyOfDamage' /\ JudgedByItsOwnPin'
<1>1. ism = "sent" /\ request \in Asked
  BY DEF IsmReceives, Inv, Session
<1>2. UNCHANGED <<hsm, recv, plain, crypto, queue, opened, cause>>
  BY DEF IsmReceives, hsmVars
<1>3. Mine = {}
  BY DEF IsmReceives, Inv, Answered
<1>4. \E via \in {"answer", "nothing"} : \E v : Concludes(via, v)
  BY DEF IsmReceives
<1>5. ism' = "free" /\ request' = None /\ reply' = None /\ Mine' = {}
  BY <1>2, <1>3, <1>4 DEF Concludes, Mine
<1>6. Session'
  BY <1>2, <1>5 DEF Inv, Session
<1>7. Buffers'
  BY <1>2, SameBuffers DEF Inv
<1>8. Answered' /\ DiesOnlyOfDamage'
  BY <1>2, <1>5 DEF Inv, Answered, DiesOnlyOfDamage
<1>9. JudgedByItsOwnPin'
  <2>1. CASE reply # None /\ \E v \in Judged(reply.pin) : Concludes("answer", v)
    <3>1. PICK v \in Judged(reply.pin) : Concludes("answer", v)
      BY <2>1
    <3>2. told'.via = "answer" /\ told'.request = request /\ told'.refused = v
      BY <3>1 DEF Concludes
    <3>3. Readable(request) => v = Rules!PinRefused(PinOf[request.card])
      <4>1. ASSUME Readable(request) PROVE v \in Judged(PinOf[request.card])
        BY <2>1, <3>1, <4>1 DEF Inv, Answered
      <4>2. request.card \in Cards
        BY <1>1, AskedIs
      <4>3. QED
        BY <4>1, <4>2, PinJudged
    <3>4. QED
      BY <3>2, <3>3 DEF JudgedByItsOwnPin
  <2>2. CASE \E v : Concludes("nothing", v)
    <3>1. told'.via = "nothing"
      BY <2>2 DEF Concludes
    <3>2. QED
      BY <3>1 DEF JudgedByItsOwnPin
  <2>3. QED
    BY <2>1, <2>2 DEF IsmReceives
<1>10. QED
  BY <1>6, <1>7, <1>8, <1>9

\* A kill of the HSM is blamed on no request.
LEMMA KillHsmInv ==
  ASSUME Inv, KillHsm
  PROVE  Session' /\ Buffers' /\ Answered' /\ DiesOnlyOfDamage' /\ JudgedByItsOwnPin'
<1>1. Buffers' /\ queue' = <<>> /\ Mine' = {}
  BY DiesEmpties DEF KillHsm
<1>2. hsm' = "dead" /\ cause' = None /\ UNCHANGED <<ism, request, reply, told>>
  BY DEF KillHsm, Dies, ismVars
<1>3. Session'
  BY <1>1, <1>2 DEF Inv, Session
<1>4. Answered'
  BY <1>1, <1>2 DEF Inv, Answered, StrangersAreRecent
<1>5. QED
  BY <1>1, <1>2, <1>3, <1>4 DEF Inv, DiesOnlyOfDamage, JudgedByItsOwnPin

\* A kill of the ISM leaves only connections that are gone.
LEMMA KillIsmInv ==
  ASSUME Inv, KillIsm
  PROVE  Session' /\ Buffers' /\ Answered' /\ DiesOnlyOfDamage' /\ JudgedByItsOwnPin'
<1>1. /\ ism' = "free" /\ request' = None /\ reply' = None
      /\ UNCHANGED <<hsm, recv, plain, crypto, opened, cause, told>>
  BY DEF KillIsm
<1> DEFINE n == Len(queue)
<1>2. queue \in Seq(Connections) /\ n \in Nat
  BY DEF Inv, Session
<1>3. queue' = [i \in 1 .. n |-> [queue[i] EXCEPT !.gone = TRUE]]
  BY DEF KillIsm
<1> HIDE DEF n
<1>4. ASSUME NEW i \in 1 .. n PROVE queue'[i] \in Connections /\ queue'[i].gone
  <2>1. queue[i] \in Connections
    BY <1>2, ElementOfSeq DEF n
  <2>2. queue'[i] = [queue[i] EXCEPT !.gone = TRUE]
    BY <1>3
  <2>3. QED
    BY <2>1, <2>2 DEF Connections
<1>5. queue' \in Seq(Connections) /\ Len(queue') = n
  <2>1. queue' \in [1 .. n -> Connections]
    BY <1>3, <1>4
  <2>2. QED
    BY <1>2, <2>1
<1>6. Mine' = {}
  BY <1>4, <1>5 DEF Mine
<1>7. Session'
  BY <1>1, <1>5, <1>6 DEF Inv, Session
<1>8. Buffers'
  BY <1>1, SameBuffers DEF Inv
<1>9. QED
  BY <1>1, <1>7, <1>8 DEF Inv, Answered, DiesOnlyOfDamage, JudgedByItsOwnPin

\* A new HSM has the buffers its end left empty.
LEMMA RestartInv ==
  ASSUME Inv, Restart
  PROVE  Session' /\ Buffers' /\ Answered' /\ DiesOnlyOfDamage' /\ JudgedByItsOwnPin'
<1>1. /\ hsm' = "up" /\ cause' = None
      /\ UNCHANGED <<recv, plain, crypto, queue, opened, ism, request, reply, told>>
  BY DEF Restart, ismVars
<1>2. Mine' = Mine
  BY <1>1 DEF Mine
<1>3. Session'
  BY <1>1, <1>2 DEF Inv, Session
<1>4. Buffers'
  BY <1>1, SameBuffers DEF Inv
<1>5. Answered'
  BY <1>1, <1>2 DEF Inv, Answered, StrangersAreRecent
<1>6. QED
  BY <1>1, <1>3, <1>4, <1>5 DEF Inv, DiesOnlyOfDamage, JudgedByItsOwnPin

\* The queue behind its head.
LEMMA HeadAndTail ==
  ASSUME NEW C, NEW q \in Seq(C), q # <<>>
  PROVE  /\ Head(q) = q[1] /\ Head(q) \in C /\ Len(q) \in Nat /\ Len(q) >= 1
         /\ Tail(q) \in Seq(C) /\ Len(Tail(q)) = Len(q) - 1
         /\ \A i \in 1 .. Len(Tail(q)) : i + 1 \in 1 .. Len(q) /\ Tail(q)[i] = q[i + 1]
BY HeadTailProperties, ElementOfSeq

\* The connection that is served: whose it is, and what was read of it.
LEMMA ServedConnection ==
  ASSUME Inv, Serve
  PROVE  /\ Head(queue) \in Connections /\ Head(queue).of \in Asked
         /\ Head(queue).text = <<>> => Head(queue).gone
         /\ Head(queue).text # <<>> => Head(queue).text = Message(Head(queue).of)
         /\ ~Head(queue).gone => Head(queue).of = request /\ ism = "sent" /\ Mine = {1}
<1> DEFINE c == Head(queue)
<1>1. queue \in Seq(Connections) /\ queue # <<>> /\ MayRead(c)
  BY ServeIs DEF Inv, Session
<1>2. c = queue[1] /\ c \in Connections /\ 1 \in 1 .. Len(queue)
  BY <1>1, HeadAndTail
<1> HIDE DEF c
<1>3. c.of \in Asked /\ c.text \in {<<>>, Message(c.of)} /\ c.gone \in BOOLEAN
  BY <1>2 DEF Connections
<1>4. c.text = <<>> => c.gone
  BY <1>1 DEF MayRead
<1>5. ASSUME ~c.gone PROVE c.of = request /\ ism = "sent" /\ Mine = {1}
  <2>1. 1 \in Mine
    BY <1>2, <1>5 DEF Mine
  <2>2. QED
    BY <1>2, <1>4, <1>5, <2>1 DEF Inv, Session
<1>6. QED
  BY <1>2, <1>3, <1>4, <1>5 DEF c

\* It dies over a connection without a message, or over damage only.
LEMMA ServeDies ==
  ASSUME Inv, Serve, NEW heard, NEW clear, NEW card, IsRead(heard, Head(queue).text),
         IsClear(clear, plain, heard), IsCard(card, crypto, clear),
         FatalServed(heard, clear, card), Dies(Head(queue)), UNCHANGED reply
  PROVE  Session' /\ Buffers' /\ Answered' /\ DiesOnlyOfDamage' /\ JudgedByItsOwnPin'
<1> DEFINE c == Head(queue)
<1>1. UNCHANGED <<ism, request, told>>
  BY ServeIs
<1>2. Buffers' /\ queue' = <<>> /\ Mine' = {}
  BY DiesEmpties
<1>3. hsm' = "dead" /\ cause' = c
  BY DEF Dies
<1>4. Session'
  BY <1>1, <1>2, <1>3 DEF Inv, Session
<1>5. Answered'
  BY <1>1, <1>2 DEF Inv, Answered, StrangersAreRecent
<1>6. /\ c.of \in Asked /\ (c.text = <<>> => c.gone)
      /\ (c.text # <<>> => c.text = Message(c.of))
  BY ServedConnection
<1> HIDE DEF c
<1>7. ASSUME c.text # <<>>, Readable(c.of), c.of.cut = 0, ~(Len(Face[c.of.card].pan) < 13)
      PROVE  FALSE
  <2>1. IsHeard(heard, recv, c.of)
    BY <1>6, <1>7 DEF IsHeard, IsRead, c
  <2>2. recv \in Seq(Characters) /\ LenIs(recv, MAX_MSG) /\ IsPlain(plain)
    BY DEF Inv, Buffers
  <2>3. ~FatalHeard(heard, card)
    BY <1>6, <1>7, <2>1, <2>2, ServedReadable
  <2>4. ~Garbled(heard, clear)
    BY <1>6, <1>7, <2>1, <2>2, DataRead
  <2>5. QED
    BY <2>3, <2>4 DEF FatalServed
<1>8. DiesOnlyOfDamage'
  <2>1. c.of.cut \in 0 .. 4
    BY <1>6, AskedIs
  <2>2. c.of.cut > 0 \/ c.of.cut = 0
    BY <2>1
  <2>3. c.of.cut = 0 /\ c.of.lacks = "nothing" => Readable(c.of)
    BY DEF Readable
  <2>4. QED
    BY <1>3, <1>6, <1>7, <2>2, <2>3 DEF DiesOnlyOfDamage
<1>9. JudgedByItsOwnPin'
  BY <1>1 DEF Inv, JudgedByItsOwnPin
<1>10. QED
  BY <1>2, <1>4, <1>5, <1>8, <1>9

\* An answered connection had a message.
LEMMA AnswersSomething ==
  ASSUME Inv, Serve, NEW heard, NEW card, IsRead(heard, Head(queue).text),
         ~FatalHeard(heard, card)
  PROVE  Head(queue).text # <<>> /\ IsHeard(heard, recv, Head(queue).of)
<1>1. recv \in Seq(Characters) /\ LenIs(recv, MAX_MSG)
  BY DEF Inv, Buffers
<1>2. FatalHeard(Strcpy(recv, <<>>), card)
  BY <1>1, ServedNothing
<1>3. Head(queue).text # <<>>
  BY <1>2 DEF IsRead
<1>4. Head(queue).text = Message(Head(queue).of)
  BY <1>3, ServedConnection
<1>5. QED
  BY <1>3, <1>4 DEF IsRead, IsHeard

\* It answers what it read: its own card and PIN if the request was readable, the card of bAux otherwise.
LEMMA ServeAnswers ==
  ASSUME Inv, Serve, NEW heard, NEW clear, NEW card, IsRead(heard, Head(queue).text),
         IsClear(clear, plain, heard), IsCard(card, crypto, clear),
         ~FatalHeard(heard, card), Answers(heard, clear, card)
  PROVE  Session' /\ Buffers' /\ Answered' /\ DiesOnlyOfDamage' /\ JudgedByItsOwnPin'
<1> DEFINE c == Head(queue)
           r == c.of
<1>1. UNCHANGED <<ism, request, told, hsm, cause>>
  BY ServeIs DEF Answers
<1>2. /\ recv \in Seq(Characters) /\ LenIs(recv, MAX_MSG) /\ IsPlain(plain)
      /\ opened \in Cards \cup {None}
      /\ opened = None => plain[1] = NoChar \/ plain = Spoilt
      /\ opened # None => BeginsWith(plain, opened)
  BY DEF Inv, Buffers
<1>3. r \in Asked /\ IsHeard(heard, recv, r)
  BY ServedConnection, AnswersSomething
<1>4. ~c.gone => r = request /\ ism = "sent" /\ Mine = {1}
  BY ServedConnection
<1>5. /\ plain' \in Copies(heard, clear) /\ recv' = heard /\ crypto' = card
      /\ opened' = IF plain' = Spoilt THEN None ELSE OpenedBy(heard, opened)
      /\ queue' = Tail(queue)
  BY DEF Answers
<1>6. \E block \in BlocksHeard(heard) :
        reply' = IF c.gone THEN reply
                 ELSE [card |-> card, last |-> opened',
                       pin |-> doDukptDecryptPinBlock(block, card.pan)]
  BY DEF Answers
<1> HIDE DEF r, c
<1>7. heard \in Seq(Characters) /\ LenIs(heard, MAX_MSG)
  BY <1>2, <1>3, MessageHeard DEF IsHeard
<1>8. DOMAIN card = DOMAIN Cleared
  BY MembersOfCard
<1>9. r.card \in Cards /\ r.card # None
  BY <1>3, AskedIs, NoneIsNone
<1> DEFINE now == OpenedBy(heard, opened)
<1>10. /\ IsPlain(clear)
       /\ Readable(r) => BeginsWith(clear, r.card) /\ now = r.card
       /\ ~Readable(r) => clear = plain /\ now = opened
  <2>1. CASE Readable(r)
    <3>1. IsPlain(clear) /\ BeginsWith(clear, r.card)
      BY <1>2, <1>3, <2>1, DataRead
    <3>2. now = r.card
      BY <1>2, <1>3, <2>1, ServedReadable
    <3>3. QED
      BY <2>1, <3>1, <3>2
  <2>2. CASE ~Readable(r)
    <3>1. clear = plain /\ OpenedBy(heard, opened) = opened
      <4> HIDE DEF now
      <4>1. QED
        BY <1>2, <1>3, <2>2, ServedDamaged
    <3>2. QED
      BY <1>2, <2>2, <3>1
  <2>3. QED
    BY <2>1, <2>2
<1> HIDE DEF now
<1>05. plain' \in {clear, Spoilt} /\ opened' = IF plain' = Spoilt THEN None ELSE now
  BY <1>5 DEF Copies, AfterCopies, now
<1>06. clear # Spoilt => now \in Cards /\ BeginsWith(clear, now)
  <2>1. ASSUME ~Readable(r), plain # Spoilt PROVE opened # None
    <3>1. ASSUME plain[1] = NoChar PROVE FALSE
      <4>1. clear[1] = NoChar
        BY <1>10, <2>1, <3>1
      <4>2. FatalHeard(heard, card)
        BY <1>10, <4>1, ServedUnopened
      <4>3. QED
        BY <4>2
    <3>2. QED
      BY <1>2, <2>1, <3>1
  <2>2. QED
    BY <1>2, <1>9, <1>10, <2>1
<1>11. Buffers'
  <2>1. IsPlain(plain') /\ opened' \in Cards \cup {None}
    BY <1>05, <1>06, <1>10, SpoiltIs
  <2>2. opened' = None => plain' = Spoilt
    BY <1>05, <1>06, NoneIsNone
  <2>3. opened' # None => BeginsWith(plain', opened')
    BY <1>05, <1>06
  <2>4. QED
    BY <1>5, <1>7, <1>8, <2>1, <2>2, <2>3 DEF Buffers
<1>12. /\ opened' # None => opened' = now /\ now \in Cards /\ card.pan = Face[now].pan
       /\ Readable(r) => /\ card.pan = Face[r.card].pan /\ Len(Face[r.card].pan) >= 13
                         /\ r.cut = 0 => card = Face[r.card]
                         /\ BlocksHeard(heard) = {doDukptEncryptPinBlock(PinOf[r.card], Face[r.card].pan)}
  <2>1. ASSUME opened' # None PROVE opened' = now /\ now \in Cards /\ card.pan = Face[now].pan
    <3> DEFINE text == CString(clear, 1, MaxText, NoChar)
    <3>0. clear # Spoilt /\ opened' = now
      BY <1>05, <2>1
    <3>1. clear \in Seq(-1 .. 10) /\ LenIs(clear, MaxText + 1) /\ text = CString(clear, 1, MaxText, NoChar)
      BY <1>10 DEF IsPlain
    <3>2. card = Parsed(crypto, text)
      BY <3>0, UnspoiltRead
    <3>3. now \in Cards /\ BeginsWith(clear, now)
      BY <1>06, <3>0
    <3> HIDE DEF text
    <3>4. Parsed(crypto, text).pan = Face[now].pan
      BY <3>1, <3>3, BeginningRead
    <3>5. QED
      BY <3>0, <3>2, <3>3, <3>4
  <2>2. ASSUME Readable(r)
        PROVE  card.pan = Face[r.card].pan /\ (r.cut = 0 => card = Face[r.card])
    BY <1>2, <1>3, <2>2, DataRead
  <2>3. ASSUME Readable(r) PROVE ~(Len(Face[r.card].pan) < 13)
    BY <1>2, <1>3, <2>3, ServedReadable
  <2>4. ~(Len(Face[r.card].pan) < 13) => Len(Face[r.card].pan) >= 13
    <3>1. PICK p \in 0 .. 19 : LenIs(Face[r.card].pan, p)
      BY <1>9, FaceIs
    <3>2. QED
      BY <3>1 DEF LenIs
  <2>5. ASSUME Readable(r), Len(Face[r.card].pan) >= 13
        PROVE  BlocksHeard(heard) = {doDukptEncryptPinBlock(PinOf[r.card], Face[r.card].pan)}
    BY <1>2, <1>3, <2>5, ServedReadable
  <2>6. QED
    BY <2>1, <2>2, <2>3, <2>4, <2>5
<1>13. /\ queue' \in Seq(Connections) /\ Len(queue') = Len(queue) - 1 /\ Len(queue) \in Nat
       /\ \A i \in 1 .. Len(queue') : i + 1 \in 1 .. Len(queue) /\ queue'[i] = queue[i + 1]
  <2>1. queue \in Seq(Connections) /\ queue # <<>>
    BY ServeIs DEF Inv, Session
  <2>2. QED
    BY <1>5, <2>1, HeadAndTail
<1>14. /\ \A i \in Mine' : i \in 1 .. Len(queue') /\ i + 1 \in Mine /\ queue'[i] = queue[i + 1]
       /\ Mine' \subseteq Nat \ {0}
  BY <1>13 DEF Mine
<1>15. ~c.gone => Mine' = {}
  <2>1. \A i \in Nat \ {0} : i + 1 # 1
    OBVIOUS
  <2>2. QED
    BY <1>4, <1>14, <2>1
<1>16. Session'
  <2>1. \A i, j \in Mine' : i = j
    <3>1. \A i, j \in Mine' : i + 1 = j + 1
      BY <1>14 DEF Inv, Session
    <3>2. \A i, j \in Nat : i + 1 = j + 1 => i = j
      OBVIOUS
    <3>3. QED
      BY <1>14, <3>1, <3>2
  <2>2. \A i \in Mine' :
          /\ queue'[i].of = request /\ ism \in {"connected", "sent"}
          /\ (queue'[i].text = <<>>) <=> (ism = "connected")
    BY <1>14 DEF Inv, Session
  <2>3. QED
    BY <1>1, <1>13, <2>1, <2>2 DEF Inv, Session
<1>17. Answered'
  <2>1. CASE c.gone
    <3>1. reply' = reply
      BY <1>6, <2>1
    <3>2. Mine = {} => Mine' = {}
      BY <1>14
    <3>3. QED
      BY <1>1, <3>1, <3>2 DEF Inv, Answered, StrangersAreRecent
  <2>2. CASE ~c.gone
    <3>1. PICK block \in BlocksHeard(heard) :
            reply' = [card |-> card, last |-> opened',
                      pin |-> doDukptDecryptPinBlock(block, card.pan)]
      BY <1>6, <2>2
    <3>2. /\ reply'.card = card /\ reply'.last = opened'
          /\ reply'.pin = doDukptDecryptPinBlock(block, card.pan)
      BY <3>1
    <3>3. request' = r /\ ism' = "sent" /\ Mine' = {}
      BY <1>1, <1>4, <1>15, <2>2
    <3>4. Readable(r) => reply'.pin = PinOf[r.card]
      <4>1. ASSUME Readable(r)
            PROVE  reply'.pin = PinOf[r.card]
        <5>1. block = doDukptEncryptPinBlock(PinOf[r.card], Face[r.card].pan)
          BY <1>12, <3>1, <4>1
        <5>2. card.pan = Face[r.card].pan /\ Len(Face[r.card].pan) >= 13
          BY <1>12, <4>1
        <5>3. QED
          BY <1>9, <3>2, <5>1, <5>2, PinRead
      <4>2. QED
        BY <4>1
    <3>5. Readable(r) /\ r.cut = 0 => reply'.card = Face[r.card]
      BY <1>12, <3>2
    <3>6. StrangersAreRecent'
      BY <1>12, <3>2 DEF StrangersAreRecent
    <3>7. QED
      BY <3>3, <3>4, <3>5, <3>6 DEF Answered
  <2>3. QED
    BY <2>1, <2>2
<1>18. DiesOnlyOfDamage' /\ JudgedByItsOwnPin'
  BY <1>1 DEF Inv, DiesOnlyOfDamage, JudgedByItsOwnPin
<1>19. QED
  BY <1>11, <1>16, <1>17, <1>18

\* Both outcomes of Serve.
LEMMA ServeInv ==
  ASSUME Inv, Serve
  PROVE  Session' /\ Buffers' /\ Answered' /\ DiesOnlyOfDamage' /\ JudgedByItsOwnPin'
<1>1. PICK heard, clear, card :
        /\ IsRead(heard, Head(queue).text) /\ IsClear(clear, plain, heard)
        /\ IsCard(card, crypto, clear)
        /\ \/ FatalServed(heard, clear, card) /\ Dies(Head(queue)) /\ UNCHANGED reply
           \/ ~FatalHeard(heard, card) /\ Answers(heard, clear, card)
  BY ServeIs
<1>2. CASE FatalServed(heard, clear, card) /\ Dies(Head(queue)) /\ UNCHANGED reply
  BY <1>1, <1>2, ServeDies
<1>3. CASE ~FatalHeard(heard, card) /\ Answers(heard, clear, card)
  BY <1>1, <1>3, ServeAnswers
<1>4. QED
  BY <1>1, <1>2, <1>3

\* A step of nobody.
LEMMA StutterInv ==
  ASSUME Inv, UNCHANGED vars
  PROVE  Session' /\ Buffers' /\ Answered' /\ DiesOnlyOfDamage' /\ JudgedByItsOwnPin'
<1>1. UNCHANGED <<hsm, recv, plain, crypto, queue, opened, cause, ism, request, reply, told>>
  BY DEF vars, hsmVars, ismVars
<1>2. Mine' = Mine
  BY <1>1 DEF Mine
<1>3. Session'
  BY <1>1, <1>2 DEF Inv, Session
<1>4. Buffers'
  BY <1>1, SameBuffers DEF Inv
<1>5. Answered'
  BY <1>1, <1>2 DEF Inv, Answered, StrangersAreRecent
<1>6. QED
  BY <1>1, <1>3, <1>4, <1>5 DEF Inv, DiesOnlyOfDamage, JudgedByItsOwnPin

\* The invariant is inductive.
LEMMA NextInv == Inv /\ [Next]_vars => Inv'
<1> SUFFICES ASSUME Inv, [Next]_vars PROVE Inv'
  OBVIOUS
<1> DEFINE Rest == Session' /\ Buffers' /\ Answered' /\ DiesOnlyOfDamage' /\ JudgedByItsOwnPin'
<1>1. Counting'
  BY NextCounting DEF Inv
<1>2. TerminalPays => Rest
  BY TerminalPaysInv
<1>3. IsmConnects => Rest
  BY IsmConnectsInv
<1>4. IsmSends => Rest
  BY IsmSendsInv
<1>5. IsmReceives => Rest
  BY IsmReceivesInv
<1>6. Serve => Rest
  BY ServeInv
<1>7. KillHsm => Rest
  BY KillHsmInv
<1>8. KillIsm => Rest
  BY KillIsmInv
<1>9. Restart => Rest
  BY RestartInv
<1>10. UNCHANGED vars => Rest
  BY StutterInv
<1>11. Rest
  <2> HIDE DEF Rest
  <2>1. QED
    BY <1>2, <1>3, <1>4, <1>5, <1>6, <1>7, <1>8, <1>9, <1>10 DEF Next
<1>12. QED
  BY <1>1, <1>11 DEF Inv

-----------------------------------------------------------------------------
(* The theorems.                                                           *)

\* The invariant holds always.
LEMMA Invariance == Spec => []Inv
<1>1. Init => Inv
  BY InitInv
<1>2. Inv /\ [Next]_vars => Inv'
  BY NextInv
<1>3. QED
  BY <1>1, <1>2, PTL DEF Spec

\* A set whose members are equal has one at most.
LEMMA AtMostOneConnection ==
  ASSUME \A i, j \in Mine : i = j
  PROVE  Cardinality(Mine) <= 1
<1>1. CASE Mine = {}
  BY <1>1, FS_EmptySet
<1>2. CASE Mine # {}
  <2>1. PICK i : i \in Mine
    BY <1>2
  <2>2. Mine = {i}
    BY <2>1
  <2>3. Cardinality({i}) = 1
    BY FS_Singleton
  <2>4. QED
    BY <2>2, <2>3
<1>3. QED
  BY <1>1, <1>2

\* Every connection in the queue is well formed.
LEMMA ConnectionsAre ==
  ASSUME Session, NEW i \in 1 .. Len(queue)
  PROVE  Connection(queue[i])
<1>1. queue \in Seq(Connections)
  BY DEF Session
<1>2. queue[i] \in Connections
  BY <1>1, ElementOfSeq
<1>3. queue[i].of \in Asked
  BY <1>2 DEF Connections
<1>4. queue[i].of \in Request
  BY <1>3, AskedIs
<1>5. QED
  BY <1>2, <1>4 DEF Connections, Connection

\* Every variable keeps its type, for any cards and any bounds: the ISM has one
\* connection at most, no message outgrows recvMessage and no text bAux, and no
\* counter outgrows the bits it has in a KSN.
THEOREM HsmTypesCorrect == Spec => []TypeOK
<1>1. Inv => TypeOK
  <2> SUFFICES ASSUME Inv PROVE TypeOK
    OBVIOUS
  <2>1. Session /\ Counting /\ Buffers
    BY DEF Inv
  <2>2. hsm \in {"up", "dead"} /\ ism \in {"free", "connecting", "connected", "sent"}
    BY <2>1 DEF Session
  <2>3. Len(recv) = MAX_MSG /\ Len(plain) = MaxText + 1
    BY <2>1 DEF Buffers, IsPlain, LenIs
  <2>4. DOMAIN crypto = DOMAIN Cleared /\ opened \in Cards \cup {None}
    BY <2>1 DEF Buffers
  <2>5. \A i \in 1 .. Len(queue) : Connection(queue[i])
    BY <2>1, ConnectionsAre
  <2>6. Cardinality(Mine) <= 1
    BY <2>1, AtMostOneConnection DEF Session
  <2>7. (request = None) <=> (ism = "free")
    BY <2>1 DEF Session
  <2>8. request # None => request \in Request
    BY <2>1, AskedIs DEF Session
  <2>9. counter \in [Devices -> CounterValues]
    <3>1. counter \in [Devices -> Nat]
      BY <2>1 DEF Counting
    <3>2. \A d \in Devices : counter[d] \in CounterValues
      BY <2>1, CounterStays
    <3>3. QED
      BY <3>1, <3>2
  <2>10. QED
    BY <2>2, <2>3, <2>4, <2>5, <2>6, <2>7, <2>8, <2>9 DEF TypeOK
<1>2. QED
  BY <1>1, Invariance, PTL

\* While a PIN is checked no other transaction of any device has its key, nor
\* does the data travel under it: for every width of the counter.
THEOREM KeysStaySeparate == Spec => []KeysAreSeparate
<1>1. Inv => KeysAreSeparate
  <2> SUFFICES ASSUME Inv, request # None PROVE KeysAreSeparate
    BY DEF KeysAreSeparate
  <2> DEFINE d == request.device
             n == request.n
             k == WalkedKeys[<<d, n>>]
  <2>1. d \in Devices /\ n \in CounterValues
    BY AskedIs DEF Inv, Session
  <2> HIDE DEF d, n
  <2>2. \A e \in Devices, m \in CounterValues : WalkedKeys[<<e, m>>] = PinKey(Ksn(e, m))
    BY DEF WalkedKeys
  <2>3. ASSUME NEW e \in Devices, NEW m \in CounterValues, <<e, m>> # <<d, n>>
        PROVE  WalkedKeys[<<e, m>>] # k
    <3>1. WalkedKeys[<<e, m>>] = PinKey(Ksn(e, m)) /\ k = PinKey(Ksn(d, n))
      BY <2>1, <2>2
    <3>2. PinKey(Ksn(e, m)) = PinKey(Ksn(d, n)) => e = d /\ m = n
      BY <2>1, KeysSeparate
    <3>3. QED
      BY <2>3, <3>1, <3>2
  <2>4. DataKey(Ksn(d, n)) # k
    <3>1. k = PinKey(Ksn(d, n))
      BY <2>1, <2>2
    <3>2. DataKey(Ksn(d, n)) # PinKey(Ksn(d, n))
      BY <2>1, KeysSeparate
    <3>3. QED
      BY <3>1, <3>2
  <2>5. \A u \in Devices \X CounterValues : u # <<d, n>> => WalkedKeys[u] # k
    BY <2>3
  <2>6. <<d, n>>[1] = d /\ <<d, n>>[2] = n
    OBVIOUS
  <2>7. <<d, n>> \notin Shared
    BY <2>4, <2>5, <2>6 DEF Shared, k
  <2>8. QED
    BY <2>7 DEF KeysAreSeparate, d, n
<1>2. QED
  BY <1>1, Invariance, PTL

\* The verdict on a readable request is that on the PIN its customer typed,
\* whatever damaged, abandoned or foreign requests the HSM served before it and
\* whoever died in between.
THEOREM PinsAreJudged == Spec => []JudgedByItsOwnPin
<1>1. Inv => JudgedByItsOwnPin
  BY DEF Inv
<1>2. QED
  BY <1>1, Invariance, PTL

\* The reply to a whole request holds its own card and PIN, whatever is left in
\* recvMessage and bAux of the requests before.
THEOREM RepliesAreOwn == Spec => []ReplyIsOwn
<1>1. Inv => ReplyIsOwn
  BY DEF Inv, Answered, ReplyIsOwn, Readable
<1>2. QED
  BY <1>1, Invariance, PTL

\* A reply to a damaged request names its own card or the one that this HSM
\* process decrypted last, and never another, until a garbled length spoils bAux.
THEOREM OnlyTheLastStranger == Spec => []StrangersAreRecent
<1>1. Inv => StrangersAreRecent
  BY DEF Inv, Answered, StrangersAreRecent
<1>2. QED
  BY <1>1, Invariance, PTL

\* What is left in the buffers never makes a whole request fatal when its card's
\* PAN has thirteen digits: the process ends over a request that lacks something,
\* over a shorter PAN, or over a connection given up before it was used.
THEOREM OnlyDamageKills == Spec => []DiesOnlyOfDamage
<1>1. Inv => DiesOnlyOfDamage
  BY DEF Inv
<1>2. QED
  BY <1>1, Invariance, PTL
=============================================================================
