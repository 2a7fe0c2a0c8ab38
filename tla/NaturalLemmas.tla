--------------------------- MODULE NaturalLemmas ---------------------------
(***************************************************************************)
(* Induction over the natural numbers in a form that speaks of sets, not   *)
(* of operators, so that a proof can cite it like any other fact; and the  *)
(* arithmetic and the sequences the other proofs keep needing.             *)
(***************************************************************************)
EXTENDS Integers, FiniteSetsExt, WellFoundedInduction, SequenceTheorems, TLAPS

\* A set of natural numbers that is not empty has a least member.
LEMMA LeastMember ==
  ASSUME NEW T, T \subseteq Nat, T # {}
  PROVE  \E x \in T : \A y \in T : x <= y
<1>1. PICK R : IsWellFoundedOn(R, Nat) /\ \A x, y \in Nat : x < y => <<x, y>> \in R
  <2>1. \A x, y \in Nat : x < y => <<x, y>> \in OpToRel(<, Nat)
    BY DEF OpToRel
  <2>2. QED
    BY <2>1, NatLessThanWellFounded
<1>2. IsWellFoundedOn(R, Nat)
  BY <1>1
<1>3. \E x \in T : \A y \in T : ~(<<y, x>> \in R)
  BY <1>2, WFMin, Zenon
<1>4. PICK x \in T : \A y \in T : ~(<<y, x>> \in R)
  BY <1>3
<1>5. \A y \in T : ~(y < x)
  BY <1>1, <1>4
<1>6. QED
  BY <1>5

\* Induction: what holds of 0, and of n + 1 whenever it holds of n, holds of
\* all; and the same up to a bound.
LEMMA InductionOnNat ==
  ASSUME NEW S, 0 \in S, \A n \in Nat : n \in S => n + 1 \in S
  PROVE  Nat \subseteq S
<1>1. SUFFICES ASSUME Nat \ S # {} PROVE FALSE
  OBVIOUS
<1>2. PICK x \in Nat \ S : \A y \in Nat \ S : x <= y
  BY <1>1, LeastMember
<1>3. x - 1 \in Nat /\ x - 1 \in S
  BY <1>2
<1>4. QED
  BY <1>2, <1>3

\* The same up to a bound.
LEMMA InductionUpTo ==
  ASSUME NEW N \in Nat, NEW S, 0 \in S, \A n \in 0 .. N - 1 : n \in S => n + 1 \in S
  PROVE  0 .. N \subseteq S
<1> DEFINE U == {n \in Nat : n <= N => n \in S}
<1>1. 0 \in U
  OBVIOUS
<1>2. ASSUME NEW n \in Nat, n \in U PROVE n + 1 \in U
  BY <1>2
<1> HIDE DEF U
<1>3. Nat \subseteq U
  BY <1>1, <1>2, InductionOnNat
<1>4. QED
  BY <1>3 DEF U

\* The least and the greatest member by their names.
LEMMA MinIsLeast ==
  ASSUME NEW T, T \subseteq Nat, T # {}
  PROVE  Min(T) \in T /\ \A y \in T : Min(T) <= y
BY LeastMember DEF Min

\* A bounded set of numbers has a greatest member.
LEMMA MaxIsGreatest ==
  ASSUME NEW T, T \subseteq Nat, T # {}, NEW N \in Nat, \A y \in T : y <= N
  PROVE  Max(T) \in T /\ \A y \in T : y <= Max(T)
<1> DEFINE U == {n \in Nat : \E y \in T : n = N - y}
<1>1. U \subseteq Nat /\ U # {}
  <2>1. PICK y : y \in T
    OBVIOUS
  <2>2. N - y \in U
    BY <2>1
  <2>3. QED
    BY <2>2
<1>2. PICK n \in U : \A m \in U : n <= m
  BY <1>1, LeastMember
<1>3. PICK x \in T : n = N - x
  BY <1>2
<1>4. \A y \in T : y <= x
  BY <1>2, <1>3
<1>5. QED
  BY <1>4 DEF Max

\* A quotient is known by its remainder.
LEMMA QuotientIs ==
  ASSUME NEW p \in Nat \ {0}, NEW a \in Nat, NEW c \in 0 .. p - 1
  PROVE  (p * a + c) \div p = a
<1> DEFINE n == p * a + c
           q == n \div p
<1>1. n \in Nat /\ p * a \in Nat
  OBVIOUS
<1>2. q \in Int /\ p * q <= n /\ n < p * q + p
  BY <1>1
<1>3. ~(a >= q + 1)
  BY <1>1, <1>2
<1>4. ~(q >= a + 1)
  BY <1>1, <1>2
<1>5. QED
  BY <1>2, <1>3, <1>4

\* What a quotient is, by its bounds.
LEMMA QuotientBounds ==
  ASSUME NEW n \in Nat, NEW p \in Nat \ {0}
  PROVE  n \div p \in Nat /\ p * (n \div p) <= n /\ n < p * (n \div p) + p
OBVIOUS

\* A value computed from the one before is computed for every number.
LEMMA IterationExists ==
  ASSUME NEW V, NEW v \in V, NEW g \in [Nat -> [V -> V]]
  PROVE  \E f \in [Nat -> V] : f[0] = v /\ \A n \in Nat : f[n + 1] = g[n][f[n]]
<1> DEFINE Ok(f, n) == f[0] = v /\ \A i \in 0 .. n - 1 : f[i + 1] = g[i][f[i]]
           S == {n \in Nat : \E f \in [Nat -> V] : Ok(f, n)}
<1>1. 0 \in S
  <2>1. Ok([n \in Nat |-> v], 0)
    OBVIOUS
  <2>2. QED
    BY <2>1
<1>2. ASSUME NEW n \in Nat, n \in S PROVE n + 1 \in S
  <2>1. PICK f \in [Nat -> V] : Ok(f, n)
    BY <1>2
  <2>2. DEFINE h == [f EXCEPT ![n + 1] = g[n][f[n]]]
  <2>3. h \in [Nat -> V]
    OBVIOUS
  <2>4. Ok(h, n + 1)
    BY <2>1
  <2> HIDE DEF h, Ok
  <2>5. QED
    BY <2>3, <2>4
<1> HIDE DEF S
<1>3. Nat \subseteq S
  BY <1>1, <1>2, InductionOnNat
<1>4. \A n \in Nat : \E f \in [Nat -> V] : Ok(f, n)
  BY <1>3 DEF S
<1>5. ASSUME NEW f \in [Nat -> V], NEW h \in [Nat -> V], NEW n \in Nat, NEW m \in Nat, n <= m,
             Ok(f, n), Ok(h, m)
      PROVE  f[n] = h[n]
  <2> DEFINE E == {i \in Nat : f[i] = h[i]}
  <2>1. 0 \in E
    BY <1>5
  <2>2. ASSUME NEW i \in 0 .. n - 1, i \in E PROVE i + 1 \in E
    <3>1. i \in Nat /\ i + 1 \in Nat /\ i \in 0 .. m - 1
      BY <1>5
    <3>2. f[i + 1] = g[i][f[i]] /\ h[i + 1] = g[i][h[i]]
      BY <1>5, <3>1
    <3>3. QED
      BY <2>2, <3>1, <3>2
  <2> HIDE DEF E
  <2>3. 0 .. n \subseteq E
    BY <2>1, <2>2, InductionUpTo
  <2>4. QED
    BY <2>3 DEF E
<1> DEFINE P(n) == CHOOSE f \in [Nat -> V] : Ok(f, n)
           F == [n \in Nat |-> P(n)[n]]
<1>6. \A n \in Nat : P(n) \in [Nat -> V] /\ Ok(P(n), n)
  BY <1>4
<1> HIDE DEF P
<1>7. F \in [Nat -> V]
  BY <1>6
<1>8. F[0] = v
  BY <1>6
<1>9. ASSUME NEW n \in Nat PROVE F[n + 1] = g[n][F[n]]
  <2>1. P(n + 1)[n + 1] = g[n][P(n + 1)[n]]
    BY <1>6
  <2>2. P(n)[n] = P(n + 1)[n]
    <3> HIDE DEF Ok
    <3>1. n + 1 \in Nat /\ n <= n + 1
      OBVIOUS
    <3>2. QED
      BY <1>5, <1>6, <3>1
  <2>3. QED
    BY <2>1, <2>2
<1>10. QED
  BY <1>7, <1>8, <1>9

\* The same for the functions that a recursion up to a bound defines.
AreSteps(g, N, V) == g \in [1 .. N -> [V -> V]]
IsRecursion(f, N, V, v, g) ==
  f \in [0 .. N -> V] /\ f[0] = v /\ \A i \in 1 .. N : f[i] = g[i][f[i - 1]]

LEMMA RecursionExists ==
  ASSUME NEW N \in Nat, NEW V, NEW v \in V, NEW g, AreSteps(g, N, V)
  PROVE  \E f : IsRecursion(f, N, V, v, g)
<1>0. g \in [1 .. N -> [V -> V]]
  BY DEF AreSteps
<1> DEFINE Ok(f, n) == /\ f \in [0 .. n -> V] /\ f[0] = v
                       /\ \A i \in 1 .. n : f[i] = g[i][f[i - 1]]
           S == {n \in Nat : n <= N => \E f : Ok(f, n)}
<1>1. 0 \in S
  <2>1. Ok([i \in 0 .. 0 |-> v], 0)
    OBVIOUS
  <2>2. QED
    BY <2>1
<1>2. ASSUME NEW n \in Nat, n \in S PROVE n + 1 \in S
  <2>1. SUFFICES ASSUME n + 1 <= N PROVE \E f : Ok(f, n + 1)
    OBVIOUS
  <2>2. PICK f : Ok(f, n)
    BY <1>2, <2>1
  <2>3. n + 1 \in 1 .. N /\ n \in 0 .. n
    BY <2>1
  <2> DEFINE h == [i \in 0 .. n + 1 |-> IF i = n + 1 THEN g[n + 1][f[n]] ELSE f[i]]
  <2>4. g[n + 1] \in [V -> V] /\ f[n] \in V
    BY <1>0, <2>2, <2>3
  <2>5. h \in [0 .. n + 1 -> V]
    <3>1. \A i \in 0 .. n + 1 : i # n + 1 => i \in 0 .. n
      OBVIOUS
    <3>2. QED
      BY <2>2, <2>4, <3>1
  <2>6. h[0] = v
    BY <2>2
  <2>7. \A i \in 1 .. n + 1 : h[i] = g[i][h[i - 1]]
    <3>1. TAKE i \in 1 .. n + 1
    <3>2. CASE i = n + 1
      BY <3>2
    <3>3. CASE i \in 1 .. n
      BY <2>2, <3>3
    <3>4. QED
      BY <3>2, <3>3
  <2>8. Ok(h, n + 1)
    BY <2>5, <2>6, <2>7
  <2> HIDE DEF h, Ok
  <2>9. QED
    BY <2>8
<1> HIDE DEF S
<1>3. N \in S
  BY <1>1, <1>2, InductionOnNat
<1>4. PICK f : Ok(f, N)
  BY <1>3 DEF S
<1>5. QED
  BY <1>4 DEF IsRecursion

-----------------------------------------------------------------------------
(* Sequences.                                                              *)

LenIs(s, n) == Len(s) = n
IsJoined(u, s, t) == u = s \o t

\* What stands where in two sequences joined.
LEMMA Joined ==
  ASSUME NEW V, NEW s \in Seq(V), NEW t \in Seq(V), NEW u, IsJoined(u, s, t)
  PROVE  /\ u \in Seq(V) /\ Len(u) = Len(s) + Len(t)
         /\ \A i \in 1 .. Len(s) : u[i] = s[i]
         /\ \A i \in 1 .. Len(t) : u[Len(s) + i] = t[i]
<1>1. PICK m \in Nat, n \in Nat : Len(s) = m /\ Len(t) = n
  BY LenProperties
<1>2. /\ u \in Seq(V) /\ Len(u) = m + n
      /\ \A i \in 1 .. m + n : u[i] = IF i <= m THEN s[i] ELSE t[i - m]
  BY <1>1, ConcatProperties DEF IsJoined
<1>3. \A i \in 1 .. m : i \in 1 .. m + n /\ i <= m
  OBVIOUS
<1>4. \A i \in 1 .. n : m + i \in 1 .. m + n /\ ~(m + i <= m) /\ (m + i) - m = i
  OBVIOUS
<1>5. QED
  BY <1>1, <1>2, <1>3, <1>4

\* A part of a sequence.
LEMMA PieceIs ==
  ASSUME NEW V, NEW s \in Seq(V), NEW a \in Nat \ {0}, NEW n \in Nat,
         NEW b \in Int, b = (a + n) - 1, b <= Len(s), NEW t, t = SubSeq(s, a, b)
  PROVE  t \in Seq(V) /\ Len(t) = n /\ \A i \in 1 .. n : t[i] = s[(a + i) - 1]
<1>1. \A i \in a .. b : s[i] \in V
  <2>1. \A i \in a .. b : i \in 1 .. Len(s)
    BY LenProperties
  <2>2. QED
    BY <2>1, ElementOfSeq
<1>2. /\ t \in Seq(V)
      /\ Len(t) = IF a <= b THEN b - a + 1 ELSE 0
      /\ \A i \in 1 .. b - a + 1 : t[i] = s[a + i - 1]
  BY <1>1, SubSeqProperties, SMTT(40)
<1>3. b - a + 1 = n /\ (~(a <= b) => n = 0)
  OBVIOUS
<1>4. QED
  BY <1>2, <1>3

\* The first elements of a sequence, and one more.
LEMMA PieceGrows ==
  ASSUME NEW V, NEW s \in Seq(V), NEW k \in 1 .. Len(s)
  PROVE  SubSeq(s, 1, k) = Append(SubSeq(s, 1, k - 1), s[k])
<1>1. Len(s) \in Nat /\ 1 \in 1 .. Len(s) /\ k - 1 \in Nat /\ k - 1 <= Len(s) /\ s[k] \in V
  BY LenProperties, ElementOfSeq
<1>2. SubSeq(s, 1, k) = SubSeq(s, 1, k - 1) \o <<s[k]>>
  BY <1>1, SubSeqRecursiveSecond
<1>3. SubSeq(s, 1, k - 1) \in Seq(V)
  <2>1. (1 + (k - 1)) - 1 = k - 1 /\ k - 1 \in Int /\ 1 \in Nat \ {0}
    BY <1>1
  <2>2. QED
    BY <1>1, <2>1, PieceIs
<1>4. QED
  BY <1>1, <1>2, <1>3, AppendIsConcat
=============================================================================
