--------------------------- MODULE HsmKeys_proofs ---------------------------
(***************************************************************************)
(* Proofs about DUKPT as private.c computes it, for counters of any number *)
(* of bits: the HSM arrives at the key the PIN pad used, no two            *)
(* transactions share a key, and a PIN comes out of its block.             *)
(***************************************************************************)
EXTENDS HsmKeys, NaturalLemmas

-----------------------------------------------------------------------------
(* The ones of a counter.                                                  *)

\* The recursion of Power2 defines it.
LEMMA Power2Is ==
  /\ Power2 \in [Nat -> Nat \ {0}]
  /\ Power2[0] = 1 /\ \A j \in Nat : Power2[j + 1] = 2 * Power2[j]
<1> DEFINE V == Nat \ {0}
           g == [n \in Nat |-> [x \in V |-> 2 * x]]
<1>1. g \in [Nat -> [V -> V]]
  OBVIOUS
<1>2. PICK f \in [Nat -> V] : f[0] = 1 /\ \A n \in Nat : f[n + 1] = g[n][f[n]]
  <2>1. 1 \in V
    OBVIOUS
  <2> HIDE DEF V, g
  <2>2. \A v \in V : \E f \in [Nat -> V] : f[0] = v /\ \A n \in Nat : f[n + 1] = g[n][f[n]]
    BY <1>1, IterationExists, SMTT(40)
  <2>3. QED
    BY <2>1, <2>2
<1>3. \A n \in Nat : f[n + 1] = 2 * f[n]
  BY <1>2
<1>4. f = [j \in Nat |-> IF j = 0 THEN 1 ELSE 2 * f[j - 1]]
  <2>1. \A j \in Nat : f[j] = IF j = 0 THEN 1 ELSE 2 * f[j - 1]
    <3>1. TAKE j \in Nat
    <3>2. CASE j = 0
      BY <1>2, <3>2
    <3>3. CASE j # 0
      <4>1. j - 1 \in Nat /\ (j - 1) + 1 = j
        BY <3>3
      <4>2. QED
        BY <1>3, <3>3, <4>1
    <3>4. QED
      BY <3>2, <3>3
  <2>2. QED
    BY <1>2, <2>1
<1>5. Power2 = [j \in Nat |-> IF j = 0 THEN 1 ELSE 2 * Power2[j - 1]]
  BY <1>4 DEF Power2
<1>6. Power2[0] = 1 /\ \A j \in Nat : Power2[j + 1] = 2 * Power2[j]
  BY <1>5
<1>7. Power2 \in [Nat -> V]
  <2> DEFINE S == {j \in Nat : Power2[j] \in V}
  <2>1. 0 \in S
    BY <1>6
  <2>2. ASSUME NEW n \in Nat, n \in S PROVE n + 1 \in S
    BY <1>6, <2>2
  <2> HIDE DEF S
  <2>3. Nat \subseteq S
    BY <2>1, <2>2, InductionOnNat
  <2>4. QED
    BY <1>5, <2>3 DEF S
<1>8. QED
  BY <1>6, <1>7

\* Shifting by one place more is shifting the half of a number.
LEMMA HalfShifts ==
  ASSUME NEW n \in Nat, NEW j \in Nat
  PROVE  /\ n \div 2 \in Nat /\ n = 2 * (n \div 2) + (n % 2)
         /\ n \div Power2[j + 1] = (n \div 2) \div Power2[j]
<1> DEFINE p == Power2[j]
           q == n \div 2
           a == q \div p
           b == q - p * a
           c == 2 * b + (n % 2)
<1>1. p \in Nat \ {0} /\ Power2[j + 1] = 2 * p
  BY Power2Is
<1>2. q \in Nat /\ n = 2 * q + (n % 2) /\ n % 2 \in 0 .. 1
  OBVIOUS
<1>3. a \in Nat /\ p * a <= q /\ q < p * a + p
  <2> HIDE DEF p, q
  <2>1. QED
    BY <1>1, <1>2, QuotientBounds
<1>4. b \in 0 .. p - 1
  BY <1>1, <1>2, <1>3
<1>5. c \in 0 .. (2 * p) - 1
  BY <1>1, <1>2, <1>4
<1>6. n = (2 * p) * a + c
  <2>1. (2 * p) * a = 2 * (p * a) /\ p * a \in Nat
    BY <1>1, <1>3
  <2> HIDE DEF p, q, a
  <2>2. QED
    BY <1>2, <2>1
<1>7. ((2 * p) * a + c) \div (2 * p) = a
  <2>1. 2 * p \in Nat \ {0}
    BY <1>1
  <2> HIDE DEF c, a, p
  <2>2. QED
    BY <1>3, <1>5, <2>1, QuotientIs
<1>8. QED
  BY <1>1, <1>2, <1>6, <1>7

\* Counters with the same ones are the same.
LEMMA OnesDetermine ==
  ASSUME NEW m \in CounterValues, NEW n \in CounterValues, Ones(m) = Ones(n)
  PROVE  m = n
<1> DEFINE Same(x, y, b) == \A j \in 0 .. b - 1 : (x \div Power2[j]) % 2 = (y \div Power2[j]) % 2
           S == {b \in Nat : \A x, y \in 0 .. Power2[b] - 1 : Same(x, y, b) => x = y}
<1>1. 0 \in S
  BY Power2Is
<1>2. ASSUME NEW b \in Nat, b \in S PROVE b + 1 \in S
  <2>1. SUFFICES ASSUME NEW x \in 0 .. Power2[b + 1] - 1, NEW y \in 0 .. Power2[b + 1] - 1,
                        Same(x, y, b + 1)
                 PROVE  x = y
    OBVIOUS
  <2>2. x \in Nat /\ y \in Nat
    BY Power2Is
  <2>3. x % 2 = y % 2
    <3>1. (x \div Power2[0]) % 2 = (y \div Power2[0]) % 2
      BY <2>1
    <3>2. QED
      BY <2>2, <3>1, Power2Is
  <2>4. Same(x \div 2, y \div 2, b)
    <3>1. SUFFICES ASSUME NEW j \in 0 .. b - 1
                   PROVE  ((x \div 2) \div Power2[j]) % 2 = ((y \div 2) \div Power2[j]) % 2
      OBVIOUS
    <3>2. j \in Nat /\ j + 1 \in 0 .. (b + 1) - 1
      OBVIOUS
    <3>3. (x \div Power2[j + 1]) % 2 = (y \div Power2[j + 1]) % 2
      BY <2>1, <3>2
    <3>4. QED
      BY <2>2, <3>2, <3>3, HalfShifts
  <2>5. x \div 2 \in 0 .. Power2[b] - 1 /\ y \div 2 \in 0 .. Power2[b] - 1
    <3>1. Power2[b] \in Nat \ {0} /\ Power2[b + 1] = 2 * Power2[b]
      BY Power2Is
    <3>2. QED
      BY <2>2, <3>1
  <2>6. x \div 2 = y \div 2
    BY <1>2, <2>4, <2>5
  <2>7. QED
    BY <2>2, <2>3, <2>6
<1> HIDE DEF S
<1>3. Nat \subseteq S
  BY <1>1, <1>2, InductionOnNat
<1>4. CounterBits \in S
  BY <1>3, CounterBitsAssumption
<1>5. Same(m, n, CounterBits)
  <2>1. SUFFICES ASSUME NEW j \in 0 .. CounterBits - 1
                 PROVE  (m \div Power2[j]) % 2 = (n \div Power2[j]) % 2
    OBVIOUS
  <2>2. j \in Nat /\ Power2[j] \in Nat \ {0} /\ m \in Nat /\ n \in Nat
    BY Power2Is, CounterBitsAssumption DEF CounterValues
  <2>3. (m \div Power2[j]) % 2 \in {0, 1} /\ (n \div Power2[j]) % 2 \in {0, 1}
    BY <2>2
  <2>4. j \in Ones(m) <=> j \in Ones(n)
    OBVIOUS
  <2>5. QED
    BY <2>3, <2>4 DEF Ones
<1>6. QED
  BY <1>4, <1>5 DEF S, CounterValues
-----------------------------------------------------------------------------
(* The HSM's walk and the PIN pad's keys: what each recursion computes.    *)

\* The recursion of Walk defines it.
LEMMA WalkIs ==
  ASSUME NEW ksn, NEW ipek
  PROVE  /\ Walk(ksn, ipek)[0] = [serial |-> ksn \ CounterMask, key |-> ipek]
         /\ \A i \in 1 .. CounterBits :
              Walk(ksn, ipek)[i] =
                WalkBit(Walk(ksn, ipek)[i - 1], CounterBits - i, And(ksn, CounterMask))
<1> DEFINE a == [serial |-> ksn \ CounterMask, key |-> ipek]
           Turn(s, i) == WalkBit(s, CounterBits - i, And(ksn, CounterMask))
           Ok(f, n) == f = [i \in 0 .. n |-> IF i = 0 THEN a ELSE Turn(f[i - 1], i)]
           S == {n \in Nat : \E f : Ok(f, n)}
<1> HIDE DEF a, Turn
<1>1. 0 \in S
  <2>1. Ok([i \in 0 .. 0 |-> a], 0)
    OBVIOUS
  <2>2. QED
    BY <2>1
<1>2. ASSUME NEW n \in Nat, n \in S PROVE n + 1 \in S
  <2>1. PICK f : Ok(f, n)
    BY <1>2
  <2> DEFINE h == [i \in 0 .. n + 1 |-> IF i = n + 1 THEN Turn(f[n], n + 1) ELSE f[i]]
  <2>2. \A i \in 0 .. n : f[i] = IF i = 0 THEN a ELSE Turn(f[i - 1], i)
    BY <2>1
  <2>3. \A i \in 0 .. n + 1 : h[i] = IF i = 0 THEN a ELSE Turn(h[i - 1], i)
    <3>1. TAKE i \in 0 .. n + 1
    <3>2. CASE i = n + 1
      BY <3>2
    <3>3. CASE i \in 0 .. n
      BY <2>2, <3>3
    <3>4. QED
      BY <3>2, <3>3
  <2>4. Ok(h, n + 1)
    BY <2>3
  <2> HIDE DEF h, Ok
  <2>5. QED
    BY <2>4
<1> HIDE DEF S
<1>3. \E f : Ok(f, CounterBits)
  BY <1>1, <1>2, InductionOnNat, CounterBitsAssumption DEF S
<1>4. Ok(Walk(ksn, ipek), CounterBits)
  BY <1>3 DEF Walk, a, Turn
<1>5. 0 \in 0 .. CounterBits /\ \A i \in 1 .. CounterBits : i \in 0 .. CounterBits /\ i # 0
  BY CounterBitsAssumption
<1>6. \A i \in 0 .. CounterBits :
        Walk(ksn, ipek)[i] = IF i = 0 THEN a ELSE Turn(Walk(ksn, ipek)[i - 1], i)
  BY <1>4
<1>7. QED
  BY <1>5, <1>6 DEF a, Turn

\* A set of the highest places, without its least, is one of higher places.
LEMMA WithoutLeast ==
  ASSUME NEW k \in Nat, NEW ones \in SUBSET (k .. CounterBits - 1), ones # {}
  PROVE  /\ Min(ones) \in ones /\ Min(ones) \in Nat
         /\ ones \ {Min(ones)} \in SUBSET (k + 1 .. CounterBits - 1)
<1>1. ones \subseteq Nat
  BY CounterBitsAssumption
<1>2. Min(ones) \in ones /\ \A j \in ones : Min(ones) <= j
  BY <1>1, MinIsLeast
<1>3. \A j \in ones \ {Min(ones)} : j \in k + 1 .. CounterBits - 1
  <2>1. TAKE j \in ones \ {Min(ones)}
  <2>2. j \in k .. CounterBits - 1 /\ Min(ones) \in k .. CounterBits - 1 /\ Min(ones) <= j
    BY <1>2
  <2>3. QED
    BY <2>2, CounterBitsAssumption
<1>4. QED
  BY <1>1, <1>2, <1>3

\* The recursion of FutureKeys defines it.
LEMMA FutureKeysAre ==
  ASSUME NEW device, NEW ones \in SUBSET (0 .. CounterBits - 1)
  PROVE  FutureKeys(device)[ones] =
           IF ones = {} THEN InitialKey(device)
           ELSE FutureKey(FutureKeys(device)[ones \ {Min(ones)}],
                          {<<"device", device>>} \cup {Bit(j) : j \in ones})
<1> DEFINE Top(n) == SUBSET (CounterBits - n .. CounterBits - 1)
           a == InitialKey(device)
           Made(key, o) == FutureKey(key, {<<"device", device>>} \cup {Bit(j) : j \in o})
           Ok(f, n) == f = [o \in Top(n) |-> IF o = {} THEN a ELSE Made(f[o \ {Min(o)}], o)]
           S == {n \in Nat : n <= CounterBits => \E f : Ok(f, n)}
<1> HIDE DEF a, Made
<1>1. 0 \in S
  <2>1. Top(0) = {{}}
    BY CounterBitsAssumption
  <2>2. Ok([o \in Top(0) |-> a], 0)
    BY <2>1
  <2>3. QED
    BY <2>2
<1>2. ASSUME NEW n \in Nat, n \in S PROVE n + 1 \in S
  <2>1. SUFFICES ASSUME n + 1 <= CounterBits PROVE \E f : Ok(f, n + 1)
    <3> HIDE DEF Ok
    <3>1. QED
      OBVIOUS
  <2>2. PICK f : Ok(f, n)
    <3> HIDE DEF Ok
    <3>1. n <= CounterBits
      BY <2>1, CounterBitsAssumption
    <3>2. QED
      BY <1>2, <3>1
  <2> DEFINE h == [o \in Top(n + 1) |-> IF o = {} THEN a ELSE Made(f[o \ {Min(o)}], o)]
  <2>3. \A o \in Top(n) : f[o] = IF o = {} THEN a ELSE Made(f[o \ {Min(o)}], o)
    BY <2>2
  <2>4. Top(n) \subseteq Top(n + 1)
    BY <2>1, CounterBitsAssumption
  <2>5. \A o \in Top(n) : h[o] = f[o]
    BY <2>3, <2>4
  <2>6. ASSUME NEW o \in Top(n + 1), o # {} PROVE o \ {Min(o)} \in Top(n)
    <3>1. CounterBits - (n + 1) \in Nat /\ (CounterBits - (n + 1)) + 1 = CounterBits - n
      BY <2>1, CounterBitsAssumption
    <3>2. QED
      BY <2>6, <3>1, WithoutLeast
  <2>7. \A o \in Top(n + 1) : h[o] = IF o = {} THEN a ELSE Made(h[o \ {Min(o)}], o)
    <3> HIDE DEF Top
    <3>1. TAKE o \in Top(n + 1)
    <3>2. CASE o = {}
      BY <3>2
    <3>3. CASE o # {}
      BY <2>5, <2>6, <3>3
    <3>4. QED
      BY <3>2, <3>3
  <2>8. Ok(h, n + 1)
    <3> HIDE DEF Top
    <3>1. QED
      BY <2>7
  <2> HIDE DEF h, Ok
  <2>9. QED
    BY <2>8
<1> HIDE DEF S, Ok
<1>3. \E f : Ok(f, CounterBits)
  <2>1. Nat \subseteq S
    BY <1>1, <1>2, InductionOnNat
  <2>2. CounterBits \in Nat /\ CounterBits <= CounterBits
    BY CounterBitsAssumption
  <2>3. QED
    BY <2>1, <2>2 DEF S
<1> USE DEF Ok
<1>4. CounterBits - CounterBits = 0
  BY CounterBitsAssumption
<1>5. Ok(FutureKeys(device), CounterBits)
  BY <1>3, <1>4 DEF FutureKeys, a, Made
<1>6. QED
  BY <1>4, <1>5 DEF a, Made

-----------------------------------------------------------------------------
(* The HSM arrives at the key of the PIN pad.                              *)

Above(o, k) == {j \in o : j >= k}
SerialOf(device, o) == {<<"device", device>>} \cup {Bit(j) : j \in o}

\* The parts of a KSN that the masks in DeriveKeyFromIpek select.
LEMMA KsnParts ==
  ASSUME NEW device, NEW n
  PROVE  /\ Ones(n) \in SUBSET (0 .. CounterBits - 1)
         /\ And(Ksn(device, n), CounterMask) = {Bit(j) : j \in Ones(n)}
         /\ Ksn(device, n) \ CounterMask = {<<"device", device>>}
         /\ Ksn(device, n) = SerialOf(device, Ones(n))
<1>1. Ones(n) \in SUBSET (0 .. CounterBits - 1)
  BY DEF Ones
<1>2. {Bit(j) : j \in Ones(n)} \subseteq CounterMask
  BY <1>1 DEF CounterMask
<1>3. <<"device", device>> \notin CounterMask
  BY DEF CounterMask, Bit
<1>4. QED
  BY <1>1, <1>2, <1>3 DEF Ksn, SerialOf, And

\* After i turns the registers hold what the i highest places make of them.
LEMMA WalkAgrees ==
  ASSUME NEW device, NEW n, NEW i \in 0 .. CounterBits
  PROVE  Walk(Ksn(device, n), InitialKey(device))[i] =
           [serial |-> SerialOf(device, Above(Ones(n), CounterBits - i)),
            key |-> FutureKeys(device)[Above(Ones(n), CounterBits - i)]]
<1> DEFINE o == Ones(n)
           w == Walk(Ksn(device, n), InitialKey(device))
           Top(k) == Above(o, CounterBits - k)
           S == {k \in 0 .. CounterBits :
                   w[k] = [serial |-> SerialOf(device, Top(k)), key |-> FutureKeys(device)[Top(k)]]}
<1>1. /\ o \in SUBSET (0 .. CounterBits - 1)
      /\ And(Ksn(device, n), CounterMask) = {Bit(j) : j \in o}
      /\ Ksn(device, n) \ CounterMask = {<<"device", device>>}
  BY KsnParts
<1>2. /\ w[0] = [serial |-> {<<"device", device>>}, key |-> InitialKey(device)]
      /\ \A k \in 1 .. CounterBits : w[k] = WalkBit(w[k - 1], CounterBits - k, {Bit(j) : j \in o})
  BY <1>1, WalkIs
<1> HIDE DEF o, w
<1>3. 0 \in S
  <2>1. Top(0) = {}
    <3>1. \A j \in o : ~(j >= CounterBits - 0)
      BY <1>1, CounterBitsAssumption
    <3>2. QED
      BY <3>1 DEF Above
  <2>2. FutureKeys(device)[{}] = InitialKey(device)
    BY FutureKeysAre
  <2>3. SerialOf(device, {}) = {<<"device", device>>}
    BY DEF SerialOf
  <2>4. QED
    BY <1>2, <2>1, <2>2, <2>3, CounterBitsAssumption, SMTT(40)
<1>4. ASSUME NEW k \in 0 .. CounterBits - 1, k \in S PROVE k + 1 \in S
  <2> DEFINE b == CounterBits - (k + 1)
  <2>1. /\ k \in Nat /\ k + 1 \in 1 .. CounterBits /\ b \in 0 .. CounterBits - 1
        /\ (k + 1) - 1 = k /\ CounterBits - k = b + 1 /\ b \in Nat
    BY CounterBitsAssumption
  <2>2. w[k + 1] = WalkBit(w[k], b, {Bit(j) : j \in o})
    BY <1>2, <2>1
  <2>3. w[k] = [serial |-> SerialOf(device, Top(k)), key |-> FutureKeys(device)[Top(k)]]
    BY <1>4
  <2>4. HaveOnes(And({Bit(b)}, {Bit(j) : j \in o})) <=> b \in o
    <3>1. \A j : Bit(j) = Bit(b) <=> j = b
      BY DEF Bit
    <3>2. Bit(b) \in {Bit(j) : j \in o} <=> b \in o
      BY <3>1
    <3>3. QED
      BY <3>2 DEF HaveOnes, And
  <2>5. CASE b \notin o
    <3>1. Top(k + 1) = Top(k)
      <4>1. \A j \in o : j >= b <=> j >= b + 1
        BY <1>1, <2>1, <2>5, CounterBitsAssumption
      <4>2. QED
        BY <2>1, <4>1 DEF Above
    <3>2. w[k + 1] = w[k]
      BY <2>2, <2>4, <2>5 DEF WalkBit
    <3>3. QED
      BY <2>1, <2>3, <3>1, <3>2
  <2>6. CASE b \in o
    <3>1. /\ Top(k + 1) = Top(k) \cup {b} /\ Top(k + 1) # {} /\ b \notin Top(k)
          /\ Top(k + 1) \in SUBSET (0 .. CounterBits - 1)
          /\ \A j \in Top(k + 1) : b <= j
      <4>1. \A j \in o : (j >= b <=> (j >= b + 1 \/ j = b)) /\ (j >= b => b <= j)
        BY <1>1, <2>1, CounterBitsAssumption
      <4>2. ~(b >= b + 1)
        BY <2>1, CounterBitsAssumption
      <4>3. QED
        BY <1>1, <2>1, <2>6, <4>1, <4>2 DEF Above
    <3> HIDE DEF Top, b
    <3>2. Min(Top(k + 1)) = b
      <4>1. Top(k + 1) \subseteq Nat
        BY <3>1, CounterBitsAssumption
      <4>2. Min(Top(k + 1)) \in Top(k + 1) /\ \A j \in Top(k + 1) : Min(Top(k + 1)) <= j
        BY <3>1, <4>1, MinIsLeast
      <4>3. QED
        BY <2>1, <3>1, <4>1, <4>2
    <3>3. Top(k + 1) \ {Min(Top(k + 1))} = Top(k)
      BY <3>1, <3>2
    <3>4. FutureKeys(device)[Top(k + 1)] =
            FutureKey(FutureKeys(device)[Top(k)], SerialOf(device, Top(k + 1)))
      BY <3>1, <3>3, FutureKeysAre DEF SerialOf
    <3>5. SerialOf(device, Top(k + 1)) = Or(SerialOf(device, Top(k)), {Bit(b)})
      BY <3>1 DEF SerialOf, Or
    <3>6. \A key, serial : NextKey(key, serial) = FutureKey(key, serial)
      BY DEF NextKey, FutureKey, XorKey, BDK_MASK
    <3>7. w[k + 1] = [serial |-> SerialOf(device, Top(k + 1)),
                      key |-> NextKey(FutureKeys(device)[Top(k)], SerialOf(device, Top(k + 1)))]
      BY <2>2, <2>3, <2>4, <2>6, <3>5 DEF WalkBit
    <3>8. QED
      BY <2>1, <3>4, <3>6, <3>7
  <2>7. QED
    BY <2>5, <2>6
<1> HIDE DEF S
<1>5. i \in S
  BY <1>3, <1>4, InductionUpTo, CounterBitsAssumption
<1>6. QED
  BY <1>5 DEF S, o, w

\* After the last turn the key register is the device's future key.
LEMMA DerivedKeyIs ==
  ASSUME NEW device, NEW n
  PROVE  DeriveKeyFromBdk(Ksn(device, n), BDK) = FutureKeys(device)[Ones(n)]
<1>1. DukptGenerateIpek(BDK, Ksn(device, n)) = InitialKey(device)
  BY KsnParts DEF DukptGenerateIpek, InitialKey, XorKey, BDK_MASK
<1>2. Above(Ones(n), CounterBits - CounterBits) = Ones(n)
  <2>1. CounterBits - CounterBits = 0
    BY CounterBitsAssumption
  <2>2. \A j \in Ones(n) : j >= 0
    BY KsnParts, CounterBitsAssumption
  <2>3. QED
    BY <2>1, <2>2 DEF Above
<1>3. CounterBits \in 0 .. CounterBits
  BY CounterBitsAssumption
<1>4. Walk(Ksn(device, n), InitialKey(device))[CounterBits] =
        [serial |-> SerialOf(device, Ones(n)), key |-> FutureKeys(device)[Ones(n)]]
  BY <1>2, <1>3, WalkAgrees
<1>5. QED
  BY <1>1, <1>4 DEF DeriveKeyFromBdk, DeriveKeyFromIpek, Turns

\* However many bits a counter has and whatever it stands at, the key that
\* private.c derives for a PIN from the BDK and the KSN of a message is the one
\* the PIN pad, which never knew the BDK, had encrypted it under.
THEOREM KeysAgree == \A device, n : PinKey(Ksn(device, n)) = DevicePinKey(device, n)
BY DerivedKeyIs DEF PinKey, DevicePinKey, CalculatePINEncryptionKey, XorKey, pin_encryption_variant

-----------------------------------------------------------------------------
(* No two transactions share a key.  A right key register is the tdes term *)
(* of the initial key and one des term for each one of the counter.  What  *)
(* a term encrypts shows the serial register it was made with, and the     *)
(* last of them shows the whole KSN.                                       *)

Encrypted(t) == IF t[1] = "des" THEN t[3] ELSE t[4]
SerialIn(s) == {u \in s : u[1] \in {"bit", "device"}}

\* The terms of a register, all made with parts of one serial, one with it all.
Shows(r, serial) ==
  /\ \A t \in r : t[1] \in {"des", "tdes"} /\ SerialIn(Encrypted(t)) \subseteq serial
  /\ \E t \in r : SerialIn(Encrypted(t)) = serial

\* Induction over the places of a counter, the lowest last.
LEMMA InductionOverPlaces ==
  ASSUME NEW T, {} \in T,
         \A o \in SUBSET (0 .. CounterBits - 1) : o # {} /\ o \ {Min(o)} \in T => o \in T
  PROVE  SUBSET (0 .. CounterBits - 1) \subseteq T
<1> DEFINE Top(n) == SUBSET (CounterBits - n .. CounterBits - 1)
           S == {n \in 0 .. CounterBits : Top(n) \subseteq T}
<1>1. 0 \in S
  <2>1. Top(0) = {{}}
    BY CounterBitsAssumption
  <2>2. 0 \in 0 .. CounterBits
    BY CounterBitsAssumption
  <2> HIDE DEF Top
  <2>3. QED
    BY <2>1, <2>2
<1>2. ASSUME NEW n \in 0 .. CounterBits - 1, n \in S PROVE n + 1 \in S
  <2>1. /\ CounterBits - (n + 1) \in Nat /\ (CounterBits - (n + 1)) + 1 = CounterBits - n
        /\ n + 1 \in 0 .. CounterBits
    BY CounterBitsAssumption
  <2>2. ASSUME NEW o \in Top(n + 1) PROVE o \in T
    <3>1. o \in SUBSET (0 .. CounterBits - 1)
      BY <2>1, CounterBitsAssumption
    <3>2. CASE o # {}
      <4>1. o \ {Min(o)} \in Top(n)
        BY <2>1, <3>2, WithoutLeast
      <4>2. QED
        BY <1>2, <3>1, <3>2, <4>1
    <3>3. QED
      BY <3>2
  <2>3. QED
    BY <2>1, <2>2
<1> HIDE DEF S
<1>3. CounterBits \in S
  BY <1>1, <1>2, InductionUpTo, CounterBitsAssumption
<1>4. CounterBits - CounterBits = 0
  BY CounterBitsAssumption
<1>5. QED
  BY <1>3, <1>4 DEF S

\* The right register of a future key shows the KSN it belongs to.
LEMMA FutureKeyShows ==
  ASSUME NEW device, NEW ones \in SUBSET (0 .. CounterBits - 1)
  PROVE  Shows(FutureKeys(device)[ones].r, SerialOf(device, ones))
<1> DEFINE k == FutureKeys(device)
           T == {o \in SUBSET (0 .. CounterBits - 1) : Shows(k[o].r, SerialOf(device, o))}
<1>1. {} \in T
  <2> DEFINE masked == [l |-> Xor(BDK.l, {<<"mask">>}), r |-> Xor(BDK.r, {<<"mask">>})]
             t == <<"tdes", masked.l, masked.r, {<<"device", device>>}>>
  <2>1. k[{}].r = {t}
    <3>1. k[{}] = InitialKey(device)
      <4> HIDE DEF t
      <4>1. QED
        BY FutureKeysAre
    <3>2. InitialKey(device).r = {t}
      <4> HIDE DEF k
      <4>1. QED
        BY DEF InitialKey, TDes
    <3> HIDE DEF k, t
    <3>3. QED
      BY <3>1, <3>2
  <2>2. SerialOf(device, {}) = {<<"device", device>>}
    BY DEF SerialOf
  <2>3. t[1] = "tdes" /\ Encrypted(t) = {<<"device", device>>}
    BY DEF Encrypted
  <2>4. SerialIn({<<"device", device>>}) = {<<"device", device>>}
    BY DEF SerialIn
  <2> HIDE DEF t
  <2>5. QED
    BY <2>1, <2>2, <2>3, <2>4 DEF Shows
<1>2. ASSUME NEW o \in SUBSET (0 .. CounterBits - 1), o # {}, o \ {Min(o)} \in T
      PROVE  o \in T
  <2> DEFINE p == k[o \ {Min(o)}]
             before == SerialOf(device, o \ {Min(o)})
             serial == SerialOf(device, o)
             t == <<"des", p.l, Xor(serial, p.r)>>
  <2>1. k[o].r = Xor({t}, p.r)
    <3>1. k[o] = FutureKey(p, serial)
      <4> HIDE DEF t
      <4>1. QED
        BY <1>2, FutureKeysAre DEF SerialOf
    <3>2. FutureKey(p, serial).r = Xor({t}, p.r)
      <4> HIDE DEF p, serial
      <4>1. QED
        BY DEF FutureKey, Des
    <3> HIDE DEF k, p, serial, t
    <3>3. QED
      BY <3>1, <3>2
  <2>2. Shows(p.r, before)
    BY <1>2
  <2>3. before \subseteq serial
    BY DEF SerialOf
  <2>4. serial # before
    <3>1. Min(o) \in o
      BY <1>2, WithoutLeast, CounterBitsAssumption
    <3>2. \A i, j : Bit(i) = Bit(j) => i = j
      BY DEF Bit
    <3>3. \A j : Bit(j) # <<"device", device>>
      BY DEF Bit
    <3>4. Bit(Min(o)) \in serial
      BY <3>1 DEF SerialOf
    <3>5. Bit(Min(o)) \notin before
      BY <3>2, <3>3 DEF SerialOf
    <3>6. QED
      BY <3>4, <3>5
  <2>5. \A u \in serial : u[1] \in {"bit", "device"}
    BY DEF SerialOf, Bit
  <2>6. t[1] = "des" /\ Encrypted(t) = Xor(serial, p.r)
    BY DEF Encrypted
  <2> HIDE DEF k, p, before, serial, t
  <2>7. SerialIn(Xor(serial, p.r)) = serial
    BY <2>2, <2>5 DEF SerialIn, Xor, Shows
  <2>8. t \notin p.r
    BY <2>2, <2>3, <2>4, <2>6, <2>7 DEF Shows
  <2>9. k[o].r = {t} \cup p.r
    BY <2>1, <2>8 DEF Xor
  <2>10. Shows(k[o].r, serial)
    BY <2>2, <2>3, <2>6, <2>7, <2>9 DEF Shows
  <2>11. QED
    BY <2>10 DEF k, serial
<1> HIDE DEF T
<1>3. ones \in T
  BY <1>1, <1>2, InductionOverPlaces
<1>4. QED
  BY <1>3 DEF T

\* The key private.c derives for a transaction shows the KSN.
LEMMA KeyShowsKsn ==
  ASSUME NEW device, NEW n
  PROVE  Shows(DeriveKeyFromBdk(Ksn(device, n), BDK).r, Ksn(device, n))
BY DerivedKeyIs, KsnParts, FutureKeyShows

\* What shows two KSNs shows one.
LEMMA KsnIsShown ==
  ASSUME NEW d, NEW e, NEW m \in CounterValues, NEW n \in CounterValues, NEW r,
         Shows(r, Ksn(d, m)), Shows(r, Ksn(e, n))
  PROVE  d = e /\ m = n
<1>1. Ksn(d, m) = Ksn(e, n)
  BY DEF Shows
<1>2. {<<"device", d>>} = {<<"device", e>>}
  BY <1>1, KsnParts
<1>3. {Bit(j) : j \in Ones(m)} = {Bit(j) : j \in Ones(n)}
  BY <1>1, KsnParts
<1>4. Ones(m) = Ones(n)
  <2>1. \A i, j : Bit(i) = Bit(j) => i = j
    BY DEF Bit
  <2>2. QED
    BY <1>3, <2>1
<1>5. m = n
  BY <1>4, OnesDetermine
<1>6. <<"device", d>> = <<"device", e>>
  BY <1>2
<1>7. QED
  BY <1>5, <1>6

\* No two transactions, of one device or of two, use the same PIN key or the
\* same data key, and no data key is a PIN key: what one message reveals says
\* nothing of another.
THEOREM KeysSeparate ==
  ASSUME NEW d, NEW e, NEW m \in CounterValues, NEW n \in CounterValues
  PROVE  /\ PinKey(Ksn(d, m)) = PinKey(Ksn(e, n)) => d = e /\ m = n
         /\ DataKey(Ksn(d, m)) = DataKey(Ksn(e, n)) => d = e /\ m = n
         /\ DataKey(Ksn(d, m)) # PinKey(Ksn(e, n))
<1> DEFINE a == DeriveKeyFromBdk(Ksn(d, m), BDK).r
           b == DeriveKeyFromBdk(Ksn(e, n), BDK).r
<1>1. Shows(a, Ksn(d, m)) /\ Shows(b, Ksn(e, n))
  BY KeyShowsKsn
<1>2. a = b => d = e /\ m = n
  BY <1>1, KsnIsShown
<1>3. \A x, y, v : Xor(x, v) = Xor(y, v) => x = y
  BY DEF Xor
<1>4. /\ PinKey(Ksn(d, m)).r = Xor(a, pin_encryption_variant)
      /\ PinKey(Ksn(e, n)).r = Xor(b, pin_encryption_variant)
  BY DEF PinKey, CalculatePINEncryptionKey, XorKey
<1>5. \E x, y, z : DataKey(Ksn(d, m)).r = {<<"tdes", x, y, z>>} /\ y = Xor(a, data_encryption_variant)
  BY DEF DataKey, CalculateDataEncryptionKey, XorKey, TDes
<1>6. \E x, y, z : DataKey(Ksn(e, n)).r = {<<"tdes", x, y, z>>} /\ y = Xor(b, data_encryption_variant)
  BY DEF DataKey, CalculateDataEncryptionKey, XorKey, TDes
<1> HIDE DEF a, b
<1>7. <<"pin variant">> \in Xor(b, pin_encryption_variant)
  <2>1. \A t \in b : t[1] \in {"des", "tdes"}
    BY <1>1 DEF Shows
  <2>2. <<"pin variant">> \notin b
    BY <2>1
  <2>3. QED
    BY <2>2 DEF Xor, pin_encryption_variant
<1>8. PinKey(Ksn(d, m)) = PinKey(Ksn(e, n)) => a = b
  BY <1>3, <1>4
<1>9. DataKey(Ksn(d, m)) = DataKey(Ksn(e, n)) => a = b
  <2>1. PICK x, y, z : DataKey(Ksn(d, m)).r = {<<"tdes", x, y, z>>} /\ y = Xor(a, data_encryption_variant)
    BY <1>5
  <2>2. PICK u, v, w : DataKey(Ksn(e, n)).r = {<<"tdes", u, v, w>>} /\ v = Xor(b, data_encryption_variant)
    BY <1>6
  <2>3. DataKey(Ksn(d, m)) = DataKey(Ksn(e, n)) => <<"tdes", x, y, z>> = <<"tdes", u, v, w>>
    BY <2>1, <2>2
  <2>4. <<"tdes", x, y, z>> = <<"tdes", u, v, w>> => y = v
    OBVIOUS
  <2>5. QED
    BY <1>3, <2>1, <2>2, <2>3, <2>4
<1>10. DataKey(Ksn(d, m)) # PinKey(Ksn(e, n))
  <2>1. PICK x, y, z : DataKey(Ksn(d, m)).r = {<<"tdes", x, y, z>>}
    BY <1>5
  <2>2. <<"pin variant">> # <<"tdes", x, y, z>>
    OBVIOUS
  <2>3. QED
    BY <1>4, <1>7, <2>1, <2>2
<1>11. QED
  BY <1>2, <1>8, <1>9, <1>10

-----------------------------------------------------------------------------
(* A PIN comes out of its block.                                           *)

\* A nibble is known by its four bits.
LEMMA BitsOfNibble ==
  ASSUME NEW p \in 0 .. 1, NEW q \in 0 .. 1, NEW r \in 0 .. 1, NEW s \in 0 .. 1,
         NEW x, x = p + (2 * q) + (4 * r) + (8 * s)
  PROVE  /\ x \in 0 .. 15
         /\ (x \div 1) % 2 = p /\ (x \div 2) % 2 = q /\ (x \div 4) % 2 = r /\ (x \div 8) % 2 = s
OBVIOUS

\* A nibble by its four bits.
LEMMA NibbleHasBits ==
  ASSUME NEW x \in 0 .. 15
  PROVE  \E p, q, r, s \in 0 .. 1 : x = p + (2 * q) + (4 * r) + (8 * s)
<1> DEFINE p == x % 2
           q == (x \div 2) % 2
           r == (x \div 4) % 2
           s == (x \div 8) % 2
<1>1. p \in 0 .. 1 /\ q \in 0 .. 1 /\ r \in 0 .. 1 /\ s \in 0 .. 1
  OBVIOUS
<1>2. x = p + (2 * q) + (4 * r) + (8 * s)
  OBVIOUS
<1>3. QED
  BY <1>1, <1>2

\* Exclusive or of nibbles, done twice, undoes itself.
LEMMA XorNibbleTwice ==
  ASSUME NEW a \in 0 .. 15, NEW b \in 0 .. 15
  PROVE  XorNibble(a, b) \in 0 .. 15 /\ XorNibble(XorNibble(a, b), b) = a
<1>1. PICK p, q, r, s \in 0 .. 1 : a = p + (2 * q) + (4 * r) + (8 * s)
  BY NibbleHasBits
<1>2. PICK t, u, v, w \in 0 .. 1 : b = t + (2 * u) + (4 * v) + (8 * w)
  BY NibbleHasBits
<1> DEFINE sum(x, y) == (x + y) % 2
           c == sum(p, t) + (2 * sum(q, u)) + (4 * sum(r, v)) + (8 * sum(s, w))
<1>3. \A x, y \in 0 .. 1 : sum(x, y) \in 0 .. 1 /\ sum(sum(x, y), y) = x
  OBVIOUS
<1>4. /\ (a \div 1) % 2 = p /\ (a \div 2) % 2 = q /\ (a \div 4) % 2 = r /\ (a \div 8) % 2 = s
      /\ (b \div 1) % 2 = t /\ (b \div 2) % 2 = u /\ (b \div 4) % 2 = v /\ (b \div 8) % 2 = w
  BY <1>1, <1>2, BitsOfNibble
<1>5. XorNibble(a, b) = c
  BY <1>4 DEF XorNibble
<1>6. /\ c \in 0 .. 15
      /\ (c \div 1) % 2 = sum(p, t) /\ (c \div 2) % 2 = sum(q, u)
      /\ (c \div 4) % 2 = sum(r, v) /\ (c \div 8) % 2 = sum(s, w)
  <2>1. sum(p, t) \in 0 .. 1 /\ sum(q, u) \in 0 .. 1 /\ sum(r, v) \in 0 .. 1 /\ sum(s, w) \in 0 .. 1
    BY <1>3
  <2> HIDE DEF sum
  <2>2. QED
    BY <2>1, BitsOfNibble
<1> HIDE DEF c
<1>7. XorNibble(c, b) = sum(sum(p, t), t) + (2 * sum(sum(q, u), u)) + (4 * sum(sum(r, v), v))
                        + (8 * sum(sum(s, w), w))
  BY <1>4, <1>6 DEF XorNibble
<1>8. QED
  BY <1>1, <1>3, <1>5, <1>6, <1>7

\* The PAN's part of a block is sixteen nibbles.
LEMMA PanBlockIs ==
  ASSUME NEW pan \in Seq(0 .. 9), Len(pan) >= 13
  PROVE  \A i \in 1 .. 16 : PanBlock(pan)[i] \in 0 .. 15
<1> DEFINE tail == SubSeq(pan, Len(pan) - 12, Len(pan) - 1)
           N == 0 .. 15
<1>1. tail \in Seq(N) /\ Len(tail) = 12
  <2>1. tail \in Seq(0 .. 9) /\ Len(tail) = 12
    OBVIOUS
  <2> HIDE DEF tail
  <2>2. QED
    BY <2>1, SeqMonotonic
<1> DEFINE zeros == <<0, 0, 0, 0>>
<1>2. zeros \in Seq(N) /\ Len(zeros) = 4
  OBVIOUS
<1> HIDE DEF tail, zeros, N
<1>3. IsJoined(PanBlock(pan), zeros, tail)
  BY DEF PanBlock, tail, zeros, IsJoined
<1>4. PanBlock(pan) \in Seq(N) /\ Len(PanBlock(pan)) = Len(zeros) + Len(tail)
  <2>1. zeros \in Seq(N) /\ tail \in Seq(N)
    BY <1>1, <1>2
  <2>2. QED
    BY <1>3, <2>1, Joined
<1>5. Len(PanBlock(pan)) = 16
  BY <1>1, <1>2, <1>4
<1>6. QED
  BY <1>4, <1>5, ElementOfSeq DEF N

\* Encryption begins with 0, 4, the PIN and Fs.
LEMMA BlockIs ==
  ASSUME NEW pin \in Seq(0 .. 9), NEW n \in 0 .. 14, LenIs(pin, n)
  PROVE  LET block == <<0, 4>> \o pin \o [i \in 1 .. 14 - Len(pin) |-> F]
         IN  /\ \A i \in 1 .. 16 : block[i] \in 0 .. 15
             /\ \A i \in 3 .. 2 + n : block[i] = pin[i - 2]
             /\ \A i \in 3 + n .. 16 : block[i] = F
<1>0. Len(pin) = n
  BY DEF LenIs
<1> DEFINE head == <<0, 4>>
           Fs == [i \in 1 .. 14 - Len(pin) |-> F]
           N == 0 .. 15
<1>1. head \in Seq(N) /\ Len(head) = 2 /\ pin \in Seq(N)
  <2>1. pin \in Seq(N)
    BY SeqMonotonic
  <2>2. QED
    BY <2>1
<1>2. Fs \in Seq(N) /\ Len(Fs) = 14 - n /\ \A i \in 1 .. 14 - n : Fs[i] = F
  <2>1. 14 - n \in Nat /\ F \in N
    BY DEF F
  <2>2. Fs \in [1 .. 14 - n -> N] /\ \A i \in 1 .. 14 - n : Fs[i] = F
    BY <1>0, <2>1
  <2>3. QED
    BY <1>0, <2>1, <2>2
<1> HIDE DEF head, Fs, N
<1>3. n \in Nat /\ 2 + n \in Nat /\ 14 - n \in Nat /\ (2 + n) + (14 - n) = 16 /\ 2 \in Nat
      /\ 2 + 1 = 3 /\ (2 + n) + 1 = 3 + n /\ \A i \in 3 .. 2 + n : i \in 1 .. 2 + n
  OBVIOUS
<1> DEFINE front == head \o pin
           block == front \o Fs
<1>10. IsJoined(front, head, pin) /\ IsJoined(block, front, Fs)
  BY DEF IsJoined
<1> HIDE DEF front, block
<1>4. /\ front \in Seq(N) /\ Len(front) = 2 + n
      /\ \A i \in 3 .. 2 + n : front[i] = pin[i - 2]
  <2>1. /\ front \in Seq(N) /\ Len(front) = Len(head) + Len(pin)
        /\ \A i \in 1 .. Len(pin) : front[Len(head) + i] = pin[i]
    <3>1. head \in Seq(N) /\ pin \in Seq(N)
      BY <1>1
    <3>2. QED
      BY <1>10, <3>1, Joined
  <2>2. \A i \in 3 .. 2 + n : i - 2 \in 1 .. n /\ 2 + (i - 2) = i
    OBVIOUS
  <2>3. \A i \in 1 .. n : front[2 + i] = pin[i]
    BY <1>0, <1>1, <2>1
  <2>4. QED
    BY <1>0, <1>1, <2>1, <2>2, <2>3
<1>5. /\ block \in Seq(N) /\ Len(block) = 16
      /\ \A i \in 1 .. 2 + n : block[i] = front[i]
      /\ \A i \in 3 + n .. 16 : block[i] = Fs[i - (2 + n)]
  <2>1. /\ block \in Seq(N) /\ Len(block) = Len(front) + Len(Fs)
        /\ \A i \in 1 .. Len(front) : block[i] = front[i]
        /\ \A i \in 1 .. Len(Fs) : block[Len(front) + i] = Fs[i]
    <3>1. front \in Seq(N) /\ Fs \in Seq(N)
      BY <1>2, <1>4
    <3>2. QED
      BY <1>10, <3>1, Joined
  <2>2. \A i \in 3 + n .. 16 : i - (2 + n) \in 1 .. 14 - n /\ (2 + n) + (i - (2 + n)) = i
    OBVIOUS
  <2>3. \A i \in 1 .. 14 - n : block[(2 + n) + i] = Fs[i]
    BY <1>2, <1>4, <2>1
  <2>4. QED
    BY <1>2, <1>4, <2>1, <2>2, <2>3
<1>6. \A i \in 1 .. 16 : block[i] \in N
  BY <1>5, ElementOfSeq
<1>7. \A i \in 3 .. 2 + n : block[i] = pin[i - 2]
  BY <1>3, <1>4, <1>5
<1>8. \A i \in 3 + n .. 16 : block[i] = F
  <2>1. \A i \in 3 + n .. 16 : i - (2 + n) \in 1 .. 14 - n
    OBVIOUS
  <2>2. QED
    BY <1>2, <1>5, <2>1
<1>9. QED
  BY <1>0, <1>6, <1>7, <1>8 DEF block, front, head, Fs, N

\* The digits that doDukptDecryptPinBlock collects from nibbles.
Digits(nibbles) ==
  LET digits[i \in 2 .. 16] ==
        IF i = 2 THEN <<>>
        ELSE IF nibbles[i] = F THEN digits[i - 1] ELSE Append(digits[i - 1], nibbles[i])
  IN  digits

\* Where the digits of a PIN stand.
LEMMA PlaceOfDigit ==
  ASSUME NEW n \in 0 .. 14, NEW i \in 3 .. 2 + n
  PROVE  i - 2 \in 1 .. n /\ (i - 2) - 1 = (i - 1) - 2 /\ i <= 2 + n /\ i - 1 <= 2 + n
OBVIOUS

\* From such nibbles it is the PIN.
LEMMA DigitsAre ==
  ASSUME NEW pin \in Seq(0 .. 9), NEW n \in 0 .. 14, Len(pin) = n, NEW nibbles,
         \A i \in 3 .. 2 + n : nibbles[i] = pin[i - 2],
         \A i \in 3 + n .. 16 : nibbles[i] = F
  PROVE  Digits(nibbles)[16] = pin
<1> DEFINE Sofar(i) == IF i <= 2 + n THEN SubSeq(pin, 1, i - 2) ELSE pin
           More(d, i) == IF nibbles[i] = F THEN d ELSE Append(d, nibbles[i])
           f == [i \in 2 .. 16 |-> Sofar(i)]
<1>1. ASSUME NEW i \in 3 .. 16 PROVE Sofar(i) = More(Sofar(i - 1), i)
  <2>1. CASE i \in 3 .. 2 + n
    <3>1. i - 2 \in 1 .. n /\ (i - 2) - 1 = (i - 1) - 2 /\ i <= 2 + n /\ i - 1 <= 2 + n
      BY <2>1, PlaceOfDigit
    <3>2. nibbles[i] = pin[i - 2] /\ pin[i - 2] \in 0 .. 9
      BY <2>1, <3>1, ElementOfSeq
    <3>3. nibbles[i] # F
      BY <3>2, SMTT(40) DEF F
    <3>4. SubSeq(pin, 1, i - 2) = Append(SubSeq(pin, 1, (i - 1) - 2), pin[i - 2])
      BY <3>1, PieceGrows, SMTT(40)
    <3>5. QED
      BY <3>1, <3>2, <3>3, <3>4
  <2>2. CASE i \in 3 + n .. 16
    <3>1. nibbles[i] = F /\ ~(i <= 2 + n)
      BY <2>2
    <3>2. Sofar(i - 1) = pin
      <4>1. CASE i - 1 <= 2 + n
        <5>1. (i - 1) - 2 = n
          BY <2>2, <4>1
        <5>2. QED
          BY <4>1, <5>1, SubSeqFull
      <4>2. QED
        BY <4>1
    <3>3. QED
      BY <3>1, <3>2
  <2>3. QED
    BY <2>1, <2>2
<1>2. Sofar(2) = <<>> /\ Sofar(16) = pin
  <2>1. 2 <= 2 + n /\ 2 - 2 = 0
    OBVIOUS
  <2>2. SubSeq(pin, 1, 0) = <<>>
    BY SubSeqEmpty
  <2>3. CASE 16 <= 2 + n
    <3>1. 16 - 2 = n
      BY <2>3
    <3>2. QED
      BY <2>1, <2>2, <2>3, <3>1, SubSeqFull
  <2>4. QED
    BY <2>1, <2>2, <2>3
<1> HIDE DEF Sofar, More
<1>3. f = [i \in 2 .. 16 |-> IF i = 2 THEN <<>> ELSE More(f[i - 1], i)]
  <2>1. \A i \in 2 .. 16 : Sofar(i) = IF i = 2 THEN <<>> ELSE More(f[i - 1], i)
    <3>1. TAKE i \in 2 .. 16
    <3>2. CASE i = 2
      BY <1>2, <3>2
    <3>3. CASE i # 2
      <4>1. i \in 3 .. 16 /\ i - 1 \in 2 .. 16
        BY <3>3
      <4>2. QED
        BY <1>1, <3>3, <4>1
    <3>4. QED
      BY <3>2, <3>3
  <2>2. QED
    BY <2>1
<1> DEFINE digits == CHOOSE g : g = [i \in 2 .. 16 |-> IF i = 2 THEN <<>> ELSE More(g[i - 1], i)]
<1> HIDE DEF f
<1>4. digits = [i \in 2 .. 16 |-> IF i = 2 THEN <<>> ELSE More(digits[i - 1], i)]
  BY <1>3
<1> HIDE DEF digits
<1>5. digits[16] = pin
  <2> DEFINE S == {k \in 0 .. 14 : digits[k + 2] = Sofar(k + 2)}
  <2>1. 0 \in S
    <3>1. digits[2] = <<>> /\ 0 + 2 = 2
      BY <1>4
    <3>2. QED
      BY <1>2, <3>1
  <2>2. ASSUME NEW k \in 0 .. 14 - 1, k \in S PROVE k + 1 \in S
    <3>1. /\ (k + 1) + 2 \in 3 .. 16 /\ (k + 1) + 2 \in 2 .. 16 /\ (k + 1) + 2 # 2
          /\ ((k + 1) + 2) - 1 = k + 2 /\ k + 1 \in 0 .. 14
      OBVIOUS
    <3>2. \A i \in 2 .. 16 : i # 2 => digits[i] = More(digits[i - 1], i)
      BY <1>4
    <3>3. digits[(k + 1) + 2] = More(digits[k + 2], (k + 1) + 2)
      BY <3>1, <3>2
    <3>4. QED
      BY <1>1, <2>2, <3>1, <3>3
  <2> HIDE DEF S
  <2>3. 0 .. 14 \subseteq S
    BY <2>1, <2>2, InductionUpTo
  <2>4. 14 \in S /\ 14 + 2 = 16
    BY <2>3
  <2>5. QED
    BY <1>2, <2>4 DEF S
<1>6. QED
  BY <1>5 DEF Digits, digits, More

\* A PIN of up to fourteen digits comes out of its block as it was typed,
\* whatever PAN of at least thirteen digits the block was bound to.
THEOREM PinComesOut ==
  ASSUME NEW pin \in Seq(0 .. 9), Len(pin) \in 0 .. 14,
         NEW pan \in Seq(0 .. 9), Len(pan) >= 13
  PROVE  doDukptDecryptPinBlock(doDukptEncryptPinBlock(pin, pan), pan) = pin
<1>0. PICK n \in 0 .. 14 : Len(pin) = n
  OBVIOUS
<1> DEFINE block == <<0, 4>> \o pin \o [i \in 1 .. 14 - Len(pin) |-> F]
           sent == doDukptEncryptPinBlock(pin, pan)
           nibbles == [i \in 1 .. 16 |-> XorNibble(sent[i], PanBlock(pan)[i])]
<1>1. /\ \A i \in 1 .. 16 : block[i] \in 0 .. 15
      /\ \A i \in 3 .. 2 + n : block[i] = pin[i - 2]
      /\ \A i \in 3 + n .. 16 : block[i] = F
  BY <1>0, BlockIs DEF LenIs
<1>2. sent = [i \in 1 .. 16 |-> XorNibble(block[i], PanBlock(pan)[i])]
  BY DEF doDukptEncryptPinBlock
<1> HIDE DEF block, sent
<1>3. \A i \in 1 .. 16 : nibbles[i] = block[i]
  BY <1>1, <1>2, PanBlockIs, XorNibbleTwice
<1> HIDE DEF nibbles
<1>4. /\ \A i \in 3 .. 2 + n : nibbles[i] = pin[i - 2]
      /\ \A i \in 3 + n .. 16 : nibbles[i] = F
  <2>1. /\ \A i \in 3 .. 2 + n : i \in 1 .. 16
        /\ \A i \in 3 + n .. 16 : i \in 1 .. 16
    OBVIOUS
  <2>2. QED
    BY <1>1, <1>3, <2>1
<1>5. Digits(nibbles)[16] = pin
  <2>1. \A m \in 0 .. 14 : \A nib :
           /\ Len(pin) = m
           /\ \A i \in 3 .. 2 + m : nib[i] = pin[i - 2]
           /\ \A i \in 3 + m .. 16 : nib[i] = F
           => Digits(nib)[16] = pin
    BY DigitsAre, Zenon, ZenonT(90)
  <2>2. QED
    BY <1>0, <1>4, <2>1, Zenon
<1>6. doDukptDecryptPinBlock(sent, pan) = Digits(nibbles)[16]
  BY DEF doDukptDecryptPinBlock, Digits, nibbles
<1>7. QED
  BY <1>5, <1>6 DEF sent
=============================================================================
