------------------------------ MODULE HsmKeys ------------------------------
(***************************************************************************)
(* The cryptography of the HSM: private.c and the doDukpt functions of     *)
(* public.c.                                                               *)
(*                                                                         *)
(* DES is perfect here.  A register of eight bytes is the set of terms     *)
(* whose exclusive or it is: a bit of the counter, a serial number, a      *)
(* constant, or the encryption of one register under another.  Exclusive   *)
(* or is then the symmetric difference, and a key is a pair of registers.  *)
(* PIN blocks are real: sixteen nibbles, a PAN of at least thirteen        *)
(* digits.  What a block deciphers to under the wrong key is no term of    *)
(* its own: HsmService says what happens then.                             *)
(***************************************************************************)
EXTENDS Integers, Sequences, SequencesExt, FiniteSetsExt

CONSTANT CounterBits \* bits of the transaction counter: 21 in a KSN

ASSUME CounterBitsAssumption == CounterBits \in Nat \ {0}

-----------------------------------------------------------------------------
(* Registers.                                                              *)

And(a, b) == a \cap b
Or(a, b) == a \cup b
Xor(a, b) == (a \ b) \cup (b \ a)
HaveOnes(a) == a # {}

Bit(i) == <<"bit", i>>
CounterMask == {Bit(i) : i \in 0 .. CounterBits - 1}

\* Powers of two, and the places where a counter has a one.
Power2[j \in Nat] == IF j = 0 THEN 1 ELSE 2 * Power2[j - 1]
CounterValues == 0 .. Power2[CounterBits] - 1
Ones(n) == {j \in 0 .. CounterBits - 1 : (n \div Power2[j]) % 2 = 1}

\* A key sequence number: the serial number of a device and its counter.
Ksn(device, n) == {<<"device", device>>} \cup {Bit(j) : j \in Ones(n)}

Des(k, d) == {<<"des", k, d>>}
TDes(key, d) == {<<"tdes", key.l, key.r, d>>}

XorKey(key, l, r) == [l |-> Xor(key.l, l), r |-> Xor(key.r, r)]

\* The halves of BDK_MASK are equal, and so are those of the PIN variant.
BDK_MASK == {<<"mask">>}
pin_encryption_variant == {<<"pin variant">>}
data_encryption_variant == {<<"data variant">>}

BDK == [l |-> {<<"bdk left">>}, r |-> {<<"bdk right">>}]

-----------------------------------------------------------------------------
(* The key of a transaction: from the BDK to the device's initial key, and *)
(* from that through the ones of the counter, the highest first.           *)

DukptGenerateIpek(bdk, ksn) ==
  LET partKsn == ksn \ CounterMask
  IN  [l |-> TDes(bdk, partKsn), r |-> TDes(XorKey(bdk, BDK_MASK, BDK_MASK), partKsn)]

\* One key from another, the transformation of ANSI X9.24.
NextKey(key, serial) ==
  LET masked == XorKey(key, BDK_MASK, BDK_MASK)
      crypto_register_2 == Xor(Des(key.l, Xor(serial, key.r)), key.r)
      crypto_register_1 == Xor(Des(masked.l, Xor(serial, masked.r)), masked.r)
  IN  [l |-> crypto_register_1, r |-> crypto_register_2]

\* Mutant: the counter's bits do not accumulate in the serial register.
WalkBit_Alone(s, i, counter) ==
  IF HaveOnes(And({Bit(i)}, counter))
  THEN [serial |-> s.serial, key |-> NextKey(s.key, Or(s.serial, {Bit(i)}))]
  ELSE s

WalkBit(s, i, counter) ==
  IF HaveOnes(And({Bit(i)}, counter))
  THEN LET serial == Or(s.serial, {Bit(i)})
       IN  [serial |-> serial, key |-> NextKey(s.key, serial)]
  ELSE s

\* Mutant: the loop ends before the lowest bit.
Turns_Short == CounterBits - 1

\* How often the loop turns: shiftr holds one bit after the other.
Turns == CounterBits

\* The serial and the key register after i turns of the loop.
Walk(ksn, ipek) ==
  LET counter == And(ksn, CounterMask)
      after[i \in 0 .. CounterBits] ==
        IF i = 0 THEN [serial |-> ksn \ CounterMask, key |-> ipek]
                 ELSE WalkBit(after[i - 1], CounterBits - i, counter)
  IN  after

DeriveKeyFromIpek(ksn, ipek) == Walk(ksn, ipek)[Turns].key

DeriveKeyFromBdk(ksn, bdk) == DeriveKeyFromIpek(ksn, DukptGenerateIpek(bdk, ksn))

CalculatePINEncryptionKey(key) ==
  XorKey(key, pin_encryption_variant, pin_encryption_variant)

CalculateDataEncryptionKey(key) ==
  LET variant == XorKey(key, data_encryption_variant, data_encryption_variant)
  IN  [l |-> TDes(variant, variant.l), r |-> TDes(variant, variant.r)]

PinKey(ksn) == CalculatePINEncryptionKey(DeriveKeyFromBdk(ksn, BDK))
DataKey(ksn) == CalculateDataEncryptionKey(DeriveKeyFromBdk(ksn, BDK))

-----------------------------------------------------------------------------
(* Decryption of a block: what is inside, under the key it was made with.  *)

IsUnder(key, c) == \E t \in c : t[2] = key.l /\ t[3] = key.r
Inside(c) == (CHOOSE t \in c : TRUE)[4]

-----------------------------------------------------------------------------
(* PIN blocks: "04", the PIN and Fs, exclusive-or four zeros and the PAN's *)
(* twelve digits before its last.                                          *)

XorNibble(a, b) ==
  LET sum(w) == (((a \div w) % 2) + ((b \div w) % 2)) % 2
  IN  sum(1) + (2 * sum(2)) + (4 * sum(4)) + (8 * sum(8))

F == 15

PanBlock(pan) == <<0, 0, 0, 0>> \o SubSeq(pan, Len(pan) - 12, Len(pan) - 1)

doDukptEncryptPinBlock(pin, pan) ==
  LET block == <<0, 4>> \o pin \o [i \in 1 .. 14 - Len(pin) |-> F]
  IN  [i \in 1 .. 16 |-> XorNibble(block[i], PanBlock(pan)[i])]

\* The two first nibbles are dropped, and every F wherever it stands.
doDukptDecryptPinBlock(block, pan) ==
  LET nibbles == [i \in 1 .. 16 |-> XorNibble(block[i], PanBlock(pan)[i])]
      digits[i \in 2 .. 16] ==
        IF i = 2 THEN <<>>
        ELSE IF nibbles[i] = F THEN digits[i - 1] ELSE Append(digits[i - 1], nibbles[i])
  IN  digits[16]

-----------------------------------------------------------------------------
(* The device's side, external: ANSI X9.24 as the PIN pad applies it.  A   *)
(* device holds future keys, each made from the one whose counter lacks    *)
(* the lowest one; it never sees the BDK.                                  *)

InitialKey(device) ==
  LET serial == {<<"device", device>>}
      masked == [l |-> Xor(BDK.l, {<<"mask">>}), r |-> Xor(BDK.r, {<<"mask">>})]
  IN  [l |-> TDes(BDK, serial), r |-> TDes(masked, serial)]

FutureKey(key, ksn) ==
  LET half(l, r) == Xor(Des(l, Xor(ksn, r)), r)
  IN  [l |-> half(Xor(key.l, {<<"mask">>}), Xor(key.r, {<<"mask">>})), r |-> half(key.l, key.r)]

FutureKeys(device) ==
  LET future[ones \in SUBSET (0 .. CounterBits - 1)] ==
        IF ones = {} THEN InitialKey(device)
        ELSE FutureKey(future[ones \ {Min(ones)}],
                       {<<"device", device>>} \cup {Bit(j) : j \in ones})
  IN  future

DevicePinKey(device, n) ==
  LET key == FutureKeys(device)[Ones(n)]
  IN  [l |-> Xor(key.l, {<<"pin variant">>}), r |-> Xor(key.r, {<<"pin variant">>})]
=============================================================================
