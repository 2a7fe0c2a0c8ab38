------------------------------ MODULE IsmRules ------------------------------
(***************************************************************************)
(* The decisions iso_FinancialMockup and iso_ReversalMockup take on the    *)
(* amount of a request, and the one util_sendDataToHSM takes on its PIN.   *)
(*                                                                         *)
(* An amount is the number its twelve digits spell.  The code reads it     *)
(* with atoi, which keeps the low bits of the number as a signed int:      *)
(* IntHalf is 2^31 in the built program and smaller in the runs, where it  *)
(* still holds every window below.  A PIN is a sequence of digits.         *)
(***************************************************************************)
EXTENDS Integers, Sequences

CONSTANT IntHalf

ASSUME IntHalfAssumption == IntHalf \in Nat /\ IntHalf > 0

Atoi(a) == ((a + IntHalf) % (2 * IntHalf)) - IntHalf

\* Mutant: three characters instead of two.
LastTwoDigits_Three(a) == a % 1000

\* The two characters amount[10] and amount[11], read as a response code.
LastTwoDigits(a) == a % 100

\* The character amount[11], returned to iso_MainProcess as a result.
LastDigit(a) == a % 10

-----------------------------------------------------------------------------
(* Amounts with a meaning of their own: the simulator's switchboard.       *)

CodedPurchase(a) == Atoi(a) \in 3900 .. 3999
CodedReversal(a) == Atoi(a) \in 4900 .. 4999

\* What the handler returns: a result other than 0 leaves the terminal
\* without an answer.
PurchaseResult(a) == IF Atoi(a) \in 42001 .. 42005 THEN LastDigit(a) ELSE 0
ReversalResult(a) == IF Atoi(a) \in 42006 .. 42010 THEN LastDigit(a) ELSE 0

\* The EMV table a purchase selects, as the number of its TABLE_ define.
SelectsTable(a) == Atoi(a) \in 80000 .. 80005
SelectedTable(a) == Atoi(a) - 80000

-----------------------------------------------------------------------------
(* util_sendDataToHSM looks at the first four digits only.  PINs have four *)
(* to eight digits: longer ones overflow the HSM's own field.              *)

FirstFour(p) == SubSeq(p, 1, 4)

PinRefused(p) ==
  \/ \A i \in 1 .. 4 : FirstFour(p)[i] = FirstFour(p)[1]
  \/ FirstFour(p) \in {<<1, 2, 3, 4>>, <<4, 3, 2, 1>>}
=============================================================================
