---------------------------- MODULE MCHsmService ----------------------------
(***************************************************************************)
(* Values for TLC: a card like the one of test_hsm.c, whose PAN has 16     *)
(* digits, and whose last block of data holds the CVV's length; one with   *)
(* 19, a first track and a CVV that stands in that block without its       *)
(* length; and one whose PAN is too short for a PIN's block.               *)
(***************************************************************************)
EXTENDS HsmService

Mastercard ==
  [pan |-> <<5, 2, 0, 0, 4, 8, 5, 9, 4, 1, 3, 0, 8, 0, 2, 5>>, track1 |-> <<>>,
   track2 |-> <<5, 2, 0, 0, 4, 8, Letter, 2, 9>>, dtv |-> <<2, 9, 1, 2>>, cvv |-> <<>>]
Longer ==
  [pan |-> <<6, 3, 7, 5, 9, 9, 1, 2, 0, 4, 4, 7, 8, 1, 6, 3, 2, 0, 7>>,
   track1 |-> <<Letter, 6, 3, 7, 5, 9>>, track2 |-> <<6, 3, 7, 5, Letter, 3, 0, 1, 2, 0>>,
   dtv |-> <<3, 0, 0, 1>>, cvv |-> <<8, 1, 4, 2>>]
Store ==
  [pan |-> <<6, 0, 4, 2, 0, 1, 7, 7, 3, 5, 1, 8>>, track1 |-> <<>>, track2 |-> <<>>,
   dtv |-> <<2, 7, 0, 5>>, cvv |-> <<>>]
Faces == [c \in Cards |-> CASE c = "short" -> Mastercard [] c = "long" -> Longer [] c = "few" -> Store]

\* A weak PIN, and one of six digits.
TypedPins ==
  [c \in Cards |-> IF c = "long" THEN <<2, 7, 1, 8, 2, 8>> ELSE <<1, 2, 3, 4>>]

Garbled == {[i \in 1 .. 16 |-> (7 * i) % 16]}
=============================================================================
