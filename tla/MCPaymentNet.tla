---------------------------- MODULE MCPaymentNet ----------------------------
(***************************************************************************)
(* Values for TLC.  An ISO message has the 917 bytes test_ism.c declares.   *)
(* The ISM takes 913 of them for the whole message; from a first read of 2  *)
(* bytes it learns a length of 9, and waits for 5 bytes; of 1, none at all. *)
(***************************************************************************)
EXTENDS PaymentNet, TLC

CONSTANTS s1, s2, s3, p7071

OnePort == [s \in Sessions |-> p7071]

\* The sessions of a port differ in nothing but their number.
Alike == Permutations(Sessions)
=============================================================================
