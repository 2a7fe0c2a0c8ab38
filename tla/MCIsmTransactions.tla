------------------------- MODULE MCIsmTransactions --------------------------
(***************************************************************************)
(* Values for TLC.  The int of atoi has 18 bits instead of 32.  An amount  *)
(* of 266044 wraps to 3900, as 4294971196 does in the built program.       *)
(***************************************************************************)
EXTENDS IsmTransactions

MCIntHalf == 131072

\* An ordinary amount, one that wraps to a coded one, a simulated timeout.
LedgerAmounts == {100, 266044, 42003}

\* An ordinary purchase that selects a table as well.
OneAmount == {80004}

MCReversalAmounts == {100, 4950, 42007}

\* Of a refused PIN the rules see the first four digits.
TwoPins == {<<7, 3, 0, 9>>, <<1, 1, 1, 1, 2>>}
NoPins == {}
=============================================================================
