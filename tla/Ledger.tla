------------------------------- MODULE Ledger -------------------------------
(***************************************************************************)
(* What the ISO module promises about purchases, whatever steps it takes   *)
(* to keep the promise: a purchase is entered once in a journal, under an  *)
(* acquirer NSU no other entry has; the entry is never changed or removed; *)
(* and a terminal is told an outcome only after that outcome was entered.  *)
(* A purchase may be lost on the way: nothing says it must be entered.     *)
(***************************************************************************)
EXTENDS Integers

CONSTANTS Purchases, \* identities of purchase requests
          None       \* no entry

VARIABLES journal,   \* journal[p]: the entry of purchase p, or None
          told       \* the purchases whose terminal was answered

ledgerVars == <<journal, told>>

Entry == [code : 0 .. 99, acq : Int]

LedgerInit ==
  /\ journal = [p \in Purchases |-> None]
  /\ told = {}

\* The new entry is whatever the next state holds at p.
Enter(p) ==
  /\ journal[p] = None
  /\ journal'[p] \in Entry
  /\ \A q \in Purchases : journal[q] # None => journal[q].acq # journal'[p].acq
  /\ journal' = [journal EXCEPT ![p] = journal'[p]]
  /\ UNCHANGED told

Tell(p) ==
  /\ journal[p] # None
  /\ p \notin told
  /\ told' = told \cup {p}
  /\ UNCHANGED journal

LedgerNext ==
  \E p \in Purchases : Enter(p) \/ Tell(p)

LedgerSpec == LedgerInit /\ [][LedgerNext]_ledgerVars
=============================================================================
