-------------------------- MODULE IsmTransactions ---------------------------
(***************************************************************************)
(* How the ISO module (ISM/src) carries out a purchase (0200) and a        *)
(* reversal (0400), one action per call that reads or changes the SQLite   *)
(* database.  The process serves one message at a time, so the behaviours  *)
(* that matter are what happens between two database calls: the process    *)
(* may die (a signal, a power cut, an operator; runner.sh starts it again  *)
(* a minute later) and, when DbFaults is TRUE, any database call may fail, *)
(* which the handlers never look at.                                       *)
(*                                                                         *)
(* Simplifications:                                                        *)
(*  - Keys stands for the triple (MTI, terminal NSU, terminal date and     *)
(*    time) by which DE90 of a reversal names its purchase.                *)
(*  - A purchase arrives with DE39 and DE127 empty, as the terminals' 0200 *)
(*    messages do; -1 is the empty text of a column or field.              *)
(*  - The HSM is its answer: HsmReply says what util_sendDataToHSM sees.   *)
(***************************************************************************)
EXTENDS IsmRules

CONSTANTS
  MaxRequests,     \* bound on the requests received
  Keys,            \* identities terminals give to purchases
  PurchaseAmounts, \* amounts of 0200 requests
  ReversalAmounts, \* amounts of 0400 requests
  Pins,            \* PINs the HSM may find in a PIN block
  NoPin,           \* DE52 absent or all zeros
  FirstHost,       \* config.nsu_host when the run starts
  FirstAcq,        \* config.nsu_acquirer when the run starts
  NsuLimit,        \* 10^6: the first number that does not fit DE38
  AcqFallback,     \* 999999999999
  DbFaults,        \* whether a database call may fail
  None             \* no row, no request, no outcome

Ids == 1 .. MaxRequests
Blank == -1

ASSUME ConstantsAssumption ==
  /\ MaxRequests \in Nat
  /\ PurchaseAmounts \subseteq Nat
  /\ ReversalAmounts \subseteq Nat
  /\ NoPin \notin Pins
  /\ FirstHost \in Nat
  /\ FirstAcq \in Nat
  /\ NsuLimit \in Nat /\ NsuLimit > 1
  /\ AcqFallback \in Nat
  /\ DbFaults \in BOOLEAN

VARIABLES
  nsuHost,    \* config.nsu_host
  nsuAcq,     \* config.nsu_acquirer
  timestamp,  \* config.timestamp, as the number of its table
  rows,       \* rows[i]: the transactions row that request i inserted
  pc,         \* where the process is in the handler of the current request
  cur,        \* the current request: structMsgIn and structMsgOut
  received,   \* number of requests received
  outcomes,   \* outcomes[i]: how the handling of request i ended
  faulted     \* requests during which a database call failed

vars == <<nsuHost, nsuAcq, timestamp, rows, pc, cur, received, outcomes, faulted>>
db   == <<nsuHost, nsuAcq, timestamp, rows>>
-----------------------------------------------------------------------------
(* Types.                                                                  *)

Codes == 0 .. 99

Row == [key : Keys, nsu : Nat, code : Codes \cup {Blank},
        acq : Nat \cup {Blank},
        by : Ids \cup {0}]  \* ghost: the request whose UPDATE wrote it last

Request ==
  [id : Ids, kind : {"purchase", "reversal"}, key : Keys, amount : Nat,
   pin : Pins \cup {NoPin}, orig : Nat \cup {Blank}, \* NSU named by DE90
   checked : BOOLEAN,                    \* ghost: the HSM answered on the PIN
   host : Nat, code : Codes \cup {Blank}, acq : Nat \cup {Blank}]

Outcome == [req : Request, sent : BOOLEAN]

\* What a purchase enters in its row at the end.
Booking == [code : Codes \cup {Blank}, acq : Nat \cup {Blank}]

\* No row, request, outcome or booking is None.
ASSUME NoneAssumption == None \notin Row \cup Request \cup Outcome \cup Booking

Steps == {"idle", "save", "pin", "host", "decide", "acq", "stamp", "update",
          "reply", "down"}

Init ==
  /\ nsuHost = FirstHost
  /\ nsuAcq = FirstAcq
  /\ timestamp = 0
  /\ rows = [i \in Ids |-> None]
  /\ pc = "idle"
  /\ cur = None
  /\ received = 0
  /\ outcomes = [i \in Ids |-> None]
  /\ faulted = {}

-----------------------------------------------------------------------------
(* Receiving: iso_MainProcess reads the MTI, the handler parses the fields *)
(* into a structure it has just cleared.                                   *)

Arrived(kind, k, a, p, o) ==
  [id |-> received + 1, kind |-> kind, key |-> k, amount |-> a, pin |-> p,
   orig |-> o, checked |-> FALSE, host |-> 0, code |-> Blank, acq |-> Blank]

Receive(req, step) ==
  /\ pc = "idle"
  /\ received < MaxRequests
  /\ received' = received + 1
  /\ cur' = req
  /\ pc' = step
  /\ UNCHANGED <<db, outcomes, faulted>>

ReceivePurchase(k, a, p) ==
  Receive(Arrived("purchase", k, a, p, Blank), "save")

Answered(i) == outcomes[i] # None /\ outcomes[i].sent

\* A terminal names the acquirer NSU it was told, or leaves it empty when it
\* was told none.
KnownNsus ==
  {Blank} \cup {outcomes[i].req.acq : i \in {j \in Ids : Answered(j)}}

ReceiveReversal(k, a, o) ==
  /\ o \in KnownNsus
  /\ Receive(Arrived("reversal", k, a, NoPin, o), "host")

-----------------------------------------------------------------------------
(* Database calls.  A call that fails changes nothing; the handlers go on. *)

Succeeds == UNCHANGED faulted
Fails == DbFaults /\ faulted' = faulted \cup {cur.id}

Insert(nsu) ==
  rows' = [rows EXCEPT ![cur.id] =
             [key |-> cur.key, nsu |-> nsu, code |-> Blank, acq |-> Blank,
              by |-> 0]]

\* Mutant: the row carries the number already taken.
SavedNsu_Current == nsuHost

\* iso_SaveFinStruct: the row carries the host NSU the handler is about to
\* take, or 0 when the configuration cannot be read.
SavedNsu == nsuHost + 1

SavePurchase ==
  /\ pc = "save"
  /\ \/ Insert(SavedNsu) /\ Succeeds
     \/ Insert(0) /\ Fails
     \/ UNCHANGED rows /\ Fails
  /\ pc' = "pin"
  /\ UNCHANGED <<nsuHost, nsuAcq, timestamp, cur, received, outcomes>>

-----------------------------------------------------------------------------
(* The PIN: refused by the rules when the HSM answers; accepted when the   *)
(* HSM cannot be reached; when it closes the connection without an answer  *)
(* the code reads eight bytes before its empty buffer, and either result   *)
(* is possible.                                                            *)

HsmReply == {"answer", "unreachable", "nothing"}

PinVerdict(reply) ==
  CASE reply = "answer"      -> {IF PinRefused(cur.pin) THEN 55 ELSE Blank}
    [] reply = "unreachable" -> {Blank}
    [] reply = "nothing"     -> {Blank, 55}

CheckPin ==
  /\ pc = "pin"
  /\ \/ cur.pin = NoPin /\ UNCHANGED cur
     \/ /\ cur.pin # NoPin
        /\ \E reply \in HsmReply : \E c \in PinVerdict(reply) :
             cur' = [cur EXCEPT !.code = c, !.checked = (reply = "answer")]
  /\ pc' = "host"
  /\ UNCHANGED <<db, received, outcomes, faulted>>

-----------------------------------------------------------------------------
(* Both mock-ups take a host NSU, decide, and take an acquirer NSU.        *)

\* Mutants: the new value of a counter is not stored.
NextHost_NotStored == nsuHost
NextAcq_NotStored == nsuAcq

NextHost == nsuHost + 1
NextAcq == nsuAcq + 1

\* "%06d" copied into a field of six characters: a seventh digit is lost.
DE38(n) == IF n < NsuLimit THEN n ELSE n \div 10
HostFallback == NsuLimit - 1

TakeHostNsu ==
  /\ pc = "host"
  /\ \/ /\ nsuHost' = NextHost
        /\ cur' = [cur EXCEPT !.host = DE38(nsuHost + 1)]
        /\ Succeeds
     \/ /\ UNCHANGED nsuHost \* the UPDATE of the configuration failed
        /\ cur' = [cur EXCEPT !.host = DE38(nsuHost + 1)]
        /\ Fails
     \/ /\ UNCHANGED nsuHost \* the configuration could not be read
        /\ cur' = [cur EXCEPT !.host = HostFallback]
        /\ Fails
  /\ pc' = "decide"
  /\ UNCHANGED <<nsuAcq, timestamp, rows, received, outcomes>>

\* Mutant: the PIN's refusal is overwritten.
PurchaseCode_AlwaysApproved ==
  IF CodedPurchase(cur.amount) THEN LastTwoDigits(cur.amount) ELSE 0

PurchaseCode ==
  IF CodedPurchase(cur.amount) THEN LastTwoDigits(cur.amount)
  ELSE IF cur.code = 55 THEN 55 ELSE 0

DecidePurchase ==
  /\ pc = "decide" /\ cur.kind = "purchase"
  /\ cur' = [cur EXCEPT !.code = PurchaseCode]
  /\ pc' = "acq"
  /\ UNCHANGED <<db, received, outcomes, faulted>>

\* Mutants: the original is sought without its acquirer NSU, or by its host NSU.
Original_KeyOnly(i) == rows[i] # None /\ rows[i].key = cur.key
Original_ByHostNsu(i) == Original_KeyOnly(i) /\ rows[i].nsu = cur.orig

\* utl_SQL_select_original_Transaction: the response code is not looked at.
Original(i) ==
  /\ rows[i] # None
  /\ rows[i].key = cur.key
  /\ rows[i].acq = cur.orig

DecideReversal ==
  /\ pc = "decide" /\ cur.kind = "reversal"
  /\ \/ /\ CodedReversal(cur.amount)
        /\ cur' = [cur EXCEPT !.code = LastTwoDigits(cur.amount)]
        /\ Succeeds
     \/ /\ ~CodedReversal(cur.amount)
        /\ cur' = [cur EXCEPT !.code = IF \E i \in Ids : Original(i) THEN 0 ELSE 56]
        /\ Succeeds
     \/ /\ ~CodedReversal(cur.amount)
        /\ cur' = [cur EXCEPT !.code = 56]
        /\ Fails
  /\ pc' = "acq"
  /\ UNCHANGED <<db, received, outcomes>>

Result ==
  IF cur.kind = "purchase" THEN PurchaseResult(cur.amount)
                           ELSE ReversalResult(cur.amount)

AfterAcq == IF cur.kind = "purchase" THEN "stamp" ELSE "reply"

TakeAcqNsu ==
  /\ pc = "acq"
  /\ \/ /\ nsuAcq' = NextAcq
        /\ cur' = [cur EXCEPT !.acq = nsuAcq + 1]
        /\ Succeeds
     \/ /\ UNCHANGED nsuAcq
        /\ cur' = [cur EXCEPT !.acq = nsuAcq + 1]
        /\ Fails
     \/ /\ UNCHANGED nsuAcq
        /\ cur' = [cur EXCEPT !.acq = AcqFallback]
        /\ Fails
  /\ pc' = AfterAcq
  /\ UNCHANGED <<nsuHost, timestamp, rows, received, outcomes>>

SelectTable ==
  /\ pc = "stamp"
  /\ \/ ~SelectsTable(cur.amount) /\ UNCHANGED timestamp /\ Succeeds
     \/ /\ SelectsTable(cur.amount)
        /\ \/ timestamp' = SelectedTable(cur.amount) /\ Succeeds
           \/ UNCHANGED timestamp /\ Fails
  /\ pc' = "update"
  /\ UNCHANGED <<nsuHost, nsuAcq, rows, cur, received, outcomes>>

\* iso_UpdateFinStruct: every row with the host NSU of the answer.
Updated(row) == [row EXCEPT !.code = cur.code, !.acq = cur.acq, !.by = cur.id]
\* Mutant: an UPDATE without its WHERE clause.
Selected_All(i) == rows[i] # None

Selected(i) == rows[i] # None /\ rows[i].nsu = cur.host

UpdatePurchase ==
  /\ pc = "update"
  /\ \/ /\ rows' = [i \in Ids |-> IF Selected(i) THEN Updated(rows[i]) ELSE rows[i]]
        /\ Succeeds
     \/ UNCHANGED rows /\ Fails
  /\ pc' = "reply"
  /\ UNCHANGED <<nsuHost, nsuAcq, timestamp, cur, received, outcomes>>

\* Back in iso_MainProcess and main: an answer, or the simulated timeout.
Reply ==
  /\ pc = "reply"
  /\ outcomes' = [outcomes EXCEPT ![cur.id] = [req |-> cur, sent |-> Result = 0]]
  /\ pc' = "idle"
  /\ cur' = None
  /\ UNCHANGED <<db, received, faulted>>

-----------------------------------------------------------------------------
Crash ==
  /\ pc # "down"
  /\ pc' = "down"
  /\ cur' = None
  /\ UNCHANGED <<db, received, outcomes, faulted>>

Restart ==
  /\ pc = "down"
  /\ pc' = "idle"
  /\ UNCHANGED <<db, cur, received, outcomes, faulted>>

Purchase ==
  \/ \E k \in Keys, a \in PurchaseAmounts, p \in Pins \cup {NoPin} :
       ReceivePurchase(k, a, p)
  \/ SavePurchase
  \/ CheckPin
  \/ DecidePurchase
  \/ SelectTable
  \/ UpdatePurchase

Reversal ==
  \/ \E k \in Keys, a \in ReversalAmounts, o \in KnownNsus : ReceiveReversal(k, a, o)
  \/ DecideReversal

Next == Purchase \/ Reversal \/ TakeHostNsu \/ TakeAcqNsu \/ Reply \/ Crash \/ Restart

Spec == Init /\ [][Next]_vars

-----------------------------------------------------------------------------
(* Properties.                                                             *)

TypeOK ==
  /\ nsuHost \in Nat
  /\ nsuAcq \in Nat
  /\ timestamp \in 0 .. 5
  /\ rows \in [Ids -> Row \cup {None}]
  /\ pc \in Steps
  /\ cur \in Request \cup {None}
  /\ pc \notin {"idle", "down"} => cur \in Request
  /\ received \in 0 .. MaxRequests
  /\ outcomes \in [Ids -> Outcome \cup {None}]
  /\ faulted \subseteq Ids

\* The host NSU still fits DE38 and is not the fallback's.
HostFits == nsuHost < HostFallback

Finished(i, kind) == outcomes[i] # None /\ outcomes[i].req.kind = kind
Clean(i) == i \notin faulted
Booked(i) == rows[i] # None /\ rows[i].by = i
Interrupted(i) == i <= received /\ outcomes[i] = None /\ (cur = None \/ cur.id # i)

\* Once the handling of a purchase has ended and none of its own database
\* calls failed, its row holds the response code and the acquirer NSU it
\* ended with, answered or not, and keeps them whatever happens later:
\* other purchases, their failing calls, crashes and restarts.
\* (iso_SaveFinStruct and iso_UpdateFinStruct find the row by the host NSU
\* only, which nothing in the table keeps unique.)
OutcomeIsBooked ==
  HostFits => \A i \in Ids :
    Finished(i, "purchase") /\ Clean(i) =>
      /\ Booked(i)
      /\ rows[i].code = outcomes[i].req.code
      /\ rows[i].acq = outcomes[i].req.acq

\* A purchase's UPDATE writes another purchase's row only when the handling
\* of that other purchase was cut short before its end, or one of its own
\* database calls failed.
DamageIsContained ==
  HostFits => \A i \in Ids :
    rows[i] # None /\ rows[i].by \notin {0, i} => Interrupted(i) \/ ~Clean(i)

\* No two answers carry the same acquirer NSU, purchases and reversals
\* together, when no database call failed for either.
AcquirerNsuUnique ==
  \A i, j \in Ids :
    Answered(i) /\ Answered(j) /\ Clean(i) /\ Clean(j) /\ i # j =>
      outcomes[i].req.acq # outcomes[j].req.acq

\* A reversal that names a purchase answered before, by its key and its
\* acquirer NSU, is not told "56 - No card record".
ReversalFindsOriginal ==
  HostFits => \A r, p \in Ids :
    /\ Finished(r, "reversal") /\ Clean(r)
    /\ Finished(p, "purchase") /\ Clean(p) /\ p < r
    /\ outcomes[r].req.key = outcomes[p].req.key
    /\ outcomes[r].req.orig = outcomes[p].req.acq
    => CodedReversal(outcomes[r].req.amount) \/ outcomes[r].req.code = 0

\* A reversal that names no acquirer NSU is approved only when some purchase
\* of that key had not reached its end: it never undoes one that had.
BlankReversalFindsOnlyLost ==
  HostFits => \A r \in Ids :
    /\ Finished(r, "reversal")
    /\ outcomes[r].req.orig = Blank
    /\ outcomes[r].req.code = 0
    => \/ CodedReversal(outcomes[r].req.amount)
       \/ \E p \in 1 .. (r - 1) :
            /\ rows[p] # None /\ rows[p].key = outcomes[r].req.key
            /\ Interrupted(p) \/ ~Clean(p)

\* A purchase whose PIN the HSM answered on is told 55 exactly when the
\* rules refuse the PIN, unless its amount asks for a code of its own.
CheckedPinDecides ==
  \A i \in Ids :
    Finished(i, "purchase") /\ outcomes[i].req.checked =>
      \/ CodedPurchase(outcomes[i].req.amount)
      \/ (outcomes[i].req.code = 55) <=> PinRefused(outcomes[i].req.pin)

-----------------------------------------------------------------------------
(* The abstract view: the journal of Ledger is the rows a purchase without *)
(* failed calls wrote for itself.                                          *)

Journal ==
  [i \in Ids |-> IF Booked(i) /\ Clean(i)
                   THEN [code |-> rows[i].code, acq |-> rows[i].acq]
                   ELSE None]

Told == {i \in Ids : Answered(i) /\ Clean(i) /\ outcomes[i].req.kind = "purchase"}

Abstract == INSTANCE Ledger WITH Purchases <- Ids, journal <- Journal, told <- Told

ImplementsLedger == Abstract!LedgerSpec
=============================================================================
