----------------------- MODULE IsmTransactions_proofs -----------------------
(***************************************************************************)
(* Theorems about IsmTransactions for every number of requests, every set  *)
(* of keys, amounts and PINs, every start of the two NSU counters, with    *)
(* and without failing database calls, with crashes at every step.         *)
(***************************************************************************)
EXTENDS IsmTransactions, TLAPS

-----------------------------------------------------------------------------
(* Type correctness.                                                       *)

\* What the amount rules return is a response code, a result, a table.
LEMMA RulesType ==
  ASSUME NEW a \in Nat
  PROVE  /\ LastTwoDigits(a) \in Codes
         /\ PurchaseResult(a) \in Int
         /\ ReversalResult(a) \in Int
         /\ SelectsTable(a) => SelectedTable(a) \in 0 .. 5
BY DEF LastTwoDigits, Codes, PurchaseResult, ReversalResult, LastDigit,
       SelectsTable, SelectedTable, Atoi

\* The host NSU of an answer is a number, cut or not.
LEMMA DE38Type == ASSUME NEW n \in Nat PROVE DE38(n) \in Nat
BY ConstantsAssumption DEF DE38

\* TypeOK holds at the start.
LEMMA InitTypeOK == Init => TypeOK
BY ConstantsAssumption DEF Init, TypeOK, Steps

\* A request in hand is a request, whatever its handler sets in it.
LEMMA NextTypeOK == TypeOK /\ [Next]_vars => TypeOK'
<1> SUFFICES ASSUME TypeOK, [Next]_vars PROVE TypeOK'
  OBVIOUS
<1> USE DEF TypeOK, Steps
<1>1. ASSUME NEW k \in Keys, NEW a \in PurchaseAmounts, NEW p \in Pins \cup {NoPin},
             ReceivePurchase(k, a, p)
      PROVE  TypeOK'
  <2>1. received + 1 \in Ids
    BY <1>1, ConstantsAssumption DEF ReceivePurchase, Receive, Ids
  <2>2. cur' \in Request
    BY <1>1, <2>1, ConstantsAssumption
    DEF ReceivePurchase, Receive, Arrived, Request, Blank
  <2>3. QED
    BY <1>1, <2>1, <2>2 DEF ReceivePurchase, Receive, Ids, db
<1>2. ASSUME NEW k \in Keys, NEW a \in ReversalAmounts, NEW o \in KnownNsus,
             ReceiveReversal(k, a, o)
      PROVE  TypeOK'
  <2>1. received + 1 \in Ids
    BY <1>2, ConstantsAssumption DEF ReceiveReversal, Receive, Ids
  <2>2. o \in Nat \cup {Blank}
    <3>1. CASE o = Blank
      BY <3>1
    <3>2. CASE o # Blank
      <4>1. PICK i \in Ids : outcomes[i] # None /\ o = outcomes[i].req.acq
        BY <3>2 DEF KnownNsus, Answered
      <4>2. outcomes[i].req \in Request
        BY <4>1 DEF Outcome
      <4>3. QED
        BY <4>1, <4>2 DEF Request
    <3>3. QED
      BY <3>1, <3>2
  <2>3. cur' \in Request
    BY <1>2, <2>1, <2>2, ConstantsAssumption
    DEF ReceiveReversal, Receive, Arrived, Request
  <2>4. QED
    BY <1>2, <2>1, <2>3 DEF ReceiveReversal, Receive, Ids, db
<1>3. ASSUME SavePurchase PROVE TypeOK'
  <2>1. cur \in Request /\ cur.id \in Ids /\ cur.key \in Keys
    BY <1>3 DEF SavePurchase, Request
  <2>2. ASSUME NEW n \in Nat, Insert(n) PROVE rows' \in [Ids -> Row \cup {None}]
    <3>1. [key |-> cur.key, nsu |-> n, code |-> Blank, acq |-> Blank, by |-> 0] \in Row
      BY <2>1 DEF Row
    <3>2. QED
      BY <2>1, <2>2, <3>1 DEF Insert
  <2>3. rows' \in [Ids -> Row \cup {None}]
    BY <1>3, <2>2 DEF SavePurchase, SavedNsu
  <2>4. QED
    BY <1>3, <2>1, <2>3 DEF SavePurchase, Succeeds, Fails
<1>4. ASSUME CheckPin PROVE TypeOK'
  <2>1. cur \in Request
    BY <1>4 DEF CheckPin
  <2>2. cur' \in Request
    <3>1. CASE UNCHANGED cur
      BY <2>1, <3>1
    <3>2. ASSUME NEW reply \in HsmReply, NEW c \in PinVerdict(reply),
                 cur' = [cur EXCEPT !.code = c, !.checked = (reply = "answer")]
          PROVE  cur' \in Request
      <4>1. c \in Codes \cup {Blank}
        BY <3>2 DEF HsmReply, PinVerdict, Codes
      <4>2. QED
        BY <2>1, <3>2, <4>1 DEF Request
    <3>3. QED
      BY <1>4, <3>1, <3>2 DEF CheckPin
  <2>3. QED
    BY <1>4, <2>2 DEF CheckPin, db
<1>5. ASSUME TakeHostNsu PROVE TypeOK'
  <2>1. cur \in Request
    BY <1>5 DEF TakeHostNsu
  <2>2. DE38(nsuHost + 1) \in Nat /\ HostFallback \in Nat
    BY DE38Type, ConstantsAssumption DEF HostFallback
  <2>3. cur' \in Request
    BY <1>5, <2>1, <2>2 DEF TakeHostNsu, Request
  <2>4. QED
    BY <1>5, <2>1, <2>3 DEF TakeHostNsu, NextHost, Succeeds, Fails, Request
<1>6. ASSUME DecidePurchase PROVE TypeOK'
  <2>1. cur \in Request /\ cur.amount \in Nat
    BY <1>6 DEF DecidePurchase, Request
  <2>2. PurchaseCode \in Codes
    BY <2>1, RulesType DEF PurchaseCode, Codes
  <2>3. cur' \in Request
    BY <1>6, <2>1, <2>2 DEF DecidePurchase, Request
  <2>4. QED
    BY <1>6, <2>3 DEF DecidePurchase, db
<1>7. ASSUME DecideReversal PROVE TypeOK'
  <2>1. cur \in Request /\ cur.amount \in Nat /\ cur.id \in Ids
    BY <1>7 DEF DecideReversal, Request
  <2>2. LastTwoDigits(cur.amount) \in Codes /\ 0 \in Codes /\ 56 \in Codes
    BY <2>1, RulesType DEF Codes
  <2>3. cur' \in Request
    BY <1>7, <2>1, <2>2 DEF DecideReversal, Request
  <2>4. QED
    BY <1>7, <2>1, <2>3 DEF DecideReversal, db, Succeeds, Fails
<1>8. ASSUME TakeAcqNsu PROVE TypeOK'
  <2>1. cur \in Request /\ cur.id \in Ids /\ cur.kind \in {"purchase", "reversal"}
    BY <1>8 DEF TakeAcqNsu, Request
  <2>2. cur' \in Request
    BY <1>8, <2>1, ConstantsAssumption DEF TakeAcqNsu, Request
  <2>3. AfterAcq \in {"reply", "stamp", "update"}
    BY <2>1 DEF AfterAcq
  <2>4. QED
    BY <1>8, <2>1, <2>2, <2>3 DEF TakeAcqNsu, NextAcq, Succeeds, Fails
<1>9. ASSUME SelectTable PROVE TypeOK'
  <2>1. cur \in Request /\ cur.id \in Ids /\ cur.amount \in Nat
    BY <1>9 DEF SelectTable, Request
  <2>2. QED
    BY <1>9, <2>1, RulesType DEF SelectTable, Succeeds, Fails
<1>10. ASSUME UpdatePurchase PROVE TypeOK'
  <2>1. cur \in Request /\ cur.id \in Ids
    BY <1>10 DEF UpdatePurchase, Request
  <2>2. \A i \in Ids : rows[i] # None => Updated(rows[i]) \in Row
    <3>1. cur.code \in Codes \cup {Blank} /\ cur.acq \in Nat \cup {Blank}
      BY <2>1 DEF Request
    <3>2. ASSUME NEW row \in Row PROVE Updated(row) \in Row
      BY <2>1, <3>1 DEF Updated, Row
    <3>3. QED
      BY <3>2
  <2>3. rows' \in [Ids -> Row \cup {None}]
    BY <1>10, <2>2 DEF UpdatePurchase, Selected
  <2>4. QED
    BY <1>10, <2>1, <2>3 DEF UpdatePurchase, Succeeds, Fails
<1>11. ASSUME Reply PROVE TypeOK'
  <2>1. cur \in Request /\ cur.id \in Ids
    BY <1>11 DEF Reply, Request
  <2>2. [req |-> cur, sent |-> Result = 0] \in Outcome
    BY <2>1 DEF Outcome
  <2>3. QED
    BY <1>11, <2>1, <2>2 DEF Reply, db
<1>12. CASE Crash
  BY <1>12 DEF Crash, db
<1>13. CASE Restart
  BY <1>13 DEF Restart, db
<1>14. CASE UNCHANGED vars
  BY <1>14 DEF vars
<1>15. QED
  BY <1>1, <1>2, <1>3, <1>4, <1>5, <1>6, <1>7, <1>8, <1>9, <1>10, <1>11, <1>12,
     <1>13, <1>14
  DEF Next, Purchase, Reversal

\* The database, the request in hand and the outcomes always have the shape
\* the handlers give them.
THEOREM TypeCorrect == Spec => []TypeOK
BY InitTypeOK, NextTypeOK, PTL DEF Spec

-----------------------------------------------------------------------------
(* The inductive invariant.  What has to be known beyond the properties is *)
(* how the host NSU orders the rows: a row that a purchase wrote for       *)
(* itself never has a number above the counter, the row of the purchase in *)
(* hand has the next number before TakeHostNsu and the present one after,  *)
(* and so the number an UPDATE selects is above that of every such row.    *)

\* The process serves one request, the last received.
OneRequest ==
  /\ pc \in {"idle", "down"} <=> cur = None
  /\ cur # None =>
       /\ cur.id = received
       /\ outcomes[cur.id] = None
       /\ pc \in {"save", "pin", "stamp", "update"} => cur.kind = "purchase"
       /\ cur.kind = "reversal" \/ pc = "save" => rows[cur.id] = None
       /\ pc \in {"acq", "stamp", "update", "reply"} => cur.code \in Codes

\* Requests not received yet left no trace, reversals left no row.
NoTrace ==
  \A i \in Ids :
    /\ i > received => rows[i] = None /\ outcomes[i] = None /\ Clean(i)
    /\ rows[i] # None /\ outcomes[i] # None => outcomes[i].req.kind = "purchase"

RowsBelowHost ==
  \A i \in Ids : Booked(i) /\ Clean(i) => rows[i].nsu <= nsuHost

\* The row of the purchase in hand.
RowInHand ==
  cur # None /\ cur.kind = "purchase" /\ Clean(cur.id) /\ pc # "save" =>
    /\ rows[cur.id] # None
    /\ rows[cur.id].nsu = IF pc \in {"pin", "host"} THEN nsuHost + 1 ELSE nsuHost
    /\ pc # "reply" => rows[cur.id].by = 0
    /\ pc = "reply" /\ HostFits =>
         /\ Booked(cur.id)
         /\ rows[cur.id].code = cur.code
         /\ rows[cur.id].acq = cur.acq

\* The number the UPDATE will select.
HostInHand ==
  cur # None /\ HostFits /\ pc \in {"decide", "acq", "stamp", "update"} =>
    /\ Clean(cur.id) => cur.host = nsuHost
    /\ \A i \in Ids : i # cur.id /\ Booked(i) /\ Clean(i) => rows[i].nsu < cur.host

\* The acquirer NSUs of requests and rows without a failed call.
AcqInHand ==
  cur # None /\ Clean(cur.id) /\ pc \in {"stamp", "update", "reply"} =>
    /\ cur.acq = nsuAcq
    /\ \A i \in Ids : outcomes[i] # None /\ Clean(i) => outcomes[i].req.acq < cur.acq
    /\ \A i \in Ids : i # cur.id /\ Booked(i) /\ Clean(i) => rows[i].acq < cur.acq

AcqBounded ==
  \A i \in Ids :
    Clean(i) =>
      /\ outcomes[i] # None => outcomes[i].req.acq <= nsuAcq
      /\ Booked(i) => rows[i].acq <= nsuAcq

AcqDistinct ==
  \A i, j \in Ids :
    outcomes[i] # None /\ outcomes[j] # None /\ Clean(i) /\ Clean(j) /\ i # j =>
      outcomes[i].req.acq # outcomes[j].req.acq

IInv ==
  /\ TypeOK /\ OneRequest /\ NoTrace
  /\ RowsBelowHost /\ RowInHand /\ HostInHand
  /\ OutcomeIsBooked /\ DamageIsContained
  /\ AcqInHand /\ AcqBounded /\ AcqDistinct

\* What TypeOK says of the requests, rows and outcomes there are.
LEMMA TypedParts ==
  ASSUME TypeOK
  PROVE  /\ cur # None <=> cur \in Request
         /\ cur # None => /\ cur.id \in Ids
                          /\ cur.kind \in {"purchase", "reversal"}
                          /\ cur.acq \in Int
                          /\ cur.host \in Nat
         /\ \A i \in Ids : rows[i] # None =>
              /\ rows[i] \in Row
              /\ rows[i].nsu \in Nat
              /\ rows[i].acq \in Int
              /\ rows[i].by \in Ids \cup {0}
         /\ \A i \in Ids : outcomes[i] # None =>
              /\ outcomes[i].req \in Request
              /\ outcomes[i].req.acq \in Int
         /\ nsuHost \in Nat /\ nsuAcq \in Nat /\ received \in Nat
<1>1. cur # None <=> cur \in Request
  BY NoneAssumption DEF TypeOK
<1>2. ASSUME NEW r \in Request
      PROVE  /\ r.id \in Ids /\ r.kind \in {"purchase", "reversal"}
             /\ r.acq \in Int /\ r.host \in Nat
  BY DEF Request, Blank
<1>3. ASSUME NEW i \in Ids, rows[i] # None
      PROVE  /\ rows[i] \in Row /\ rows[i].nsu \in Nat
             /\ rows[i].acq \in Int /\ rows[i].by \in Ids \cup {0}
  <2>1. rows[i] \in Row
    BY <1>3 DEF TypeOK
  <2>2. QED
    BY <2>1 DEF Row, Blank
<1>4. ASSUME NEW i \in Ids, outcomes[i] # None
      PROVE  outcomes[i].req \in Request
  BY <1>4 DEF TypeOK, Outcome
<1>5. nsuHost \in Nat /\ nsuAcq \in Nat /\ received \in Nat
  BY ConstantsAssumption DEF TypeOK
<1>6. QED
  BY <1>1, <1>2, <1>3, <1>4, <1>5

\* The inductive invariant holds at the start: nothing was received.
LEMMA InitIInv == Init => IInv
<1> SUFFICES ASSUME Init PROVE IInv
  OBVIOUS
<1>1. TypeOK
  BY InitTypeOK
<1>2. /\ cur = None /\ pc = "idle" /\ faulted = {}
      /\ \A i \in Ids : rows[i] = None /\ outcomes[i] = None
  BY DEF Init
<1>3. QED
  BY <1>1, <1>2
  DEF IInv, OneRequest, NoTrace, RowsBelowHost, RowInHand, HostInHand,
      OutcomeIsBooked, DamageIsContained, AcqInHand, AcqBounded, AcqDistinct,
      Clean, Booked, Finished

\* A request arrives: the new id has left no trace.
LEMMA ReceiveIInv ==
  ASSUME IInv, TypeOK', NEW req \in Request, NEW step \in {"save", "host"},
         Receive(req, step), req.id = received + 1,
         req.kind = IF step = "save" THEN "purchase" ELSE "reversal"
  PROVE  IInv'
<1>1. /\ cur = None /\ cur' = req /\ cur' # None
      /\ received' = received + 1 /\ received' \in Ids
      /\ pc = "idle" /\ pc' = step
      /\ nsuHost' = nsuHost /\ nsuAcq' = nsuAcq /\ rows' = rows
      /\ outcomes' = outcomes /\ faulted' = faulted
  <2>1. req.id \in Ids
    BY DEF Request
  <2>2. QED
    BY <2>1, NoneAssumption DEF Receive, db, IInv, OneRequest
<1>2. TypeOK
  BY DEF IInv
<1>3. rows[req.id] = None /\ outcomes[req.id] = None
  BY <1>1, <1>2, TypedParts DEF IInv, NoTrace
<1>4. OneRequest'
  BY <1>1, <1>3 DEF OneRequest
<1>5. NoTrace'
  BY <1>1, <1>2, TypedParts DEF IInv, NoTrace, Clean, Ids
<1>6. (RowsBelowHost /\ RowInHand /\ HostInHand /\ AcqInHand /\ AcqBounded /\ AcqDistinct)'
  BY <1>1
  DEF IInv, RowsBelowHost, RowInHand, HostInHand, AcqInHand, AcqBounded,
      AcqDistinct, Clean, Booked
<1>7. OutcomeIsBooked'
  BY <1>1 DEF IInv, OutcomeIsBooked, Finished, Clean, Booked, HostFits
<1>8. DamageIsContained'
  BY <1>1, <1>2, <1>3, TypedParts
  DEF IInv, DamageIsContained, Interrupted, Clean, HostFits, Ids
<1>9. QED
  BY <1>4, <1>5, <1>6, <1>7, <1>8 DEF IInv

\* A database call of the request in hand succeeded or failed: either way no
\* other request loses its name.
LEMMA CallFrame ==
  ASSUME IInv, cur # None, Succeeds \/ Fails
  PROVE  /\ cur.id \in Ids
         /\ \A i \in Ids : Clean(i)' => Clean(i)
         /\ \A i \in Ids : i # cur.id => (Clean(i)' <=> Clean(i))
<1>1. cur.id \in Ids
  BY TypedParts DEF IInv
<1>2. QED
  BY <1>1 DEF Succeeds, Fails, Clean

\* The row is inserted under the number TakeHostNsu is about to take.
LEMMA SaveIInv == ASSUME IInv, TypeOK', SavePurchase PROVE IInv'
<1>1. /\ pc = "save" /\ pc' = "pin" /\ cur' = cur /\ received' = received
      /\ nsuHost' = nsuHost /\ nsuAcq' = nsuAcq /\ outcomes' = outcomes
  BY DEF SavePurchase
<1>2. /\ cur # None /\ cur.kind = "purchase" /\ rows[cur.id] = None
      /\ cur.id = received /\ outcomes[cur.id] = None
  BY <1>1 DEF IInv, OneRequest
<1>3. TypeOK
  BY DEF IInv
<1>4. /\ cur.id \in Ids
      /\ \A i \in Ids : Clean(i)' => Clean(i)
      /\ \A i \in Ids : i # cur.id => (Clean(i)' <=> Clean(i))
  BY <1>2, CallFrame DEF SavePurchase
<1>5. /\ \A i \in Ids : i # cur.id => rows'[i] = rows[i]
      /\ rows'[cur.id] # None => rows'[cur.id].by = 0
      /\ Clean(cur.id)' => rows'[cur.id] # None /\ rows'[cur.id].nsu = nsuHost + 1
  <2>1. rows \in [Ids -> Row \cup {None}] /\ cur \in Request
    BY <1>2, <1>3, TypedParts DEF TypeOK
  <2>2. ASSUME NEW n \in Nat, Insert(n)
        PROVE  /\ \A i \in Ids : i # cur.id => rows'[i] = rows[i]
               /\ rows'[cur.id] # None
               /\ rows'[cur.id].by = 0 /\ rows'[cur.id].nsu = n
    <3>1. [key |-> cur.key, nsu |-> n, code |-> Blank, acq |-> Blank, by |-> 0] \in Row
      BY <2>1, <2>2 DEF Row, Request
    <3>2. QED
      BY <1>4, <2>1, <2>2, <3>1, NoneAssumption DEF Insert
  <2>3. CASE Insert(SavedNsu)
    BY <1>3, <2>2, <2>3, TypedParts DEF SavedNsu
  <2>4. CASE Insert(0) /\ Fails
    BY <1>1, <1>4, <2>2, <2>4 DEF Fails, Clean
  <2>5. CASE UNCHANGED rows /\ Fails
    BY <1>1, <1>2, <1>4, <2>5 DEF Fails, Clean
  <2>6. QED
    BY <2>3, <2>4, <2>5 DEF SavePurchase
<1>6. OneRequest'
  BY <1>1, <1>2 DEF IInv, OneRequest
<1>7. NoTrace'
  BY <1>1, <1>2, <1>3, <1>4, <1>5, TypedParts DEF IInv, NoTrace
<1>8. \A i \in Ids : (Booked(i) /\ Clean(i))' =>
        i # cur.id /\ Booked(i) /\ Clean(i) /\ rows'[i] = rows[i]
  BY <1>4, <1>5 DEF Booked, Ids
<1>9. (RowsBelowHost /\ HostInHand /\ AcqInHand /\ AcqBounded /\ AcqDistinct)'
  BY <1>1, <1>4, <1>8
  DEF IInv, RowsBelowHost, HostInHand, AcqInHand, AcqBounded, AcqDistinct
<1>10. RowInHand'
  BY <1>1, <1>5 DEF RowInHand
<1>11. OutcomeIsBooked'
  BY <1>1, <1>2, <1>4, <1>5 DEF IInv, OutcomeIsBooked, Finished, Booked, HostFits
<1>12. DamageIsContained'
  BY <1>1, <1>4, <1>5 DEF IInv, DamageIsContained, Interrupted, HostFits
<1>13. QED
  BY <1>6, <1>7, <1>9, <1>10, <1>11, <1>12 DEF IInv

\* The steps that touch neither the rows nor the counters, and leave the
\* request in hand its identity.
LEMMA QuietIInv ==
  ASSUME IInv, TypeOK',
         cur # None, cur' # None, Succeeds \/ Fails,
         UNCHANGED <<nsuHost, nsuAcq, rows, outcomes, received>>,
         cur'.id = cur.id, cur'.kind = cur.kind, cur'.host = cur.host,
         cur'.acq = cur.acq,
         \/ pc = "pin" /\ pc' = "host"
         \/ pc = "decide" /\ pc' = "acq" /\ cur'.code \in Codes
         \/ pc = "stamp" /\ pc' = "update" /\ cur'.code = cur.code
  PROVE  IInv'
<1>1. /\ cur.id \in Ids
      /\ \A i \in Ids : Clean(i)' => Clean(i)
      /\ \A i \in Ids : i # cur.id => (Clean(i)' <=> Clean(i))
  BY CallFrame
<1>2. \A i \in Ids : (Booked(i)' <=> Booked(i)) /\ (Finished(i, "purchase")' <=> Finished(i, "purchase"))
  BY DEF Booked, Finished
<1>3. OneRequest'
  BY DEF IInv, OneRequest
<1>4. NoTrace'
  BY <1>1, TypedParts DEF IInv, NoTrace, OneRequest
<1>5. (RowsBelowHost /\ AcqBounded /\ AcqDistinct)'
  BY <1>1, <1>2 DEF IInv, RowsBelowHost, AcqBounded, AcqDistinct
<1>6. RowInHand'
  BY <1>1 DEF IInv, RowInHand
<1>7. HostInHand'
  BY <1>1, <1>2 DEF IInv, HostInHand, HostFits
<1>8. AcqInHand'
  BY <1>1, <1>2 DEF IInv, AcqInHand
<1>9. OutcomeIsBooked'
  BY <1>1, <1>2 DEF IInv, OutcomeIsBooked, HostFits
<1>10. DamageIsContained'
  BY <1>1 DEF IInv, DamageIsContained, Interrupted, HostFits
<1>11. QED
  BY <1>3, <1>4, <1>5, <1>6, <1>7, <1>8, <1>9, <1>10 DEF IInv

\* The counter moves up to the number of the row in hand, and the request
\* takes a number above every row written before.
LEMMA HostIInv == ASSUME IInv, TypeOK', TakeHostNsu PROVE IInv'
<1>1. /\ pc = "host" /\ pc' = "decide" /\ received' = received
      /\ nsuAcq' = nsuAcq /\ rows' = rows /\ outcomes' = outcomes
      /\ Succeeds \/ Fails
  BY DEF TakeHostNsu
<1>2. TypeOK /\ cur # None /\ cur \in Request
  BY <1>1, TypedParts DEF IInv, OneRequest
<1>3. /\ cur' # None /\ cur'.id = cur.id /\ cur'.kind = cur.kind
      /\ cur'.acq = cur.acq
  <2>1. PICK n \in Nat : cur' = [cur EXCEPT !.host = n]
    BY <1>2, DE38Type, TypedParts, ConstantsAssumption DEF TakeHostNsu, HostFallback
  <2>2. QED
    BY <1>2, <2>1, NoneAssumption DEF Request
<1>4. /\ cur.id \in Ids
      /\ \A i \in Ids : Clean(i)' => Clean(i)
      /\ \A i \in Ids : i # cur.id => (Clean(i)' <=> Clean(i))
  BY <1>1, <1>2, CallFrame
<1>5. /\ nsuHost \in Nat /\ nsuHost' \in {nsuHost, nsuHost + 1}
      /\ HostFits' => HostFits
      /\ Clean(cur.id)' => nsuHost' = nsuHost + 1
  BY <1>1, <1>2, <1>3, <1>4, TypedParts, ConstantsAssumption
  DEF TakeHostNsu, NextHost, HostFits, HostFallback, Fails, Clean
<1>6. HostFits' =>
        /\ cur'.host > nsuHost
        /\ Clean(cur.id)' => cur'.host = nsuHost'
  BY <1>1, <1>2, <1>3, <1>4, <1>5, ConstantsAssumption
  DEF TakeHostNsu, NextHost, HostFits, HostFallback, DE38, Fails, Clean, Request
<1>7. \A i \in Ids : (Booked(i)' <=> Booked(i)) /\ (Finished(i, "purchase")' <=> Finished(i, "purchase"))
  BY <1>1 DEF Booked, Finished
<1>8. OneRequest'
  BY <1>1, <1>2, <1>3 DEF IInv, OneRequest
<1>9. NoTrace'
  BY <1>1, <1>2, <1>4, TypedParts DEF IInv, NoTrace, OneRequest
<1>10. RowsBelowHost'
  BY <1>1, <1>2, <1>4, <1>5, <1>7, TypedParts DEF IInv, RowsBelowHost, Booked
<1>11. RowInHand'
  BY <1>1, <1>2, <1>3, <1>4, <1>5 DEF IInv, RowInHand
<1>12. HostInHand'
  <2>1. \A i \in Ids : Booked(i) /\ Clean(i) => rows[i].nsu \in Nat /\ rows[i].nsu <= nsuHost
    BY <1>2, TypedParts DEF IInv, RowsBelowHost, Booked
  <2>2. cur'.host \in Nat
    BY <1>3, TypedParts DEF TypeOK, Request
  <2>3. HostFits' => \A i \in Ids : Booked(i) /\ Clean(i) => rows[i].nsu < cur'.host
    BY <1>5, <1>6, <2>1, <2>2
  <2>4. QED
    BY <1>1, <1>3, <1>4, <1>6, <1>7, <2>3 DEF HostInHand
<1>13. (AcqInHand /\ AcqBounded /\ AcqDistinct)'
  BY <1>1, <1>4, <1>7 DEF IInv, AcqInHand, AcqBounded, AcqDistinct
<1>14. OutcomeIsBooked'
  BY <1>1, <1>4, <1>5, <1>7 DEF IInv, OutcomeIsBooked
<1>15. DamageIsContained'
  BY <1>1, <1>2, <1>3, <1>4, <1>5 DEF IInv, DamageIsContained, Interrupted
<1>16. QED
  BY <1>8, <1>9, <1>10, <1>11, <1>12, <1>13, <1>14, <1>15 DEF IInv

\* The acquirer NSU a request takes is above every one taken before.
LEMMA AcqIInv == ASSUME IInv, TypeOK', TakeAcqNsu PROVE IInv'
<1>1. /\ pc = "acq" /\ pc' = AfterAcq /\ received' = received
      /\ nsuHost' = nsuHost /\ rows' = rows /\ outcomes' = outcomes
      /\ Succeeds \/ Fails
  BY DEF TakeAcqNsu
<1>2. TypeOK /\ cur # None /\ cur \in Request /\ cur.kind \in {"purchase", "reversal"}
  BY <1>1, TypedParts DEF IInv, OneRequest
<1>3. /\ cur' # None /\ cur'.id = cur.id /\ cur'.kind = cur.kind
      /\ cur'.host = cur.host /\ cur'.code = cur.code
  <2>1. PICK n \in Nat : cur' = [cur EXCEPT !.acq = n]
    BY <1>2, TypedParts, ConstantsAssumption DEF TakeAcqNsu
  <2>2. QED
    BY <1>2, <2>1, NoneAssumption DEF Request
<1>4. /\ cur.id \in Ids
      /\ \A i \in Ids : Clean(i)' => Clean(i)
      /\ \A i \in Ids : i # cur.id => (Clean(i)' <=> Clean(i))
  BY <1>1, <1>2, CallFrame
<1>5. /\ nsuAcq \in Nat /\ nsuAcq' \in {nsuAcq, nsuAcq + 1}
      /\ Clean(cur.id)' => nsuAcq' = nsuAcq + 1 /\ cur'.acq = nsuAcq'
  BY <1>1, <1>2, <1>3, <1>4, TypedParts
  DEF TakeAcqNsu, NextAcq, Fails, Clean, Request
<1>6. /\ pc' \in {"stamp", "reply"}
      /\ pc' = "stamp" <=> cur.kind = "purchase"
  BY <1>1, <1>2 DEF AfterAcq
<1>7. \A i \in Ids : (Booked(i)' <=> Booked(i)) /\ (Finished(i, "purchase")' <=> Finished(i, "purchase"))
  BY <1>1 DEF Booked, Finished
<1>8. OneRequest'
  BY <1>1, <1>2, <1>3, <1>6 DEF IInv, OneRequest
<1>9. NoTrace'
  BY <1>1, <1>2, <1>4, TypedParts DEF IInv, NoTrace, OneRequest
<1>10. (RowsBelowHost /\ OutcomeIsBooked)'
  BY <1>1, <1>4, <1>7 DEF IInv, RowsBelowHost, OutcomeIsBooked, HostFits
<1>11. RowInHand'
  BY <1>1, <1>2, <1>3, <1>4, <1>6 DEF IInv, RowInHand
<1>12. HostInHand'
  BY <1>1, <1>2, <1>3, <1>4, <1>7 DEF IInv, HostInHand, HostFits
<1>13. AcqBounded'
  BY <1>1, <1>2, <1>4, <1>5, <1>7, TypedParts DEF IInv, AcqBounded, Booked
<1>14. AcqInHand'
  <2>1. \A i \in Ids : outcomes[i] # None /\ Clean(i) => outcomes[i].req.acq < nsuAcq + 1
    BY <1>2, <1>5, TypedParts DEF IInv, AcqBounded
  <2>2. \A i \in Ids : Booked(i) /\ Clean(i) => rows[i].acq < nsuAcq + 1
    BY <1>2, <1>5, TypedParts DEF IInv, AcqBounded, Booked
  <2>3. QED
    BY <1>1, <1>3, <1>4, <1>5, <1>7, <2>1, <2>2 DEF AcqInHand
<1>15. AcqDistinct'
  BY <1>1, <1>4 DEF IInv, AcqDistinct
<1>16. DamageIsContained'
  BY <1>1, <1>2, <1>3, <1>4 DEF IInv, DamageIsContained, Interrupted, HostFits
<1>17. QED
  BY <1>8, <1>9, <1>10, <1>11, <1>12, <1>13, <1>14, <1>15, <1>16 DEF IInv

\* The UPDATE selects the row in hand and, besides it, only rows whose
\* handling was cut short or had a failed call: their purchases did not
\* write them, or their number would be smaller.
LEMMA UpdateIInv == ASSUME IInv, TypeOK', UpdatePurchase PROVE IInv'
<1>1. /\ pc = "update" /\ pc' = "reply" /\ received' = received /\ cur' = cur
      /\ nsuHost' = nsuHost /\ nsuAcq' = nsuAcq /\ outcomes' = outcomes
      /\ Succeeds \/ Fails
  BY DEF UpdatePurchase
<1>2. /\ TypeOK /\ cur # None /\ cur.kind = "purchase"
      /\ cur.id = received /\ outcomes[cur.id] = None
  BY <1>1 DEF IInv, OneRequest
<1>3. /\ cur.id \in Ids
      /\ \A i \in Ids : Clean(i)' => Clean(i)
      /\ \A i \in Ids : i # cur.id => (Clean(i)' <=> Clean(i))
  BY <1>1, <1>2, CallFrame
<1>4. Clean(cur.id)' =>
        \A i \in Ids : rows'[i] = IF Selected(i) THEN Updated(rows[i]) ELSE rows[i]
  BY <1>1, <1>3 DEF UpdatePurchase, Fails, Clean
<1>5. ASSUME NEW i \in Ids
      PROVE  \/ rows'[i] = rows[i]
             \/ /\ Selected(i) /\ rows'[i] # None
                /\ rows'[i].by = cur.id /\ rows'[i].nsu = rows[i].nsu
                /\ rows'[i].acq = cur.acq /\ rows'[i].code = cur.code
  <2>1. rows'[i] = rows[i] \/ (Selected(i) /\ rows'[i] = Updated(rows[i]))
    BY DEF UpdatePurchase
  <2>2. ASSUME Selected(i), rows'[i] = Updated(rows[i])
        PROVE  /\ rows'[i] # None
               /\ rows'[i].by = cur.id /\ rows'[i].nsu = rows[i].nsu
               /\ rows'[i].acq = cur.acq /\ rows'[i].code = cur.code
    <3>1. rows[i] \in Row /\ cur \in Request
      BY <1>2, <2>2, TypedParts DEF Selected
    <3>2. rows'[i] \in Row
      BY <2>2, <3>1 DEF Updated, Row, Request
    <3>3. QED
      BY <2>2, <3>1, <3>2, NoneAssumption DEF Updated, Row
  <2>3. QED
    BY <2>1, <2>2
<1>6. /\ \A i \in Ids : rows'[i] = None <=> rows[i] = None
      /\ \A i \in Ids : i # cur.id /\ Booked(i)' => Booked(i) /\ rows'[i] = rows[i]
      /\ Booked(cur.id)' /\ Clean(cur.id)' => rows'[cur.id].acq = cur.acq
      /\ Booked(cur.id)' /\ Clean(cur.id)' => rows'[cur.id].nsu = nsuHost
  <2>1. ASSUME NEW i \in Ids PROVE rows'[i] = None <=> rows[i] = None
    BY <1>5 DEF Selected
  <2>2. ASSUME NEW i \in Ids, i # cur.id, Booked(i)'
        PROVE  Booked(i) /\ rows'[i] = rows[i]
    BY <1>5, <2>2 DEF Booked
  <2>3. Clean(cur.id)' => rows[cur.id] # None /\ rows[cur.id].by = 0 /\ rows[cur.id].nsu = nsuHost
    BY <1>1, <1>2, <1>3 DEF IInv, RowInHand
  <2>4. cur.id # 0
    BY <1>3 DEF Ids
  <2>5. ASSUME Booked(cur.id)', Clean(cur.id)'
        PROVE  rows'[cur.id].acq = cur.acq /\ rows'[cur.id].nsu = nsuHost
    BY <1>1, <1>3, <1>5, <2>3, <2>4, <2>5 DEF Booked
  <2>6. QED
    BY <2>1, <2>2, <2>5
<1>7. HostFits => \A i \in Ids :
        i # cur.id /\ Booked(i) /\ Clean(i) => rows'[i] = rows[i]
  <2>1. SUFFICES ASSUME HostFits, NEW i \in Ids, i # cur.id, Booked(i), Clean(i)
                 PROVE  rows'[i] = rows[i]
    OBVIOUS
  <2>2. rows[i].nsu < cur.host /\ rows[i].nsu \in Nat /\ cur.host \in Nat
    BY <1>1, <1>2, <2>1, TypedParts DEF IInv, HostInHand, Booked
  <2>3. QED
    BY <1>5, <2>2 DEF Selected
<1>8. OneRequest'
  BY <1>1, <1>2 DEF IInv, OneRequest
<1>9. NoTrace'
  BY <1>1, <1>2, <1>3, <1>6, TypedParts DEF IInv, NoTrace
<1>10. RowsBelowHost'
  BY <1>1, <1>2, <1>3, <1>6, TypedParts DEF IInv, RowsBelowHost
<1>11. RowInHand'
  <2>1. SUFFICES ASSUME Clean(cur.id)'
                 PROVE  /\ rows'[cur.id] # None /\ rows'[cur.id].nsu = nsuHost
                        /\ HostFits => /\ rows'[cur.id].by = cur.id
                                       /\ rows'[cur.id].code = cur.code
                                       /\ rows'[cur.id].acq = cur.acq
    BY <1>1 DEF RowInHand, Booked, HostFits
  <2>2. rows[cur.id] # None /\ rows[cur.id].nsu = nsuHost /\ Clean(cur.id)
    BY <1>1, <1>2, <1>3, <2>1 DEF IInv, RowInHand
  <2>3. HostFits => Selected(cur.id)
    BY <1>1, <1>2, <2>2 DEF IInv, HostInHand, Selected
  <2>4. rows[cur.id] \in Row /\ cur \in Request
    BY <1>2, <1>3, <2>2, TypedParts
  <2>5. HostFits => rows'[cur.id] = Updated(rows[cur.id])
    BY <1>3, <1>4, <2>1, <2>3
  <2>6. HostFits => /\ rows'[cur.id].by = cur.id
                   /\ rows'[cur.id].code = cur.code
                   /\ rows'[cur.id].acq = cur.acq
    BY <2>4, <2>5 DEF Updated, Row
  <2>7. QED
    BY <1>3, <1>5, <2>2, <2>6
<1>12. (HostInHand /\ AcqDistinct)'
  BY <1>1, <1>3 DEF IInv, HostInHand, AcqDistinct
<1>13. AcqInHand'
  BY <1>1, <1>2, <1>3, <1>6 DEF IInv, AcqInHand
<1>14. AcqBounded'
  <2>1. Clean(cur.id)' => cur.acq = nsuAcq
    BY <1>1, <1>2, <1>3 DEF IInv, AcqInHand
  <2>2. QED
    BY <1>1, <1>2, <1>3, <1>6, <2>1, TypedParts DEF IInv, AcqBounded
<1>15. OutcomeIsBooked'
  <2>1. SUFFICES ASSUME HostFits, NEW i \in Ids, Finished(i, "purchase"), Clean(i)
                 PROVE  i # cur.id /\ rows'[i] = rows[i]
    BY <1>1, <1>3 DEF IInv, OutcomeIsBooked, HostFits, Finished, Booked
  <2>2. i # cur.id
    BY <1>2, <2>1 DEF Finished
  <2>3. QED
    BY <1>7, <2>1, <2>2 DEF IInv, OutcomeIsBooked
<1>16. DamageIsContained'
  <2>1. SUFFICES ASSUME HostFits, NEW i \in Ids, rows'[i] # None,
                        rows'[i].by \notin {0, i}, Clean(i)'
                 PROVE  Interrupted(i)
    BY <1>1 DEF DamageIsContained, HostFits, Interrupted
  <2>2. Clean(i)
    BY <1>3, <2>1
  <2>3. CASE rows'[i] = rows[i]
    BY <2>1, <2>2, <2>3 DEF IInv, DamageIsContained
  <2>4. CASE rows'[i] # rows[i]
    <3>1. i # cur.id /\ Selected(i) /\ ~Booked(i)
      BY <1>5, <1>7, <2>1, <2>2, <2>4
    <3>2. outcomes[i] = None
      BY <2>1, <2>2, <3>1 DEF IInv, NoTrace, OutcomeIsBooked, Finished, Selected
    <3>3. i <= received
      BY <1>2, <3>1, TypedParts DEF IInv, NoTrace, Selected, Ids
    <3>4. QED
      BY <3>1, <3>2, <3>3 DEF Interrupted
  <2>5. QED
    BY <2>3, <2>4
<1>17. QED
  BY <1>8, <1>9, <1>10, <1>11, <1>12, <1>13, <1>14, <1>15, <1>16 DEF IInv

\* The request in hand becomes an outcome; its row already says so.
LEMMA ReplyIInv == ASSUME IInv, TypeOK', Reply PROVE IInv'
<1>1. /\ pc = "reply" /\ pc' = "idle" /\ cur' = None /\ received' = received
      /\ nsuHost' = nsuHost /\ nsuAcq' = nsuAcq /\ rows' = rows
      /\ faulted' = faulted
  BY DEF Reply, db
<1>2. /\ TypeOK /\ cur # None /\ cur.id = received /\ outcomes[cur.id] = None
      /\ cur.kind = "reversal" => rows[cur.id] = None
  BY <1>1 DEF IInv, OneRequest
<1>3. /\ cur \in Request /\ cur.id \in Ids
      /\ cur.kind \in {"purchase", "reversal"} /\ cur.acq \in Int
  BY <1>2, TypedParts
<1>4. /\ outcomes'[cur.id] # None /\ outcomes'[cur.id].req = cur
      /\ \A i \in Ids : i # cur.id => outcomes'[i] = outcomes[i]
  <2>1. [req |-> cur, sent |-> Result = 0] \in Outcome
    BY <1>3 DEF Outcome
  <2>2. outcomes \in [Ids -> Outcome \cup {None}]
    BY <1>2 DEF TypeOK
  <2>3. QED
    BY <1>3, <2>1, <2>2, NoneAssumption DEF Reply
<1>5. OneRequest'
  BY <1>1 DEF OneRequest
<1>6. NoTrace'
  BY <1>1, <1>2, <1>3, <1>4, TypedParts DEF IInv, NoTrace, Clean
<1>7. (RowsBelowHost /\ RowInHand /\ HostInHand /\ AcqInHand)'
  BY <1>1 DEF IInv, RowsBelowHost, RowInHand, HostInHand, AcqInHand, Booked, Clean
<1>8. Clean(cur.id) =>
        /\ cur.acq = nsuAcq
        /\ \A i \in Ids : outcomes[i] # None /\ Clean(i) => outcomes[i].req.acq < cur.acq
  BY <1>1, <1>2 DEF IInv, AcqInHand
<1>9. AcqBounded'
  BY <1>1, <1>2, <1>3, <1>4, <1>8, TypedParts DEF IInv, AcqBounded, Booked, Clean
<1>10. AcqDistinct'
  <2>1. SUFFICES ASSUME NEW i \in Ids, NEW j \in Ids, i # j,
                        outcomes'[i] # None, outcomes'[j] # None, Clean(i), Clean(j)
                 PROVE  outcomes'[i].req.acq # outcomes'[j].req.acq
    BY <1>1 DEF AcqDistinct, Clean
  <2>2. CASE i # cur.id /\ j # cur.id
    BY <1>4, <2>1, <2>2 DEF IInv, AcqDistinct
  <2>3. CASE i = cur.id
    BY <1>2, <1>3, <1>4, <1>8, <2>1, <2>3, TypedParts
  <2>4. CASE j = cur.id
    BY <1>2, <1>3, <1>4, <1>8, <2>1, <2>4, TypedParts
  <2>5. QED
    BY <2>2, <2>3, <2>4
<1>11. OutcomeIsBooked'
  <2>1. SUFFICES ASSUME HostFits, NEW i \in Ids, Finished(i, "purchase")', Clean(i)
                 PROVE  /\ Booked(i)
                        /\ rows[i].code = outcomes'[i].req.code
                        /\ rows[i].acq = outcomes'[i].req.acq
    BY <1>1 DEF OutcomeIsBooked, HostFits, Booked, Clean
  <2>2. CASE i = cur.id
    <3>1. cur.kind = "purchase"
      BY <1>4, <2>1, <2>2 DEF Finished
    <3>2. QED
      BY <1>1, <1>2, <1>4, <2>1, <2>2, <3>1 DEF IInv, RowInHand
  <2>3. CASE i # cur.id
    BY <1>4, <2>1, <2>3 DEF IInv, OutcomeIsBooked, Finished
  <2>4. QED
    BY <2>2, <2>3
<1>12. DamageIsContained'
  BY <1>1, <1>2, <1>3, <1>4 DEF IInv, DamageIsContained, Interrupted, Clean, HostFits
<1>13. QED
  BY <1>5, <1>6, <1>7, <1>9, <1>10, <1>11, <1>12 DEF IInv

\* The process dies or starts again: the request in hand is forgotten.
LEMMA ProcessIInv ==
  ASSUME IInv, TypeOK', Crash \/ Restart \/ UNCHANGED vars
  PROVE  IInv'
<1>1. /\ UNCHANGED <<nsuHost, nsuAcq, rows, received, outcomes, faulted>>
      /\ \/ cur' = None /\ pc' \in {"idle", "down"}
         \/ cur' = cur /\ pc' = pc
  BY DEF Crash, Restart, vars, db, IInv, OneRequest
<1>2. (OneRequest /\ NoTrace)'
  BY <1>1 DEF IInv, OneRequest, NoTrace, Clean
<1>3. (RowsBelowHost /\ RowInHand /\ HostInHand)'
  BY <1>1 DEF IInv, RowsBelowHost, RowInHand, HostInHand, Booked, Clean, HostFits
<1>4. (AcqInHand /\ AcqBounded /\ AcqDistinct)'
  BY <1>1 DEF IInv, AcqInHand, AcqBounded, AcqDistinct, Booked, Clean
<1>5. (OutcomeIsBooked /\ DamageIsContained)'
  BY <1>1
  DEF IInv, OutcomeIsBooked, DamageIsContained, Booked, Clean, HostFits,
      Finished, Interrupted
<1>6. QED
  BY <1>2, <1>3, <1>4, <1>5 DEF IInv

\* Every step of the ISM keeps the inductive invariant.
LEMMA NextIInv == IInv /\ [Next]_vars => IInv'
<1> SUFFICES ASSUME IInv, [Next]_vars PROVE IInv'
  OBVIOUS
<1>1. TypeOK /\ TypeOK'
  BY NextTypeOK DEF IInv
<1>2. ASSUME NEW k \in Keys, NEW a \in PurchaseAmounts, NEW p \in Pins \cup {NoPin},
             ReceivePurchase(k, a, p)
      PROVE  IInv'
  <2>1. Arrived("purchase", k, a, p, Blank) \in Request
    BY <1>1, <1>2, NoneAssumption DEF ReceivePurchase, Receive, TypeOK, Arrived
  <2>2. QED
    BY <1>1, <1>2, <2>1, ReceiveIInv DEF ReceivePurchase, Arrived
<1>3. ASSUME NEW k \in Keys, NEW a \in ReversalAmounts, NEW o \in KnownNsus,
             ReceiveReversal(k, a, o)
      PROVE  IInv'
  <2>1. Arrived("reversal", k, a, NoPin, o) \in Request
    BY <1>1, <1>3, NoneAssumption DEF ReceiveReversal, Receive, TypeOK, Arrived
  <2>2. QED
    BY <1>1, <1>3, <2>1, ReceiveIInv DEF ReceiveReversal, Arrived
<1>4. CASE SavePurchase
  BY <1>1, <1>4, SaveIInv
<1>5. ASSUME CheckPin \/ DecidePurchase \/ DecideReversal \/ SelectTable PROVE IInv'
  <2>1. cur # None /\ cur \in Request /\ cur' # None /\ cur' \in Request
    BY <1>1, <1>5, NoneAssumption
    DEF CheckPin, DecidePurchase, DecideReversal, SelectTable, TypeOK
  <2>2. /\ Succeeds \/ Fails
        /\ UNCHANGED <<nsuHost, nsuAcq, rows, outcomes, received>>
    BY <1>5 DEF CheckPin, DecidePurchase, DecideReversal, SelectTable, Succeeds, db
  <2>3. /\ cur'.id = cur.id /\ cur'.kind = cur.kind /\ cur'.host = cur.host
        /\ cur'.acq = cur.acq
    BY <1>5, <2>1 DEF CheckPin, DecidePurchase, DecideReversal, SelectTable, Request
  <2>4. \/ pc = "pin" /\ pc' = "host"
        \/ pc = "decide" /\ pc' = "acq" /\ cur'.code \in Codes
        \/ pc = "stamp" /\ pc' = "update" /\ cur'.code = cur.code
    <3>1. cur.amount \in Nat
      BY <2>1 DEF Request
    <3>2. LastTwoDigits(cur.amount) \in Codes /\ PurchaseCode \in Codes
      BY <3>1, RulesType DEF PurchaseCode, Codes
    <3>3. DecidePurchase \/ DecideReversal => cur'.code \in Codes
      BY <2>1, <3>2 DEF DecidePurchase, DecideReversal, Codes, Request
    <3>4. QED
      BY <1>5, <3>3 DEF CheckPin, DecidePurchase, DecideReversal, SelectTable
  <2>5. QED
    BY <1>1, <2>1, <2>2, <2>3, <2>4, QuietIInv
<1>6. CASE TakeHostNsu
  BY <1>1, <1>6, HostIInv
<1>7. CASE TakeAcqNsu
  BY <1>1, <1>7, AcqIInv
<1>8. CASE UpdatePurchase
  BY <1>1, <1>8, UpdateIInv
<1>9. CASE Reply
  BY <1>1, <1>9, ReplyIInv
<1>10. CASE Crash \/ Restart \/ UNCHANGED vars
  BY <1>1, <1>10, ProcessIInv
<1>11. QED
  BY <1>2, <1>3, <1>4, <1>5, <1>6, <1>7, <1>8, <1>9, <1>10 DEF Next, Purchase, Reversal

\* The inductive invariant always holds.
LEMMA Invariance == Spec => []IInv
BY InitIInv, NextIInv, PTL DEF Spec

\* A purchase carried out without a failed call keeps its row, whatever the
\* purchases after it and their failures do.
THEOREM OutcomesStayBooked == Spec => []OutcomeIsBooked
<1>1. IInv => OutcomeIsBooked
  BY DEF IInv
<1>2. QED
  BY <1>1, Invariance, PTL

\* An UPDATE that writes the wrong row writes one whose own handling had
\* already gone wrong.
THEOREM DamageStaysContained == Spec => []DamageIsContained
<1>1. IInv => DamageIsContained
  BY DEF IInv
<1>2. QED
  BY <1>1, Invariance, PTL

\* Two answers whose database calls all succeeded never share an acquirer
\* NSU, however often the process died in between.
THEOREM AcquirerNsusUnique == Spec => []AcquirerNsuUnique
<1>1. IInv => AcquirerNsuUnique
  BY DEF IInv, AcqDistinct, AcquirerNsuUnique, Answered
<1>2. QED
  BY <1>1, Invariance, PTL

-----------------------------------------------------------------------------
(* The rows a purchase wrote for itself are the journal of Ledger, as long *)
(* as the host NSU cannot outgrow its field.                               *)

HostRoom == FirstHost + MaxRequests < HostFallback

\* Every request received takes at most one host NSU.
HostCounted ==
  /\ nsuHost <= FirstHost + received
  /\ pc \in {"save", "pin", "host"} => nsuHost < FirstHost + received

\* The host NSU always counts the requests that took one, at most.
LEMMA HostCount == Spec => [](TypeOK /\ HostCounted)
<1>1. Init => TypeOK /\ HostCounted
  BY InitTypeOK, ConstantsAssumption DEF Init, HostCounted
<1>2. ASSUME TypeOK, HostCounted, [Next]_vars PROVE TypeOK' /\ HostCounted'
  <2>1. TypeOK'
    BY <1>2, NextTypeOK
  <2>2. nsuHost \in Nat /\ received \in Nat /\ FirstHost \in Nat
    BY <1>2, TypedParts, ConstantsAssumption
  <2>3. AfterAcq \in {"stamp", "reply"}
    BY DEF AfterAcq
  <2>4. HostCounted'
    <3>1. CASE \E req, step : Receive(req, step)
      BY <1>2, <2>2, <3>1 DEF Receive, HostCounted, db
    <3>2. CASE SavePurchase \/ CheckPin
      BY <1>2, <2>2, <3>2 DEF SavePurchase, CheckPin, HostCounted, db
    <3>3. CASE TakeHostNsu
      BY <1>2, <2>2, <3>3 DEF TakeHostNsu, NextHost, HostCounted
    <3>4. CASE DecidePurchase \/ DecideReversal \/ TakeAcqNsu \/ SelectTable \/ UpdatePurchase
      BY <1>2, <2>2, <2>3, <3>4
      DEF DecidePurchase, DecideReversal, TakeAcqNsu, SelectTable,
          UpdatePurchase, HostCounted, db
    <3>5. CASE Reply \/ Crash \/ Restart \/ UNCHANGED vars
      BY <1>2, <2>2, <3>5 DEF Reply, Crash, Restart, vars, HostCounted, db
    <3>6. QED
      BY <1>2, <3>1, <3>2, <3>3, <3>4, <3>5
      DEF Next, Purchase, Reversal, ReceivePurchase, ReceiveReversal
  <2>5. QED
    BY <2>1, <2>4
<1>3. QED
  BY <1>1, <1>2, PTL DEF Spec

\* The journal stays what it is when the clean booked rows do.
LEMMA JournalKept ==
  ASSUME \A i \in Ids : (Booked(i) /\ Clean(i))' <=> Booked(i) /\ Clean(i),
         \A i \in Ids : Booked(i) /\ Clean(i) =>
           rows'[i].code = rows[i].code /\ rows'[i].acq = rows[i].acq
  PROVE  Journal' = Journal
BY DEF Journal

\* No row is the journal's entry for the request in hand before the reply.
LEMMA NotEnteredYet ==
  ASSUME IInv, cur # None, pc # "reply"
  PROVE  ~(Booked(cur.id) /\ Clean(cur.id))
<1>1. cur.id \in Ids /\ cur.id # 0 /\ cur.kind \in {"purchase", "reversal"}
  BY TypedParts DEF IInv, Ids
<1>2. QED
  BY <1>1 DEF IInv, OneRequest, RowInHand, Booked

\* A step that calls the database and leaves rows and outcomes alone.
LEMMA CallStutters ==
  ASSUME IInv, cur # None, pc # "reply", Succeeds \/ Fails,
         rows' = rows, outcomes' = outcomes
  PROVE  Journal' = Journal /\ Told' = Told
<1>1. /\ cur.id \in Ids
      /\ \A i \in Ids : Clean(i)' => Clean(i)
      /\ \A i \in Ids : i # cur.id => (Clean(i)' <=> Clean(i))
  BY CallFrame
<1>2. outcomes[cur.id] = None
  BY DEF IInv, OneRequest
<1>3. ASSUME NEW i \in Ids
      PROVE  (Booked(i) /\ Clean(i))' <=> Booked(i) /\ Clean(i)
  BY <1>1, NotEnteredYet DEF Booked
<1>4. Journal' = Journal
  BY <1>3, JournalKept
<1>5. ASSUME NEW i \in Ids
      PROVE  (Answered(i) /\ Clean(i))' <=> Answered(i) /\ Clean(i)
  BY <1>1, <1>2 DEF Answered
<1>6. Told' = Told
  BY <1>5 DEF Told
<1>7. QED
  BY <1>4, <1>6

\* The INSERT leaves a row nobody has written yet.
LEMMA SaveStutters == ASSUME IInv, SavePurchase PROVE Journal' = Journal /\ Told' = Told
<1>1. /\ pc = "save" /\ cur # None /\ cur' = cur /\ outcomes' = outcomes
      /\ rows[cur.id] = None /\ outcomes[cur.id] = None
      /\ Succeeds \/ Fails
  BY DEF SavePurchase, IInv, OneRequest
<1>2. /\ cur.id \in Ids /\ cur.id # 0
      /\ \A i \in Ids : Clean(i)' => Clean(i)
      /\ \A i \in Ids : i # cur.id => (Clean(i)' <=> Clean(i))
  BY <1>1, CallFrame DEF Ids
<1>3. rows \in [Ids -> Row \cup {None}] /\ cur \in Request
  BY <1>1, TypedParts DEF IInv, TypeOK
<1>4. /\ \A i \in Ids : i # cur.id => rows'[i] = rows[i]
      /\ rows'[cur.id] = None \/ rows'[cur.id].by = 0
  <2>1. ASSUME NEW n \in Nat, Insert(n)
        PROVE  /\ \A i \in Ids : i # cur.id => rows'[i] = rows[i]
               /\ rows'[cur.id].by = 0
    BY <1>2, <1>3, <2>1 DEF Insert
  <2>2. CASE \E n \in Nat : Insert(n)
    BY <2>1, <2>2
  <2>3. CASE UNCHANGED rows
    BY <1>1, <1>2, <2>3
  <2>4. SavedNsu \in Nat
    BY DEF SavedNsu, IInv, TypeOK
  <2>5. QED
    BY <2>2, <2>3, <2>4 DEF SavePurchase
<1>5. ASSUME NEW i \in Ids
      PROVE  (Booked(i) /\ Clean(i))' <=> Booked(i) /\ Clean(i)
  BY <1>1, <1>2, <1>4 DEF Booked
<1>6. Journal' = Journal
  BY <1>1, <1>4, <1>5, JournalKept DEF Booked
<1>7. Told' = Told
  BY <1>1, <1>2 DEF Told, Answered
<1>8. QED
  BY <1>6, <1>7

\* The UPDATE enters the purchase in hand, under a number above the others.
LEMMA UpdateRefines ==
  ASSUME IInv, IInv', HostFits, UpdatePurchase
  PROVE  Abstract!Enter(cur.id) \/ UNCHANGED <<Journal, Told>>
<1>1. /\ pc = "update" /\ pc' = "reply" /\ cur # None /\ cur' = cur
      /\ outcomes' = outcomes /\ outcomes[cur.id] = None /\ nsuHost' = nsuHost
      /\ cur.kind = "purchase" /\ cur.code \in Codes
      /\ Succeeds \/ Fails
  BY DEF UpdatePurchase, IInv, OneRequest
<1>2. /\ cur.id \in Ids /\ cur.acq \in Int
      /\ \A i \in Ids : Clean(i)' => Clean(i)
      /\ \A i \in Ids : i # cur.id => (Clean(i)' <=> Clean(i))
  BY <1>1, CallFrame, TypedParts DEF IInv
<1>3. Told' = Told
  BY <1>1, <1>2 DEF Told, Answered
<1>4. CASE UNCHANGED rows
  BY <1>1, <1>4, CallStutters
<1>5. CASE Succeeds /\ rows' = [i \in Ids |-> IF Selected(i) THEN Updated(rows[i]) ELSE rows[i]]
  <2>1. \A i \in Ids : Clean(i)' <=> Clean(i)
    BY <1>5 DEF Succeeds, Clean
  <2>2. ASSUME NEW i \in Ids, i # cur.id, Booked(i), Clean(i) PROVE rows'[i] = rows[i]
    <3>1. rows[i].nsu < cur.host /\ rows[i].nsu \in Nat /\ cur.host \in Nat
      BY <1>1, <2>2, TypedParts DEF IInv, HostInHand, Booked
    <3>2. QED
      BY <1>5, <3>1 DEF Selected
  <2>3. ASSUME NEW i \in Ids, i # cur.id, Booked(i)' PROVE Booked(i)
    <3>1. CASE Selected(i)
      <4>1. rows[i] \in Row /\ cur \in Request
        BY <1>1, <3>1, TypedParts DEF IInv, Selected
      <4>2. rows'[i].by = cur.id
        BY <1>5, <3>1, <4>1 DEF Updated, Row
      <4>3. QED
        BY <2>3, <4>2 DEF Booked
    <3>2. QED
      BY <1>5, <2>3, <3>1 DEF Booked
  <2>4. ASSUME NEW i \in Ids, i # cur.id PROVE Journal'[i] = Journal[i]
    <3>1. (Booked(i) /\ Clean(i))' <=> Booked(i) /\ Clean(i)
      BY <2>1, <2>2, <2>3, <2>4 DEF Booked
    <3>2. QED
      BY <2>2, <2>4, <3>1 DEF Journal
  <2>5. Journal[cur.id] = None
    BY <1>1, <1>2, NotEnteredYet DEF Journal
  <2>6. Journal \in [Ids -> {Journal[i] : i \in Ids}] /\ Journal' = [i \in Ids |-> Journal'[i]]
    BY DEF Journal
  <2>7. CASE ~Clean(cur.id)
    <3>1. Journal'[cur.id] = None
      BY <1>2, <2>1, <2>7 DEF Journal
    <3>2. Journal' = Journal
      BY <2>4, <2>5, <2>6, <3>1
    <3>3. QED
      BY <1>3, <3>2
  <2>8. CASE Clean(cur.id)
    <3>1. Journal'[cur.id] = [code |-> cur.code, acq |-> cur.acq]
      <4>1. Booked(cur.id)' /\ rows'[cur.id].code = cur.code /\ rows'[cur.id].acq = cur.acq
        BY <1>1, <2>1, <2>8, <1>2 DEF IInv, RowInHand, HostFits
      <4>2. QED
        BY <1>1, <1>2, <2>1, <2>8, <4>1 DEF Journal
    <3>2. Journal'[cur.id] \in Abstract!Entry
      BY <1>1, <1>2, <3>1 DEF Abstract!Entry, Codes
    <3>3. ASSUME NEW q \in Ids, Journal[q] # None
          PROVE  Journal[q].acq # Journal'[cur.id].acq
      <4>1. Booked(q) /\ Clean(q) /\ Journal[q].acq = rows[q].acq
        BY <3>3 DEF Journal
      <4>2. q # cur.id
        BY <2>5, <3>3
      <4>3. rows[q].acq < cur.acq /\ rows[q].acq \in Int
        BY <1>1, <2>8, <4>1, <4>2, TypedParts DEF IInv, AcqInHand, Booked
      <4>4. QED
        BY <1>2, <3>1, <4>1, <4>3
    <3>4. Journal' = [Journal EXCEPT ![cur.id] = Journal'[cur.id]]
      BY <2>4, <2>6
    <3>5. QED
      BY <1>2, <1>3, <2>5, <3>2, <3>3, <3>4 DEF Abstract!Enter
  <2>9. QED
    BY <2>7, <2>8
<1>6. QED
  BY <1>4, <1>5 DEF UpdatePurchase

\* The reply tells an outcome the journal holds.
LEMMA ReplyRefines ==
  ASSUME IInv, HostFits, Reply
  PROVE  Abstract!Tell(cur.id) \/ UNCHANGED <<Journal, Told>>
<1>1. /\ pc = "reply" /\ cur # None /\ rows' = rows /\ faulted' = faulted
      /\ outcomes[cur.id] = None
  BY DEF Reply, db, IInv, OneRequest
<1>2. cur \in Request /\ cur.id \in Ids /\ cur.kind \in {"purchase", "reversal"}
  BY <1>1, TypedParts DEF IInv
<1>3. Journal' = Journal
  BY <1>1 DEF Journal, Booked, Clean
<1>4. /\ outcomes'[cur.id] # None
      /\ outcomes'[cur.id].req = cur /\ outcomes'[cur.id].sent = (Result = 0)
      /\ \A i \in Ids : i # cur.id => outcomes'[i] = outcomes[i]
  <2>1. [req |-> cur, sent |-> Result = 0] \in Outcome
    BY <1>2 DEF Outcome
  <2>2. outcomes \in [Ids -> Outcome \cup {None}]
    BY DEF IInv, TypeOK
  <2>3. QED
    BY <1>2, <2>1, <2>2, NoneAssumption DEF Reply
<1>5. CASE Result = 0 /\ Clean(cur.id) /\ cur.kind = "purchase"
  <2>1. Journal[cur.id] # None
    <3>1. Booked(cur.id) /\ Journal[cur.id] = [code |-> rows[cur.id].code, acq |-> rows[cur.id].acq]
      BY <1>1, <1>2, <1>5 DEF IInv, RowInHand, Journal
    <3>2. [code |-> rows[cur.id].code, acq |-> rows[cur.id].acq] \in Booking
      BY <1>2, <3>1, TypedParts DEF IInv, Booked, Row, Booking
    <3>3. QED
      BY <3>1, <3>2, NoneAssumption
  <2>2. cur.id \notin Told
    BY <1>1 DEF Told, Answered
  <2>3. Told' = Told \cup {cur.id}
    BY <1>1, <1>2, <1>4, <1>5 DEF Told, Answered, Clean
  <2>4. QED
    BY <1>3, <2>1, <2>2, <2>3 DEF Abstract!Tell
<1>6. CASE ~(Result = 0 /\ Clean(cur.id) /\ cur.kind = "purchase")
  <2>1. Told' = Told
    BY <1>1, <1>2, <1>4, <1>6 DEF Told, Answered, Clean
  <2>2. QED
    BY <1>3, <2>1
<1>7. QED
  BY <1>5, <1>6

\* Every step enters a purchase, tells one, or leaves the ledger alone.
LEMMA StepRefines ==
  ASSUME IInv, IInv', HostFits, [Next]_vars
  PROVE  [Abstract!LedgerNext]_(Abstract!ledgerVars)
<1> USE DEF Abstract!LedgerNext, Abstract!ledgerVars
<1>1. CASE \E req, step : Receive(req, step)
  <2>1. UNCHANGED <<rows, outcomes, faulted>>
    BY <1>1 DEF Receive, db
  <2>2. QED
    BY <2>1 DEF Journal, Told, Booked, Clean, Answered
<1>2. CASE SavePurchase
  BY <1>2, SaveStutters
<1>3. CASE \/ CheckPin \/ DecidePurchase \/ DecideReversal \/ SelectTable
           \/ TakeHostNsu \/ TakeAcqNsu
  <2>1. /\ pc \in {"pin", "host", "decide", "acq", "stamp"}
        /\ rows' = rows /\ outcomes' = outcomes
        /\ Succeeds \/ Fails
    BY <1>3
    DEF CheckPin, DecidePurchase, DecideReversal, SelectTable, TakeHostNsu,
        TakeAcqNsu, Succeeds, db
  <2>2. cur # None
    BY <2>1 DEF IInv, OneRequest
  <2>3. QED
    BY <2>1, <2>2, CallStutters
<1>4. CASE UpdatePurchase
  <2>1. cur.id \in Ids
    BY <1>4, TypedParts DEF IInv, OneRequest, UpdatePurchase
  <2>2. QED
    BY <1>4, <2>1, UpdateRefines
<1>5. CASE Reply
  <2>1. cur.id \in Ids
    BY <1>5, TypedParts DEF IInv, OneRequest, Reply
  <2>2. QED
    BY <1>5, <2>1, ReplyRefines
<1>6. CASE Crash \/ Restart \/ UNCHANGED vars
  <2>1. UNCHANGED <<rows, outcomes, faulted>>
    BY <1>6 DEF Crash, Restart, vars, db
  <2>2. QED
    BY <2>1 DEF Journal, Told, Booked, Clean, Answered
<1>7. QED
  BY <1>1, <1>2, <1>3, <1>4, <1>5, <1>6
  DEF Next, Purchase, Reversal, ReceivePurchase, ReceiveReversal

\* The steps of the handlers implement the journal: one entry per purchase,
\* under an acquirer NSU of its own, never changed, and told only once it is
\* there.
THEOREM LedgerImplemented == ASSUME HostRoom PROVE Spec => ImplementsLedger
<1>1. TypeOK /\ HostCounted => HostFits
  BY TypedParts, ConstantsAssumption
  DEF HostRoom, HostCounted, HostFits, HostFallback, TypeOK
<1>2. Init => Abstract!LedgerInit
  BY DEF Init, Abstract!LedgerInit, Journal, Told, Booked, Answered
<1>3. IInv /\ IInv' /\ HostFits /\ [Next]_vars => [Abstract!LedgerNext]_(Abstract!ledgerVars)
  BY StepRefines
<1>4. QED
  BY <1>1, <1>2, <1>3, HostCount, Invariance, PTL
  DEF Spec, ImplementsLedger, Abstract!LedgerSpec

-----------------------------------------------------------------------------
(* What a reversal is told, and what a PIN decides: added to the facts     *)
(* about rows and numbers is what the request in hand already owes its own *)
(* fields.  First what a step leaves of it, the rows and the outcomes.     *)

\* The fields no step of a handler changes.
SameRequest ==
  /\ cur'.id = cur.id /\ cur'.kind = cur.kind /\ cur'.key = cur.key
  /\ cur'.amount = cur.amount /\ cur'.pin = cur.pin /\ cur'.orig = cur.orig

\* A row, once inserted, keeps its key; the new one has that of its request.
KeysStay ==
  \A i \in Ids :
    /\ rows[i] # None => rows'[i] # None /\ rows'[i].key = rows[i].key
    /\ rows[i] = None /\ rows'[i] # None =>
         cur # None /\ i = cur.id /\ rows'[i].key = cur.key

Arrives ==
  /\ cur = None /\ cur' # None /\ cur'.id = received' /\ received' = received + 1
  /\ ~cur'.checked /\ pc' = (IF cur'.kind = "purchase" THEN "save" ELSE "host")
  /\ UNCHANGED <<rows, outcomes, faulted, nsuHost>>

Goes ==
  /\ cur # None /\ cur' # None /\ SameRequest /\ KeysStay
  /\ UNCHANGED <<received, outcomes>>
  /\ Succeeds \/ Fails \/ UNCHANGED faulted
  /\ nsuHost' \in {nsuHost, nsuHost + 1}

Ends ==
  /\ cur' = None
  /\ UNCHANGED <<rows, outcomes, faulted, nsuHost, received>>

\* Every step is the end of a handler, its beginning, or one of its calls.
LEMMA StepsOfTheHandler ==
  ASSUME IInv, [Next]_vars, TypeOK'
  PROVE  UNCHANGED vars \/ Arrives \/ Goes \/ Reply \/ Ends
<1>1. TypeOK
  BY DEF IInv
<1>2. ASSUME NEW req \in Request, NEW step \in {"save", "host"}, Receive(req, step),
             req.id = received + 1, ~req.checked,
             step = IF req.kind = "purchase" THEN "save" ELSE "host"
      PROVE  Arrives
  <2>1. cur = None /\ req # None
    BY <1>2, NoneAssumption DEF Receive, IInv, OneRequest
  <2>2. QED
    BY <1>2, <2>1 DEF Receive, Arrives, db
<1>3. CASE \E k \in Keys, a \in PurchaseAmounts, p \in Pins \cup {NoPin} :
             ReceivePurchase(k, a, p)
  <2>1. PICK k \in Keys, a \in PurchaseAmounts, p \in Pins \cup {NoPin} :
          ReceivePurchase(k, a, p)
    BY <1>3
  <2>2. Arrived("purchase", k, a, p, Blank) \in Request
    BY <1>1, <2>1, ConstantsAssumption
    DEF ReceivePurchase, Receive, TypeOK, Arrived, Request, Ids, Blank
  <2>3. Arrives
    BY <1>2, <2>1, <2>2 DEF ReceivePurchase, Arrived
  <2>4. QED
    BY <2>3
<1>4. CASE \E k \in Keys, a \in ReversalAmounts, o \in KnownNsus : ReceiveReversal(k, a, o)
  <2>1. PICK k \in Keys, a \in ReversalAmounts, o \in KnownNsus : ReceiveReversal(k, a, o)
    BY <1>4
  <2>2. Arrived("reversal", k, a, NoPin, o) \in Request
    <3>1. cur' = Arrived("reversal", k, a, NoPin, o) /\ pc' = "host" /\ TypeOK'
      BY <2>1 DEF ReceiveReversal, Receive
    <3>2. QED
      BY <3>1 DEF TypeOK
  <2>3. Arrives
    BY <1>2, <2>1, <2>2 DEF ReceiveReversal, Arrived
  <2>4. QED
    BY <2>3
<1>5. CASE SavePurchase \/ CheckPin \/ TakeHostNsu \/ DecidePurchase \/ DecideReversal
           \/ TakeAcqNsu \/ SelectTable \/ UpdatePurchase
  <2>1. cur # None /\ cur \in Request /\ cur.id \in Ids /\ cur.key \in Keys
    <3>1. pc \notin {"idle", "down"}
      BY <1>5 DEF SavePurchase, CheckPin, TakeHostNsu, DecidePurchase, DecideReversal,
                  TakeAcqNsu, SelectTable, UpdatePurchase
    <3>2. cur \in Request
      BY <1>1, <3>1 DEF TypeOK
    <3>3. QED
      BY <3>2, NoneAssumption DEF Request
  <2>2. cur' \in Request
    <3>1. pc' \notin {"idle", "down"}
      BY <1>5, <2>1
      DEF SavePurchase, CheckPin, TakeHostNsu, DecidePurchase, DecideReversal,
          TakeAcqNsu, AfterAcq, SelectTable, UpdatePurchase
    <3>2. QED
      BY <3>1 DEF TypeOK
  <2>3. SameRequest
    <3>1. CASE SavePurchase \/ SelectTable \/ UpdatePurchase
      BY <3>1 DEF SavePurchase, SelectTable, UpdatePurchase, SameRequest
    <3>2. CASE CheckPin
      BY <2>1, <3>2 DEF CheckPin, SameRequest, Request
    <3>3. CASE TakeHostNsu
      BY <2>1, <3>3 DEF TakeHostNsu, SameRequest, Request
    <3>4. CASE DecidePurchase \/ DecideReversal
      BY <2>1, <3>4 DEF DecidePurchase, DecideReversal, SameRequest, Request
    <3>5. CASE TakeAcqNsu
      BY <2>1, <3>5 DEF TakeAcqNsu, SameRequest, Request
    <3>6. QED
      BY <1>5, <3>1, <3>2, <3>3, <3>4, <3>5
  <2>4. KeysStay
    <3>1. CASE SavePurchase
      <4>1. rows \in [Ids -> Row \cup {None}] /\ rows[cur.id] = None
        BY <1>1, <2>1, <3>1 DEF TypeOK, IInv, OneRequest, SavePurchase
      <4>2. \A n \in Nat : [key |-> cur.key, nsu |-> n, code |-> Blank, acq |-> Blank, by |-> 0] \in Row
        BY <2>1 DEF Row
      <4>3. CASE UNCHANGED rows
        BY <4>3 DEF KeysStay
      <4>4. ASSUME NEW n \in Nat, Insert(n) PROVE KeysStay
        BY <2>1, <4>1, <4>4 DEF KeysStay, Insert
      <4>5. QED
        BY <1>1, <3>1, <4>3, <4>4 DEF SavePurchase, SavedNsu, TypeOK
    <3>2. CASE UpdatePurchase
      <4>1. CASE UNCHANGED rows
        BY <4>1 DEF KeysStay
      <4>2. CASE rows' = [i \in Ids |-> IF Selected(i) THEN Updated(rows[i]) ELSE rows[i]]
        <5>1. ASSUME NEW row \in Row PROVE Updated(row) \in Row /\ Updated(row).key = row.key
          <6>1. cur.code \in Codes \cup {Blank} /\ cur.acq \in Nat \cup {Blank}
            BY <2>1 DEF Request
          <6>2. QED
            BY <2>1, <6>1 DEF Updated, Row
        <5>2. \A i \in Ids : rows[i] # None => rows[i] \in Row
          BY <1>1 DEF TypeOK
        <5>3. QED
          BY <4>2, <5>1, <5>2, NoneAssumption DEF KeysStay, Selected
      <4>3. QED
        BY <3>2, <4>1, <4>2 DEF UpdatePurchase
    <3>3. CASE UNCHANGED rows
      BY <3>3 DEF KeysStay
    <3>4. QED
      BY <1>5, <3>1, <3>2, <3>3
      DEF CheckPin, TakeHostNsu, DecidePurchase, DecideReversal, TakeAcqNsu,
          SelectTable, db
  <2>5. UNCHANGED <<received, outcomes>>
    BY <1>5 DEF SavePurchase, CheckPin, TakeHostNsu, DecidePurchase, DecideReversal,
                TakeAcqNsu, SelectTable, UpdatePurchase
  <2>6. Succeeds \/ Fails \/ UNCHANGED faulted
    BY <1>5 DEF SavePurchase, CheckPin, TakeHostNsu, DecidePurchase, DecideReversal,
                TakeAcqNsu, SelectTable, UpdatePurchase
  <2>7. nsuHost' \in {nsuHost, nsuHost + 1}
    BY <1>5 DEF SavePurchase, CheckPin, TakeHostNsu, NextHost, DecidePurchase,
                DecideReversal, TakeAcqNsu, SelectTable, UpdatePurchase, db
  <2>8. Goes
    BY <2>1, <2>2, <2>3, <2>4, <2>5, <2>6, <2>7, NoneAssumption DEF Goes
  <2>9. QED
    BY <2>8
<1>6. CASE Crash
  BY <1>6 DEF Crash, Ends, db
<1>7. CASE Restart
  BY <1>7 DEF Restart, Ends, db, IInv, OneRequest
<1>8. QED
  BY <1>3, <1>4, <1>5, <1>6, <1>7 DEF Next, Purchase, Reversal

-----------------------------------------------------------------------------
(* The PIN.                                                                *)

\* What the purchase in hand will be told of its PIN.
PinInHand ==
  cur # None /\ cur.kind = "purchase" =>
    /\ pc \in {"save", "pin"} => ~cur.checked
    /\ pc \in {"host", "decide"} /\ cur.checked =>
         (cur.code = 55 <=> PinRefused(cur.pin))
    /\ pc \in {"acq", "stamp", "update", "reply"} /\ cur.checked =>
         CodedPurchase(cur.amount) \/ (cur.code = 55 <=> PinRefused(cur.pin))

\* CheckPin decides, DecidePurchase keeps the refusal unless the amount asks
\* for a code of its own, and no later call touches the code.
LEMMA PinStays ==
  ASSUME IInv, PinInHand, CheckedPinDecides, [Next]_vars, TypeOK'
  PROVE  PinInHand' /\ CheckedPinDecides'
<1>1. TypeOK
  BY DEF IInv
<1>2. CASE UNCHANGED vars
  BY <1>2 DEF vars, PinInHand, CheckedPinDecides, Finished
<1>3. CASE Arrives
  BY <1>3 DEF Arrives, PinInHand, CheckedPinDecides, Finished
<1>4. CASE Ends
  BY <1>4 DEF Ends, PinInHand, CheckedPinDecides, Finished
<1>5. CASE Goes
  <2>1. CheckedPinDecides'
    BY <1>5 DEF Goes, CheckedPinDecides, Finished
  <2>2. cur \in Request /\ cur # None /\ cur.id \in Ids
    BY <1>1, <1>5, TypedParts DEF Goes
  <2>3. PinInHand'
    <3>1. CASE SavePurchase
      BY <3>1 DEF SavePurchase, PinInHand
    <3>2. CASE CheckPin
      <4>1. CASE cur.pin = NoPin /\ UNCHANGED cur
        BY <3>2, <4>1 DEF CheckPin, PinInHand
      <4>2. ASSUME NEW reply \in HsmReply, NEW c \in PinVerdict(reply),
                   cur' = [cur EXCEPT !.code = c, !.checked = (reply = "answer")]
            PROVE  PinInHand'
        <5>1. cur'.code = c /\ (cur'.checked <=> reply = "answer") /\ cur'.pin = cur.pin
          BY <2>2, <4>2 DEF Request
        <5>2. reply = "answer" => (c = 55 <=> PinRefused(cur.pin))
          BY <4>2 DEF PinVerdict, Blank
        <5>3. QED
          BY <3>2, <5>1, <5>2 DEF CheckPin, PinInHand
      <4>3. QED
        BY <3>2, <4>1, <4>2 DEF CheckPin
    <3>3. CASE TakeHostNsu
      <4>1. cur'.code = cur.code /\ cur'.checked = cur.checked
        BY <2>2, <3>3 DEF TakeHostNsu, Request
      <4>2. QED
        BY <1>5, <3>3, <4>1 DEF TakeHostNsu, PinInHand, Goes, SameRequest
    <3>4. CASE DecidePurchase
      <4>1. cur'.code = PurchaseCode /\ cur'.checked = cur.checked
        BY <2>2, <3>4 DEF DecidePurchase, Request
      <4>2. CodedPurchase(cur.amount) \/ (PurchaseCode = 55 <=> cur.code = 55)
        BY DEF PurchaseCode
      <4>3. QED
        BY <1>5, <3>4, <4>1, <4>2 DEF DecidePurchase, PinInHand, Goes, SameRequest
    <3>5. CASE TakeAcqNsu
      <4>1. cur'.code = cur.code /\ cur'.checked = cur.checked
        BY <2>2, <3>5 DEF TakeAcqNsu, Request
      <4>2. AfterAcq \in {"stamp", "reply"}
        BY DEF AfterAcq
      <4>3. QED
        BY <1>5, <3>5, <4>1, <4>2 DEF TakeAcqNsu, PinInHand, Goes, SameRequest
    <3>6. CASE SelectTable \/ UpdatePurchase
      BY <3>6 DEF SelectTable, UpdatePurchase, PinInHand
    <3>7. CASE DecideReversal
      BY <1>5, <3>7 DEF DecideReversal, PinInHand, Goes, SameRequest
    <3>8. pc \notin {"idle", "down"}
      BY <2>2 DEF IInv, OneRequest
    <3>9. CASE UNCHANGED vars
      BY <3>9 DEF vars, PinInHand
    <3>10. QED
      BY <1>5, <3>1, <3>2, <3>3, <3>4, <3>5, <3>6, <3>7, <3>8, <3>9
      DEF Next, Purchase, Reversal, ReceivePurchase, ReceiveReversal, Receive,
          Reply, Crash, Restart, Goes
  <2>4. QED
    BY <2>1, <2>3
<1>6. CASE Reply
  <2>1. cur # None /\ cur.id \in Ids /\ cur' = None /\ pc = "reply"
    BY <1>1, <1>6, TypedParts DEF Reply, IInv, OneRequest
  <2>2. outcomes' = [outcomes EXCEPT ![cur.id] = [req |-> cur, sent |-> Result = 0]]
    BY <1>6 DEF Reply
  <2>3. \A i \in Ids : outcomes'[i] = IF i = cur.id THEN [req |-> cur, sent |-> Result = 0]
                                                    ELSE outcomes[i]
    BY <1>1, <2>2 DEF TypeOK
  <2>4. QED
    BY <2>1, <2>3 DEF PinInHand, CheckedPinDecides, Finished
<1>7. QED
  BY <1>2, <1>3, <1>4, <1>5, <1>6, StepsOfTheHandler

\* A PIN the HSM answered on decides the code of its purchase, for any PINs,
\* any amounts and any number of requests, whoever dies in between.
THEOREM CheckedPinsDecide == Spec => []CheckedPinDecides
<1>1. Init => PinInHand /\ CheckedPinDecides
  BY DEF Init, PinInHand, CheckedPinDecides, Finished
<1>2. IInv /\ IInv' => TypeOK'
  BY DEF IInv
<1>3. IInv /\ IInv' /\ PinInHand /\ CheckedPinDecides /\ [Next]_vars
        => PinInHand' /\ CheckedPinDecides'
  BY <1>2, PinStays
<1>4. QED
  BY <1>1, <1>3, Invariance, PTL DEF Spec

-----------------------------------------------------------------------------
(* Reversals.                                                              *)

\* A row has the key of the purchase that inserted it.
KeysMatch ==
  \A i \in Ids : rows[i] # None =>
    /\ outcomes[i] # None => rows[i].key = outcomes[i].req.key
    /\ cur # None /\ cur.id = i => rows[i].key = cur.key

\* Who ended has an acquirer NSU.
AcqTaken ==
  /\ \A i \in Ids : outcomes[i] # None => outcomes[i].req.acq \in Nat
  /\ cur # None /\ pc \in {"stamp", "update", "reply"} => cur.acq \in Nat

\* Keys stay where they are, and TakeAcqNsu takes a number in any case.
LEMMA KeysAndNumbersStay ==
  ASSUME IInv, KeysMatch, AcqTaken, [Next]_vars, TypeOK'
  PROVE  KeysMatch' /\ AcqTaken'
<1>1. TypeOK
  BY DEF IInv
<1>2. CASE UNCHANGED vars
  BY <1>2 DEF vars, KeysMatch, AcqTaken
<1>3. CASE Arrives
  <2>1. \A i \in Ids : rows[i] # None => i <= received
    BY <1>1, TypedParts DEF IInv, NoTrace, Ids
  <2>2. received \in Nat
    BY <1>1, TypedParts
  <2>3. KeysMatch'
    BY <1>3, <2>1, <2>2 DEF Arrives, KeysMatch, Ids
  <2>4. QED
    BY <1>3, <2>3 DEF Arrives, AcqTaken
<1>4. CASE Ends
  BY <1>4 DEF Ends, KeysMatch, AcqTaken
<1>5. CASE Goes
  <2>1. cur # None /\ cur \in Request /\ cur.id \in Ids /\ outcomes[cur.id] = None
    BY <1>1, <1>5, TypedParts DEF Goes, IInv, OneRequest
  <2>2. KeysMatch'
    BY <1>5, <2>1 DEF Goes, SameRequest, KeysStay, KeysMatch
  <2>3. cur' # None /\ pc' \in {"stamp", "update", "reply"} => cur'.acq \in Nat
    <3>1. CASE TakeAcqNsu
      BY <1>1, <2>1, <3>1, ConstantsAssumption DEF TakeAcqNsu, Request, TypeOK
    <3>2. CASE SelectTable \/ UpdatePurchase
      BY <2>1, <3>2 DEF SelectTable, UpdatePurchase, AcqTaken
    <3>3. QED
      BY <1>2, <1>5, <2>1, <3>1, <3>2
      DEF Next, Purchase, Reversal, ReceivePurchase, ReceiveReversal, Receive,
          SavePurchase, CheckPin, TakeHostNsu, DecidePurchase, DecideReversal,
          Reply, Crash, Restart, Goes, AcqTaken, vars
  <2>4. QED
    BY <1>5, <2>2, <2>3 DEF Goes, AcqTaken
<1>6. CASE Reply
  <2>1. cur # None /\ cur.id \in Ids /\ cur' = None /\ pc = "reply"
    BY <1>1, <1>6, TypedParts DEF Reply, IInv, OneRequest
  <2>2. outcomes' = [outcomes EXCEPT ![cur.id] = [req |-> cur, sent |-> Result = 0]]
    BY <1>6 DEF Reply
  <2>3. \A i \in Ids : outcomes'[i] = IF i = cur.id THEN [req |-> cur, sent |-> Result = 0]
                                                    ELSE outcomes[i]
    BY <1>1, <2>2 DEF TypeOK
  <2>4. rows' = rows
    BY <1>6 DEF Reply, db
  <2>5. QED
    BY <2>1, <2>3, <2>4 DEF KeysMatch, AcqTaken
<1>7. QED
  BY <1>2, <1>3, <1>4, <1>5, <1>6, StepsOfTheHandler

\* A clean reversal in hand that names a finished clean purchase has found it.
FoundInHand ==
  /\ HostFits /\ cur # None /\ cur.kind = "reversal"
  /\ pc \in {"acq", "reply"} /\ Clean(cur.id)
  => \A p \in Ids :
       /\ Finished(p, "purchase") /\ Clean(p)
       /\ cur.key = outcomes[p].req.key
       /\ cur.orig = outcomes[p].req.acq
       => CodedReversal(cur.amount) \/ cur.code = 0

\* A row whose purchase did not reach its end, or not in good order.
Lost(p, k) == rows[p] # None /\ rows[p].key = k /\ (Interrupted(p) \/ ~Clean(p))

\* A reversal in hand that named no acquirer NSU has found such rows only.
LostInHand ==
  /\ HostFits /\ cur # None /\ cur.kind = "reversal"
  /\ pc \in {"acq", "reply"} /\ cur.orig = Blank /\ cur.code = 0
  => CodedReversal(cur.amount) \/ \E p \in 1 .. (cur.id - 1) : Lost(p, cur.key)

\* The counter never comes back under its limit.
LEMMA LimitsStay ==
  ASSUME TypeOK, nsuHost' \in {nsuHost, nsuHost + 1}
  PROVE  HostFits' => HostFits
BY ConstantsAssumption DEF TypeOK, HostFits, HostFallback

\* Who is lost stays lost.
LEMMA LostStays ==
  ASSUME IInv, [Next]_vars, TypeOK', NEW p \in Ids, NEW k \in Keys, Lost(p, k)
  PROVE  Lost(p, k)'
<1>1. TypeOK
  BY DEF IInv
<1>2. CASE UNCHANGED vars
  BY <1>2 DEF vars, Lost, Interrupted, Clean
<1>3. CASE Arrives
  <2>1. p <= received
    BY <1>1, TypedParts DEF Lost, IInv, NoTrace, Ids
  <2>2. QED
    BY <1>1, <1>3, <2>1, TypedParts DEF Arrives, Lost, Interrupted, Clean, Ids
<1>4. CASE Ends
  BY <1>4 DEF Ends, Lost, Interrupted, Clean
<1>5. CASE Goes
  <2>1. cur.id \in Ids
    BY <1>1, <1>5, TypedParts DEF Goes
  <2>2. \A i \in Ids : ~Clean(i) => ~Clean(i)'
    BY <1>5 DEF Goes, Succeeds, Fails, Clean
  <2>3. QED
    BY <1>5, <2>2 DEF Goes, SameRequest, KeysStay, Lost, Interrupted
<1>6. CASE Reply
  <2>1. cur # None /\ cur.id \in Ids /\ cur' = None /\ rows' = rows /\ faulted' = faulted
        /\ received' = received
    BY <1>1, <1>6, TypedParts DEF Reply, IInv, OneRequest, db
  <2>2. \A i \in Ids : i # cur.id => outcomes'[i] = outcomes[i]
    BY <1>1, <1>6 DEF Reply, TypeOK
  <2>3. QED
    BY <2>1, <2>2 DEF Lost, Interrupted, Clean
<1>7. QED
  BY <1>2, <1>3, <1>4, <1>5, <1>6, StepsOfTheHandler

\* Before a given request, that is.
LEMMA LostBefore ==
  ASSUME IInv, [Next]_vars, TypeOK', NEW i \in Ids, NEW k \in Keys,
         \E p \in 1 .. (i - 1) : Lost(p, k)
  PROVE  \E p \in 1 .. (i - 1) : Lost(p, k)'
<1>1. PICK p \in 1 .. (i - 1) : Lost(p, k)
  OBVIOUS
<1>2. p \in Ids
  BY ConstantsAssumption DEF Ids
<1>3. QED
  BY <1>1, <1>2, LostStays

\* DecideReversal looks up what OutcomeIsBooked says is there.
LEMMA DecisionFinds ==
  ASSUME IInv, KeysMatch, AcqTaken, DecideReversal, TypeOK'
  PROVE  FoundInHand' /\ LostInHand'
<1>1. TypeOK
  BY DEF IInv
<1>2. cur \in Request /\ cur # None /\ cur.id \in Ids /\ cur.kind = "reversal"
      /\ rows[cur.id] = None /\ cur.id = received /\ cur.amount \in Nat
  BY <1>1, NoneAssumption DEF DecideReversal, TypeOK, Request, IInv, OneRequest
<1>3. /\ cur' # None /\ cur' \in Request /\ cur'.id = cur.id /\ cur'.kind = cur.kind
      /\ cur'.key = cur.key /\ cur'.amount = cur.amount /\ cur'.orig = cur.orig
      /\ UNCHANGED <<rows, outcomes, nsuHost, received>>
  <2>1. pc' = "acq" /\ UNCHANGED <<rows, outcomes, nsuHost, received>>
    BY DEF DecideReversal, db
  <2>2. cur' \in Request
    BY <2>1 DEF TypeOK
  <2>3. QED
    BY <1>2, <2>1, <2>2, NoneAssumption DEF DecideReversal, Request
<1>4. \/ CodedReversal(cur.amount)
      \/ faulted' = faulted /\ cur'.code = IF \E i \in Ids : Original(i) THEN 0 ELSE 56
      \/ cur'.code = 56 /\ cur.id \in faulted'
  BY <1>2 DEF DecideReversal, Succeeds, Fails, Request
<1>5. (HostFits' <=> HostFits) /\ \A i \in Ids : Clean(i)' => Clean(i)
  BY <1>3 DEF HostFits, Clean, DecideReversal, Succeeds, Fails
<1>6. FoundInHand'
  <2>1. SUFFICES ASSUME HostFits, Clean(cur.id)', NEW p \in Ids,
                        Finished(p, "purchase"), Clean(p),
                        cur.key = outcomes[p].req.key, cur.orig = outcomes[p].req.acq
                 PROVE  CodedReversal(cur.amount) \/ cur'.code = 0
    BY <1>3, <1>5 DEF FoundInHand, Finished
  <2>2. rows[p] # None /\ rows[p].acq = outcomes[p].req.acq
    BY <2>1 DEF IInv, OutcomeIsBooked, Booked
  <2>3. rows[p].key = outcomes[p].req.key
    BY <2>1, <2>2 DEF KeysMatch, Finished
  <2>4. Original(p)
    BY <2>1, <2>2, <2>3 DEF Original
  <2>5. cur.id \notin faulted'
    BY <1>3, <2>1 DEF Clean
  <2>6. QED
    BY <1>4, <2>4, <2>5
<1>7. LostInHand'
  <2>1. SUFFICES ASSUME HostFits, cur.orig = Blank, cur'.code = 0, ~CodedReversal(cur.amount)
                 PROVE  \E p \in 1 .. (cur.id - 1) : Lost(p, cur.key)'
    BY <1>3, <1>5 DEF LostInHand
  <2>2. PICK p \in Ids : Original(p)
    BY <1>4, <2>1
  <2>3. rows[p] # None /\ rows[p].key = cur.key /\ rows[p].acq = Blank
    BY <2>1, <2>2 DEF Original
  <2>4. p \in 1 .. (cur.id - 1)
    BY <1>1, <1>2, <2>3, TypedParts DEF IInv, NoTrace, Ids
  <2>5. Interrupted(p) \/ ~Clean(p)
    <3>1. SUFFICES ASSUME outcomes[p] # None, Clean(p) PROVE FALSE
      BY <1>2, <2>4 DEF Interrupted, Ids
    <3>2. Finished(p, "purchase")
      BY <2>3, <3>1 DEF IInv, NoTrace, Finished
    <3>3. rows[p].acq = outcomes[p].req.acq
      BY <2>1, <3>1, <3>2 DEF IInv, OutcomeIsBooked
    <3>4. QED
      BY <2>3, <3>1, <3>3 DEF AcqTaken, Blank
  <2>6. Interrupted(p)' \/ ~Clean(p)'
    BY <1>3, <1>5, <2>4, <2>5 DEF Interrupted, Ids
  <2>7. QED
    BY <1>3, <2>3, <2>4, <2>6 DEF Lost
<1>8. QED
  BY <1>6, <1>7

\* What a reversal has found stays found until it is answered.
LEMMA FindingsStay ==
  ASSUME IInv, KeysMatch, AcqTaken, FoundInHand, LostInHand, [Next]_vars, TypeOK'
  PROVE  FoundInHand' /\ LostInHand'
<1>1. TypeOK
  BY DEF IInv
<1>2. CASE cur' = None \/ pc' \notin {"acq", "reply"} \/ cur'.kind = "purchase"
  BY <1>2 DEF FoundInHand, LostInHand
<1>3. CASE UNCHANGED vars
  BY <1>3 DEF vars, FoundInHand, LostInHand, HostFits, Clean, Finished, Lost, Interrupted
<1>4. CASE DecideReversal
  BY <1>4, DecisionFinds
<1>5. CASE TakeAcqNsu /\ cur.kind = "reversal"
  <2>1. cur # None /\ cur \in Request /\ cur.id \in Ids /\ pc = "acq"
    BY <1>1, <1>5, NoneAssumption DEF TakeAcqNsu, TypeOK, Request
  <2>2. cur' # None /\ pc' = "reply" /\ cur'.id = cur.id /\ cur'.kind = cur.kind
        /\ cur'.key = cur.key /\ cur'.amount = cur.amount /\ cur'.orig = cur.orig
        /\ cur'.code = cur.code
    <3>1. pc' = "reply"
      BY <1>5 DEF TakeAcqNsu, AfterAcq
    <3>2. cur' \in Request
      BY <3>1 DEF TypeOK
    <3>3. QED
      BY <1>5, <2>1, <3>1, <3>2, NoneAssumption DEF TakeAcqNsu, Request
  <2>3. UNCHANGED <<rows, outcomes, nsuHost, received>>
        /\ \A i \in Ids : Clean(i)' => Clean(i)
    BY <1>5 DEF TakeAcqNsu, Succeeds, Fails, Clean
  <2>4. (HostFits' <=> HostFits) /\ \A i \in Ids : outcomes'[i] = outcomes[i]
    BY <2>3 DEF HostFits
  <2>5. FoundInHand'
    BY <1>5, <2>1, <2>2, <2>3, <2>4 DEF FoundInHand, Finished
  <2>6. ASSUME HostFits', cur.orig = Blank, cur.code = 0, ~CodedReversal(cur.amount)
        PROVE  \E p \in 1 .. (cur.id - 1) : Lost(p, cur.key)'
    <3>1. PICK i \in Ids, k \in Keys : i = cur.id /\ k = cur.key
      BY <2>1 DEF Request
    <3>2. \E p \in 1 .. (i - 1) : Lost(p, k)
      BY <1>5, <2>1, <2>4, <2>6, <3>1 DEF LostInHand
    <3>3. \E p \in 1 .. (i - 1) : Lost(p, k)'
      BY <3>2, LostBefore
    <3>4. cur'.id = i /\ cur'.key = k
      BY <2>2, <3>1
    <3>5. QED
      BY <3>1, <3>3, <3>4 DEF Lost
  <2>7. LostInHand'
    BY <2>2, <2>6 DEF LostInHand, Lost
  <2>8. QED
    BY <2>5, <2>7
<1>6. CASE Arrives
  BY <1>2, <1>6 DEF Arrives
<1>7. CASE Goes /\ ~UNCHANGED vars
  <2>1. pc \notin {"idle", "down"} /\ (pc \in {"save", "pin", "stamp", "update"} => cur.kind = "purchase")
    BY <1>7 DEF Goes, IInv, OneRequest
  <2>2. cur.kind \in {"purchase", "reversal"} /\ cur'.kind = cur.kind /\ cur' # None
    BY <1>1, <1>7, TypedParts DEF Goes, SameRequest
  <2>3. QED
    BY <1>2, <1>4, <1>5, <1>7, <2>1, <2>2
    DEF Next, Purchase, Reversal, ReceivePurchase, ReceiveReversal, Receive,
        SavePurchase, CheckPin, TakeHostNsu, DecidePurchase, SelectTable,
        UpdatePurchase, TakeAcqNsu, Reply, Crash, Restart
<1>8. CASE Reply \/ Ends
  BY <1>2, <1>8 DEF Reply, Ends
<1>9. QED
  BY <1>3, <1>6, <1>7, <1>8, StepsOfTheHandler

\* The answer of a reversal says what it found; later requests change none.
LEMMA AnswersStay ==
  ASSUME IInv, FoundInHand, LostInHand, [Next]_vars, TypeOK',
         ReversalFindsOriginal, BlankReversalFindsOnlyLost
  PROVE  ReversalFindsOriginal' /\ BlankReversalFindsOnlyLost'
<1>1. TypeOK
  BY DEF IInv
<1>2. CASE outcomes' = outcomes /\ nsuHost' \in {nsuHost, nsuHost + 1}
           /\ \A i \in Ids : Clean(i)' => Clean(i)
  <2>1. HostFits' => HostFits
    BY <1>1, <1>2, LimitsStay
  <2>2. ReversalFindsOriginal'
    BY <1>2, <2>1 DEF ReversalFindsOriginal, Finished
  <2>3. ASSUME NEW r \in Ids, HostFits', Finished(r, "reversal"),
               outcomes[r].req.orig = Blank, outcomes[r].req.code = 0,
               ~CodedReversal(outcomes[r].req.amount)
        PROVE  \E p \in 1 .. (r - 1) : Lost(p, outcomes[r].req.key)'
    <3>1. outcomes[r].req \in Request
      BY <1>1, <2>3, TypedParts DEF Finished
    <3>2. PICK k \in Keys : k = outcomes[r].req.key
      BY <3>1 DEF Request
    <3>3. \E p \in 1 .. (r - 1) : Lost(p, k)
      BY <2>1, <2>3, <3>2 DEF BlankReversalFindsOnlyLost, Lost
    <3>4. \E p \in 1 .. (r - 1) : Lost(p, k)'
      BY <3>3, LostBefore
    <3>5. QED
      BY <1>2, <3>2, <3>4 DEF Lost
  <2>4. BlankReversalFindsOnlyLost'
    BY <1>2, <2>3 DEF BlankReversalFindsOnlyLost, Lost, Finished
  <2>5. QED
    BY <2>2, <2>4
<1>3. CASE Reply
  <2>1. cur # None /\ cur.id \in Ids /\ cur' = None /\ pc = "reply"
        /\ cur \in Request /\ cur.id = received /\ outcomes[cur.id] = None
    BY <1>1, <1>3, TypedParts DEF Reply, IInv, OneRequest
  <2>2. /\ \A i \in Ids : outcomes'[i] = IF i = cur.id THEN [req |-> cur, sent |-> Result = 0]
                                                       ELSE outcomes[i]
        /\ rows' = rows /\ faulted' = faulted /\ received' = received /\ nsuHost' = nsuHost
    BY <1>1, <1>3 DEF Reply, TypeOK, db
  <2>3. (HostFits' <=> HostFits) /\ \A i \in Ids : (Clean(i)' <=> Clean(i))
    BY <2>2 DEF HostFits, Clean
  <2>4. ReversalFindsOriginal'
    <3>1. SUFFICES ASSUME NEW r \in Ids, NEW p \in Ids, HostFits,
                          Finished(r, "reversal")', Clean(r), Finished(p, "purchase")', Clean(p),
                          p < r, outcomes'[r].req.key = outcomes'[p].req.key,
                          outcomes'[r].req.orig = outcomes'[p].req.acq
                   PROVE  CodedReversal(outcomes'[r].req.amount) \/ outcomes'[r].req.code = 0
      BY <2>3 DEF ReversalFindsOriginal
    <3>2. CASE r = cur.id
      <4>1. p # cur.id /\ outcomes'[p] = outcomes[p] /\ outcomes'[r].req = cur
        BY <2>2, <3>1, <3>2 DEF Ids
      <4>2. Finished(p, "purchase") /\ cur.kind = "reversal"
        BY <3>1, <4>1 DEF Finished
      <4>3. QED
        BY <2>1, <3>1, <3>2, <4>1, <4>2 DEF FoundInHand
    <3>3. CASE r # cur.id
      <4>1. outcomes'[r] = outcomes[r] /\ outcomes[r] # None
        BY <2>2, <3>1, <3>3 DEF Finished
      <4>2. r <= received
        BY <1>1, <4>1, TypedParts DEF IInv, NoTrace, Ids
      <4>3. p # cur.id
        BY <1>1, <2>1, <3>1, <4>2, TypedParts DEF Ids
      <4>4. outcomes'[p] = outcomes[p]
        BY <2>2, <4>3
      <4>5. QED
        BY <3>1, <4>1, <4>4 DEF ReversalFindsOriginal, Finished
    <3>4. QED
      BY <3>2, <3>3
  <2>5. BlankReversalFindsOnlyLost'
    <3>1. SUFFICES ASSUME NEW r \in Ids, HostFits, Finished(r, "reversal")',
                          outcomes'[r].req.orig = Blank, outcomes'[r].req.code = 0,
                          ~CodedReversal(outcomes'[r].req.amount)
                   PROVE  \E p \in 1 .. (r - 1) : Lost(p, outcomes[r].req.key)'
      BY <2>3 DEF BlankReversalFindsOnlyLost, Lost
    <3>2. outcomes'[r].req \in Request
      BY <3>1 DEF Finished, TypeOK, Outcome
    <3>3. PICK k \in Keys : k = outcomes'[r].req.key
      BY <3>2 DEF Request
    <3>4. \E p \in 1 .. (r - 1) : Lost(p, k)
      <4>1. CASE r = cur.id
        <5>1. outcomes'[r].req = cur
          BY <2>2, <4>1
        <5>2. cur.kind = "reversal"
          BY <3>1, <5>1 DEF Finished
        <5>3. QED
          BY <2>1, <3>1, <3>3, <4>1, <5>1, <5>2 DEF LostInHand
      <4>2. CASE r # cur.id
        BY <2>2, <3>1, <3>3, <4>2 DEF BlankReversalFindsOnlyLost, Lost, Finished
      <4>3. QED
        BY <4>1, <4>2
    <3>5. \E p \in 1 .. (r - 1) : Lost(p, k)'
      BY <3>4, LostBefore
    <3>6. QED
      BY <3>3, <3>5 DEF Lost
  <2>6. QED
    BY <2>4, <2>5
<1>4. CASE UNCHANGED vars
  BY <1>2, <1>4 DEF vars, Clean
<1>5. CASE Arrives \/ Ends
  BY <1>2, <1>5 DEF Arrives, Ends, Clean
<1>6. CASE Goes
  BY <1>2, <1>6 DEF Goes, Succeeds, Fails, Clean
<1>7. QED
  BY <1>3, <1>4, <1>5, <1>6, StepsOfTheHandler

RInv ==
  /\ KeysMatch /\ AcqTaken /\ FoundInHand /\ LostInHand
  /\ ReversalFindsOriginal /\ BlankReversalFindsOnlyLost

\* What reversals rely on and what they are told holds throughout.
LEMMA ReversalInvariance == Spec => []RInv
<1>1. Init => RInv
  BY DEF Init, RInv, KeysMatch, AcqTaken, FoundInHand, LostInHand,
         ReversalFindsOriginal, BlankReversalFindsOnlyLost, Finished
<1>2. IInv /\ IInv' /\ RInv /\ [Next]_vars => RInv'
  <2>1. SUFFICES ASSUME IInv, IInv', RInv, [Next]_vars PROVE RInv'
    OBVIOUS
  <2>2. TypeOK'
    BY <2>1 DEF IInv
  <2>3. KeysMatch' /\ AcqTaken'
    BY <2>1, <2>2, KeysAndNumbersStay DEF RInv
  <2>4. FoundInHand' /\ LostInHand'
    BY <2>1, <2>2, FindingsStay DEF RInv
  <2>5. ReversalFindsOriginal' /\ BlankReversalFindsOnlyLost'
    BY <2>1, <2>2, AnswersStay DEF RInv
  <2>6. QED
    BY <2>3, <2>4, <2>5 DEF RInv
<1>3. QED
  BY <1>1, <1>2, Invariance, PTL DEF Spec

\* A reversal that names an answered purchase finds it, however many requests,
\* crashes and failing calls of others lie between the two.
THEOREM ReversalsFindOriginals == Spec => []ReversalFindsOriginal
<1>1. RInv => ReversalFindsOriginal
  BY DEF RInv
<1>2. QED
  BY <1>1, ReversalInvariance, PTL

\* A reversal without an acquirer NSU never undoes a purchase that ended well.
THEOREM BlankReversalsFindLost == Spec => []BlankReversalFindsOnlyLost
<1>1. RInv => BlankReversalFindsOnlyLost
  BY DEF RInv
<1>2. QED
  BY <1>1, ReversalInvariance, PTL
=============================================================================
