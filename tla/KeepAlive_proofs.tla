-------------------------- MODULE KeepAlive_proofs --------------------------
(***************************************************************************)
(* Proofs about the keep-alive and the database layer under it, for any    *)
(* keys, texts, calls of the two processes and number of troubles.         *)
(*                                                                         *)
(* The layer's properties speak of a process between calls and of results. *)
(* IInv adds what holds during a call, by the step it has come to: what it *)
(* has open (Handles), that one process writes at most and nobody changes  *)
(* the row it found (Writing), what it has read (Fetched) and committed    *)
(* (Committed).                                                            *)
(*                                                                         *)
(* The keep-alive's speak of what the two sides read from a TLV text: the  *)
(* lemmas on texts show that of mounted fields each is read as it is, of a *)
(* cut text as it is or the begin of it.  KeepInv then follows a request   *)
(* and its answer: what the terminal runs (Running), whose turn it is      *)
(* (Turns), which keys were read so far and what they held (Handling), of  *)
(* what a good answer is made (Answering).                                 *)
(***************************************************************************)
EXTENDS KeepAlive, NaturalLemmas

\* A step of process p in the layer, as any program may make it.
Starts(p) ==
  \E c \in Callable : (c.fn = "select_prepare" => cursor[p] = None)
                      /\ Start(p, c.fn, c.key, c.set)

Forgets(p) ==
  /\ result' = [result EXCEPT ![p] = None]
  /\ UNCHANGED <<present, journal, db, lock, call, open, cursor>>

LayerStep(p) ==
  \/ Starts(p) \/ Forgets(p) \/ CallStep(p) \/ Ends(p)
  \/ SelectStep(p) \/ SelectColumn(p) \/ Finalize(p)

-----------------------------------------------------------------------------
(* The invariant.                                                          *)

ReadText == Values \cup {NullText, Null, None}

Outcome ==
  [fn : Functions \cup {"select_step", "select_column"}, key : Keys \cup {None}, rc : Codes,
   text : ReadText, since : SUBSET Contents, wrote : BOOLEAN]

Typed ==
  /\ present \in BOOLEAN /\ journal \in BOOLEAN /\ db \in Contents
  /\ lock \in [Procs -> {"none", "shared", "reserved", "exclusive"}]
  /\ call \in [Procs -> Call \cup {None}]
  /\ open \in [Procs -> [conns : Int, stmts : Int]]
  /\ cursor \in [Procs -> Cursor \cup {None}]
  /\ result \in [Procs -> Outcome \cup {None}]

\* The steps each function takes, and what it takes them with.
Phase(c) ==
  /\ c.fn # "exec_sql" => c.key \in Keys
  /\ c.at \in {"prepare", "step", "row"} => c.fn \in Readers /\ ~c.vacuum
  /\ c.at \in {"step", "row"} => c.fn \in ReadOnly
  /\ c.at \in {"exec", "commit", "end"} => c.fn \in Writers
  /\ c.vacuum => c.fn = "delete"

Phases ==
  \A p \in Procs : call[p] # None =>
    /\ Phase(call[p])
    /\ call[p].fn = "select_prepare" => cursor[p] = None
    /\ ~present => call[p].at = "open" /\ ~call[p].vacuum

ConnsOf(c) == IF c.vacuum THEN (IF c.at = "open" THEN 1 ELSE 2) ELSE (IF c.at = "open" THEN 0 ELSE 1)
StmtsOf(c) == IF c.fn \in Getters /\ c.at \in {"step", "row"} THEN 1 ELSE 0

HandleConns(p) == (IF cursor[p] = None THEN 0 ELSE 1)
                  + (IF call[p] = None THEN 0 ELSE ConnsOf(call[p]))
HandleStmts(p) == (IF cursor[p] = None THEN 0 ELSE 1)
                  + (IF call[p] = None THEN 0 ELSE StmtsOf(call[p]))

Handles == \A p \in Procs : open[p] = [conns |-> HandleConns(p), stmts |-> HandleStmts(p)]

IsWriting(p) == lock[p] \in {"reserved", "exclusive"}

Writing ==
  /\ \A p \in Procs : IsWriting(p) <=> call[p] # None /\ call[p].at \in {"commit", "end"}
  /\ \A p \in Procs : IsWriting(p) => Changes(call[p])
  /\ \A p, q \in Procs : IsWriting(p) /\ IsWriting(q) => p = q

\* Some contents during the call explain the text.
Explained(fn, text, key, since) == \E d \in since : text = Shown(fn, d[key])

Fetch(c, d) ==
  /\ d \in c.since
  /\ c.at \notin {"step", "row"} => c.count = 0
  /\ c.at = "step" /\ c.count = 1 => c.text = Shown(c.fn, Null)
  /\ c.at = "row" => c.count = 1 /\ Explained(c.fn, c.text, c.key, c.since)

Fetched == \A p \in Procs : call[p] # None => Fetch(call[p], db)

\* A delete that has come to VACUUM has removed its row, or there was none.
Commitment(c) ==
  /\ c.wrote => c.vacuum
  /\ c.vacuum => c.wrote \/ \E d \in c.since : d[c.key] = NoRow

Committed == \A p \in Procs : call[p] # None => Commitment(call[p])

IInv ==
  /\ Typed /\ Phases /\ Handles /\ Writing /\ Fetched /\ Committed
  /\ ReadsWhatWas /\ WritesAreReported
-----------------------------------------------------------------------------
(* Types.                                                                  *)

\* Every result is an outcome, whatever the call.
LEMMA ResultTyped ==
  ASSUME NEW c \in Call, NEW rc \in Codes
  PROVE  Result(c, rc) \in Outcome
  BY DEF Result, Call, Outcome, ReadText

LEMMA CodesTyped ==
  ASSUME NEW c \in Call
  PROVE  FailCode(c) \in Codes /\ ReadCode(c) \in Codes /\ WriteCode(c) \in Codes
  <1>1. FailCode(c) \in Codes
    BY DEF FailCode, Call, Functions, Readers, ReadOnly, Getters, Writers, Codes
  <1>2. ReadCode(c) \in Codes /\ WriteCode(c) \in Codes
    BY DEF ReadCode, WriteCode, Codes
  <1> QED BY <1>1, <1>2

LEMMA ShownTyped ==
  ASSUME NEW fn, NEW v
  PROVE  Shown(fn, v) \in Values \cup {NullText, Null}
  BY DEF Shown

LEMMA AfterTyped ==
  ASSUME db \in Contents, NEW c \in Call
  PROVE  After(c) \in Contents
  <1>1. PICK ks \in SUBSET Keys : c.set \in [ks -> Values \cup {Null, NoRow}]
    BY DEF Call, Written
  <1> QED BY <1>1 DEF After, Contents

\* A call that has written something, if it has.
Marked(c, wrote) == [c EXCEPT !.wrote = @ \/ wrote]
Listening(c, d) == [c EXCEPT !.since = @ \cup {d}]

LEMMA MarkedIs ==
  ASSUME NEW c \in Call, NEW wrote
  PROVE  /\ Marked(c, wrote) \in Call
         /\ Marked(c, wrote).fn = c.fn /\ Marked(c, wrote).key = c.key
         /\ Marked(c, wrote).at = c.at /\ Marked(c, wrote).vacuum = c.vacuum
         /\ Marked(c, wrote).since = c.since
         /\ Marked(c, wrote).wrote <=> c.wrote \/ wrote
  BY DEF Marked, Call

LEMMA ListeningIs ==
  ASSUME NEW c \in Call, NEW d \in Contents
  PROVE  /\ Listening(c, d) \in Call
         /\ Listening(c, d).fn = c.fn /\ Listening(c, d).key = c.key
         /\ Listening(c, d).at = c.at /\ Listening(c, d).vacuum = c.vacuum
         /\ Listening(c, d).since = c.since \cup {d} /\ Listening(c, d).wrote = c.wrote
  BY DEF Listening, Call

\* Each call a step leaves is None or typed.
LEMMA TypedKept ==
  ASSUME Typed, Phases, NEW p \in Procs, LayerStep(p)
  PROVE  Typed'
  <1> USE NoneAssumption
  <1>1. CASE Starts(p)
    <2>1. PICK c \in Callable : Start(p, c.fn, c.key, c.set)
      BY <1>1 DEF Starts
    <2>2. [fn |-> c.fn, key |-> c.key, set |-> c.set, at |-> "open", vacuum |-> FALSE,
           count |-> 0, text |-> None, since |-> {db}, wrote |-> FALSE] \in Call
      BY <2>1 DEF Callable, Call, Typed
    <2> QED BY <2>1, <2>2 DEF Start, Typed
  <1>2. CASE Forgets(p)
    BY <1>2 DEF Forgets, Typed
  <1>3. CASE Ends(p)
    <2>1. journal' \in BOOLEAN
      <3>1. journal' = journal \/ journal' = (journal \/ lock[p] = "exclusive")
        BY <1>3 DEF Ends
      <3>2. (journal \/ lock[p] = "exclusive") \in BOOLEAN
        OBVIOUS
      <3> QED BY <3>1, <3>2 DEF Typed
    <2> QED BY <1>3, <2>1 DEF Ends, Typed, Nothing
  <1>4. CASE SelectStep(p) \/ SelectColumn(p) \/ Finalize(p)
    <2>1. \A fn \in {"select_step", "select_column"}, rc \in Codes, text \in ReadText :
            cursor[p] # None =>
              [fn |-> fn, key |-> cursor[p].key, rc |-> rc, text |-> text,
               since |-> {db}, wrote |-> FALSE] \in Outcome
      BY DEF Typed, Cursor, Outcome
    <2>2. CASE SelectStep(p)
      <3> DEFINE row == ~cursor[p].row /\ db[cursor[p].key] # NoRow
      <3>1. row \in BOOLEAN
        OBVIOUS
      <3>2. cursor' = cursor \/ cursor' = [cursor EXCEPT ![p].row = row]
        BY <2>2 DEF SelectStep
      <3>3. cursor' \in [Procs -> Cursor \cup {None}]
        <4> HIDE DEF row
        <4> QED BY <2>2, <3>1, <3>2 DEF SelectStep, Typed, Cursor
      <3>4. \E rc \in Codes : CursorResult(p, "select_step", rc, None)
        BY <2>2 DEF SelectStep, Codes
      <3>5. result' \in [Procs -> Outcome \cup {None}]
        BY <2>1, <2>2, <3>4 DEF SelectStep, CursorResult, Typed, ReadText
      <3>6. journal' \in BOOLEAN
        BY <2>2 DEF SelectStep, Typed
      <3> QED BY <2>2, <3>3, <3>5, <3>6 DEF SelectStep, Typed
    <2>3. CASE SelectColumn(p)
      BY <2>1, <2>3, ShownTyped DEF SelectColumn, CursorResult, Typed, Codes, ReadText
    <2>4. CASE Finalize(p)
      BY <2>4 DEF Finalize, Typed
    <2> QED BY <1>4, <2>2, <2>3, <2>4
  <1>5. CASE CallStep(p)
    <2>1. call[p] \in Call
      BY <1>5 DEF CallStep, Open, OpenFails, Prepare, Step, Done, Exec, Commit, End, At, Typed
    <2>2. \A rc \in Codes : Return(p, rc) => 
            call' \in [Procs -> Call \cup {None}] /\ open' \in [Procs -> [conns : Int, stmts : Int]]
            /\ result' \in [Procs -> Outcome \cup {None}]
      BY <2>1, ResultTyped DEF Return, Typed, Closed, Finalized
    <2>3. \A c \in Call : Continue(p, c) =>
            call' \in [Procs -> Call \cup {None}] /\ result' \in [Procs -> Outcome \cup {None}]
      BY DEF Continue, Typed
    <2>4. FailCode(call[p]) \in Codes /\ ReadCode(call[p]) \in Codes
      BY <2>1, CodesTyped
    <2>5. CASE Open(p)
      <3>1. [call[p] EXCEPT !.at = IF call[p].fn \in Readers THEN "prepare" ELSE "exec"] \in Call
        BY <2>1 DEF Call
      <3> QED BY <2>5, <2>3, <3>1 DEF Open, Typed
    <2>6. CASE OpenFails(p)
      BY <2>6, <2>2, <2>4, <1>3 DEF OpenFails, Ends, Typed, Nothing
    <2>7. CASE Prepare(p)
      <3>1. [call[p] EXCEPT !.at = "step"] \in Call
        BY <2>1 DEF Call
      <3>2. Result(call[p], "RC_OK") \in Outcome
        BY <2>1, ResultTyped DEF Codes
      <3>3. [key |-> call[p].key, row |-> FALSE] \in Cursor \/ call[p].fn # "select_prepare"
        BY <2>1, <2>7 DEF Phases, Phase, Cursor, Prepare, At
      <3>4. journal' \in BOOLEAN
        <4>1. journal' = journal \/ journal' = (journal /\ ~(call[p].fn = "select_prepare"))
          BY <2>7 DEF Prepare
        <4>2. (journal /\ ~(call[p].fn = "select_prepare")) \in BOOLEAN
          OBVIOUS
        <4> QED BY <4>1, <4>2 DEF Typed
      <3>5. \/ Return(p, FailCode(call[p])) /\ UNCHANGED cursor
            \/ /\ call[p].fn = "select_prepare"
               /\ cursor' = [cursor EXCEPT ![p] = [key |-> call[p].key, row |-> FALSE]]
               /\ call' = [call EXCEPT ![p] = None]
               /\ result' = [result EXCEPT ![p] = Result(call[p], "RC_OK")]
               /\ open' = [open EXCEPT ![p].stmts = @ + 1]
            \/ /\ Continue(p, [call[p] EXCEPT !.at = "step"]) /\ UNCHANGED cursor
               /\ open' = [open EXCEPT ![p].stmts = @ + (IF call[p].fn \in Getters THEN 1 ELSE 0)]
        BY <2>7 DEF Prepare
      <3>6. UNCHANGED <<present, db, lock>>
        BY <2>7 DEF Prepare
      <3>7. /\ call' \in [Procs -> Call \cup {None}] /\ result' \in [Procs -> Outcome \cup {None}]
            /\ open' \in [Procs -> [conns : Int, stmts : Int]]
            /\ cursor' \in [Procs -> Cursor \cup {None}]
        <4>1. CASE Return(p, FailCode(call[p])) /\ UNCHANGED cursor
          BY <2>2, <2>4, <4>1 DEF Typed
        <4>2. CASE /\ call[p].fn = "select_prepare"
                   /\ cursor' = [cursor EXCEPT ![p] = [key |-> call[p].key, row |-> FALSE]]
                   /\ call' = [call EXCEPT ![p] = None]
                   /\ result' = [result EXCEPT ![p] = Result(call[p], "RC_OK")]
                   /\ open' = [open EXCEPT ![p].stmts = @ + 1]
          BY <3>2, <3>3, <4>2 DEF Typed
        <4>3. CASE /\ Continue(p, [call[p] EXCEPT !.at = "step"]) /\ UNCHANGED cursor
                   /\ open' = [open EXCEPT ![p].stmts = @ + (IF call[p].fn \in Getters THEN 1 ELSE 0)]
          <5>1. open' \in [Procs -> [conns : Int, stmts : Int]]
            BY <4>3 DEF Typed
          <5> QED BY <2>3, <3>1, <4>3, <5>1 DEF Typed
        <4> QED BY <3>5, <4>1, <4>2, <4>3
      <3> QED BY <3>4, <3>6, <3>7 DEF Typed
    <2>8. CASE Step(p)
      <3>1. \A at \in {"row", "step"} : \A v :
              [call[p] EXCEPT !.at = at, !.count = 1, !.text = Shown(call[p].fn, v)] \in Call
        BY <2>1, ShownTyped DEF Call
      <3> QED BY <2>8, <2>2, <2>3, <2>4, <3>1 DEF Step, Typed
    <2>9. CASE Done(p)
      BY <2>9, <2>2, <2>4 DEF Done, Typed
    <2>10. CASE Commit(p)
      <3>1. [call[p] EXCEPT !.at = "end"] \in Call
        BY <2>1 DEF Call
      <3> QED BY <2>10, <2>2, <2>3, <2>4, <3>1 DEF Commit, Typed
    <2>11. \A calls \in [Procs -> Call \cup {None}], wrote \in BOOLEAN :
             calls[p] \in Call /\ Succeeds(p, calls, wrote) =>
               call' \in [Procs -> Call \cup {None}] /\ open' \in [Procs -> [conns : Int, stmts : Int]]
               /\ result' \in [Procs -> Outcome \cup {None}]
      <3> SUFFICES ASSUME NEW calls \in [Procs -> Call \cup {None}], NEW wrote \in BOOLEAN,
                          calls[p] \in Call, Succeeds(p, calls, wrote)
                   PROVE  call' \in [Procs -> Call \cup {None}]
                          /\ open' \in [Procs -> [conns : Int, stmts : Int]]
                          /\ result' \in [Procs -> Outcome \cup {None}]
        OBVIOUS
      <3> DEFINE c == [calls[p] EXCEPT !.wrote = @ \/ wrote]
      <3>1. c \in Call /\ [c EXCEPT !.at = "open", !.vacuum = TRUE] \in Call
        BY DEF Call
      <3>2. Result(c, WriteCode(c)) \in Outcome
        BY <3>1, ResultTyped, CodesTyped
      <3>3. Closed(c) \in Int
        BY DEF Closed
      <3> HIDE DEF c
      <3>4. \/ /\ call' = [calls EXCEPT ![p] = [c EXCEPT !.at = "open", !.vacuum = TRUE]]
               /\ UNCHANGED <<open, result>>
            \/ /\ call' = [calls EXCEPT ![p] = None]
               /\ result' = [result EXCEPT ![p] = Result(c, WriteCode(c))]
               /\ open' = [open EXCEPT ![p].conns = @ - Closed(c)]
        BY DEF Succeeds, c
      <3> QED BY <3>1, <3>2, <3>3, <3>4 DEF Typed
    <2>12. CASE Exec(p)
      <3>1. [call[p] EXCEPT !.at = "commit"] \in Call
        BY <2>1 DEF Call
      <3> QED BY <2>12, <2>1, <2>2, <2>3, <2>4, <2>11, <3>1 DEF Exec, Typed
    <2>13. CASE End(p)
      <3>1. db' \in Contents
        BY <2>13, <2>1, AfterTyped DEF End, Typed
      <3>2. \A q \in Procs : call[q] # None => [call[q] EXCEPT !.since = @ \cup {db'}] \in Call
        BY <3>1, ListeningIs DEF Typed, Listening
      <3>3. Heard(db') \in [Procs -> Call \cup {None}] /\ Heard(db')[p] \in Call
        BY <2>1, <3>2 DEF Heard
      <3> QED BY <2>13, <2>1, <2>11, <3>1, <3>3 DEF End, Typed, Call
    <2> QED BY <1>5, <2>5, <2>6, <2>7, <2>8, <2>9, <2>10, <2>12, <2>13 DEF CallStep
  <1> QED BY <1>1, <1>2, <1>3, <1>4, <1>5 DEF LayerStep
-----------------------------------------------------------------------------
(* What a step changes.                                                    *)

\* A step of p leaves the other processes alone, but for the contents their
\* calls may read.
LEMMA OthersStay ==
  ASSUME Typed, NEW p \in Procs, LayerStep(p), NEW q \in Procs, q # p
  PROVE  /\ lock'[q] = lock[q] /\ open'[q] = open[q]
         /\ cursor'[q] = cursor[q] /\ result'[q] = result[q]
         /\ \/ call'[q] = call[q]
            \/ call[q] # None /\ call'[q] = Listening(call[q], db')
  <1> USE DEF Typed
  <1>1. CASE Starts(p)
    BY <1>1 DEF Starts, Start
  <1>2. CASE Forgets(p)
    BY <1>2 DEF Forgets
  <1>3. CASE Ends(p)
    BY <1>3 DEF Ends
  <1>4. CASE SelectStep(p)
    BY <1>4 DEF SelectStep, CursorResult
  <1>5. CASE SelectColumn(p) \/ Finalize(p)
    BY <1>5 DEF SelectColumn, CursorResult, Finalize
  <1>6. CASE Open(p) \/ OpenFails(p)
    BY <1>6 DEF Open, OpenFails, Continue, Return, Ends
  <1>7. CASE Prepare(p)
    BY <1>7 DEF Prepare, Continue, Return
  <1>8. CASE Step(p)
    BY <1>8 DEF Step, Continue, Return
  <1>9. CASE Done(p)
    BY <1>9 DEF Done, Return
  <1>10. CASE Exec(p)
    BY <1>10 DEF Exec, Continue, Return, Succeeds
  <1>11. CASE Commit(p)
    BY <1>11 DEF Commit, Continue, Return
  <1>12. CASE End(p)
    <2>1. Heard(db') \in [Procs -> {Heard(db')[r] : r \in Procs}]
      BY DEF Heard
    <2>2. call'[q] = Heard(db')[q] /\ UNCHANGED <<lock[q], open[q], result[q], cursor[q]>>
      BY <1>12, <2>1 DEF End, Succeeds
    <2> QED BY <2>2 DEF Heard, Listening
  <1> QED BY <1>1, <1>2, <1>3, <1>4, <1>5, <1>6, <1>7, <1>8, <1>9, <1>10, <1>11, <1>12
          DEF LayerStep, CallStep

\* What becomes of a call whose statement is done: it goes on to VACUUM, or
\* it returns.
DoneTo(p, c, b) ==
  \/ /\ c.fn = "delete" /\ ~c.vacuum
     /\ call'[p] = [b EXCEPT !.at = "open", !.vacuum = TRUE]
     /\ open'[p] = open[p] /\ result'[p] = result[p]
  \/ /\ c.fn = "delete" => c.vacuum
     /\ call'[p] = None
     /\ result'[p] = Result(b, WriteCode(b))
     /\ open'[p] = [open[p] EXCEPT !.conns = @ - Closed(c)]

LEMMA SucceedsTo ==
  ASSUME NEW p \in Procs, NEW calls \in [Procs -> Call \cup {None}], NEW wrote,
         calls[p] \in Call, Typed, Succeeds(p, calls, wrote)
  PROVE  DoneTo(p, calls[p], Marked(calls[p], wrote))
  <1> DEFINE c == Marked(calls[p], wrote)
  <1>1. c.fn = calls[p].fn /\ c.vacuum = calls[p].vacuum /\ c.at = calls[p].at
    BY MarkedIs
  <1>2. Closed(c) = Closed(calls[p])
    BY <1>1 DEF Closed
  <1>3. \/ /\ c.fn = "delete" /\ ~c.vacuum
           /\ call' = [calls EXCEPT ![p] = [c EXCEPT !.at = "open", !.vacuum = TRUE]]
           /\ UNCHANGED <<open, result>>
        \/ /\ ~(c.fn = "delete" /\ ~c.vacuum)
           /\ call' = [calls EXCEPT ![p] = None]
           /\ result' = [result EXCEPT ![p] = Result(c, WriteCode(c))]
           /\ open' = [open EXCEPT ![p].conns = @ - Closed(c)]
    BY Zenon DEF Succeeds, Marked
  <1> HIDE DEF c
  <1>4. open' = [open EXCEPT ![p].conns = @ - Closed(c)] =>
          open'[p] = [open[p] EXCEPT !.conns = @ - Closed(c)]
    BY DEF Typed
  <1>5. DoneTo(p, calls[p], c)
    BY <1>1, <1>2, <1>3, <1>4 DEF Typed, DoneTo
  <1> QED BY <1>5 DEF c

\* The call at its end, when the statement changed the table.
AtEnd(p) == Marked(Listening(call[p], db'), ~call[p].vacuum)

LEMMA AtEndIs ==
  ASSUME NEW p \in Procs, call[p] \in Call, db' \in Contents
  PROVE  /\ AtEnd(p) \in Call
         /\ AtEnd(p).fn = call[p].fn /\ AtEnd(p).key = call[p].key
         /\ AtEnd(p).at = call[p].at /\ AtEnd(p).vacuum = call[p].vacuum
         /\ AtEnd(p).since = call[p].since \cup {db'}
         /\ AtEnd(p).wrote <=> call[p].wrote \/ ~call[p].vacuum
  <1> DEFINE h == Listening(call[p], db')
             w == ~call[p].vacuum
  <1>1. /\ h \in Call
        /\ h.fn = call[p].fn /\ h.key = call[p].key /\ h.at = call[p].at
        /\ h.vacuum = call[p].vacuum /\ h.since = call[p].since \cup {db'}
        /\ h.wrote = call[p].wrote
    BY ListeningIs
  <1> HIDE DEF h, w
  <1>2. /\ Marked(h, w) \in Call
        /\ Marked(h, w).fn = h.fn /\ Marked(h, w).key = h.key
        /\ Marked(h, w).at = h.at /\ Marked(h, w).vacuum = h.vacuum
        /\ Marked(h, w).since = h.since /\ (Marked(h, w).wrote <=> h.wrote \/ w)
    BY <1>1, MarkedIs
  <1>3. AtEnd(p) = Marked(h, w)
    BY DEF AtEnd, h, w
  <1>4. AtEnd(p).wrote <=> call[p].wrote \/ w
    BY <1>1, <1>2, <1>3
  <1>5. AtEnd(p).wrote <=> call[p].wrote \/ ~call[p].vacuum
    BY <1>4 DEF w
  <1> QED BY <1>1, <1>2, <1>3, <1>5

LEMMA EndTo ==
  ASSUME Typed, NEW p \in Procs, End(p), call[p] \in Call, db' \in Contents
  PROVE  DoneTo(p, call[p], AtEnd(p))
  <1> DEFINE h == Listening(call[p], db')
             w == ~call[p].vacuum
  <1>1. \A q \in Procs : call[q] # None => Listening(call[q], db') \in Call
    BY ListeningIs DEF Typed
  <1>2. Heard(db') \in [Procs -> Call \cup {None}]
    BY <1>1 DEF Heard, Listening
  <1>3. Heard(db')[p] = h /\ h \in Call
    BY <1>1, NoneAssumption DEF Heard, Listening
  <1>4. Succeeds(p, Heard(db'), w)
    BY DEF End
  <1>5. h.fn = call[p].fn /\ h.vacuum = call[p].vacuum /\ h.at = call[p].at
    BY ListeningIs
  <1>6. Closed(h) = Closed(call[p])
    BY <1>5 DEF Closed
  <1> HIDE DEF h, w
  <1>7. DoneTo(p, h, Marked(h, w))
    BY <1>2, <1>3, <1>4, SucceedsTo
  <1>8. DoneTo(p, call[p], Marked(h, w))
    BY <1>5, <1>6, <1>7 DEF DoneTo
  <1> QED BY <1>8 DEF h, w, AtEnd

LEMMA PresentStays ==
  ASSUME NEW p \in Procs, LayerStep(p)
  PROVE  present' = present
  BY DEF LayerStep, Starts, Start, Forgets, Ends, SelectStep, SelectColumn, Finalize,
         CallStep, Open, OpenFails, Prepare, Step, Done, Exec, Commit, End

\* What becomes of the call of p: it ends, goes on, or comes to VACUUM.
LEMMA CallTo ==
  ASSUME Typed, Phases, NEW p \in Procs, CallStep(p)
  PROVE  /\ call[p] \in Call /\ call[p] # None
         /\ \/ call'[p] = None
            \/ /\ call[p].at = "open" /\ cursor'[p] = cursor[p] /\ present
               /\ call'[p] = [call[p] EXCEPT !.at = IF call[p].fn \in Readers THEN "prepare" ELSE "exec"]
            \/ /\ call[p].at = "prepare" /\ call[p].fn # "select_prepare" /\ cursor'[p] = cursor[p]
               /\ call'[p] = [call[p] EXCEPT !.at = "step"]
            \/ /\ call[p].at \in {"step", "row"} /\ cursor'[p] = cursor[p]
               /\ \E at \in {"row", "step"} : \E v :
                    call'[p] = [call[p] EXCEPT !.at = at, !.count = 1, !.text = v]
            \/ /\ call[p].at = "exec" /\ cursor'[p] = cursor[p]
               /\ call'[p] = [call[p] EXCEPT !.at = "commit"]
            \/ /\ call[p].at = "commit" /\ cursor'[p] = cursor[p]
               /\ call'[p] = [call[p] EXCEPT !.at = "end"]
            \/ /\ call[p].at \in {"exec", "end"} /\ cursor'[p] = cursor[p]
               /\ call[p].fn = "delete" /\ ~call[p].vacuum
               /\ call'[p].fn = "delete" /\ call'[p].key = call[p].key
               /\ call'[p].at = "open" /\ call'[p].vacuum = TRUE
  <1>1. call[p] \in Call /\ call[p] # None
    BY NoneAssumption
       DEF CallStep, Open, OpenFails, Prepare, Step, Done, Exec, Commit, End, At, Typed
  <1>2. \A rc : Return(p, rc) => call'[p] = None
    BY DEF Return, Typed
  <1>3. \A c : Continue(p, c) => call'[p] = c
    BY DEF Continue, Typed
  <1>4. CASE Open(p)
    BY <1>1, <1>3, <1>4 DEF Open, At
  <1>5. CASE OpenFails(p) \/ Done(p)
    BY <1>1, <1>2, <1>5 DEF OpenFails, Done, Ends, Typed
  <1>6. CASE Prepare(p)
    <2>1. \/ call'[p] = None
          \/ /\ call[p].fn # "select_prepare" /\ UNCHANGED cursor
             /\ call'[p] = [call[p] EXCEPT !.at = "step"]
      <3>1. \/ Return(p, FailCode(call[p]))
            \/ call' = [call EXCEPT ![p] = None]
            \/ /\ Continue(p, [call[p] EXCEPT !.at = "step"]) /\ UNCHANGED cursor
               /\ call[p].fn # "select_prepare"
        BY <1>6, SMTT(40) DEF Prepare
      <3> QED BY <1>2, <1>3, <3>1 DEF Typed
    <2> QED BY <1>1, <1>6, <2>1 DEF Prepare, At
  <1>7. CASE Step(p)
    <2>1. \/ call'[p] = None
          \/ \E at \in {"row", "step"} : \E v :
               call'[p] = [call[p] EXCEPT !.at = at, !.count = 1, !.text = v]
      BY <1>2, <1>3, <1>7 DEF Step
    <2> QED BY <1>1, <1>7, <2>1 DEF Step
  <1>8. CASE Commit(p)
    BY <1>1, <1>2, <1>3, <1>8 DEF Commit, At
  <1>9. CASE Exec(p)
    <2>1. \/ call'[p] = None \/ Succeeds(p, call, FALSE)
          \/ call'[p] = [call[p] EXCEPT !.at = "commit"]
      BY <1>2, <1>3, <1>9 DEF Exec
    <2>2. Succeeds(p, call, FALSE) /\ call'[p] # None =>
            /\ call[p].fn = "delete" /\ ~call[p].vacuum
            /\ call'[p].fn = "delete" /\ call'[p].key = call[p].key
            /\ call'[p].at = "open" /\ call'[p].vacuum = TRUE
      <3> SUFFICES ASSUME Succeeds(p, call, FALSE), call'[p] # None
                   PROVE  /\ call[p].fn = "delete" /\ ~call[p].vacuum
                          /\ call'[p].fn = "delete" /\ call'[p].key = call[p].key
                          /\ call'[p].at = "open" /\ call'[p].vacuum = TRUE
        OBVIOUS
      <3>1. call \in [Procs -> Call \cup {None}]
        BY DEF Typed
      <3>2. DoneTo(p, call[p], Marked(call[p], FALSE))
        BY <1>1, <3>1, SucceedsTo
      <3>3. Marked(call[p], FALSE) \in Call /\ Marked(call[p], FALSE).key = call[p].key
            /\ Marked(call[p], FALSE).fn = call[p].fn
        BY <1>1, MarkedIs
      <3> QED BY <1>1, <3>2, <3>3 DEF DoneTo, Call
    <2>3. cursor'[p] = cursor[p] /\ call[p].at = "exec"
      BY <1>9 DEF Exec, At
    <2> QED BY <1>1, <2>1, <2>2, <2>3
  <1>10. CASE End(p)
    <2>1. db' \in Contents
      BY <1>1, <1>10, AfterTyped DEF End, Typed
    <2>2. cursor'[p] = cursor[p] /\ call[p].at = "end"
      BY <1>10 DEF End, At
    <2>3. Listening(call[p], db') \in Call
      BY <1>1, <2>1, ListeningIs
    <2>4. AtEnd(p) \in Call /\ AtEnd(p).fn = call[p].fn /\ AtEnd(p).key = call[p].key
      BY <1>1, <2>1, <2>3, MarkedIs, ListeningIs DEF AtEnd
    <2>5. DoneTo(p, call[p], AtEnd(p))
      BY <1>1, <1>10, <2>1, EndTo
    <2> QED BY <1>1, <2>2, <2>4, <2>5 DEF DoneTo, Call
  <1> QED BY <1>4, <1>5, <1>6, <1>7, <1>8, <1>9, <1>10 DEF CallStep
-----------------------------------------------------------------------------
(* The steps of a call.                                                    *)

LEMMA PhasesKept ==
  ASSUME Typed, Phases, NEW p \in Procs, LayerStep(p)
  PROVE  Phases'
  <1> DEFINE Good(q) == call[q] # None =>
        /\ Phase(call[q])
        /\ call[q].fn = "select_prepare" => cursor[q] = None
        /\ ~present => call[q].at = "open" /\ ~call[q].vacuum
  <1>0. present' = present
    BY PresentStays
  <1>1. \A q \in Procs : q # p => Good(q)'
    <2> SUFFICES ASSUME NEW q \in Procs, q # p, call'[q] # None PROVE Good(q)'
      OBVIOUS
    <2>1. call[q] # None /\ call[q] \in Call
      BY OthersStay DEF Typed
    <2>2. call'[q].fn = call[q].fn /\ call'[q].key = call[q].key /\ call'[q].at = call[q].at
          /\ call'[q].vacuum = call[q].vacuum /\ cursor'[q] = cursor[q]
      <3>1. db' \in Contents
        BY TypedKept DEF Typed
      <3> QED BY <2>1, <3>1, OthersStay, ListeningIs
    <2> QED BY <1>0, <2>1, <2>2 DEF Phases, Phase
  <1>2. Good(p)'
    <2>1. CASE Starts(p)
      <3>1. PICK c \in Callable : /\ c.fn = "select_prepare" => cursor[p] = None
                                  /\ Start(p, c.fn, c.key, c.set)
        BY <2>1 DEF Starts
      <3> QED BY <3>1 DEF Start, Typed, Callable, Phase
    <2>2. CASE Forgets(p) \/ SelectStep(p) \/ SelectColumn(p) \/ Finalize(p)
      <3>1. call' = call
        BY <2>2 DEF Forgets, SelectStep, SelectColumn, Finalize
      <3>2. cursor' = cursor \/ call[p] = None
        BY <2>2 DEF Forgets, SelectStep, SelectColumn, Finalize
      <3> QED BY <1>0, <3>1, <3>2 DEF Phases
    <2>3. CASE Ends(p)
      BY <2>3 DEF Ends, Typed
    <2>4. CASE CallStep(p)
      <3>1. Good(p) /\ call[p] \in Call /\ call[p] # None
        BY <2>4, CallTo DEF Phases
      <3>2. SUFFICES ASSUME call'[p] # None PROVE Good(p)'
        OBVIOUS
      <3>3. CASE /\ call[p].at = "open" /\ cursor'[p] = cursor[p] /\ present
                 /\ call'[p] = [call[p] EXCEPT !.at = IF call[p].fn \in Readers THEN "prepare" ELSE "exec"]
        BY <1>0, <3>1, <3>3 DEF Phase, Call, Functions, Readers, ReadOnly, Getters, Writers
      <3>4. CASE /\ call[p].at = "prepare" /\ call[p].fn # "select_prepare" /\ cursor'[p] = cursor[p]
                 /\ call'[p] = [call[p] EXCEPT !.at = "step"]
        BY <1>0, <3>1, <3>4 DEF Phase, Call, Readers
      <3>5. CASE /\ call[p].at \in {"step", "row"} /\ cursor'[p] = cursor[p]
                 /\ \E at \in {"row", "step"} : \E v :
                      call'[p] = [call[p] EXCEPT !.at = at, !.count = 1, !.text = v]
        BY <1>0, <3>1, <3>5 DEF Phase, Call
      <3>6. CASE /\ call[p].at = "exec" /\ cursor'[p] = cursor[p]
                 /\ call'[p] = [call[p] EXCEPT !.at = "commit"]
        BY <1>0, <3>1, <3>6 DEF Phase, Call
      <3>7. CASE /\ call[p].at = "commit" /\ cursor'[p] = cursor[p]
                 /\ call'[p] = [call[p] EXCEPT !.at = "end"]
        BY <1>0, <3>1, <3>7 DEF Phase, Call
      <3>8. CASE /\ call[p].at \in {"exec", "end"} /\ cursor'[p] = cursor[p]
                 /\ call[p].fn = "delete" /\ ~call[p].vacuum
                 /\ call'[p].fn = "delete" /\ call'[p].key = call[p].key
                 /\ call'[p].at = "open" /\ call'[p].vacuum = TRUE
        BY <1>0, <3>1, <3>8 DEF Phase
      <3> QED BY <2>4, <3>2, <3>3, <3>4, <3>5, <3>6, <3>7, <3>8, CallTo, ZenonT(90)
    <2> QED BY <2>1, <2>2, <2>3, <2>4 DEF LayerStep
  <1> QED BY <1>1, <1>2 DEF Phases

-----------------------------------------------------------------------------
(* What is open.                                                           *)

\* A call that returns closes what it has.
LEMMA ReturnCloses ==
  ASSUME Typed, Phases, Handles, NEW p \in Procs, call[p] # None, NEW rc, Return(p, rc),
         cursor'[p] = cursor[p], call[p].at = "open" => ~call[p].vacuum
  PROVE  open'[p] = [conns |-> HandleConns(p)', stmts |-> HandleStmts(p)']
  <1>1. call[p] \in Call /\ Phase(call[p])
    BY DEF Typed, Phases
  <1>2. open'[p] = [conns |-> open[p].conns - Closed(call[p]), stmts |-> open[p].stmts - Finalized(call[p])]
        /\ call'[p] = None
    BY DEF Return, Typed
  <1>3. open[p].conns = HandleConns(p) /\ open[p].stmts = HandleStmts(p)
    <2>1. open[p] = [conns |-> HandleConns(p), stmts |-> HandleStmts(p)]
      BY DEF Handles
    <2> QED BY <2>1
  <1>4. Closed(call[p]) = ConnsOf(call[p])
    BY <1>1 DEF Closed, ConnsOf
  <1>5. Finalized(call[p]) = StmtsOf(call[p]) /\ Finalized(call[p]) \in Int
    BY DEF Finalized, StmtsOf
  <1> QED BY <1>2, <1>3, <1>4, <1>5 DEF HandleConns, HandleStmts, ConnsOf
\* A statement done closes what the call has, or keeps its connection for the
\* VACUUM.
LEMMA DoneCloses ==
  ASSUME Typed, Phases, Handles, NEW p \in Procs, call[p] # None, NEW b \in Call,
         DoneTo(p, call[p], b), b.fn = call[p].fn,
         call[p].at \in {"exec", "end"}, cursor'[p] = cursor[p]
  PROVE  open'[p] = [conns |-> HandleConns(p)', stmts |-> HandleStmts(p)']
  <1>1. call[p] \in Call /\ Phase(call[p])
    BY DEF Typed, Phases
  <1>2. open[p] = [conns |-> HandleConns(p), stmts |-> HandleStmts(p)]
    BY DEF Handles
  <1>3. StmtsOf(call[p]) = 0
    BY DEF StmtsOf
  <1>4. CASE /\ call[p].fn = "delete" /\ ~call[p].vacuum
             /\ call'[p] = [b EXCEPT !.at = "open", !.vacuum = TRUE]
             /\ open'[p] = open[p]
    <2>1. call'[p] \in Call /\ call'[p].fn = "delete" /\ call'[p].at = "open" /\ call'[p].vacuum
      BY <1>4 DEF Call
    <2>2. ConnsOf(call'[p]) = 1 /\ StmtsOf(call'[p]) = 0 /\ ConnsOf(call[p]) = 1
      BY <1>4, <2>1 DEF ConnsOf, StmtsOf
    <2>3. call'[p] # None
      BY <2>1, NoneAssumption
    <2> QED BY <1>2, <1>3, <1>4, <2>2, <2>3 DEF HandleConns, HandleStmts
  <1>5. CASE /\ call'[p] = None
             /\ open'[p] = [open[p] EXCEPT !.conns = @ - Closed(call[p])]
    <2>1. Closed(call[p]) = ConnsOf(call[p]) /\ ConnsOf(call[p]) \in {1, 2}
      BY <1>1 DEF Closed, ConnsOf
    <2>2. open'[p] = [conns |-> HandleConns(p) - ConnsOf(call[p]), stmts |-> HandleStmts(p)]
      BY <1>2, <1>5, <2>1
    <2>3. HandleConns(p) - ConnsOf(call[p]) = HandleConns(p)'
      BY <1>5, <2>1 DEF HandleConns
    <2>4. HandleStmts(p)' = HandleStmts(p)
      BY <1>3, <1>5 DEF HandleStmts
    <2> QED BY <2>2, <2>3, <2>4
  <1> QED BY <1>4, <1>5 DEF DoneTo

\* The handles of p, of all processes.
LEMMA HandlesKept ==
  ASSUME Typed, Phases, Handles, NEW p \in Procs, LayerStep(p)
  PROVE  Handles'
  <1> DEFINE Good(q) == open[q] = [conns |-> HandleConns(q), stmts |-> HandleStmts(q)]
  <1>1. \A q \in Procs : q # p => Good(q)'
    <2> SUFFICES ASSUME NEW q \in Procs, q # p PROVE Good(q)'
      OBVIOUS
    <2>1. Good(q) /\ open'[q] = open[q] /\ cursor'[q] = cursor[q]
      BY OthersStay DEF Handles
    <2>2. \/ call'[q] = call[q]
          \/ /\ call[q] # None /\ call'[q] # None
             /\ call'[q].fn = call[q].fn /\ call'[q].at = call[q].at
             /\ call'[q].vacuum = call[q].vacuum
      <3>1. Typed'
        BY TypedKept
      <3>2. CASE call[q] # None /\ call'[q] = Listening(call[q], db')
        <4>1. call[q] \in Call /\ db' \in Contents
          BY <3>1, <3>2 DEF Typed
        <4> QED BY <3>2, <4>1, ListeningIs, NoneAssumption
      <3> QED BY <3>2, OthersStay
    <2>3. HandleConns(q)' = HandleConns(q) /\ HandleStmts(q)' = HandleStmts(q)
      BY <2>1, <2>2 DEF HandleConns, HandleStmts, ConnsOf, StmtsOf
    <2> QED BY <2>1, <2>3
  <1>2. Good(p)
    BY DEF Handles
  <1> SUFFICES Good(p)'
    BY <1>1 DEF Handles
  <1>3. CASE Starts(p)
    <2>1. PICK c \in Callable : Start(p, c.fn, c.key, c.set)
      BY <1>3 DEF Starts
    <2>2. /\ call[p] = None /\ open'[p] = open[p] /\ cursor'[p] = cursor[p]
          /\ call'[p].at = "open" /\ call'[p].vacuum = FALSE
      BY <2>1 DEF Start, Typed
    <2> QED BY <1>2, <2>2 DEF HandleConns, HandleStmts, ConnsOf, StmtsOf
  <1>4. CASE Forgets(p) \/ SelectColumn(p)
    BY <1>2, <1>4 DEF Forgets, SelectColumn, HandleConns, HandleStmts
  <1>5. CASE SelectStep(p)
    <2>1. /\ call'[p] = call[p] /\ open'[p] = open[p]
          /\ cursor[p] # None /\ cursor'[p] # None
      <3>1. call' = call /\ open' = open /\ cursor[p] # None
        BY <1>5 DEF SelectStep
      <3>2. cursor' = cursor \/ cursor'[p] \in Cursor
        <4> DEFINE row == ~cursor[p].row /\ db[cursor[p].key] # NoRow
        <4>1. cursor' = cursor \/ cursor' = [cursor EXCEPT ![p].row = row]
          BY <1>5 DEF SelectStep
        <4>2. row \in BOOLEAN
          OBVIOUS
        <4> HIDE DEF row
        <4> QED BY <3>1, <4>1, <4>2 DEF Typed, Cursor
      <3> QED BY <3>1, <3>2, NoneAssumption
    <2> QED BY <1>2, <2>1 DEF HandleConns, HandleStmts
  <1>6. CASE Finalize(p)
    <2>1. /\ call[p] = None /\ call'[p] = None /\ cursor[p] # None /\ cursor'[p] = None
          /\ open'[p] = [conns |-> open[p].conns - 1, stmts |-> open[p].stmts - 1]
      BY <1>6 DEF Finalize, Typed
    <2> QED BY <1>2, <2>1 DEF HandleConns, HandleStmts
  <1>7. CASE Ends(p)
    <2>1. call'[p] = None /\ cursor'[p] = None /\ open'[p] = Nothing
      BY <1>7 DEF Ends, Typed
    <2> QED BY <2>1 DEF HandleConns, HandleStmts, Nothing
  <1>8. CASE CallStep(p)
    <2>1. call[p] \in Call /\ call[p] # None /\ Phase(call[p])
      BY <1>8, CallTo DEF Phases
    <2>2. ASSUME NEW c \in Call, call'[p] = c, open'[p] = open[p], cursor'[p] = cursor[p],
                 ConnsOf(c) = ConnsOf(call[p]), StmtsOf(c) = StmtsOf(call[p])
          PROVE  Good(p)'
      BY <1>2, <2>1, <2>2, NoneAssumption DEF HandleConns, HandleStmts
    <2>3. \A c : Continue(p, c) => call'[p] = c
      BY DEF Continue, Typed
    <2>4. CASE Open(p)
      <3> DEFINE c == [call[p] EXCEPT !.at = IF call[p].fn \in Readers THEN "prepare" ELSE "exec"]
      <3>1. c \in Call /\ c.fn = call[p].fn /\ c.vacuum = call[p].vacuum
            /\ c.at \in {"prepare", "exec"} /\ call[p].at = "open"
        BY <2>1, <2>4 DEF Call, Open, At
      <3>2. call'[p] = c /\ open'[p] = [open[p] EXCEPT !.conns = @ + 1] /\ cursor'[p] = cursor[p]
        BY <2>3, <2>4 DEF Open, Typed
      <3> HIDE DEF c
      <3>3. ConnsOf(c) = ConnsOf(call[p]) + 1 /\ StmtsOf(c) = 0 /\ StmtsOf(call[p]) = 0
            /\ ConnsOf(call[p]) \in {0, 1}
        BY <3>1 DEF ConnsOf, StmtsOf
      <3> QED BY <1>2, <2>1, <3>1, <3>2, <3>3, NoneAssumption DEF HandleConns, HandleStmts
    <2>5. CASE OpenFails(p)
      <3>1. call[p].at = "open" /\ ~call[p].vacuum
        BY <2>1, <2>5 DEF OpenFails, At, Phases
      <3> QED BY <1>7, <2>1, <2>5, <3>1, ReturnCloses DEF OpenFails
    <2>6. CASE Prepare(p)
      <3>1. call[p].at = "prepare" /\ ~call[p].vacuum
        BY <2>1, <2>6 DEF Prepare, At, Phase
      <3>2. \/ Return(p, FailCode(call[p])) /\ UNCHANGED cursor
            \/ /\ call[p].fn = "select_prepare"
               /\ cursor' = [cursor EXCEPT ![p] = [key |-> call[p].key, row |-> FALSE]]
               /\ call' = [call EXCEPT ![p] = None]
               /\ open' = [open EXCEPT ![p].stmts = @ + 1]
            \/ /\ Continue(p, [call[p] EXCEPT !.at = "step"]) /\ UNCHANGED cursor
               /\ open' = [open EXCEPT ![p].stmts = @ + (IF call[p].fn \in Getters THEN 1 ELSE 0)]
        BY <2>6 DEF Prepare
      <3>3. CASE Return(p, FailCode(call[p])) /\ UNCHANGED cursor
        BY <2>1, <3>1, <3>3, ReturnCloses
      <3>4. CASE /\ call[p].fn = "select_prepare"
                 /\ cursor' = [cursor EXCEPT ![p] = [key |-> call[p].key, row |-> FALSE]]
                 /\ call' = [call EXCEPT ![p] = None]
                 /\ open' = [open EXCEPT ![p].stmts = @ + 1]
        <4>1. cursor[p] = None /\ ConnsOf(call[p]) = 1 /\ StmtsOf(call[p]) = 0
          BY <2>1, <3>1, <3>4 DEF Phases, ConnsOf, StmtsOf
        <4>2. cursor'[p] = [key |-> call[p].key, row |-> FALSE] /\ call'[p] = None
              /\ open'[p] = [open[p] EXCEPT !.stmts = @ + 1]
          BY <3>4 DEF Typed
        <4>3. cursor'[p] # None
          <5>1. cursor'[p] \in Cursor
            <6>1. call[p].key \in Keys
              BY <2>1, <3>4 DEF Phase
            <6> QED BY <4>2, <6>1 DEF Cursor
          <5> QED BY <5>1, NoneAssumption
        <4> QED BY <1>2, <2>1, <4>1, <4>2, <4>3 DEF HandleConns, HandleStmts
      <3>5. CASE /\ Continue(p, [call[p] EXCEPT !.at = "step"]) /\ UNCHANGED cursor
                 /\ open' = [open EXCEPT ![p].stmts = @ + (IF call[p].fn \in Getters THEN 1 ELSE 0)]
        <4> DEFINE c == [call[p] EXCEPT !.at = "step"]
        <4>1. c \in Call /\ c.fn = call[p].fn /\ c.vacuum = call[p].vacuum /\ c.at = "step"
          BY <2>1 DEF Call
        <4>2. call'[p] = c /\ cursor'[p] = cursor[p]
              /\ open'[p] = [open[p] EXCEPT !.stmts = @ + (IF call[p].fn \in Getters THEN 1 ELSE 0)]
          BY <2>3, <3>5 DEF Typed
        <4> HIDE DEF c
        <4>3. ConnsOf(c) = ConnsOf(call[p]) /\ StmtsOf(call[p]) = 0
              /\ StmtsOf(c) = IF call[p].fn \in Getters THEN 1 ELSE 0
          BY <3>1, <4>1 DEF ConnsOf, StmtsOf
        <4> QED BY <1>2, <2>1, <4>1, <4>2, <4>3, NoneAssumption DEF HandleConns, HandleStmts
      <3> QED BY <3>2, <3>3, <3>4, <3>5
    <2>7. CASE Step(p)
      <3>1. call[p].at \in {"step", "row"} /\ cursor'[p] = cursor[p]
        BY <2>7 DEF Step
      <3>2. \/ Return(p, FailCode(call[p]))
            \/ \E at \in {"row", "step"}, v \in Values \cup {NullText, Null} :
                 /\ Continue(p, [call[p] EXCEPT !.at = at, !.count = 1, !.text = v])
                 /\ UNCHANGED open
        BY <2>7, ShownTyped DEF Step
      <3>3. ASSUME NEW at \in {"row", "step"}, NEW v \in Values \cup {NullText, Null},
                   Continue(p, [call[p] EXCEPT !.at = at, !.count = 1, !.text = v]), UNCHANGED open
            PROVE  Good(p)'
        <4> DEFINE c == [call[p] EXCEPT !.at = at, !.count = 1, !.text = v]
        <4>1. c \in Call /\ c.fn = call[p].fn /\ c.vacuum = call[p].vacuum /\ c.at = at
          BY <2>1 DEF Call
        <4>2. call'[p] = c
          BY <2>3, <3>3
        <4> HIDE DEF c
        <4>3. ConnsOf(c) = ConnsOf(call[p]) /\ StmtsOf(c) = StmtsOf(call[p])
          BY <3>1, <4>1 DEF ConnsOf, StmtsOf
        <4> QED BY <2>2, <3>1, <3>3, <4>1, <4>2, <4>3
      <3> QED BY <2>1, <3>1, <3>2, <3>3, ReturnCloses
    <2>8. CASE Done(p)
      <3>1. call[p].at \in {"step", "row"} /\ cursor'[p] = cursor[p] /\ Return(p, ReadCode(call[p]))
        BY <2>8 DEF Done
      <3> QED BY <2>1, <3>1, ReturnCloses
    <2>9. ASSUME NEW at \in {"commit", "end"}, call[p].at \in {"exec", "commit"},
                 Continue(p, [call[p] EXCEPT !.at = at]), UNCHANGED open, UNCHANGED cursor
          PROVE  Good(p)'
      <3> DEFINE c == [call[p] EXCEPT !.at = at]
      <3>1. c \in Call /\ c.fn = call[p].fn /\ c.vacuum = call[p].vacuum /\ c.at = at
        BY <2>1 DEF Call
      <3>2. call'[p] = c
        BY <2>3, <2>9
      <3> HIDE DEF c
      <3>3. ConnsOf(c) = ConnsOf(call[p]) /\ StmtsOf(c) = StmtsOf(call[p])
        BY <2>9, <3>1 DEF ConnsOf, StmtsOf
      <3> QED BY <2>2, <2>9, <3>1, <3>2, <3>3
    <2>10. CASE Exec(p)
      <3>1. call[p].at = "exec" /\ cursor'[p] = cursor[p] /\ UNCHANGED cursor
        BY <2>10 DEF Exec, At
      <3>2. \/ Return(p, FailCode(call[p])) \/ Succeeds(p, call, FALSE)
            \/ Continue(p, [call[p] EXCEPT !.at = "commit"]) /\ UNCHANGED open
        BY <2>10 DEF Exec
      <3>3. Succeeds(p, call, FALSE) => DoneTo(p, call[p], Marked(call[p], FALSE))
        BY <2>1, SucceedsTo DEF Typed
      <3>4. Marked(call[p], FALSE) \in Call /\ Marked(call[p], FALSE).fn = call[p].fn
        BY <2>1, MarkedIs
      <3> QED BY <2>1, <2>9, <3>1, <3>2, <3>3, <3>4, ReturnCloses, DoneCloses
    <2>11. CASE Commit(p)
      <3>1. call[p].at = "commit" /\ cursor'[p] = cursor[p] /\ UNCHANGED cursor
        BY <2>11 DEF Commit, At
      <3>2. \/ Return(p, FailCode(call[p]))
            \/ Continue(p, [call[p] EXCEPT !.at = "end"]) /\ UNCHANGED open
        BY <2>11 DEF Commit
      <3> QED BY <2>1, <2>9, <3>1, <3>2, ReturnCloses
    <2>12. CASE End(p)
      <3>1. call[p].at = "end" /\ cursor'[p] = cursor[p]
        BY <2>12 DEF End, At
      <3>2. db' \in Contents
        BY <2>1, <2>12, AfterTyped DEF End, Typed
      <3>3. AtEnd(p) \in Call /\ AtEnd(p).fn = call[p].fn
        BY <2>1, <3>2, AtEndIs
      <3>4. DoneTo(p, call[p], AtEnd(p))
        BY <2>1, <2>12, <3>2, EndTo
      <3> QED BY <2>1, <3>1, <3>3, <3>4, DoneCloses
    <2> QED BY <1>8, <2>4, <2>5, <2>6, <2>7, <2>8, <2>10, <2>11, <2>12, SMTT(40) DEF CallStep
  <1> QED BY <1>3, <1>4, <1>5, <1>6, <1>7, <1>8 DEF LayerStep
-----------------------------------------------------------------------------
(* Who writes.                                                             *)

\* Of two calls alike in fn, key and vacuum both or none change something.
LEMMA ChangesAlike ==
  ASSUME NEW c \in Call, NEW b \in Call, b.fn = c.fn, b.key = c.key, b.vacuum = c.vacuum,
         db' = db
  PROVE  Changes(b)' = Changes(c) /\ Changes(b) = Changes(c)
  BY DEF Changes

\* What a step of p does about writing: none of it before, begins, comes to the
\* end, goes on, or is done.
WritesTo(p) ==
  \/ lock'[p] \in {"none", "shared"} /\ (call'[p] # None => call'[p].at \notin {"commit", "end"})
  \/ /\ lock'[p] \in {"reserved", "exclusive"} /\ db' = db
     /\ call[p] # None /\ call[p].at \in {"exec", "commit"}
     /\ call[p].at = "exec" => Changes(call[p]) /\ \A q \in Others(p) : ~IsWriting(q)
     /\ \E at \in {"commit", "end"} : call'[p] = [call[p] EXCEPT !.at = at]

LEMMA WritingTo ==
  ASSUME Typed, Phases, Writing, NEW p \in Procs, CallStep(p)
  PROVE  WritesTo(p)
  <1>1. call[p] \in Call /\ call[p] # None /\ lock[p] \in {"none", "shared", "reserved", "exclusive"}
        /\ (IsWriting(p) <=> call[p].at \in {"commit", "end"})
    BY CallTo DEF Writing, Typed
  <1>2. \A rc : Return(p, rc) => call'[p] = None
    BY DEF Return, Typed
  <1>3. \A c : Continue(p, c) => call'[p] = c
    BY DEF Continue, Typed
  <1>4. CASE Open(p)
    <2>1. lock'[p] = lock[p] /\ ~IsWriting(p)
      BY <1>1, <1>4 DEF Open, At
    <2>2. call'[p].at \in {"prepare", "exec"}
      BY <1>1, <1>3, <1>4 DEF Open, Call
    <2> QED BY <1>1, <2>1, <2>2 DEF WritesTo, IsWriting
  <1>5. CASE OpenFails(p)
    BY <1>1, <1>2, <1>5 DEF OpenFails, At, Ends, Typed, WritesTo, IsWriting
  <1>6. CASE Prepare(p)
    <2>1. lock'[p] = lock[p] /\ ~IsWriting(p)
      BY <1>1, <1>6 DEF Prepare, At
    <2>2. call'[p] = None \/ call'[p].at = "step"
      BY <1>1, <1>6, CallTo, ZenonT(90) DEF Prepare, At, Call, CallStep
    <2> QED BY <1>1, <2>1, <2>2 DEF WritesTo, IsWriting
  <1>7. CASE Step(p)
    <2>1. call[p].at \in {"step", "row"}
      BY <1>7 DEF Step
    <2>2. lock'[p] = lock[p] \/ lock'[p] \in {"none", "shared"}
      BY <1>7 DEF Step, Typed
    <2>3. call'[p] = None \/ call'[p].at \in {"step", "row"}
      <3>1. CASE Return(p, FailCode(call[p]))
        BY <1>2, <3>1
      <3>2. ASSUME NEW at \in {"step", "row"}, NEW text,
                   Continue(p, [call[p] EXCEPT !.at = at, !.count = 1, !.text = text])
            PROVE  call'[p].at \in {"step", "row"}
        BY <1>1, <1>3, <3>2 DEF Call
      <3>3. QED
        BY <1>7, <3>1, <3>2 DEF Step
    <2> QED BY <1>1, <2>1, <2>2, <2>3 DEF WritesTo, IsWriting
  <1>8. CASE Done(p)
    BY <1>2, <1>8 DEF Done, Typed, WritesTo
  <1>9. CASE Exec(p)
    <2>1. call[p].at = "exec" /\ db' = db
      BY <1>9 DEF Exec, At
    <2>2. \/ Return(p, FailCode(call[p])) /\ UNCHANGED lock
          \/ Succeeds(p, call, FALSE) /\ UNCHANGED lock
          \/ /\ \A q \in Others(p) : ~IsWriting(q)
             /\ Changes(call[p])
             /\ Continue(p, [call[p] EXCEPT !.at = "commit"])
             /\ lock' = [lock EXCEPT ![p] = "reserved"]
      BY <1>9 DEF Exec, IsWriting
    <2>3. CASE Return(p, FailCode(call[p])) /\ UNCHANGED lock
      BY <1>1, <1>2, <2>1, <2>3 DEF WritesTo, IsWriting
    <2>4. CASE Succeeds(p, call, FALSE) /\ UNCHANGED lock
      <3>1. DoneTo(p, call[p], Marked(call[p], FALSE))
        BY <1>1, <2>4, SucceedsTo DEF Typed
      <3>2. Marked(call[p], FALSE) \in Call
        BY <1>1, MarkedIs
      <3>3. call'[p] = None \/ call'[p].at = "open"
        BY <3>1, <3>2 DEF DoneTo, Call
      <3> QED BY <1>1, <2>1, <2>4, <3>3 DEF WritesTo, IsWriting
    <2>5. CASE /\ \A q \in Others(p) : ~IsWriting(q)
               /\ Changes(call[p])
               /\ Continue(p, [call[p] EXCEPT !.at = "commit"])
               /\ lock' = [lock EXCEPT ![p] = "reserved"]
      <3>1. lock'[p] = "reserved" /\ call'[p] = [call[p] EXCEPT !.at = "commit"]
        BY <1>3, <2>5 DEF Typed
      <3> QED BY <1>1, <2>1, <2>5, <3>1 DEF WritesTo
    <2> QED BY <2>2, <2>3, <2>4, <2>5
  <1>10. CASE Commit(p)
    <2>1. call[p].at = "commit" /\ db' = db
      BY <1>10 DEF Commit, At
    <2>2. \/ Return(p, FailCode(call[p])) /\ lock' = [lock EXCEPT ![p] = "none"]
          \/ /\ Continue(p, [call[p] EXCEPT !.at = "end"])
             /\ lock' = [lock EXCEPT ![p] = "exclusive"]
      BY <1>10 DEF Commit
    <2>3. CASE Return(p, FailCode(call[p])) /\ lock' = [lock EXCEPT ![p] = "none"]
      BY <1>2, <2>3 DEF Typed, WritesTo
    <2>4. CASE /\ Continue(p, [call[p] EXCEPT !.at = "end"])
               /\ lock' = [lock EXCEPT ![p] = "exclusive"]
      <3>1. lock'[p] = "exclusive" /\ call'[p] = [call[p] EXCEPT !.at = "end"]
        BY <1>3, <2>4 DEF Typed
      <3> QED BY <1>1, <2>1, <3>1 DEF WritesTo
    <2> QED BY <2>2, <2>3, <2>4
  <1>11. CASE End(p)
    <2>1. db' \in Contents /\ call[p].at = "end" /\ lock'[p] = "none"
      BY <1>1, <1>11, AfterTyped DEF End, Typed, At
    <2>2. DoneTo(p, call[p], AtEnd(p)) /\ AtEnd(p) \in Call
      BY <1>1, <1>11, <2>1, EndTo, AtEndIs
    <2>3. call'[p] = None \/ call'[p].at = "open"
      BY <2>2 DEF DoneTo, Call
    <2> QED BY <2>1, <2>3 DEF WritesTo
  <1> QED BY <1>4, <1>5, <1>6, <1>7, <1>8, <1>9, <1>10, <1>11 DEF CallStep

\* The table changes at the end of a call that writes, and only then.
LEMMA TableStays ==
  ASSUME Writing, NEW p \in Procs, LayerStep(p), ~IsWriting(p)
  PROVE  db' = db
  <1>1. ~End(p)
    BY DEF End, At, Writing
  <1> QED BY <1>1 DEF LayerStep, Starts, Start, Forgets, Ends, SelectStep, SelectColumn, Finalize,
             CallStep, Open, OpenFails, Prepare, Step, Done, Exec, Commit

LEMMA WritingKept ==
  ASSUME Typed, Phases, Writing, NEW p \in Procs, LayerStep(p)
  PROVE  Writing'
  <1>1. Typed'
    BY TypedKept
  <1>2. ASSUME NEW q \in Procs, q # p
        PROVE  /\ lock'[q] = lock[q]
               /\ IsWriting(q)' <=> call'[q] # None /\ call'[q].at \in {"commit", "end"}
               /\ IsWriting(q) /\ ~IsWriting(p) => Changes(call[q])'
    <2>1. lock'[q] = lock[q] /\ (IsWriting(q)' <=> IsWriting(q))
      BY <1>2, OthersStay DEF IsWriting
    <2>2. CASE call'[q] = call[q]
      BY <1>2, <2>1, <2>2, TableStays DEF Writing, Changes
    <2>3. CASE call[q] # None /\ call'[q] = Listening(call[q], db')
      <3>1. call[q] \in Call /\ db' \in Contents
        BY <1>1, <2>3 DEF Typed
      <3>2. call'[q] \in Call /\ call'[q].fn = call[q].fn /\ call'[q].key = call[q].key
            /\ call'[q].at = call[q].at /\ call'[q].vacuum = call[q].vacuum
        BY <2>3, <3>1, ListeningIs
      <3>3. ~IsWriting(p) => db' = db
        BY TableStays
      <3> QED BY <2>1, <2>3, <3>1, <3>2, <3>3, NoneAssumption DEF Writing, Changes
    <2> QED BY <1>2, <2>2, <2>3, OthersStay
  <1>3. CASE ~CallStep(p)
    <2>1. \/ lock'[p] = lock[p] /\ call'[p] = call[p] /\ db' = db
          \/ lock'[p] = "none" /\ call'[p] = None /\ db' = db
          \/ call[p] = None /\ lock'[p] = lock[p] /\ call'[p].at = "open" /\ db' = db
      <3>1. Starts(p) => call[p] = None /\ lock'[p] = lock[p] /\ call'[p].at = "open" /\ db' = db
        BY DEF Starts, Start, Typed
      <3>2. Ends(p) => lock'[p] = "none" /\ call'[p] = None /\ db' = db
        BY DEF Ends, Typed
      <3>3. Forgets(p) \/ SelectStep(p) \/ SelectColumn(p) \/ Finalize(p) =>
              lock' = lock /\ call' = call /\ db' = db
        BY DEF Forgets, SelectStep, SelectColumn, Finalize
      <3> QED BY <1>3, <3>1, <3>2, <3>3 DEF LayerStep
    <2>2. /\ IsWriting(p)' <=> call'[p] # None /\ call'[p].at \in {"commit", "end"}
          /\ IsWriting(p)' => Changes(call[p])' /\ IsWriting(p)
      BY <2>1 DEF Writing, IsWriting, Changes
    <2>3. \A q \in Procs : q # p /\ IsWriting(q) => Changes(call[q])'
      <3> SUFFICES ASSUME NEW q \in Procs, q # p, IsWriting(q) PROVE Changes(call[q])'
        OBVIOUS
      <3>1. ~IsWriting(p)
        BY DEF Writing
      <3> QED BY <1>2, <3>1
    <2> QED BY <1>2, <2>2, <2>3 DEF Writing, IsWriting
  <1>4. CASE CallStep(p)
    <2>1. WritesTo(p)
      BY <1>4, WritingTo
    <2>2. CASE lock'[p] \in {"none", "shared"} /\ (call'[p] # None => call'[p].at \notin {"commit", "end"})
      <3>1. ~IsWriting(p)'
        BY <2>2 DEF IsWriting
      <3>2. \A q \in Procs : q # p /\ IsWriting(q) => Changes(call[q])'
        BY <1>2 DEF Writing
      <3> QED BY <1>2, <2>2, <3>1, <3>2 DEF Writing, IsWriting
    <2>3. CASE /\ lock'[p] \in {"reserved", "exclusive"} /\ db' = db
               /\ call[p] # None /\ call[p].at \in {"exec", "commit"}
               /\ call[p].at = "exec" => Changes(call[p]) /\ \A q \in Others(p) : ~IsWriting(q)
               /\ \E at \in {"commit", "end"} : call'[p] = [call[p] EXCEPT !.at = at]
      <3>1. call[p] \in Call /\ Changes(call[p])
        BY <2>3 DEF Typed, Writing
      <3>2. \A q \in Procs : q # p => ~IsWriting(q)
        BY <2>3 DEF Writing, Others
      <3>3. /\ call'[p] \in Call /\ call'[p].at \in {"commit", "end"} /\ call'[p].fn = call[p].fn
            /\ call'[p].key = call[p].key /\ call'[p].vacuum = call[p].vacuum
        BY <2>3, <3>1 DEF Call
      <3>4. Changes(call[p])' /\ call'[p] # None
        BY <2>3, <3>1, <3>3, NoneAssumption DEF Changes
      <3>5. IsWriting(p)'
        BY <2>3 DEF IsWriting
      <3>6. \A q \in Procs : q # p => ~IsWriting(q)'
        BY <1>2, <3>2 DEF IsWriting
      <3> QED BY <1>2, <3>3, <3>4, <3>5, <3>6 DEF Writing
    <2> QED BY <2>1, <2>2, <2>3 DEF WritesTo
  <1> QED BY <1>3, <1>4
-----------------------------------------------------------------------------
(* What a call has read.                                                   *)

\* A call hears of every change of the table while it is under way.
LEMMA TableHeard ==
  ASSUME Typed, NEW p \in Procs, LayerStep(p), NEW q \in Procs, q # p, call[q] # None
  PROVE  \/ call'[q] = call[q] /\ db' = db
         \/ call'[q] = Listening(call[q], db')
  <1>1. CASE End(p)
    <2>1. Heard(db') \in [Procs -> {Heard(db')[r] : r \in Procs}]
      BY DEF Heard
    <2>2. call'[q] = Heard(db')[q]
      BY <1>1, <2>1 DEF End, Succeeds
    <2> QED BY <2>2 DEF Heard, Listening
  <1>2. CASE ~End(p)
    <2>1. db' = db
      BY <1>2 DEF LayerStep, Starts, Start, Forgets, Ends, SelectStep, SelectColumn, Finalize,
             CallStep, Open, OpenFails, Prepare, Step, Done, Exec, Commit
    <2> QED BY <2>1, OthersStay
  <1> QED BY <1>1, <1>2

\* What p does with the loop's step.
LEMMA StepTo ==
  ASSUME Typed, Fetched, NEW p \in Procs, Step(p), call[p] \in Call, call'[p] # None
  PROVE  /\ db' = db
         /\ call'[p] \in Call /\ Fetch(call'[p], db') /\ call'[p].wrote = call[p].wrote
         /\ call'[p].vacuum = call[p].vacuum /\ call'[p].since = call[p].since
         /\ call'[p].key = call[p].key
  <1> DEFINE rc == StepResult(p)
             at == IF rc = "SQLITE_ROW" THEN "row" ELSE "step"
             v == Shown(call[p].fn, IF rc = "SQLITE_ROW" THEN db[call[p].key] ELSE Null)
             c == [call[p] EXCEPT !.at = at, !.count = 1, !.text = v]
  <1>1. \A code : Return(p, code) => call'[p] = None
    BY DEF Return, Typed
  <1>2. Continue(p, c) /\ db' = db
    BY <1>1 DEF Step
  <1>3. call'[p] = c
    BY <1>2 DEF Continue, Typed
  <1>4. v \in Values \cup {NullText, Null} /\ at \in {"row", "step"}
    BY ShownTyped
  <1>5. /\ c \in Call /\ c.at = at /\ c.count = 1 /\ c.text = v /\ c.fn = call[p].fn
        /\ c.key = call[p].key /\ c.since = call[p].since
        /\ c.wrote = call[p].wrote /\ c.vacuum = call[p].vacuum
    <2> HIDE DEF v, at
    <2> QED BY <1>4 DEF Call
  <1>6. db \in call[p].since
    BY NoneAssumption DEF Fetched, Fetch
  <1>7. at = "step" => v = Shown(call[p].fn, Null)
    OBVIOUS
  <1>8. at = "row" => Explained(call[p].fn, v, call[p].key, call[p].since)
    BY <1>6 DEF Explained
  <1> HIDE DEF v, at, c
  <1>9. Fetch(c, db')
    BY <1>2, <1>4, <1>5, <1>6, <1>7, <1>8 DEF Fetch, Explained
  <1> QED BY <1>2, <1>3, <1>5, <1>9

LEMMA FetchedKept ==
  ASSUME Typed, Phases, Fetched, NEW p \in Procs, LayerStep(p)
  PROVE  Fetched'
  <1> DEFINE Good(q) == call[q] # None => Fetch(call[q], db)
  <1>1. Typed'
    BY TypedKept
  <1>2. \A q \in Procs : q # p => Good(q)'
    <2> SUFFICES ASSUME NEW q \in Procs, q # p, call'[q] # None PROVE Fetch(call'[q], db')
      OBVIOUS
    <2>1. call[q] # None /\ call[q] \in Call /\ Fetch(call[q], db) /\ db' \in Contents
      BY <1>1, OthersStay DEF Typed, Fetched
    <2>2. CASE call'[q] = call[q] /\ db' = db
      BY <2>1, <2>2 DEF Fetch, Explained
    <2>3. CASE call'[q] = Listening(call[q], db')
      <3> DEFINE b == call'[q]
      <3>1. /\ b.fn = call[q].fn /\ b.key = call[q].key /\ b.at = call[q].at
            /\ b.since = call[q].since \cup {db'}
        BY <2>1, <2>3, ListeningIs
      <3>2. b.count = call[q].count /\ b.text = call[q].text
        BY <2>1, <2>3 DEF Listening, Call
      <3> HIDE DEF b
      <3>3. Fetch(b, db')
        BY <2>1, <3>1, <3>2 DEF Fetch, Explained
      <3> QED BY <3>3 DEF b
    <2> QED BY <2>1, <2>2, <2>3, TableHeard
  <1> SUFFICES ASSUME call'[p] # None PROVE Fetch(call'[p], db')
    BY <1>2 DEF Fetched
  <1>3. CASE Starts(p)
    <2>1. PICK c \in Callable : Start(p, c.fn, c.key, c.set)
      BY <1>3 DEF Starts
    <2>2. call'[p].since = {db} /\ call'[p].at = "open" /\ call'[p].count = 0 /\ db' = db
      BY <2>1 DEF Start, Typed
    <2> QED BY <2>2 DEF Fetch
  <1>4. CASE Forgets(p) \/ SelectStep(p) \/ SelectColumn(p) \/ Finalize(p)
    <2>1. call' = call /\ db' = db
      BY <1>4 DEF Forgets, SelectStep, SelectColumn, Finalize
    <2> QED BY <2>1 DEF Fetched, Fetch, Explained
  <1>5. CASE Ends(p)
    BY <1>5 DEF Ends, Typed
  <1>6. CASE CallStep(p)
    <2>1. call[p] \in Call /\ call[p] # None /\ Fetch(call[p], db)
      BY <1>6, CallTo DEF Fetched
    <2>2. ASSUME db' = db, NEW at, call'[p] = [call[p] EXCEPT !.at = at],
                 call[p].at \notin {"step", "row"}, at # "row"
          PROVE  Fetch(call'[p], db')
      <3>1. /\ call'[p].at = at /\ call'[p].since = call[p].since /\ call'[p].count = call[p].count
        BY <2>1, <2>2 DEF Call
      <3> QED BY <2>1, <2>2, <3>1 DEF Fetch
    <2>3. CASE Step(p)
      BY <2>1, <2>3, StepTo
    <2>4. CASE Open(p) \/ Prepare(p) \/ Commit(p)
      <3>1. db' = db /\ call[p].at \in {"open", "prepare", "commit"}
        BY <2>4, SMTT(40) DEF Open, Prepare, Commit, At
      <3>2. \E at \in {"prepare", "exec", "step", "end"} : call'[p] = [call[p] EXCEPT !.at = at]
        BY <1>6, <3>1, CallTo
      <3> QED BY <2>2, <3>1, <3>2
    <2>5. CASE OpenFails(p) \/ Done(p)
      BY <2>5 DEF OpenFails, Done, Return, Ends, Typed
    <2>6. ASSUME NEW b \in Call, DoneTo(p, call[p], b), b.at \in {"exec", "end"},
                 db' \in b.since, b.count = call[p].count, b.at = call[p].at
          PROVE  Fetch(call'[p], db')
      <3>1. call'[p] = [b EXCEPT !.at = "open", !.vacuum = TRUE]
        BY <2>6 DEF DoneTo
      <3>2. call'[p].at = "open" /\ call'[p].since = b.since /\ call'[p].count = b.count
        BY <3>1 DEF Call
      <3> QED BY <2>1, <2>6, <3>2 DEF Fetch
    <2>7. CASE Exec(p)
      <3>1. db' = db /\ call[p].at = "exec"
        BY <2>7 DEF Exec, At
      <3>2. Succeeds(p, call, FALSE) \/ call'[p] = [call[p] EXCEPT !.at = "commit"]
        BY <2>7 DEF Exec, Return, Continue, Typed
      <3>3. CASE Succeeds(p, call, FALSE)
        <4>1. DoneTo(p, call[p], Marked(call[p], FALSE))
          BY <2>1, <3>3, SucceedsTo DEF Typed
        <4>2. /\ Marked(call[p], FALSE) \in Call /\ Marked(call[p], FALSE).at = "exec"
              /\ Marked(call[p], FALSE).since = call[p].since
          BY <2>1, <3>1, MarkedIs
        <4>3. Marked(call[p], FALSE).count = call[p].count
          BY <2>1 DEF Marked, Call
        <4> QED BY <2>1, <2>6, <3>1, <4>1, <4>2, <4>3 DEF Fetch
      <3> QED BY <2>2, <3>1, <3>2, <3>3
    <2>8. CASE End(p)
      <3>1. call[p].at = "end" /\ db' \in Contents
        BY <1>1, <2>8 DEF End, At, Typed
      <3>2. DoneTo(p, call[p], AtEnd(p))
        BY <2>1, <2>8, <3>1, EndTo
      <3>3. AtEnd(p) \in Call /\ AtEnd(p).at = "end" /\ db' \in AtEnd(p).since
        BY <2>1, <3>1, AtEndIs
      <3>4. AtEnd(p).count = call[p].count
        <4>1. Listening(call[p], db').count = call[p].count /\ Listening(call[p], db') \in Call
          BY <2>1, <3>1, ListeningIs DEF Listening, Call
        <4> QED BY <4>1 DEF AtEnd, Marked, Call
      <3> QED BY <2>6, <3>1, <3>2, <3>3, <3>4
    <2> QED BY <1>6, <2>3, <2>4, <2>5, <2>7, <2>8 DEF CallStep
  <1> QED BY <1>3, <1>4, <1>5, <1>6 DEF LayerStep
-----------------------------------------------------------------------------
(* What a call has committed.                                              *)

\* A statement done, with or without a change of the table.
LEMMA ExecTo ==
  ASSUME Typed, Phases, Fetched, Committed, NEW p \in Procs, Exec(p), call[p] \in Call,
         Succeeds(p, call, FALSE), Writing, ~Changes(call[p])
  PROVE  /\ ~call[p].vacuum /\ call[p].fn \in {"update", "delete"}
         /\ db[call[p].key] = NoRow /\ db \in call[p].since
         /\ DoneTo(p, call[p], Marked(call[p], FALSE))
  <1>1. call[p] # None /\ call[p].fn \in Writers
    BY NoneAssumption DEF Phases, Phase, Exec, At
  <1>2. db \in call[p].since
    BY <1>1 DEF Fetched, Fetch
  <1>3. DoneTo(p, call[p], Marked(call[p], FALSE))
    BY SucceedsTo DEF Typed
  <1>4. ~call[p].vacuum /\ call[p].fn \in {"update", "delete"} /\ db[call[p].key] = NoRow
    BY <1>1 DEF Changes, Writers
  <1> QED BY <1>2, <1>3, <1>4

\* Exec lets a statement succeed at once only if it changes nothing.
LEMMA ExecChanges ==
  ASSUME Typed, NEW p \in Procs, Exec(p), call[p] \in Call
  PROVE  \/ Return(p, FailCode(call[p]))
         \/ Succeeds(p, call, FALSE) /\ ~Changes(call[p])
         \/ Continue(p, [call[p] EXCEPT !.at = "commit"])
  BY DEF Exec

LEMMA CommittedKept ==
  ASSUME Typed, Phases, Writing, Fetched, Committed, NEW p \in Procs, LayerStep(p)
  PROVE  Committed'
  <1>1. Typed'
    BY TypedKept
  <1>2. \A q \in Procs : q # p /\ call'[q] # None => Commitment(call'[q])
    <2> SUFFICES ASSUME NEW q \in Procs, q # p, call'[q] # None PROVE Commitment(call'[q])
      OBVIOUS
    <2>1. call[q] # None /\ call[q] \in Call /\ Commitment(call[q]) /\ db' \in Contents
      BY <1>1, OthersStay DEF Typed, Committed
    <2>2. CASE call'[q] = Listening(call[q], db')
      <3> DEFINE b == call'[q]
      <3>1. /\ b.key = call[q].key /\ b.vacuum = call[q].vacuum
            /\ b.since = call[q].since \cup {db'} /\ b.wrote = call[q].wrote
        BY <2>1, <2>2, ListeningIs
      <3> HIDE DEF b
      <3>2. Commitment(b)
        BY <2>1, <3>1 DEF Commitment
      <3> QED BY <3>2 DEF b
    <2> QED BY <2>1, <2>2, OthersStay
  <1> SUFFICES ASSUME call'[p] # None PROVE Commitment(call'[p])
    BY <1>2 DEF Committed
  <1>3. CASE Starts(p)
    <2>1. PICK c \in Callable : Start(p, c.fn, c.key, c.set)
      BY <1>3 DEF Starts
    <2>2. call'[p].wrote = FALSE /\ call'[p].vacuum = FALSE
      BY <2>1 DEF Start, Typed
    <2> QED BY <2>2 DEF Commitment
  <1>4. CASE Forgets(p) \/ SelectStep(p) \/ SelectColumn(p) \/ Finalize(p)
    BY <1>4 DEF Forgets, SelectStep, SelectColumn, Finalize, Committed
  <1>5. CASE Ends(p)
    BY <1>5 DEF Ends, Typed
  <1>6. CASE CallStep(p)
    <2>1. call[p] \in Call /\ call[p] # None /\ Commitment(call[p]) /\ Phase(call[p])
      BY <1>6, CallTo DEF Committed, Phases
    <2>2. ASSUME NEW at, call'[p] = [call[p] EXCEPT !.at = at]
          PROVE  Commitment(call'[p])
      <3>1. /\ call'[p].key = call[p].key /\ call'[p].vacuum = call[p].vacuum
            /\ call'[p].since = call[p].since /\ call'[p].wrote = call[p].wrote
        BY <2>1, <2>2 DEF Call
      <3> QED BY <2>1, <3>1 DEF Commitment
    <2>3. CASE Step(p)
      BY <2>1, <2>3, StepTo DEF Commitment
    <2>4. CASE Open(p) \/ Prepare(p) \/ Commit(p)
      <3>1. call[p].at \in {"open", "prepare", "commit"}
        BY <2>4 DEF Open, Prepare, Commit, At
      <3>2. \E at \in {"prepare", "exec", "step", "end"} : call'[p] = [call[p] EXCEPT !.at = at]
        BY <1>6, <3>1, CallTo
      <3> QED BY <2>2, <3>2
    <2>5. CASE OpenFails(p) \/ Done(p)
      BY <2>5 DEF OpenFails, Done, Return, Ends, Typed
    <2>6. ASSUME NEW b \in Call, DoneTo(p, call[p], b), b.key = call[p].key,
                 b.wrote \/ \E d \in b.since : d[b.key] = NoRow
          PROVE  Commitment(call'[p])
      <3>1. call'[p] = [b EXCEPT !.at = "open", !.vacuum = TRUE]
        BY <2>6 DEF DoneTo
      <3>2. call'[p].vacuum /\ call'[p].since = b.since /\ call'[p].wrote = b.wrote /\ call'[p].key = b.key
        BY <3>1 DEF Call
      <3> QED BY <2>6, <3>2 DEF Commitment
    <2>7. CASE Exec(p)
      <3>1. \/ Succeeds(p, call, FALSE) /\ ~Changes(call[p])
            \/ call'[p] = [call[p] EXCEPT !.at = "commit"]
        BY <2>1, <2>7, ExecChanges DEF Return, Continue, Typed
      <3>2. CASE Succeeds(p, call, FALSE) /\ ~Changes(call[p])
        <4>1. /\ db[call[p].key] = NoRow /\ db \in call[p].since
              /\ DoneTo(p, call[p], Marked(call[p], FALSE))
          BY <2>1, <2>7, <3>2, ExecTo
        <4>2. /\ Marked(call[p], FALSE) \in Call /\ Marked(call[p], FALSE).key = call[p].key
              /\ Marked(call[p], FALSE).since = call[p].since
          BY <2>1, MarkedIs
        <4> QED BY <2>6, <4>1, <4>2
      <3> QED BY <2>2, <3>1, <3>2
    <2>8. CASE End(p)
      <3>1. db' \in Contents
        BY <1>1 DEF Typed
      <3>2. DoneTo(p, call[p], AtEnd(p))
        BY <2>1, <2>8, <3>1, EndTo
      <3>3. AtEnd(p) \in Call /\ AtEnd(p).key = call[p].key /\ (AtEnd(p).wrote <=> call[p].wrote \/ ~call[p].vacuum)
        BY <2>1, <3>1, AtEndIs
      <3>4. ~call[p].vacuum
        BY <3>2 DEF DoneTo
      <3> QED BY <2>6, <3>2, <3>3, <3>4
    <2> QED BY <1>6, <2>3, <2>4, <2>5, <2>7, <2>8 DEF CallStep
  <1> QED BY <1>3, <1>4, <1>5, <1>6 DEF LayerStep

-----------------------------------------------------------------------------
(* Results.                                                                *)

\* ReadsWhatWas and WritesAreReported, of one result.
ReadRight(r) ==
  /\ (r.fn \in ReadOnly \cup {"select_column"} /\ r.rc = "RC_OK") =>
       \E d \in r.since : \/ r.text = Shown(r.fn, d[r.key])
                          \/ r.fn = "select_column" /\ r.text = Null
  /\ r.rc = "RC_ERR_NO_REG" => \E d \in r.since : d[r.key] = NoRow

WriteRight(r) ==
  r.fn \in Writers =>
    /\ r.wrote => r.rc = "RC_OK"
    /\ r.rc = "RC_OK" => r.wrote \/ (r.fn = "delete" /\ \E d \in r.since : d[r.key] = NoRow)

\* A call that fails says so, but for the VACUUM behind a delete.
LEMMA FailureRight ==
  ASSUME NEW c \in Call, Phase(c), Commitment(c)
  PROVE  ReadRight(Result(c, FailCode(c))) /\ WriteRight(Result(c, FailCode(c)))
  <1> DEFINE rc == FailCode(c)
  <1>1. ~c.vacuum => rc \notin {"RC_OK", "RC_ERR_NO_REG"}
    BY DEF FailCode, Call, Functions, Readers, ReadOnly, Getters, Writers
  <1>2. c.vacuum => rc = "RC_OK" /\ c.fn = "delete"
    BY DEF FailCode, Phase
  <1> HIDE DEF rc
  <1>3. ReadRight(Result(c, rc)) /\ WriteRight(Result(c, rc))
    BY <1>1, <1>2 DEF Commitment, ReadRight, WriteRight, Result, ReadOnly, Getters
  <1> QED BY <1>3 DEF rc

\* A loop that ends has found the row, or there was none.
LEMMA ReadingRight ==
  ASSUME NEW p \in Procs, Done(p), call[p] \in Call, Phase(call[p]), Fetch(call[p], db)
  PROVE  LET r == Result(call[p], ReadCode(call[p]))
         IN  ReadRight(r) /\ WriteRight(r)
  <1> DEFINE c == call[p]
  <1>1. c.at \in {"step", "row"} /\ c.fn \in ReadOnly /\ c.count \in {0, 1} /\ db \in c.since
    BY DEF Done, Phase, Call, Fetch
  <1>2. c.at = "row" \/ (db[c.key] = NoRow /\ c.fn # "GetLines")
    BY DEF Done, LoopEnds, StepResult
  <1>3. Shown(c.fn, Null) = Shown(c.fn, NoRow)
    BY ValuesAssumption DEF Shown
  <1>4. c.count = 1 => \E d \in c.since : c.text = Shown(c.fn, d[c.key])
    BY <1>1, <1>2, <1>3 DEF Fetch, Explained
  <1>5. c.count = 0 => db[c.key] = NoRow
    BY <1>1, <1>2 DEF Fetch
  <1>6. ReadCode(c) = "RC_OK" => c.count = 1
    BY DEF ReadCode
  <1>7. ReadCode(c) = "RC_ERR_NO_REG" => c.count = 0
    BY <1>1 DEF ReadCode
  <1> HIDE DEF c
  <1>8. ReadRight(Result(c, ReadCode(c))) /\ WriteRight(Result(c, ReadCode(c)))
    BY <1>1, <1>4, <1>5, <1>6, <1>7
       DEF ReadRight, WriteRight, Result, ReadOnly, Getters, Writers
  <1> QED BY <1>8 DEF c

\* A call that writes and is done says so.
LEMMA WritingRight ==
  ASSUME NEW b \in Call, b.fn \in Writers,
         \/ ~Changes(b) /\ b.fn = "update" /\ ~b.wrote
         \/ Changes(b) /\ (b.wrote \/ (b.fn = "delete" /\ \E d \in b.since : d[b.key] = NoRow))
  PROVE  ReadRight(Result(b, WriteCode(b))) /\ WriteRight(Result(b, WriteCode(b)))
  <1>1. WriteCode(b) \in {"RC_OK", "RC_ERR_ZERO_DATA_UPDATE"}
    BY DEF WriteCode
  <1>2. Changes(b) => WriteCode(b) = "RC_OK"
    BY DEF WriteCode
  <1>3. ~Changes(b) /\ b.fn = "update" => WriteCode(b) = "RC_ERR_ZERO_DATA_UPDATE"
    BY DEF WriteCode
  <1> QED BY <1>1, <1>2, <1>3
          DEF ReadRight, WriteRight, Result, ReadOnly, Getters, Writers

\* Each result is right when it comes, and stays as it is.
LEMMA ResultsKept ==
  ASSUME IInv, NEW p \in Procs, LayerStep(p)
  PROVE  (ReadsWhatWas /\ WritesAreReported)'
  <1> USE DEF IInv
  <1>1. SUFFICES ASSUME result'[p] # None PROVE ReadRight(result'[p]) /\ WriteRight(result'[p])
    <2>1. \A q \in Procs : result'[q] # None => ReadRight(result'[q]) /\ WriteRight(result'[q])
      BY <1>1, OthersStay DEF ReadsWhatWas, WritesAreReported, ReadRight, WriteRight
    <2> QED BY <2>1 DEF ReadsWhatWas, WritesAreReported, ReadRight, WriteRight
  <1>2. (ReadRight(result[p]) /\ WriteRight(result[p])) \/ result[p] = None
    BY DEF ReadsWhatWas, WritesAreReported, ReadRight, WriteRight
  <1>3. CASE result'[p] = result[p]
    BY <1>1, <1>2, <1>3
  <1>4. CASE Starts(p) \/ Forgets(p) \/ Finalize(p) \/ Ends(p)
    BY <1>1, <1>4 DEF Starts, Start, Forgets, Finalize, Ends, Typed
  <1>5. CASE SelectStep(p)
    <2>1. PICK rc \in {"RC_ERR_NO_SKIP", "RC_OK", "RC_ERR_EOF"} : CursorResult(p, "select_step", rc, None)
      BY <1>5 DEF SelectStep
    <2>2. result'[p] = [fn |-> "select_step", key |-> cursor[p].key, rc |-> rc, text |-> None,
                        since |-> {db}, wrote |-> FALSE]
      BY <2>1 DEF CursorResult, Typed
    <2> QED BY <2>2 DEF ReadRight, WriteRight, ReadOnly, Getters, Writers
  <1>6. CASE SelectColumn(p)
    <2> DEFINE text == IF cursor[p].row THEN Shown("select_column", db[cursor[p].key]) ELSE Null
    <2>1. CursorResult(p, "select_column", "RC_OK", text)
      BY <1>6 DEF SelectColumn
    <2>2. text = Null \/ text = Shown("select_column", db[cursor[p].key])
      OBVIOUS
    <2> HIDE DEF text
    <2>3. result'[p] = [fn |-> "select_column", key |-> cursor[p].key, rc |-> "RC_OK", text |-> text,
                        since |-> {db}, wrote |-> FALSE]
      BY <2>1 DEF CursorResult, Typed
    <2> QED BY <2>2, <2>3 DEF ReadRight, WriteRight, Writers
  <1>7. CASE CallStep(p)
    <2>1. /\ call[p] \in Call /\ call[p] # None /\ Phase(call[p])
          /\ Fetch(call[p], db) /\ Commitment(call[p])
      BY <1>7, CallTo DEF Phases, Fetched, Committed
    <2>2. \A rc : Return(p, rc) => result'[p] = Result(call[p], rc)
      BY DEF Return, Typed
    <2>3. \A c : Continue(p, c) => result'[p] = result[p]
      BY DEF Continue
    <2>4. Return(p, FailCode(call[p])) => ReadRight(result'[p]) /\ WriteRight(result'[p])
      BY <2>1, <2>2, FailureRight
    <2>5. CASE Open(p) \/ Commit(p) \/ Step(p)
      <3>1. Return(p, FailCode(call[p])) \/ \E c : Continue(p, c)
        BY <2>5 DEF Open, Commit, Step
      <3> QED BY <1>3, <2>3, <2>4, <3>1
    <2>6. CASE OpenFails(p)
      BY <1>4, <2>4, <2>6 DEF OpenFails
    <2>7. CASE Prepare(p)
      <3>1. \/ Return(p, FailCode(call[p])) \/ \E c : Continue(p, c)
            \/ call[p].fn = "select_prepare" /\ result'[p] = Result(call[p], "RC_OK")
        BY <2>7 DEF Prepare, Typed
      <3>2. call[p].fn = "select_prepare" =>
              ReadRight(Result(call[p], "RC_OK")) /\ WriteRight(Result(call[p], "RC_OK"))
        BY DEF ReadRight, WriteRight, Result, ReadOnly, Getters, Writers
      <3> QED BY <1>3, <2>3, <2>4, <3>1, <3>2
    <2>8. CASE Done(p)
      BY <2>1, <2>2, <2>8, ReadingRight DEF Done
    <2>9. CASE Exec(p)
      <3>1. CASE Succeeds(p, call, FALSE) /\ ~Changes(call[p])
        <4> DEFINE b == Marked(call[p], FALSE)
        <4>1. /\ ~call[p].vacuum /\ call[p].fn \in {"update", "delete"}
              /\ DoneTo(p, call[p], b)
          BY <2>1, <2>9, <3>1, ExecTo
        <4>2. /\ b \in Call /\ b.fn = call[p].fn /\ b.key = call[p].key /\ b.vacuum = call[p].vacuum
              /\ (b.wrote <=> call[p].wrote)
          BY <2>1, MarkedIs
        <4> HIDE DEF b
        <4>3. ~Changes(b) /\ ~b.wrote
          BY <2>1, <3>1, <4>1, <4>2 DEF Changes, Commitment
        <4>4. CASE result'[p] = Result(b, WriteCode(b)) /\ call[p].fn # "delete"
          BY <4>1, <4>2, <4>3, <4>4, WritingRight DEF Writers
        <4> QED BY <1>3, <4>1, <4>4 DEF DoneTo
      <3> QED BY <1>3, <2>1, <2>3, <2>4, <2>9, <3>1, ExecChanges
    <2>10. CASE End(p)
      <3> DEFINE b == AtEnd(p)
      <3>1. db' \in Contents /\ call[p].at = "end"
        BY <2>10, TypedKept DEF Typed, End, At
      <3>2. DoneTo(p, call[p], b)
        BY <2>1, <2>10, <3>1, EndTo
      <3>3. /\ b \in Call /\ b.fn = call[p].fn /\ b.key = call[p].key /\ b.vacuum = call[p].vacuum
            /\ b.since = call[p].since \cup {db'}
            /\ (b.wrote <=> call[p].wrote \/ ~call[p].vacuum)
        BY <2>1, <3>1, AtEndIs
      <3> HIDE DEF b
      <3>4. Changes(call[p]) /\ call[p].fn \in Writers
        BY <2>1, <3>1 DEF Writing, Phase
      <3>5. Changes(b)
        BY <3>3, <3>4 DEF Changes
      <3>6. b.wrote \/ (b.fn = "delete" /\ \E d \in b.since : d[b.key] = NoRow)
        BY <2>1, <3>3 DEF Commitment, Phase
      <3> QED BY <1>3, <3>2, <3>3, <3>4, <3>5, <3>6, WritingRight DEF DoneTo
    <2> QED BY <1>7, <2>5, <2>6, <2>7, <2>8, <2>9, <2>10, SMTT(40) DEF CallStep
  <1> QED BY <1>4, <1>5, <1>6, <1>7 DEF LayerStep
-----------------------------------------------------------------------------
(* The keep-alive and the tool make no other steps in the layer.           *)

\* The request under way still has keys to read.
Asking ==
  req # None =>
    /\ req = [in |-> req.in, out |-> req.out, todo |-> req.todo, whole |-> req.whole, seen |-> req.seen]
    /\ req.todo \in Seq(Keys) /\ req.todo # <<>>

LEMMA NoSetWritten == <<>> \in Written
  <1>1. <<>> \in [{} -> Values \cup {Null, NoRow}]
    OBVIOUS
  <1> QED BY <1>1 DEF Written

\* A call of get_txt is one anybody may make.
LEMMA GetTxtStarts ==
  ASSUME NEW p \in Procs, NEW key \in Keys, Start(p, "get_txt", key, <<>>)
  PROVE  Starts(p)
  <1> DEFINE c == [fn |-> "get_txt", key |-> key, set |-> <<>>]
  <1>1. c \in Callable
    BY NoSetWritten DEF Callable, Functions, Readers, ReadOnly, Getters
  <1> QED BY <1>1 DEF Starts

LEMMA AskingKept ==
  ASSUME Asking, Next
  PROVE  Asking'
  <1>1. CASE Handle
    <2>1. \A model : Reads(model) \in Seq(Keys) /\ Reads(model) # <<>>
      BY KeepAliveAssumption DEF Reads
    <2>2. req' = req \/ \E in, model, whole :
            req' = [in |-> in, out |-> [k \in Keys |-> <<>>], todo |-> Reads(model),
                    whole |-> whole, seen |-> {}]
      BY <1>1 DEF Handle
    <2> QED BY <2>1, <2>2 DEF Asking
  <1>2. CASE Continues
    <2>1. \/ req' = None
          \/ /\ Tail(req.todo) # <<>>
             /\ \E out, seen : req' = [req EXCEPT !.out = out, !.todo = Tail(req.todo), !.seen = seen]
      BY <1>2 DEF Continues
    <2>2. req # None
      BY <1>2 DEF Continues
    <2>3. Tail(req.todo) \in Seq(Keys)
      BY <2>2 DEF Asking
    <2>4. ASSUME Tail(req.todo) # <<>>, NEW out, NEW seen,
                 req' = [req EXCEPT !.out = out, !.todo = Tail(req.todo), !.seen = seen]
          PROVE  Asking'
      <3>1. req = [in |-> req.in, out |-> req.out, todo |-> req.todo, whole |-> req.whole, seen |-> req.seen]
        BY <2>2 DEF Asking
      <3>2. req' = [in |-> req.in, out |-> out, todo |-> Tail(req.todo), whole |-> req.whole, seen |-> seen]
        BY <2>4, <3>1
      <3> QED BY <2>3, <2>4, <3>2 DEF Asking
    <2> QED BY <2>1, <2>4 DEF Asking
  <1>3. CASE TerminalAsks \/ TerminalReads \/ IsmStep \/ IsmOther \/ ToolCall \/ ToolStep
             \/ ToolCursor \/ Kill
    <2>1. req' = req \/ req' = None
      BY <1>3 DEF TerminalAsks, TerminalReads, IsmStep, IsmOther, ToolCall, ToolStep, ToolCursor,
                  Kill, handler
    <2> QED BY <2>1 DEF Asking
  <1> QED BY <1>1, <1>2, <1>3 DEF Next

LEMMA StepsOfTheLayer ==
  ASSUME Typed, Asking, Next
  PROVE  UNCHANGED layer \/ \E p \in Procs : LayerStep(p)
  <1>0. ism \in Procs /\ tool \in Procs /\ Timestamp \in Keys
    BY KeepAliveAssumption
  <1>1. CASE TerminalAsks \/ TerminalReads
    BY <1>1 DEF TerminalAsks, TerminalReads
  <1>2. CASE Handle
    <2>1. UNCHANGED layer \/ Start(ism, "get_txt", Timestamp, <<>>)
      BY <1>2 DEF Handle
    <2> QED BY <1>0, <2>1, GetTxtStarts DEF LayerStep
  <1>3. CASE Continues
    <2>1. \/ Forgets(ism)
          \/ Tail(req.todo) # <<>> /\ Start(ism, "get_txt", Head(Tail(req.todo)), <<>>)
      BY <1>3 DEF Continues, Forgets
    <2>2. req.todo \in Seq(Keys) /\ req.todo # <<>>
      BY <1>3 DEF Continues, Asking
    <2>3. Tail(req.todo) # <<>> => Head(Tail(req.todo)) \in Keys
      BY <2>2
    <2> QED BY <1>0, <2>1, <2>3, GetTxtStarts DEF LayerStep
  <1>4. CASE IsmStep \/ ToolStep
    BY <1>0, <1>4 DEF IsmStep, ToolStep, LayerStep
  <1>5. CASE IsmOther
    <2>1. PICK c \in OtherCalls : Start(ism, c.fn, c.key, c.set)
      BY <1>5 DEF IsmOther
    <2>2. c \in Callable /\ c.fn # "select_prepare"
      BY <2>1, KeepAliveAssumption
    <2> QED BY <1>0, <2>1, <2>2 DEF LayerStep, Starts
  <1>6. CASE ToolCall
    <2>1. PICK c \in ToolCalls : /\ c.fn = "select_prepare" => cursor[tool] = None
                                 /\ Start(tool, c.fn, c.key, c.set)
      BY <1>6 DEF ToolCall
    <2>2. c \in Callable
      BY <2>1, KeepAliveAssumption
    <2> QED BY <1>0, <2>1, <2>2 DEF LayerStep, Starts
  <1>7. CASE ToolCursor
    BY <1>0, <1>7 DEF ToolCursor, LayerStep
  <1>8. CASE Kill
    BY <1>0, <1>8 DEF Kill, LayerStep
  <1> QED BY <1>1, <1>2, <1>3, <1>4, <1>5, <1>6, <1>7, <1>8 DEF Next

-----------------------------------------------------------------------------
(* The theorems about the layer.                                           *)

LEMMA InitIInv ==
  ASSUME Init
  PROVE  IInv /\ Asking
  <1>1. /\ present \in BOOLEAN /\ journal \in BOOLEAN /\ db \in Contents
        /\ lock = [p \in Procs |-> "none"] /\ call = [p \in Procs |-> None]
        /\ open = [p \in Procs |-> Nothing] /\ cursor = [p \in Procs |-> None]
        /\ result = [p \in Procs |-> None] /\ req = None
    BY KeepAliveAssumption DEF Init, LayerInit
  <1>2. Typed
    BY <1>1 DEF Typed, Nothing
  <1>3. Phases /\ Fetched /\ Committed
    BY <1>1 DEF Phases, Fetched, Committed
  <1>4. Handles
    <2> SUFFICES ASSUME NEW p \in Procs
                 PROVE  open[p] = [conns |-> HandleConns(p), stmts |-> HandleStmts(p)]
      BY DEF Handles
    <2>1. HandleConns(p) = 0 /\ HandleStmts(p) = 0
      BY <1>1 DEF HandleConns, HandleStmts
    <2> QED BY <1>1, <2>1 DEF Nothing
  <1>5. Writing
    BY <1>1 DEF Writing, IsWriting
  <1>6. ReadsWhatWas /\ WritesAreReported
    BY <1>1 DEF ReadsWhatWas, WritesAreReported
  <1>7. Asking
    BY <1>1 DEF Asking
  <1> QED BY <1>2, <1>3, <1>4, <1>5, <1>6, <1>7 DEF IInv

LEMMA NextIInv ==
  ASSUME IInv, Asking, [Next]_vars
  PROVE  IInv' /\ Asking'
  <1>1. CASE UNCHANGED vars
    BY <1>1 DEF vars, layer, handler, IInv, Typed, Phases, Handles, HandleConns, HandleStmts,
                Writing, IsWriting, Changes, Fetched, Committed, ReadsWhatWas, WritesAreReported,
                Asking
  <1>2. CASE Next
    <2>1. Asking'
      BY <1>2, AskingKept
    <2>2. CASE UNCHANGED layer
      BY <2>1, <2>2 DEF layer, IInv, Typed, Phases, Handles, HandleConns, HandleStmts,
                Writing, IsWriting, Changes, Fetched, Committed, ReadsWhatWas, WritesAreReported
    <2>3. ASSUME NEW p \in Procs, LayerStep(p)
          PROVE  IInv'
      BY <2>3, TypedKept, PhasesKept, HandlesKept, WritingKept, FetchedKept, CommittedKept, ResultsKept
         DEF IInv
    <2> QED BY <1>2, <2>1, <2>2, <2>3, StepsOfTheLayer DEF IInv
  <1> QED BY <1>1, <1>2

LEMMA AlwaysIInv == Spec => [](IInv /\ Asking)
  <1>1. Init => IInv /\ Asking
    BY InitIInv
  <1>2. IInv /\ Asking /\ [Next]_vars => (IInv /\ Asking)'
    BY NextIInv
  <1> QED BY <1>1, <1>2, PTL DEF Spec

\* No path through a call of the layer forgets a connection or a statement.
THEOREM HandlesAreReturned == Spec => []HandlesReturned
  <1>1. IInv => HandlesReturned
    BY DEF IInv, Handles, HandleConns, HandleStmts, HandlesReturned, Nothing
  <1> QED BY <1>1, AlwaysIInv, PTL

\* A call that says it read something tells what was there during the call.
THEOREM ReadsAreTrue == Spec => []ReadsWhatWas
  <1>1. IInv => ReadsWhatWas
    BY DEF IInv
  <1> QED BY <1>1, AlwaysIInv, PTL

\* A call that writes tells whether it did.
THEOREM WritesAreTrue == Spec => []WritesAreReported
  <1>1. IInv => WritesAreReported
    BY DEF IInv
  <1> QED BY <1>1, AlwaysIInv, PTL

-----------------------------------------------------------------------------
(* Texts.                                                                  *)

\* The length of a text.
Length(t) == Len(t)

\* One text after another.
Then(t, u) == t \o u

\* One text begins another.
Begins(t, u) == Length(t) <= Length(u) /\ \A i \in 1 .. Length(t) : t[i] = u[i]

\* A text has a length, and its characters are numbers.
LEMMA TextIs ==
  ASSUME NEW t \in Text
  PROVE  /\ Length(t) \in Nat /\ \A i \in 1 .. Length(t) : t[i] \in Nat
         /\ t = <<>> <=> Length(t) = 0
  <1>1. Len(t) \in Nat /\ \A i \in 1 .. Len(t) : t[i] \in Nat
    BY LenProperties, ElementOfSeq DEF Text
  <1>2. t = <<>> <=> Len(t) = 0
    BY EmptySeq DEF Text
  <1> QED BY <1>1, <1>2 DEF Length

\* The text without characters is one.
LEMMA NothingIs == <<>> \in Text /\ Length(<<>>) = 0 /\ <<>> \in Short
  <1>1. <<>> \in Text /\ Len(<<>>) = 0
    BY EmptySeq DEF Text
  <1> QED BY <1>1 DEF Length, Short

\* Texts are equal when their characters are.
LEMMA SameText ==
  ASSUME NEW t \in Text, NEW u \in Text, Length(t) = Length(u),
         \A i \in 1 .. Length(t) : t[i] = u[i]
  PROVE  t = u
  BY SeqEqual DEF Text, Length

\* What stands where in two texts joined.
LEMMA JoinedText ==
  ASSUME NEW t \in Text, NEW u \in Text
  PROVE  /\ Then(t, u) \in Text /\ Length(Then(t, u)) = Length(t) + Length(u)
         /\ \A i \in 1 .. Length(t) : Then(t, u)[i] = t[i]
         /\ \A i \in 1 .. Length(u) : Then(t, u)[Length(t) + i] = u[i]
  BY Joined DEF IsJoined, Text, Length, Then

\* A piece of a text.
LEMMA PieceOfText ==
  ASSUME NEW t \in Text, NEW a \in Nat \ {0}, NEW b \in Int, b <= Length(t)
  PROVE  /\ SubSeq(t, a, b) \in Text
         /\ Length(SubSeq(t, a, b)) = IF a <= b THEN (b - a) + 1 ELSE 0
         /\ \A i \in 1 .. (b - a) + 1 : SubSeq(t, a, b)[i] = t[(a + i) - 1]
  <1>1. \A i \in a .. b : t[i] \in Nat
    BY TextIs
  <1>2. /\ SubSeq(t, a, b) \in Seq(Nat)
        /\ Len(SubSeq(t, a, b)) = IF a <= b THEN b - a + 1 ELSE 0
        /\ \A i \in 1 .. b - a + 1 : SubSeq(t, a, b)[i] = t[a + i - 1]
    BY <1>1, SubSeqProperties
  <1> QED BY <1>2 DEF Text, Length

\* The lesser of two numbers.
LEMMA LesserIs ==
  ASSUME NEW m \in Nat, NEW n \in Nat
  PROVE  Min({m, n}) = IF m <= n THEN m ELSE n
  <1>1. {m, n} \subseteq Nat /\ {m, n} # {}
    OBVIOUS
  <1>2. Min({m, n}) \in {m, n} /\ \A y \in {m, n} : Min({m, n}) <= y
    BY <1>1, MinIsLeast
  <1> QED BY <1>2

\* A copy of characters: so many, fewer only at the text's end.
Copies(u, t, at, n) ==
  /\ u \in Text /\ Length(u) <= n
  /\ at + n <= Length(t) => Length(u) = n
  /\ at + n > Length(t) /\ at <= Length(t) => Length(u) = Length(t) - at
  /\ at >= Length(t) => u = <<>>
  /\ \A i \in 1 .. Length(u) : u[i] = t[at + i] /\ at + i <= Length(t)

LEMMA SubstringIs ==
  ASSUME NEW t \in Text, NEW at \in Nat, NEW n \in Nat, NEW u, u = util_String_Substring(t, at, n)
  PROVE  Copies(u, t, at, n)
  <1> DEFINE m == at + n
             e == Min({m, Length(t)})
             a == at + 1
  <1>1. Length(t) \in Nat /\ m \in Nat
    BY TextIs
  <1>2. e = IF m <= Length(t) THEN m ELSE Length(t)
    <2> HIDE DEF m
    <2> QED BY <1>1, LesserIs
  <1> HIDE DEF e
  <1>3. u = SubSeq(t, at + 1, e)
    BY DEF util_String_Substring, Length, e
  <1>4. e \in Int /\ e <= Length(t) /\ a \in Nat \ {0}
    BY <1>1, <1>2
  <1>5. /\ u \in Text
        /\ Length(u) = IF a <= e THEN (e - a) + 1 ELSE 0
        /\ \A i \in 1 .. (e - a) + 1 : u[i] = t[(a + i) - 1]
    <2> HIDE DEF a
    <2>1. u = SubSeq(t, a, e)
      BY <1>3 DEF a
    <2> QED BY <1>4, <2>1, PieceOfText
  <1>6. Length(u) \in Nat /\ (u = <<>> <=> Length(u) = 0)
    BY <1>5, TextIs
  <1>7. \A i \in 1 .. Length(u) : u[i] = t[at + i]
    <2>1. \A i \in 1 .. Length(u) : i \in 1 .. (e - a) + 1 /\ (a + i) - 1 = at + i
      BY <1>1, <1>4, <1>5, <1>6
    <2> QED BY <1>5, <2>1
  <1>8. \A i \in 1 .. Length(u) : at + i <= Length(t)
    BY <1>1, <1>2, <1>4, <1>5, <1>6
  <1>9. /\ Length(u) <= n
        /\ at + n <= Length(t) => Length(u) = n
        /\ at + n > Length(t) /\ at <= Length(t) => Length(u) = Length(t) - at
        /\ at >= Length(t) => Length(u) = 0
    BY <1>1, <1>2, <1>5
  <1> QED BY <1>5, <1>6, <1>7, <1>8, <1>9 DEF Copies

LEMMA Copied == \A t \in Text, at \in Nat, n \in Nat : Copies(util_String_Substring(t, at, n), t, at, n)
  BY SubstringIs

-----------------------------------------------------------------------------
(* TLV texts.                                                              *)

\* The digits of a number of at most three.
IsNumber(t, n) ==
  /\ t \in Text /\ Length(t) = 3
  /\ \A i \in 1 .. 3 : t[i] \in 0 .. 9
  /\ 100 * t[1] + 10 * t[2] + t[3] = n
  /\ 10 * t[1] + t[2] = n \div 10
  /\ n <= 9 => t[1] = 0 /\ t[2] = 0

LEMMA DigitsAre ==
  ASSUME NEW n \in 0 .. 999, NEW t, t = Digits(n)
  PROVE  IsNumber(t, n)
  <1> DEFINE a == n \div 100
             b == (n \div 10) % 10
             c == n % 10
  <1>1. a \in 0 .. 9 /\ b \in 0 .. 9 /\ c \in 0 .. 9
    OBVIOUS
  <1>2. n = 100 * a + 10 * b + c /\ 10 * a + b = n \div 10 /\ (n <= 9 => a = 0 /\ b = 0)
    OBVIOUS
  <1> HIDE DEF a, b, c
  <1>3. t = <<a, b, c>>
    BY DEF Digits, a, b, c
  <1>4. t \in Text /\ Len(t) = 3 /\ t[1] = a /\ t[2] = b /\ t[3] = c
    BY <1>1, <1>3 DEF Text
  <1>5. \A i \in 1 .. 3 : t[i] \in 0 .. 9
    <2>1. \A i \in 1 .. 3 : i = 1 \/ i = 2 \/ i = 3
      OBVIOUS
    <2> QED BY <1>1, <1>4, <2>1
  <1>6. 100 * t[1] + 10 * t[2] + t[3] = n
    BY <1>2, <1>4
  <1>7. 10 * t[1] + t[2] = n \div 10 /\ (n <= 9 => t[1] = 0 /\ t[2] = 0)
    BY <1>2, <1>4
  <1> QED BY <1>4, <1>5, <1>6, <1>7 DEF Length, IsNumber

\* A number has three digits.
\* What three digits can say.
Small == 0 .. 999

LEMMA DigitsTyped == \A n \in Small : IsNumber(Digits(n), n)
  BY DigitsAre DEF Small

\* What atoi makes of digits, or of nothing.
LEMMA AtoiIs ==
  ASSUME NEW s, Length(s) \in 0 .. 3
  PROVE  /\ Length(s) = 0 => Atoi(s) = 0
         /\ Length(s) = 1 /\ s[1] \in 0 .. 9 => Atoi(s) = s[1]
         /\ Length(s) = 2 /\ s[1] \in 0 .. 9 /\ s[2] \in 0 .. 9 => Atoi(s) = 10 * s[1] + s[2]
         /\ Length(s) = 3 /\ s[1] \in 0 .. 9 /\ s[2] \in 0 .. 9 /\ s[3] \in 0 .. 9 =>
              Atoi(s) = 100 * s[1] + 10 * s[2] + s[3]
  BY DEF Atoi, Length

\* atoi gives a number, whatever the characters.
LEMMA AtoiTyped ==
  ASSUME NEW s \in Text
  PROVE  Atoi(s) \in Nat
  <1> DEFINE digit(i) == Len(s) >= i /\ s[i] \in 0 .. 9
  <1>1. Atoi(s) = CASE ~digit(1) -> 0
        [] digit(1) /\ ~digit(2) -> s[1]
        [] digit(1) /\ digit(2) /\ ~digit(3) -> 10 * s[1] + s[2]
        [] digit(1) /\ digit(2) /\ digit(3) -> 100 * s[1] + 10 * s[2] + s[3]
    BY DEF Atoi
  <1>2. \A i \in 1 .. 3 : digit(i) => s[i] \in Nat
    OBVIOUS
  <1> HIDE DEF digit
  <1>3. CASE ~digit(1)
    BY <1>1, <1>3
  <1>4. CASE digit(1) /\ ~digit(2)
    BY <1>1, <1>2, <1>4
  <1>5. CASE digit(1) /\ digit(2) /\ ~digit(3)
    <2>1. Atoi(s) = 10 * s[1] + s[2] /\ s[1] \in Nat /\ s[2] \in Nat
      BY <1>1, <1>2, <1>5
    <2> QED BY <2>1
  <1>6. CASE digit(1) /\ digit(2) /\ digit(3)
    <2>1. Atoi(s) = 100 * s[1] + 10 * s[2] + s[3] /\ s[1] \in Nat /\ s[2] \in Nat /\ s[3] \in Nat
      BY <1>1, <1>2, <1>6
    <2> QED BY <2>1
  <1> QED BY <1>3, <1>4, <1>5, <1>6

\* A field is a tag and a value; both have three digits of number.
Field == (0 .. 999) \X {t \in Text : Length(t) <= 999}

LEMMA FieldIs ==
  ASSUME NEW f \in Field
  PROVE  f[1] \in 0 .. 999 /\ f[2] \in Text /\ Length(f[2]) \in 0 .. 999
  <1>1. f[1] \in 0 .. 999 /\ f[2] \in Text /\ Length(f[2]) <= 999
    BY DEF Field
  <1>2. Length(f[2]) \in Nat
    BY <1>1, TextIs
  <1> QED BY <1>1, <1>2, SMTT(40)

LEMMA FieldSmall == \A f \in Field : f[1] \in Small /\ Length(f[2]) \in Small
  BY FieldIs, SMTT(40) DEF Small

\* At a place in a text, as far as it goes, a field's characters.
Stands(s, at, f) ==
  /\ \A i \in 1 .. 3 : at + i <= Length(s) => s[at + i] = Digits(f[1])[i]
  /\ \A i \in 1 .. 3 : (at + 3) + i <= Length(s) => s[(at + 3) + i] = Digits(Length(f[2]))[i]
  /\ \A i \in 1 .. Length(f[2]) : (at + 6) + i <= Length(s) => s[(at + 6) + i] = f[2][i]

\* A field is added behind a text.
LEMMA MountIs ==
  ASSUME NEW t \in Text, NEW f \in Field, NEW u, u = util_String_MountTLV(f[1], f[2], t)
  PROVE  /\ u \in Text /\ Length(u) = (Length(t) + 6) + Length(f[2])
         /\ \A i \in 1 .. Length(t) : u[i] = t[i]
         /\ Stands(u, Length(t), f)
  <1> DEFINE d == Digits(f[1])
             e == Digits(Length(f[2]))
             v == Then(t, d)
             w == Then(v, e)
  <1>1. /\ f[1] \in 0 .. 999 /\ f[2] \in Text /\ Length(f[2]) \in 0 .. 999 /\ Length(t) \in Nat
        /\ d \in Text /\ Length(d) = 3 /\ e \in Text /\ Length(e) = 3
    <2>1. f[1] \in 0 .. 999 /\ f[2] \in Text /\ Length(f[2]) \in 0 .. 999
      BY FieldIs
    <2>2. IsNumber(d, f[1]) /\ IsNumber(e, Length(f[2]))
      BY FieldSmall, DigitsTyped
    <2>3. d \in Text /\ Length(d) = 3 /\ e \in Text /\ Length(e) = 3
      BY <2>2 DEF IsNumber
    <2>4. Length(t) \in Nat
      BY TextIs
    <2> QED BY <2>1, <2>3, <2>4
  <1>2. u = Then(w, f[2])
    BY DEF util_String_MountTLV, Then, Length
  <1> HIDE DEF d, e
  <1>3. /\ v \in Text /\ Length(v) = Length(t) + 3
        /\ \A i \in 1 .. Length(t) : v[i] = t[i]
        /\ \A i \in 1 .. 3 : v[Length(t) + i] = d[i]
    <2>1. /\ v \in Text /\ Length(v) = Length(t) + Length(d)
          /\ \A i \in 1 .. Length(t) : v[i] = t[i]
          /\ \A i \in 1 .. Length(d) : v[Length(t) + i] = d[i]
      BY <1>1, JoinedText
    <2> QED BY <1>1, <2>1
  <1> HIDE DEF v
  <1>4. /\ w \in Text /\ Length(w) = Length(v) + 3
        /\ \A i \in 1 .. Length(v) : w[i] = v[i]
        /\ \A i \in 1 .. 3 : w[Length(v) + i] = e[i]
    <2>1. /\ w \in Text /\ Length(w) = Length(v) + Length(e)
          /\ \A i \in 1 .. Length(v) : w[i] = v[i]
          /\ \A i \in 1 .. Length(e) : w[Length(v) + i] = e[i]
      BY <1>1, <1>3, JoinedText
    <2> QED BY <1>1, <2>1
  <1> HIDE DEF w
  <1>5. /\ u \in Text /\ Length(u) = Length(w) + Length(f[2])
        /\ \A i \in 1 .. Length(w) : u[i] = w[i]
        /\ \A i \in 1 .. Length(f[2]) : u[Length(w) + i] = f[2][i]
    BY <1>1, <1>2, <1>4, JoinedText
  <1>6. Length(v) = Length(t) + 3 /\ Length(w) = Length(t) + 6
    BY <1>1, <1>3, <1>4
  <1>7. \A i \in 1 .. Length(t) : u[i] = t[i]
    BY <1>1, <1>3, <1>4, <1>5, <1>6
  <1>8. \A i \in 1 .. 3 : u[Length(t) + i] = d[i] /\ u[(Length(t) + 3) + i] = e[i]
    <2>1. TAKE i \in 1 .. 3
    <2>2. Length(t) + i \in 1 .. Length(v) /\ Length(t) + i \in 1 .. Length(w)
          /\ (Length(t) + 3) + i \in 1 .. Length(w)
      BY <1>1, <1>6
    <2>3. u[Length(t) + i] = d[i]
      BY <1>3, <1>4, <1>5, <2>2
    <2>4. u[(Length(t) + 3) + i] = e[i]
      BY <1>4, <1>5, <1>6, <2>2
    <2> QED BY <2>3, <2>4
  <1>9. Stands(u, Length(t), f)
    BY <1>5, <1>6, <1>8 DEF Stands, d, e
  <1> QED BY <1>1, <1>5, <1>6, <1>7, <1>9

\* One field is mounted after the other.
Mounts(M, F) ==
  /\ M[0] = <<>>
  /\ \A i \in 0 .. Length(F) : M[i] \in Text
  /\ \A i \in 1 .. Length(F) : M[i] = util_String_MountTLV(F[i][1], F[i][2], M[i - 1])

LEMMA FieldsAre ==
  ASSUME NEW F \in Seq(Field)
  PROVE  Length(F) \in Nat /\ \A i \in 1 .. Length(F) : F[i] \in Field
  BY LenProperties, ElementOfSeq DEF Length

\* The recursion of Mounting defines its texts.
LEMMA MountingIs ==
  ASSUME NEW F \in Seq(Field)
  PROVE  Mounts(Mounting(F), F)
  <1> DEFINE N == Length(F)
             mount(i, t) == util_String_MountTLV(F[i][1], F[i][2], t)
             g == [i \in 1 .. N |-> [t \in Text |-> mount(i, t)]]
             Is(f) == f = [i \in 0 .. N |-> IF i = 0 THEN <<>> ELSE mount(i, f[i - 1])]
  <1>1. N \in Nat /\ \A i \in 1 .. N : F[i] \in Field
    BY FieldsAre
  <1>2. \A i \in 1 .. N, t \in Text : mount(i, t) \in Text
    BY <1>1, MountIs
  <1> HIDE DEF N, mount
  <1>3. AreSteps(g, N, Text)
    BY <1>2 DEF AreSteps
  <1>4. PICK f : IsRecursion(f, N, Text, <<>>, g)
    <2> HIDE DEF g
    <2> QED BY <1>1, <1>3, NothingIs, RecursionExists
  <1>5. f \in [0 .. N -> Text] /\ f[0] = <<>> /\ \A i \in 1 .. N : f[i] = g[i][f[i - 1]]
    BY <1>4 DEF IsRecursion
  <1>6. \A i \in 0 .. N : f[i] = IF i = 0 THEN <<>> ELSE mount(i, f[i - 1])
    <2>1. TAKE i \in 0 .. N
    <2>2. CASE i = 0
      BY <1>5, <2>2
    <2>3. CASE i # 0
      <3>1. i \in 1 .. N /\ i - 1 \in 0 .. N
        BY <1>1, <2>3
      <3>2. f[i - 1] \in Text
        BY <1>5, <3>1
      <3> QED BY <1>5, <2>3, <3>1, <3>2
    <2> QED BY <2>2, <2>3
  <1>7. \E h : Is(h)
    BY <1>5, <1>6
  <1>8. Is(Mounting(F))
    <2>1. \E h : h = [i \in 0 .. Len(F) |->
                        IF i = 0 THEN <<>> ELSE util_String_MountTLV(F[i][1], F[i][2], h[i - 1])]
      BY <1>7 DEF N, Length, mount
    <2>2. Mounting(F) = [i \in 0 .. Len(F) |->
             IF i = 0 THEN <<>> ELSE util_String_MountTLV(F[i][1], F[i][2], Mounting(F)[i - 1])]
      BY <2>1 DEF Mounting
    <2> QED BY <2>2 DEF N, Length, mount
  <1> DEFINE M == Mounting(F)
  <1> HIDE DEF M
  <1>9. \A i \in 0 .. N : M[i] = IF i = 0 THEN <<>> ELSE mount(i, M[i - 1])
    BY <1>8 DEF M
  <1>10. 0 \in 0 .. N /\ \A i \in 1 .. N : i \in 0 .. N /\ i # 0
    BY <1>1
  <1>11. M[0] = <<>> /\ \A i \in 1 .. N : M[i] = mount(i, M[i - 1])
    BY <1>9, <1>10
  <1>12. \A i \in 0 .. N : M[i] \in Text
    <2> DEFINE E == {i \in 0 .. N : M[i] \in Text}
    <2>1. 0 \in E
      BY <1>10, <1>11, NothingIs
    <2>2. \A i \in 0 .. N - 1 : i \in E => i + 1 \in E
      <3>1. TAKE i \in 0 .. N - 1
      <3>2. i + 1 \in 1 .. N /\ i + 1 \in 0 .. N /\ (i + 1) - 1 = i
        BY <1>1
      <3>3. M[i] \in Text => M[i + 1] \in Text
        BY <1>2, <1>11, <3>2
      <3> QED BY <3>2, <3>3
    <2> HIDE DEF E
    <2>3. 0 .. N \subseteq E
      BY <1>1, <2>1, <2>2, InductionUpTo
    <2> QED BY <2>3 DEF E
  <1> QED BY <1>11, <1>12 DEF Mounts, N, mount, M

\* The field at a place ends within the text.
Within(s, at, f) == (at + 6) + Length(f[2]) <= Length(s)

\* What stands in a text stands in each that begins with it.
LEMMA StandsStill ==
  ASSUME NEW s \in Text, NEW t \in Text, Begins(s, t), NEW at \in Nat, NEW f \in Field,
         Within(s, at, f), Stands(s, at, f)
  PROVE  Within(t, at, f) /\ Stands(t, at, f)
  <1>1. /\ Length(f[2]) \in Nat /\ Length(s) \in Nat /\ Length(t) \in Nat
        /\ Length(s) <= Length(t) /\ (at + 6) + Length(f[2]) <= Length(s)
    BY FieldIs, TextIs DEF Within, Begins
  <1>2. \A i \in 1 .. Length(s) : s[i] = t[i]
    BY DEF Begins
  <1>3. \A i \in 1 .. 3 : /\ at + i \in 1 .. Length(s) /\ (at + 3) + i \in 1 .. Length(s)
                          /\ at + i <= Length(s) /\ (at + 3) + i <= Length(s)
    BY <1>1
  <1>4. \A i \in 1 .. Length(f[2]) : (at + 6) + i \in 1 .. Length(s) /\ (at + 6) + i <= Length(s)
    BY <1>1
  <1>5. \A i \in 1 .. 3 : t[at + i] = Digits(f[1])[i]
    BY <1>2, <1>3 DEF Stands
  <1>6. \A i \in 1 .. 3 : t[(at + 3) + i] = Digits(Length(f[2]))[i]
    BY <1>2, <1>3 DEF Stands
  <1>7. \A i \in 1 .. Length(f[2]) : t[(at + 6) + i] = f[2][i]
    BY <1>2, <1>4 DEF Stands
  <1> QED BY <1>1, <1>5, <1>6, <1>7 DEF Stands, Within

\* Each field stands behind those before it.
LEMMA MountedStand ==
  ASSUME NEW F \in Seq(Field), NEW M, Mounts(M, F), NEW j \in 0 .. Length(F)
  PROVE  \A i \in 1 .. j : Within(M[j], Length(M[i - 1]), F[i]) /\ Stands(M[j], Length(M[i - 1]), F[i])
  <1> DEFINE N == Length(F)
             Good(k, i) == Within(M[k], Length(M[i - 1]), F[i]) /\ Stands(M[k], Length(M[i - 1]), F[i])
             E == {k \in 0 .. N : \A i \in 1 .. k : Good(k, i)}
  <1>1. N \in Nat /\ \A i \in 1 .. N : F[i] \in Field
    BY FieldsAre
  <1>2. 0 \in E
    BY <1>1
  <1>3. \A k \in 0 .. N - 1 : k \in E => k + 1 \in E
    <2>1. TAKE k \in 0 .. N - 1
    <2>2. HAVE k \in E
    <2>3. k + 1 \in 0 .. N /\ k + 1 \in 1 .. N /\ k \in 0 .. N /\ (k + 1) - 1 = k
      BY <1>1
    <2>4. M[k] \in Text /\ F[k + 1] \in Field /\ M[k + 1] \in Text
          /\ M[k + 1] = util_String_MountTLV(F[k + 1][1], F[k + 1][2], M[k])
      BY <1>1, <2>3 DEF Mounts
    <2>5. /\ Length(M[k + 1]) = (Length(M[k]) + 6) + Length(F[k + 1][2])
          /\ \A i \in 1 .. Length(M[k]) : M[k + 1][i] = M[k][i]
          /\ Stands(M[k + 1], Length(M[k]), F[k + 1])
      BY <2>4, MountIs
    <2>6. Length(M[k]) \in Nat /\ Length(M[k + 1]) \in Nat /\ Length(F[k + 1][2]) \in Nat
      BY <2>4, FieldIs, TextIs
    <2>7. Begins(M[k], M[k + 1])
      BY <2>5, <2>6 DEF Begins
    <2>8. Good(k + 1, k + 1)
      <3>1. Within(M[k + 1], Length(M[k]), F[k + 1])
        BY <2>5, <2>6 DEF Within
      <3> QED BY <2>3, <2>5, <3>1
    <2>9. \A i \in 1 .. k : Good(k + 1, i)
      <3>1. TAKE i \in 1 .. k
      <3>2. i - 1 \in 0 .. N /\ i \in 1 .. N
        BY <1>1, <2>3
      <3>3. Length(M[i - 1]) \in Nat /\ F[i] \in Field
        BY <1>1, <3>2, TextIs DEF Mounts
      <3>4. Good(k, i)
        BY <2>2
      <3> QED BY <2>4, <2>7, <3>3, <3>4, StandsStill
    <2> HIDE DEF Good
    <2>10. \A i \in 1 .. k + 1 : i = k + 1 \/ i \in 1 .. k
      BY <2>3
    <2> QED BY <2>3, <2>8, <2>9, <2>10
  <1> HIDE DEF E
  <1>4. 0 .. N \subseteq E
    BY <1>1, <1>2, <1>3, InductionUpTo
  <1>5. j \in E
    BY <1>4
  <1> QED BY <1>5 DEF E

\* The lengths of the texts.
LEMMA MountedLengths ==
  ASSUME NEW F \in Seq(Field), NEW M, Mounts(M, F)
  PROVE  /\ Length(M[0]) = 0
         /\ \A i \in 0 .. Length(F) : Length(M[i]) \in Nat
         /\ \A i \in 1 .. Length(F) : Length(M[i]) = (Length(M[i - 1]) + 6) + Length(F[i][2])
  <1>1. Length(M[0]) = 0
    BY NothingIs DEF Mounts
  <1>2. \A i \in 0 .. Length(F) : Length(M[i]) \in Nat
    BY TextIs DEF Mounts
  <1>3. \A i \in 1 .. Length(F) : Length(M[i]) = (Length(M[i - 1]) + 6) + Length(F[i][2])
    <2>1. TAKE i \in 1 .. Length(F)
    <2>2. i - 1 \in 0 .. Length(F) /\ F[i] \in Field
      BY FieldsAre
    <2>3. M[i - 1] \in Text /\ M[i] = util_String_MountTLV(F[i][1], F[i][2], M[i - 1])
      BY <2>2 DEF Mounts
    <2> QED BY <2>2, <2>3, MountIs
  <1> QED BY <1>1, <1>2, <1>3

\* The numbers a field begins with.
LEMMA FieldNumbers ==
  ASSUME NEW f \in Field
  PROVE  IsNumber(Digits(f[1]), f[1]) /\ IsNumber(Digits(Length(f[2])), Length(f[2]))
  BY FieldSmall, DigitsTyped

\* A field that is there as a whole is read.
LEMMA WholeFieldIsRead ==
  ASSUME NEW s \in Text, NEW at \in Nat, NEW f \in Field, Within(s, at, f), Stands(s, at, f)
  PROVE  /\ at < Length(s) /\ TagAt(s, at) = f[1] /\ SizeAt(s, at) = Length(f[2])
         /\ FieldEnd(s, at) = (at + 6) + Length(f[2])
         /\ util_String_Substring(s, at + 6, SizeAt(s, at)) = f[2]
  <1> DEFINE x == util_String_Substring(s, at, 3)
             y == util_String_Substring(s, at + 3, 3)
             z == util_String_Substring(s, at + 6, Length(f[2]))
             d == Digits(f[1])
             e == Digits(Length(f[2]))
  <1>1. /\ f[1] \in 0 .. 999 /\ f[2] \in Text /\ Length(f[2]) \in 0 .. 999 /\ Length(s) \in Nat
        /\ (at + 6) + Length(f[2]) <= Length(s)
        /\ at + 3 \in Nat /\ at + 6 \in Nat /\ 3 \in Nat /\ Length(f[2]) \in Nat
    BY FieldIs, TextIs DEF Within
  <1>2. /\ \A i \in 1 .. 3 : d[i] \in 0 .. 9
        /\ 100 * d[1] + 10 * d[2] + d[3] = f[1]
    <2>1. IsNumber(d, f[1])
      BY FieldNumbers
    <2> QED BY <2>1 DEF IsNumber
  <1>3. /\ \A i \in 1 .. 3 : e[i] \in 0 .. 9
        /\ 100 * e[1] + 10 * e[2] + e[3] = Length(f[2])
    <2>1. IsNumber(e, Length(f[2]))
      BY FieldNumbers
    <2> QED BY <2>1 DEF IsNumber
  <1>4. /\ \A i \in 1 .. 3 : at + i <= Length(s) => s[at + i] = d[i]
        /\ \A i \in 1 .. 3 : (at + 3) + i <= Length(s) => s[(at + 3) + i] = e[i]
        /\ \A i \in 1 .. Length(f[2]) : (at + 6) + i <= Length(s) => s[(at + 6) + i] = f[2][i]
    BY DEF Stands
  <1> HIDE DEF d, e
  <1>5. Length(x) = 3 /\ \A i \in 1 .. 3 : x[i] = d[i]
    <2>0. Copies(x, s, at, 3)
      BY <1>1, Copied
    <2>1. /\ Length(x) <= 3 /\ (at + 3 <= Length(s) => Length(x) = 3)
          /\ \A i \in 1 .. Length(x) : x[i] = s[at + i] /\ at + i <= Length(s)
      BY <2>0 DEF Copies
    <2>2. Length(x) = 3
      BY <1>1, <2>1
    <2> QED BY <1>4, <2>1, <2>2
  <1>6. Length(y) = 3 /\ \A i \in 1 .. 3 : y[i] = e[i]
    <2>0. Copies(y, s, at + 3, 3)
      BY <1>1, Copied
    <2>1. /\ Length(y) <= 3 /\ ((at + 3) + 3 <= Length(s) => Length(y) = 3)
          /\ \A i \in 1 .. Length(y) : y[i] = s[(at + 3) + i] /\ (at + 3) + i <= Length(s)
      BY <2>0 DEF Copies
    <2>2. Length(y) = 3
      BY <1>1, <2>1
    <2> QED BY <1>4, <2>1, <2>2
  <1>7. z = f[2]
    <2>0. Copies(z, s, at + 6, Length(f[2]))
      BY <1>1, Copied
    <2>1. /\ z \in Text /\ ((at + 6) + Length(f[2]) <= Length(s) => Length(z) = Length(f[2]))
          /\ \A i \in 1 .. Length(z) : z[i] = s[(at + 6) + i] /\ (at + 6) + i <= Length(s)
      BY <2>0 DEF Copies
    <2>2. Length(z) = Length(f[2])
      BY <1>1, <2>1
    <2>3. \A i \in 1 .. Length(z) : z[i] = f[2][i]
      BY <1>4, <2>1, <2>2
    <2> QED BY <1>1, <2>1, <2>2, <2>3, SameText
  <1> HIDE DEF x, y, z
  <1>8. Atoi(x) = f[1]
    <2>1. x[1] = d[1] /\ x[2] = d[2] /\ x[3] = d[3] /\ d[1] \in 0 .. 9 /\ d[2] \in 0 .. 9 /\ d[3] \in 0 .. 9
      BY <1>2, <1>5
    <2>2. Length(x) \in 0 .. 3
      BY <1>5
    <2>3. Atoi(x) = 100 * x[1] + 10 * x[2] + x[3]
      BY <1>5, <2>1, <2>2, AtoiIs
    <2> QED BY <1>2, <2>1, <2>3
  <1>9. Atoi(y) = Length(f[2])
    <2>1. y[1] = e[1] /\ y[2] = e[2] /\ y[3] = e[3] /\ e[1] \in 0 .. 9 /\ e[2] \in 0 .. 9 /\ e[3] \in 0 .. 9
      BY <1>3, <1>6
    <2>2. Length(y) \in 0 .. 3
      BY <1>6
    <2>3. Atoi(y) = 100 * y[1] + 10 * y[2] + y[3]
      BY <1>6, <2>1, <2>2, AtoiIs
    <2> QED BY <1>3, <2>1, <2>3
  <1>10. TagAt(s, at) = f[1] /\ SizeAt(s, at) = Length(f[2])
    BY <1>8, <1>9 DEF TagAt, SizeAt, x, y
  <1>11. util_String_Substring(s, at + 6, SizeAt(s, at)) = f[2]
    BY <1>7, <1>10 DEF z
  <1>12. at < Length(s) /\ FieldEnd(s, at) = (at + 6) + Length(f[2])
    BY <1>1, <1>10 DEF FieldEnd
  <1> QED BY <1>10, <1>11, <1>12

\* Of a field that lacks up to four characters a part of its value is read, or
\* its tag without the last digit; and no field behind it.
LEMMA CutFieldIsRead ==
  ASSUME NEW s \in Text, NEW at \in Nat, NEW f \in Field, NEW c \in 1 .. 4,
         (at + 6) + Length(f[2]) = Length(s) + c, Stands(s, at, f)
  PROVE  /\ at < Length(s) /\ TagAt(s, at) \in {f[1], f[1] \div 10} /\ FieldEnd(s, at) >= Length(s)
         /\ FieldEnd(s, at) \in Nat
         /\ util_String_Substring(s, at + 6, SizeAt(s, at)) \in Text
         /\ Begins(util_String_Substring(s, at + 6, SizeAt(s, at)), f[2])
  <1> DEFINE x == util_String_Substring(s, at, 3)
             y == util_String_Substring(s, at + 3, 3)
             z == util_String_Substring(s, at + 6, SizeAt(s, at))
             d == Digits(f[1])
             e == Digits(Length(f[2]))
             L == Length(f[2])
  <1>1. /\ f[1] \in 0 .. 999 /\ f[2] \in Text /\ L \in 0 .. 999 /\ Length(s) \in Nat
        /\ at + 3 \in Nat /\ at + 6 \in Nat /\ 3 \in Nat /\ L \in Nat
    BY FieldIs, TextIs
  <1>2. /\ \A i \in 1 .. 3 : d[i] \in 0 .. 9
        /\ 100 * d[1] + 10 * d[2] + d[3] = f[1]
        /\ 10 * d[1] + d[2] = f[1] \div 10
    <2>1. IsNumber(d, f[1])
      BY FieldNumbers
    <2> QED BY <2>1 DEF IsNumber
  <1>3. /\ \A i \in 1 .. 3 : e[i] \in 0 .. 9
        /\ 100 * e[1] + 10 * e[2] + e[3] = L
        /\ L <= 9 => e[1] = 0 /\ e[2] = 0
    <2>1. IsNumber(e, L)
      BY FieldNumbers
    <2> QED BY <2>1 DEF IsNumber
  <1>4. /\ \A i \in 1 .. 3 : at + i <= Length(s) => s[at + i] = d[i]
        /\ \A i \in 1 .. 3 : (at + 3) + i <= Length(s) => s[(at + 3) + i] = e[i]
        /\ \A i \in 1 .. L : (at + 6) + i <= Length(s) => s[(at + 6) + i] = f[2][i]
    BY DEF Stands
  <1>0. (at + 6) + L = Length(s) + c
    OBVIOUS
  <1> HIDE DEF d, e, L
  <1>5. Length(x) \in 2 .. 3 /\ \A i \in 1 .. Length(x) : x[i] = d[i]
    <2>0. Copies(x, s, at, 3)
      BY <1>1, Copied
    <2>1. /\ Length(x) <= 3 /\ (at + 3 <= Length(s) => Length(x) = 3)
          /\ (at + 3 > Length(s) /\ at <= Length(s) => Length(x) = Length(s) - at)
          /\ \A i \in 1 .. Length(x) : x[i] = s[at + i] /\ at + i <= Length(s)
      BY <2>0 DEF Copies
    <2>2. Length(x) \in 2 .. 3
      BY <1>0, <1>1, <2>1
    <2>3. \A i \in 1 .. Length(x) : i \in 1 .. 3
      BY <2>2
    <2> QED BY <1>4, <2>1, <2>2, <2>3
  <1>6. TagAt(s, at) \in {f[1], f[1] \div 10}
    <2> HIDE DEF x
    <2>1. d[1] \in 0 .. 9 /\ d[2] \in 0 .. 9 /\ d[3] \in 0 .. 9
      BY <1>2
    <2>2. CASE Length(x) = 3
      <3>1. x[1] = d[1] /\ x[2] = d[2] /\ x[3] = d[3] /\ Length(x) \in 0 .. 3
        BY <1>5, <2>2
      <3>2. Atoi(x) = 100 * x[1] + 10 * x[2] + x[3]
        BY <2>1, <2>2, <3>1, AtoiIs
      <3>3. Atoi(x) = f[1]
        BY <1>2, <3>1, <3>2
      <3> QED BY <3>3 DEF TagAt, x
    <2>3. CASE Length(x) = 2
      <3>1. x[1] = d[1] /\ x[2] = d[2] /\ Length(x) \in 0 .. 3
        BY <1>5, <2>3
      <3>2. Atoi(x) = 10 * x[1] + x[2]
        BY <2>1, <2>3, <3>1, AtoiIs
      <3>3. Atoi(x) = f[1] \div 10
        BY <1>2, <3>1, <3>2
      <3> QED BY <3>3 DEF TagAt, x
    <2>4. Length(x) = 2 \/ Length(x) = 3
      BY <1>5
    <2> QED BY <2>2, <2>3, <2>4
  <1>7. /\ Length(y) <= 3 /\ Length(y) \in Nat /\ ((at + 3) + 3 <= Length(s) => Length(y) = 3)
        /\ \A i \in 1 .. Length(y) : y[i] = s[(at + 3) + i] /\ (at + 3) + i <= Length(s)
    <2>0. Copies(y, s, at + 3, 3)
      BY <1>1, Copied
    <2>1. /\ y \in Text /\ Length(y) <= 3 /\ ((at + 3) + 3 <= Length(s) => Length(y) = 3)
          /\ \A i \in 1 .. Length(y) : y[i] = s[(at + 3) + i] /\ (at + 3) + i <= Length(s)
      BY <2>0 DEF Copies
    <2> QED BY <2>1, TextIs
  <1>8. \A i \in 1 .. Length(y) : y[i] = e[i]
    <2>1. \A i \in 1 .. Length(y) : i \in 1 .. 3
      BY <1>7
    <2> QED BY <1>4, <1>7, <2>1
  <1>9. L >= c => SizeAt(s, at) = L
    <2> SUFFICES ASSUME L >= c PROVE SizeAt(s, at) = L
      OBVIOUS
    <2> HIDE DEF y
    <2>1. Length(y) = 3 /\ Length(y) \in 0 .. 3
      BY <1>0, <1>1, <1>7
    <2>2. y[1] = e[1] /\ y[2] = e[2] /\ y[3] = e[3] /\ e[1] \in 0 .. 9 /\ e[2] \in 0 .. 9 /\ e[3] \in 0 .. 9
      BY <1>3, <1>8, <2>1
    <2>3. Atoi(y) = 100 * y[1] + 10 * y[2] + y[3]
      BY <2>1, <2>2, AtoiIs
    <2>4. Atoi(y) = L
      BY <1>3, <2>2, <2>3
    <2> QED BY <2>4 DEF SizeAt, y
  <1>10. L < c => SizeAt(s, at) = 0
    <2> SUFFICES ASSUME L < c PROVE SizeAt(s, at) = 0
      OBVIOUS
    <2> HIDE DEF y
    <2>1. Length(y) \in 0 .. 2 /\ L <= 9 /\ Length(y) \in 0 .. 3
      <3>1. CASE Length(y) = 3
        <4>1. (at + 3) + 3 <= Length(s)
          BY <1>7, <3>1
        <4> QED BY <1>0, <1>1, <4>1
      <3> QED BY <1>1, <1>7, <3>1
    <2>2. e[1] = 0 /\ e[2] = 0
      BY <1>3, <2>1
    <2>3. CASE Length(y) = 0
      BY <2>1, <2>3, AtoiIs DEF SizeAt, y
    <2>4. CASE Length(y) = 1
      <3>1. y[1] = 0
        BY <1>8, <2>2, <2>4
      <3>2. Atoi(y) = 0
        BY <2>1, <2>4, <3>1, AtoiIs
      <3> QED BY <3>2 DEF SizeAt, y
    <2>5. CASE Length(y) = 2
      <3>1. y[1] = 0 /\ y[2] = 0
        BY <1>8, <2>2, <2>5
      <3>2. Atoi(y) = 10 * 0 + 0
        BY <2>1, <2>5, <3>1, AtoiIs
      <3> QED BY <3>2 DEF SizeAt, y
    <2>6. Length(y) = 0 \/ Length(y) = 1 \/ Length(y) = 2
      BY <2>1
    <2> QED BY <2>3, <2>4, <2>5, <2>6
  <1>11. SizeAt(s, at) \in Nat /\ FieldEnd(s, at) >= Length(s) /\ FieldEnd(s, at) \in Nat
    BY <1>0, <1>1, <1>9, <1>10 DEF FieldEnd
  <1>12. z \in Text /\ Begins(z, f[2])
    <2> DEFINE n == SizeAt(s, at)
    <2>0. Copies(z, s, at + 6, SizeAt(s, at))
      BY <1>1, <1>11, Copied
    <2>1. /\ z \in Text /\ Length(z) <= SizeAt(s, at)
          /\ \A i \in 1 .. Length(z) : z[i] = s[(at + 6) + i] /\ (at + 6) + i <= Length(s)
      BY <2>0 DEF Copies
    <2>2. Length(z) <= L /\ Length(z) \in Nat
      <3>1. Length(z) \in Nat
        BY <2>1, TextIs
      <3> HIDE DEF z
      <3> QED BY <1>1, <1>9, <1>10, <2>1, <3>1
    <2>3. \A i \in 1 .. Length(z) : i \in 1 .. L
      BY <1>1, <2>2
    <2>4. \A i \in 1 .. Length(z) : z[i] = f[2][i]
      BY <1>4, <2>1, <2>3
    <2> QED BY <2>1, <2>2, <2>4 DEF Begins, L
  <1>13. at < Length(s)
    BY <1>0, <1>1
  <1> QED BY <1>6, <1>11, <1>12, <1>13

\* The places Offsets names: each is where the field before ends.
Follow(O, s, n) ==
  /\ O[0] = 0 /\ \A i \in 0 .. n : O[i] \in Nat
  /\ \A i \in 1 .. n : O[i] = FieldEnd(s, O[i - 1]) /\ O[i] >= O[i - 1] + 6

LEMMA FieldEndIs ==
  ASSUME NEW s \in Text, NEW at \in Nat
  PROVE  FieldEnd(s, at) \in Nat /\ FieldEnd(s, at) >= at + 6 /\ SizeAt(s, at) \in Nat
  <1>1. at + 3 \in Nat /\ 3 \in Nat
    OBVIOUS
  <1>2. Copies(util_String_Substring(s, at + 3, 3), s, at + 3, 3)
    BY <1>1, Copied
  <1>3. SizeAt(s, at) \in Nat
    BY <1>2, AtoiTyped DEF SizeAt, Copies
  <1> QED BY <1>3 DEF FieldEnd

\* The recursion of Offsets defines them.
LEMMA OffsetsAre ==
  ASSUME NEW s \in Text, NEW N, N = Length(s) \div 6
  PROVE  DOMAIN Offsets(s) = 0 .. N /\ N \in Nat /\ Length(s) < 6 * N + 6 /\ Follow(Offsets(s), s, N)
  <1> DEFINE g == [i \in 1 .. N |-> [at \in Nat |-> FieldEnd(s, at)]]
             Is(f) == f = [i \in 0 .. N |-> IF i = 0 THEN 0 ELSE FieldEnd(s, f[i - 1])]
             O == Offsets(s)
  <1>1. N \in Nat /\ Length(s) < 6 * N + 6
    BY TextIs, QuotientBounds
  <1>2. \A at \in Nat : FieldEnd(s, at) \in Nat /\ FieldEnd(s, at) >= at + 6
    BY FieldEndIs
  <1>3. AreSteps(g, N, Nat)
    BY <1>2 DEF AreSteps
  <1>4. PICK f : IsRecursion(f, N, Nat, 0, g)
    <2> HIDE DEF g
    <2>1. 0 \in Nat
      OBVIOUS
    <2> QED BY <1>1, <1>3, <2>1, RecursionExists
  <1>5. f \in [0 .. N -> Nat] /\ f[0] = 0 /\ \A i \in 1 .. N : f[i] = g[i][f[i - 1]]
    BY <1>4 DEF IsRecursion
  <1>6. \A i \in 0 .. N : f[i] = IF i = 0 THEN 0 ELSE FieldEnd(s, f[i - 1])
    <2>1. TAKE i \in 0 .. N
    <2>2. CASE i = 0
      BY <1>5, <2>2
    <2>3. CASE i # 0
      <3>1. i \in 1 .. N /\ i - 1 \in 0 .. N
        BY <1>1, <2>3
      <3>2. f[i - 1] \in Nat
        BY <1>5, <3>1
      <3> QED BY <1>5, <2>3, <3>1, <3>2
    <2> QED BY <2>2, <2>3
  <1>7. \E h : Is(h)
    BY <1>5, <1>6
  <1>8. Is(O)
    <2>1. \E h : h = [i \in 0 .. Len(s) \div 6 |-> IF i = 0 THEN 0 ELSE FieldEnd(s, h[i - 1])]
      BY <1>7 DEF Length
    <2>2. O = [i \in 0 .. Len(s) \div 6 |-> IF i = 0 THEN 0 ELSE FieldEnd(s, O[i - 1])]
      BY <2>1 DEF Offsets
    <2> QED BY <2>2 DEF Length
  <1> HIDE DEF O
  <1>9. DOMAIN O = 0 .. N /\ \A i \in 0 .. N : O[i] = IF i = 0 THEN 0 ELSE FieldEnd(s, O[i - 1])
    BY <1>8
  <1>10. 0 \in 0 .. N /\ \A i \in 1 .. N : i \in 0 .. N /\ i # 0
    BY <1>1
  <1>11. O[0] = 0 /\ \A i \in 1 .. N : O[i] = FieldEnd(s, O[i - 1])
    BY <1>9, <1>10
  <1>12. \A i \in 0 .. N : O[i] \in Nat
    <2> DEFINE E == {i \in 0 .. N : O[i] \in Nat}
    <2>1. 0 \in E
      BY <1>10, <1>11
    <2>2. \A i \in 0 .. N - 1 : i \in E => i + 1 \in E
      <3>1. TAKE i \in 0 .. N - 1
      <3>2. i + 1 \in 1 .. N /\ i + 1 \in 0 .. N /\ (i + 1) - 1 = i
        BY <1>1
      <3>3. O[i] \in Nat => O[i + 1] \in Nat
        BY <1>2, <1>11, <3>2
      <3> QED BY <3>2, <3>3
    <2> HIDE DEF E
    <2>3. 0 .. N \subseteq E
      BY <1>1, <2>1, <2>2, InductionUpTo
    <2> QED BY <2>3 DEF E
  <1>13. \A i \in 1 .. N : O[i] >= O[i - 1] + 6
    <2>1. TAKE i \in 1 .. N
    <2>2. O[i - 1] \in Nat
      <3>1. i - 1 \in 0 .. N
        BY <1>1
      <3> QED BY <1>12, <3>1
    <2> QED BY <1>2, <1>11, <2>2
  <1> QED BY <1>1, <1>9, <1>11, <1>12, <1>13 DEF Follow, O

\* Places rise, by six at least.
LEMMA PlacesRise ==
  ASSUME NEW s, NEW O, NEW n \in Nat, Follow(O, s, n)
  PROVE  /\ \A k \in 0 .. n : O[k] >= 6 * k
         /\ \A i \in 0 .. n : \A k \in i .. n : O[k] >= O[i]
  <1>1. \A i \in 0 .. n : O[i] \in Nat
    BY DEF Follow
  <1>2. \A i \in 1 .. n : O[i] >= O[i - 1] + 6
    BY DEF Follow
  <1>3. \A k \in 0 .. n : O[k] >= 6 * k
    <2> DEFINE E == {k \in 0 .. n : O[k] >= 6 * k}
    <2>1. 0 \in E
      BY DEF Follow
    <2>2. \A k \in 0 .. n - 1 : k \in E => k + 1 \in E
      <3>1. TAKE k \in 0 .. n - 1
      <3>2. k + 1 \in 1 .. n /\ k + 1 \in 0 .. n /\ k \in 0 .. n /\ (k + 1) - 1 = k
        OBVIOUS
      <3>3. O[k + 1] >= O[k] + 6 /\ O[k + 1] \in Nat /\ O[k] \in Nat
        BY <1>1, <1>2, <3>2
      <3> QED BY <3>2, <3>3
    <2> HIDE DEF E
    <2>3. 0 .. n \subseteq E
      BY <2>1, <2>2, InductionUpTo
    <2> QED BY <2>3 DEF E
  <1>4. ASSUME NEW i \in 0 .. n PROVE \A k \in i .. n : O[k] >= O[i]
    <2> DEFINE E == {k \in 0 .. n : k >= i => O[k] >= O[i]}
    <2>1. 0 \in E
      BY <1>1
    <2>2. \A k \in 0 .. n - 1 : k \in E => k + 1 \in E
      <3>1. TAKE k \in 0 .. n - 1
      <3>2. k + 1 \in 1 .. n /\ k + 1 \in 0 .. n /\ k \in 0 .. n /\ (k + 1) - 1 = k
        OBVIOUS
      <3>3. O[k + 1] >= O[k] + 6 /\ O[k + 1] \in Nat /\ O[k] \in Nat /\ O[i] \in Nat
        BY <1>1, <1>2, <1>4, <3>2
      <3>4. k + 1 = i \/ ~(k + 1 >= i) \/ k >= i
        BY <1>4
      <3> QED BY <3>2, <3>3, <3>4
    <2> HIDE DEF E
    <2>3. 0 .. n \subseteq E
      BY <2>1, <2>2, InductionUpTo
    <2> QED BY <2>3, <1>4 DEF E
  <1> QED BY <1>3, <1>4

\* Fields that follow each other from a text's begin to its end.
Reaches(P, s, n) ==
  /\ P[0] = 0 /\ \A i \in 0 .. n : P[i] \in Nat
  /\ \A i \in 1 .. n : P[i - 1] < Length(s) /\ P[i] = FieldEnd(s, P[i - 1])
  /\ P[n] >= Length(s)

\* They are the ones the loop finds.
LEMMA PlacesAreFound ==
  ASSUME NEW s \in Text, NEW P, NEW n \in Nat, Reaches(P, s, n),
         NEW O, NEW N \in Nat, Length(s) < 6 * N + 6, Follow(O, s, N)
  PROVE  /\ \A k \in 0 .. n - 1 : k \in 0 .. N /\ O[k] = P[k]
         /\ n \in 0 .. N => O[n] = P[n]
  <1>0. Length(s) \in Nat
    BY TextIs
  <1>1. /\ O[0] = 0 /\ P[0] = 0 /\ \A i \in 0 .. n : P[i] \in Nat
        /\ \A i \in 1 .. n : P[i - 1] < Length(s) /\ P[i] = FieldEnd(s, P[i - 1])
        /\ \A i \in 1 .. N : O[i] = FieldEnd(s, O[i - 1])
    BY DEF Follow, Reaches
  <1>2. \A k \in 0 .. N : O[k] >= 6 * k /\ O[k] \in Nat
    BY PlacesRise DEF Follow
  <1> DEFINE E == {k \in 0 .. n : /\ k \in 0 .. N => O[k] = P[k]
                                  /\ k <= n - 1 => k \in 0 .. N}
  <1>3. 0 \in E
    BY <1>1
  <1>4. \A k \in 0 .. n - 1 : k \in E => k + 1 \in E
    <2>1. TAKE k \in 0 .. n - 1
    <2>2. HAVE k \in E
    <2>3. k + 1 \in 1 .. n /\ k + 1 \in 0 .. n /\ k \in 0 .. n /\ (k + 1) - 1 = k /\ k <= n - 1
      OBVIOUS
    <2>4. k \in 0 .. N /\ O[k] = P[k]
      BY <2>2, <2>3
    <2>5. P[k + 1] = FieldEnd(s, O[k])
      BY <1>1, <2>3, <2>4
    <2>6. k + 1 \in 0 .. N => O[k + 1] = P[k + 1]
      <3> SUFFICES ASSUME k + 1 \in 0 .. N PROVE O[k + 1] = P[k + 1]
        OBVIOUS
      <3>1. k + 1 \in 1 .. N
        BY <2>3
      <3> QED BY <1>1, <2>3, <2>5, <3>1
    <2>7. k + 1 <= n - 1 => k + 1 \in 0 .. N
      <3> SUFFICES ASSUME k + 1 <= n - 1, ~(k + 1 \in 0 .. N) PROVE FALSE
        OBVIOUS
      <3>1. k = N
        BY <2>3, <2>4
      <3>2. P[k + 1] < Length(s)
        <4>1. k + 2 \in 1 .. n /\ (k + 2) - 1 = k + 1
          BY <2>3
        <4> QED BY <1>1, <4>1
      <3>3. FieldEnd(s, O[k]) >= O[k] + 6 /\ O[k] >= 6 * k /\ O[k] \in Nat
        BY <1>2, <2>4, FieldEndIs
      <3>4. P[k + 1] \in Nat
        BY <1>1, <2>3
      <3> QED BY <1>0, <2>5, <3>1, <3>2, <3>3, <3>4
    <2> QED BY <2>3, <2>6, <2>7
  <1> HIDE DEF E
  <1>5. 0 .. n \subseteq E
    BY <1>3, <1>4, InductionUpTo
  <1>6. \A k \in 0 .. n - 1 : k \in 0 .. N /\ O[k] = P[k]
    <2>1. TAKE k \in 0 .. n - 1
    <2>2. k \in 0 .. n /\ k <= n - 1
      OBVIOUS
    <2> QED BY <1>5, <2>2 DEF E
  <1>7. n \in 0 .. N => O[n] = P[n]
    <2>1. n \in E
      BY <1>5
    <2> QED BY <2>1 DEF E
  <1> QED BY <1>6, <1>7

\* What GetValueTLV finds: no value when no field has the tag, otherwise one
\* such field's.
LEMMA LookupIs ==
  ASSUME NEW s \in Text, NEW P, NEW n \in Nat, Reaches(P, s, n), NEW target
  PROVE  \/ /\ \A i \in 1 .. n : TagAt(s, P[i - 1]) # target
            /\ util_String_GetValueTLV(target, s) = None
         \/ \E i \in 1 .. n :
              /\ TagAt(s, P[i - 1]) = target
              /\ util_String_GetValueTLV(target, s) =
                   util_String_Substring(s, P[i - 1] + 6, SizeAt(s, P[i - 1]))
  <1> DEFINE N == Length(s) \div 6
             O == Offsets(s)
             found == {i \in 0 .. N : O[i] < Length(s) /\ TagAt(s, O[i]) = target}
             m == Min(found)
  <1>1. DOMAIN O = 0 .. N /\ N \in Nat /\ Length(s) < 6 * N + 6 /\ Follow(O, s, N)
    BY OffsetsAre
  <1>2. util_String_GetValueTLV(target, s) =
          IF found = {} THEN None ELSE util_String_Substring(s, O[m] + 6, SizeAt(s, O[m]))
    <2>1. DOMAIN O = 0 .. N
      BY <1>1
    <2> QED BY <2>1 DEF util_String_GetValueTLV, ValueSize, Length
  <1> HIDE DEF N, O
  <1>3. /\ \A k \in 0 .. n - 1 : k \in 0 .. N /\ O[k] = P[k]
        /\ n \in 0 .. N => O[n] = P[n]
    BY <1>1, PlacesAreFound
  <1>4. CASE found = {}
    <2>1. \A i \in 1 .. n : TagAt(s, P[i - 1]) # target
      <3>1. TAKE i \in 1 .. n
      <3>2. i - 1 \in 0 .. n - 1
        OBVIOUS
      <3>3. i - 1 \in 0 .. N /\ O[i - 1] = P[i - 1] /\ P[i - 1] < Length(s)
        BY <1>3, <3>2 DEF Reaches
      <3> QED BY <1>4, <3>3
    <2> QED BY <1>2, <1>4, <2>1
  <1>5. CASE found # {}
    <2>1. m \in found
      <3>1. found \subseteq Nat
        OBVIOUS
      <3> HIDE DEF found
      <3> QED BY <1>5, <3>1, MinIsLeast
    <2> HIDE DEF m
    <2>2. m \in 0 .. N /\ O[m] < Length(s) /\ TagAt(s, O[m]) = target
      BY <2>1
    <2>3. m \in 0 .. n - 1
      <3> SUFFICES ASSUME ~(m \in 0 .. n - 1) PROVE FALSE
        OBVIOUS
      <3>1. n \in 0 .. N /\ m \in n .. N
        BY <1>1, <2>2
      <3>2. O[m] >= O[n]
        BY <1>1, <3>1, PlacesRise
      <3>3. O[n] = P[n] /\ P[n] >= Length(s)
        BY <1>3, <3>1 DEF Reaches
      <3>4. O[m] \in Nat /\ O[n] \in Nat /\ Length(s) \in Nat
        BY <1>1, <2>2, <3>1, TextIs DEF Follow
      <3> QED BY <2>2, <3>2, <3>3, <3>4
    <2>4. O[m] = P[m] /\ m + 1 \in 1 .. n /\ (m + 1) - 1 = m
      BY <1>3, <2>3
    <2> QED BY <1>2, <1>5, <2>2, <2>4
  <1> QED BY <1>4, <1>5

\* Begins of a text, and what stands in them.
LEMMA StandsInCut ==
  ASSUME NEW s \in Text, NEW t \in Text, Begins(s, t), NEW at \in Nat, NEW f \in Field, Stands(t, at, f)
  PROVE  Stands(s, at, f)
  <1>1. Length(f[2]) \in Nat /\ Length(s) \in Nat /\ Length(t) \in Nat /\ Length(s) <= Length(t)
    BY FieldIs, TextIs DEF Begins
  <1>2. \A i \in Nat \ {0} : i <= Length(s) => s[i] = t[i] /\ i <= Length(t)
    BY <1>1 DEF Begins
  <1>3. \A i \in 1 .. 3 : at + i \in Nat \ {0} /\ (at + 3) + i \in Nat \ {0}
    OBVIOUS
  <1>4. \A i \in 1 .. Length(f[2]) : (at + 6) + i \in Nat \ {0}
    BY <1>1
  <1>5. \A i \in 1 .. 3 : at + i <= Length(s) => s[at + i] = Digits(f[1])[i]
    BY <1>2, <1>3 DEF Stands
  <1>6. \A i \in 1 .. 3 : (at + 3) + i <= Length(s) => s[(at + 3) + i] = Digits(Length(f[2]))[i]
    BY <1>2, <1>3 DEF Stands
  <1>7. \A i \in 1 .. Length(f[2]) : (at + 6) + i <= Length(s) => s[(at + 6) + i] = f[2][i]
    BY <1>2, <1>4 DEF Stands
  <1> QED BY <1>5, <1>6, <1>7 DEF Stands

LEMMA FieldText == \A f \in Field : f[2] \in Text /\ Length(f[2]) \in Nat
  BY FieldIs, SMTT(40)

\* A text without its last characters.
LEMMA CutText ==
  ASSUME NEW t \in Text, NEW c \in 1 .. 4, NEW s, s = SubSeq(t, 1, Length(t) - c)
  PROVE  /\ s \in Text
         /\ Length(s) = IF c < Length(t) THEN Length(t) - c ELSE 0
         /\ Begins(s, t)
  <1> DEFINE b == Length(t) - c
  <1>1. b \in Int /\ b <= Length(t) /\ 1 \in Nat \ {0} /\ Length(t) \in Nat
    BY TextIs
  <1>2. s = SubSeq(t, 1, b)
    OBVIOUS
  <1> HIDE DEF b
  <1>3. /\ s \in Text /\ Length(s) = IF 1 <= b THEN (b - 1) + 1 ELSE 0
        /\ \A i \in 1 .. (b - 1) + 1 : s[i] = t[(1 + i) - 1]
    BY <1>1, <1>2, PieceOfText
  <1>4. Length(s) = IF c < Length(t) THEN Length(t) - c ELSE 0
    BY <1>1, <1>3 DEF b
  <1>5. Length(s) <= Length(t)
    BY <1>1, <1>4
  <1>6. \A i \in 1 .. Length(s) : s[i] = t[i]
    <2>1. \A i \in 1 .. Length(s) : i \in 1 .. (b - 1) + 1 /\ (1 + i) - 1 = i
      BY <1>1, <1>3
    <2> QED BY <1>3, <2>1
  <1> QED BY <1>3, <1>4, <1>5, <1>6 DEF Begins

\* A text found under a tag: one of the fields with this tag has it.
Finds(v, F, target) == \E i \in 1 .. Length(F) : F[i][1] = target /\ v = F[i][2]

\* Or it has a text that begins with it.
FindsBegin(v, F, target) ==
  \E i \in 1 .. Length(F) : F[i][1] = target /\ v \in Text /\ Begins(v, F[i][2])

NoShorterTag(F, target) == \A i \in 1 .. Length(F) : F[i][1] \div 10 # target
Lacks(F, target) == \A i \in 1 .. Length(F) : F[i][1] # target

\* What is mounted is read back.
LEMMA MountedIsRead ==
  ASSUME NEW F \in Seq(Field), NEW s, s = Mounted(F), NEW target
  PROVE  /\ s \in Text
         /\ \/ Lacks(F, target) /\ util_String_GetValueTLV(target, s) = None
            \/ Finds(util_String_GetValueTLV(target, s), F, target)
  <1> DEFINE M == Mounting(F)
             n == Length(F)
             P == [k \in 0 .. n |-> Length(M[k])]
             v == util_String_GetValueTLV(target, s)
  <1>1. n \in Nat /\ n \in 0 .. n /\ \A i \in 1 .. n : F[i] \in Field
    BY FieldsAre
  <1>2. Mounts(M, F)
    BY MountingIs
  <1>3. s = M[n]
    BY DEF Mounted, Length
  <1> HIDE DEF M, n, v
  <1>4. s \in Text
    BY <1>1, <1>2, <1>3 DEF Mounts, n
  <1>5. /\ Length(M[0]) = 0 /\ \A i \in 0 .. n : Length(M[i]) \in Nat
        /\ \A i \in 1 .. n : Length(M[i]) = (Length(M[i - 1]) + 6) + Length(F[i][2])
    BY <1>2, MountedLengths DEF n
  <1>6. \A i \in 1 .. n : Within(s, Length(M[i - 1]), F[i]) /\ Stands(s, Length(M[i - 1]), F[i])
    BY <1>1, <1>2, <1>3, MountedStand DEF n
  <1>7. \A i \in 1 .. n :
          /\ i - 1 \in 0 .. n /\ i \in 0 .. n
          /\ Length(M[i - 1]) < Length(s) /\ TagAt(s, Length(M[i - 1])) = F[i][1]
          /\ FieldEnd(s, Length(M[i - 1])) = (Length(M[i - 1]) + 6) + Length(F[i][2])
          /\ util_String_Substring(s, Length(M[i - 1]) + 6, SizeAt(s, Length(M[i - 1]))) = F[i][2]
    <2>1. TAKE i \in 1 .. n
    <2>2. i - 1 \in 0 .. n /\ i \in 0 .. n
      BY <1>1
    <2>3. Length(M[i - 1]) \in Nat /\ F[i] \in Field
      BY <1>1, <1>5, <2>2
    <2> QED BY <1>4, <1>6, <2>2, <2>3, WholeFieldIsRead
  <1>8. Reaches(P, s, n)
    <2>1. P[0] = 0 /\ \A i \in 0 .. n : P[i] \in Nat
      BY <1>1, <1>5
    <2>2. \A i \in 1 .. n : P[i - 1] < Length(s) /\ P[i] = FieldEnd(s, P[i - 1])
      BY <1>5, <1>7
    <2>3. P[n] >= Length(s)
      BY <1>1, <1>3, <1>5
    <2> QED BY <2>1, <2>2, <2>3 DEF Reaches
  <1>9. \A i \in 1 .. n : P[i - 1] = Length(M[i - 1])
    BY <1>7
  <1>10. \/ /\ \A i \in 1 .. n : TagAt(s, P[i - 1]) # target
            /\ v = None
         \/ \E i \in 1 .. n :
              /\ TagAt(s, P[i - 1]) = target
              /\ v = util_String_Substring(s, P[i - 1] + 6, SizeAt(s, P[i - 1]))
    <2> HIDE DEF P
    <2> QED BY <1>1, <1>4, <1>8, LookupIs DEF v
  <1> HIDE DEF P
  <1>11. \/ /\ \A i \in 1 .. n : F[i][1] # target
            /\ v = None
         \/ \E i \in 1 .. n : F[i][1] = target /\ v = F[i][2]
    BY <1>7, <1>9, <1>10
  <1> QED BY <1>4, <1>11 DEF n, v, Finds, Lacks

\* Of what is mounted and lacks up to four characters a begin is read back, under
\* its own tag if no shorter tag is looked for.
LEMMA CutIsRead ==
  ASSUME NEW F \in Seq(Field), NEW c \in 1 .. 4, NEW s,
         s = SubSeq(Mounted(F), 1, Len(Mounted(F)) - c), NEW target,
         NoShorterTag(F, target)
  PROVE  \/ util_String_GetValueTLV(target, s) = None
         \/ FindsBegin(util_String_GetValueTLV(target, s), F, target)
  <1> DEFINE M == Mounting(F)
             n == Length(F)
             t == Mounted(F)
             v == util_String_GetValueTLV(target, s)
  <1>1. n \in Nat /\ n \in 0 .. n /\ \A i \in 1 .. n : F[i] \in Field
    BY FieldsAre
  <1>2. Mounts(M, F)
    BY MountingIs
  <1>3. t = M[n]
    BY DEF Mounted, Length
  <1>4. s = SubSeq(t, 1, Length(t) - c)
    BY DEF Length
  <1>0. \A i \in 1 .. n : F[i][1] \div 10 # target
    BY DEF NoShorterTag
  <1> HIDE DEF M, n, v, t
  <1>5. t \in Text /\ Length(t) \in Nat
    BY <1>1, <1>2, <1>3, TextIs DEF Mounts, n
  <1>6. /\ Length(M[0]) = 0 /\ \A i \in 0 .. n : Length(M[i]) \in Nat
        /\ \A i \in 1 .. n : Length(M[i]) = (Length(M[i - 1]) + 6) + Length(F[i][2])
    BY <1>2, MountedLengths DEF n
  <1>7. \A i \in 1 .. n : Within(t, Length(M[i - 1]), F[i]) /\ Stands(t, Length(M[i - 1]), F[i])
    BY <1>1, <1>2, <1>3, MountedStand DEF n
  <1>8. /\ s \in Text
        /\ Length(s) = IF c < Length(t) THEN Length(t) - c ELSE 0
        /\ Begins(s, t)
    BY <1>4, <1>5, CutText
  <1>9. CASE n = 0
    <2> DEFINE P == [k \in 0 .. 0 |-> 0]
    <2>1. Length(t) = 0 /\ Length(s) = 0
      BY <1>3, <1>6, <1>8, <1>9
    <2>2. Reaches(P, s, 0)
      BY <2>1 DEF Reaches
    <2>3. 0 \in Nat
      OBVIOUS
    <2> HIDE DEF P
    <2>4. v = None
      BY <1>8, <2>2, <2>3, LookupIs DEF v
    <2> QED BY <2>4 DEF v
  <1>10. CASE n # 0
    <2> DEFINE at(k) == Length(M[k])
               e == FieldEnd(s, at(n - 1))
               P == [k \in 0 .. n |-> IF k < n THEN at(k) ELSE e]
    <2>1. n \in 1 .. n /\ n - 1 \in 0 .. n /\ at(n - 1) \in Nat /\ F[n] \in Field
      BY <1>1, <1>6, <1>10
    <2>2. Length(F[n][2]) \in Nat
      BY <2>1, FieldText
    <2>3. (at(n - 1) + 6) + Length(F[n][2]) = Length(s) + c /\ Length(s) \in Nat
      <3>1. Length(t) = (at(n - 1) + 6) + Length(F[n][2])
        BY <1>3, <1>6, <2>1
      <3>2. Length(s) = IF c < Length(t) THEN Length(t) - c ELSE 0
        BY <1>8
      <3> HIDE DEF at
      <3>3. c < Length(t)
        BY <2>1, <2>2, <3>1
      <3> QED BY <1>5, <2>1, <3>1, <3>2, <3>3, SMTT(40)
    <2>4. Stands(s, at(n - 1), F[n])
      BY <1>5, <1>7, <1>8, <2>1, StandsInCut
    <2>5. /\ at(n - 1) < Length(s) /\ TagAt(s, at(n - 1)) \in {F[n][1], F[n][1] \div 10}
          /\ e >= Length(s) /\ e \in Nat
          /\ util_String_Substring(s, at(n - 1) + 6, SizeAt(s, at(n - 1))) \in Text
          /\ Begins(util_String_Substring(s, at(n - 1) + 6, SizeAt(s, at(n - 1))), F[n][2])
      BY <1>8, <2>1, <2>3, <2>4, CutFieldIsRead
    <2> HIDE DEF e
    <2>6. \A i \in 1 .. n - 1 :
            /\ i - 1 \in 0 .. n /\ i \in 0 .. n
            /\ at(i - 1) \in Nat
            /\ at(i - 1) < Length(s) /\ TagAt(s, at(i - 1)) = F[i][1]
            /\ FieldEnd(s, at(i - 1)) = (at(i - 1) + 6) + Length(F[i][2])
            /\ util_String_Substring(s, at(i - 1) + 6, SizeAt(s, at(i - 1))) = F[i][2]
            /\ F[i][2] \in Text
      <3>1. TAKE i \in 1 .. n - 1
      <3>2. i - 1 \in 0 .. n /\ i \in 0 .. n /\ i \in 1 .. n /\ i \in 0 .. n - 1 /\ n - 1 \in 0 .. Length(F)
            /\ i \in 1 .. n - 1
        BY <1>1 DEF n
      <3>3. at(i - 1) \in Nat /\ F[i] \in Field
        BY <1>1, <1>6, <3>2
      <3>3a. F[i][2] \in Text /\ Length(F[i][2]) \in Nat
        BY <3>3, FieldText
      <3>4. Within(M[n - 1], at(i - 1), F[i])
        BY <1>2, <3>2, MountedStand
      <3>5. (at(i - 1) + 6) + Length(F[i][2]) <= at(n - 1)
        BY <3>4 DEF Within
      <3>6. Within(s, at(i - 1), F[i])
        <4> HIDE DEF at
        <4> QED BY <2>1, <2>2, <2>3, <3>3, <3>3a, <3>5, SMTT(40) DEF Within
      <3>7. Stands(s, at(i - 1), F[i])
        BY <1>5, <1>7, <1>8, <3>2, <3>3, StandsInCut
      <3> QED BY <1>8, <3>2, <3>3, <3>3a, <3>6, <3>7, WholeFieldIsRead
    <2>7. /\ \A i \in 1 .. n : i = n \/ i \in 1 .. n - 1
          /\ \A i \in 1 .. n : i - 1 \in 0 .. n /\ i - 1 < n /\ P[i - 1] = at(i - 1)
      BY <1>1
    <2>8. Reaches(P, s, n)
      <3>1. P[0] = 0
        BY <1>1, <1>6, <1>10
      <3>2. \A i \in 0 .. n : P[i] \in Nat
        BY <1>6, <2>5
      <3>3. P[n] = e
        BY <1>1
      <3>4. \A i \in 1 .. n - 1 : P[i] = FieldEnd(s, P[i - 1])
        <4>1. TAKE i \in 1 .. n - 1
        <4>2. i \in 1 .. n /\ i \in 0 .. n /\ i < n
          BY <1>1
        <4>3. P[i] = at(i) /\ P[i - 1] = at(i - 1)
          BY <2>7, <4>2
        <4>4. at(i) = (at(i - 1) + 6) + Length(F[i][2])
          BY <1>6, <4>2
        <4> QED BY <2>6, <4>3, <4>4
      <3>5. P[n] = FieldEnd(s, P[n - 1])
        BY <2>1, <2>7, <3>3 DEF e
      <3>6. \A i \in 1 .. n : P[i - 1] < Length(s)
        BY <2>5, <2>6, <2>7
      <3> HIDE DEF P
      <3>7. \A i \in 1 .. n : P[i] = FieldEnd(s, P[i - 1])
        BY <2>7, <3>4, <3>5
      <3> QED BY <2>5, <3>1, <3>2, <3>3, <3>6, <3>7 DEF Reaches
    <2>9. \/ v = None
          \/ \E i \in 1 .. n :
               /\ TagAt(s, P[i - 1]) = target
               /\ v = util_String_Substring(s, P[i - 1] + 6, SizeAt(s, P[i - 1]))
      <3> HIDE DEF P
      <3> QED BY <1>1, <1>8, <2>8, LookupIs DEF v
    <2> HIDE DEF P
    <2>10. ASSUME NEW i \in 1 .. n, TagAt(s, P[i - 1]) = target,
                  v = util_String_Substring(s, P[i - 1] + 6, SizeAt(s, P[i - 1]))
           PROVE  F[i][1] = target /\ v \in Text /\ Begins(v, F[i][2])
      <3>1. CASE i = n
        BY <1>0, <2>1, <2>5, <2>7, <2>10, <3>1
      <3>2. CASE i \in 1 .. n - 1
        <4>1. v = F[i][2] /\ F[i][1] = target /\ v \in Text
          BY <2>6, <2>7, <2>10, <3>2
        <4>2. Begins(v, v)
          <5>1. Length(v) \in Nat
            BY <4>1, TextIs
          <5> QED BY <5>1 DEF Begins
        <4> QED BY <4>1, <4>2
      <3> QED BY <2>7, <3>1, <3>2
    <2> QED BY <2>9, <2>10 DEF n, v, FindsBegin
  <1> QED BY <1>9, <1>10

-----------------------------------------------------------------------------
(* What terminals and the ISM tell.                                        *)

\* What stands in a sequence.
Elements(F) == {F[i] : i \in 1 .. Length(F)}

LEMMA ElementsJoined ==
  ASSUME NEW V, NEW s \in Seq(V), NEW t \in Seq(V), NEW u, IsJoined(u, s, t)
  PROVE  u \in Seq(V) /\ Elements(u) = Elements(s) \cup Elements(t)
  <1>1. /\ u \in Seq(V) /\ Len(u) = Len(s) + Len(t)
        /\ \A i \in 1 .. Len(s) : u[i] = s[i]
        /\ \A i \in 1 .. Len(t) : u[Len(s) + i] = t[i]
    BY Joined
  <1>2. Len(s) \in Nat /\ Len(t) \in Nat
    BY LenProperties
  <1> DEFINE m == Len(s)
             n == Len(t)
  <1>3. /\ m \in Nat /\ n \in Nat /\ Len(u) = m + n
        /\ \A i \in 1 .. m : u[i] = s[i]
        /\ \A i \in 1 .. n : u[m + i] = t[i]
    BY <1>1, <1>2
  <1>4. /\ Elements(u) = {u[i] : i \in 1 .. Len(u)} /\ Elements(s) = {s[i] : i \in 1 .. m}
        /\ Elements(t) = {t[i] : i \in 1 .. n}
    BY DEF Elements, Length
  <1> HIDE DEF m, n
  <1>5. \A i \in 1 .. m + n : u[i] \in {s[k] : k \in 1 .. m} \cup {t[k] : k \in 1 .. n}
    <2>1. TAKE i \in 1 .. m + n
    <2>2. CASE i \in 1 .. m
      BY <1>3, <2>2
    <2>3. CASE ~(i \in 1 .. m)
      <3>1. i - m \in 1 .. n /\ m + (i - m) = i
        BY <1>3, <2>3
      <3>2. u[i] = t[i - m]
        BY <1>3, <3>1
      <3> QED BY <3>1, <3>2
    <2> QED BY <2>2, <2>3
  <1>6. \A i \in 1 .. m : s[i] \in {u[k] : k \in 1 .. m + n}
    <2>1. \A i \in 1 .. m : i \in 1 .. m + n
      BY <1>3
    <2> QED BY <1>3, <2>1
  <1>7. \A i \in 1 .. n : t[i] \in {u[k] : k \in 1 .. m + n}
    <2>1. \A i \in 1 .. n : m + i \in 1 .. m + n
      BY <1>3
    <2> QED BY <1>3, <2>1
  <1>8. Elements(u) \subseteq Elements(s) \cup Elements(t)
    BY <1>3, <1>4, <1>5
  <1>9. Elements(s) \cup Elements(t) \subseteq Elements(u)
    BY <1>3, <1>4, <1>6, <1>7
  <1> QED BY <1>1, <1>8, <1>9

\* A sequence given by its elements.
LEMMA ListIs ==
  ASSUME NEW V, NEW n \in Nat, NEW f \in [1 .. n -> V]
  PROVE  f \in Seq(V) /\ Length(f) = n /\ Elements(f) = {f[i] : i \in 1 .. n}
  <1>1. f \in Seq(V)
    BY SeqDef
  <1>2. Len(f) \in Nat /\ DOMAIN f = 1 .. Len(f)
    BY <1>1, LenProperties
  <1>3. 1 .. Len(f) = 1 .. n
    BY <1>2
  <1>4. Len(f) = n
    <2> DEFINE m == Len(f)
    <2> HIDE DEF m
    <2>1. m \in Nat /\ 1 .. m = 1 .. n
      BY <1>2, <1>3 DEF m
    <2>2. m <= n
      <3>1. m = 0 \/ m \in 1 .. m
        BY <2>1
      <3> QED BY <2>1, <3>1
    <2>3. n <= m
      <3>1. n = 0 \/ n \in 1 .. n
        OBVIOUS
      <3> QED BY <2>1, <3>1
    <2> QED BY <2>1, <2>2, <2>3 DEF m
  <1> QED BY <1>1, <1>4 DEF Elements, Length

\* An element put into a sequence.
LEMMA InsertedIs ==
  ASSUME NEW V, NEW s \in Seq(V), NEW k \in 1 .. Len(s) + 1, NEW e \in V
  PROVE  InsertAt(s, k, e) \in Seq(V) /\ Elements(InsertAt(s, k, e)) = Elements(s) \cup {e}
  <1> DEFINE n == Len(s)
             a == SubSeq(s, 1, k - 1)
             b == SubSeq(s, k, n)
             w == <<e>>
             d == a \o w
             u == d \o b
  <1>1. n \in Nat
    BY LenProperties
  <1>2. InsertAt(s, k, e) = u
    BY DEF InsertAt
  <1>3. a \in Seq(V) /\ Len(a) = k - 1 /\ \A i \in 1 .. k - 1 : a[i] = s[i]
    <2>1. k - 1 \in Nat /\ 1 \in Nat \ {0} /\ k - 1 \in Int /\ k - 1 = (1 + (k - 1)) - 1 /\ k - 1 <= Len(s)
      BY <1>1
    <2>2. a \in Seq(V) /\ Len(a) = k - 1 /\ \A i \in 1 .. k - 1 : a[i] = s[(1 + i) - 1]
      BY <2>1, PieceIs
    <2>3. \A i \in 1 .. k - 1 : (1 + i) - 1 = i
      OBVIOUS
    <2> QED BY <2>2, <2>3
  <1>4. b \in Seq(V) /\ Len(b) = (n + 1) - k /\ \A i \in 1 .. (n + 1) - k : b[i] = s[(k + i) - 1]
    <2>1. (n + 1) - k \in Nat /\ k \in Nat \ {0} /\ n \in Int /\ n = (k + ((n + 1) - k)) - 1 /\ n <= Len(s)
      BY <1>1
    <2> QED BY <2>1, PieceIs
  <1>5. w \in Seq(V) /\ Elements(w) = {e}
    <2>1. w \in Seq(V) /\ Len(w) = 1 /\ w[1] = e
      OBVIOUS
    <2>2. \A i \in 1 .. 1 : i = 1
      OBVIOUS
    <2> QED BY <2>1, <2>2 DEF Elements, Length
  <1> HIDE DEF n, a, b, w
  <1>6. d \in Seq(V) /\ Elements(d) = Elements(a) \cup {e}
    <2>1. IsJoined(d, a, w)
      BY DEF IsJoined
    <2> HIDE DEF d
    <2>2. d \in Seq(V) /\ Elements(d) = Elements(a) \cup Elements(w)
      BY <1>3, <1>5, <2>1, ElementsJoined
    <2> QED BY <1>5, <2>2
  <1> HIDE DEF d
  <1>7. u \in Seq(V) /\ Elements(u) = Elements(d) \cup Elements(b)
    <2>1. IsJoined(u, d, b)
      BY DEF IsJoined
    <2> HIDE DEF u
    <2> QED BY <1>4, <1>6, <2>1, ElementsJoined
  <1>8. Elements(a) \cup Elements(b) = Elements(s)
    <2>1. /\ Elements(a) = {a[i] : i \in 1 .. k - 1} /\ Elements(s) = {s[i] : i \in 1 .. n}
          /\ Elements(b) = {b[i] : i \in 1 .. (n + 1) - k}
      BY <1>3, <1>4 DEF Elements, Length, n
    <2>2. k \in 1 .. n + 1
      BY DEF n
    <2>3. \A i \in 1 .. k - 1 : i \in 1 .. n
      BY <1>1, <2>2
    <2>4. \A i \in 1 .. (n + 1) - k : (k + i) - 1 \in 1 .. n
      BY <1>1, <2>2
    <2>5. \A i \in 1 .. n : \/ i \in 1 .. k - 1
                            \/ (i + 1) - k \in 1 .. (n + 1) - k /\ (k + ((i + 1) - k)) - 1 = i
      BY <1>1, <2>2
    <2>6. Elements(a) \cup Elements(b) \subseteq Elements(s)
      BY <1>3, <1>4, <2>1, <2>3, <2>4
    <2>7. \A i \in 1 .. n : s[i] \in Elements(a) \cup Elements(b)
      <3>1. TAKE i \in 1 .. n
      <3>2. CASE i \in 1 .. k - 1
        BY <1>3, <2>1, <3>2
      <3>3. CASE ~(i \in 1 .. k - 1)
        <4>1. (i + 1) - k \in 1 .. (n + 1) - k /\ (k + ((i + 1) - k)) - 1 = i
          BY <2>5, <3>3
        <4>2. b[(i + 1) - k] = s[i]
          BY <1>4, <4>1
        <4> QED BY <2>1, <4>1, <4>2
      <3> QED BY <3>2, <3>3
    <2> QED BY <2>1, <2>6, <2>7
  <1> QED BY <1>2, <1>6, <1>7, <1>8

LEMMA ShortIs ==
  ASSUME NEW t \in Short
  PROVE  t \in Text /\ Length(t) \in 0 .. 63
  <1>1. t \in Text /\ Len(t) <= 63
    BY DEF Short
  <1>2. Length(t) \in Nat
    BY <1>1, TextIs
  <1>3. Length(t) <= 63
    BY <1>1 DEF Length
  <1>4. Length(t) \in 0 .. 63
    BY <1>2, <1>3
  <1> QED BY <1>1, <1>4

\* A field of a short text.
LEMMA ShortFields ==
  ASSUME NEW tag \in Small, NEW t \in Text, Length(t) <= 999
  PROVE  <<tag, t>> \in Field
  BY DEF Field, Small

LEMMA ShortTold == \A tag \in Small, t \in Short : <<tag, t>> \in Field
  <1>1. \A t \in Short : t \in Text /\ Length(t) <= 999
    BY ShortIs
  <1> QED BY <1>1, ShortFields, ZenonT(90)

\* A terminal and its versions.
Terminals == [model : Short, app : Short, fw : Short]

\* What it tells under a tag.
Told(tag) == CASE tag = ID_APP_VER -> terminal.app
               [] tag = ID_FIRMWARE_VER -> terminal.fw
               [] tag = ID_MODEL_POS -> terminal.model

TellTags == {ID_APP_VER, ID_FIRMWARE_VER, ID_MODEL_POS}

\* Read from its request, perhaps cut: nothing, or what it told or a begin of it.
LEMMA TerminalIsRead ==
  ASSUME terminal \in Terminals, NEW m \in Message, NEW tag \in TellTags, NEW v,
         v = util_String_GetValueTLV(tag, TerminalText(m)), v # None
  PROVE  v \in Text /\ Begins(v, Told(tag)) /\ (m.cut = 0 => v = Told(tag))
  <1> DEFINE l == m.layout
             n == Len(l)
             G == [i \in 1 .. n |-> <<l[i], Told(l[i])>>]
             s == Mounted(G)
             t == TerminalText(m)
  <1>0. TellTags = {4, 5, 15}
    BY DEF TellTags, ID_APP_VER, ID_FIRMWARE_VER, ID_MODEL_POS
  <1>1. n \in Nat /\ \A i \in 1 .. n : l[i] \in TellTags
    <2>1. l \in Seq({4, 5, 15})
      BY KeepAliveAssumption DEF Message
    <2> QED BY <1>0, <2>1, LenProperties, ElementOfSeq
  <1>2. \A g \in TellTags : g \in Small /\ Told(g) \in Short
    <2>1. terminal.app \in Short /\ terminal.fw \in Short /\ terminal.model \in Short
      BY DEF Terminals
    <2>2. \A g \in TellTags : Told(g) \in Short
      BY <2>1 DEF Told, TellTags, ID_APP_VER, ID_FIRMWARE_VER, ID_MODEL_POS
    <2>3. \A g \in TellTags : g \in Small
      BY <1>0 DEF Small
    <2> QED BY <2>2, <2>3
  <1>3. t = SubSeq(s, 1, Len(s) - m.cut)
    BY DEF TerminalText, Told
  <1>4. m.cut \in 0 .. 4
    BY DEF Message
  <1> HIDE DEF l, n
  <1>5. G \in [1 .. n -> Field]
    <2>1. \A i \in 1 .. n : <<l[i], Told(l[i])>> \in Field
      <3>1. TAKE i \in 1 .. n
      <3>2. l[i] \in Small /\ Told(l[i]) \in Short
        BY <1>1, <1>2
      <3> QED BY <3>2, ShortTold
    <2> QED BY <2>1
  <1>6. G \in Seq(Field) /\ Length(G) = n
    <2> HIDE DEF G
    <2> QED BY <1>1, <1>5, ListIs
  <1>7. \A i \in 1 .. n : G[i][1] = l[i] /\ G[i][2] = Told(l[i])
    OBVIOUS
  <1> HIDE DEF G
  <1>8. Finds(v, G, tag) => v = Told(tag)
    BY <1>6, <1>7 DEF Finds
  <1>9. FindsBegin(v, G, tag) => v \in Text /\ Begins(v, Told(tag))
    BY <1>6, <1>7 DEF FindsBegin
  <1>10. CASE m.cut = 0
    <2>1. s \in Text /\ ((Lacks(G, tag) /\ util_String_GetValueTLV(tag, s) = None)
                         \/ Finds(util_String_GetValueTLV(tag, s), G, tag))
      BY <1>6, MountedIsRead
    <2>2. t = s
      <3>1. Len(s) \in Nat
        BY <2>1, LenProperties DEF Text
      <3> HIDE DEF s
      <3>2. t = SubSeq(s, 1, Len(s))
        BY <1>3, <1>10, <3>1
      <3>3. SubSeq(s, 1, Len(s)) = s
        BY <2>1, SubSeqFull DEF Text
      <3> QED BY <3>2, <3>3
    <2>3. v = Told(tag)
      BY <1>8, <2>1, <2>2
    <2>4. Begins(v, Told(tag))
      <3>1. Length(v) \in Nat
        BY <1>2, <2>3, ShortIs
      <3> QED BY <2>3, <3>1 DEF Begins
    <2>5. v \in Text
      BY <1>2, <2>3, ShortIs
    <2> QED BY <2>3, <2>4, <2>5
  <1>11. CASE m.cut # 0
    <2>1. m.cut \in 1 .. 4
      BY <1>4, <1>11
    <2>2. NoShorterTag(G, tag)
      <3>1. \A g \in TellTags : g \div 10 \in {0, 1}
        BY <1>0
      <3>2. tag # 0 /\ tag # 1
        BY <1>0
      <3>3. \A i \in 1 .. n : G[i][1] \div 10 # tag
        BY <1>1, <1>7, <3>1, <3>2
      <3> QED BY <1>6, <3>3 DEF NoShorterTag
    <2>3. \/ util_String_GetValueTLV(tag, t) = None
          \/ FindsBegin(util_String_GetValueTLV(tag, t), G, tag)
      <3> HIDE DEF t
      <3> QED BY <1>3, <1>6, <2>1, <2>2, CutIsRead
    <2> QED BY <1>9, <1>11, <2>3
  <1> QED BY <1>10, <1>11

\* The first four characters of a model, and whether it is an MP35.
Four(model) == SubSeq(model, 1, Min({4, Len(model)}))

LEMMA FourIs ==
  ASSUME NEW m \in Short
  PROVE  Four(m) \in Text /\ Length(Four(m)) \in 0 .. 4 /\ (IsMP35(Four(m)) <=> IsMP35(m))
  <1> DEFINE n == Length(m)
             e == Min({4, n})
             q == Four(m)
  <1>1. m \in Text /\ n \in Nat
    BY ShortIs
  <1>2. e = (IF 4 <= n THEN 4 ELSE n) /\ e \in 0 .. 4 /\ e <= n
    <2>1. 4 \in Nat
      OBVIOUS
    <2> HIDE DEF n
    <2>2. e = IF 4 <= n THEN 4 ELSE n
      BY <1>1, <2>1, LesserIs
    <2> HIDE DEF e
    <2> QED BY <1>1, <2>2
  <1>3. q = SubSeq(m, 1, e)
    BY DEF Four, Length
  <1> HIDE DEF e, q
  <1>4. q \in Text /\ Length(q) = e
    <2>1. e \in Int /\ 1 \in Nat \ {0}
      BY <1>2
    <2>2. q \in Text /\ Length(q) = IF 1 <= e THEN (e - 1) + 1 ELSE 0
      BY <1>1, <1>2, <1>3, <2>1, PieceOfText, ZenonT(90)
    <2> HIDE DEF n
    <2> QED BY <1>2, <2>2
  <1>5. Four(q) = q
    <2>1. Length(q) \in Nat /\ Length(q) <= 4 /\ 4 \in Nat
      BY <1>2, <1>4
    <2>2. Min({4, Length(q)}) = Length(q)
      <3> DEFINE l == Length(q)
      <3>1. l \in Nat /\ l <= 4 /\ 4 \in Nat
        BY <2>1
      <3> HIDE DEF l
      <3>2. Min({4, l}) = IF 4 <= l THEN 4 ELSE l
        BY <3>1, LesserIs
      <3>3. Min({4, l}) = l
        BY <3>1, <3>2
      <3> QED BY <3>3 DEF l
    <2>3. Four(q) = SubSeq(q, 1, Len(q))
      BY <2>2 DEF Four, Length
    <2> QED BY <1>4, <2>3, SubSeqFull DEF Text
  <1>6. IsMP35(q) <=> Four(q) = MODEL_MP35
    BY DEF IsMP35, Four
  <1>7. IsMP35(m) <=> q = MODEL_MP35
    BY DEF IsMP35, Four, q
  <1>8. q \in Text /\ Length(q) \in 0 .. 4 /\ (IsMP35(q) <=> IsMP35(m))
    BY <1>2, <1>4, <1>5, <1>6, <1>7
  <1> QED BY <1>8 DEF q

\* What is known of a request, and what the configuration says.
Ins == Terminals
Outs == [Keys -> Short]

\* The host's directories.
Middles == {<<Slash>>, <<To>>, <<Slash, APP, Slash>>, <<Slash, FW, Slash>>}

LEMMA MiddleIs ==
  ASSUME NEW t \in Middles
  PROVE  t \in Text /\ Length(t) \in 0 .. 3
  <1>1. \A a \in Nat : <<a>> \in Seq(Nat) /\ Len(<<a>>) = 1
    OBVIOUS
  <1>2. \A a, b, c \in Nat : <<a, b, c>> \in Seq(Nat) /\ Len(<<a, b, c>>) = 3
    OBVIOUS
  <1>3. Slash \in Nat /\ To \in Nat /\ APP \in Nat /\ FW \in Nat
    BY DEF Slash, To, APP, FW
  <1>4. t \in Seq(Nat) /\ (Len(t) = 1 \/ Len(t) = 3)
    BY <1>1, <1>2, <1>3 DEF Middles
  <1> QED BY <1>4 DEF Text, Length

\* Two texts of bounded lengths, joined.
LEMMA JoinedWithin ==
  ASSUME NEW a \in Nat, NEW b \in Nat, NEW t \in Text, NEW u \in Text,
         Length(t) <= a, Length(u) <= b
  PROVE  Then(t, u) \in Text /\ Length(Then(t, u)) <= a + b
  <1>1. Then(t, u) \in Text /\ Length(Then(t, u)) = Length(t) + Length(u)
    BY JoinedText
  <1>2. Length(t) \in Nat /\ Length(u) \in Nat
    BY TextIs
  <1>3. Length(Then(t, u)) <= a + b
    <2> DEFINE m == Length(t)
               n == Length(u)
    <2>1. m \in Nat /\ n \in Nat /\ m <= a /\ n <= b
      BY <1>2
    <2> HIDE DEF m, n
    <2>2. m + n <= a + b
      BY <2>1
    <2> QED BY <1>1, <2>2 DEF m, n
  <1> QED BY <1>1, <1>3

\* A path is a text of at most 300 characters.
LEMMA PathIs ==
  ASSUME NEW in \in Ins, NEW out \in Outs
  PROVE  hostPath(in, out) \in Text /\ Length(hostPath(in, out)) <= 300
  <1> DEFINE q == Four(in.model)
             a == out[AppKey]
             f == out[FwKey]
             g == in.fw
             sl == <<Slash>>
             to == <<To>>
             ap == <<Slash, APP, Slash>>
             fm == <<Slash, FW, Slash>>
  <1>1. q \in Text /\ Length(q) <= 4
    <2>1. in.model \in Short
      BY DEF Ins, Terminals
    <2> QED BY <2>1, FourIs
  <1>2. /\ a \in Text /\ Length(a) <= 63 /\ f \in Text /\ Length(f) <= 63
        /\ g \in Text /\ Length(g) <= 63
    <2>1. a \in Short /\ f \in Short /\ g \in Short
      BY KeepAliveAssumption DEF Ins, Outs, Terminals
    <2>2. \A t \in Short : t \in Text /\ Length(t) <= 63
      BY ShortIs
    <2> QED BY <2>1, <2>2
  <1>3. /\ sl \in Text /\ Length(sl) <= 3 /\ to \in Text /\ Length(to) <= 3
        /\ ap \in Text /\ Length(ap) <= 3 /\ fm \in Text /\ Length(fm) <= 3
    <2>1. sl \in Middles /\ to \in Middles /\ ap \in Middles /\ fm \in Middles
      BY DEF Middles
    <2>2. \A t \in Middles : t \in Text /\ Length(t) <= 3
      BY MiddleIs
    <2> HIDE DEF sl, to, ap, fm
    <2> QED BY <2>1, <2>2
  <1>4. 3 \in Nat /\ 4 \in Nat /\ 63 \in Nat
    OBVIOUS
  <1>5. /\ AppPath(q, a) = Then(Then(q, ap), a)
        /\ FwPath(q, g, f) = Then(Then(Then(Then(Then(Then(q, fm), f), sl), g), to), f)
    BY DEF AppPath, FwPath, Then
  <1>6. \/ hostPath(in, out) = AppPath(q, a)
        \/ hostPath(in, out) = FwPath(q, g, f)
        \/ hostPath(in, out) = <<>>
    BY DEF hostPath, Four
  <1> HIDE DEF q, a, f, g, sl, to, ap, fm
  <1>7. AppPath(q, a) \in Text /\ Length(AppPath(q, a)) <= 300
    <2>1. Then(q, ap) \in Text /\ Length(Then(q, ap)) <= 4 + 3
      BY <1>1, <1>3, <1>4, JoinedWithin
    <2>2. Length(Then(q, ap)) <= 7 /\ 7 \in Nat
      BY <2>1
    <2>3. Then(Then(q, ap), a) \in Text /\ Length(Then(Then(q, ap), a)) <= 7 + 63
      BY <1>2, <1>4, <2>1, <2>2, JoinedWithin
    <2>4. Length(Then(Then(q, ap), a)) \in Nat
      BY <2>3, TextIs
    <2>5. Length(Then(Then(q, ap), a)) <= 300
      BY <2>3, <2>4
    <2> QED BY <1>5, <2>3, <2>5
  <1>8. FwPath(q, g, f) \in Text /\ Length(FwPath(q, g, f)) <= 300
    <2> DEFINE u1 == Then(q, fm)
               u2 == Then(u1, f)
               u3 == Then(u2, sl)
               u4 == Then(u3, g)
               u5 == Then(u4, to)
               u6 == Then(u5, f)
    <2>1. u1 \in Text /\ Length(u1) <= 4 + 3
      BY <1>1, <1>3, <1>4, JoinedWithin
    <2> HIDE DEF u1
    <2>2. u2 \in Text /\ Length(u2) <= (4 + 3) + 63
      <3>1. 4 + 3 \in Nat
        OBVIOUS
      <3> QED BY <1>2, <1>4, <2>1, <3>1, JoinedWithin
    <2> HIDE DEF u2
    <2>3. u3 \in Text /\ Length(u3) <= ((4 + 3) + 63) + 3
      <3>1. (4 + 3) + 63 \in Nat
        OBVIOUS
      <3> QED BY <1>3, <1>4, <2>2, <3>1, JoinedWithin
    <2> HIDE DEF u3
    <2>4. u4 \in Text /\ Length(u4) <= (((4 + 3) + 63) + 3) + 63
      <3>1. ((4 + 3) + 63) + 3 \in Nat
        OBVIOUS
      <3> QED BY <1>2, <1>4, <2>3, <3>1, JoinedWithin
    <2> HIDE DEF u4
    <2>5. u5 \in Text /\ Length(u5) <= ((((4 + 3) + 63) + 3) + 63) + 3
      <3>1. (((4 + 3) + 63) + 3) + 63 \in Nat
        OBVIOUS
      <3> QED BY <1>3, <1>4, <2>4, <3>1, JoinedWithin
    <2> HIDE DEF u5
    <2>6. u6 \in Text /\ Length(u6) <= (((((4 + 3) + 63) + 3) + 63) + 3) + 63
      <3>1. ((((4 + 3) + 63) + 3) + 63) + 3 \in Nat
        OBVIOUS
      <3> QED BY <1>2, <1>4, <2>5, <3>1, JoinedWithin
    <2>7. FwPath(q, g, f) = u6
      BY <1>5 DEF u1, u2, u3, u4, u5
    <2> HIDE DEF u6
    <2>8. Length(u6) \in Nat
      BY <2>6, TextIs
    <2>9. Length(u6) <= 300
      BY <2>6, <2>8
    <2> QED BY <2>6, <2>7, <2>9
  <1>9. <<>> \in Text /\ Length(<<>>) <= 300
    BY NothingIs
  <1> QED BY <1>6, <1>7, <1>8, <1>9

\* The only value under a tag is read under it, and none where there is none.
Only(E, tag, v) == <<tag, v>> \in E /\ \A f \in E : f[1] = tag => f[2] = v

LEMMA OnlyIsRead ==
  ASSUME NEW F \in Seq(Field), NEW tag, NEW v, Only(Elements(F), tag, v)
  PROVE  util_String_GetValueTLV(tag, Mounted(F)) = v
  <1> DEFINE w == util_String_GetValueTLV(tag, Mounted(F))
  <1>1. (Lacks(F, tag) /\ w = None) \/ Finds(w, F, tag)
    BY MountedIsRead
  <1>2. ~Lacks(F, tag)
    <2>1. PICK i \in 1 .. Length(F) : F[i] = <<tag, v>>
      BY DEF Only, Elements
    <2>2. F[i][1] = tag
      BY <2>1
    <2> QED BY <2>2 DEF Lacks
  <1> HIDE DEF w
  <1>3. PICK i \in 1 .. Length(F) : F[i][1] = tag /\ w = F[i][2]
    BY <1>1, <1>2 DEF Finds
  <1>4. F[i] \in Elements(F)
    BY DEF Elements
  <1>5. w = v
    BY <1>3, <1>4 DEF Only
  <1> QED BY <1>5 DEF w

LEMMA NoneIsRead ==
  ASSUME NEW F \in Seq(Field), NEW tag, \A f \in Elements(F) : f[1] # tag
  PROVE  util_String_GetValueTLV(tag, Mounted(F)) = None
  <1>1. Lacks(F, tag)
    BY DEF Lacks, Elements
  <1>2. ~Finds(util_String_GetValueTLV(tag, Mounted(F)), F, tag)
    BY <1>1 DEF Finds, Lacks
  <1> QED BY <1>2, MountedIsRead

\* The fields of a good answer.
HostFields(out) == {<<ID_HOST(k), out[HostKeys[k]]>> : k \in 1 .. Len(HostKeys)}

DetailFields(in, out) ==
  {<<4, out[AppKey]>>, <<5, out[FwKey]>>, <<12, out[Timestamp]>>, <<15, Four(in.model)>>}
  \cup (IF hostPath(in, out) = <<>> THEN {} ELSE {<<9, hostPath(in, out)>>} \cup HostFields(out))

LEMMA HostTags ==
  /\ Len(HostKeys) \in 0 .. 4 /\ \A k \in 1 .. Len(HostKeys) : HostKeys[k] \in Keys
  /\ \A k \in 1 .. Len(HostKeys) : ID_HOST(k) \in {6, 7, 8, 10}
  /\ \A k, l \in 1 .. Len(HostKeys) : ID_HOST(k) = ID_HOST(l) => k = l
  <1>1. Len(HostKeys) \in 0 .. 4 /\ \A k \in 1 .. Len(HostKeys) : HostKeys[k] \in Keys
    <2>1. HostKeys \in Seq(Keys) /\ Len(HostKeys) <= 4
      BY KeepAliveAssumption
    <2>2. Len(HostKeys) \in Nat /\ \A k \in 1 .. Len(HostKeys) : HostKeys[k] \in Keys
      BY <2>1, LenProperties, ElementOfSeq
    <2>3. Len(HostKeys) \in 0 .. 4
      <3> DEFINE n == Len(HostKeys)
      <3>1. n \in Nat /\ n <= 4
        BY <2>1, <2>2
      <3> HIDE DEF n
      <3>2. n \in 0 .. 4
        BY <3>1
      <3> QED BY <3>2 DEF n
    <2> QED BY <2>2, <2>3
  <1>2. ID_HOST(1) = 6 /\ ID_HOST(2) = 7 /\ ID_HOST(3) = 8 /\ ID_HOST(4) = 10
    BY DEF ID_HOST
  <1>3. \A k \in 1 .. Len(HostKeys) : k = 1 \/ k = 2 \/ k = 3 \/ k = 4
    BY <1>1
  <1> QED BY <1>1, <1>2, <1>3

\* Two fields.
LEMMA PairIs ==
  ASSUME NEW V, NEW a \in V, NEW b \in V
  PROVE  <<a, b>> \in Seq(V) /\ Elements(<<a, b>>) = {a, b}
  <1>1. <<a, b>> \in Seq(V) /\ Len(<<a, b>>) = 2 /\ <<a, b>>[1] = a /\ <<a, b>>[2] = b
    OBVIOUS
  <1>2. Elements(<<a, b>>) = {<<a, b>>[i] : i \in 1 .. 2}
    BY <1>1 DEF Elements, Length
  <1>3. \A i \in 1 .. 2 : i = 1 \/ i = 2
    OBVIOUS
  <1>4. {<<a, b>>[i] : i \in 1 .. 2} = {a, b}
    BY <1>1, <1>3
  <1> QED BY <1>1, <1>2, <1>4

LEMMA DetailIs ==
  ASSUME NEW in \in Ins, NEW out \in Outs
  PROVE  \E F \in Seq(Field) : Detail(in, out) = Mounted(F) /\ Elements(F) = DetailFields(in, out)
  <1> DEFINE path == hostPath(in, out)
             a1 == <<ID_APP_VER, out[AppKey]>>
             a2 == <<ID_FIRMWARE_VER, out[FwKey]>>
             c1 == <<ID_EMV_TABLE_VER, out[Timestamp]>>
             c2 == <<ID_MODEL_POS, Four(in.model)>>
             a == <<a1, a2>>
             c == <<c1, c2>>
             hosts == [i \in 1 .. Len(HostKeys) |-> <<ID_HOST(i), out[HostKeys[i]]>>]
             p == <<ID_HOSTPATH, path>>
             host == InsertAt(hosts, Min({4, Len(hosts) + 1}), p)
             h == IF path = <<>> THEN <<>> ELSE host
             u == a \o h
             F == u \o c
  <1>1. Detail(in, out) = Mounted(F)
    BY DEF Detail, Four
  <1>2. \A k \in Keys : out[k] \in Text /\ Length(out[k]) <= 999
    <2>1. TAKE k \in Keys
    <2>2. out[k] \in Short
      BY DEF Outs
    <2>3. out[k] \in Text /\ Length(out[k]) \in 0 .. 63
      BY <2>2, ShortIs
    <2>4. Length(out[k]) <= 999
      BY <2>3
    <2> QED BY <2>3, <2>4
  <1>3. /\ a1 = <<4, out[AppKey]>> /\ a2 = <<5, out[FwKey]>>
        /\ c1 = <<12, out[Timestamp]>> /\ c2 = <<15, Four(in.model)>> /\ p = <<9, path>>
    BY DEF ID_APP_VER, ID_FIRMWARE_VER, ID_EMV_TABLE_VER, ID_MODEL_POS, ID_HOSTPATH
  <1>4. Four(in.model) \in Text /\ Length(Four(in.model)) <= 999
    <2>1. in.model \in Short
      BY DEF Ins, Terminals
    <2>2. Four(in.model) \in Text /\ Length(Four(in.model)) \in 0 .. 4
      BY <2>1, FourIs
    <2>3. Length(Four(in.model)) <= 999
      BY <2>2
    <2> QED BY <2>2, <2>3
  <1>5. path \in Text /\ Length(path) <= 999
    <2>1. path \in Text /\ Length(path) <= 300
      BY PathIs
    <2>2. Length(path) \in Nat
      BY <2>1, TextIs
    <2> HIDE DEF path
    <2>3. Length(path) <= 999
      BY <2>1, <2>2
    <2> QED BY <2>1, <2>3
  <1>6. a1 \in Field /\ a2 \in Field /\ c1 \in Field /\ c2 \in Field /\ p \in Field
    <2>1. 4 \in 0 .. 999 /\ 5 \in 0 .. 999 /\ 12 \in 0 .. 999 /\ 15 \in 0 .. 999 /\ 9 \in 0 .. 999
      OBVIOUS
    <2>2. AppKey \in Keys /\ FwKey \in Keys /\ Timestamp \in Keys
      BY KeepAliveAssumption
    <2> HIDE DEF path, a1, a2, c1, c2, p
    <2>3. /\ <<4, out[AppKey]>> \in Field /\ <<5, out[FwKey]>> \in Field
          /\ <<12, out[Timestamp]>> \in Field
      BY <1>2, <2>1, <2>2 DEF Field
    <2>4. <<15, Four(in.model)>> \in Field /\ <<9, path>> \in Field
      BY <1>4, <1>5, <2>1 DEF Field
    <2> QED BY <1>3, <2>3, <2>4
  <1>7. a \in Seq(Field) /\ Elements(a) = {a1, a2} /\ c \in Seq(Field) /\ Elements(c) = {c1, c2}
    <2> HIDE DEF a1, a2, c1, c2
    <2> QED BY <1>6, PairIs
  <1>8. hosts \in Seq(Field) /\ Length(hosts) = Len(HostKeys) /\ Elements(hosts) = HostFields(out)
    <2> DEFINE n == Len(HostKeys)
    <2>1. \A i \in 1 .. n : <<ID_HOST(i), out[HostKeys[i]]>> \in Field
      <3>1. TAKE i \in 1 .. n
      <3>2. ID_HOST(i) \in {6, 7, 8, 10} /\ HostKeys[i] \in Keys
        BY HostTags
      <3>3. ID_HOST(i) \in Small
        BY <3>2 DEF Small
      <3>4. out[HostKeys[i]] \in Short
        BY <3>2 DEF Outs
      <3> QED BY <3>3, <3>4, ShortTold
    <2>2. hosts \in [1 .. n -> Field] /\ n \in Nat
      BY <2>1, HostTags
    <2>3. \A i \in 1 .. n : hosts[i] = <<ID_HOST(i), out[HostKeys[i]]>>
      OBVIOUS
    <2> HIDE DEF hosts, n
    <2>4. hosts \in Seq(Field) /\ Length(hosts) = n /\ Elements(hosts) = {hosts[i] : i \in 1 .. n}
      BY <2>2, ListIs
    <2>5. {hosts[i] : i \in 1 .. n} = HostFields(out)
      BY <2>3 DEF HostFields, n
    <2> QED BY <2>4, <2>5 DEF n
  <1>9. host \in Seq(Field) /\ Elements(host) = HostFields(out) \cup {p}
    <2> DEFINE k == Min({4, Len(hosts) + 1})
    <2>1. Len(hosts) \in Nat
      BY <1>8, LenProperties
    <2> HIDE DEF hosts, p
    <2>2. k \in 1 .. Len(hosts) + 1
      <3> DEFINE m == Len(hosts) + 1
      <3>1. m \in Nat /\ m >= 1 /\ 4 \in Nat
        BY <2>1
      <3> HIDE DEF m
      <3>2. Min({4, m}) = IF 4 <= m THEN 4 ELSE m
        BY <3>1, LesserIs
      <3>3. Min({4, m}) \in 1 .. m
        BY <3>1, <3>2
      <3> QED BY <3>3 DEF m
    <2> HIDE DEF k
    <2>3. host = InsertAt(hosts, k, p)
      BY DEF k
    <2>4. InsertAt(hosts, k, p) \in Seq(Field) /\ Elements(InsertAt(hosts, k, p)) = Elements(hosts) \cup {p}
      BY <1>6, <1>8, <2>2, InsertedIs
    <2> HIDE DEF host
    <2> QED BY <1>8, <2>3, <2>4
  <1> HIDE DEF a1, a2, c1, c2, p, a, c, host, path
  <1>10. h \in Seq(Field) /\ Elements(h) = IF path = <<>> THEN {} ELSE HostFields(out) \cup {p}
    <2>1. CASE path = <<>>
      <3>1. <<>> \in Seq(Field) /\ Elements(<<>>) = {}
        <4>1. <<>> \in Seq(Field) /\ Length(<<>>) = 0
          BY NothingIs
        <4> QED BY <4>1 DEF Elements
      <3> QED BY <2>1, <3>1
    <2>2. CASE path # <<>>
      BY <1>9, <2>2
    <2> QED BY <2>1, <2>2
  <1> HIDE DEF h
  <1>11. u \in Seq(Field) /\ Elements(u) = Elements(a) \cup Elements(h)
    <2>1. IsJoined(u, a, h)
      BY DEF IsJoined
    <2> HIDE DEF u
    <2> QED BY <1>7, <1>10, <2>1, ElementsJoined
  <1> HIDE DEF u
  <1>12. F \in Seq(Field) /\ Elements(F) = Elements(u) \cup Elements(c)
    <2>1. IsJoined(F, u, c)
      BY DEF IsJoined
    <2> HIDE DEF F
    <2> QED BY <1>7, <1>11, <2>1, ElementsJoined
  <1> HIDE DEF F
  <1>13. Elements(F) = {a1, a2} \cup (IF path = <<>> THEN {} ELSE HostFields(out) \cup {p}) \cup {c1, c2}
    BY <1>7, <1>10, <1>11, <1>12
  <1>14. Elements(F) = DetailFields(in, out)
    <2>1. DetailFields(in, out) = {a1, a2, c1, c2}
            \cup (IF path = <<>> THEN {} ELSE {p} \cup HostFields(out))
      BY <1>3 DEF DetailFields, path
    <2> QED BY <1>13, <2>1
  <1> QED BY <1>1, <1>12, <1>14

\* The terminal reads what the ISM told it.
LEMMA DetailIsRead ==
  ASSUME NEW in \in Ins, NEW out \in Outs
  PROVE  /\ Detail(in, out) \in Text
         /\ util_String_GetValueTLV(4, Detail(in, out)) = out[AppKey]
         /\ util_String_GetValueTLV(5, Detail(in, out)) = out[FwKey]
         /\ util_String_GetValueTLV(12, Detail(in, out)) = out[Timestamp]
         /\ util_String_GetValueTLV(15, Detail(in, out)) = Four(in.model)
         /\ hostPath(in, out) = <<>> => util_String_GetValueTLV(9, Detail(in, out)) = None
         /\ hostPath(in, out) # <<>> =>
              /\ util_String_GetValueTLV(9, Detail(in, out)) = hostPath(in, out)
              /\ \A k \in 1 .. Len(HostKeys) :
                   util_String_GetValueTLV(ID_HOST(k), Detail(in, out)) = out[HostKeys[k]]
  <1> DEFINE D == Detail(in, out)
             V(tag) == util_String_GetValueTLV(tag, D)
             path == hostPath(in, out)
             E == DetailFields(in, out)
  <1>1. PICK F \in Seq(Field) : D = Mounted(F) /\ Elements(F) = E
    BY DetailIs
  <1>2. D \in Text
    BY <1>1, MountedIsRead
  <1>3. \A tag, v : Only(E, tag, v) => V(tag) = v
    <2>1. TAKE tag, v
    <2>2. HAVE Only(E, tag, v)
    <2> QED BY <1>1, <2>2, OnlyIsRead
  <1>4. \A tag : (\A f \in E : f[1] # tag) => V(tag) = None
    <2>1. TAKE tag
    <2>2. HAVE \A f \in E : f[1] # tag
    <2> HIDE DEF E
    <2> QED BY <1>1, <2>2, NoneIsRead
  <1> HIDE DEF D
  <1>5. E = {<<4, out[AppKey]>>, <<5, out[FwKey]>>, <<12, out[Timestamp]>>, <<15, Four(in.model)>>}
              \cup (IF path = <<>> THEN {} ELSE {<<9, path>>} \cup HostFields(out))
    BY DEF DetailFields
  <1> HIDE DEF path, E
  <1>6. \A f \in HostFields(out) : f[1] \in {6, 7, 8, 10}
    <2>1. \A k \in 1 .. Len(HostKeys) : <<ID_HOST(k), out[HostKeys[k]]>>[1] \in {6, 7, 8, 10}
      BY HostTags
    <2> QED BY <2>1 DEF HostFields
  <1>7. \A f \in E : \/ f = <<4, out[AppKey]>> \/ f = <<5, out[FwKey]>> \/ f = <<12, out[Timestamp]>>
                     \/ f = <<15, Four(in.model)>>
                     \/ path # <<>> /\ (f = <<9, path>> \/ f \in HostFields(out))
    BY <1>5
  <1>8. V(4) = out[AppKey]
    <2>1. Only(E, 4, out[AppKey])
      BY <1>5, <1>6, <1>7 DEF Only
    <2> QED BY <1>3, <2>1
  <1>9. V(5) = out[FwKey]
    <2>1. Only(E, 5, out[FwKey])
      BY <1>5, <1>6, <1>7 DEF Only
    <2> QED BY <1>3, <2>1
  <1>10. V(12) = out[Timestamp]
    <2>1. Only(E, 12, out[Timestamp])
      BY <1>5, <1>6, <1>7 DEF Only
    <2> QED BY <1>3, <2>1
  <1>11. V(15) = Four(in.model)
    <2>1. Only(E, 15, Four(in.model))
      BY <1>5, <1>6, <1>7 DEF Only
    <2> QED BY <1>3, <2>1
  <1>12. path = <<>> => V(9) = None
    <2>1. path = <<>> => \A f \in E : f[1] # 9
      BY <1>7
    <2> QED BY <1>4, <2>1
  <1>13. path # <<>> => V(9) = path
    <2>1. path # <<>> => Only(E, 9, path)
      BY <1>5, <1>6, <1>7 DEF Only
    <2> QED BY <1>3, <2>1
  <1>14. ASSUME path # <<>>, NEW k \in 1 .. Len(HostKeys)
         PROVE  V(ID_HOST(k)) = out[HostKeys[k]]
    <2> DEFINE v == out[HostKeys[k]]
               t == ID_HOST(k)
    <2>1. <<t, v>> \in HostFields(out)
      BY DEF HostFields
    <2>2. \A f \in HostFields(out) : f[1] = t => f[2] = v
      <3>1. \A l \in 1 .. Len(HostKeys) : ID_HOST(l) = t => out[HostKeys[l]] = v
        BY HostTags
      <3> HIDE DEF t, v
      <3>2. \A l \in 1 .. Len(HostKeys) :
              /\ <<ID_HOST(l), out[HostKeys[l]]>>[1] = ID_HOST(l)
              /\ <<ID_HOST(l), out[HostKeys[l]]>>[2] = out[HostKeys[l]]
        OBVIOUS
      <3> QED BY <3>1, <3>2 DEF HostFields
    <2>3. t \in {6, 7, 8, 10}
      BY HostTags
    <2> HIDE DEF t, v
    <2>4. <<t, v>> \in E
      BY <1>5, <1>14, <2>1
    <2>5. \A f \in E : f[1] = t => f[2] = v
      BY <1>7, <2>2, <2>3
    <2>6. Only(E, t, v)
      BY <2>4, <2>5 DEF Only
    <2>7. V(t) = v
      BY <1>3, <2>6
    <2> QED BY <2>7 DEF t, v
  <1> HIDE DEF V
  <1> QED BY <1>2, <1>8, <1>9, <1>10, <1>11, <1>12, <1>13, <1>14 DEF D, V, path

\* Nothing is read from an answer that says nothing.
LEMMA NothingIsRead == \A tag : util_String_GetValueTLV(tag, <<>>) = None
  <1> DEFINE P == [k \in 0 .. 0 |-> 0]
  <1>1. <<>> \in Text /\ Length(<<>>) = 0
    BY NothingIs
  <1>2. TAKE tag
  <1>3. Reaches(P, <<>>, 0)
    BY <1>1 DEF Reaches
  <1>4. 0 \in Nat
    OBVIOUS
  <1> HIDE DEF P
  <1> QED BY <1>1, <1>3, <1>4, LookupIs

-----------------------------------------------------------------------------
(* The invariant of the keep-alive.                                        *)

\* What terminals may come to run, and answers to name.
Named == Values \cup {NullText, <<>>}
Known == Named \cup {v.app : v \in FirstVersions} \cup {v.fw : v \in FirstVersions}

Running == terminal \in [model : Models, app : Known, fw : Known]

\* One request at most is on its way, handled or answered.
Turns ==
  /\ message # None => message \in Message /\ req = None /\ answer = None
  /\ req # None => answer = None

Held(v, k, seen) == \E d \in seen : v = Shown("get_txt", d[k])

\* What was read so far, of these keys.
ReadOf(out, keys, seen) ==
  /\ out \in [Keys -> Named]
  /\ \A k \in Keys : Held(out[k], k, seen) \/ out[k] = <<>>
  /\ \A k \in keys : k # Timestamp => Held(out[k], k, seen)

Understood(in, whole) ==
  /\ in \in Ins
  /\ Begins(in.model, terminal.model) /\ Begins(in.app, terminal.app) /\ Begins(in.fw, terminal.fw)
  /\ whole => in = terminal

\* The call of the request's next key.
ReadsNext(c, todo) == c # None => c.fn = "get_txt" /\ c.key = Head(todo)

Handling ==
  req # None =>
    /\ Understood(req.in, req.whole)
    /\ ReadOf(req.out, Elements(Reads(req.in.model)) \ Elements(req.todo), req.seen)
    /\ ReadsNext(call[ism], req.todo) /\ ReadsNext(result[ism], req.todo)
    /\ call[ism] # None \/ result[ism] # None

\* A good answer's detail, made of these values.
Honest(a) ==
  \E in \in Ins, out \in [Keys -> Named] :
    a.detail = Detail(in, out) /\ ReadOf(out, Elements(Reads(in.model)), a.seen)

Answering == answer # None => \/ answer.code = "01" /\ answer.detail = <<>>
                              \/ answer.code = "00" /\ Honest(answer)

KeepInv == Running /\ Turns /\ Handling /\ Answering

-----------------------------------------------------------------------------
(* Every step keeps it.                                                    *)

LEMMA NamedAreShort == Named \subseteq Short /\ Known \subseteq Short /\ <<>> \in Named
  <1>1. Named \subseteq Short
    BY KeepAliveAssumption, NothingIs DEF Named
  <1>2. \A v \in FirstVersions : v.app \in Short /\ v.fw \in Short
    BY KeepAliveAssumption
  <1> QED BY <1>1, <1>2 DEF Known, Named

LEMMA RunningIs ==
  ASSUME Running
  PROVE  terminal \in Terminals
  <1>1. Models \subseteq Short
    BY KeepAliveAssumption
  <1> QED BY <1>1, NamedAreShort DEF Running, Terminals

\* The begin of a short text is short.
LEMMA BeginsShort ==
  ASSUME NEW t \in Text, NEW u \in Short, Begins(t, u)
  PROVE  t \in Short
  <1>1. Length(t) <= Length(u) /\ Length(u) \in 0 .. 63
    BY ShortIs DEF Begins
  <1>2. Length(t) \in Nat
    BY TextIs
  <1>3. Length(t) <= 63
    BY <1>1, <1>2
  <1> QED BY <1>3 DEF Short, Length

LEMMA TailIs ==
  ASSUME NEW s \in Seq(Keys), s # <<>>
  PROVE  /\ Head(s) \in Keys /\ Tail(s) \in Seq(Keys)
         /\ Elements(s) = {Head(s)} \cup Elements(Tail(s))
  <1> DEFINE n == Length(s)
             t == Tail(s)
  <1>1. n \in Nat \ {0} /\ Head(s) = s[1] /\ s[1] \in Keys
    <2>1. Len(s) \in Nat /\ Len(s) # 0 /\ Head(s) \in Keys /\ Head(s) = s[1]
      BY LenProperties, HeadTailProperties, EmptySeq
    <2> QED BY <2>1 DEF Length
  <1>2. t \in Seq(Keys) /\ Length(t) = n - 1
    BY HeadTailProperties DEF Length
  <1>3. \A i \in 1 .. n - 1 : t[i] = s[i + 1]
    BY HeadTailProperties DEF Length
  <1> HIDE DEF n, t
  <1>4. Elements(s) = {s[i] : i \in 1 .. n} /\ Elements(t) = {t[i] : i \in 1 .. n - 1}
    BY <1>2 DEF Elements, n
  <1>5. \A x \in Elements(s) : x \in {s[1]} \cup Elements(t)
    <2> SUFFICES ASSUME NEW i \in 1 .. n, i # 1
                 PROVE  s[i] \in Elements(t)
      BY <1>4
    <2>1. i - 1 \in 1 .. n - 1 /\ (i - 1) + 1 = i
      BY <1>1
    <2> QED BY <1>3, <1>4, <2>1
  <1>6. \A x \in Elements(t) : x \in Elements(s)
    <2>1. \A i \in 1 .. n - 1 : i + 1 \in 1 .. n
      BY <1>1
    <2> QED BY <1>3, <1>4, <2>1
  <1>7. s[1] \in Elements(s)
    BY <1>1, <1>4
  <1> QED BY <1>1, <1>2, <1>5, <1>6, <1>7 DEF t

\* What is held stays held, and fewer keys are read, too.
LEMMA ReadOfMore ==
  ASSUME NEW out, NEW K, NEW L, L \subseteq K, NEW s, NEW t, s \subseteq t, ReadOf(out, K, s)
  PROVE  ReadOf(out, L, t)
  BY DEF ReadOf, Held

LEMMA ReadOfKey ==
  ASSUME NEW out, NEW K \in SUBSET Keys, NEW s, ReadOf(out, K, s), NEW key \in Keys,
         NEW v \in Named, Held(v, key, s)
  PROVE  ReadOf([out EXCEPT ![key] = v], K \cup {key}, s)
  <1> DEFINE o == [out EXCEPT ![key] = v]
  <1>1. o \in [Keys -> Named] /\ o[key] = v /\ \A k \in Keys : k # key => o[k] = out[k]
    BY DEF ReadOf
  <1> HIDE DEF o
  <1>2. \A k \in Keys : Held(o[k], k, s) \/ o[k] = <<>>
    BY <1>1 DEF ReadOf
  <1>3. \A k \in K \cup {key} : k # Timestamp => Held(o[k], k, s)
    BY <1>1 DEF ReadOf
  <1>4. ReadOf(o, K \cup {key}, s)
    BY <1>1, <1>2, <1>3 DEF ReadOf
  <1> QED BY <1>4 DEF o

\* The table version alone may be missing.
LEMMA ReadOfTimestamp ==
  ASSUME NEW out, NEW K, NEW s, ReadOf(out, K, s)
  PROVE  ReadOf(out, K \cup {Timestamp}, s)
  BY DEF ReadOf

\* The ISM's call goes on with the key it was made for.
LEMMA ReadGoesOn ==
  ASSUME IInv, CallStep(ism), NEW todo, ReadsNext(call[ism], todo), ReadsNext(result[ism], todo)
  PROVE  ReadsNext(call'[ism], todo) /\ ReadsNext(result'[ism], todo)
  <1> DEFINE c == call[ism]
  <1>0. ism \in Procs
    BY KeepAliveAssumption, SMTT(40)
  <1>1. /\ c \in Call /\ c # None /\ Phase(c) /\ c.fn = "get_txt" /\ c.key = Head(todo)
    BY <1>0, CallTo DEF IInv, Phases, ReadsNext
  <1>2. \A rc : Return(ism, rc) => call'[ism] = None /\ result'[ism] = Result(c, rc)
    BY <1>0 DEF Return, IInv, Typed
  <1>3. \A b : Continue(ism, b) => call'[ism] = b /\ result'[ism] = result[ism]
    BY <1>0 DEF Continue, IInv, Typed
  <1>4. Ends(ism) => call'[ism] = None /\ result'[ism] = None
    BY <1>0 DEF Ends, IInv, Typed
  <1> HIDE DEF c
  <1>5. \A rc : Return(ism, rc) => ReadsNext(call'[ism], todo) /\ ReadsNext(result'[ism], todo)
    <2>1. \A rc : Result(c, rc).fn = c.fn /\ Result(c, rc).key = c.key
      BY DEF Result
    <2>2. ReadsNext(None, todo)
      BY DEF ReadsNext
    <2>3. \A rc : ReadsNext(Result(c, rc), todo)
      BY <1>1, <2>1 DEF ReadsNext
    <2> QED BY <1>2, <2>2, <2>3
  <1>6. ASSUME NEW b, Continue(ism, b), b.fn = c.fn, b.key = c.key
        PROVE  ReadsNext(call'[ism], todo) /\ ReadsNext(result'[ism], todo)
    BY <1>1, <1>3, <1>6 DEF ReadsNext
  <1>7. CASE Ends(ism)
    BY <1>4, <1>7 DEF ReadsNext
  <1>8. c.at \notin {"exec", "commit", "end"}
    BY <1>1 DEF Phase, Writers
  <1>9. CASE Open(ism)
    <2> DEFINE b == [c EXCEPT !.at = IF c.fn \in Readers THEN "prepare" ELSE "exec"]
    <2>1. Continue(ism, b)
      BY <1>9 DEF Open, c
    <2>2. b.fn = c.fn /\ b.key = c.key
      BY <1>1 DEF Call
    <2> HIDE DEF b
    <2> QED BY <1>6, <2>1, <2>2
  <1>10. CASE OpenFails(ism)
    BY <1>5, <1>7, <1>10 DEF OpenFails
  <1>11. CASE Prepare(ism)
    <2> DEFINE b == [c EXCEPT !.at = "step"]
    <2>1. Return(ism, FailCode(c)) \/ Continue(ism, b)
      BY <1>1, <1>11 DEF Prepare, c
    <2>2. b.fn = c.fn /\ b.key = c.key
      BY <1>1 DEF Call
    <2> HIDE DEF b
    <2> QED BY <1>5, <1>6, <2>1, <2>2
  <1>12. CASE Step(ism)
    <2>1. Return(ism, FailCode(c)) \/ \E at, v : Continue(ism, [c EXCEPT !.at = at, !.count = 1, !.text = v])
      BY <1>12 DEF Step, c
    <2>2. ASSUME NEW at, NEW v, Continue(ism, [c EXCEPT !.at = at, !.count = 1, !.text = v])
          PROVE  ReadsNext(call'[ism], todo) /\ ReadsNext(result'[ism], todo)
      <3> DEFINE b == [c EXCEPT !.at = at, !.count = 1, !.text = v]
      <3>1. b.fn = c.fn /\ b.key = c.key
        BY <1>1 DEF Call
      <3>2. Continue(ism, b)
        BY <2>2
      <3> HIDE DEF b
      <3> QED BY <1>6, <3>1, <3>2
    <2> QED BY <1>5, <2>1, <2>2
  <1>13. CASE Done(ism)
    BY <1>5, <1>13 DEF Done
  <1>14. CASE Exec(ism) \/ Commit(ism) \/ End(ism)
    BY <1>8, <1>14 DEF Exec, Commit, End, At, c
  <1> QED BY <1>9, <1>10, <1>11, <1>12, <1>13, <1>14 DEF CallStep

\* A step of the tool leaves it alone.
LEMMA ReadIsLeft ==
  ASSUME IInv, IInv', LayerStep(tool), NEW todo, ReadsNext(call[ism], todo),
         ReadsNext(result[ism], todo)
  PROVE  /\ ReadsNext(call'[ism], todo) /\ ReadsNext(result'[ism], todo)
         /\ call[ism] # None => call'[ism] # None
         /\ result'[ism] = result[ism]
  <1>1. ism \in Procs /\ tool \in Procs /\ ism # tool
    BY KeepAliveAssumption
  <1>2. result'[ism] = result[ism]
        /\ (call'[ism] = call[ism] \/ (call[ism] # None /\ call'[ism] = Listening(call[ism], db')))
    BY <1>1, OthersStay DEF IInv
  <1>3. CASE call[ism] = None
    BY <1>2, <1>3
  <1>4. CASE call[ism] # None
    <2>1. call[ism] \in Call /\ db' \in Contents
      BY <1>1, <1>4 DEF IInv, Typed
    <2>2. /\ Listening(call[ism], db') \in Call
          /\ Listening(call[ism], db').fn = call[ism].fn /\ Listening(call[ism], db').key = call[ism].key
      BY <2>1, ListeningIs
    <2> QED BY <1>2, <1>4, <2>1, <2>2, NoneAssumption DEF ReadsNext
  <1> QED BY <1>2, <1>3, <1>4

\* A call of the ISM's that begins.
LEMMA StartTyped ==
  ASSUME Typed, NEW p \in Procs, NEW key \in Keys, Start(p, "get_txt", key, <<>>)
  PROVE  /\ call'[p] \in Call /\ call'[p] # None /\ result'[p] = None
         /\ call'[p].fn = "get_txt" /\ call'[p].key = key
  <1> DEFINE c == [fn |-> "get_txt", key |-> key, set |-> <<>>, at |-> "open", vacuum |-> FALSE,
                   count |-> 0, text |-> None, since |-> {db}, wrote |-> FALSE]
  <1>1. call'[p] = c /\ result'[p] = None
    BY DEF Start, Typed
  <1>2. c \in Call
    BY NoSetWritten DEF Call, Functions, Readers, ReadOnly, Getters, Typed
  <1>3. c.fn = "get_txt" /\ c.key = key
    OBVIOUS
  <1> HIDE DEF c
  <1> QED BY <1>1, <1>2, <1>3, NoneAssumption

\* Nothing of it is touched, but for the ISM's call.
LEMMA KeepInvLeft ==
  ASSUME KeepInv, UNCHANGED handler,
         req # None => /\ ReadsNext(call'[ism], req.todo) /\ ReadsNext(result'[ism], req.todo)
                       /\ call'[ism] # None \/ result'[ism] # None
  PROVE  KeepInv'
  <1>1. UNCHANGED <<terminal, message, req, answer>>
    BY DEF handler
  <1>2. Running' /\ Turns'
    BY <1>1 DEF KeepInv, Running, Turns
  <1>3. Handling'
    BY <1>1 DEF KeepInv, Handling, Understood
  <1>4. Answering'
    BY <1>1 DEF KeepInv, Answering, Honest
  <1> QED BY <1>2, <1>3, <1>4 DEF KeepInv

LEMMA KeepInvAsks ==
  ASSUME KeepInv, TerminalAsks
  PROVE  KeepInv'
  <1>1. /\ UNCHANGED <<terminal, req, answer>> /\ req = None /\ answer = None
        /\ message' \in Message
    BY DEF TerminalAsks
  <1> QED BY <1>1 DEF KeepInv, Running, Turns, Handling, Answering

\* The answer with the error code.
LEMMA Refused ==
  ASSUME Running, NEW seen, Answers("01", <<>>, seen), UNCHANGED terminal,
         message' = None, req' = None
  PROVE  KeepInv'
  <1>1. answer' = [code |-> "01", detail |-> <<>>, seen |-> seen]
    BY DEF Answers
  <1> QED BY <1>1 DEF KeepInv, Running, Turns, Handling, Answering

\* What the ISM understands of the request.
LEMMA HandleUnderstands ==
  ASSUME Running, NEW m \in Message, NEW in,
         in = [model |-> util_String_GetValueTLV(ID_MODEL_POS, TerminalText(m)),
               app |-> util_String_GetValueTLV(ID_APP_VER, TerminalText(m)),
               fw |-> util_String_GetValueTLV(ID_FIRMWARE_VER, TerminalText(m))],
         None \notin {in.model, in.app, in.fw}
  PROVE  Understood(in, m.cut = 0)
  <1>1. terminal \in Terminals
    BY RunningIs
  <1>2. /\ ID_MODEL_POS \in TellTags /\ ID_APP_VER \in TellTags /\ ID_FIRMWARE_VER \in TellTags
        /\ Told(ID_MODEL_POS) = terminal.model /\ Told(ID_APP_VER) = terminal.app
        /\ Told(ID_FIRMWARE_VER) = terminal.fw
    BY DEF TellTags, Told, ID_MODEL_POS, ID_APP_VER, ID_FIRMWARE_VER
  <1>3. in.model \in Text /\ Begins(in.model, terminal.model) /\ (m.cut = 0 => in.model = terminal.model)
    BY <1>1, <1>2, TerminalIsRead
  <1>4. in.app \in Text /\ Begins(in.app, terminal.app) /\ (m.cut = 0 => in.app = terminal.app)
    BY <1>1, <1>2, TerminalIsRead
  <1>5. in.fw \in Text /\ Begins(in.fw, terminal.fw) /\ (m.cut = 0 => in.fw = terminal.fw)
    BY <1>1, <1>2, TerminalIsRead
  <1>6. terminal.model \in Short /\ terminal.app \in Short /\ terminal.fw \in Short
        /\ terminal = [model |-> terminal.model, app |-> terminal.app, fw |-> terminal.fw]
    BY <1>1 DEF Terminals
  <1>7. in.model \in Short /\ in.app \in Short /\ in.fw \in Short
    BY <1>3, <1>4, <1>5, <1>6, BeginsShort
  <1>8. in = [model |-> in.model, app |-> in.app, fw |-> in.fw]
    OBVIOUS
  <1>9. in \in Ins
    BY <1>7, <1>8 DEF Ins, Terminals
  <1>10. m.cut = 0 => in = terminal
    BY <1>3, <1>4, <1>5, <1>6, <1>8
  <1> QED BY <1>3, <1>4, <1>5, <1>9, <1>10 DEF Understood

LEMMA ReadsIs ==
  ASSUME NEW model
  PROVE  /\ Reads(model) \in Seq(Keys) /\ Reads(model) # <<>> /\ Head(Reads(model)) = Timestamp
  BY KeepAliveAssumption DEF Reads

LEMMA KeepInvHandle ==
  ASSUME IInv, KeepInv, Handle
  PROVE  KeepInv'
  <1>0. ism \in Procs
    BY KeepAliveAssumption
  <1>1. message # None /\ message' = None /\ UNCHANGED terminal
    BY DEF Handle
  <1>2. message \in Message /\ req = None /\ answer = None /\ Running
    BY <1>1 DEF KeepInv, Turns
  <1> DEFINE text == TerminalText(message)
             in == [model |-> util_String_GetValueTLV(ID_MODEL_POS, text),
                    app |-> util_String_GetValueTLV(ID_APP_VER, text),
                    fw |-> util_String_GetValueTLV(ID_FIRMWARE_VER, text)]
             bad == None \in {in.model, in.app, in.fw}
             new == [in |-> in, out |-> [k \in Keys |-> <<>>], todo |-> Reads(in.model),
                     whole |-> message.cut = 0, seen |-> {}]
  <1>3. \/ bad /\ Answers("01", <<>>, {}) /\ UNCHANGED req
        \/ /\ ~bad /\ req' = new /\ Start(ism, "get_txt", Timestamp, <<>>) /\ UNCHANGED answer
    BY DEF Handle
  <1>4. ~bad => Understood(in, message.cut = 0)
    <2>1. \A i : i = in /\ ~bad => None \notin {i.model, i.app, i.fw}
      OBVIOUS
    <2> QED BY <1>2, <2>1, HandleUnderstands
  <1> HIDE DEF in, bad
  <1>5. CASE Answers("01", <<>>, {}) /\ UNCHANGED req
    BY <1>1, <1>2, <1>5, Refused
  <1>6. CASE /\ ~bad /\ req' = new /\ Start(ism, "get_txt", Timestamp, <<>>) /\ UNCHANGED answer
    <2>1. call'[ism] # None /\ call'[ism].fn = "get_txt" /\ call'[ism].key = Timestamp
          /\ result'[ism] = None
      BY <1>0, <1>6, StartTyped, KeepAliveAssumption DEF IInv
    <2>4. /\ req'.in = in /\ req'.todo = Reads(in.model) /\ req'.seen = {}
          /\ req'.out = [k \in Keys |-> <<>>] /\ (req'.whole <=> message.cut = 0)
      BY <1>6
    <2>5. Understood(req'.in, req'.whole)
      BY <1>4, <1>6, <2>4 DEF Understood
    <2>6. Understood(req.in, req.whole)'
      BY <1>1, <2>5 DEF Understood
    <2>7. ReadOf(req.out, Elements(Reads(req.in.model)) \ Elements(req.todo), req.seen)'
      BY <2>4, NamedAreShort DEF ReadOf
    <2>8. Head(req'.todo) = Timestamp
      BY <2>4, ReadsIs
    <2>9. ReadsNext(call[ism], req.todo)' /\ ReadsNext(result[ism], req.todo)'
      BY <2>1, <2>8 DEF ReadsNext
    <2>10. Handling'
      BY <2>1, <2>6, <2>7, <2>9 DEF Handling
    <2>11. Running' /\ Turns' /\ Answering'
      BY <1>1, <1>2, <1>6 DEF KeepInv, Running, Turns, Answering
    <2> QED BY <2>10, <2>11 DEF KeepInv
  <1> QED BY <1>3, <1>5, <1>6

\* The result the ISM goes on with.
LEMMA GotIs ==
  ASSUME IInv, KeepInv, req # None, result[ism] # None
  PROVE  /\ result[ism].key = Head(req.todo)
         /\ Got(result[ism]) => /\ result[ism].text \in Named
                                /\ Held(result[ism].text, result[ism].key, result[ism].since)
  <1> DEFINE r == result[ism]
  <1>1. ism \in Procs
    BY KeepAliveAssumption
  <1>2. r.fn = "get_txt" /\ r.key = Head(req.todo)
    BY DEF KeepInv, Handling, ReadsNext
  <1>3. ReadRight(r)
    BY <1>1 DEF IInv, ReadsWhatWas, ReadRight
  <1>4. r \in Outcome
    BY <1>1 DEF IInv, Typed
  <1> HIDE DEF r
  <1>5. Got(r) => \E d \in r.since : r.text = Shown("get_txt", d[r.key])
    BY <1>2, <1>3 DEF ReadRight, Got, ReadOnly, Getters
  <1>6. \A v : Shown("get_txt", v) \in Named
    BY DEF Shown, Named
  <1>7. Got(r) => r.text \in Named /\ Held(r.text, r.key, r.since)
    BY <1>5, <1>6 DEF Held
  <1> QED BY <1>2, <1>7 DEF r

\* What was read, with the key just asked for.
LEMMA OneKeyMore ==
  ASSUME IInv, Asking, KeepInv, req # None, result[ism] # None, NEW out, NEW seen,
         Got(result[ism]) \/ result[ism].key = Timestamp,
         seen = req.seen \cup result[ism].since,
         out = IF Got(result[ism]) THEN [req.out EXCEPT ![result[ism].key] = result[ism].text]
               ELSE req.out
  PROVE  ReadOf(out, Elements(Reads(req.in.model)) \ Elements(Tail(req.todo)), seen)
  <1> DEFINE r == result[ism]
             R == Elements(Reads(req.in.model))
             K == R \ Elements(req.todo)
             L == R \ Elements(Tail(req.todo))
  <1>1. R \subseteq Keys
    <2>1. \A s \in Seq(Keys) : \A i \in 1 .. Len(s) : s[i] \in Keys
      BY ElementOfSeq
    <2> QED BY <2>1, ReadsIs DEF Elements, Length
  <1>2. /\ Head(req.todo) \in Keys
        /\ Elements(req.todo) = {Head(req.todo)} \cup Elements(Tail(req.todo))
    BY TailIs DEF Asking
  <1>3. /\ r.key = Head(req.todo)
        /\ Got(r) => r.text \in Named /\ Held(r.text, r.key, r.since)
    BY GotIs
  <1>4. ReadOf(req.out, K, req.seen)
    BY DEF KeepInv, Handling
  <1>5. seen = req.seen \cup r.since
    OBVIOUS
  <1>6. out = IF Got(r) THEN [req.out EXCEPT ![r.key] = r.text] ELSE req.out
    OBVIOUS
  <1>7. Got(r) \/ r.key = Timestamp
    OBVIOUS
  <1> HIDE DEF r, R
  <1>8. K \in SUBSET Keys /\ L \subseteq K \cup {r.key}
    BY <1>1, <1>2, <1>3
  <1>9. ReadOf(req.out, K, seen)
    BY <1>4, <1>5, ReadOfMore
  <1>10. Held(r.text, r.key, r.since) => Held(r.text, r.key, seen)
    BY <1>5 DEF Held
  <1> HIDE DEF K, L
  <1>11. ReadOf(out, K \cup {r.key}, seen)
    <2>1. CASE Got(r)
      <3>1. out = [req.out EXCEPT ![r.key] = r.text]
        BY <1>6, <2>1
      <3>2. r.key \in Keys /\ r.text \in Named /\ Held(r.text, r.key, seen)
        BY <1>2, <1>3, <1>10, <2>1
      <3> QED BY <1>8, <1>9, <3>1, <3>2, ReadOfKey
    <2>2. CASE ~Got(r)
      <3>1. out = req.out /\ r.key = Timestamp
        BY <1>6, <1>7, <2>2
      <3> QED BY <1>9, <3>1, ReadOfTimestamp
    <2> QED BY <2>1, <2>2
  <1>12. ReadOf(out, L, seen)
    BY <1>8, <1>11, ReadOfMore
  <1> QED BY <1>12 DEF L, R

LEMMA KeepInvContinues ==
  ASSUME IInv, Asking, KeepInv, Continues
  PROVE  KeepInv'
  <1> DEFINE r == result[ism]
             seen == req.seen \cup r.since
             out == IF Got(r) THEN [req.out EXCEPT ![r.key] = r.text] ELSE req.out
             todo == Tail(req.todo)
             good == Got(r) \/ r.key = Timestamp
             new == [req EXCEPT !.out = out, !.todo = todo, !.seen = seen]
  <1>0. ism \in Procs
    BY KeepAliveAssumption
  <1>1. req # None /\ r # None /\ UNCHANGED <<terminal, message>>
    BY DEF Continues
  <1>2. Running /\ message = None /\ answer = None /\ Understood(req.in, req.whole)
    BY <1>1 DEF KeepInv, Turns, Handling
  <1>3. \/ Answers("01", <<>>, seen) /\ req' = None
        \/ good /\ todo = <<>> /\ Answers("00", Detail(req.in, out), seen) /\ req' = None
        \/ /\ good /\ todo # <<>> /\ Start(ism, "get_txt", Head(todo), <<>>)
           /\ req' = new /\ UNCHANGED answer
    BY DEF Continues
  <1>4. req = [in |-> req.in, out |-> req.out, todo |-> req.todo, whole |-> req.whole, seen |-> req.seen]
    BY <1>1 DEF Asking
  <1>5. todo \in Seq(Keys)
    BY <1>1, TailIs DEF Asking
  <1>6. good => ReadOf(out, Elements(Reads(req.in.model)) \ Elements(todo), seen)
    BY <1>1, OneKeyMore
  <1> HIDE DEF r, seen, out, todo, good
  <1>7. CASE Answers("01", <<>>, seen) /\ req' = None
    BY <1>1, <1>2, <1>7, Refused
  <1>8. CASE good /\ todo = <<>> /\ Answers("00", Detail(req.in, out), seen) /\ req' = None
    <2>1. answer' = [code |-> "00", detail |-> Detail(req.in, out), seen |-> seen]
      BY <1>8 DEF Answers
    <2>2. Elements(todo) = {}
      BY <1>8, EmptySeq DEF Elements, Length
    <2>3. ReadOf(out, Elements(Reads(req.in.model)), seen)
      BY <1>6, <1>8, <2>2
    <2>4. req.in \in Ins /\ out \in [Keys -> Named]
      BY <1>2, <2>3 DEF Understood, ReadOf
    <2>5. answer'.detail = Detail(req.in, out) /\ answer'.code = "00" /\ answer'.seen = seen
      BY <2>1
    <2>6. Honest(answer')
      BY <2>3, <2>4, <2>5 DEF Honest
    <2>7. Answering'
      BY <2>5, <2>6 DEF Answering, Honest
    <2>8. Running' /\ Turns' /\ Handling'
      BY <1>1, <1>2, <1>8 DEF Running, Turns, Handling
    <2> QED BY <2>7, <2>8 DEF KeepInv
  <1>9. CASE /\ good /\ todo # <<>> /\ Start(ism, "get_txt", Head(todo), <<>>)
             /\ req' = new /\ UNCHANGED answer
    <2>1. Head(todo) \in Keys
      BY <1>5, <1>9, TailIs
    <2>2. call'[ism] # None /\ call'[ism].fn = "get_txt" /\ call'[ism].key = Head(todo)
          /\ result'[ism] = None
      BY <1>0, <1>9, <2>1, StartTyped DEF IInv
    <2>3. req' = [in |-> req.in, out |-> out, todo |-> todo, whole |-> req.whole, seen |-> seen]
      BY <1>4, <1>9
    <2>4. /\ req'.in = req.in /\ req'.todo = todo /\ req'.seen = seen
          /\ req'.out = out /\ req'.whole = req.whole
      BY <2>3
    <2>5. Understood(req.in, req.whole)'
      BY <1>1, <1>2, <2>4 DEF Understood
    <2>6. ReadOf(req.out, Elements(Reads(req.in.model)) \ Elements(req.todo), req.seen)'
      BY <1>6, <1>9, <2>4
    <2>7. ReadsNext(call[ism], req.todo)' /\ ReadsNext(result[ism], req.todo)'
      BY <2>2, <2>4 DEF ReadsNext
    <2>8. Handling'
      BY <2>2, <2>5, <2>6, <2>7 DEF Handling
    <2>9. Running' /\ Turns' /\ Answering'
      BY <1>1, <1>2, <1>9 DEF KeepInv, Running, Turns, Answering
    <2> QED BY <2>8, <2>9 DEF KeepInv
  <1> QED BY <1>3, <1>7, <1>8, <1>9

\* What a terminal installs was configured, or nothing was.
LEMMA KeepInvReads ==
  ASSUME KeepInv, TerminalReads
  PROVE  KeepInv'
  <1> DEFINE V(tag) == util_String_GetValueTLV(tag, answer.detail)
  <1>1. answer # None /\ answer' = None /\ UNCHANGED <<message, req>>
    BY DEF TerminalReads, layer
  <1>2. message = None /\ req = None /\ Running
    BY <1>1 DEF KeepInv, Turns
  <1>3. /\ \/ terminal' = terminal
           \/ terminal' = [terminal EXCEPT !.app = V(4)]
           \/ terminal' = [terminal EXCEPT !.fw = V(5)]
        /\ V(9) = None => terminal' = terminal
    <2> DEFINE app == /\ V(9) # None /\ V(4) # <<>>
                      /\ V(9) = AppPath(terminal.model, V(4))
               fw == /\ V(9) # None
                     /\ V(9) = terminal.model \o <<Slash, FW, Slash>> \o V(5)
                               \o <<Slash>> \o terminal.fw \o <<To>> \o V(5)
    <2>1. terminal' = CASE app -> [terminal EXCEPT !.app = V(4)]
                        [] fw -> [terminal EXCEPT !.fw = V(5)]
                        [] OTHER -> terminal
      BY DEF TerminalReads, ID_APP_VER, ID_FIRMWARE_VER, ID_HOSTPATH
    <2>2. app \in BOOLEAN /\ fw \in BOOLEAN /\ (V(9) = None => ~app /\ ~fw)
      OBVIOUS
    <2> HIDE DEF app, fw, V
    <2> QED BY <2>1, <2>2
  <1>4. V(9) = None \/ (V(4) \in Known /\ V(5) \in Known)
    <2>1. CASE answer.detail = <<>>
      BY <2>1, NothingIsRead
    <2>2. CASE Honest(answer)
      <3>1. PICK in \in Ins, out \in [Keys -> Named] : answer.detail = Detail(in, out)
        BY <2>2 DEF Honest
      <3>2. out \in Outs
        BY NamedAreShort DEF Outs
      <3>3. V(4) = out[AppKey] /\ V(5) = out[FwKey]
        BY <3>1, <3>2, DetailIsRead
      <3>4. out[AppKey] \in Named /\ out[FwKey] \in Named
        BY KeepAliveAssumption
      <3> QED BY <3>3, <3>4 DEF Known
    <2> QED BY <1>1, <2>1, <2>2 DEF KeepInv, Answering
  <1> HIDE DEF V
  <1>5. Running'
    BY <1>2, <1>3, <1>4 DEF Running
  <1>6. Turns' /\ Handling' /\ Answering'
    BY <1>1, <1>2 DEF Turns, Handling, Answering
  <1> QED BY <1>5, <1>6 DEF KeepInv

LEMMA KeepInvStep ==
  ASSUME IInv, KeepInv, IsmStep
  PROVE  KeepInv'
  <1>1. UNCHANGED <<terminal, answer>> /\ CallStep(ism)
    BY DEF IsmStep
  <1>2. CASE call'[ism] = None /\ result'[ism] = None
    <2>1. req' = None /\ message' = None
      BY <1>2 DEF IsmStep
    <2> QED BY <1>1, <2>1 DEF KeepInv, Running, Turns, Handling, Answering, Honest
  <1>3. CASE call'[ism] # None \/ result'[ism] # None
    <2>1. UNCHANGED handler
      BY <1>1, <1>3 DEF IsmStep, handler
    <2>2. req # None => ReadsNext(call'[ism], req.todo) /\ ReadsNext(result'[ism], req.todo)
      BY <1>1, ReadGoesOn DEF KeepInv, Handling
    <2> QED BY <1>3, <2>1, <2>2, KeepInvLeft
  <1> QED BY <1>2, <1>3

\* The tool's steps, and others' calls while no request is handled.
LEMMA KeepInvOthers ==
  ASSUME IInv, IInv', KeepInv, ToolCall \/ ToolStep \/ ToolCursor \/ IsmOther \/ Kill
  PROVE  KeepInv'
  <1>0. tool \in Procs
    BY KeepAliveAssumption
  <1>1. CASE IsmOther
    BY <1>1, KeepInvLeft DEF IsmOther
  <1>2. CASE LayerStep(tool) /\ UNCHANGED handler
    <2>1. req # None =>
            /\ ReadsNext(call'[ism], req.todo) /\ ReadsNext(result'[ism], req.todo)
            /\ call'[ism] # None \/ result'[ism] # None
      BY <1>2, ReadIsLeft DEF KeepInv, Handling
    <2> QED BY <1>2, <2>1, KeepInvLeft
  <1>3. CASE message' = None /\ req' = None /\ answer' = None /\ UNCHANGED terminal
    BY <1>3 DEF KeepInv, Running, Turns, Handling, Answering
  <1>4. CASE ToolCall
    <2>1. PICK c \in ToolCalls : /\ c.fn = "select_prepare" => cursor[tool] = None
                                 /\ Start(tool, c.fn, c.key, c.set)
      BY <1>4 DEF ToolCall
    <2>2. c \in Callable
      BY <2>1, KeepAliveAssumption
    <2>3. LayerStep(tool)
      BY <1>0, <2>1, <2>2 DEF LayerStep, Starts
    <2> QED BY <1>2, <1>4, <2>3 DEF ToolCall
  <1>5. CASE ToolStep \/ ToolCursor
    BY <1>2, <1>5 DEF ToolStep, ToolCursor, LayerStep
  <1>6. CASE Kill
    BY <1>2, <1>3, <1>6 DEF Kill, LayerStep
  <1> QED BY <1>1, <1>4, <1>5, <1>6

LEMMA InitKeepInv ==
  ASSUME Init
  PROVE  KeepInv
  <1>1. message = None /\ req = None /\ answer = None
    BY DEF Init
  <1>2. PICK m \in Models, v \in FirstVersions : terminal = [model |-> m, app |-> v.app, fw |-> v.fw]
    BY DEF Init
  <1>3. v.app \in Known /\ v.fw \in Known
    BY DEF Known
  <1> QED BY <1>1, <1>2, <1>3 DEF KeepInv, Running, Turns, Handling, Answering

LEMMA NextKeepInv ==
  ASSUME IInv, IInv', Asking, KeepInv, [Next]_vars
  PROVE  KeepInv'
  <1>1. CASE UNCHANGED vars
    <2>1. UNCHANGED <<handler, call, result>>
      BY <1>1 DEF vars, layer
    <2> QED BY <2>1, KeepInvLeft DEF KeepInv, Handling
  <1>2. CASE Next
    BY <1>2, KeepInvAsks, KeepInvHandle, KeepInvContinues, KeepInvReads, KeepInvStep, KeepInvOthers
       DEF Next
  <1> QED BY <1>1, <1>2

LEMMA AlwaysKeepInv == Spec => [](IInv /\ Asking /\ KeepInv)
  <1>1. Init => IInv /\ Asking /\ KeepInv
    BY InitIInv, InitKeepInv
  <1>2. IInv /\ Asking /\ KeepInv /\ [Next]_vars => (IInv /\ Asking /\ KeepInv)'
    BY NextIInv, NextKeepInv
  <1> QED BY <1>1, <1>2, PTL DEF Spec

-----------------------------------------------------------------------------
(* What the invariant says of requests and answers.                        *)

LEMMA BeginsIsPrefix ==
  ASSUME NEW t \in Text, NEW u \in Text, Begins(t, u)
  PROVE  IsPrefix(t, u)
  <1> DEFINE n == Length(t)
             a == SubSeq(t, 1, n)
             b == SubSeq(u, 1, n)
  <1>1. n \in Nat /\ Length(u) \in Nat /\ n <= Length(u)
    BY TextIs DEF Begins
  <1>2. \A i \in 1 .. n : t[i] = u[i]
    BY DEF Begins
  <1> HIDE DEF n
  <1>3. a \in Text /\ Length(a) = n /\ \A i \in 1 .. n : a[i] = t[i]
    <2>1. n <= Length(t)
      BY <1>1 DEF n
    <2> QED BY <1>1, <2>1, PieceOfText
  <1>4. b \in Text /\ Length(b) = n /\ \A i \in 1 .. n : b[i] = u[i]
    BY <1>1, PieceOfText
  <1> HIDE DEF a, b
  <1>5. a = b
    BY <1>2, <1>3, <1>4, SameText
  <1> QED BY <1>1, <1>5 DEF IsPrefix, a, b, n, Length

LEMMA UnderstoodIsPrefix ==
  ASSUME Running, NEW in, NEW whole, Understood(in, whole)
  PROVE  /\ in.model \in Text /\ IsPrefix(in.model, terminal.model)
         /\ in.app \in Text /\ IsPrefix(in.app, terminal.app)
         /\ in.fw \in Text /\ IsPrefix(in.fw, terminal.fw)
  <1>1. /\ in.model \in Short /\ in.app \in Short /\ in.fw \in Short
        /\ terminal.model \in Short /\ terminal.app \in Short /\ terminal.fw \in Short
    BY RunningIs DEF Understood, Ins, Terminals
  <1>2. /\ in.model \in Text /\ in.app \in Text /\ in.fw \in Text
        /\ terminal.model \in Text /\ terminal.app \in Text /\ terminal.fw \in Text
    BY <1>1 DEF Short
  <1>3. /\ Begins(in.model, terminal.model) /\ Begins(in.app, terminal.app)
        /\ Begins(in.fw, terminal.fw)
    BY DEF Understood
  <1> QED BY <1>2, <1>3, BeginsIsPrefix

\* The configuration's keys an MP35 needs are all read.
LEMMA ReadsAre ==
  ASSUME NEW model
  PROVE  /\ \A i \in 1 .. Len(HostKeys) : HostKeys[i] \in Elements(Reads(model))
         /\ IsMP35(model) => {AppKey, FwKey} \subseteq Elements(Reads(model))
  <1> DEFINE a == <<Timestamp>>
             b == a \o HostKeys
             c == IF IsMP35(model) THEN <<AppKey, FwKey>> ELSE <<>>
  <1>1. Timestamp \in Keys /\ AppKey \in Keys /\ FwKey \in Keys /\ HostKeys \in Seq(Keys)
    BY KeepAliveAssumption
  <1>2. a \in Seq(Keys)
    BY <1>1
  <1>3. c \in Seq(Keys) /\ (IsMP35(model) => Elements(c) = {AppKey, FwKey})
    BY <1>1, PairIs
  <1> HIDE DEF a, c
  <1>4. b \in Seq(Keys) /\ Elements(b) = Elements(a) \cup Elements(HostKeys)
    <2>1. IsJoined(b, a, HostKeys)
      BY DEF IsJoined, b
    <2> QED BY <1>1, <1>2, <2>1, ElementsJoined
  <1> HIDE DEF b
  <1>5. Elements(b \o c) = Elements(b) \cup Elements(c)
    <2>1. IsJoined(b \o c, b, c)
      BY DEF IsJoined
    <2> QED BY <1>3, <1>4, <2>1, ElementsJoined
  <1>6. Reads(model) = b \o c
    BY DEF Reads, a, b, c
  <1>7. \A i \in 1 .. Len(HostKeys) : HostKeys[i] \in Elements(HostKeys)
    BY DEF Elements, Length
  <1> QED BY <1>3, <1>4, <1>5, <1>6, <1>7

\* Of the keys read, the table version alone may be missing.
LEMMA AnswerIsHeld ==
  ASSUME KeepInv, answer # None, answer.code = "00"
  PROVE  AnswerWasConfigured
  <1> DEFINE D == answer.detail
             V(tag) == util_String_GetValueTLV(tag, D)
             H(v, k) == Held(v, k, answer.seen)
  <1>1. PICK in \in Ins, out \in [Keys -> Named] :
          D = Detail(in, out) /\ ReadOf(out, Elements(Reads(in.model)), answer.seen)
    BY DEF KeepInv, Answering, Honest
  <1>2. out \in Outs
    BY NamedAreShort DEF Outs
  <1>3. /\ V(4) = out[AppKey] /\ V(5) = out[FwKey] /\ V(12) = out[Timestamp]
        /\ V(15) = Four(in.model)
        /\ V(9) # None => \A k \in 1 .. Len(HostKeys) : V(ID_HOST(k)) = out[HostKeys[k]]
    BY <1>1, <1>2, DetailIsRead
  <1>4. IsMP35(V(15)) => IsMP35(in.model)
    BY <1>3, FourIs DEF Ins, Terminals
  <1>5. \A k \in Elements(Reads(in.model)) : k # Timestamp => H(out[k], k)
    BY <1>1 DEF ReadOf
  <1>6. \A k \in Keys : H(out[k], k) \/ out[k] = <<>>
    BY <1>1 DEF ReadOf
  <1>7. Timestamp \in Keys /\ Timestamp # AppKey /\ Timestamp # FwKey
        /\ \A i \in 1 .. Len(HostKeys) : HostKeys[i] # Timestamp
    BY KeepAliveAssumption DEF ToSet
  <1> HIDE DEF V, H
  <1>8. IsMP35(V(15)) => H(V(4), AppKey) /\ H(V(5), FwKey)
    BY <1>3, <1>4, <1>5, <1>7, ReadsAre
  <1>9. V(9) # None => \A k \in 1 .. Len(HostKeys) : H(V(ID_HOST(k)), HostKeys[k])
    BY <1>3, <1>5, <1>7, ReadsAre
  <1>10. V(12) # <<>> => H(V(12), Timestamp)
    BY <1>3, <1>6, <1>7
  <1> DEFINE tags == {<<4, AppKey>>, <<5, FwKey>>}
             hosts == {<<ID_HOST(i), HostKeys[i]>> : i \in 1 .. Len(HostKeys)}
  <1>11. IsMP35(V(15)) => \A t \in tags : H(V(t[1]), t[2])
    BY <1>8
  <1>12. V(9) # None => \A t \in hosts : H(V(t[1]), t[2])
    <2>1. \A t \in hosts : \E k \in 1 .. Len(HostKeys) : t[1] = ID_HOST(k) /\ t[2] = HostKeys[k]
      OBVIOUS
    <2> QED BY <1>9, <2>1
  <1> QED BY <1>10, <1>11, <1>12
          DEF AnswerWasConfigured, ID_APP_VER, ID_FIRMWARE_VER, ID_HOSTPATH, ID_EMV_TABLE_VER,
              ID_MODEL_POS, V, H, Held

\* Versions that fit the members they are copied to unchecked.
VersionsFit == \A v \in Known \cup Models : Len(v) <= 8

LEMMA RequestFits ==
  ASSUME VersionsFit, Running, NEW in, NEW whole, Understood(in, whole)
  PROVE  \A v \in {in.model, in.app, in.fw} : v \in Text /\ Len(v) <= 8
  <1>1. /\ in.model \in Text /\ in.app \in Text /\ in.fw \in Text
        /\ IsPrefix(in.model, terminal.model) /\ IsPrefix(in.app, terminal.app)
        /\ IsPrefix(in.fw, terminal.fw)
    BY UnderstoodIsPrefix
  <1>2. /\ Len(terminal.model) <= 8 /\ Len(terminal.app) <= 8 /\ Len(terminal.fw) <= 8
    BY DEF VersionsFit, Running
  <1>3. terminal.model \in Text /\ terminal.app \in Text /\ terminal.fw \in Text
    BY RunningIs DEF Terminals, Short
  <1>4. ASSUME NEW t \in Text, NEW u \in Text, IsPrefix(t, u), Len(u) <= 8
        PROVE  Len(t) <= 8
    <2>1. Len(t) \in Nat /\ Len(u) \in Nat
      BY LenProperties DEF Text
    <2>2. Len(t) <= Len(u)
      BY <1>4 DEF IsPrefix
    <2> QED BY <1>4, <2>1, <2>2
  <1>5. Len(in.model) <= 8 /\ Len(in.app) <= 8 /\ Len(in.fw) <= 8
    BY <1>1, <1>2, <1>3, <1>4
  <1> QED BY <1>1, <1>5

LEMMA KeepInvTypes ==
  ASSUME VersionsFit, IInv, Asking, KeepInv
  PROVE  TypeOK
  <1>1. LayerTypeOK
    <2>1. \A p \in Procs : result[p] # None => result[p].rc \in Codes
      <3>1. \A p \in Procs : result[p] # None => result[p] \in Outcome
        BY DEF IInv, Typed
      <3>2. \A r \in Outcome : r.rc \in Codes
        BY DEF Outcome
      <3> QED BY <3>1, <3>2
    <2> QED BY <2>1 DEF IInv, Typed, LayerTypeOK
  <1>2. message # None => message \in Message /\ req = None /\ answer = None
    BY DEF KeepInv, Turns
  <1>3. req # None =>
          /\ \A v \in {req.in.model, req.in.app, req.in.fw} : v \in Text /\ Len(v) <= 8
          /\ req.out \in [Keys -> Text] /\ req.todo # <<>>
          /\ result[ism] # None \/ call[ism] # None
    <2> SUFFICES ASSUME req # None
                 PROVE  /\ \A v \in {req.in.model, req.in.app, req.in.fw} : v \in Text /\ Len(v) <= 8
                        /\ req.out \in [Keys -> Text] /\ req.todo # <<>>
                        /\ result[ism] # None \/ call[ism] # None
      OBVIOUS
    <2>1. /\ Running /\ Understood(req.in, req.whole) /\ req.out \in [Keys -> Named]
          /\ result[ism] # None \/ call[ism] # None
      BY DEF KeepInv, Handling, ReadOf
    <2>2. \A v \in {req.in.model, req.in.app, req.in.fw} : v \in Text /\ Len(v) <= 8
      BY <2>1, RequestFits
    <2>3. Named \subseteq Text
      BY NamedAreShort DEF Short
    <2>4. req.out \in [Keys -> Text]
      BY <2>1, <2>3
    <2>5. req.todo # <<>>
      BY DEF Asking
    <2> QED BY <2>1, <2>2, <2>4, <2>5
  <1>4. answer # None => answer.code \in {"00", "01"} /\ answer.detail \in Text
    <2>1. <<>> \in Text
      BY NothingIs
    <2>2. Honest(answer) => answer.detail \in Text
      <3>1. \A in \in Ins, out \in [Keys -> Named] : Detail(in, out) \in Text
        BY DetailIsRead, NamedAreShort DEF Outs
      <3> QED BY <3>1 DEF Honest
    <2> QED BY <2>1, <2>2 DEF KeepInv, Answering
  <1> QED BY <1>1, <1>2, <1>3, <1>4 DEF TypeOK

\* A request understood is what the terminal told, cut at its end perhaps.
THEOREM MistakesAreCutVersions == Spec => []MistakesOnlyCutVersions
  <1>1. KeepInv => MistakesOnlyCutVersions
    <2> SUFFICES ASSUME KeepInv, req # None
                 PROVE  /\ IsPrefix(req.in.model, terminal.model)
                        /\ IsPrefix(req.in.app, terminal.app) /\ IsPrefix(req.in.fw, terminal.fw)
                        /\ req.whole => req.in = terminal
      BY DEF MistakesOnlyCutVersions
    <2>1. Running /\ Understood(req.in, req.whole)
      BY DEF KeepInv, Handling
    <2>2. req.whole => req.in = terminal
      BY <2>1 DEF Understood
    <2> QED BY <2>1, <2>2, UnderstoodIsPrefix
  <1> QED BY <1>1, AlwaysKeepInv, PTL

\* A good answer's values were all configured while it was made.
THEOREM AnswersWereConfigured == Spec => []AnswerWasConfigured
  <1>1. KeepInv => AnswerWasConfigured
    <2>1. KeepInv /\ answer # None /\ answer.code = "00" => AnswerWasConfigured
      BY AnswerIsHeld
    <2>2. ~(answer # None /\ answer.code = "00") => AnswerWasConfigured
      BY DEF AnswerWasConfigured
    <2> QED BY <2>1, <2>2
  <1> QED BY <1>1, AlwaysKeepInv, PTL

\* Where no version is too long for its member, every variable has its type.
THEOREM KeepAliveTypes ==
  ASSUME VersionsFit
  PROVE  Spec => []TypeOK
  <1>1. IInv /\ Asking /\ KeepInv => TypeOK
    BY KeepInvTypes
  <1> QED BY <1>1, AlwaysKeepInv, PTL
=============================================================================
