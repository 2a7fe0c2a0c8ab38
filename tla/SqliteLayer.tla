---------------------------- MODULE SqliteLayer ----------------------------
(***************************************************************************)
(* The database layer utl_sqlite.c, used by several processes on one file: *)
(* the ISM, and whatever edits its configuration.                          *)
(*                                                                         *)
(* Every call opens the file, runs one statement and closes the file; its  *)
(* steps lie where another process may get in between.  SQLite is external *)
(* and modelled as it behaves with a rollback journal and no busy handler: *)
(*  - readers share the file, one writer reserves it, and needs it for     *)
(*    itself to commit; what stands in the way makes the statement fail;   *)
(*  - a process that ends during a commit may leave a journal behind,      *)
(*    which only a connection that may write can roll back.                *)
(*                                                                         *)
(* A condition selects one row at most, so the table is a function of its  *)
(* keys.  Callers pass no null pointers.                                   *)
(***************************************************************************)
EXTENDS Integers, Sequences

CONSTANTS
  Procs, Keys,
  Values,      \* texts
  Empty,       \* the text without characters
  NullText,    \* "(null)", what sprintf makes of no text
  Null, NoRow, \* the row's value is NULL; there is no such row
  None

ASSUME ValuesAssumption ==
  /\ NullText \notin Values
  /\ Null \notin Values \cup {NullText, NoRow} /\ NoRow \notin Values \cup {NullText}

VARIABLES
  present, \* the file exists
  journal, \* a journal stands that has to be rolled back
  db,      \* what is committed
  lock,    \* of each process: "none", "shared", "reserved", "exclusive"
  call,    \* the call each process has under way, or None
  open,    \* its connections and statements
  cursor,  \* the statement db_sqLite_select_prepare gave it, or None
  result   \* what its last call returned, or None

layer == <<present, journal, db, lock, call, open, cursor, result>>

-----------------------------------------------------------------------------
Getters == {"get_txt", "get_int", "GetLines"}
ReadOnly == Getters \cup {"select"}
Readers == ReadOnly \cup {"select_prepare"}
Writers == {"insert", "update", "delete", "exec_sql"}
Functions == Readers \cup Writers

Contents == [Keys -> Values \cup {Null, NoRow}]

\* A statement that writes gives some keys new values, or NoRow.
Written == UNION {[ks -> Values \cup {Null, NoRow}] : ks \in SUBSET Keys}

\* ghosts: what was committed at some time during the call; whether it was
\* this call that committed something.
Call ==
  [fn : Functions, key : Keys \cup {None}, set : Written,
   at : {"open", "prepare", "step", "row", "exec", "commit", "end"},
   vacuum : BOOLEAN, count : {0, 1}, text : Values \cup {NullText, Null, None},
   since : SUBSET Contents, wrote : BOOLEAN]

\* What a caller asks for; the keys a statement of its own touches are in set.
Callable ==
  {c \in [fn : Functions, key : Keys \cup {None}, set : Written] :
     c.fn # "exec_sql" => c.key \in Keys}

Cursor == [key : Keys, row : BOOLEAN]

ASSUME NoneAssumption == None \notin Call \cup Cursor

Codes ==
  {"RC_OK", "RC_ERR_NO_OPEN_DATA_BASE", "RC_ERR_NO_INSERT", "RC_ERR_NO_UPDATE",
   "RC_ERR_ZERO_DATA_UPDATE", "RC_ERR_NO_SELECT", "RC_ERR_NO_REG", "RC_ERR_NO_EXEC_SQL",
   "RC_ERR_NO_DELETE", "RC_ERR_NO_EXEC_SELECT", "RC_ERR_EOF", "RC_ERR_NO_SKIP",
   "SQLITE_BUSY", "SQLITE_CANTOPEN"}

Nothing == [conns |-> 0, stmts |-> 0]

LayerInit(contents) ==
  /\ present \in BOOLEAN /\ journal \in {FALSE, present} /\ db = contents
  /\ lock = [p \in Procs |-> "none"] /\ call = [p \in Procs |-> None]
  /\ open = [p \in Procs |-> Nothing] /\ cursor = [p \in Procs |-> None]
  /\ result = [p \in Procs |-> None]

-----------------------------------------------------------------------------
(* SQLite.                                                                 *)

Others(p) == Procs \ {p}

\* A statement of p cannot read: someone commits, or has died committing.
Blocked(p, mayWrite) ==
  (\E q \in Others(p) : lock[q] = "exclusive") \/ (journal /\ ~mayWrite)

\* Someone reads, with a cursor of p's own perhaps.
Reading(p) ==
  \/ \E q \in Others(p) : lock[q] = "shared"
  \/ \E q \in Procs : cursor[q] # None /\ cursor[q].row

\* sqlite3_step: a row at most, then the end; count(...) always has a row.
StepResult(p) ==
  IF Blocked(p, FALSE) THEN "SQLITE_BUSY"
  ELSE IF call[p].at = "row" \/ (db[call[p].key] = NoRow /\ call[p].fn # "GetLines")
       THEN "SQLITE_DONE" ELSE "SQLITE_ROW"

\* What a statement makes of the table.
After(c) == [k \in Keys |-> IF k \in DOMAIN c.set THEN c.set[k] ELSE db[k]]

\* VACUUM always writes; an UPDATE or DELETE of no row writes nothing.
Changes(c) == c.vacuum \/ c.fn \in {"insert", "exec_sql"} \/ db[c.key] # NoRow
Violates(c) == ~c.vacuum /\ c.fn = "insert" /\ db[c.key] # NoRow

-----------------------------------------------------------------------------
(* What a call reads and returns.                                          *)

\* No value is "(null)" for db_sqLite_get_txt, zero for the other getters and,
\* like an empty one, "NULL" for db_sqLite_select: Null stands for these.
Shown(fn, v) ==
  IF v \in Values /\ (fn = "select" => v # Empty) THEN v
  ELSE IF fn = "get_txt" THEN NullText ELSE Null

FailCode(c) ==
  CASE c.vacuum -> "RC_OK"
    [] c.at = "open" /\ ~c.vacuum ->
         IF c.fn = "select" THEN "SQLITE_CANTOPEN" ELSE "RC_ERR_NO_OPEN_DATA_BASE"
    [] OTHER -> [get_txt |-> "RC_ERR_NO_SELECT", get_int |-> "RC_ERR_NO_SELECT",
                 GetLines |-> "RC_ERR_NO_SELECT", select |-> "SQLITE_BUSY",
                 select_prepare |-> "RC_ERR_NO_EXEC_SELECT", insert |-> "RC_ERR_NO_INSERT",
                 update |-> "RC_ERR_NO_UPDATE", delete |-> "RC_ERR_NO_DELETE",
                 exec_sql |-> "RC_ERR_NO_EXEC_SQL"][c.fn]

\* Mutant: nobody looks whether there was a row.
ReadCode_Unchecked(c) == "RC_OK"

ReadCode(c) ==
  IF c.count = 1 THEN "RC_OK"
  ELSE IF c.fn = "select" THEN "RC_ERR_NO_SELECT" ELSE "RC_ERR_NO_REG"

\* Mutant: sqlite3_changes is not asked.
WriteCode_Always(c) == "RC_OK"

\* sqlite3_changes knows whether there was a row to update.
WriteCode(c) == IF c.fn = "update" /\ ~Changes(c) THEN "RC_ERR_ZERO_DATA_UPDATE" ELSE "RC_OK"

\* The connections a call closes when it returns: db_sqLite_delete has one of
\* its own and one of db_exec_sql.
Closed(c) == IF c.vacuum THEN 2 ELSE IF c.at = "open" THEN 0 ELSE 1

\* Mutant: the statement is forgotten where there was no row.
Finalized_NoReg(c) == IF c.fn \in Getters /\ c.at \in {"step", "row"} /\ c.count = 1 THEN 1 ELSE 0

\* The statements it finalizes of those it prepared.
Finalized(c) == IF c.fn \in Getters /\ c.at \in {"step", "row"} THEN 1 ELSE 0

Result(c, rc) ==
  [fn |-> c.fn, key |-> c.key, rc |-> rc, text |-> c.text, since |-> c.since, wrote |-> c.wrote]

Return(p, rc) ==
  /\ call' = [call EXCEPT ![p] = None]
  /\ result' = [result EXCEPT ![p] = Result(call[p], rc)]
  /\ open' = [open EXCEPT ![p] = [conns |-> @.conns - Closed(call[p]),
                                  stmts |-> @.stmts - Finalized(call[p])]]

Continue(p, c) == call' = [call EXCEPT ![p] = c] /\ UNCHANGED result

-----------------------------------------------------------------------------
(* A call begins, and opens the file.                                      *)

Start(p, fn, key, set) ==
  /\ call[p] = None
  /\ call' = [call EXCEPT ![p] =
                [fn |-> fn, key |-> key, set |-> set, at |-> "open", vacuum |-> FALSE,
                 count |-> 0, text |-> None, since |-> {db}, wrote |-> FALSE]]
  /\ result' = [result EXCEPT ![p] = None]
  /\ UNCHANGED <<present, journal, db, lock, open, cursor>>

At(p, at) == call[p] # None /\ call[p].at = at

\* A process ends, and its shell loop or its user starts it again.  Its locks
\* and handles are gone; a commit it was in may leave a journal.
Ends(p) ==
  /\ lock' = [lock EXCEPT ![p] = "none"] /\ call' = [call EXCEPT ![p] = None]
  /\ open' = [open EXCEPT ![p] = Nothing] /\ cursor' = [cursor EXCEPT ![p] = None]
  /\ result' = [result EXCEPT ![p] = None]
  /\ journal' \in {journal, journal \/ lock[p] = "exclusive"}
  /\ UNCHANGED <<present, db>>

Open(p) ==
  /\ At(p, "open") /\ present
  /\ Continue(p, [call[p] EXCEPT !.at = IF call[p].fn \in Readers THEN "prepare" ELSE "exec"])
  /\ open' = [open EXCEPT ![p].conns = @ + 1]
  /\ UNCHANGED <<present, journal, db, lock, cursor>>

\* A getter then finalizes a statement it never set, and db_sqLite_insert frees
\* its connection twice: they return or the process ends.
OpenFails(p) ==
  /\ At(p, "open") /\ ~present
  /\ \/ /\ Return(p, FailCode(call[p])) /\ UNCHANGED <<present, journal, db, lock, cursor>>
     \/ call[p].fn \in Getters \cup {"insert"} /\ Ends(p)

-----------------------------------------------------------------------------
(* Reading.                                                                *)

\* sqlite3_prepare_v2 reads the schema.  db_sqLite_select_prepare closes the
\* connection, which lives on until its caller finalizes the statement.
Prepare(p) ==
  /\ At(p, "prepare")
  /\ UNCHANGED <<present, db, lock>>
  /\ LET c == call[p]
         mayWrite == c.fn = "select_prepare"
     IN  IF Blocked(p, mayWrite)
         THEN Return(p, FailCode(c)) /\ UNCHANGED <<journal, cursor>>
         ELSE /\ journal' = (journal /\ ~mayWrite)
              /\ IF mayWrite
                 THEN /\ cursor' = [cursor EXCEPT ![p] = [key |-> c.key, row |-> FALSE]]
                      /\ call' = [call EXCEPT ![p] = None]
                      /\ result' = [result EXCEPT ![p] = Result(c, "RC_OK")]
                      /\ open' = [open EXCEPT ![p].stmts = @ + 1]
                 ELSE /\ Continue(p, [c EXCEPT !.at = "step"])
                      /\ open' = [open EXCEPT ![p].stmts = @ + (IF c.fn \in Getters THEN 1 ELSE 0)]
                      /\ UNCHANGED cursor

\* Mutant: the loop waits for another code.
LoopEnds_Ok(rc) == rc = "SQLITE_OK"

\* while(sqlite3_step(stmt) != SQLITE_DONE)
LoopEnds(rc) == rc = "SQLITE_DONE"

\* The loop's body: an error counts as a row without a value.
Step(p) ==
  /\ call[p] # None /\ call[p].at \in {"step", "row"} /\ ~LoopEnds(StepResult(p))
  /\ LET rc == StepResult(p)  c == call[p]
     IN  IF rc = "SQLITE_BUSY" /\ c.fn = "select"
         THEN /\ Return(p, FailCode(c)) /\ UNCHANGED lock
         ELSE /\ Continue(p, [c EXCEPT !.at = IF rc = "SQLITE_ROW" THEN "row" ELSE "step",
                                       !.count = 1,
                                       !.text = Shown(c.fn, IF rc = "SQLITE_ROW" THEN db[c.key] ELSE Null)])
              /\ lock' = [lock EXCEPT ![p] = IF rc = "SQLITE_ROW" THEN "shared" ELSE "none"]
              /\ UNCHANGED open
  /\ UNCHANGED <<present, journal, db, cursor>>

Done(p) ==
  /\ call[p] # None /\ call[p].at \in {"step", "row"} /\ LoopEnds(StepResult(p))
  /\ Return(p, ReadCode(call[p]))
  /\ lock' = [lock EXCEPT ![p] = "none"]
  /\ UNCHANGED <<present, journal, db, cursor>>

-----------------------------------------------------------------------------
(* The statement of db_sqLite_select_prepare.                              *)

CursorResult(p, fn, rc, text) ==
  result' = [result EXCEPT ![p] = [fn |-> fn, key |-> cursor[p].key, rc |-> rc, text |-> text,
                                   since |-> {db}, wrote |-> FALSE]]

SelectStep(p) ==
  /\ cursor[p] # None /\ call[p] = None
  /\ LET row == ~cursor[p].row /\ db[cursor[p].key] # NoRow
     IN  IF Blocked(p, TRUE)
         THEN CursorResult(p, "select_step", "RC_ERR_NO_SKIP", None) /\ UNCHANGED <<cursor, journal>>
         ELSE /\ CursorResult(p, "select_step", IF row THEN "RC_OK" ELSE "RC_ERR_EOF", None)
              /\ cursor' = [cursor EXCEPT ![p].row = row]
              /\ journal' = FALSE
  /\ UNCHANGED <<present, db, lock, call, open>>

\* The value of the row it stands on; no row and no value are no text.
SelectColumn(p) ==
  /\ cursor[p] # None /\ call[p] = None
  /\ CursorResult(p, "select_column", "RC_OK",
                  IF cursor[p].row THEN Shown("select_column", db[cursor[p].key]) ELSE Null)
  /\ UNCHANGED <<present, journal, db, lock, call, open, cursor>>

\* sqlite3_finalize, left to the caller.
Finalize(p) ==
  /\ cursor[p] # None /\ call[p] = None
  /\ cursor' = [cursor EXCEPT ![p] = None] /\ result' = [result EXCEPT ![p] = None]
  /\ open' = [open EXCEPT ![p] = [conns |-> @.conns - 1, stmts |-> @.stmts - 1]]
  /\ UNCHANGED <<present, journal, db, lock, call>>

-----------------------------------------------------------------------------
(* Writing.                                                                *)

\* The calls under way, with one more contents for those they may read.
Heard(d) ==
  [p \in Procs |-> IF call[p] = None THEN None ELSE [call[p] EXCEPT !.since = @ \cup {d}]]

\* The statement is done.  db_sqLite_delete goes on to VACUUM the file.
Succeeds(p, calls, wrote) ==
  LET c == [calls[p] EXCEPT !.wrote = @ \/ wrote]
  IN  IF c.fn = "delete" /\ ~c.vacuum
      THEN /\ call' = [calls EXCEPT ![p] = [c EXCEPT !.at = "open", !.vacuum = TRUE]]
           /\ UNCHANGED <<open, result>>
      ELSE /\ call' = [calls EXCEPT ![p] = None]
           /\ result' = [result EXCEPT ![p] = Result(c, WriteCode(c))]
           /\ open' = [open EXCEPT ![p].conns = @ - Closed(c)]

Exec(p) ==
  /\ At(p, "exec")
  /\ UNCHANGED <<present, db, cursor>>
  /\ IF \E q \in Others(p) : lock[q] \in {"reserved", "exclusive"}
     THEN Return(p, FailCode(call[p])) /\ UNCHANGED <<journal, lock>>
     ELSE /\ journal' = FALSE
          /\ CASE Violates(call[p]) -> Return(p, FailCode(call[p])) /\ UNCHANGED lock
               [] ~Changes(call[p]) -> Succeeds(p, call, FALSE) /\ UNCHANGED lock
               [] OTHER -> /\ Continue(p, [call[p] EXCEPT !.at = "commit"])
                           /\ lock' = [lock EXCEPT ![p] = "reserved"]
                           /\ UNCHANGED open

Commit(p) ==
  /\ At(p, "commit")
  /\ IF Reading(p)
     THEN Return(p, FailCode(call[p])) /\ lock' = [lock EXCEPT ![p] = "none"]
     ELSE /\ Continue(p, [call[p] EXCEPT !.at = "end"])
          /\ lock' = [lock EXCEPT ![p] = "exclusive"]
          /\ UNCHANGED open
  /\ UNCHANGED <<present, journal, db, cursor>>

End(p) ==
  /\ At(p, "end")
  /\ db' = IF call[p].vacuum THEN db ELSE After(call[p])
  /\ Succeeds(p, Heard(db'), ~call[p].vacuum)
  /\ lock' = [lock EXCEPT ![p] = "none"]
  /\ UNCHANGED <<present, journal, cursor>>

\* A call goes on.
CallStep(p) ==
  Open(p) \/ OpenFails(p) \/ Prepare(p) \/ Step(p) \/ Done(p) \/ Exec(p) \/ Commit(p) \/ End(p)

-----------------------------------------------------------------------------
(* Properties.                                                             *)

LayerTypeOK ==
  /\ present \in BOOLEAN /\ journal \in BOOLEAN /\ db \in Contents
  /\ lock \in [Procs -> {"none", "shared", "reserved", "exclusive"}]
  /\ call \in [Procs -> Call \cup {None}]
  /\ cursor \in [Procs -> Cursor \cup {None}]
  /\ DOMAIN result = Procs
  /\ \A p \in Procs : result[p] # None => result[p].rc \in Codes

\* Whatever happens, a process between two calls has nothing open but what
\* db_sqLite_select_prepare gave it: a forgotten statement would keep its
\* connection, as the comment on lines 213 to 215 remembers.
HandlesReturned ==
  \A p \in Procs : call[p] = None =>
    open[p] = IF cursor[p] = None THEN Nothing ELSE [conns |-> 1, stmts |-> 1]

\* RC_OK brings what was committed at some time during the call; "(null)" or
\* zero also when there is no row and the loop met a lock.  No row is reported
\* only when there was none.
ReadsWhatWas ==
  \A p \in Procs : result[p] # None =>
    LET r == result[p]
    IN  /\ (r.fn \in ReadOnly \cup {"select_column"} /\ r.rc = "RC_OK") =>
             \E d \in r.since : \/ r.text = Shown(r.fn, d[r.key])
                                \/ r.fn = "select_column" /\ r.text = Null
        /\ r.rc = "RC_ERR_NO_REG" => \E d \in r.since : d[r.key] = NoRow

\* A call that writes reports success when it wrote, or deleted what was not
\* there, and only then.
WritesAreReported ==
  \A p \in Procs : (result[p] # None /\ result[p].fn \in Writers) =>
    LET r == result[p]
    IN  /\ r.wrote => r.rc = "RC_OK"
        /\ r.rc = "RC_OK" => r.wrote \/ (r.fn = "delete" /\ \E d \in r.since : d[r.key] = NoRow)

\* A getter's loop ends, though an error is a row to it, unless a journal stands
\* that it may not roll back itself.
CallsReturn ==
  \A p \in Procs : (call[p] # None) ~> (call[p] = None \/ journal)
=============================================================================
