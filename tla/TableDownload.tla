--------------------------- MODULE TableDownload ----------------------------
(***************************************************************************)
(* How terminals download the EMV tables from the ISM module: a 0800 with  *)
(* management code 002 (iso_InitProcess) reads the configured table's file *)
(* into one list kept in memory; 0800s with code 004 (iso_ChargeProcess)   *)
(* fetch the rows, as many as fit in two fields per answer, from the row   *)
(* number the terminal asks for.  The list is shared by all the terminals  *)
(* and dies with the process; the configured table changes when a purchase *)
(* selects another one.                                                    *)
(*                                                                         *)
(* Simplifications:                                                        *)
(*  - A row is the number of its table and its place in the file; of its   *)
(*    text only the two lengths are kept that the code looks at.           *)
(*  - The terminals are not in the repository: ours ask for the rows in    *)
(*    order from row 1 until they hold as many as iso_InitProcess counted, *)
(*    and may give up at any time.                                         *)
(***************************************************************************)
EXTENDS Integers, Sequences

CONSTANTS
  Terminals,
  Tables,       \* numbers of the TABLE_ defines
  RowSizes,     \* RowSizes[n][i]: the lengths of row i of the file of n
  FieldLimit,   \* 999: the length three digits can announce
  ListMax,      \* 100: the rows of g_zList
  NoFile,       \* "TAB000GERTEC", the name of no file; also the empty list
  ConfigFaults  \* whether reading the configuration may fail

\* declared: the number in a row's first three characters; length: the
\* characters it really has.
RowSize == [declared : Nat, length : Nat]

ASSUME TablesAssumption ==
  /\ NoFile \notin Tables
  /\ FieldLimit \in Nat \ {0}
  /\ ListMax \in Nat
  /\ ConfigFaults \in BOOLEAN
  /\ RowSizes \in [Tables -> Seq(RowSize)]

\* What the shipped files respect: g_zList has room for the rows and one
\* more entry, and every row fits a field.
ASSUME FilesAssumption ==
  \A n \in Tables :
    /\ Len(RowSizes[n]) + 1 < ListMax
    /\ \A i \in 1 .. Len(RowSizes[n]) : RowSizes[n][i].declared < FieldLimit

VARIABLES
  timestamp,  \* config.timestamp: a table, or NoFile
  loaded,     \* the table in g_zList, or NoFile
  up,         \* whether the process runs
  term,       \* each terminal's download
  answer,     \* the last answer of iso_ChargeProcess: its label, the tables
              \* whose rows it carried, the lengths of its two fields
  disturbed   \* ghost: downloads during which the list changed

vars == <<timestamp, loaded, up, term, answer, disturbed>>

Labels == Tables \cup {NoFile}

\* An entry stays inside g_zList, whose entry 0 is not used.
Entry == [table : Labels, row : 1 .. (ListMax - 1)]

Download ==
  [phase : {"off", "loading", "done"},
   table : Labels,       \* the name iso_InitProcess answered with
   total : Nat,          \* the number of rows it announced
   got   : Seq(Entry)]   \* what the terminal holds

NoDownload == [phase |-> "off", table |-> NoFile, total |-> 0, got |-> <<>>]

Init ==
  /\ timestamp \in Tables
  /\ loaded = NoFile
  /\ up = TRUE
  /\ term = [t \in Terminals |-> NoDownload]
  /\ answer = [label |-> timestamp, tables |-> {}, lengths |-> {}]
  /\ disturbed = {}

-----------------------------------------------------------------------------
(* The list.  util_TableReadToList counts from 1 and leaves the count one  *)
(* past the last row: the list ends with an empty entry.                   *)

Rows == IF loaded = NoFile THEN <<>> ELSE RowSizes[loaded]
g_listSize == IF loaded = NoFile THEN 0 ELSE Len(Rows) + 1

Declared(i) == IF i \in 1 .. Len(Rows) THEN Rows[i].declared ELSE 0

\* Mutant: numbers from 0.
EntryAt_FromZero(i) ==
  [table |-> IF i \in 1 .. Len(Rows) THEN loaded ELSE NoFile, row |-> i - 1]

EntryAt(i) == [table |-> IF i \in 1 .. Len(Rows) THEN loaded ELSE NoFile, row |-> i]

\* Characters[n][i]: what the entries up to i of table n take, each behind its
\* number in "%03d"; the empty entry is the last one.
Characters ==
  [n \in Tables |->
     LET size == Len(RowSizes[n])
         f[i \in 0 .. size + 1] ==
           IF i = 0 THEN 0
           ELSE f[i - 1] + 3 + (IF i <= size THEN RowSizes[n][i].length ELSE 0)
     IN f]

\* Characters the entries i to j take.
Length(i, j) ==
  IF j < i THEN 0 ELSE Characters[loaded][j] - Characters[loaded][i - 1]

\* Mutants: the test leaves the new row out, or counts it twice.
Room_AfterTheFact(i, j) == Length(i, j - 1) < FieldLimit
Room_Twice(i, j) == Length(i, j) + Declared(j) < FieldLimit

\* Whether a field that starts with entry i has room for entry j.
Room(i, j) == Length(i, j - 1) + Declared(j) < FieldLimit

\* util_tableSerialization, called with the index i, moves it n entries on.
Serializes(i, n) ==
  /\ \A j \in i .. (i + n - 1) : j <= g_listSize /\ Room(i, j)
  /\ ~(i + n <= g_listSize /\ Room(i, i + n))

-----------------------------------------------------------------------------
(* The handlers.                                                           *)

Loading == {t \in Terminals : term[t].phase = "loading"}

\* Downloads under way lose their list.
Disturb(new) == disturbed' = IF new = loaded THEN disturbed ELSE disturbed \cup Loading

Die ==
  /\ up' = FALSE
  /\ loaded' = NoFile
  /\ Disturb(NoFile)

\* Mutant: a list once read is kept.
Read_Once(n) == IF loaded = NoFile THEN n ELSE loaded

\* util_TableReadToList clears the list and reads the file again.
Read(n) == n

\* util_getNumberOfTables: the line ends, plus one.
Count(n) == Len(RowSizes[n])

InitProcess(t) ==
  /\ up /\ term[t].phase # "loading"
  /\ timestamp # NoFile
  /\ loaded' = Read(timestamp)
  /\ term' = [term EXCEPT ![t] =
                [phase |-> "loading", table |-> timestamp,
                 total |-> Count(timestamp), got |-> <<>>]]
  /\ disturbed' = (IF loaded' = loaded THEN disturbed
                                       ELSE disturbed \cup Loading) \ {t}
  /\ UNCHANGED <<timestamp, up, answer>>

\* There is no file: feof is called on a null pointer.
InitOnNoFile(t) ==
  /\ up /\ term[t].phase # "loading"
  /\ timestamp = NoFile
  /\ Die
  /\ UNCHANGED <<timestamp, term, answer>>

\* The configuration cannot be read: it is "corrected" to a name of no file.
InitUnreadable(t) ==
  /\ ConfigFaults
  /\ up /\ term[t].phase # "loading"
  /\ timestamp' \in {timestamp, NoFile}
  /\ Die
  /\ UNCHANGED <<term, answer>>

\* Mutant: the second field starts where the first one did.
Second_Same(i, n) == i

\* The index the first field leaves to the second.
Second(i, n) == i + n

Entries(i, n) == [k \in 1 .. n |-> EntryAt(i + k - 1)]

\* The two fields of an answer hold n1 entries from i, and n2 entries from j.
Receives(t, label, i, n1, j, n2) ==
  LET new == Entries(i, n1) \o Entries(j, n2)
      got == term[t].got \o new
  IN /\ term' = [term EXCEPT
                   ![t].got = got,
                   ![t].phase = IF Len(got) >= term[t].total THEN "done" ELSE "loading"]
     /\ answer' = [label |-> label,
                   tables |-> {new[k].table : k \in DOMAIN new} \ {NoFile},
                   lengths |-> {Length(i, i + n1 - 1), Length(j, j + n2 - 1)}]

\* i: atoi of the request's DE62.
Fetch(t, i, label) ==
  \E n1 \in 0 .. g_listSize :
    /\ Serializes(i, n1)
    /\ \E n2 \in 0 .. g_listSize :
         /\ Serializes(Second(i, n1), n2)
         /\ Receives(t, label, i, n1, Second(i, n1), n2)

ChargeProcess(t) ==
  /\ up /\ term[t].phase = "loading"
  /\ \/ Fetch(t, Len(term[t].got) + 1, timestamp) /\ UNCHANGED timestamp
     \/ /\ ConfigFaults
        /\ Fetch(t, Len(term[t].got) + 1, NoFile)
        /\ timestamp' \in {timestamp, NoFile}
  /\ UNCHANGED <<loaded, up, disturbed>>

GiveUp(t) ==
  /\ term[t].phase = "loading"
  /\ term' = [term EXCEPT ![t].phase = "off"]
  /\ UNCHANGED <<timestamp, loaded, up, answer, disturbed>>

\* A purchase whose amount names a table (util_needUpdateTimestamp).
SelectTable(n) ==
  /\ up
  /\ timestamp' = n
  /\ UNCHANGED <<loaded, up, term, answer, disturbed>>

Crash ==
  /\ up
  /\ Die
  /\ UNCHANGED <<timestamp, term, answer>>

Restart ==
  /\ ~up
  /\ up' = TRUE
  /\ UNCHANGED <<timestamp, loaded, term, answer, disturbed>>

Next ==
  \/ \E t \in Terminals :
       \/ InitProcess(t)
       \/ InitOnNoFile(t)
       \/ InitUnreadable(t)
       \/ ChargeProcess(t)
       \/ GiveUp(t)
  \/ \E n \in Tables : SelectTable(n)
  \/ Crash
  \/ Restart

Spec == Init /\ [][Next]_vars

\* A terminal that has not given up goes on asking, and the process answers
\* one message after the other.
FairSpec == Spec /\ \A t \in Terminals : WF_vars(ChargeProcess(t))

-----------------------------------------------------------------------------
(* Properties.                                                             *)

TypeOK ==
  /\ timestamp \in Labels
  /\ loaded \in Labels
  /\ up \in BOOLEAN
  /\ term \in [Terminals -> Download]
  /\ answer.label \in Labels
  /\ answer.tables \subseteq Labels
  /\ disturbed \subseteq Terminals

\* Whatever happened to the list meanwhile, the rows a terminal collects from
\* iso_ChargeProcess are numbered 1, 2, 3... without a gap or a repetition,
\* across the two fields of an answer and from one answer to the next.
RowsInOrder ==
  \A t \in Terminals : \A i \in 1 .. Len(term[t].got) : term[t].got[i].row = i

\* A download during which no other terminal loaded another table and the
\* process did not die consists of the rows of the table iso_InitProcess
\* named, and holds all of them when the terminal stops: other terminals
\* downloading the same table and a new choice in the configuration do it
\* no harm, although all of them share g_zList.
WholeUnlessDisturbed ==
  \A t \in Terminals \ disturbed :
    LET d == term[t] IN
    /\ d.phase = "done" => Len(d.got) >= Len(RowSizes[d.table])
    /\ \A i \in 1 .. Len(d.got) :
         i <= Len(RowSizes[d.table]) => d.got[i].table = d.table

\* No field of an answer outgrows the three digits of its length.  The test
\* of util_tableSerialization leaves out the three characters put before
\* every row, and the rows of TAB004VERO.DAT that are longer than they say.
FieldsFit == \A l \in answer.lengths : l <= FieldLimit

\* A download ends, unless the terminal gives up or the list is changed under
\* it: every answer of iso_ChargeProcess brings at least one more row.
DownloadEnds ==
  \A t \in Terminals :
    term[t].phase = "loading" ~> (term[t].phase # "loading" \/ t \in disturbed)

-----------------------------------------------------------------------------
(* What the comments of the two handlers say.                              *)

\* iso_ChargeProcess: the table to be downloaded is the one in CFG_TIMESTAMP,
\* the name the answer carries.
LabelNamesRows == answer.tables \subseteq {answer.label}

\* iso_InitProcess and iso_ChargeProcess: the name stored when the
\* configuration cannot be read corrects the configuration, so it is the name
\* of a table.
ConfigNamesATable == timestamp \in Tables
=============================================================================
