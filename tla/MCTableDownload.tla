-------------------------- MODULE MCTableDownload ---------------------------
(***************************************************************************)
(* Values for TLC: small tables for the interleavings of two terminals,    *)
(* and the files of ISM/tables with the real lengths of their rows.        *)
(***************************************************************************)
EXTENDS TableDownload

\* times rows whose first characters say said and that have long characters.
Repeat(times, said, long) ==
  [i \in 1 .. times |-> [declared |-> said, length |-> long]]

\* Fields of 20 characters hold one or two of these rows.
SmallTables ==
  [n \in 0 .. 1 |->
     IF n = 0 THEN Repeat(2, 6, 6) \o Repeat(3, 12, 12)
              ELSE Repeat(2, 6, 6)]

ShippedTables ==
  <<Repeat(1, 314, 314) \o Repeat(8, 611, 611),
    Repeat(2, 284, 284) \o Repeat(11, 611, 611),
    Repeat(4, 284, 284) \o Repeat(9, 611, 611),
    Repeat(46, 314, 314) \o Repeat(19, 611, 620),
    Repeat(54, 340, 340) \o Repeat(34, 611, 611)>>

\* TAB0GERTEC.DAT is table 0, the others are 1 to 5.
Shipped == 0 .. 5

\* Fields of 999 characters hold one or two of the rows of tables 6 and 7.
AllTables ==
  [n \in 0 .. 7 |->
     CASE n = 0 -> Repeat(49, 284, 284) \o Repeat(12, 314, 314) \o Repeat(20, 611, 611)
       [] n \in 1 .. 5 -> ShippedTables[n]
       [] n = 6 -> Repeat(2, 350, 350) \o Repeat(3, 611, 611)
       [] n = 7 -> Repeat(2, 350, 350)]

\* Downloads only: nobody selects another table, nothing fails.
OneDownload(t) ==
  /\ InitProcess(t) \/ ChargeProcess(t) \/ GiveUp(t)
  /\ timestamp' = timestamp
  /\ answer'.label = timestamp

\* With a shipped file one terminal downloads it again and again; with the
\* short tables every terminal does and everything happens.
MCNext ==
  \/ timestamp \in Shipped /\ OneDownload(CHOOSE t \in Terminals : TRUE)
  \/ timestamp \notin Shipped /\ Next /\ timestamp' \notin Shipped

MCSpec ==
  /\ Init /\ [][MCNext]_vars
  /\ \A t \in Terminals : WF_vars(ChargeProcess(t))
=============================================================================
