------------------------ MODULE TableDownload_proofs ------------------------
(***************************************************************************)
(* Proofs of the safety properties of TableDownload, for any tables, any   *)
(* number of terminals and any lengths of rows.                            *)
(*                                                                         *)
(* The property WholeUnlessDisturbed is not inductive: it says nothing of  *)
(* the list the next answer is read from.  Listed adds that an undisturbed *)
(* download under way still has its own table in g_zList, and that the     *)
(* announced number of rows is the table's.                                *)
(***************************************************************************)
EXTENDS TableDownload, TLAPS

Listed ==
  \A t \in Terminals :
    LET d == term[t] IN
    /\ d.phase # "off" => d.table \in Tables /\ d.total = Len(RowSizes[d.table])
    /\ d.phase = "loading" /\ t \notin disturbed => loaded = d.table

IInv == TypeOK /\ Listed /\ RowsInOrder /\ WholeUnlessDisturbed

-----------------------------------------------------------------------------
(* The entries an answer carries.                                          *)

\* The list fits g_zList (util_TableReadToList stops at ListMax).
LEMMA ListFits ==
  ASSUME TypeOK
  PROVE  /\ g_listSize \in Nat
         /\ g_listSize < ListMax \/ g_listSize = 0
         /\ Len(Rows) \in Nat
         /\ loaded # NoFile => loaded \in Tables /\ g_listSize = Len(RowSizes[loaded]) + 1
  <1>1. CASE loaded = NoFile
    BY <1>1 DEF g_listSize, Rows
  <1>2. CASE loaded # NoFile
    <2>1. loaded \in Tables
      BY <1>2 DEF TypeOK, Labels
    <2>2. RowSizes[loaded] \in Seq(RowSize)
      BY <2>1, TablesAssumption
    <2>3. Len(RowSizes[loaded]) + 1 < ListMax
      BY <2>1, FilesAssumption
    <2> QED BY <1>2, <2>1, <2>2, <2>3, TablesAssumption DEF g_listSize, Rows
  <1> QED BY <1>1, <1>2

\* Entries carries n entries, numbered from i on, each inside the list.
LEMMA EntriesAre ==
  ASSUME TypeOK, NEW i \in Nat \ {0}, NEW n \in Nat,
         \A j \in i .. (i + n - 1) : j <= g_listSize
  PROVE  /\ Entries(i, n) \in Seq(Entry)
         /\ Len(Entries(i, n)) = n
         /\ \A k \in 1 .. n :
              /\ Entries(i, n)[k].row = i + k - 1
              /\ i + k - 1 <= Len(Rows) => Entries(i, n)[k].table = loaded
  <1> DEFINE es == [k \in 1 .. n |-> EntryAt(i + k - 1)]
  <1>1. \A k \in 1 .. n : EntryAt(i + k - 1) \in Entry
    <2> SUFFICES ASSUME NEW k \in 1 .. n PROVE EntryAt(i + k - 1) \in Entry
      OBVIOUS
    <2>1. i + k - 1 \in i .. (i + n - 1)
      OBVIOUS
    <2>2. i + k - 1 <= g_listSize
      BY <2>1
    <2>3. i + k - 1 \in 1 .. (ListMax - 1)
      BY <2>2, ListFits, TablesAssumption
    <2> QED BY <2>3 DEF EntryAt, Entry, TypeOK, Labels
  <1>2. es \in Seq(Entry) /\ Len(es) = n
    BY <1>1
  <1>3. \A k \in 1 .. n :
          /\ es[k].row = i + k - 1
          /\ i + k - 1 <= Len(Rows) => es[k].table = loaded
    BY ListFits DEF EntryAt
  <1> QED BY <1>2, <1>3 DEF Entries

\* What two sequences put together hold at each place.
LEMMA Concatenation ==
  ASSUME NEW S, NEW a \in Seq(S), NEW b \in Seq(S)
  PROVE  /\ a \o b \in Seq(S)
         /\ Len(a \o b) = Len(a) + Len(b)
         /\ \A k \in 1 .. Len(a) : (a \o b)[k] = a[k]
         /\ \A k \in (Len(a) + 1) .. (Len(a) + Len(b)) : (a \o b)[k] = b[k - Len(a)]
  OBVIOUS

\* What the terminal holds after an answer to its request for the next row.
LEMMA FetchAdds ==
  ASSUME TypeOK, NEW t \in Terminals, NEW label,
         Fetch(t, Len(term[t].got) + 1, label)
  PROVE  \E got \in Seq(Entry) :
           /\ term' = [term EXCEPT
                         ![t].got = got,
                         ![t].phase = IF Len(got) >= term[t].total
                                        THEN "done" ELSE "loading"]
           /\ Len(got) >= Len(term[t].got)
           /\ \A k \in 1 .. Len(term[t].got) : got[k] = term[t].got[k]
           /\ \A k \in (Len(term[t].got) + 1) .. Len(got) :
                /\ got[k].row = k
                /\ k <= Len(Rows) => got[k].table = loaded
           /\ answer'.label = label
           /\ answer'.tables \subseteq Labels
  <1> DEFINE old == term[t].got
             i == Len(old) + 1
  <1>1. old \in Seq(Entry) /\ Len(old) \in Nat
    BY DEF TypeOK, Download
  <1>2. i \in Nat \ {0}
    BY <1>1
  <1>3. PICK n1 \in 0 .. g_listSize :
          /\ Serializes(i, n1)
          /\ \E n2 \in 0 .. g_listSize :
               /\ Serializes(Second(i, n1), n2)
               /\ Receives(t, label, i, n1, Second(i, n1), n2)
    BY DEF Fetch
  <1> DEFINE j == i + n1
  <1>4. PICK n2 \in 0 .. g_listSize :
          Serializes(j, n2) /\ Receives(t, label, i, n1, j, n2)
    BY <1>3 DEF Second
  <1>5. n1 \in Nat /\ n2 \in Nat /\ j \in Nat \ {0}
    BY <1>2, ListFits
  <1> DEFINE a == Entries(i, n1)
             b == Entries(j, n2)
             new == a \o b
             got == old \o new
  <1>6. /\ a \in Seq(Entry) /\ Len(a) = n1
        /\ \A k \in 1 .. n1 :
             /\ a[k].row = i + k - 1
             /\ i + k - 1 <= Len(Rows) => a[k].table = loaded
    <2>1. \A k \in i .. (i + n1 - 1) : k <= g_listSize
      BY <1>3 DEF Serializes
    <2> QED BY <2>1, <1>2, <1>5, EntriesAre
  <1>7. /\ b \in Seq(Entry) /\ Len(b) = n2
        /\ \A k \in 1 .. n2 :
             /\ b[k].row = j + k - 1
             /\ j + k - 1 <= Len(Rows) => b[k].table = loaded
    <2>1. \A k \in j .. (j + n2 - 1) : k <= g_listSize
      BY <1>4 DEF Serializes
    <2> HIDE DEF j
    <2> QED BY <2>1, <1>5, EntriesAre
  <1>8. /\ new \in Seq(Entry) /\ Len(new) = n1 + n2
        /\ \A k \in 1 .. n1 : new[k] = a[k]
        /\ \A k \in (n1 + 1) .. (n1 + n2) : new[k] = b[k - n1]
    <2>1. a \in Seq(Entry) /\ b \in Seq(Entry) /\ Len(a) = n1 /\ Len(b) = n2
      BY <1>6, <1>7
    <2> HIDE DEF a, b
    <2>2. /\ a \o b \in Seq(Entry)
          /\ Len(a \o b) = Len(a) + Len(b)
          /\ \A k \in 1 .. Len(a) : (a \o b)[k] = a[k]
          /\ \A k \in (Len(a) + 1) .. (Len(a) + Len(b)) : (a \o b)[k] = b[k - Len(a)]
      BY ONLY <2>1, Concatenation
    <2> QED BY <2>1, <2>2
  <1>9. \A k \in 1 .. (n1 + n2) :
          /\ new[k].row = Len(old) + k
          /\ Len(old) + k <= Len(Rows) => new[k].table = loaded
    <2> SUFFICES ASSUME NEW k \in 1 .. (n1 + n2)
                 PROVE  /\ new[k].row = Len(old) + k
                        /\ Len(old) + k <= Len(Rows) => new[k].table = loaded
      OBVIOUS
    <2>1. CASE k <= n1
      <3>1. k \in 1 .. n1 /\ new[k] = a[k]
        BY <2>1, <1>5, <1>8
      <3> HIDE DEF a, b, new
      <3> QED BY <3>1, <1>1, <1>6
    <2>2. CASE k > n1
      <3>1. k - n1 \in 1 .. n2 /\ new[k] = b[k - n1]
        BY <2>2, <1>5, <1>8
      <3>2. j + (k - n1) - 1 = Len(old) + k
        BY <1>1, <1>5
      <3>3. /\ b[k - n1].row = j + (k - n1) - 1
            /\ j + (k - n1) - 1 <= Len(Rows) => b[k - n1].table = loaded
        <4> HIDE DEF b, j
        <4> QED BY <3>1, <1>7
      <3> HIDE DEF a, b, new, j, old
      <3> QED BY ONLY <3>1, <3>2, <3>3
    <2>3. k <= n1 \/ k > n1
      BY <1>5
    <2> HIDE DEF new, old
    <2> QED BY ONLY <2>1, <2>2, <2>3
  <1>10. /\ got \in Seq(Entry)
         /\ Len(got) = Len(old) + n1 + n2
         /\ \A k \in 1 .. Len(old) : got[k] = old[k]
         /\ \A k \in (Len(old) + 1) .. Len(got) : got[k] = new[k - Len(old)]
    <2>1. old \in Seq(Entry) /\ new \in Seq(Entry) /\ Len(new) = n1 + n2
      BY <1>1, <1>8
    <2> HIDE DEF new, old
    <2>2. /\ old \o new \in Seq(Entry)
          /\ Len(old \o new) = Len(old) + Len(new)
          /\ \A k \in 1 .. Len(old) : (old \o new)[k] = old[k]
          /\ \A k \in (Len(old) + 1) .. (Len(old) + Len(new)) :
               (old \o new)[k] = new[k - Len(old)]
      BY ONLY <2>1, Concatenation
    <2>3. Len(old) + (n1 + n2) = Len(old) + n1 + n2
      BY ONLY <2>1, <1>5
    <2> QED BY <2>1, <2>2, <2>3
  <1>11. \A k \in (Len(old) + 1) .. Len(got) :
           /\ got[k].row = k
           /\ k <= Len(Rows) => got[k].table = loaded
    <2> SUFFICES ASSUME NEW k \in (Len(old) + 1) .. Len(got)
                 PROVE  /\ got[k].row = k
                        /\ k <= Len(Rows) => got[k].table = loaded
      OBVIOUS
    <2>1. k - Len(old) \in 1 .. (n1 + n2) /\ got[k] = new[k - Len(old)]
      <3> HIDE DEF new, old, got
      <3> QED BY <1>1, <1>5, <1>10
    <2>2. Len(old) + (k - Len(old)) = k
      BY <1>1, <1>5, <1>10
    <2> HIDE DEF new, old, got
    <2> QED BY <2>1, <2>2, <1>9
  <1>12. /\ term' = [term EXCEPT
                       ![t].got = got,
                       ![t].phase = IF Len(got) >= term[t].total
                                      THEN "done" ELSE "loading"]
         /\ answer' = [label |-> label,
                       tables |-> {new[k].table : k \in DOMAIN new} \ {NoFile},
                       lengths |-> {Length(i, i + n1 - 1), Length(j, j + n2 - 1)}]
    BY <1>4 DEF Receives
  <1>13. answer'.label = label /\ answer'.tables \subseteq Labels
    <2>1. \A k \in DOMAIN new : new[k] \in Entry
      <3> HIDE DEF new
      <3> QED BY <1>8
    <2>2. \A k \in DOMAIN new : new[k].table \in Labels
      BY <2>1 DEF Entry
    <2> HIDE DEF new, i, j
    <2> QED BY <2>2, <1>12
  <1>14. Len(got) >= Len(old)
    <2> HIDE DEF got, old
    <2> QED BY <1>1, <1>5, <1>10
  <1> HIDE DEF got
  <1> QED BY <1>10, <1>11, <1>12, <1>13, <1>14

-----------------------------------------------------------------------------
(* The inductive invariant.                                                *)

\* The inductive invariant holds at the start: nobody downloads.
LEMMA InitInv == Init => IInv
  <1> SUFFICES ASSUME Init PROVE IInv
    OBVIOUS
  <1> USE DEF Init, NoDownload
  <1>1. TypeOK
    <2>1. NoDownload \in Download
      BY DEF Download, Labels
    <2> QED BY <2>1 DEF TypeOK, Labels
  <1>2. Listed
    BY DEF Listed
  <1>3. RowsInOrder
    BY DEF RowsInOrder
  <1>4. WholeUnlessDisturbed
    <2>1. \A t \in Terminals : term[t].phase = "off" /\ term[t].got = <<>>
      OBVIOUS
    <2>2. 1 .. Len(<<>>) = {}
      OBVIOUS
    <2>3. SUFFICES ASSUME NEW t \in Terminals \ disturbed
          PROVE  LET d == term[t] IN
                 /\ d.phase = "done" => Len(d.got) >= Len(RowSizes[d.table])
                 /\ \A i \in 1 .. Len(d.got) :
                      i <= Len(RowSizes[d.table]) => d.got[i].table = d.table
      BY DEF WholeUnlessDisturbed
    <2>4. term[t].phase # "done"
      BY <2>1
    <2>5. 1 .. Len(term[t].got) = {}
      BY <2>1, <2>2
    <2> QED BY ONLY <2>4, <2>5
  <1> QED BY <1>1, <1>2, <1>3, <1>4 DEF IInv

\* The process loses its list; nobody's download changes.
LEMMA DieInv ==
  ASSUME IInv, Die, UNCHANGED term, UNCHANGED answer, timestamp' \in Labels
  PROVE  IInv'
  <1> USE DEF IInv, Die, Disturb
  <1>1. disturbed' \subseteq Terminals
    BY DEF TypeOK, Loading
  <1>2. TypeOK'
    BY <1>1 DEF TypeOK, Labels
  <1>3. \A t \in Terminals :
          term[t].phase = "loading" => t \in disturbed'
    <2> SUFFICES ASSUME NEW t \in Terminals, term[t].phase = "loading",
                        t \notin disturbed
                 PROVE  t \in disturbed'
      BY DEF Loading
    <2>1. loaded = term[t].table /\ term[t].table \in Tables
      BY DEF Listed
    <2>2. loaded # NoFile
      BY <2>1, TablesAssumption
    <2> QED BY <2>2 DEF Loading
  <1>4. Listed'
    BY <1>3 DEF Listed
  <1>5. RowsInOrder'
    BY DEF RowsInOrder
  <1>6. WholeUnlessDisturbed'
    <2>1. disturbed \subseteq disturbed'
      OBVIOUS
    <2> QED BY <2>1 DEF WholeUnlessDisturbed
  <1> QED BY <1>2, <1>4, <1>5, <1>6

\* iso_InitProcess starts a download of the table it loads.
LEMMA InitProcessInv ==
  ASSUME IInv, NEW t \in Terminals, InitProcess(t)
  PROVE  IInv'
  <1> USE DEF IInv
  <1> DEFINE n == timestamp
             new == [phase |-> "loading", table |-> n, total |-> Count(n), got |-> <<>>]
  <1>1. /\ n \in Tables
        /\ loaded' = n
        /\ term' = [term EXCEPT ![t] = new]
        /\ disturbed' = (IF n = loaded THEN disturbed ELSE disturbed \cup Loading) \ {t}
        /\ UNCHANGED <<timestamp, up, answer>>
    BY DEF InitProcess, Read, TypeOK, Labels
  <1>2. RowSizes[n] \in Seq(RowSize) /\ Len(RowSizes[n]) \in Nat
    BY <1>1, TablesAssumption
  <1>3. new \in Download /\ new.total = Len(RowSizes[n])
    BY <1>1, <1>2 DEF Download, Labels, Count
  <1>4. /\ term' \in [Terminals -> Download]
        /\ term'[t] = new
        /\ \A u \in Terminals : u # t => term'[u] = term[u]
    BY <1>1, <1>3 DEF TypeOK
  <1>5. TypeOK'
    BY <1>1, <1>4 DEF TypeOK, Labels, Loading
  <1>6. Listed'
    <2> SUFFICES ASSUME NEW u \in Terminals
                 PROVE  LET d == term'[u] IN
                        /\ d.phase # "off" =>
                             d.table \in Tables /\ d.total = Len(RowSizes[d.table])
                        /\ d.phase = "loading" /\ u \notin disturbed' => loaded' = d.table
      BY DEF Listed
    <2>1. CASE u = t
      BY <2>1, <1>1, <1>3, <1>4
    <2>2. CASE u # t
      BY <2>2, <1>1, <1>4 DEF Listed, Loading
    <2> QED BY <2>1, <2>2
  <1>7. RowsInOrder'
    BY <1>4 DEF RowsInOrder
  <1>8. WholeUnlessDisturbed'
    <2> SUFFICES ASSUME NEW u \in Terminals, u \notin disturbed'
                 PROVE  LET d == term'[u] IN
                        /\ d.phase = "done" => Len(d.got) >= Len(RowSizes[d.table])
                        /\ \A i \in 1 .. Len(d.got) :
                             i <= Len(RowSizes[d.table]) => d.got[i].table = d.table
      BY DEF WholeUnlessDisturbed
    <2>1. CASE u = t
      BY <2>1, <1>4
    <2>2. CASE u # t
      BY <2>2, <1>1, <1>4 DEF WholeUnlessDisturbed
    <2> QED BY <2>1, <2>2
  <1> QED BY <1>5, <1>6, <1>7, <1>8

\* iso_ChargeProcess adds the next rows of the loaded table.
LEMMA ChargeInv ==
  ASSUME IInv, NEW t \in Terminals, ChargeProcess(t)
  PROVE  IInv'
  <1> USE DEF IInv
  <1>1. /\ term[t].phase = "loading"
        /\ UNCHANGED <<loaded, up, disturbed>>
        /\ timestamp' \in Labels
    BY DEF ChargeProcess, TypeOK, Labels
  <1>2. PICK label \in Labels : Fetch(t, Len(term[t].got) + 1, label)
    BY DEF ChargeProcess, TypeOK, Labels
  <1>3. PICK got \in Seq(Entry) :
          /\ term' = [term EXCEPT
                        ![t].got = got,
                        ![t].phase = IF Len(got) >= term[t].total
                                       THEN "done" ELSE "loading"]
          /\ Len(got) >= Len(term[t].got)
          /\ \A k \in 1 .. Len(term[t].got) : got[k] = term[t].got[k]
          /\ \A k \in (Len(term[t].got) + 1) .. Len(got) :
               /\ got[k].row = k
               /\ k <= Len(Rows) => got[k].table = loaded
          /\ answer'.label = label
          /\ answer'.tables \subseteq Labels
    BY <1>2, FetchAdds
  <1>4. term[t] \in Download /\ Len(term[t].got) \in Nat /\ term[t].total \in Nat
    BY DEF TypeOK, Download
  <1>5. /\ term' \in [Terminals -> Download]
        /\ term'[t].table = term[t].table
        /\ term'[t].total = term[t].total
        /\ term'[t].got = got
        /\ term'[t].phase = IF Len(got) >= term[t].total THEN "done" ELSE "loading"
        /\ \A u \in Terminals : u # t => term'[u] = term[u]
    BY <1>3, <1>4 DEF TypeOK, Download
  <1>6. TypeOK'
    BY <1>1, <1>2, <1>3, <1>5 DEF TypeOK
  <1>7. Listed'
    BY <1>1, <1>5 DEF Listed
  <1>8. Len(got) \in Nat
    BY <1>3
  <1>9. RowsInOrder'
    <2> SUFFICES ASSUME NEW u \in Terminals, NEW i \in 1 .. Len(term'[u].got)
                 PROVE  term'[u].got[i].row = i
      BY DEF RowsInOrder
    <2>1. CASE u # t
      BY <2>1, <1>5 DEF RowsInOrder
    <2>2. CASE u = t /\ i <= Len(term[t].got)
      BY <2>2, <1>3, <1>4, <1>5, <1>8 DEF RowsInOrder
    <2>3. CASE u = t /\ i > Len(term[t].got)
      BY <2>3, <1>3, <1>4, <1>5, <1>8
    <2> QED BY <2>1, <2>2, <2>3, <1>4, <1>5, <1>8
  <1>10. WholeUnlessDisturbed'
    <2> SUFFICES ASSUME NEW u \in Terminals, u \notin disturbed
                 PROVE  LET d == term'[u] IN
                        /\ d.phase = "done" => Len(d.got) >= Len(RowSizes[d.table])
                        /\ \A i \in 1 .. Len(d.got) :
                             i <= Len(RowSizes[d.table]) => d.got[i].table = d.table
      BY <1>1 DEF WholeUnlessDisturbed
    <2>1. CASE u # t
      BY <2>1, <1>5 DEF WholeUnlessDisturbed
    <2>2. CASE u = t
      <3> DEFINE n == term[t].table
      <3>1. /\ n \in Tables /\ loaded = n
            /\ term[t].total = Len(RowSizes[n])
        BY <2>2, <1>1 DEF Listed
      <3>2. Rows = RowSizes[n]
        BY <3>1, TablesAssumption DEF Rows
      <3>3. term'[t].phase = "done" => Len(got) >= Len(RowSizes[n])
        BY <3>1, <1>5
      <3>4. ASSUME NEW i \in 1 .. Len(got), i <= Len(RowSizes[n])
            PROVE  got[i].table = n
        <4>1. CASE i <= Len(term[t].got)
          BY <4>1, <3>4, <2>2, <1>3, <1>4, <1>8 DEF WholeUnlessDisturbed
        <4>2. CASE i > Len(term[t].got)
          BY <4>2, <3>1, <3>2, <3>4, <1>3, <1>4, <1>8
        <4> QED BY <4>1, <4>2, <1>4, <1>8
      <3> HIDE DEF n
      <3> QED BY <3>3, <3>4, <2>2, <1>5 DEF n
    <2> QED BY <2>1, <2>2
  <1> QED BY <1>6, <1>7, <1>9, <1>10

\* A download given up leaves the others as they are.
LEMMA GiveUpInv ==
  ASSUME IInv, NEW t \in Terminals, GiveUp(t)
  PROVE  IInv'
  <1> USE DEF IInv, GiveUp
  <1>1. /\ term' \in [Terminals -> Download]
        /\ term'[t].phase = "off" /\ term'[t].table = term[t].table
        /\ term'[t].got = term[t].got
        /\ \A u \in Terminals : u # t => term'[u] = term[u]
    BY DEF TypeOK, Download
  <1>2. TypeOK'
    BY <1>1 DEF TypeOK
  <1>3. Listed'
    BY <1>1 DEF Listed
  <1>4. RowsInOrder'
    BY <1>1 DEF RowsInOrder
  <1>5. WholeUnlessDisturbed'
    BY <1>1 DEF WholeUnlessDisturbed
  <1> QED BY <1>2, <1>3, <1>4, <1>5

\* Steps that touch neither the list nor a download.
LEMMA ElsewhereInv ==
  ASSUME IInv, UNCHANGED <<loaded, term, answer, disturbed>>,
         timestamp' \in Labels, up' \in BOOLEAN
  PROVE  IInv'
  BY DEF IInv, TypeOK, Listed, RowsInOrder, WholeUnlessDisturbed

\* Every step keeps the inductive invariant.
LEMMA NextInv == IInv /\ [Next]_vars => IInv'
  <1> SUFFICES ASSUME IInv, [Next]_vars PROVE IInv'
    OBVIOUS
  <1>0. timestamp \in Labels /\ up \in BOOLEAN
    BY DEF IInv, TypeOK
  <1>1. ASSUME NEW t \in Terminals, InitProcess(t) PROVE IInv'
    BY <1>1, InitProcessInv
  <1>2. ASSUME NEW t \in Terminals, InitOnNoFile(t) PROVE IInv'
    BY <1>0, <1>2, DieInv DEF InitOnNoFile
  <1>3. ASSUME NEW t \in Terminals, InitUnreadable(t) PROVE IInv'
    <2>1. timestamp' \in Labels
      BY <1>0, <1>3 DEF InitUnreadable, Labels
    <2> QED BY <2>1, <1>3, DieInv DEF InitUnreadable
  <1>4. ASSUME NEW t \in Terminals, ChargeProcess(t) PROVE IInv'
    BY <1>4, ChargeInv
  <1>5. ASSUME NEW t \in Terminals, GiveUp(t) PROVE IInv'
    BY <1>5, GiveUpInv
  <1>6. ASSUME NEW n \in Tables, SelectTable(n) PROVE IInv'
    BY <1>0, <1>6, ElsewhereInv DEF SelectTable, Labels
  <1>7. CASE Crash
    BY <1>0, <1>7, DieInv DEF Crash
  <1>8. CASE Restart
    BY <1>0, <1>8, ElsewhereInv DEF Restart
  <1>9. CASE UNCHANGED vars
    BY <1>0, <1>9, ElsewhereInv DEF vars
  <1> QED BY <1>1, <1>2, <1>3, <1>4, <1>5, <1>6, <1>7, <1>8, <1>9 DEF Next

-----------------------------------------------------------------------------
(* The theorems.                                                           *)

\* The types hold; in particular no entry read lies outside g_zList.
THEOREM DownloadTypes == Spec => []TypeOK
  <1>1. IInv => TypeOK
    BY DEF IInv
  <1> QED BY InitInv, NextInv, <1>1, PTL DEF Spec

\* Rows reach every terminal in the order of their numbers, without gaps,
\* whatever happens to the shared list.
THEOREM RowsStayInOrder == Spec => []RowsInOrder
  <1>1. IInv => RowsInOrder
    BY DEF IInv
  <1> QED BY InitInv, NextInv, <1>1, PTL DEF Spec

\* A download is the whole of the table it was announced as unless the list
\* changed during it.
THEOREM DownloadsAreWhole == Spec => []WholeUnlessDisturbed
  <1>1. IInv => WholeUnlessDisturbed
    BY DEF IInv
  <1> QED BY InitInv, NextInv, <1>1, PTL DEF Spec
=============================================================================
