---------------------------- MODULE MCKeepAlive ----------------------------
(***************************************************************************)
(* Values for TLC: the version "1" is a prefix of the version "12", so a   *)
(* cut request names a version that exists.                                *)
(***************************************************************************)
EXTENDS KeepAlive

One == <<1>>
OneTwo == <<1, 2>>
Texts == {<<>>, One, OneTwo}
NoChars == <<>>
NullChars == <<40, 41>>
TerminalModels == {MODEL_MP35, <<22, 25, 3, 0>>}
Orders == {<<4, 5, 15>>, <<15, 4, 5>>}
Hosts == <<"hostname">>
Installed == {[app |-> One, fw |-> OneTwo]}
Configured == [k \in Keys |-> CASE k = "app" -> OneTwo [] k = "nsu" -> NoRow [] OTHER -> One]

Called(fn, k, set) == [fn |-> fn, key |-> k, set |-> set]
One1(k, v) == [x \in {k} |-> v]
OtherRequests ==
  {Called("insert", "nsu", One1("nsu", One)), Called("update", "nsu", One1("nsu", OneTwo)),
   Called("select", "nsu", <<>>)}
Edits ==
  {Called("exec_sql", None, [k \in {"app", "fw"} |-> IF k = "app" THEN One ELSE OneTwo]),
   Called("update", "app", One1("app", One)), Called("update", "fw", One1("fw", Null)),
   Called("delete", "timestamp", One1("timestamp", NoRow)),
   Called("get_int", "app", <<>>), Called("GetLines", "nsu", <<>>), Called("get_txt", "nsu", <<>>),
   Called("select_prepare", "fw", <<>>)}
=============================================================================
