----------------------------- MODULE KeepAlive -----------------------------
(***************************************************************************)
(* iso_KeepAliveProcess: a terminal tells its versions in a TLV text, the  *)
(* ISM reads the configured ones, one call of the database layer after the *)
(* other, and tells the terminal whether and from where to update.         *)
(* Meanwhile another process, the tool, edits the configuration through    *)
(* the same layer, and the ISM serves other requests in between.           *)
(*                                                                         *)
(* A text is a sequence of characters, a character a number: its value for *)
(* a digit, ten and more for others.  A request may lack up to four        *)
(* characters at its end, where its TLV text stands (PaymentNet).          *)
(***************************************************************************)
EXTENDS SqliteLayer, SequencesExt, FiniteSetsExt

CONSTANTS
  ism, tool,
  Timestamp, HostKeys, AppKey, FwKey, \* keys; those of the FTP host in their order
  Models, Layouts,                    \* of terminals; orders of the tags in a request
  FirstVersions, FirstContents,       \* installed, configured at first
  OtherCalls, ToolCalls,              \* calls of other requests and of the tool
  MaxTroubles \* bounds, in a run, the other calls, cut requests and killed processes

Text == Seq(Nat)

\* What util_Config_GetTableField has room for.
Short == {t \in Text : Len(t) <= 63}

ASSUME KeepAliveAssumption ==
  /\ Procs = {ism, tool} /\ ism # tool
  /\ Empty = <<>>
  /\ {Timestamp, AppKey, FwKey} \subseteq Keys /\ HostKeys \in Seq(Keys)
  /\ FirstContents \in Contents
  /\ \A c \in OtherCalls \cup ToolCalls : c \in Callable
  /\ \A c \in OtherCalls : c.fn # "select_prepare"
  /\ Timestamp \notin {AppKey, FwKey} \cup ToSet(HostKeys) /\ Len(HostKeys) <= 4
  /\ Values \cup {NullText} \cup Models \subseteq Short
  /\ \A v \in FirstVersions : v.app \in Short /\ v.fw \in Short
  /\ Layouts \subseteq Seq({4, 5, 15})

VARIABLES
  terminal, \* its model and the versions it runs
  message,  \* the request on its way, or None
  req,      \* the request iso_KeepAliveProcess is busy with, or None
  answer,   \* the answer on its way, or None
  troubles  \* so many of them so far

handler == <<terminal, message, req, answer>>
vars == <<layer, handler, troubles>>

-----------------------------------------------------------------------------
(* TLV texts: three digits of tag, three of length, a value.               *)

ID_APP_VER == 4
ID_FIRMWARE_VER == 5
ID_HOST(i) == <<6, 7, 8, 10>>[i]
ID_HOSTPATH == 9
ID_EMV_TABLE_VER == 12
ID_MODEL_POS == 15

Digits(n) == <<n \div 100, (n \div 10) % 10, n % 10>>

util_String_MountTLV(id, data, output) == output \o Digits(id) \o Digits(Len(data)) \o data

\* The texts while fields are mounted, each a tag and a value.
Mounting(fields) ==
  LET text[i \in 0 .. Len(fields)] ==
        IF i = 0 THEN <<>> ELSE util_String_MountTLV(fields[i][1], fields[i][2], text[i - 1])
  IN  text

Mounted(fields) == Mounting(fields)[Len(fields)]

\* Behind the text's end there are only terminators.
util_String_Substring(source, init, length) ==
  SubSeq(source, init + 1, Min({init + length, Len(source)}))

\* atoi of at most three characters.
Atoi(s) ==
  LET digit(i) == Len(s) >= i /\ s[i] \in 0 .. 9
  IN  CASE ~digit(1) -> 0
        [] digit(1) /\ ~digit(2) -> s[1]
        [] digit(1) /\ digit(2) /\ ~digit(3) -> 10 * s[1] + s[2]
        [] digit(1) /\ digit(2) /\ digit(3) -> 100 * s[1] + 10 * s[2] + s[3]

\* Mutants: the copy of a value goes on to the text's end, or one too far.
ValueSize_All(s, size) == Len(s)
ValueSize_More(s, size) == size + 1

ValueSize(s, size) == size

TagAt(input, offset) == Atoi(util_String_Substring(input, offset, 3))
SizeAt(input, offset) == Atoi(util_String_Substring(input, offset + 3, 3))

FieldEnd(input, offset) == offset + 6 + SizeAt(input, offset)

\* Where the loop finds fields.
Offsets(input) ==
  LET offset[i \in 0 .. Len(input) \div 6] == IF i = 0 THEN 0 ELSE FieldEnd(input, offset[i - 1])
  IN  offset

\* The value of the first field with the tag, None when there is none.
util_String_GetValueTLV(target, input) ==
  LET offset == Offsets(input)
      found == {i \in DOMAIN offset : offset[i] < Len(input) /\ TagAt(input, offset[i]) = target}
      at == offset[Min(found)]
  IN  IF found = {} THEN None
      ELSE util_String_Substring(input, at + 6, ValueSize(input, SizeAt(input, at)))

-----------------------------------------------------------------------------
(* What the ISM answers.                                                   *)

MODEL_MP35 == <<22, 25, 3, 5>>
Slash == 50
APP == 51
FW == 52
To == 53

\* Mutant: from the new version to the old.
FwPath_Back(model, from, to) == model \o <<Slash, FW, Slash>> \o to \o <<Slash>> \o to \o <<To>> \o from

FwPath(model, from, to) == model \o <<Slash, FW, Slash>> \o to \o <<Slash>> \o from \o <<To>> \o to
AppPath(model, to) == model \o <<Slash, APP, Slash>> \o to

IsMP35(model) == SubSeq(model, 1, Min({4, Len(model)})) = MODEL_MP35

\* Mutant: the application's version is read twice.
Reads_Same(model) ==
  <<Timestamp>> \o HostKeys \o (IF IsMP35(model) THEN <<AppKey, AppKey>> ELSE <<>>)

\* The configuration's keys, in the order they are read.
Reads(model) ==
  <<Timestamp>> \o HostKeys \o (IF IsMP35(model) THEN <<AppKey, FwKey>> ELSE <<>>)

\* Where to update from: the application first, then the firmware.
hostPath(in, out) ==
  LET model == SubSeq(in.model, 1, Min({4, Len(in.model)}))
  IN  CASE in.app # out[AppKey] -> AppPath(model, out[AppKey])
        [] in.app = out[AppKey] /\ in.fw # out[FwKey] -> FwPath(model, in.fw, out[FwKey])
        [] OTHER -> <<>>

\* versionDetail of a good answer, DE120.
Detail(in, out) ==
  LET path == hostPath(in, out)
      hosts == [i \in 1 .. Len(HostKeys) |-> <<ID_HOST(i), out[HostKeys[i]]>>]
      host == InsertAt(hosts, Min({4, Len(hosts) + 1}), <<ID_HOSTPATH, path>>)
  IN  Mounted(<<<<ID_APP_VER, out[AppKey]>>, <<ID_FIRMWARE_VER, out[FwKey]>>>>
              \o (IF path = <<>> THEN <<>> ELSE host)
              \o <<<<ID_EMV_TABLE_VER, out[Timestamp]>>,
                   <<ID_MODEL_POS, SubSeq(in.model, 1, Min({4, Len(in.model)}))>>>>)

Answers(code, detail, seen) ==
  answer' = [code |-> code, detail |-> detail, seen |-> seen]

-----------------------------------------------------------------------------
Init ==
  /\ LayerInit(FirstContents)
  /\ \E m \in Models, v \in FirstVersions : terminal = [model |-> m, app |-> v.app, fw |-> v.fw]
  /\ message = None /\ req = None /\ answer = None
  /\ troubles = 0

\* The terminal's text, without its last characters.
TerminalText(m) ==
  LET value(tag) == CASE tag = ID_APP_VER -> terminal.app
                      [] tag = ID_FIRMWARE_VER -> terminal.fw
                      [] tag = ID_MODEL_POS -> terminal.model
      text == Mounted([i \in 1 .. Len(m.layout) |-> <<m.layout[i], value(m.layout[i])>>])
  IN  SubSeq(text, 1, Len(text) - m.cut)

Message == [layout : Layouts, cut : 0 .. 4]

\* A terminal asks again and again; its message may lose its end.
TerminalAsks ==
  /\ message = None /\ req = None /\ answer = None
  /\ message' \in {m \in Message : m.cut = 0 \/ troubles < MaxTroubles}
  /\ troubles' = IF message'.cut = 0 THEN troubles ELSE troubles + 1
  /\ UNCHANGED <<layer, terminal, req, answer>>

\* The terminal's versions; one missing is an error.
Handle ==
  /\ message # None /\ call[ism] = None
  /\ \E text \in {TerminalText(message)} :
     \E in \in {[model |-> util_String_GetValueTLV(ID_MODEL_POS, text),
                 app |-> util_String_GetValueTLV(ID_APP_VER, text),
                 fw |-> util_String_GetValueTLV(ID_FIRMWARE_VER, text)]} :
        IF None \in {in.model, in.app, in.fw}
        THEN Answers("01", <<>>, {}) /\ UNCHANGED <<layer, req>>
        ELSE /\ req' = [in |-> in, out |-> [k \in Keys |-> <<>>], todo |-> Reads(in.model),
                        whole |-> message.cut = 0, seen |-> {}]
             /\ Start(ism, "get_txt", Timestamp, <<>>)
             /\ UNCHANGED answer
  /\ message' = None
  /\ UNCHANGED <<terminal, troubles>>

\* util_Config_GetTableField: an empty value is an error too.
Got(r) == r.rc = "RC_OK" /\ r.text # Empty

\* One configured value more, or none: only the table version may be missing,
\* for the error code set then is overwritten at the end.
Continues ==
  /\ req # None /\ result[ism] # None
  /\ LET r == result[ism]
         seen == req.seen \cup r.since
         out == IF Got(r) THEN [req.out EXCEPT ![r.key] = r.text] ELSE req.out
         todo == Tail(req.todo)
         good == Got(r) \/ r.key = Timestamp
         used == /\ result' = [result EXCEPT ![ism] = None]
                 /\ UNCHANGED <<present, journal, db, lock, call, open, cursor>>
     IN  \/ /\ ~good /\ Answers("01", <<>>, seen)
            /\ req' = None /\ used
         \/ /\ good /\ todo = <<>> /\ Answers("00", Detail(req.in, out), seen)
            /\ req' = None /\ used
         \/ /\ good /\ todo # <<>> /\ Start(ism, "get_txt", Head(todo), <<>>)
            /\ req' = [req EXCEPT !.out = out, !.todo = todo, !.seen = seen]
            /\ UNCHANGED answer
  /\ UNCHANGED <<terminal, message, troubles>>

\* A terminal fetches the file at the path, if it names a version, and installs
\* it: an application as it is, a firmware over the version it was made for.
TerminalReads ==
  /\ answer # None /\ answer' = None
  /\ LET value(tag) == util_String_GetValueTLV(tag, answer.detail)
         path == value(ID_HOSTPATH)
     IN  terminal' =
           CASE /\ path # None /\ value(ID_APP_VER) # <<>>
                /\ path = AppPath(terminal.model, value(ID_APP_VER)) ->
                  [terminal EXCEPT !.app = value(ID_APP_VER)]
             [] /\ path # None
                /\ path = terminal.model \o <<Slash, FW, Slash>> \o value(ID_FIRMWARE_VER)
                          \o <<Slash>> \o terminal.fw \o <<To>> \o value(ID_FIRMWARE_VER) ->
                  [terminal EXCEPT !.fw = value(ID_FIRMWARE_VER)]
             [] OTHER -> terminal
  /\ UNCHANGED <<layer, message, req, troubles>>

-----------------------------------------------------------------------------
(* Calls of the layer, of the ISM and of the tool.                         *)

Trouble == troubles < MaxTroubles /\ troubles' = troubles + 1

\* When the ISM ends, the request goes with it.
IsmStep ==
  /\ CallStep(ism)
  /\ IF call'[ism] = None /\ result'[ism] = None
     THEN req' = None /\ message' = None
     ELSE UNCHANGED <<req, message>>
  /\ UNCHANGED <<terminal, answer, troubles>>

\* Another request, a purchase or a choice of table, comes between.
IsmOther ==
  /\ req = None /\ Trouble
  /\ \E c \in OtherCalls : Start(ism, c.fn, c.key, c.set)
  /\ UNCHANGED handler

ToolCall ==
  /\ Trouble
  /\ \E c \in ToolCalls : (c.fn = "select_prepare" => cursor[tool] = None) /\ Start(tool, c.fn, c.key, c.set)
  /\ UNCHANGED handler

ToolStep == CallStep(tool) /\ UNCHANGED <<handler, troubles>>

ToolCursor ==
  /\ SelectStep(tool) \/ SelectColumn(tool) \/ Finalize(tool)
  /\ UNCHANGED <<handler, troubles>>

Kill ==
  /\ Trouble
  /\ \/ Ends(tool) /\ UNCHANGED handler
     \/ Ends(ism) /\ message' = None /\ req' = None /\ answer' = None /\ UNCHANGED terminal

Next ==
  \/ TerminalAsks \/ Handle \/ Continues \/ TerminalReads
  \/ IsmStep \/ IsmOther \/ ToolCall \/ ToolStep \/ ToolCursor \/ Kill

Spec == Init /\ [][Next]_vars

\* Each of these steps asks less than fairness of the action it belongs to.
Asked == message = None /\ req = None /\ answer = None /\ message' \in Message
Handled == message # None /\ call[ism] = None /\ message' = None
Continued == req # None /\ result[ism] # None /\ result' = [result EXCEPT ![ism] = None]
WasRead == answer # None /\ answer' = None

\* Both processes run, and the terminal never stops asking; nobody has to edit.
FairSpec ==
  Spec /\ WF_message(Asked) /\ WF_message(Handled) /\ WF_result(Continued) /\ WF_answer(WasRead)
       /\ WF_call(CallStep(ism)) /\ WF_call(CallStep(tool))

-----------------------------------------------------------------------------
(* Properties.                                                             *)

\* Every variable has its type, the layer's too; versions fit their members,
\* eight characters and a terminator.
TypeOK ==
  /\ LayerTypeOK
  /\ message # None => message \in Message
  /\ req # None =>
       /\ \A v \in {req.in.model, req.in.app, req.in.fw} : v \in Text /\ Len(v) <= 8
       /\ req.out \in [Keys -> Text] /\ req.todo # <<>>
       /\ result[ism] # None \/ call[ism] # None
  /\ answer # None => answer.code \in {"00", "01"} /\ answer.detail \in Text
  /\ message = None \/ (req = None /\ answer = None)

\* A request that lacks its end may make the ISM take a version or a model for
\* a shorter one, but never for another tag's value; a whole one is understood.
MistakesOnlyCutVersions ==
  req # None =>
    /\ IsPrefix(req.in.model, terminal.model)
    /\ IsPrefix(req.in.app, terminal.app) /\ IsPrefix(req.in.fw, terminal.fw)
    /\ req.whole => req.in = terminal

\* A good answer to an MP35 names what the configuration held while it was
\* made: each value at some time, so all of them at once unless it was edited
\* meanwhile.  Only the table version may be missing.
AnswerWasConfigured ==
  (answer # None /\ answer.code = "00" /\ IsMP35(util_String_GetValueTLV(ID_MODEL_POS, answer.detail))) =>
    LET tags == {<<ID_APP_VER, AppKey>>, <<ID_FIRMWARE_VER, FwKey>>}
        hosts == {<<ID_HOST(i), HostKeys[i]>> : i \in 1 .. Len(HostKeys)}
        value(tag) == util_String_GetValueTLV(tag, answer.detail)
        held(v, k) == \E d \in answer.seen : v = Shown("get_txt", d[k])
    IN  /\ \A t \in tags : held(value(t[1]), t[2])
        /\ value(ID_HOSTPATH) # None => \A t \in hosts : held(value(t[1]), t[2])
        /\ value(ID_EMV_TABLE_VER) # <<>> => held(value(ID_EMV_TABLE_VER), Timestamp)

\* The configuration can be read: file, journal, and the values an MP35 needs.
Readable ==
  /\ present /\ ~journal
  /\ \A k \in {AppKey, FwKey} \cup ToSet(HostKeys) : db[k] \in Values \ {Empty}

Current == terminal.app = db[AppKey] /\ terminal.fw = db[FwKey]

\* Once nobody edits any more an MP35 comes to run what is configured, cut
\* requests, killed processes and locks notwithstanding.
Converges ==
  (terminal.model = MODEL_MP35 /\ troubles = MaxTroubles /\ call[tool] = None)
    ~> (Current \/ ~Readable)
=============================================================================
