# Verification of the payment environment

TLA+ models, TLC runs and TLAPS proofs for the test payment host of this
repository: the TCP service that terminals connect to (`CM_TCP`), the ISO 8583
module that decides on purchases and reversals (`ISM`), its SQLite layer, and the
HSM simulator (`HSM`).  The models are translated from the C sources;
`PROJECT.json` names the lines each definition stands for.

## 1. The system

| Component | Source | State it keeps | Operations |
| --- | --- | --- | --- |
| CM_TCP service | `CM_TCP/src/cm_tcp.c` | descriptors and threads of one process per port (7071, 7072) | accept, one thread per connection: `pingcm`, or forward to the ISM and send back |
| ISM server loop | `ISM/src/server.c` | static buffers, the connection being served | accept, read, ping / captura / reassembly, `iso_MainProcess` |
| Purchases and reversals | `ISM/src/isoProcess.c` | table `transactions`, config `nsu_host`, `nsu_acquirer`, `timestamp` (SQLite) | 0200: save, PIN, take NSUs, decide, update; 0400: take NSUs, look the original up |
| PIN check | `ISM/src/utils.c` | none (asks the HSM) | connect, send KSN, PIN block and card data, read the reply; refuse weak PINs |
| Table download | `isoProcess.c`, `utils.c`, `ISM/tables` | `g_zList`, `g_listSize` in memory, config `timestamp` | init (0800/002), charge (0800/004), choice of a table by a purchase amount |
| Keep-alive, communication test | `isoProcess.c` | none (reads config) | 0800/003: tell a terminal whether and from where to update; 0800/001 |
| ISO parsers and makers, TLV helpers | `isoProcess.c`, `utils.c` | none | field order, TLV |
| Database layer | `ISM/src/utl_sqlite.c` | the SQLite file, connections, statements, locks | getters, insert, update, delete with VACUUM, prepared selects, each opening and closing the file |
| HSM | `HSM/src` | `recvMessage`, `bAux`, kept from one connection to the next | accept, read, decrypt the card's data, derive the PIN's key (DUKPT), answer |
| Loggers | in each program | a global buffer (CM_TCP: shared by threads) | format and append |
| Shell loops | `runner*.sh` | none | start a program again when it ends |
| Test programs | `TEST/src` | none | one request, one assertion |

A terminal connects to cm_tcp; a thread of cm_tcp connects to the ISM (port
55555), which serves one connection at a time and, for a purchase with a PIN,
connects to the HSM (port 55556).  All terminals share the ISM's database, its
table list and its only thread.

What is hard here: threads of cm_tcp against one sequential ISM; messages cut by
TCP; processes that exit or crash between two database calls and are started
again; database calls whose result is ignored; a database file locked by another
process, or left with a journal by one that died; buffers that keep one
customer's data while another is served; state shared by all terminals
between two requests of one of them; limits of descriptors, threads and the
listening queue; six-digit numbers and twelve-digit amounts read with `atoi`.
`PROJECT.json` lists these hazards line by line, with the properties that watch
them, or the reason why none does.

What makes the components correct:

- *Purchases*: an answered outcome is booked and stays booked; acquirer NSUs are not told
  twice; a reversal finds what it names and nothing else; a refused PIN is never
  approved.
- *Downloads*: a terminal collects the rows of one table, in order, all of them,
  in fields that fit, and gets to an end, unless the list was taken from it.
- *Messages*: each side reads what the other wrote.
- *Transport*: every session ends; one without an answer has a cause; a message read
  whole gets the reply its kind asks for; a handler is given the message of the terminal
  it answers; within limits that can be stated no process ends; nothing but the known
  leak holds a descriptor.
- *PIN checks*: a PIN is judged by itself, whoever was served before; only damaged
  requests, and PANs too short for a PIN block, end the HSM; keys of transactions are
  separate.
- *Database*: a call returns, gives back its handles, and tells the truth about
  what it read or wrote.
- *Keep-alives*: a terminal is told what is configured, and comes to run it.

## 2. The modules

| Module | Models |
| --- | --- |
| `IsmRules` | amounts that ask for codes, timeouts and tables; rules on PINs |
| `IsmTransactions` | `iso_FinancialProcess` and `iso_ReversalProcess` |
| `Ledger` | what the ISM promises about purchases (abstract) |
| `IsmTransactions_proofs` | theorems about the two |
| `TableDownload`, `TableDownload_proofs` | `iso_InitProcess`, `iso_ChargeProcess` and the shared list |
| `PaymentNet`, `PaymentNet_proofs` | cm_tcp and the ISM's server loop together |
| `IsoCodec`, `IsoCodec_proofs` | the parsers and makers of the three kinds of message, and a terminal that follows the documented format, but for DE118 |
| `HsmKeys`, `HsmKeys_proofs` | DUKPT: key derivation, PIN blocks, and the PIN pad's side of it |
| `HsmService`, `HsmService_proofs` | the HSM's loop with its client `util_sendDataToHSM`, on top of `HsmKeys` and `IsmRules` |
| `NaturalLemmas` | induction over numbers, least members, quotients, joined sequences: recursive functions: what the proofs about the HSM and the messages share |
| `SqliteLayer` | the functions of `utl_sqlite.c`, several processes on one file |
| `KeepAlive`, `KeepAlive_proofs` | `iso_KeepAliveProcess` on top of `SqliteLayer`, with the TLV helpers and a terminal that updates itself |
| `MC*` | values for TLC |

**IsmTransactions.** The ISM handles one message at a time, so there is one
request in hand (`cur`, the two C structures) and a `pc` that says which database
call comes next.  An action is what the handler does up to and including one
call: `SavePurchase` (`iso_SaveFinStruct`), `CheckPin` (`util_sendDataToHSM`),
`TakeHostNsu`, `DecidePurchase` / `DecideReversal`, `TakeAcqNsu`, `SelectTable`
(`util_needUpdateTimestamp`), `UpdatePurchase` (`iso_UpdateFinStruct`), `Reply`.
A crash may come between any two of them (`Crash`, `Restart`: `runner.sh`), and
with `DbFaults` any call may fail, after which the handler goes on, as the code
does.  Rows carry a ghost, the request that wrote them last, and `faulted` collects
requests during which a call failed: the properties say what holds for the others.
A key stands for the terminal NSU and the date DE90 names.

**TableDownload.** `loaded` is the table in `g_zList` (empty after a start),
`timestamp` the name in the configuration.  Rows are numbers of a table; their
declared and real lengths decide how many fit a field, so `Serializes` is
`util_tableSerialization` on lengths.  `disturbed` is a ghost: downloads under way
when another table was loaded or the process died.

**PaymentNet.** Every session has its thread's position (`handleClient`), the
bytes it received, sent and the ISM read, and what came back; every cm_tcp process
its descriptors and threads; the ISM the connection it serves, the length it waits for
and how much text `recvMessage` holds, which is never cleared.  A message is a length,
and TCP may cut it anywhere, in the header too (`Segments`, `Splits`).  A first read of
one to three bytes is a header of fewer digits (`Header`): the length that
`util_ConvertToDecimal_Header` makes of them is smaller, or negative, and what stands
behind the header is the text of an earlier message (`Stores`, and its ghost `of`).  So
`IsmProcesses` has four ends: no acquirer in the text (`IsmRefuses`), an acquirer and no
type (`IsmKnowsNoType`), a negative size to copy (`IsmFails`), or a handler
(`IsmHandles`), with a ghost `by` that says whose text it was given.  A process ends by
`exit` in `ConnectFails`, by `IsmFails`, or by a kill; the end of a process closes its
connections, and the shell loops start it again.  Starting
again may take several tries (the port may still be taken); the model shows the last.

**IsoCodec.** Parser, maker and structure of each kind of message are tables of
fields (bit, member, width), each translated on its own: `*Parser*` and `*Maker*`
from `isoProcess.c`, `*Format` from `def_types.h`.  A message is its bitmap and a
sequence of characters, so a field that is one character short shifts the rest, as
it does in the code.  A terminal writes a request in the documented format
(`TerminalSends`), the ISM parses it (`IsmParses`), fills and writes the reply
(`IsmAnswers`: `Echoed` and `Own` are what the handlers copy and set), and the
terminal reads it in the documented format (`TerminalReads`).  One field is not written
as documented: `def_types.h` gives DE118 three digits of length (`Documented`), and
`test_ism.c` sends two characters and no length, which is also what the parser reads; the
terminal follows the test (`Spoken`).  Nor does it send the two fields of `Unread`, for
which no parser looks under their documented bit.

**HsmKeys, HsmService.** DES is perfect: a register of eight bytes is a set of terms whose
exclusive or it is, so an exclusive or is a symmetric difference and two ways to one key
can be compared.  `Walk` is the code's loop over the counter's bits, one member for each
turn, and `DeriveKeyFromIpek` its last; `FutureKeys` (external) is what ANSI X9.24 lets
the PIN pad do, from its initial key alone.  PIN blocks are real nibbles.  A character of a
message is what it is part of and its place there, so that cut, shifted and left-over text
is told apart; what deciphers under a wrong key is a member of `GarbledBlocks`, and what
is read outside a buffer any verdict.  A block of the card's data that is not whole
deciphers to any bytes.  Where one of them is a digit of a field's length, that length is
any number, and `Serve` has every outcome of the copy: the process ends, the field fits,
or the copy runs over the end of `t_cryptoData` into `bAux` (`LengthIsGarbled`,
`AfterCopies`, `Readings`).  `Serve` is one turn of `main`'s loop, from the copy into
`recvMessage` to the parse that clears `t_cryptoData` and writes into it; `bAux` is not
cleared.  It ends the process where a short KSN, block or PAN turns into a negative size,
or a garbled length into one that is negative or too large. `IsmTransactions` has one
action for all this (`CheckPin`: judged, judged at random, or not reached);
`JudgedByItsOwnPin` says what that action takes for granted.

**SqliteLayer, KeepAlive.** A call of the layer opens the file, prepares, steps or
executes, and closes, and another process may act between any two of these.
SQLite is external: readers share the file, one writer reserves it and commits
alone, what stands in the way fails at once (no busy handler is set), and a process
that dies while it commits may leave a journal which only a connection that may
write can roll back, while the getters open read-only.  `Step` is the body of
`while(sqlite3_step(stmt) != SQLITE_DONE)`, in which an error counts as a row.
`open` counts the handles by what each return path closes.  `KeepAlive` runs the
handler on this layer: one call per configured value in their order, the early
returns, the comparison with the versions in the terminal's TLV text, which may be
cut.  `tool` is whoever edits the configuration; `OtherCalls` are those of the
ISM's other handlers.  The terminal (external, from the paths and versions the
answer carries) installs what it can.

## 3. The runs

| Run | Module / cfg | Shows |
| --- | --- | --- |
| `ledger` | MCIsmTransactions / MCLedgerRun | three requests, two keys, a good and a weak PIN, an HSM that may not answer, ordinary, timed-out and wrapping coded amounts, crashes: outcomes, reversals and PINs, and that `IsmTransactions` implements `Ledger` |
| `faults` | MCFaultRun | the same with failing calls and a host NSU that outgrows its field in the third request: damage is contained until then, acquirer NSUs are unique also after it |
| `tables` | MCTableDownload / MCTables | two terminals and one list with everything that can go wrong in between; one terminal and the six shipped files: rows in order, whole, in fields that fit, and each download ends |
| `table_label` | MCTableLabel | violation: an answer names one table and carries another |
| `table_config` | MCTableConfig | violation: the corrected configuration names no table |
| `net_whole` | MCPaymentNet / MCNetWhole | every kind of message, cuts in the header and in the lengths of other messages, one kill: sessions end, whole messages get their own reply, handlers their own message |
| `net_limits` | MCNetLimits | safety with messages cut anywhere and every limit reached: causes of silence, what ends processes, descriptors |
| `net_test` | MCNetTest | violation: a message in two segments is not answered |
| `net_threads` | MCNetThreads | violation: without a thread a connection is never served |
| `codec` | MCIsoCodec / MCIsoCodec | requests of every kind with few or nearly all fields, whole or without their last characters: the ISM reads them as sent, the terminal reads the reply as filled |
| `hsm` | MCHsmService / MCHsmService | three PIN checks of a PIN pad with three cards, whole, cut or lacking a field, one kill: every check ends, each readable one is judged by its own PIN, replies hold the card's own data, the HSM ends only over damaged ones and a PAN of twelve digits |
| `database` | MCKeepAlive / MCKeepAlive | keep-alives with two troubles (an edit, another request, a cut text, a kill) in between: handles, truthful results, answers that were configured, calls that return, terminals that converge |

**Bounds.** *Requests*: three, because the properties relate at most a request whose
handling was damaged, the one that damages it and a reversal that asks for it.  *The int of
`atoi`* has 18 bits: it wraps inside the amounts used, into the same ranges as 32 bits
do.  *`NsuLimit`* is 1000 where it must not matter and 10 where the host NSU, 7 at first,
has to outgrow it: the third number is 10, of which the field keeps 1.  Properties that
depend on it say so with `HostFits` and promise nothing beyond; `AcquirerNsuUnique` does
not depend on it.  *Tables* of two and five rows are sized so that the field of 999
characters holds one or two of them (350 and 611 characters), and a last answer holds the
empty entry; the six files take part in the same run with their real lengths, one terminal
at a time (`MCSpec`).  The two violation runs use rows of 6 and 12 characters and fields of
20.  *Net*: two sessions are enough for one to wait for the ISM behind another and for
one's exit to end the other; the limits need a third.  A message has the 917 bytes of the
one in `test_ism.c`, of which 913 are enough for the ISM; first parts of 1 and 2 bytes cut
the header with and without bytes left to wait for, 5 and 6 are taken for a ping and a
captura, 12 hold an acquirer and no type.  One kill reaches every recovery.  A backlog of 1
lets two connections wait, so three sessions fill the queue and the descriptors, and two
stay within both (`WithinLimits`).  *Codec*: the tables are long but a field only touches
those next to it among the ones present, so requests with up to two fields, with all, and
with all but one show each pair of neighbours; counted fields have one or twelve
characters; `MaxCut` is the four characters a message may lack whose header arrived whole
(`Enough` of `PaymentNet`).  *HSM*: three requests, since what a buffer keeps of the first
may show in the second and must be gone after it, of one PIN pad, since the HSM keeps
nothing about the pads (the theorems `PinsAreJudged` and `KeysSeparate` are about any
number of them); cuts of one and two characters, the last that leaves the block readable
and the first that does not; a counter of four bits from 5, whose next values have two and
three ones; PANs of 16, 19 and 12 digits, a card with a CVV and two without, whose CVV's
length is in the last block of the data and comes out garbled when the request lost a
character.  *Database*: one version is the beginning of the other, so a cut text names a
version that exists; two troubles reach an edit between the reads of one answer, a lock
met by a getter, a journal and its rollback. `MaxKills`, `MaxRequests`, `MaxTroubles` and
the descriptor, thread and queue limits are the only bounds on behaviours, and all are
constants.

**Fairness.** In `PaymentNet`, threads, the ISM's loop and the shell loops run
(weak fairness), because the operating system schedules them and none waits for
anything but what its guard says; terminals need not connect and nobody has to
kill.  In `TableDownload`, a terminal that has not given up asks for the next
rows.  In `HsmService` the ISM and the HSM run and the shell loop starts the HSM again;
in `KeepAlive` both processes run and a terminal never stops asking.  There the
conditions are stated about the smallest step that can be meant (`Finishes`, `Asked`,
`Handled`, `Continued`, `WasRead`): they ask less than fairness of the whole action, and
TLC need not compute its outcomes twice.  `Converges` holds from the moment the
last trouble has happened, and only while the file can be read: a journal nobody
rolls back, or an empty value, stops every answer.  `IsmTransactions` has no liveness
property: its steps are the ISM's, which `PaymentNet` schedules.

**Deadlock** is not checked in the net runs: the system rests when every terminal
was served.  `SessionsEnd` says that it does not rest before.  In `net_limits` and the
violation runs it may.  Nor is it in `hsm`, which rests when all requests were made.

**Conditions.** In `net_whole` the first part cm_tcp receives lets the ISM stop waiting
(913 of 917 bytes, or 1); without that condition `SessionsEnd` fails as `net_test` shows.
The other properties of the net state their conditions themselves: `ReplyOfItsKind` is
about messages read in one piece (`Whole`), `NobodyEndsUnprovoked` about a past within
limits (`WithinLimits`, with the ghost `most`), and `UnansweredHasACause` names the cut
header as a cause.  `HandledForItsSender` and `DescriptorsAreAccounted` have none.

## 4. Findings

1. `isoProcess.c:1713` sends the rows loaded last under the name configured now
   (`table_label`).
2. `isoProcess.c:1739` stores `TAB000GERTEC` as a correction; the file is called
   `TAB0GERTEC.DAT`, and every later initialization ends the process
   (`table_config`).
3. `cm_tcp.c:177` forwards only what the first `recv` returned; then both
   processes wait, and the ISM serves nobody (`net_test`).
4. `cm_tcp.c:279` neither joins nor detaches its threads and ignores the result of
   `pthread_create` (`net_threads`).

Seen on the way, without a run of its own: three fields are not read as the structures
document them.  DE118 has a length in `def_types.h:30` and none in the purchase's parser
(`isoProcess.c:462`), nor in `test_ism.c`; the parser of reversals does not look for it
(`isoProcess.c:658`), and the one of network messages takes DE127 from bit 128
(`isoProcess.c:292`).  `RequestIsUnderstood` names all three as exceptions.  Further, no
maker sends the host NSU (DE38 is written from the member of DE23, `isoProcess.c:935`,
which no handler fills), an exception `ReplyIsUnderstood` names.  Once the host NSU has
seven digits a purchase is saved under seven and updated under six: its row stays blank
(`isoProcess.c:1890`). Four to seven bytes of an ISO message are answered like a ping or a
captura (`server.c:111`).  A PAN of less than thirteen digits ends the HSM
(`HSM/src/public.c:202`).  PINs are refused by their first four digits (`utils.c:706`).  A
getter that meets a lock spins, and one that meets a journal spins until somebody writes
(`utl_sqlite.c:283`): `CallsReturn` excepts the journal.  An HSM that reads a short request
answers with what the buffers still hold of the customer before (`HSM/src/main.c:143`):
`StrangersAreRecent` bounds it, no document speaks of it.

## 5. The proofs

TLAPS proves, for every value of the constants that satisfies the assumptions
named in the modules (`IntHalfAssumption`, `ConstantsAssumption`, `NoneAssumption`,
`TablesAssumption`, `FilesAssumption`, `NetAssumption`, `ValuesAssumption`,
`KeepAliveAssumption`, `SizesAssumption`, `MaxCutAssumption`, `CounterBitsAssumption`,
`CardsAssumption`, `BoundsAssumption`):

- `TypeCorrect`, `OutcomesStayBooked`, `DamageStaysContained`,
  `AcquirerNsusUnique`, `ReversalsFindOriginals`, `BlankReversalsFindLost`,
  `CheckedPinsDecide` (`IsmTransactions_proofs`);
- `LedgerImplemented`: under `HostRoom`, that the host NSU has room for all
  requests, `Spec` implies `Abstract!LedgerSpec`;
- `DownloadTypes`, `RowsStayInOrder`, `DownloadsAreWhole`
  (`TableDownload_proofs`);
- `NetTypeCorrect`, `SilenceHasACause`, `HandledForSender`, `DescriptorsAccounted`,
  `RepliesFit`, `NobodyEndsWithinLimits`: every safety property of `PaymentNet`, for
  every cut and every limit (`PaymentNet_proofs`);
- `HandlesAreReturned`, `ReadsAreTrue`, `WritesAreTrue`, `MistakesAreCutVersions`,
  `AnswersWereConfigured` and, under `VersionsFit`, that no version or model is longer
  than eight characters, `KeepAliveTypes`: every safety property of `KeepAlive`
  (`KeepAlive_proofs`);
- `MessagesFit`, `RequestsAreUnderstood`, `RepliesAreUnderstood`, `EchoesComeBack`,
  `TestIsAnswered`: every property of `IsoCodec` (`IsoCodec_proofs`);
- `KeysAgree`, `KeysSeparate`, for any number of counter bits, and `PinComesOut`
  (`HsmKeys_proofs`);
- `HsmTypesCorrect`, `KeysStaySeparate`, `PinsAreJudged`, `RepliesAreOwn`,
  `OnlyTheLastStranger`, `OnlyDamageKills`: every safety property of `HsmService`
  (`HsmService_proofs`).

What is assumed of the HSM's constants is what the code's types say: a card's fields
fit the members of `st_CryptoData` (`HSM/src/header.h:113`), a PIN has four to eight
digits, the date and the CVV two characters at least between them, at most four characters
of a message are missing, and no counter runs out of its bits.  Of a PAN nothing is
assumed but that it fits.  Of the keep-alive's: a configured value or a version has at
most the 63 characters `util_Config_GetTableField` has room for (`utils.c:206`), the FTP
host has four keys at most, the table version's key is none of the others, and a terminal
tells its versions under the tags 4, 5 and 15, in any order.  `VersionsFit` is a condition
of the one theorem that needs it and not an assumption: the code copies a version into
`appVer` and `firmwareVer` (`def_types.h:79`) without looking at its length.

*The argument for purchases.* The UPDATE finds a row by the host NSU, which
nothing keeps unique, so none of the properties is inductive.  What has to be
added is how the counter orders the rows: a row a purchase booked for itself
never has a number above the counter (`RowsBelowHost`), the row of the purchase in
hand has the next number before `TakeHostNsu` and the present one after
(`RowInHand`), and so an UPDATE selects a number above every booked row
(`HostInHand`).  Rows with the number it selects that are not its own belong to
requests that were interrupted or failed.  The acquirer NSU needs the same kind
of order (`AcqInHand`, `AcqBounded`, `AcqDistinct`).  `IInv` is the conjunction; one
lemma per action proves that it is kept.

*The refinement* maps a row to a journal entry when its own purchase, without a
failed call, wrote it; `UpdatePurchase` is `Enter`, a sent `Reply` is `Tell`, every
other step a stutter.

*The argument for downloads* is what one answer adds: `FetchAdds` shows that the two
fields hold consecutive entries starting after those the terminal has, from the
table that is loaded; `Listed` adds that a download that was not disturbed is one
of the table that is loaded.

*The argument for reversals* starts from `IInv`.  A row keeps the key of the purchase
that inserted it (`KeysMatch`), and whoever ended has an acquirer NSU (`AcqTaken`), so a
booked row holds all a reversal names: `DecisionFinds` shows that the select finds it
at the one step that asks.  From then on the code in hand has to stay right until the
reply (`FoundInHand`, `LostInHand`), through an `UPDATE` that may yet write other rows:
what was lost stays lost (`LostStays`).  `PinInHand` says which verdict a purchase in hand
already owes its customer.  `StepsOfTheHandler` reduces the actions to five shapes of a
step, so each of these is proved once per shape.

*The argument for the transport* (`NInv`): a session is in the queue once, or the one
the ISM serves (`Lined`); what a thread forwarded is what it received (`Sending`); a
connection the ISM has not finished has no reply, and its thread waits, unless its
process ended (`Awaited`); while the ISM waits for the rest of a message, `recvMessage`
holds that message behind its header or the first read was shorter than a header, and
then the size it goes by is one that no handler takes (`Reading`), which is why
`HandledForItsSender` holds; and whoever sleeps or ends without an answer has a cause
(`Caused`).  The descriptors are proved as the size of two sets of sessions, with the
facts of `FiniteSetTheorems` on what adding or removing one does; that none of them is
negative, which `TypeOK` needs, follows from this account and from nothing less.
`Fitting` adds, for a message read whole, that the reply under way is its kind's.
The account of the descriptors also shows that nobody ends within the limits (`Calm`): an
empty session costs one descriptor for good and never a second (`Counted`), no more
terminals are connected than at the peak (`Peak`), and the queue is an injection into
those other than the one that connects, so `RoomForAll` finds it a place in both.  The
limits, once left, stay left, since the peak never falls; so an earlier step was within
them as well.

*The argument for the database* (`IInv`): by the step a call has come to, what it has
open (`Handles`), that one process writes at most and nobody changes the row it found
(`Writing`), what it read (`Fetched`) and whether it committed (`Committed`).  The lemmas
are about `LayerStep`, any step any program may make in the layer; the actions of
`KeepAlive` are such steps (`StepsOfTheLayer`).

*The argument for the keep-alive* is about texts first.  A text of mounted fields holds
each of them whole, behind the fields before it (`MountedStand`), so the loop of
`util_String_GetValueTLV` stands where a field begins until it has passed the last one,
and finds the first with its tag (`LookupIs`, `MountedIsRead`).  A text that lost four
characters at most is read like the whole one up to its last field; of that field it may
lose the end of the value, or of its length, and with it the value, or the last digit of
its tag, and then no tag is found in its place, since none of 4, 5 and 15 is what is left
of another without its last digit (`CutFieldIsRead`, `NoShorterTag`).  So a value is what
the terminal told, or the begin of it (`TerminalIsRead`).  The answer's fields have tags
of their own, whichever hosts are among them, so each is read as it was mounted
(`DetailIs`, `DetailIsRead`).  `KeepInv` then says whose turn it is (`Turns`); of a request
in hand that it was understood so, that the layer is asked for the next key and no
other, and that each key asked for before had the value that was read, at some time since
the first call (`Handling`, by `ReadsWhatWas`); and of a good answer that it was made of
such values (`Answering`).  So what a terminal runs was installed at first or configured
(`Running`), and its length is bounded by theirs: `TypeOK` needs all the others for that.

*Induction.*  The library's induction theorems take an operator as a parameter, which
the provers cannot instantiate.  `NaturalLemmas` states induction about sets instead
(`InductionOnNat`: a set with 0 and every successor holds every number), from
`WFMin` and the well-foundedness of `<`, and from it that a value computed from the
one before is computed for every number (`IterationExists`): that makes equations of the
recursive functions `Power2`, `Walk`, `FutureKeys` and of the loop that drops the Fs.

*The argument for messages.*  One function walks a table of fields and writes
(`Writing`), another walks a second table and reads (`Reading`); of the recursion of
both only the equation of one step is used (`RecursionExists`).  All tables go by rising
bits, so the walks can be laid side by side: `Aligned` says that a place in one table and
one in the other have the same bits before and behind them.  Then the reader at its place
is where the writer was at his (`Place`), with what was written so far in the structure:
`AgreeNext` goes back one field in the table that is ahead, or in both (`CutsBefore`).
Nothing written means nothing announced, so nothing read; and what was written is read by
the same field (`SentIsRead`), a counted value by the number its three digits say
(`LllIs`).  So a whole message is read as it was written (`WholeIsRead`), by any two tables
of which one has all the fields the other sends.  A message that lost its last characters
inside a counted field is read like a whole one up to that field (`CutIsRead`): the digits
still there are digits, so the reader is not lost, and nothing follows.  All that remains
is to compare the seven tables of the code, field by field (`TablesMatch`), and to see
what each handler makes of the structure (`AnswerIs`).  That is where the exceptions
appear: bit 38 comes from the member of DE23, which no handler fills, DE118 is compared
as it is spoken and not as it is documented, and the fields of `Unread` are in a structure
and not in its parser.  `IInv` only says which request and
which answer the variables hold.

*The argument for keys.*  After `i` turns the walk's register is the future key of the
`i` highest places of the counter: the pad takes away the lowest one, the walk adds the
next lower one, so both meet in `DerivedKeyIs` (`KeysAgree`).  For `KeysSeparate` a key
register has to be read backwards: each turn adds one `des` term by exclusive or, and
what it encrypts names the serial register of its turn, so terms of different turns
cannot cancel and the last of them shows the whole KSN (`KeyShowsKsn`, `KsnIsShown`); two
counters with the same ones are equal, because the ones are the binary digits.  A
data key is one `tdes` term per half, and a PIN key also holds the PIN's variant.

*The argument for PIN blocks*: exclusive or of two nibbles bit by bit undoes itself
(`NibbleHasBits`), digits are no Fs, and the loop that drops Fs appends the PIN's digits
and nothing after (`PinComesOut`).

*The argument for the HSM* (`Inv`) is about what its buffers are after requests that were
cut, lacked a field or were given up.  `Session`: the ISM has one connection that is not
gone, and its text is the message or still empty.  `Counting`: a counter is at most its
first value and the number of requests further.  `Buffers`: `bAux` begins with the text of
the card decrypted last, whole to the last field that matters, unless there was none since
the process began or a garbled length has spoilt it.  `Answered`: what the reply to the
request in hand holds.  It is kept since a readable request deciphers and overwrites the
text of the card before with its own to the last field that matters (`DataRead`); one that
lost a character deciphers in all but its last block, which has the length of no field but
the CVV's (`CardsAssumption`); a more damaged one leaves `Bytes` at a number that is no
multiple of eight, so nothing is decrypted (`DamagedDoesNotDecipher`), and what is parsed
again is the text of the card before (`BeginningRead`); and a process whose `bAux` is
still empty finds no PAN and ends (`ServedUnopened`), which is why no reply is ever made
of nothing.  Texts are joined, cut and parsed with numbers of characters the prover has to
add up: `CardTextIs` and `WholeRead` do that for the five fields of any card, `MessageIs`
and `PartsHeard` for the parts of a message in a buffer that holds a longer one.

Only model-checked: liveness (`SessionsEnd`, `DownloadEnds`, `CallsReturn`,
`Converges`: out of the prover's reach) and `FieldsFit`, which is about the lengths of the
files at hand and false of others.

## 6. What is not modelled

- Receipts, dumps, and the conversions that only feed log lines
  (`util_ConvertHexaToString`, `util_ConvertStringToHexa`): no influence on state.
- The loggers.  CM_TCP's threads share one text buffer without a lock
  (`cm_tcp.c:91`); the outcome is a garbled line, on which nothing depends.
- `sqlite3.h` (third-party; SQLite's behaviour is external), `util_log.sh` and the
  build scripts.
- DES itself, and the functions of DUKPT nobody calls: encryption of PIN blocks and
  data, and decryption of data under a transaction's data key (`DataKey` is modelled, to
  be told apart from the PIN's).
- Null pointers passed to the database layer, which no caller does, and selects of
  several rows: a condition of the handlers names one.
- A second reversal of one purchase, which the model accepts as the code does, and
  the empty branch for MP30 terminals (`isoProcess.c:1799`), which the model takes:
  nothing in the repository says what should happen, so no property does.
- What a handler makes of a message whose header was cut: `PaymentNet` lets it answer or
  stay silent, and `IsoCodec`, `KeepAlive` and `HsmService` begin with messages whose
  header arrived whole, which lack four characters at most.
- In the HSM: cards without a date and a CVV of two characters between them, for which the
  date's length would be in the last block too; and what a copy of a garbled length writes
  into `bAux`, for which any text stands until the next one that decrypts.
- The endless read after a peer's close in the middle of a message (`server.c:134`):
  `PaymentNet` has the state, and `net_test` ends in it; no property can ask for more.

## 7. Order of work

Done, in this order: `IsmRules`, `IsmTransactions`, `Ledger` and their proofs;
`TableDownload` and its proofs; `PaymentNet`; `IsoCodec`; `HsmKeys` and `HsmService`;
`SqliteLayer`, `KeepAlive` and their proofs; the theorems on reversals;
`PaymentNet_proofs`; `NaturalLemmas`, `HsmKeys_proofs` and `HsmService_proofs`;
`IsoCodec_proofs`; the theorems on the keep-alive's texts.

The cuts inside the header and the data that deciphers to any bytes came last.

Left: `IsmTransactions` on top of `SqliteLayer`, of whose calls it now uses the outcomes,
success, failure or the end of the process.
