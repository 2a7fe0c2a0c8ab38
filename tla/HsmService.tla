----------------------------- MODULE HsmService -----------------------------
(***************************************************************************)
(* The HSM's loop (main.c), its one client util_sendDataToHSM, and the PIN *)
(* pads whose messages the ISM passes on.                                  *)
(*                                                                         *)
(* The HSM serves one connection after the other: it reads a KSN, a PIN    *)
(* block and a card's data, and answers with the card's fields and the     *)
(* PIN.  Buffers are modelled where main.c keeps them between connections: *)
(* recvMessage and bAux, and t_cryptoData, which it clears.                *)
(*                                                                         *)
(*  - A character of a message is what it is part of and its place there.  *)
(*    The message may lack the KSN (no DE121), the data (no DE125) or its  *)
(*    last characters: when a message's header arrives whole, the ISM's    *)
(*    server takes it for whole with up to four missing, and DE125 stands  *)
(*    last.                                                                *)
(*  - What the client sends in one call the HSM reads in one call.         *)
(*  - A character of decrypted data is a digit, or Letter for all others.  *)
(*    A PIN block that is not the pad's deciphers to some member of        *)
(*    GarbledBlocks.  A block of data that is not whole deciphers to any   *)
(*    bytes; Letter stands for them, and where they reach the length of a  *)
(*    field, Serve has every outcome of the copy.                          *)
(***************************************************************************)
EXTENDS HsmKeys

CONSTANTS
  Devices,       \* PIN pads
  Cards,
  Face,          \* what is on a card: the digits of its five fields
  PinOf,         \* what its holder types: four to eight digits
  Cuts,          \* numbers of characters missing at a message's end
  Counters,      \* where a device's counter may stand at first
  GarbledBlocks, \* sixteen nibbles
  MaxRequests, MaxKills, \* bounds of the runs
  None

Letter == 10
Text == Seq(0 .. Letter)

\* The members of st_CryptoData bound the fields of a card.  The date and the
\* CVV have two characters at least, so that no length but the CVV's stands in
\* the last block of the data.
ASSUME CardsAssumption ==
  /\ Cards # {}
  /\ \A c \in Cards :
       /\ PinOf[c] \in Seq(0 .. 9) /\ Len(PinOf[c]) \in 4 .. 8
       /\ Face[c] \in [pan : Seq(0 .. 9), track1 : Text, track2 : Text, dtv : Text, cvv : Text]
       /\ Len(Face[c].pan) <= 19
       /\ Len(Face[c].track1) <= 76 /\ Len(Face[c].track2) <= 37
       /\ Len(Face[c].dtv) <= 4 /\ Len(Face[c].cvv) <= 4
       /\ Len(Face[c].dtv) + Len(Face[c].cvv) >= 2
ASSUME BoundsAssumption ==
  /\ 0 \in Cuts /\ Cuts \subseteq 0 .. 4
  /\ MaxRequests \in Nat /\ Counters \subseteq Nat
  /\ \A n \in Counters : n + MaxRequests \in CounterValues

VARIABLES
  hsm,     \* "up" or "dead"
  recv,    \* recvMessage
  plain,   \* bAux, the decrypted data
  crypto,  \* the card's fields in t_cryptoData
  queue,   \* the connections the HSM has not closed, the oldest first
  ism,     \* util_sendDataToHSM: "free", "connecting", "connected", "sent"
  request, \* the purchase whose PIN the ISM checks
  reply,   \* what the HSM wrote to it
  counter, \* the transaction counter of each device
  asked, kills, \* bound the runs
  told,    \* ghost: the last verdict, with its request and what it rests on
  opened,  \* ghost: the card whose data this HSM process decrypted
           \* last, None when none's or spoilt since
  cause    \* ghost: what ended the last HSM process

hsmVars == <<hsm, recv, plain, crypto, queue, opened, cause>>
ismVars == <<ism, request, reply, told>>
vars == <<hsmVars, ismVars, counter, asked, kills>>

Rules == INSTANCE IsmRules WITH IntHalf <- 1

-----------------------------------------------------------------------------
(* Messages.                                                               *)

ThreeDigits(n) == <<n \div 100, (n \div 10) % 10, n % 10>>
Tagged(v, digit) == <<Letter, Letter, digit>> \o ThreeDigits(Len(v)) \o v

\* PAN, TR1, TR2, DTV and CVV, filled up to whole blocks.
CardText(face) ==
  LET text == Tagged(face.pan, Letter) \o Tagged(face.track1, 1) \o Tagged(face.track2, 2)
              \o Tagged(face.dtv, Letter) \o Tagged(face.cvv, Letter)
  IN  text \o [i \in 1 .. (8 - (Len(text) % 8)) % 8 |-> Letter]

Texts == [c \in Cards |-> CardText(Face[c])]

Part(name, of, n) == [i \in 1 .. n |-> <<name, of, i>>]
KsnChars(r) == Part("ksn", <<r.device, r.n>>, 20)
PinChars(r) == Part("pin", <<r.device, r.n, r.card>>, 16)
DataChars(r) == Part("data", r.card, 2 * Len(Texts[r.card]))

Request ==
  [device : Devices, n : Nat, card : Cards, cut : Cuts, lacks : {"nothing", "ksn", "data"}]

ASSUME NoneAssumption == None \notin Request \cup Cards

\* buffer in util_sendDataToHSM.
Message(r) ==
  LET data == DataChars(r)
  IN  (IF r.lacks = "ksn" THEN <<>> ELSE KsnChars(r)) \o PinChars(r)
      \o (IF r.lacks = "data" THEN <<>> ELSE SubSeq(data, 1, Len(data) - r.cut))

-----------------------------------------------------------------------------
(* C strings.                                                              *)

Nul == <<"nul", 0, 0>>

\* Where the string that begins at position i of a buffer ends.
EndOf(buffer, i, nul) ==
  IF \E j \in i .. Len(buffer) : buffer[j] = nul
  THEN CHOOSE j \in i .. Len(buffer) : buffer[j] = nul /\ \A k \in i .. j - 1 : buffer[k] # nul
  ELSE Len(buffer) + 1

\* That string, at most n characters of it.
CString(buffer, i, n, nul) ==
  SubSeq(buffer, i, Min({EndOf(buffer, i, nul) - 1, (i + n) - 1}))

Strcpy(buffer, s) == s \o <<Nul>> \o SubSeq(buffer, Len(s) + 2, Len(buffer))

\* Characters written over the first ones: strncpy into a member.
Strncpy(old, s) == s \o SubSeq(old, Len(s) + 1, Len(old))

Buffer(n) == [i \in 1 .. n |-> Nul]
MaxText == Max({Len(Texts[c]) : c \in Cards})
MAX_MSG == 36 + 2 * MaxText + 1

-----------------------------------------------------------------------------
(* The card's data.                                                        *)

\* Mutant: a character is taken for a byte.
Bytes_Single(n) == n

\* An odd last character is a byte of its own; only whole blocks decrypt.
Bytes(n) == (n + 1) \div 2

Deciphers(n) == Bytes(n) > 0 /\ Bytes(n) % 8 = 0

\* The characters of block b of s.
BlockChars(s, b) ==
  [i \in 1 .. 16 |-> IF 16 * (b - 1) + i <= Len(s) THEN s[16 * (b - 1) + i] ELSE Nul]

\* They are those of one block that was encrypted.
Intact(s, b) ==
  LET first == BlockChars(s, b)[1]
  IN  /\ first[1] = "data" /\ first[3] % 16 = 1
      /\ \A i \in 1 .. 16 : BlockChars(s, b)[i] = <<"data", first[2], first[3] + i - 1>>

\* The bytes of that block; any bytes when it is not intact.
DecipheredBlock(s, b) ==
  LET first == BlockChars(s, b)[1]
  IN  IF Intact(s, b)
      THEN [i \in 1 .. 8 |-> Texts[first[2]][((first[3] - 1) \div 2) + i]]
      ELSE [i \in 1 .. 8 |-> Letter]

MkWkDecryptData(s) ==
  [i \in 1 .. 8 * (Bytes(Len(s)) \div 8) |->
     DecipheredBlock(s, ((i - 1) \div 8) + 1)[((i - 1) % 8) + 1]]

NoChar == -1

\* bAux after doMkWkDecryptData and Str2Hex, which write nothing when the
\* text does not decipher.
Decrypted(buffer, s) == IF Deciphers(Len(s)) THEN Strncpy(buffer, MkWkDecryptData(s)) ELSE buffer

-----------------------------------------------------------------------------
(* The parse of the decrypted text: five times a tag, a length, a value.   *)

\* atoi of up to three characters.
Atoi(s) ==
  LET digit(i) == Len(s) >= i /\ s[i] \in 0 .. 9
  IN  CASE ~digit(1) -> 0
        [] digit(1) /\ ~digit(2) -> s[1]
        [] digit(1) /\ digit(2) /\ ~digit(3) -> 10 * s[1] + s[2]
        [] digit(1) /\ digit(2) /\ digit(3) -> 100 * s[1] + 10 * s[2] + s[3]

\* The length and the value of a field, by the place of its tag.
LengthAt(s) == [i \in 1 .. MaxText |-> Atoi(CString(s, i + 3, 3, NoChar))]
ValueAt(s) == [i \in 1 .. MaxText |-> CString(s, i + 6, LengthAt(s)[i], NoChar)]

\* Where the five tags begin.
Starts(s) ==
  LET behind(i) == i + 6 + LengthAt(s)[i]
      second == behind(1)
      third == behind(second)
      fourth == behind(third)
  IN  <<1, second, third, fourth, behind(fourth)>>

Cleared == [pan |-> <<>>, track1 |-> <<>>, track2 |-> <<>>, dtv |-> <<>>, cvv |-> <<>>]

ParsedInto(members, s) ==
  [pan |-> Strncpy(members.pan, ValueAt(s)[Starts(s)[1]]),
   track1 |-> Strncpy(members.track1, ValueAt(s)[Starts(s)[2]]),
   track2 |-> Strncpy(members.track2, ValueAt(s)[Starts(s)[3]]),
   dtv |-> Strncpy(members.dtv, ValueAt(s)[Starts(s)[4]]),
   cvv |-> Strncpy(members.cvv, ValueAt(s)[Starts(s)[5]])]

\* Mutant: t_cryptoData is not cleared for the next connection.
Parsed_Kept(old, s) == ParsedInto(old, s)

\* t_cryptoData, cleared and filled.
Parsed(old, s) == ParsedInto(Cleared, s)

\* The last block of data s is not intact, and a digit of the CVV's length is
\* among its bytes: the length is any number, also a negative one.
LengthIsGarbled(s, text) ==
  LET last == Bytes(Len(s)) \div 8
  IN  Deciphers(Len(s)) /\ ~Intact(s, last) /\ Starts(text)[5] + 5 > 8 * (last - 1)

Emptied == [i \in 1 .. MaxText + 1 |-> NoChar]
Spoilt == [i \in 1 .. MaxText + 1 |-> Letter]

\* bAux after the copies: one of a garbled length may fit, or run over the end
\* of t_cryptoData into bAux, which stands behind it.
AfterCopies(clear, s, text) ==
  IF LengthIsGarbled(s, text) THEN {clear, Spoilt} ELSE {clear}

\* t_cryptoData after the parse; what is parsed of a spoilt bAux may be any
\* card's, or none's.
Readings(old, clear, text) ==
  {Parsed(old, text)} \cup (IF clear = Spoilt THEN {Face[c] : c \in Cards} ELSE {})

-----------------------------------------------------------------------------
(* The PIN.                                                                *)

\* Mutant: sixteen of the PAN's digits are copied.
Fatal_Sixteen(ksn, pin, pan) == Len(ksn) < 19 \/ Len(pin) < 15 \/ Len(pan) < 17

\* A KSN or a PIN block that ends too early leaves Str2Hex without a
\* character: its -1 becomes the size of a copy, and the process ends.  So
\* does the copy of a PAN's twelve digits when there are not that many.
Fatal(ksn, pin, pan) == Len(ksn) < 19 \/ Len(pin) < 15 \/ Len(pan) < 13

DeviceKeys ==
  [k \in Devices \X CounterValues |-> DevicePinKey(k[1], k[2])]
WalkedKeys ==
  [k \in Devices \X CounterValues |-> PinKey(Ksn(k[1], k[2]))]

\* What a PIN pad sends: the card's PIN block under the key of its counter.
PadBlock(d, n, c) == TDes(DeviceKeys[<<d, n>>], doDukptEncryptPinBlock(PinOf[c], Face[c].pan))

\* The blocks doDukptDecryptPIN may give: the pad's, when the text is whole and
\* the KSN leads to the key it was encrypted under.  What a pad makes of a PAN
\* without twelve digits for its block is not known.
PinBlocks(ksn, pin) ==
  LET d == pin[1][2][1]  n == pin[1][2][2]  c == pin[1][2][3]
  IN  IF /\ pin[1][1] = "pin" /\ pin = PinChars([device |-> d, n |-> n, card |-> c])
         /\ ksn[1][1] = "ksn" /\ ksn = KsnChars([device |-> ksn[1][2][1], n |-> ksn[1][2][2]])
         /\ Len(Face[c].pan) >= 13
         /\ IsUnder(WalkedKeys[ksn[1][2]], PadBlock(d, n, c))
      THEN {Inside(PadBlock(d, n, c))}
      ELSE GarbledBlocks

-----------------------------------------------------------------------------
Init ==
  /\ hsm = "up" /\ queue = <<>> /\ opened = None /\ cause = None
  /\ recv = [i \in 1 .. MAX_MSG |-> Nul]
  /\ plain = Emptied
  /\ crypto = Cleared
  /\ ism = "free" /\ request = None /\ reply = None /\ told = None
  /\ counter \in [Devices -> Counters] /\ asked = 0 /\ kills = 0

\* The connection of the ISM that runs now, if the HSM has not closed it.
Mine == {i \in 1 .. Len(queue) : ~queue[i].gone}

-----------------------------------------------------------------------------
(* A PIN pad makes a purchase; the ISM connects, sends and waits.          *)

TerminalPays ==
  /\ ism = "free" /\ asked < MaxRequests
  /\ \E d \in Devices, c \in Cards :
       \E damage \in {<<n, "nothing">> : n \in Cuts} \cup {<<0, "ksn">>, <<0, "data">>} :
         /\ request' = [device |-> d, n |-> counter[d] + 1, card |-> c,
                        cut |-> damage[1], lacks |-> damage[2]]
         /\ counter' = [counter EXCEPT ![d] = @ + 1]
  /\ ism' = "connecting" /\ asked' = asked + 1 /\ told' = None
  /\ UNCHANGED <<hsmVars, reply, kills>>

\* The verdict, and the request done with.
Concludes(via, refused) ==
  /\ told' = [request |-> request, via |-> via, refused |-> refused, reply |-> reply]
  /\ ism' = "free" /\ request' = None /\ reply' = None

\* Without a connection the PIN counts as good.
IsmConnects ==
  /\ ism = "connecting"
  /\ \/ /\ hsm = "up"
        /\ queue' = Append(queue, [of |-> request, text |-> <<>>, gone |-> FALSE])
        /\ ism' = "connected"
        /\ UNCHANGED <<request, reply, told>>
     \/ hsm = "dead" /\ Concludes("unreachable", FALSE) /\ UNCHANGED queue
  /\ UNCHANGED <<hsm, recv, plain, crypto, opened, cause, counter, asked, kills>>

IsmSends ==
  /\ ism = "connected" /\ ism' = "sent"
  /\ queue' = [i \in 1 .. Len(queue) |->
                 IF i \in Mine THEN [queue[i] EXCEPT !.text = Message(request)] ELSE queue[i]]
  /\ UNCHANGED <<hsm, recv, plain, crypto, opened, cause, request, reply, told,
                 counter, asked, kills>>

\* The reply's last eight characters without the spaces in front.
Password(pin) == SubSeq(pin, Max({1, Len(pin) - 7}), Len(pin))

\* With less than four the rules read behind the password; without a reply
\* the password comes from before the buffer.
Judged(pin) ==
  IF Len(Password(pin)) < 4 THEN BOOLEAN ELSE {Rules!PinRefused(Password(pin))}

IsmReceives ==
  /\ ism = "sent"
  /\ \/ reply # None /\ \E v \in Judged(reply.pin) : Concludes("answer", v)
     \/ reply = None /\ Mine = {} /\ \E v \in BOOLEAN : Concludes("nothing", v)
  /\ UNCHANGED <<hsmVars, counter, asked, kills>>

-----------------------------------------------------------------------------
(* The HSM reads, decrypts, answers and closes, or dies over the request.  *)

Dies(what) ==
  /\ hsm' = "dead" /\ queue' = <<>> /\ cause' = what /\ opened' = None
  /\ recv' = [i \in 1 .. MAX_MSG |-> Nul]
  /\ plain' = Emptied
  /\ crypto' = Cleared

\* Mutant: a connection its peer gave up is waited for.
MayRead_Text(c) == c.text # <<>>

\* read returns with the text, or with nothing once the peer is gone.
MayRead(c) == c.text # <<>> \/ c.gone

Serve ==
  /\ hsm = "up" /\ queue # <<>> /\ MayRead(Head(queue))
  /\ UNCHANGED <<ism, request, told, counter, asked, kills>>
  /\ \E heard \in {Strcpy(recv, Head(queue).text)} :
     \E ksn \in {CString(heard, 1, 20, Nul)}, pin \in {CString(heard, 21, 16, Nul)},
        data \in {CString(heard, 37, MAX_MSG, Nul)} :
     \E clear \in {Decrypted(plain, data)} :
     \E text \in {CString(clear, 1, MaxText, NoChar)} :
     \E card \in Readings(crypto, clear, text) :
         \/ /\ Fatal(ksn, pin, card.pan) \/ LengthIsGarbled(data, text)
            /\ Dies(Head(queue))
            /\ UNCHANGED reply
         \/ /\ ~Fatal(ksn, pin, card.pan)
            /\ plain' \in AfterCopies(clear, data, text)
            /\ opened' = IF plain' = Spoilt THEN None
                         ELSE IF Deciphers(Len(data)) /\ data[1][1] = "data" /\ data[1][3] = 1
                         THEN data[1][2] ELSE opened
            /\ \E block \in PinBlocks(ksn, pin) :
                 reply' = IF Head(queue).gone THEN reply
                          ELSE [card |-> card, last |-> opened',
                                pin |-> doDukptDecryptPinBlock(block, card.pan)]
            /\ recv' = heard /\ crypto' = card
            /\ queue' = Tail(queue)
            /\ UNCHANGED <<hsm, cause>>

-----------------------------------------------------------------------------
(* Processes are killed, and started again by their shell loops.           *)

KillHsm ==
  /\ hsm = "up" /\ kills < MaxKills /\ kills' = kills + 1
  /\ Dies(None)
  /\ UNCHANGED <<ismVars, counter, asked>>

KillIsm ==
  /\ ism # "free" /\ kills < MaxKills /\ kills' = kills + 1
  /\ ism' = "free" /\ request' = None /\ reply' = None
  /\ queue' = [i \in 1 .. Len(queue) |-> [queue[i] EXCEPT !.gone = TRUE]]
  /\ UNCHANGED <<hsm, recv, plain, crypto, opened, cause, told, counter, asked>>

Restart ==
  /\ hsm = "dead" /\ hsm' = "up" /\ cause' = None
  /\ UNCHANGED <<recv, plain, crypto, queue, opened, ismVars, counter, asked, kills>>

Next ==
  \/ TerminalPays \/ IsmConnects \/ IsmSends \/ IsmReceives
  \/ Serve \/ KillHsm \/ KillIsm \/ Restart

Spec == Init /\ [][Next]_vars

\* The steps by which the HSM is done with a connection it may read: Serve,
\* and the end of the process.  Fairness of these steps asks less than
\* fairness of Serve.
Finishes ==
  /\ hsm = "up" /\ queue # <<>> /\ MayRead(Head(queue))
  /\ queue' \in {Tail(queue), <<>>}

\* Both processes run, and runner.sh starts the HSM again; nobody has to pay,
\* nobody has to be killed.
FairSpec ==
  Spec /\ WF_vars(IsmConnects) /\ WF_vars(IsmSends) /\ WF_vars(IsmReceives)
       /\ WF_queue(Finishes) /\ WF_vars(Restart)

-----------------------------------------------------------------------------
(* Properties.                                                             *)

Connection(c) ==
  /\ c.of \in Request /\ c.gone \in BOOLEAN
  /\ c.text \in {<<>>, Message(c.of)}

\* Every variable has its type: at most one connection is the ISM's, the
\* buffers keep their size.
TypeOK ==
  /\ hsm \in {"up", "dead"} /\ ism \in {"free", "connecting", "connected", "sent"}
  /\ Len(recv) = MAX_MSG /\ Len(plain) = MaxText + 1
  /\ DOMAIN crypto = DOMAIN Cleared
  /\ \A i \in 1 .. Len(queue) : Connection(queue[i])
  /\ Cardinality(Mine) <= 1
  /\ (request = None) <=> (ism = "free")
  /\ request # None => request \in Request
  /\ counter \in [Devices -> CounterValues]
  /\ opened \in Cards \cup {None}

\* A request whose PIN the HSM can read, if the process outlives its parse:
\* whole, or short of one character, which spoils a block behind the PAN.
Readable(r) == r.lacks = "nothing" /\ r.cut <= 1

\* What IsmTransactions takes for granted of the HSM: an answer to a readable
\* request judges the PIN its customer typed, under whatever key of whatever
\* device, whoever was served before; no connection means a good PIN.
JudgedByItsOwnPin ==
  told # None =>
    CASE told.via = "unreachable" -> ~told.refused
      [] told.via = "answer" /\ Readable(told.request) ->
           told.refused = Rules!PinRefused(PinOf[told.request.card])
      [] OTHER -> TRUE

\* The reply to a whole request holds the fields of its own card and its own
\* PIN, although buffers with other customers' data are never cleared.
ReplyIsOwn ==
  (reply # None /\ request.cut = 0 /\ request.lacks = "nothing") =>
    reply.card = Face[request.card] /\ reply.pin = PinOf[request.card]

\* The reply to any other request may name a stranger's card, but none other
\* than the card this process decrypted last, as long as no garbled length has
\* spoilt bAux since.
StrangersAreRecent ==
  (reply # None /\ reply.last # None) =>
    \E c \in {request.card, reply.last} : reply.card.pan = Face[c].pan

\* The process ends only over a request that lacks something or its last
\* characters, over one of a card whose PAN has not the thirteen digits that
\* the PIN's block takes for granted, and over one that was given up before it
\* was sent, unless somebody kills it: never over a whole request of any other
\* card, whatever was left in the buffers before it.
DiesOnlyOfDamage ==
  cause # None =>
    \/ cause.gone /\ cause.text = <<>>
    \/ cause.of.lacks # "nothing" \/ cause.of.cut > 0
    \/ Len(Face[cause.of.card].pan) < 13

\* The transactions that share their key with another one, of any device, or
\* whose data is encrypted under the key of its PIN.
Shared ==
  {t \in Devices \X CounterValues :
     \/ \E u \in Devices \X CounterValues : u # t /\ WalkedKeys[u] = WalkedKeys[t]
     \/ DataKey(Ksn(t[1], t[2])) = WalkedKeys[t]}

\* No PIN is checked under such a key.
KeysAreSeparate == request # None => <<request.device, request.n>> \notin Shared

\* Every PIN check comes to an end, whoever dies.
SessionsEnd == (ism # "free") ~> (ism = "free")
=============================================================================
