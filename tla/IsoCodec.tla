------------------------------ MODULE IsoCodec ------------------------------
(***************************************************************************)
(* What one terminal and the ISM read in each other's ISO 8583 messages.   *)
(*                                                                         *)
(* A message is its bitmap and the characters behind it.  The parsers and  *)
(* the makers of isoProcess.c are one long sequence of field descriptions  *)
(* each, written out six times; here each is the table of those fields in  *)
(* the order of the code.  The terminal is external: it writes and reads   *)
(* the format the structures of def_types.h document, but for DE118, which *)
(* it sends as test_ism.c does, and for two fields it never sends, because *)
(* no parser looks for them under their documented bit (Unread).           *)
(*                                                                         *)
(* Members of the structures are named by their documented field number.   *)
(* A character is opaque (who wrote it, of which field, where), except the *)
(* digits of a length.  Values of amounts and codes are in IsmTransactions;*)
(* here every purchase and reversal may also end in a simulated timeout.   *)
(***************************************************************************)
EXTENDS Integers, Sequences, SequencesExt, FiniteSetsExt

CONSTANTS
  Sizes,   \* lengths of the values of counted fields
  MaxCut   \* characters that may be missing at a message's end

ASSUME SizesAssumption == Sizes \subseteq 1 .. 999
\* What a message may lack whose header has arrived whole (PaymentNet, Enough).
ASSUME MaxCutAssumption == MaxCut \in 0 .. 4

VARIABLES
  pc,       \* "idle", "sent", "parsed", "answered", "closed", "unanswered"
  request,  \* what the terminal asks: kind, DE70 code, fields and characters cut
  wire,     \* the message under way
  got,      \* structMsgIn, as the parser filled it
  reply,    \* structMsgOut, as the handler filled it
  read      \* the reply as the terminal reads it

vars == <<pc, request, wire, got, reply, read>>

-----------------------------------------------------------------------------
(* Field tables.  A field is announced by a bit, goes to or comes from a   *)
(* member of the structure, and has a width; width 0 is LLL, three digits  *)
(* of length and so many characters.                                       *)

Field(b, m, w) == [bit |-> b, member |-> m, width |-> w]
Fixed(b, w) == Field(b, b, w)
Counted(b) == Field(b, b, 0)

\* The structures of def_types.h, as their comments document them.
NetFormat ==
  <<Fixed(7, 10), Fixed(11, 6), Fixed(12, 6), Fixed(13, 4), Fixed(19, 3), Fixed(39, 2),
    Fixed(41, 16), Fixed(42, 20), Counted(61), Counted(62), Counted(63),
    Fixed(70, 3), Counted(120), Counted(123), Counted(127)>>

FinFormat ==
  <<Fixed(3, 6), Fixed(4, 12), Fixed(7, 10), Fixed(11, 6), Fixed(12, 6), Fixed(13, 4),
    Fixed(19, 3), Fixed(22, 3), Fixed(23, 3), Fixed(38, 6), Fixed(39, 2), Fixed(41, 16),
    Fixed(42, 20), Fixed(49, 3), Fixed(52, 16), Counted(55), Counted(60), Counted(61),
    Counted(62), Counted(63), Fixed(67, 2), Fixed(70, 3), Counted(90), Counted(118),
    Counted(120), Counted(121), Counted(123), Counted(124), Counted(125), Counted(127)>>

\* A reversal has no country, PIN and installments.
RevFormat ==
  <<Fixed(3, 6), Fixed(4, 12), Fixed(7, 10), Fixed(11, 6), Fixed(12, 6), Fixed(13, 4),
    Fixed(22, 3), Fixed(23, 3), Fixed(38, 6), Fixed(39, 2), Fixed(41, 16), Fixed(42, 20),
    Fixed(49, 3), Counted(55), Counted(60), Counted(61), Counted(62), Counted(63),
    Fixed(70, 3), Counted(90), Counted(118), Counted(120), Counted(121), Counted(123),
    Counted(124), Counted(125), Counted(127)>>

\* The parsers.  The one for reversals has no test for bit 118; the one for
\* network messages takes the acquirer's NSU from bit 128.
NetParser ==
  <<Fixed(7, 10), Fixed(11, 6), Fixed(12, 6), Fixed(13, 4), Fixed(19, 3), Fixed(39, 2),
    Fixed(41, 16), Fixed(42, 20), Counted(61), Counted(62), Counted(63),
    Fixed(70, 3), Counted(120), Counted(123), Field(128, 127, 0)>>

FinParserFirst ==
  <<Fixed(3, 6), Fixed(4, 12), Fixed(7, 10), Fixed(11, 6), Fixed(12, 6), Fixed(13, 4),
    Fixed(19, 3), Fixed(22, 3), Fixed(23, 3), Fixed(38, 6), Fixed(39, 2), Fixed(41, 16),
    Fixed(42, 20), Fixed(49, 3), Fixed(52, 16), Counted(55), Counted(60), Counted(61),
    Counted(62), Counted(63)>>

\* Mutant: DE118 read as the structure's comment has it, with a length.
FinParserSecond_Commented ==
  <<Fixed(67, 2), Fixed(70, 3), Counted(90), Counted(118), Counted(120), Counted(121),
    Counted(123), Counted(124), Counted(125), Counted(127)>>

FinParserSecond ==
  <<Fixed(67, 2), Fixed(70, 3), Counted(90), Fixed(118, 2), Counted(120), Counted(121),
    Counted(123), Counted(124), Counted(125), Counted(127)>>

RevParserFirst ==
  <<Fixed(3, 6), Fixed(4, 12), Fixed(7, 10), Fixed(11, 6), Fixed(12, 6), Fixed(13, 4),
    Fixed(22, 3), Fixed(23, 3), Fixed(38, 6), Fixed(39, 2), Fixed(41, 16), Fixed(42, 20),
    Fixed(49, 3), Counted(55), Counted(60), Counted(61), Counted(62), Counted(63)>>

RevParserSecond ==
  <<Fixed(70, 3), Counted(90), Counted(120), Counted(121), Counted(123), Counted(124),
    Counted(125), Counted(127)>>

\* The makers.  DE38 of a purchase or a reversal comes from the member of DE23.
\* Mutant: the local time before the NSU.
NetMaker_Swapped ==
  <<Fixed(7, 10), Fixed(12, 6), Fixed(11, 6), Fixed(13, 4), Fixed(19, 3), Fixed(39, 2),
    Fixed(41, 16), Fixed(42, 20), Counted(61), Counted(62), Counted(63),
    Fixed(70, 3), Counted(120), Counted(123), Counted(127)>>

NetMaker ==
  <<Fixed(7, 10), Fixed(11, 6), Fixed(12, 6), Fixed(13, 4), Fixed(19, 3), Fixed(39, 2),
    Fixed(41, 16), Fixed(42, 20), Counted(61), Counted(62), Counted(63),
    Fixed(70, 3), Counted(120), Counted(123), Counted(127)>>

\* Mutant: DE38 from the host NSU.
FinMakerFirst_HostNsu ==
  <<Fixed(3, 6), Fixed(4, 12), Fixed(7, 10), Fixed(11, 6), Fixed(12, 6), Fixed(13, 4),
    Fixed(19, 3), Fixed(22, 3), Fixed(23, 3), Fixed(38, 6), Fixed(39, 2), Fixed(41, 16),
    Fixed(42, 20), Fixed(49, 3), Fixed(52, 16), Counted(55), Counted(60), Counted(61),
    Counted(62), Counted(63)>>

FinMakerFirst ==
  <<Fixed(3, 6), Fixed(4, 12), Fixed(7, 10), Fixed(11, 6), Fixed(12, 6), Fixed(13, 4),
    Fixed(19, 3), Fixed(22, 3), Fixed(23, 3), Field(38, 23, 6), Fixed(39, 2), Fixed(41, 16),
    Fixed(42, 20), Fixed(49, 3), Fixed(52, 16), Counted(55), Counted(60), Counted(61),
    Counted(62), Counted(63)>>

FinMakerSecond ==
  <<Fixed(67, 2), Fixed(70, 3), Counted(90), Fixed(118, 2), Counted(120), Counted(121),
    Counted(123), Counted(124), Counted(125), Counted(127)>>

RevMakerFirst ==
  <<Fixed(3, 6), Fixed(4, 12), Fixed(7, 10), Fixed(11, 6), Fixed(12, 6), Fixed(13, 4),
    Fixed(22, 3), Fixed(23, 3), Field(38, 23, 6), Fixed(39, 2), Fixed(41, 16), Fixed(42, 20),
    Fixed(49, 3), Counted(55), Counted(60), Counted(61), Counted(62), Counted(63)>>

\* Mutant: the acquirer NSU under the bit the network parser reads it from.
RevMakerSecond_Bit128 ==
  <<Fixed(70, 3), Counted(90), Counted(120), Counted(121), Counted(123), Counted(124),
    Counted(125), Field(128, 127, 0)>>

RevMakerSecond ==
  <<Fixed(70, 3), Counted(90), Counted(120), Counted(121), Counted(123), Counted(124),
    Counted(125), Counted(127)>>

Kinds == {"NET", "FIN", "REV"}

Documented(k) ==
  CASE k = "NET" -> NetFormat [] k = "FIN" -> FinFormat [] k = "REV" -> RevFormat

\* What the terminal speaks: as documented, but DE118 has no length.  Two
\* characters are all its array holds, and all test_ism.c sends.
Spoken(table) ==
  [i \in 1 .. Len(table) |-> IF table[i].bit = 118 THEN Fixed(118, 2) ELSE table[i]]

Formats == [k \in Kinds |-> Spoken(Documented(k))]
Format(k) == Formats[k]

Parser(k) ==
  CASE k = "NET" -> NetParser
    [] k = "FIN" -> FinParserFirst \o FinParserSecond
    [] k = "REV" -> RevParserFirst \o RevParserSecond

Maker(k) ==
  CASE k = "NET" -> NetMaker
    [] k = "FIN" -> FinMakerFirst \o FinMakerSecond
    [] k = "REV" -> RevMakerFirst \o RevMakerSecond

\* The members of a kind's structure, and the empty structure.
Members(k) == {f.member : f \in ToSet(Format(k))}
Cleared(k) == [m \in Members(k) |-> <<>>]

CountedMembers == {f.member : f \in {g \in ToSet(Format("FIN")) : g.width = 0}}

-----------------------------------------------------------------------------
(* Writing and reading one field after the other.                          *)

\* A character of the value of field m, and a digit.
Character(by, m, i) == <<by, m, i>>
Digit(d) == <<"digit", d>>
IsDigit(c) == c[1] = "digit"

\* Mutant: strcpy instead of strncpy.
Chars_Unlimited(text, at, n) == SubSeq(text, at, Len(text))

\* At most n characters from a place on: strncpy stops at the text's end.
Chars(text, at, n) == SubSeq(text, at, Min({at + n - 1, Len(text)}))

\* "%03d" and atoi of the characters a length is read from.
Lll(n) == <<Digit(n \div 100), Digit((n \div 10) % 10), Digit(n % 10)>>
Number(cs) ==
  CASE Len(cs) = 0 -> 0
    [] Len(cs) = 1 -> cs[1][2]
    [] Len(cs) = 2 -> 10 * cs[1][2] + cs[2][2]
    [] Len(cs) = 3 -> 100 * cs[1][2] + 10 * cs[2][2] + cs[3][2]

\* A bit is or-ed into one hexadecimal digit of the bitmap.
AddBitToByte(bits, b) == bits \cup {b}

\* The maker adds a field when its member is not empty.  A value shorter than
\* a fixed width is not padded.
AppendField(s, w, f) ==
  LET value == s[f.member] IN
  IF value = <<>>
  THEN w
  ELSE [bits |-> AddBitToByte(w.bits, f.bit),
        text |-> w.text \o IF f.width > 0 THEN Chars(value, 1, f.width)
                           ELSE Lll(Len(value)) \o value]

\* The message after so many fields of a table, and the whole.
Writing(table, bits, s) ==
  LET w[i \in 0 .. Len(table)] ==
        IF i = 0 THEN [bits |-> bits, text |-> <<>>] ELSE AppendField(s, w[i - 1], table[i])
  IN  w

Written(table, bits, s) == Writing(table, bits, s)[Len(table)]

\* Bit 1 says that the bitmap has a second half.
Announced(w) == IF 1 \in w.bits THEN w.bits ELSE w.bits \cap 1 .. 64

\* One field of a parser.  A length read from other characters than digits
\* may be any number: the reader is lost.
Take(w, r, f) ==
  LET size == IF f.width > 0 THEN <<>> ELSE Chars(w.text, r.at, 3)
      from == IF f.width > 0 THEN r.at ELSE r.at + 3
      n == IF f.width > 0 THEN f.width ELSE Number(size)
  IN IF r.lost \/ f.bit \notin Announced(w) THEN r
     ELSE IF \E i \in DOMAIN size : ~IsDigit(size[i]) THEN [r EXCEPT !.lost = TRUE]
     ELSE [r EXCEPT !.at = from + n, !.s[f.member] = Chars(w.text, from, n)]

\* What is read after so many fields of a table, and after all.
Reading(table, k, w) ==
  LET r[i \in 0 .. Len(table)] ==
        IF i = 0 THEN [at |-> 1, s |-> Cleared(k), lost |-> FALSE] ELSE Take(w, r[i - 1], table[i])
  IN  r

Parsed(table, k, w) == Reading(table, k, w)[Len(table)]

-----------------------------------------------------------------------------
(* The handlers: which members of the reply repeat the request's, and      *)
(* which get a value of the ISM's own.                                     *)

Width(k, m, size) ==
  LET f == CHOOSE g \in ToSet(Format(k)) : g.member = m
  IN IF f.width > 0 THEN f.width ELSE size

Value(by, k, m, size) == [i \in 1 .. Width(k, m, size) |-> Character(by, m, i)]

Echoed(k, code) ==
  CASE k = "FIN" -> {3, 4, 11, 12, 13, 19, 22, 41, 42, 49, 61, 63, 120, 123}
    [] k = "REV" -> {3, 4, 11, 12, 13, 22, 41, 42, 49, 61, 63, 120, 123}
    [] k = "NET" -> {11, 12, 13, 41, 42} \cup IF code = 1 THEN {} ELSE {7}

\* The members the ISM fills itself.  What a keep-alive could not read leaves
\* DE120 out; a charge leaves out the tables it has no rows for.
Own(k, code) ==
  CASE k \in {"FIN", "REV"} -> {{7, 38, 39, 55, 62, 124, 127}}
    [] k = "NET" /\ code = 1 -> {{7, 39, 62}}
    [] k = "NET" /\ code = 2 -> {{19, 39, 62, 120}}
    [] k = "NET" /\ code = 3 -> {{19, 39, 62}, {19, 39, 62, 120}}
    [] k = "NET" /\ code = 4 -> {{39, 120}, {39, 62, 120}, {39, 62, 63, 120}}

Answer(k, code, in, own, size) ==
  [m \in Members(k) |->
     CASE m \in own -> Value("ISM", k, m, size)
       [] m \in Echoed(k, code) -> in[m]
       [] OTHER -> <<>>]

-----------------------------------------------------------------------------

\* The fields of the purchase test_ism.c sends.
TestFields == {3, 4, 7, 11, 12, 13, 22, 23, 41, 42, 49, 52, 55, 61, 63, 67, 70, 118, 125}

\* Documented members the terminal does not send: the parser would miss them.
Unread(k) == CASE k = "NET" -> {127} [] k = "REV" -> {118} [] k = "FIN" -> {}

\* The fields of requests: none, up to two, all, all but one, or those of the
\* test; network messages with and without their code.
FieldSets(k) ==
  LET all == Members(k) \ Unread(k)
      few == {{}} \cup {{a, b} : a \in all, b \in all}
      most == {all} \cup {all \ {a} : a \in all}
  IN few \cup most \cup (IF k = "NET" THEN {S \cup {70} : S \in few} ELSE {})
       \cup (IF k = "FIN" THEN {TestFields} ELSE {})

Structure(r) ==
  [m \in Members(r.kind) |->
     IF m \in r.fields THEN Value("terminal", r.kind, m, r.size) ELSE <<>>]

Second(k, ms) == IF \E m \in ms : m > 64 THEN {1} ELSE {}

NoRequest == [kind |-> "FIN", code |-> 0, fields |-> {}, size |-> 1, cut |-> 0]
NoWire == [bits |-> {}, text |-> <<>>]
NothingRead == [at |-> 1, s |-> Cleared("FIN"), lost |-> FALSE]

Init ==
  /\ pc = "idle"
  /\ request = NoRequest
  /\ wire = NoWire
  /\ got = NothingRead
  /\ reply = Cleared("FIN")
  /\ read = NothingRead

\* A terminal writes a request; the ISM takes it with up to MaxCut characters
\* missing at the end.
TerminalSends ==
  /\ pc = "idle"
  /\ \E k \in Kinds, size \in Sizes, cut \in 0 .. MaxCut :
       \E code \in (IF k = "NET" THEN 0 .. 4 ELSE {0}), ms \in FieldSets(k) :
         LET r == [kind |-> k, code |-> code, fields |-> ms, size |-> size, cut |-> cut]
             w == Written(Format(k), Second(k, ms), Structure(r))
         IN /\ cut <= Len(w.text)
            /\ request' = r
            /\ wire' = [w EXCEPT !.text = Chars(@, 1, Len(@) - cut)]
  /\ pc' = "sent"
  /\ UNCHANGED <<got, reply, read>>

IsmParses ==
  /\ pc = "sent"
  /\ got' = Parsed(Parser(request.kind), request.kind, wire)
  /\ pc' = "parsed"
  /\ UNCHANGED <<request, wire, reply, read>>

\* DE70 is compared as a whole with the four codes.
Recognized ==
  /\ request.code \in 1 .. 4
  /\ got.s[70] = Value("terminal", "NET", 70, 3)

IsmAnswers ==
  /\ pc = "parsed"
  /\ request.kind = "NET" => Recognized
  /\ \E own \in Own(request.kind, request.code), size \in Sizes :
       reply' = Answer(request.kind, request.code, got.s, own, size)
  /\ wire' = Written(Maker(request.kind), {1}, reply')
  /\ pc' = "answered"
  /\ UNCHANGED <<request, got, read>>

\* A simulated timeout, or a network message of no known code, for which
\* the answer is a header without a message.
IsmIsSilent ==
  /\ pc = "parsed"
  /\ request.kind = "NET" => ~ Recognized
  /\ pc' = "unanswered"
  /\ UNCHANGED <<request, wire, got, reply, read>>

TerminalReads ==
  /\ pc = "answered"
  /\ read' = Parsed(Format(request.kind), request.kind, wire)
  /\ pc' = "closed"
  /\ UNCHANGED <<request, wire, got, reply>>

TerminalCloses ==
  /\ pc \in {"closed", "unanswered"}
  /\ pc' = "idle"
  /\ request' = NoRequest
  /\ wire' = NoWire
  /\ got' = NothingRead
  /\ reply' = Cleared("FIN")
  /\ read' = NothingRead

Next ==
  \/ TerminalSends
  \/ IsmParses
  \/ IsmAnswers
  \/ IsmIsSilent
  \/ TerminalReads
  \/ TerminalCloses

Spec == Init /\ [][Next]_vars

-----------------------------------------------------------------------------

\* Every member fits the array def_types.h gives it.
Fits(s) ==
  \A m \in DOMAIN s : Len(s[m]) <= (IF m \in CountedMembers THEN 999 ELSE Width(request.kind, m, 0))

\* The state keeps its type: what the parser and the handler write into a
\* structure stays within the arrays of def_types.h.
TypeOK ==
  /\ pc \in {"idle", "sent", "parsed", "answered", "closed", "unanswered"}
  /\ request.kind \in Kinds
  /\ request.fields \subseteq Members(request.kind)
  /\ wire.bits \subseteq 1 .. 128
  /\ Fits(IF pc \in {"idle", "sent"} THEN <<>> ELSE got.s)
  /\ Fits(IF pc \in {"answered", "closed"} THEN reply ELSE <<>>)

\* A request that arrives whole, of any of the fields def_types.h documents,
\* fills the structure with the terminal's values: iso_NetworkParser,
\* iso_FinancialParser and iso_ReversalParser agree with the structures on the
\* order, the bit and the width of every field but DE118 and those of Unread.
\* DE118 they read as test_ism.c sends it, with two characters, and not as it
\* is documented: digits of a length would be taken for the form of payment.
RequestIsUnderstood ==
  pc \notin {"idle", "sent"} /\ request.cut = 0 =>
    ~ got.lost /\ got.s = Structure(request)

\* The field a cut shortens: the last one sent.
LastSent == Max(request.fields)
LastCounted == request.fields # {} /\ LastSent \in CountedMembers

\* A terminal can read every reply by its own format and finds all the handler put
\* into the structure but the host's NSU, which no maker sends.  That holds
\* for a request that lost its end, too, when it ended in a counted field: the
\* parser sets such a member to what is left of it, and the maker counts it
\* again.  (A shortened fixed field would shift all that follows.)
ReplyIsUnderstood ==
  pc = "closed" /\ (request.cut = 0 \/ LastCounted) =>
    ~ read.lost /\ \A m \in DOMAIN reply : read.s[m] = IF m = 38 THEN <<>> ELSE reply[m]

\* What a terminal finds in the fields its reply must repeat ("ME" in the
\* handlers) is what it sent: through its own format, with DE118 as test_ism.c
\* sends it, the parser, the handler and the maker.  Only the field a cut shortened may differ.
EchoesMatch ==
  pc = "closed" /\ (request.cut = 0 \/ LastCounted) =>
    \A m \in Echoed(request.kind, request.code) :
      \/ request.cut > 0 /\ m = LastSent
      \/ read.s[m] = Structure(request)[m]

\* The purchase of test_ism.c is answered with the bitmap it asserts: no
\* DE19, DE120 and DE123, which it did not send, and no DE38.
TestReplyBitmap ==
  (pc = "answered" /\ request.kind = "FIN" /\ request.fields = TestFields /\ request.cut = 0) =>
    wire.bits = {1, 3, 4, 7, 11, 12, 13, 22, 39, 41, 42, 49, 55, 61, 62, 63, 124, 127}
=============================================================================
