----------------------------- MODULE PaymentNet -----------------------------
(***************************************************************************)
(* The way of a message from a terminal to the ISM module and back.  A     *)
(* cm_tcp process per port (CM_TCP/src/cm_tcp.c) gives every connection a  *)
(* thread, which opens a connection of its own to the one ISM process      *)
(* (ISM/src/server.c), forwards what its first recv returned, and sends    *)
(* back what its next recv returns.  The ISM serves one connection after   *)
(* the other, from the queue of its listening socket.  Shell loops start   *)
(* every process again when it ends.                                       *)
(*                                                                         *)
(* Simplifications:                                                        *)
(*  - Messages are their lengths; where a stream is cut is chosen from     *)
(*    Segments (terminal to cm_tcp) and Splits (cm_tcp to ISM), anywhere.  *)
(*    A line end after "ping" or "paynet", which the ISM accepts, is left  *)
(*    out.                                                                 *)
(*  - What the handlers make of a message whose header was cut, of which   *)
(*    they are given the first characters only, is a reply or none.        *)
(*  - A terminal connects once and waits; how long it waits is left out,   *)
(*    like the 10 and 30 seconds the ISM may sleep.                        *)
(*  - What a thread sends when its connection to the ISM breaks (nothing,  *)
(*    or memory nobody meant to send) counts as no answer.                 *)
(***************************************************************************)
EXTENDS Integers, Sequences, FiniteSets

CONSTANTS
  Sessions,     \* connections of terminals
  Ports,        \* a cm_tcp process listens on each
  PortOf,       \* PortOf[s]: the port session s connects to
  Kinds,        \* kinds of messages the terminals send
  MsgLen,       \* length of an ISO message, header included
  Segments,     \* lengths of what the first recv of cm_tcp may return
  Splits,       \* lengths of what one read of the ISM may return
  Backlog,      \* 3: listen(socket_desc, 3)
  FdLimit,      \* descriptors a cm_tcp process may have
  ThreadLimit,  \* threads it may start: none is ever joined
  MaxKills,     \* bound on the processes killed from outside
  NoOne

\* An ISO message: its length in four digits, "#001#", its type, the rest.
HeaderLen == 4
AcquirerLen == 5
TypeLen == 4

\* "none": a connection closed without a message.  "silent": an ISO message
\* whose amount asks for a simulated timeout.
KindsOfMessage == {"iso", "silent", "ping", "paynet", "pingcm", "none"}

ASSUME NetAssumption ==
  /\ IsFiniteSet(Sessions)
  /\ PortOf \in [Sessions -> Ports]
  /\ Kinds \subseteq KindsOfMessage
  /\ MsgLen \in 29 .. 9999  \* header, acquirer, type and a bitmap
  /\ Segments \subseteq 1 .. MsgLen
  /\ Splits \subseteq 1 .. MsgLen
  /\ {Backlog, FdLimit, ThreadLimit, MaxKills} \subseteq Nat
  /\ NoOne \notin Sessions

VARIABLES
  conn,   \* each session: its thread, and the thread's connection to the ISM
  cm,     \* each cm_tcp process
  queue,  \* connections the ISM has not accepted yet
  ism,    \* the ISM process
  kills,  \* processes killed
  hit,    \* ghost: sessions under way when a process they used ended
  most    \* ghost: the most terminals that were connected at one time

vars == <<conn, cm, queue, ism, kills, hit, most>>

Session ==
  [at : {"off", "queued", "orphan", "recv", "connect", "send", "await", "over"},
   kind : KindsOfMessage,
   own  : 0 .. MsgLen,      \* bytes the thread received
   sent : 0 .. MsgLen,      \* bytes it forwarded
   read : 0 .. MsgLen,      \* bytes the ISM has read of them
   first : 0 .. MsgLen,     \* bytes its first read returned
   by   : Sessions \cup {NoOne},  \* ghost: whose message a handler took for it
   reply   : {"none", "answer", "bare", "pong", "captura", "eof"}, \* the ISM's end
   outcome : {"none", "answer", "bare", "pong", "captura", "eof", "pongcm", "cut"}]

Idle(k) == [at |-> "off", kind |-> k, own |-> 0, sent |-> 0, read |-> 0,
            first |-> 0, by |-> NoOne, reply |-> "none", outcome |-> "none"]

Process == [up : BOOLEAN,
            fds : Nat,       \* descriptors of connections
            threads : Nat,   \* threads started
            empties : Nat]   \* ghost: threads that met an empty connection

Fresh == [up |-> TRUE, fds |-> 0, threads |-> 0, empties |-> 0]

Module == [at : {"accept", "read", "more", "sleep", "down"},
           who : Sessions \cup {NoOne},
           size : -HeaderLen .. MsgLen,   \* tamanho: the header's number less 4
           held : 0 .. MsgLen,            \* length of the text in recvMessage
           of : Sessions \cup {NoOne}]    \* ghost: whose text is behind its header

Waiting == [at |-> "accept", who |-> NoOne, size |-> 0, held |-> 0, of |-> NoOne]

Init ==
  /\ \E kind \in [Sessions -> Kinds] : conn = [s \in Sessions |-> Idle(kind[s])]
  /\ cm = [p \in Ports |-> Fresh]
  /\ queue = <<>>
  /\ ism = Waiting
  /\ kills = 0
  /\ hit = {}
  /\ most = 0

Set(s, at) == [conn EXCEPT ![s].at = at]
On(p) == {s \in Sessions : PortOf[s] = p}
Open(s) == conn[s].at \notin {"off", "over"}
OpenSessions == {s \in Sessions : Open(s)}

-----------------------------------------------------------------------------
(* The end of a process closes its connections.                            *)

CmEnds(p) ==
  /\ conn' = [s \in Sessions |->
                IF s \in On(p) /\ Open(s)
                  THEN [conn[s] EXCEPT !.at = "over", !.outcome = "cut"]
                  ELSE conn[s]]
  /\ cm' = [cm EXCEPT ![p] = [Fresh EXCEPT !.up = FALSE]]
  /\ hit' = hit \cup {s \in On(p) : Open(s)}

Accepted == {queue[i] : i \in DOMAIN queue} \cup ({ism.who} \ {NoOne})

IsmEnds ==
  /\ conn' = [s \in Sessions |->
                IF s \in Accepted THEN [conn[s] EXCEPT !.reply = "eof"] ELSE conn[s]]
  /\ queue' = <<>>
  /\ ism' = [Waiting EXCEPT !.at = "down"]
  /\ hit' = hit \cup Accepted

-----------------------------------------------------------------------------
(* cm_tcp: main.                                                           *)

TerminalConnects(s) ==
  /\ conn[s].at = "off"
  /\ cm[PortOf[s]].up
  /\ conn' = Set(s, "queued")
  /\ LET n == Cardinality(OpenSessions) + 1 IN most' = IF n > most THEN n ELSE most
  /\ UNCHANGED <<cm, queue, ism, kills, hit>>

\* At the limit accept returns -1, the loop only logs it and tries again.
\* pthread_create's result is not looked at.
CmAccepts(s) ==
  LET p == PortOf[s] IN
  /\ conn[s].at = "queued"
  /\ cm[p].fds < FdLimit
  /\ \/ /\ cm[p].threads < ThreadLimit
        /\ conn' = Set(s, "recv")
        /\ cm' = [cm EXCEPT ![p].fds = @ + 1, ![p].threads = @ + 1]
     \/ /\ cm[p].threads = ThreadLimit
        /\ conn' = Set(s, "orphan")
        /\ cm' = [cm EXCEPT ![p].fds = @ + 1]
  /\ UNCHANGED <<queue, ism, kills, hit, most>>

-----------------------------------------------------------------------------
(* cm_tcp: handleClient.                                                   *)

Closes(p, n) == cm' = [cm EXCEPT ![p].fds = @ - n]

\* Mutants: the socket of an answered "pingcm" stays open, or close is called
\* for the ISM's connection too, which there is none.
AfterPing_Open == 0
AfterPing_Twice == 2
AfterPing == 1

Length(kind) ==
  CASE kind \in {"iso", "silent"} -> MsgLen
    [] kind = "ping" -> 4
    [] OTHER -> 6

\* The first recv returns the message or a first part of it.
FirstPart(kind) == {Length(kind)} \cup {n \in Segments : n < Length(kind)}

ReceivePing(s) ==
  /\ conn[s].at = "recv" /\ conn[s].kind = "pingcm"
  /\ conn' = [conn EXCEPT ![s].at = "over", ![s].outcome = "pongcm"]
  /\ Closes(PortOf[s], AfterPing)
  /\ UNCHANGED <<queue, ism, kills, hit, most>>

\* recv returns 0: the thread ends without closing its socket.
ReceiveNothing(s) ==
  /\ conn[s].at = "recv" /\ conn[s].kind = "none"
  /\ conn' = Set(s, "over")
  /\ cm' = [cm EXCEPT ![PortOf[s]].empties = @ + 1]
  /\ UNCHANGED <<queue, ism, kills, hit, most>>

\* A part of "pingcm" is forwarded like anything else.
ReceiveMessage(s) ==
  /\ conn[s].at = "recv" /\ conn[s].kind # "none"
  /\ \E n \in FirstPart(conn[s].kind) :
       /\ conn[s].kind = "pingcm" => n < Length("pingcm")
       /\ conn' = [conn EXCEPT ![s].at = "connect", ![s].own = n]
  /\ UNCHANGED <<cm, queue, ism, kills, hit, most>>

\* Mutant: one place less.
QueueFull_Early == Len(queue) >= Backlog
QueueFull == Len(queue) > Backlog

ConnectToIsm(s) ==
  /\ conn[s].at = "connect"
  /\ cm[PortOf[s]].fds < FdLimit
  /\ ism.at # "down" /\ ~QueueFull
  /\ conn' = Set(s, "send")
  /\ cm' = [cm EXCEPT ![PortOf[s]].fds = @ + 1]
  /\ queue' = Append(queue, s)
  /\ UNCHANGED <<ism, kills, hit, most>>

\* No descriptor, connection refused, or no answer for two minutes: exit.
ConnectFails(s) ==
  /\ conn[s].at = "connect"
  /\ cm[PortOf[s]].fds = FdLimit \/ ism.at = "down" \/ QueueFull
  /\ CmEnds(PortOf[s])
  /\ UNCHANGED <<queue, ism, kills, most>>

SendMessage(s) ==
  /\ conn[s].at = "send"
  /\ conn' = [conn EXCEPT ![s].at = "await", ![s].sent = conn[s].own]
  /\ UNCHANGED <<cm, queue, ism, kills, hit, most>>

ReturnReply(s) ==
  /\ conn[s].at = "await" /\ conn[s].reply # "none"
  /\ conn' = [conn EXCEPT ![s].at = "over", ![s].outcome = conn[s].reply]
  /\ Closes(PortOf[s], 2)
  /\ UNCHANGED <<queue, ism, kills, hit, most>>

Thread(s) ==
  \/ ReceivePing(s)
  \/ ReceiveNothing(s)
  \/ ReceiveMessage(s)
  \/ ConnectToIsm(s)
  \/ ConnectFails(s)
  \/ SendMessage(s)
  \/ ReturnReply(s)

-----------------------------------------------------------------------------
(* ISM: main.                                                              *)

IsmAccepts ==
  /\ ism.at = "accept" /\ queue # <<>>
  /\ ism' = [ism EXCEPT !.at = "read", !.who = Head(queue)]
  /\ queue' = Tail(queue)
  /\ UNCHANGED <<conn, cm, kills, hit, most>>

Serving == conn[ism.who]
InFlight == Serving.sent - Serving.read
\* The thread's process is gone, and with it what it had not sent yet.
PeerClosed == Serving.at = "over"

\* One read returns all that is in flight, or a part of it.
Reads == {InFlight} \cup {n \in Splits : n < InFlight}

\* What the first digits of the text say, as far as the first read has them.
Header(kind, n) ==
  CASE n = 0 \/ kind \notin {"iso", "silent"} -> 0
    [] n = 1 -> MsgLen \div 1000
    [] n = 2 -> MsgLen \div 100
    [] n = 3 -> MsgLen \div 10
    [] OTHER -> MsgLen

\* Mutant: the length is taken for that of the text behind the header.
Needed_Longer(kind, n) == Header(kind, n)
Needed(kind, n) == Header(kind, n) - HeaderLen

Served(c) == conn' = [conn EXCEPT ![ism.who] = c]
Finished == ism' = [ism EXCEPT !.at = "accept", !.who = NoOne]

Answers(r) == Served([Serving EXCEPT !.reply = r]) /\ Finished

\* recvMessage, which is never cleared, after n bytes of the connection: less
\* than a header leaves what an earlier message put behind it.
Stores(n) == IF n < HeaderLen THEN ism ELSE [ism EXCEPT !.held = n, !.of = ism.who]

\* The text's length alone tells "ping" and "paynet" from an ISO message.  A
\* connection that ended without a message gives the empty text.
IsmReads ==
  /\ ism.at = "read" /\ (InFlight > 0 \/ PeerClosed)
  /\ \E n \in Reads :
       \/ /\ n \in 4 .. 5
          /\ Served([Serving EXCEPT !.read = n, !.first = n, !.reply = "pong"])
          /\ Finished
       \/ /\ n \in 6 .. 7
          /\ Served([Serving EXCEPT !.read = n, !.first = n, !.reply = "captura"])
          /\ Finished
       \/ /\ n \notin 4 .. 7
          /\ Served([Serving EXCEPT !.read = n, !.first = n])
          /\ ism' = [Stores(n) EXCEPT !.at = "more", !.size = Needed(Serving.kind, n)]
  /\ UNCHANGED <<cm, queue, kills, hit, most>>

\* Mutant: what the first read returned is processed at once.
Enough_AtOnce == TRUE
Enough == Serving.read >= ism.size

\* After the end of the stream read returns 0 for ever, and so does the loop.
IsmReadsMore ==
  /\ ism.at = "more" /\ ~Enough /\ InFlight > 0
  /\ \E n \in Reads :
       /\ Served([Serving EXCEPT !.read = @ + n])
       /\ ism' = Stores(Serving.read + n)
  /\ UNCHANGED <<cm, queue, kills, hit, most>>

\* Mutant: the result of an earlier message is kept.
IsSilent_Kept == \E s \in Sessions : conn[s].kind = "silent" /\ conn[s].read > 0
IsSilent == Serving.kind = "silent"

HasAcquirer == ism.held >= HeaderLen + AcquirerLen
HasType == ism.held >= HeaderLen + AcquirerLen + TypeLen

\* No acquirer in recvMessage: no reply, like for a simulated timeout.
IsmRefuses ==
  /\ ~HasAcquirer
  /\ ism' = [ism EXCEPT !.at = "sleep"]
  /\ UNCHANGED <<conn, queue, hit>>

\* An acquirer, but no type: the reply has a header and nothing else.
IsmKnowsNoType ==
  /\ HasAcquirer /\ ~HasType
  /\ Answers("bare")
  /\ UNCHANGED <<queue, hit>>

\* The handler copies a negative number of bytes.
IsmFails ==
  /\ HasType /\ ism.size < AcquirerLen
  /\ IsmEnds

IsmHandles ==
  /\ HasType /\ ism.size >= AcquirerLen
  /\ \/ /\ ~IsSilent \/ Serving.first < HeaderLen
        /\ Served([Serving EXCEPT !.reply = "answer", !.by = ism.of])
        /\ Finished
     \/ /\ IsSilent \/ Serving.first < HeaderLen
        /\ Served([Serving EXCEPT !.by = ism.of])
        /\ ism' = [ism EXCEPT !.at = "sleep"]
  /\ UNCHANGED <<queue, hit>>

IsmProcesses ==
  /\ ism.at = "more" /\ Enough
  /\ IsmRefuses \/ IsmKnowsNoType \/ IsmFails \/ IsmHandles
  /\ UNCHANGED <<cm, kills, most>>

\* Mutant: what sendMessage holds of an earlier reply is sent.
AfterSleep_Sends == "answer"
AfterSleep == "eof"

IsmWakes ==
  /\ ism.at = "sleep"
  /\ Answers(AfterSleep)
  /\ UNCHANGED <<cm, queue, kills, hit, most>>

IsmStep ==
  IsmAccepts \/ IsmReads \/ IsmReadsMore \/ IsmProcesses \/ IsmWakes

-----------------------------------------------------------------------------
(* Kills from outside, and the shell loops.                                *)

KillCm(p) ==
  /\ kills < MaxKills /\ cm[p].up
  /\ kills' = kills + 1
  /\ CmEnds(p)
  /\ UNCHANGED <<queue, ism, most>>

KillIsm ==
  /\ kills < MaxKills /\ ism.at # "down"
  /\ kills' = kills + 1
  /\ IsmEnds
  /\ UNCHANGED <<cm, most>>

CmRestarts(p) ==
  /\ ~cm[p].up
  /\ cm' = [cm EXCEPT ![p].up = TRUE]
  /\ UNCHANGED <<conn, queue, ism, kills, hit, most>>

IsmRestarts ==
  /\ ism.at = "down"
  /\ ism' = Waiting
  /\ UNCHANGED <<conn, cm, queue, kills, hit, most>>

Next ==
  \/ \E s \in Sessions : TerminalConnects(s) \/ CmAccepts(s) \/ Thread(s)
  \/ IsmStep
  \/ \E p \in Ports : KillCm(p) \/ CmRestarts(p)
  \/ KillIsm
  \/ IsmRestarts

Spec == Init /\ [][Next]_vars

\* Threads and processes run, the shell loops restart them, a connected
\* terminal sends its message.  No terminal has to connect.
FairSpec ==
  /\ Spec
  /\ \A s \in Sessions : WF_vars(CmAccepts(s)) /\ WF_vars(Thread(s))
  /\ WF_vars(IsmStep)
  /\ WF_vars(IsmRestarts)
  /\ \A p \in Ports : WF_vars(CmRestarts(p))

-----------------------------------------------------------------------------
(* Properties.                                                             *)

TypeOK ==
  /\ conn \in [Sessions -> Session]
  /\ cm \in [Ports -> Process]
  /\ queue \in Seq(Sessions)
  /\ ism \in Module
  /\ kills \in 0 .. MaxKills
  /\ hit \subseteq Sessions
  /\ most \in Nat

\* The ISM's first read of the session's message did not have its header.
HeaderCut(s) == conn[s].first \in 1 .. HeaderLen - 1

\* A terminal that sent a message is left without an answer only when its
\* message asks for that, when a process it was using ended meanwhile, or when
\* the ISM's first read returned less than the message's header.  Every other
\* cut of the stream, and every limit, leads to an answer or to waiting.
UnansweredHasACause ==
  \A s \in Sessions :
    conn[s].at = "over" /\ conn[s].outcome \in {"eof", "cut"} =>
      conn[s].kind = "silent" \/ s \in hit \/ HeaderCut(s)

ReplyTo(kind) ==
  CASE kind = "iso"    -> "answer"
    [] kind = "ping"   -> "pong"
    [] kind = "paynet" -> "captura"
    [] OTHER           -> "eof"

\* cm_tcp's recv and the ISM's first read returned the whole message.
Whole(s) == conn[s].own = Length(conn[s].kind) /\ conn[s].first = conn[s].own

\* A terminal whose message is read in one piece gets the reply its message
\* asks for or none: never that of another terminal, an earlier one's that is
\* still in the ISM's buffers, or one for a message that asks for none.  (A
\* message in pieces may get any: 4 to 7 bytes of an ISO message are answered
\* as a ping is.)
ReplyOfItsKind ==
  \A s \in Sessions :
    Whole(s) => conn[s].outcome \in {"none", "eof", "cut", ReplyTo(conn[s].kind)}

\* A handler is given the message of the terminal it answers, and never the
\* one an earlier terminal left in recvMessage, however the streams are cut: a
\* first read of less than a header leaves that message where it was, but with
\* a size no handler takes.
HandledForItsSender ==
  \A s \in Sessions : conn[s].by \in {NoOne, s}

\* The sessions whose thread holds the terminal's socket, and those whose
\* thread holds one to the ISM as well.
ClientSockets(p) ==
  {s \in On(p) : conn[s].at \in {"orphan", "recv", "connect", "send", "await"}}
IsmSockets(p) == {s \in On(p) : conn[s].at \in {"send", "await"}}

\* A cm_tcp process holds the descriptors of the sessions it is serving and
\* one more for every connection that was closed without a message: those,
\* and nothing else, are lost until it is started again.
DescriptorsAreAccounted ==
  \A p \in Ports :
    cm[p].fds = Cardinality(ClientSockets(p)) + Cardinality(IsmSockets(p)) + cm[p].empties

\* The connections of a port that were closed without a message.
Emptied(p) == {s \in On(p) : conn[s].at = "over" /\ conn[s].kind = "none"}

\* Nobody killed a process, no message reached the ISM without its header, and
\* there never were more terminals connected at one time than the ISM's queue
\* holds beside one, with two descriptors each beside those that are lost.
WithinLimits ==
  /\ kills = 0
  /\ \A s \in Sessions : ~HeaderCut(s)
  /\ most <= Backlog + 1
  /\ \A p \in Ports : 2 * most + Cardinality(Emptied(p)) <= FdLimit

\* Within these limits no process ends, however many terminals come and go:
\* cm_tcp's exit on a connection that fails, which drops every terminal of its
\* port, and the ISM's on a negative size are of no other making.
NobodyEndsUnprovoked ==
  WithinLimits => ism.at # "down" /\ \A p \in Ports : cm[p].up

\* A terminal that connected is answered or disconnected, whatever processes
\* were killed: no thread waits for ever for an ISM that waits for it.
SessionsEnd == \A s \in Sessions : Open(s) ~> conn[s].at = "over"

-----------------------------------------------------------------------------
(* What the test programs say.                                             *)

\* test_ism.c asserts that the answer to its ISO message has come when recv
\* returns: a session with an ordinary message ends with its answer, unless
\* a process was killed.
IsoIsAnswered ==
  \A s \in Sessions :
    Open(s) /\ conn[s].kind = "iso" ~> conn[s].outcome = "answer" \/ s \in hit

\* test_cm_tcp.c asserts that "pingcm" is answered with "pongcm".
PingIsAnswered ==
  \A s \in Sessions :
    Open(s) /\ conn[s].kind = "pingcm" ~> conn[s].outcome = "pongcm" \/ s \in hit
=============================================================================
