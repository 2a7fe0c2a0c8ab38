------------------------- MODULE PaymentNet_proofs -------------------------
(***************************************************************************)
(* Theorems about PaymentNet for every number of terminals and processes,  *)
(* every cut of the messages, every limit and any number of kills.         *)
(***************************************************************************)
EXTENDS PaymentNet, FiniteSetTheorems, TLAPS

-----------------------------------------------------------------------------
(* The inductive invariant.                                                *)

\* TypeOK without the sign of the descriptors, which only their account gives.
Typed ==
  /\ conn \in [Sessions -> Session]
  /\ cm \in [Ports -> [up : BOOLEAN, fds : Int, threads : Nat, empties : Nat]]
  /\ queue \in Seq(Sessions)
  /\ ism \in Module
  /\ kills \in 0 .. MaxKills
  /\ hit \subseteq Sessions
  /\ most \in Nat

InQueue == {queue[i] : i \in DOMAIN queue}

\* A connection is in the queue once, or served.
Lined ==
  /\ \A i, j \in DOMAIN queue : queue[i] = queue[j] => i = j
  /\ ism.who \notin InQueue
  /\ ism.who = NoOne <=> ism.at \in {"accept", "down"}

\* What a thread has forwarded is what it received, and received of its kind.
Sending ==
  \A s \in Sessions :
    /\ conn[s].at \notin {"await", "over"} => conn[s].sent = 0
    /\ conn[s].at \notin {"send", "await", "over"} => conn[s].reply = "none"
    /\ conn[s].at \in {"connect", "send", "await"} => conn[s].own \in FirstPart(conn[s].kind)
    /\ conn[s].sent # 0 => conn[s].sent = conn[s].own /\ conn[s].own \in FirstPart(conn[s].kind)
    /\ conn[s].first <= conn[s].read /\ conn[s].read <= conn[s].sent
    /\ conn[s].at # "over" => conn[s].outcome = "none"
    /\ conn[s].own # 0 => conn[s].kind # "none" /\ (conn[s].kind = "pingcm" => conn[s].own < 6)

\* A connection the ISM has not finished has no reply; its thread waits for
\* one, or its process has ended.
Awaited ==
  /\ \A s \in Accepted :
       /\ conn[s].reply = "none"
       /\ conn[s].at \in {"send", "await", "over"}
       /\ conn[s].at = "over" => s \in hit /\ conn[s].outcome = "cut"
  /\ \A s \in InQueue : conn[s].read = 0
  /\ ism.at = "read" => Serving.read = 0

\* While the ISM m puts a message c together, its size is what c's first read
\* said, and recvMessage holds c and nothing else behind the header.
Reassembles(c, m) ==
  /\ c.first \notin 4 .. 7
  /\ m.size = Needed(c.kind, c.first)
  /\ c.read >= HeaderLen => m.held = c.read /\ m.of = m.who

Reading ==
  ism.at = "more" =>
    Reassembles(Serving, ism) /\ (Serving.first = 0 => ism.who \in hit)

\* An end without an answer has a cause, from the moment the ISM sleeps on it.
Cause(s) == conn[s].kind = "silent" \/ s \in hit \/ HeaderCut(s)

Caused ==
  /\ ism.at = "sleep" => Cause(ism.who)
  /\ \A s \in Sessions :
       conn[s].reply = "eof" \/ conn[s].outcome \in {"eof", "cut"} => Cause(s)

NInv ==
  /\ Typed /\ Lined /\ Sending /\ Awaited /\ Reading /\ Caused
  /\ HandledForItsSender /\ DescriptorsAreAccounted

-----------------------------------------------------------------------------
(* Sessions and the queue.                                                 *)

\* An ISO message has more than the ISM needs to see what it is.
LEMMA Sizes == MsgLen \in Nat /\ MsgLen >= 29
BY NetAssumption

\* What the first recv returns has a length a message may have.
LEMMA PartTyped ==
  ASSUME NEW k \in KindsOfMessage, NEW n \in FirstPart(k)
  PROVE  n \in 1 .. MsgLen /\ n <= Length(k) /\ Length(k) \in 1 .. MsgLen
<1>1. MsgLen \in Nat /\ MsgLen >= 29 /\ \A m \in Segments : m \in 1 .. MsgLen
  BY NetAssumption
<1>2. Length(k) \in 1 .. MsgLen
  BY <1>1 DEF Length
<1>3. CASE n = Length(k)
  BY <1>1, <1>2, <1>3
<1>4. CASE n \in Segments /\ n < Length(k)
  BY <1>1, <1>2, <1>4
<1>5. QED
  BY <1>2, <1>3, <1>4 DEF FirstPart

\* What the ISM takes for the length of a message is not beyond it.
LEMMA NeededTyped ==
  ASSUME NEW k, NEW n \in Nat
  PROVE  Needed(k, n) \in -HeaderLen .. MsgLen
<1>1. MsgLen \in Nat /\ MsgLen >= 29
  BY NetAssumption
<1>2. /\ MsgLen \div 1000 \in 0 .. MsgLen /\ MsgLen \div 100 \in 0 .. MsgLen
      /\ MsgLen \div 10 \in 0 .. MsgLen
  BY <1>1
<1>3. Header(k, n) \in {0, MsgLen \div 1000, MsgLen \div 100, MsgLen \div 10, MsgLen}
  BY DEF Header
<1>4. Header(k, n) \in 0 .. MsgLen
  BY <1>1, <1>2, <1>3
<1>5. QED
  BY <1>1, <1>4 DEF Needed, HeaderLen

\* The connections the ISM has not finished.
LEMMA AcceptedIs ==
  Accepted = InQueue \cup ({ism.who} \ {NoOne})
BY DEF Accepted, InQueue

\* They are of sessions.
LEMMA AcceptedSessions ==
  ASSUME Typed
  PROVE  InQueue \subseteq Sessions /\ Accepted \subseteq Sessions
<1>1. \A i \in DOMAIN queue : queue[i] \in Sessions
  BY DEF Typed
<1>2. ism.who \in Sessions \cup {NoOne}
  BY DEF Typed, Module
<1>3. QED
  BY <1>1, <1>2 DEF InQueue, Accepted

\* A new connection joins at the end.
LEMMA Joins ==
  ASSUME Typed, Lined, NEW s \in Sessions, s \notin InQueue, queue' = Append(queue, s)
  PROVE  /\ InQueue' = InQueue \cup {s}
         /\ \A i, j \in DOMAIN queue' : queue'[i] = queue'[j] => i = j
<1>1. queue \in Seq(Sessions) /\ Len(queue) \in Nat /\ DOMAIN queue = 1 .. Len(queue)
  BY DEF Typed
<1>2. /\ DOMAIN queue' = 1 .. (Len(queue) + 1)
      /\ queue'[Len(queue) + 1] = s
      /\ \A i \in 1 .. Len(queue) : queue'[i] = queue[i]
  BY <1>1
<1>3. \A i \in DOMAIN queue' : i = Len(queue) + 1 \/ i \in DOMAIN queue
  BY <1>1, <1>2
<1>4. InQueue' = InQueue \cup {s}
  BY <1>1, <1>2, <1>3 DEF InQueue
<1>5. \A i \in DOMAIN queue : queue[i] # s
  BY DEF InQueue
<1>6. QED
  BY <1>1, <1>2, <1>3, <1>4, <1>5 DEF Lined

\* The first leaves, and is not in the queue a second time.
LEMMA Leaves ==
  ASSUME Typed, Lined, queue # <<>>, queue' = Tail(queue)
  PROVE  /\ Head(queue) \in InQueue
         /\ InQueue' = InQueue \ {Head(queue)}
         /\ \A i, j \in DOMAIN queue' : queue'[i] = queue'[j] => i = j
<1>1. queue \in Seq(Sessions) /\ Len(queue) \in Nat /\ Len(queue) > 0
      /\ DOMAIN queue = 1 .. Len(queue) /\ Head(queue) = queue[1]
  BY DEF Typed
<1>2. /\ DOMAIN queue' = 1 .. (Len(queue) - 1)
      /\ \A i \in 1 .. (Len(queue) - 1) : queue'[i] = queue[i + 1]
  BY <1>1
<1>3. \A i \in DOMAIN queue : i = 1 \/ i - 1 \in DOMAIN queue'
  BY <1>1, <1>2
<1>4. \A i \in DOMAIN queue' : i + 1 \in DOMAIN queue /\ i + 1 # 1
  BY <1>1, <1>2
<1>5. \A i, j \in DOMAIN queue : queue[i] = queue[j] => i = j
  BY DEF Lined
<1>6. InQueue' = InQueue \ {Head(queue)}
  <2>1. \A i \in DOMAIN queue' : queue'[i] \in InQueue \ {queue[1]}
    BY <1>1, <1>2, <1>4, <1>5 DEF InQueue
  <2>2. ASSUME NEW i \in DOMAIN queue, queue[i] # queue[1] PROVE queue[i] \in InQueue'
    <3>1. i - 1 \in DOMAIN queue' /\ queue'[i - 1] = queue[i]
      BY <1>1, <1>2, <1>3, <2>2
    <3>2. QED
      BY <3>1 DEF InQueue
  <2>3. QED
    BY <1>1, <2>1, <2>2 DEF InQueue
<1>7. \A i, j \in DOMAIN queue' : queue'[i] = queue'[j] => i = j
  BY <1>1, <1>2, <1>4, <1>5
<1>8. queue[1] \in InQueue
  BY <1>1 DEF InQueue
<1>9. QED
  BY <1>1, <1>6, <1>7, <1>8

-----------------------------------------------------------------------------
(* The account of the descriptors.                                         *)

\* The two sets of sockets can be counted.
LEMMA SocketsFinite ==
  ASSUME NEW p \in Ports
  PROVE  /\ IsFiniteSet(ClientSockets(p)) /\ IsFiniteSet(IsmSockets(p))
         /\ Cardinality(ClientSockets(p)) \in Nat /\ Cardinality(IsmSockets(p)) \in Nat
<1>1. ClientSockets(p) \in SUBSET Sessions /\ IsmSockets(p) \in SUBSET Sessions
  BY DEF ClientSockets, IsmSockets, On
<1>2. IsFiniteSet(ClientSockets(p)) /\ IsFiniteSet(IsmSockets(p))
  BY <1>1, FS_Subset, NetAssumption
<1>3. QED
  BY <1>2, FS_CardinalityType

\* A process whose sessions and counts stay keeps its account.
LEMMA AccountStays ==
  ASSUME DescriptorsAreAccounted, NEW p \in Ports,
         \A t \in On(p) : conn'[t].at = conn[t].at,
         cm'[p].fds = cm[p].fds, cm'[p].empties = cm[p].empties
  PROVE  cm'[p].fds = Cardinality(ClientSockets(p))' + Cardinality(IsmSockets(p))' + cm'[p].empties
<1>1. ClientSockets(p)' = ClientSockets(p) /\ IsmSockets(p)' = IsmSockets(p)
  BY DEF ClientSockets, IsmSockets, On
<1>2. QED
  BY <1>1 DEF DescriptorsAreAccounted

\* What one session does to the account of its process: its two sockets are
\* opened and closed, or one of them is forgotten.
LEMMA AccountOfOne ==
  ASSUME Typed, DescriptorsAreAccounted, NEW s \in Sessions, NEW p \in Ports, p = PortOf[s],
         \A t \in Sessions \ {s} : conn'[t] = conn[t],
         \A q \in Ports \ {p} : cm'[q] = cm[q],
         \/ /\ s \notin ClientSockets(p) /\ s \notin IsmSockets(p)
            /\ conn'[s].at \in {"orphan", "recv"}
            /\ cm'[p].fds = cm[p].fds + 1 /\ cm'[p].empties = cm[p].empties
         \/ /\ s \in ClientSockets(p) /\ s \notin IsmSockets(p)
            /\ conn'[s].at \in {"send", "await"}
            /\ cm'[p].fds = cm[p].fds + 1 /\ cm'[p].empties = cm[p].empties
         \/ /\ s \in ClientSockets(p) /\ s \notin IsmSockets(p)
            /\ conn'[s].at = "over"
            /\ \/ cm'[p].fds = cm[p].fds - 1 /\ cm'[p].empties = cm[p].empties
               \/ cm'[p].fds = cm[p].fds /\ cm'[p].empties = cm[p].empties + 1
         \/ /\ s \in ClientSockets(p) /\ s \in IsmSockets(p)
            /\ conn'[s].at = "over"
            /\ cm'[p].fds = cm[p].fds - 2 /\ cm'[p].empties = cm[p].empties
  PROVE  DescriptorsAreAccounted'
<1>1. ASSUME NEW q \in Ports, q # p
      PROVE  cm'[q].fds = Cardinality(ClientSockets(q))' + Cardinality(IsmSockets(q))' + cm'[q].empties
  <2>1. \A t \in On(q) : conn'[t].at = conn[t].at
    BY <1>1 DEF On
  <2>2. QED
    BY <1>1, <2>1, AccountStays
<1>2. cm'[p].fds = Cardinality(ClientSockets(p))' + Cardinality(IsmSockets(p))' + cm'[p].empties
  <2>1. s \in On(p) /\ \A t \in On(p) : t # s => conn'[t].at = conn[t].at
    BY DEF On
  <2>2. /\ IsFiniteSet(ClientSockets(p)) /\ IsFiniteSet(IsmSockets(p))
        /\ Cardinality(ClientSockets(p)) \in Nat /\ Cardinality(IsmSockets(p)) \in Nat
    BY SocketsFinite
  <2>3. /\ cm[p].fds = Cardinality(ClientSockets(p)) + Cardinality(IsmSockets(p)) + cm[p].empties
        /\ cm[p].fds \in Int /\ cm[p].empties \in Nat
    BY DEF DescriptorsAreAccounted, Typed
  <2>4. /\ Cardinality(ClientSockets(p) \cup {s})
             = IF s \in ClientSockets(p) THEN Cardinality(ClientSockets(p))
                                         ELSE Cardinality(ClientSockets(p)) + 1
        /\ Cardinality(IsmSockets(p) \cup {s})
             = IF s \in IsmSockets(p) THEN Cardinality(IsmSockets(p))
                                      ELSE Cardinality(IsmSockets(p)) + 1
        /\ Cardinality(ClientSockets(p) \ {s})
             = IF s \in ClientSockets(p) THEN Cardinality(ClientSockets(p)) - 1
                                         ELSE Cardinality(ClientSockets(p))
        /\ Cardinality(IsmSockets(p) \ {s})
             = IF s \in IsmSockets(p) THEN Cardinality(IsmSockets(p)) - 1
                                      ELSE Cardinality(IsmSockets(p))
    BY <2>2, FS_AddElement, FS_RemoveElement
  <2>5. CASE s \notin ClientSockets(p) /\ s \notin IsmSockets(p) /\ conn'[s].at \in {"orphan", "recv"}
             /\ cm'[p].fds = cm[p].fds + 1 /\ cm'[p].empties = cm[p].empties
    <3>1. ClientSockets(p)' = ClientSockets(p) \cup {s} /\ IsmSockets(p)' = IsmSockets(p)
      BY <2>1, <2>5 DEF ClientSockets, IsmSockets, On
    <3>2. QED
      BY <2>2, <2>3, <2>4, <2>5, <3>1
  <2>6. CASE s \in ClientSockets(p) /\ s \notin IsmSockets(p) /\ conn'[s].at \in {"send", "await"}
             /\ cm'[p].fds = cm[p].fds + 1 /\ cm'[p].empties = cm[p].empties
    <3>1. ClientSockets(p)' = ClientSockets(p) /\ IsmSockets(p)' = IsmSockets(p) \cup {s}
      BY <2>1, <2>6 DEF ClientSockets, IsmSockets, On
    <3>2. QED
      BY <2>2, <2>3, <2>4, <2>6, <3>1
  <2>7. CASE /\ s \in ClientSockets(p) /\ s \notin IsmSockets(p) /\ conn'[s].at = "over"
             /\ \/ cm'[p].fds = cm[p].fds - 1 /\ cm'[p].empties = cm[p].empties
                \/ cm'[p].fds = cm[p].fds /\ cm'[p].empties = cm[p].empties + 1
    <3>1. ClientSockets(p)' = ClientSockets(p) \ {s} /\ IsmSockets(p)' = IsmSockets(p)
      BY <2>1, <2>7 DEF ClientSockets, IsmSockets, On
    <3>2. QED
      BY <2>2, <2>3, <2>4, <2>7, <3>1
  <2>8. CASE /\ s \in ClientSockets(p) /\ s \in IsmSockets(p) /\ conn'[s].at = "over"
             /\ cm'[p].fds = cm[p].fds - 2 /\ cm'[p].empties = cm[p].empties
    <3>1. ClientSockets(p)' = ClientSockets(p) \ {s} /\ IsmSockets(p)' = IsmSockets(p) \ {s}
      BY <2>1, <2>8 DEF ClientSockets, IsmSockets, On
    <3>2. QED
      BY <2>2, <2>3, <2>4, <2>8, <3>1
  <2>9. QED
    BY <2>5, <2>6, <2>7, <2>8
<1>3. QED
  BY <1>1, <1>2 DEF DescriptorsAreAccounted

\* The account of a process that ended is empty.
LEMMA AccountEnds ==
  ASSUME Typed, DescriptorsAreAccounted, NEW p \in Ports, CmEnds(p)
  PROVE  DescriptorsAreAccounted'
<1>1. \A t \in Sessions : t \in On(p) => conn'[t].at \in {"off", "over"}
  BY DEF CmEnds, Open, Typed, Session
<1>2. \A t \in Sessions : t \notin On(p) => conn'[t] = conn[t]
  BY DEF CmEnds, Typed
<1>3. cm'[p].fds = 0 /\ cm'[p].empties = 0 /\ \A q \in Ports \ {p} : cm'[q] = cm[q]
  BY DEF CmEnds, Typed, Fresh
<1>4. cm'[p].fds = Cardinality(ClientSockets(p))' + Cardinality(IsmSockets(p))' + cm'[p].empties
  <2>1. ClientSockets(p)' = {} /\ IsmSockets(p)' = {}
    BY <1>1 DEF ClientSockets, IsmSockets, On
  <2>2. QED
    BY <1>3, <2>1, FS_EmptySet
<1>5. ASSUME NEW q \in Ports, q # p
      PROVE  cm'[q].fds = Cardinality(ClientSockets(q))' + Cardinality(IsmSockets(q))' + cm'[q].empties
  <2>1. \A t \in On(q) : conn'[t].at = conn[t].at
    BY <1>2, <1>5 DEF On
  <2>2. QED
    BY <1>3, <1>5, <2>1, AccountStays
<1>6. QED
  BY <1>4, <1>5 DEF DescriptorsAreAccounted

-----------------------------------------------------------------------------
(* Steps of cm_tcp.                                                        *)

\* A thread's step, or one of the terminal it serves, seen from the ISM: it
\* moves its own session, which is not at the ISM yet, or forwards, or has
\* its reply.
Moves(s) ==
  /\ UNCHANGED <<queue, ism, hit>>
  /\ \A t \in Sessions \ {s} : conn'[t] = conn[t]
  /\ \A t \in Sessions : /\ conn'[t].kind = conn[t].kind
                         /\ conn'[t].read = conn[t].read
                         /\ conn'[t].reply = conn[t].reply
                         /\ conn'[t].first = conn[t].first /\ conn'[t].by = conn[t].by
  /\ \/ /\ conn[s].at \in {"off", "queued", "recv"}
        /\ conn'[s].at \in {"queued", "orphan", "recv", "connect", "over"}
        /\ conn'[s].sent = conn[s].sent
        /\ \/ conn'[s].at # "connect" /\ conn'[s].own = conn[s].own
           \/ /\ conn'[s].own \in FirstPart(conn[s].kind) /\ conn[s].kind # "none"
              /\ conn[s].kind = "pingcm" => conn'[s].own < 6
        /\ conn'[s].outcome = conn[s].outcome
             \/ (conn'[s].at = "over" /\ conn'[s].outcome = "pongcm" /\ conn[s].kind = "pingcm")
     \/ /\ conn[s].at = "send" /\ conn'[s].at = "await"
        /\ conn'[s].own = conn[s].own /\ conn'[s].sent = conn[s].own
        /\ conn'[s].outcome = conn[s].outcome
     \/ /\ conn[s].at = "await" /\ conn'[s].at = "over" /\ conn[s].reply # "none"
        /\ conn'[s].own = conn[s].own /\ conn'[s].sent = conn[s].sent
        /\ conn'[s].outcome = conn[s].reply

\* Such a step keeps what the ISM, the replies and their causes rely on.
LEMMA MovesKeep ==
  ASSUME NInv, Typed', NEW s \in Sessions, Moves(s)
  PROVE  Lined' /\ Sending' /\ Awaited' /\ Reading' /\ Caused' /\ HandledForItsSender'
<1> USE DEF NInv
<1>1. InQueue' = InQueue /\ Accepted' = Accepted
  BY DEF Moves, InQueue, Accepted
<1>2. Lined'
  BY <1>1 DEF Moves, Lined
<1>3. conn \in [Sessions -> Session] /\ conn' \in [Sessions -> Session]
  BY DEF Typed
<1>4. conn[s].read \in Nat /\ conn[s].sent \in Nat /\ conn[s].own \in Nat /\ conn[s].kind \in KindsOfMessage
  BY <1>3, NetAssumption DEF Session
<1>5. Sending'
  <2>1. ASSUME NEW t \in Sessions, t # s
        PROVE  /\ conn'[t].at \notin {"await", "over"} => conn'[t].sent = 0
               /\ conn'[t].at \notin {"send", "await", "over"} => conn'[t].reply = "none"
               /\ conn'[t].at \in {"connect", "send", "await"} => conn'[t].own \in FirstPart(conn'[t].kind)
               /\ conn'[t].sent # 0 => conn'[t].sent = conn'[t].own /\ conn'[t].own \in FirstPart(conn'[t].kind)
               /\ conn'[t].first <= conn'[t].read /\ conn'[t].read <= conn'[t].sent
               /\ conn'[t].at # "over" => conn'[t].outcome = "none"
               /\ conn'[t].own # 0 =>
                    conn'[t].kind # "none" /\ (conn'[t].kind = "pingcm" => conn'[t].own < 6)
    BY <2>1 DEF Moves, Sending
  <2>2. /\ conn'[s].at \notin {"await", "over"} => conn'[s].sent = 0
        /\ conn'[s].at \notin {"send", "await", "over"} => conn'[s].reply = "none"
        /\ conn'[s].at \in {"connect", "send", "await"} => conn'[s].own \in FirstPart(conn'[s].kind)
        /\ conn'[s].sent # 0 => conn'[s].sent = conn'[s].own /\ conn'[s].own \in FirstPart(conn'[s].kind)
        /\ conn'[s].first <= conn'[s].read /\ conn'[s].read <= conn'[s].sent
        /\ conn'[s].at # "over" => conn'[s].outcome = "none"
        /\ conn'[s].own # 0 =>
             conn'[s].kind # "none" /\ (conn'[s].kind = "pingcm" => conn'[s].own < 6)
    BY <1>4 DEF Moves, Sending
  <2>3. QED
    BY <2>1, <2>2 DEF Sending
<1>6. Awaited'
  <2>1. Accepted \subseteq Sessions /\ InQueue \subseteq Sessions
    BY AcceptedSessions
  <2>2. \A t \in Accepted : /\ conn'[t].reply = "none"
                            /\ conn'[t].at \in {"send", "await", "over"}
                            /\ conn'[t].at = "over" => t \in hit /\ conn'[t].outcome = "cut"
    BY <2>1 DEF Moves, Awaited
  <2>3. \A t \in InQueue : conn'[t].read = 0
    BY <2>1 DEF Moves, Awaited
  <2>4. ism.at = "read" => conn'[ism.who].read = 0
    <3>1. ism.at = "read" => ism.who \in Sessions
      BY DEF Lined, Typed, Module
    <3>2. QED
      BY <3>1 DEF Moves, Awaited, Serving
  <2>5. ism' = ism /\ hit' = hit
    BY DEF Moves
  <2>6. QED
    BY <1>1, <2>2, <2>3, <2>4, <2>5 DEF Awaited, Serving
<1>7. Caused'
  <2>1. ism.at = "sleep" => ism.who \in Sessions
    BY DEF Lined, Typed, Module
  <2>2. ism' = ism /\ hit' = hit
    BY DEF Moves
  <2>3. \A t \in Sessions : conn'[t].reply = "eof" \/ conn'[t].outcome \in {"eof", "cut"} =>
          conn[t].reply = "eof" \/ conn[t].outcome \in {"eof", "cut"}
    <3>1. conn[s].reply # "cut"
      BY <1>3 DEF Session
    <3>2. QED
      BY <3>1 DEF Moves
  <2>4. \A t \in Sessions : Cause(t)' <=> Cause(t)
    BY <2>2 DEF Moves, Cause, HeaderCut
  <2>5. QED
    BY <2>1, <2>2, <2>3, <2>4 DEF Caused
<1>r. Reading'
  <2>1. ism.at = "more" => ism.who \in Sessions
    BY DEF Lined, Typed, Module
  <2>2. ism' = ism /\ hit' = hit
    BY DEF Moves
  <2>3. ism.at = "more" => /\ conn'[ism.who].kind = conn[ism.who].kind
                           /\ conn'[ism.who].first = conn[ism.who].first
                           /\ conn'[ism.who].read = conn[ism.who].read
    BY <2>1 DEF Moves
  <2>4. QED
    BY <2>2, <2>3 DEF Reading, Reassembles, Serving
<1>8. HandledForItsSender'
  BY DEF Moves, HandledForItsSender
<1>9. QED
  BY <1>2, <1>5, <1>6, <1>7, <1>r, <1>8

\* The type survives a step that gives one session a record of its kind.
LEMMA ConnTyped ==
  ASSUME conn \in [Sessions -> Session], NEW s \in Sessions, NEW c \in Session,
         conn' = [conn EXCEPT ![s] = c]
  PROVE  /\ conn' \in [Sessions -> Session] /\ conn'[s] = c
         /\ \A t \in Sessions \ {s} : conn'[t] = conn[t]
OBVIOUS

\* Every step of a thread that meets neither the ISM nor its process's end.
LEMMA ThreadSteps ==
  ASSUME NInv, NEW s \in Sessions,
         \/ TerminalConnects(s) \/ CmAccepts(s)
         \/ ReceivePing(s) \/ ReceiveNothing(s) \/ ReceiveMessage(s)
         \/ SendMessage(s) \/ ReturnReply(s)
  PROVE  NInv'
<1> DEFINE p == PortOf[s]
<1>1. /\ Typed /\ DescriptorsAreAccounted
      /\ conn \in [Sessions -> Session] /\ conn[s] \in Session
      /\ cm \in [Ports -> [up : BOOLEAN, fds : Int, threads : Nat, empties : Nat]]
      /\ p \in Ports /\ s \in On(p)
      /\ cm[p] \in [up : BOOLEAN, fds : Int, threads : Nat, empties : Nat]
      /\ most \in Nat
  BY NetAssumption DEF NInv, Typed, On
<1> HIDE DEF p
<1>2. conn[s].kind \in KindsOfMessage
  BY <1>1 DEF Session
<1>3. ASSUME conn' \in [Sessions -> Session], cm' \in [Ports -> [up : BOOLEAN, fds : Int, threads : Nat, empties : Nat]],
             Moves(s), UNCHANGED kills, most' \in Nat, DescriptorsAreAccounted'
      PROVE  NInv'
  <2>1. Typed'
    BY <1>1, <1>3 DEF Typed, Moves
  <2>2. QED
    BY <1>3, <2>1, MovesKeep DEF NInv
<1>4. CASE TerminalConnects(s)
  <2>1. [conn[s] EXCEPT !.at = "queued"] \in Session
    BY <1>1 DEF Session
  <2>2. conn' = [conn EXCEPT ![s] = [conn[s] EXCEPT !.at = "queued"]]
    BY <1>4 DEF TerminalConnects, Set
  <2>3. conn' \in [Sessions -> Session] /\ \A t \in Sessions \ {s} : conn'[t] = conn[t]
    BY <1>1, <2>1, <2>2, ConnTyped
  <2>4. /\ conn'[s].at = "queued" /\ conn'[s].own = conn[s].own /\ conn'[s].kind = conn[s].kind /\ conn'[s].sent = conn[s].sent
        /\ conn'[s].read = conn[s].read /\ conn'[s].reply = conn[s].reply
        /\ conn'[s].first = conn[s].first /\ conn'[s].by = conn[s].by
        /\ conn'[s].outcome = conn[s].outcome
    BY <1>1, <2>2 DEF Session
  <2>5. Moves(s)
    BY <1>4, <2>3, <2>4 DEF TerminalConnects, Moves
  <2>6. DescriptorsAreAccounted'
    <3>1. ASSUME NEW q \in Ports
          PROVE  ClientSockets(q)' = ClientSockets(q) /\ IsmSockets(q)' = IsmSockets(q)
      BY <1>4, <2>3, <2>4 DEF TerminalConnects, ClientSockets, IsmSockets, On
    <3>2. cm' = cm
      BY <1>4 DEF TerminalConnects
    <3>3. QED
      BY <1>1, <3>1, <3>2 DEF DescriptorsAreAccounted
  <2>7. most' \in Nat
    <3>1. IsFiniteSet(OpenSessions)
      BY FS_Subset, NetAssumption DEF OpenSessions
    <3>2. Cardinality(OpenSessions) \in Nat
      BY <3>1, FS_CardinalityType
    <3>3. QED
      BY <1>1, <1>4, <3>2 DEF TerminalConnects
  <2>8. QED
    BY <1>1, <1>3, <1>4, <2>3, <2>5, <2>6, <2>7 DEF TerminalConnects
<1>5. CASE CmAccepts(s)
  <2>1. PICK at \in {"recv", "orphan"} :
          /\ conn' = [conn EXCEPT ![s] = [conn[s] EXCEPT !.at = at]]
          /\ \/ cm' = [cm EXCEPT ![p].fds = @ + 1, ![p].threads = @ + 1]
             \/ cm' = [cm EXCEPT ![p].fds = @ + 1]
    BY <1>5 DEF CmAccepts, Set, p
  <2>2. [conn[s] EXCEPT !.at = at] \in Session
    BY <1>1 DEF Session
  <2>3. conn' \in [Sessions -> Session] /\ \A t \in Sessions \ {s} : conn'[t] = conn[t]
    BY <1>1, <2>1, <2>2, ConnTyped
  <2>4. /\ conn'[s].at = at /\ conn'[s].own = conn[s].own /\ conn'[s].kind = conn[s].kind /\ conn'[s].sent = conn[s].sent
        /\ conn'[s].read = conn[s].read /\ conn'[s].reply = conn[s].reply
        /\ conn'[s].first = conn[s].first /\ conn'[s].by = conn[s].by
        /\ conn'[s].outcome = conn[s].outcome
    BY <1>1, <2>1 DEF Session
  <2>5. Moves(s)
    BY <1>5, <2>3, <2>4 DEF CmAccepts, Moves
  <2>6. /\ cm' \in [Ports -> [up : BOOLEAN, fds : Int, threads : Nat, empties : Nat]]
        /\ cm'[p].fds = cm[p].fds + 1 /\ cm'[p].empties = cm[p].empties
        /\ \A q \in Ports \ {p} : cm'[q] = cm[q]
    BY <1>1, <2>1
  <2>7. conn[s].at = "queued"
    BY <1>5 DEF CmAccepts
  <2>8. s \notin ClientSockets(p) /\ s \notin IsmSockets(p)
    BY <2>7 DEF ClientSockets, IsmSockets
  <2>9. DescriptorsAreAccounted'
    BY <1>1, <2>3, <2>4, <2>6, <2>8, AccountOfOne DEF p
  <2>10. QED
    BY <1>1, <1>3, <1>5, <2>3, <2>5, <2>6, <2>9 DEF CmAccepts
<1>6. CASE ReceivePing(s)
  <2>1. /\ conn' = [conn EXCEPT ![s] = [conn[s] EXCEPT !.at = "over", !.outcome = "pongcm"]]
        /\ cm' = [cm EXCEPT ![p].fds = @ - 1]
    BY <1>6 DEF ReceivePing, Closes, AfterPing, p
  <2>2. [conn[s] EXCEPT !.at = "over", !.outcome = "pongcm"] \in Session
    BY <1>1 DEF Session
  <2>3. conn' \in [Sessions -> Session] /\ \A t \in Sessions \ {s} : conn'[t] = conn[t]
    BY <1>1, <2>1, <2>2, ConnTyped
  <2>4. /\ conn'[s].at = "over" /\ conn'[s].own = conn[s].own /\ conn'[s].kind = conn[s].kind /\ conn'[s].sent = conn[s].sent
        /\ conn'[s].read = conn[s].read /\ conn'[s].reply = conn[s].reply
        /\ conn'[s].first = conn[s].first /\ conn'[s].by = conn[s].by
        /\ conn'[s].outcome = "pongcm"
    BY <1>1, <2>1 DEF Session
  <2>5. Moves(s)
    BY <1>6, <2>3, <2>4 DEF ReceivePing, Moves
  <2>6. /\ cm' \in [Ports -> [up : BOOLEAN, fds : Int, threads : Nat, empties : Nat]]
        /\ cm'[p].fds = cm[p].fds - 1 /\ cm'[p].empties = cm[p].empties
        /\ \A q \in Ports \ {p} : cm'[q] = cm[q]
    BY <1>1, <2>1
  <2>7. conn[s].at = "recv"
    BY <1>6 DEF ReceivePing
  <2>8. s \in ClientSockets(p) /\ s \notin IsmSockets(p)
    BY <1>1, <2>7 DEF ClientSockets, IsmSockets
  <2>9. DescriptorsAreAccounted'
    BY <1>1, <2>3, <2>4, <2>6, <2>8, AccountOfOne DEF p
  <2>10. QED
    BY <1>1, <1>3, <1>6, <2>3, <2>5, <2>6, <2>9 DEF ReceivePing
<1>7. CASE ReceiveNothing(s)
  <2>1. /\ conn' = [conn EXCEPT ![s] = [conn[s] EXCEPT !.at = "over"]]
        /\ cm' = [cm EXCEPT ![p].empties = @ + 1]
    BY <1>7 DEF ReceiveNothing, Set, p
  <2>2. [conn[s] EXCEPT !.at = "over"] \in Session
    BY <1>1 DEF Session
  <2>3. conn' \in [Sessions -> Session] /\ \A t \in Sessions \ {s} : conn'[t] = conn[t]
    BY <1>1, <2>1, <2>2, ConnTyped
  <2>4. /\ conn'[s].at = "over" /\ conn'[s].own = conn[s].own /\ conn'[s].kind = conn[s].kind /\ conn'[s].sent = conn[s].sent
        /\ conn'[s].read = conn[s].read /\ conn'[s].reply = conn[s].reply
        /\ conn'[s].first = conn[s].first /\ conn'[s].by = conn[s].by
        /\ conn'[s].outcome = conn[s].outcome
    BY <1>1, <2>1 DEF Session
  <2>5. Moves(s)
    BY <1>7, <2>3, <2>4 DEF ReceiveNothing, Moves
  <2>6. /\ cm' \in [Ports -> [up : BOOLEAN, fds : Int, threads : Nat, empties : Nat]]
        /\ cm'[p].fds = cm[p].fds /\ cm'[p].empties = cm[p].empties + 1
        /\ \A q \in Ports \ {p} : cm'[q] = cm[q]
    BY <1>1, <2>1
  <2>7. conn[s].at = "recv"
    BY <1>7 DEF ReceiveNothing
  <2>8. s \in ClientSockets(p) /\ s \notin IsmSockets(p)
    BY <1>1, <2>7 DEF ClientSockets, IsmSockets
  <2>9. DescriptorsAreAccounted'
    BY <1>1, <2>3, <2>4, <2>6, <2>8, AccountOfOne DEF p
  <2>10. QED
    BY <1>1, <1>3, <1>7, <2>3, <2>5, <2>6, <2>9 DEF ReceiveNothing
<1>8. CASE ReceiveMessage(s)
  <2>1. PICK n \in FirstPart(conn[s].kind) :
          /\ conn' = [conn EXCEPT ![s] = [conn[s] EXCEPT !.at = "connect", !.own = n]]
          /\ conn[s].kind # "none" /\ (conn[s].kind = "pingcm" => n < 6)
    BY <1>8 DEF ReceiveMessage, Length
  <2>2. n \in 0 .. MsgLen
    BY <1>2, PartTyped, NetAssumption
  <2>3. [conn[s] EXCEPT !.at = "connect", !.own = n] \in Session
    BY <1>1, <2>2 DEF Session
  <2>4. conn' \in [Sessions -> Session] /\ \A t \in Sessions \ {s} : conn'[t] = conn[t]
    BY <1>1, <2>1, <2>3, ConnTyped
  <2>5. /\ conn'[s].at = "connect" /\ conn'[s].kind = conn[s].kind /\ conn'[s].sent = conn[s].sent
        /\ conn'[s].own = n
        /\ conn'[s].read = conn[s].read /\ conn'[s].reply = conn[s].reply
        /\ conn'[s].first = conn[s].first /\ conn'[s].by = conn[s].by
        /\ conn'[s].outcome = conn[s].outcome
    BY <1>1, <2>1 DEF Session
  <2>6. Moves(s)
    BY <1>8, <2>1, <2>4, <2>5 DEF ReceiveMessage, Moves
  <2>7. DescriptorsAreAccounted'
    <3>1. conn[s].at = "recv" /\ cm' = cm
      BY <1>8 DEF ReceiveMessage
    <3>2. ASSUME NEW q \in Ports
          PROVE  ClientSockets(q)' = ClientSockets(q) /\ IsmSockets(q)' = IsmSockets(q)
      BY <2>4, <2>5, <3>1 DEF ClientSockets, IsmSockets, On
    <3>3. QED
      BY <1>1, <3>1, <3>2 DEF DescriptorsAreAccounted
  <2>8. QED
    BY <1>1, <1>3, <1>8, <2>4, <2>6, <2>7 DEF ReceiveMessage
<1>9. CASE SendMessage(s)
  <2>1. conn' = [conn EXCEPT ![s] = [conn[s] EXCEPT !.at = "await", !.sent = conn[s].own]]
    BY <1>9 DEF SendMessage
  <2>2. [conn[s] EXCEPT !.at = "await", !.sent = conn[s].own] \in Session
    BY <1>1 DEF Session
  <2>3. conn' \in [Sessions -> Session] /\ \A t \in Sessions \ {s} : conn'[t] = conn[t]
    BY <1>1, <2>1, <2>2, ConnTyped
  <2>4. /\ conn'[s].at = "await" /\ conn'[s].kind = conn[s].kind /\ conn'[s].own = conn[s].own
        /\ conn'[s].sent = conn[s].own
        /\ conn'[s].read = conn[s].read /\ conn'[s].reply = conn[s].reply
        /\ conn'[s].first = conn[s].first /\ conn'[s].by = conn[s].by
        /\ conn'[s].outcome = conn[s].outcome
    BY <1>1, <2>1 DEF Session
  <2>5. Moves(s)
    BY <1>9, <2>3, <2>4 DEF SendMessage, Moves
  <2>6. DescriptorsAreAccounted'
    <3>1. conn[s].at = "send" /\ cm' = cm
      BY <1>9 DEF SendMessage
    <3>2. ASSUME NEW q \in Ports
          PROVE  ClientSockets(q)' = ClientSockets(q) /\ IsmSockets(q)' = IsmSockets(q)
      BY <2>3, <2>4, <3>1 DEF ClientSockets, IsmSockets, On
    <3>3. QED
      BY <1>1, <3>1, <3>2 DEF DescriptorsAreAccounted
  <2>7. QED
    BY <1>1, <1>3, <1>9, <2>3, <2>5, <2>6 DEF SendMessage
<1>10. CASE ReturnReply(s)
  <2>1. /\ conn' = [conn EXCEPT ![s] = [conn[s] EXCEPT !.at = "over", !.outcome = conn[s].reply]]
        /\ cm' = [cm EXCEPT ![p].fds = @ - 2]
    BY <1>10 DEF ReturnReply, Closes, p
  <2>2. [conn[s] EXCEPT !.at = "over", !.outcome = conn[s].reply] \in Session
    BY <1>1 DEF Session
  <2>3. conn' \in [Sessions -> Session] /\ \A t \in Sessions \ {s} : conn'[t] = conn[t]
    BY <1>1, <2>1, <2>2, ConnTyped
  <2>4. /\ conn'[s].at = "over" /\ conn'[s].own = conn[s].own /\ conn'[s].kind = conn[s].kind /\ conn'[s].sent = conn[s].sent
        /\ conn'[s].read = conn[s].read /\ conn'[s].reply = conn[s].reply
        /\ conn'[s].first = conn[s].first /\ conn'[s].by = conn[s].by
        /\ conn'[s].outcome = conn[s].reply
    BY <1>1, <2>1 DEF Session
  <2>5. Moves(s)
    BY <1>10, <2>3, <2>4 DEF ReturnReply, Moves
  <2>6. /\ cm' \in [Ports -> [up : BOOLEAN, fds : Int, threads : Nat, empties : Nat]]
        /\ cm'[p].fds = cm[p].fds - 2 /\ cm'[p].empties = cm[p].empties
        /\ \A q \in Ports \ {p} : cm'[q] = cm[q]
    BY <1>1, <2>1
  <2>7. conn[s].at = "await"
    BY <1>10 DEF ReturnReply
  <2>8. s \in ClientSockets(p) /\ s \in IsmSockets(p)
    BY <1>1, <2>7 DEF ClientSockets, IsmSockets
  <2>9. DescriptorsAreAccounted'
    BY <1>1, <2>3, <2>4, <2>6, <2>8, AccountOfOne DEF p
  <2>10. QED
    BY <1>1, <1>3, <1>10, <2>3, <2>5, <2>6, <2>9 DEF ReturnReply
<1>11. QED
  BY <1>4, <1>5, <1>6, <1>7, <1>8, <1>9, <1>10

\* A connection joins the queue: nothing of it was forwarded yet.
LEMMA ConnectKeeps ==
  ASSUME NInv, NEW s \in Sessions, ConnectToIsm(s)
  PROVE  NInv'
<1> DEFINE p == PortOf[s]
<1>1. /\ Typed /\ Lined /\ Sending /\ Awaited /\ Reading /\ Caused
      /\ HandledForItsSender /\ DescriptorsAreAccounted
      /\ conn \in [Sessions -> Session] /\ conn[s] \in Session
      /\ cm \in [Ports -> [up : BOOLEAN, fds : Int, threads : Nat, empties : Nat]]
      /\ p \in Ports /\ s \in On(p)
      /\ cm[p] \in [up : BOOLEAN, fds : Int, threads : Nat, empties : Nat]
  BY NetAssumption DEF NInv, Typed, On
<1> HIDE DEF p
<1>2. conn' = [conn EXCEPT ![s] = [conn[s] EXCEPT !.at = "send"]] /\ conn[s].at = "connect"
  BY DEF ConnectToIsm, Set
<1>a. cm' = [cm EXCEPT ![p].fds = @ + 1]
  BY DEF ConnectToIsm, p
<1>b. queue' = Append(queue, s)
  BY DEF ConnectToIsm
<1>c. ism' = ism /\ kills' = kills /\ hit' = hit /\ most' = most
  BY DEF ConnectToIsm
<1>3. [conn[s] EXCEPT !.at = "send"] \in Session
  BY <1>1 DEF Session
<1>4. conn' \in [Sessions -> Session] /\ \A t \in Sessions \ {s} : conn'[t] = conn[t]
  BY <1>1, <1>2, <1>3, ConnTyped
<1>5. /\ conn'[s].at = "send" /\ conn'[s].kind = conn[s].kind /\ conn'[s].own = conn[s].own
      /\ conn'[s].sent = conn[s].sent
      /\ conn'[s].read = conn[s].read /\ conn'[s].reply = conn[s].reply
      /\ conn'[s].first = conn[s].first /\ conn'[s].by = conn[s].by
      /\ conn'[s].outcome = conn[s].outcome
  BY <1>1, <1>2 DEF Session
<1>6. /\ conn[s].sent = 0 /\ conn[s].read = 0 /\ conn[s].reply = "none"
      /\ conn[s].outcome = "none" /\ conn[s].own \in FirstPart(conn[s].kind)
  <2>1. conn[s].read \in Nat
    BY <1>1 DEF Session
  <2>2. QED
    BY <1>1, <1>2, <2>1 DEF Sending
<1>7. s \notin Accepted /\ s \notin InQueue /\ s # ism.who
  <2>1. s # NoOne
    BY NetAssumption
  <2>2. s \notin Accepted
    BY <1>1, <1>2 DEF Awaited
  <2>3. QED
    BY <2>1, <2>2, AcceptedIs
<1>8. /\ InQueue' = InQueue \cup {s}
      /\ \A i, j \in DOMAIN queue' : queue'[i] = queue'[j] => i = j
  BY <1>1, <1>b, <1>7, Joins
<1>9. Accepted' = Accepted \cup {s}
  BY <1>c, <1>8, <1>1 DEF Accepted, InQueue
<1>10. Typed'
  <2>1. cm' \in [Ports -> [up : BOOLEAN, fds : Int, threads : Nat, empties : Nat]]
    BY <1>1, <1>a
  <2>2. queue' \in Seq(Sessions)
    BY <1>1, <1>b DEF Typed
  <2>3. QED
    BY <1>1, <1>c, <1>4, <2>1, <2>2 DEF Typed
<1>11. Lined'
  BY <1>1, <1>c, <1>7, <1>8 DEF Lined
<1>12. Sending'
  BY <1>1, <1>4, <1>5, <1>6 DEF Sending
<1>13. Awaited'
  <2>1. Accepted \subseteq Sessions /\ InQueue \subseteq Sessions
    BY <1>1, AcceptedSessions
  <2>2. \A t \in Accepted \cup {s} : /\ conn'[t].reply = "none"
                                     /\ conn'[t].at \in {"send", "await", "over"}
                                     /\ conn'[t].at = "over" => t \in hit /\ conn'[t].outcome = "cut"
    BY <1>1, <1>4, <1>5, <1>6, <1>7, <2>1 DEF Awaited
  <2>3. \A t \in InQueue \cup {s} : conn'[t].read = 0
    BY <1>1, <1>4, <1>5, <1>6, <2>1 DEF Awaited
  <2>4. ism.at = "read" => conn'[ism.who].read = 0
    <3>1. ism.at = "read" => ism.who \in Sessions
      BY <1>1 DEF Lined, Typed, Module
    <3>2. QED
      BY <1>1, <1>4, <1>5, <3>1 DEF Awaited, Serving
  <2>5. \A t \in Accepted' : /\ conn'[t].reply = "none"
                             /\ conn'[t].at \in {"send", "await", "over"}
                             /\ conn'[t].at = "over" => t \in hit' /\ conn'[t].outcome = "cut"
    BY <1>c, <1>9, <2>2
  <2>6. \A t \in InQueue' : conn'[t].read = 0
    BY <1>8, <2>3
  <2>7. ism'.at = "read" => conn'[ism'.who].read = 0
    BY <1>c, <2>4
  <2>8. QED
    BY <2>5, <2>6, <2>7 DEF Awaited, Serving
<1>14. Caused'
  <2>1. ism.at = "sleep" => ism.who \in Sessions
    BY <1>1 DEF Lined, Typed, Module
  <2>2. \A t \in Sessions : /\ conn'[t].kind = conn[t].kind
                            /\ conn'[t].reply = conn[t].reply
                            /\ conn'[t].outcome = conn[t].outcome
                            /\ conn'[t].first = conn[t].first
    BY <1>4, <1>5
  <2>3. \A t \in Sessions : Cause(t)' <=> Cause(t)
    BY <1>c, <2>2 DEF Cause, HeaderCut
  <2>4. QED
    BY <1>1, <1>c, <2>1, <2>2, <2>3 DEF Caused
<1>r. Reading'
  <2>1. ism.at = "more" => ism.who \in Sessions \ {s}
    BY <1>1, <1>7 DEF Lined, Typed, Module
  <2>2. QED
    BY <1>1, <1>c, <1>4, <2>1 DEF Reading, Reassembles, Serving
<1>15. HandledForItsSender'
  BY <1>1, <1>4, <1>5 DEF HandledForItsSender
<1>16. DescriptorsAreAccounted'
  <2>1. s \in ClientSockets(p) /\ s \notin IsmSockets(p)
    BY <1>1, <1>2 DEF ClientSockets, IsmSockets
  <2>2. /\ cm'[p].fds = cm[p].fds + 1 /\ cm'[p].empties = cm[p].empties
        /\ \A q \in Ports \ {p} : cm'[q] = cm[q]
    BY <1>1, <1>a
  <2>3. QED
    BY <1>1, <1>4, <1>5, <2>1, <2>2, AccountOfOne DEF p
<1>17. QED
  BY <1>10, <1>11, <1>12, <1>13, <1>14, <1>r, <1>15, <1>16 DEF NInv

\* The end of a process cuts its sessions, and marks each of them.
LEMMA CmEndsKeeps ==
  ASSUME NInv, NEW p \in Ports, CmEnds(p), UNCHANGED <<queue, ism, most>>, kills' \in 0 .. MaxKills
  PROVE  NInv'
<1>1. /\ Typed /\ Lined /\ Sending /\ Awaited /\ Reading /\ Caused
      /\ HandledForItsSender /\ DescriptorsAreAccounted
      /\ conn \in [Sessions -> Session]
  BY DEF NInv, Typed
<1>2. \A t \in Sessions :
        conn'[t] = IF t \in On(p) /\ Open(t)
                     THEN [conn[t] EXCEPT !.at = "over", !.outcome = "cut"] ELSE conn[t]
  BY DEF CmEnds
<1>3. \A t \in Sessions :
        /\ conn'[t] \in Session
        /\ conn'[t].kind = conn[t].kind /\ conn'[t].own = conn[t].own
        /\ conn'[t].sent = conn[t].sent /\ conn'[t].read = conn[t].read
        /\ conn'[t].reply = conn[t].reply /\ conn'[t].first = conn[t].first
        /\ conn'[t].by = conn[t].by
        /\ \/ conn'[t].at = conn[t].at /\ conn'[t].outcome = conn[t].outcome
           \/ conn[t].at # "off" /\ conn'[t].at = "over" /\ conn'[t].outcome = "cut" /\ t \in hit'
  <2>1. SUFFICES ASSUME NEW t \in Sessions
                 PROVE  /\ conn'[t] \in Session
                        /\ conn'[t].kind = conn[t].kind /\ conn'[t].own = conn[t].own
                        /\ conn'[t].sent = conn[t].sent /\ conn'[t].read = conn[t].read
                        /\ conn'[t].reply = conn[t].reply /\ conn'[t].first = conn[t].first
                        /\ conn'[t].by = conn[t].by
                        /\ \/ conn'[t].at = conn[t].at /\ conn'[t].outcome = conn[t].outcome
                           \/ conn[t].at # "off" /\ conn'[t].at = "over" /\ conn'[t].outcome = "cut" /\ t \in hit'
    OBVIOUS
  <2>2. conn[t] \in Session
    BY <1>1
  <2>3. CASE t \in On(p) /\ Open(t)
    <3>1. conn'[t] = [conn[t] EXCEPT !.at = "over", !.outcome = "cut"]
      BY <1>2, <2>3
    <3>2. t \in hit' /\ conn[t].at # "off"
      BY <2>3 DEF CmEnds, Open
    <3>3. QED
      BY <2>2, <3>1, <3>2 DEF Session
  <2>4. CASE ~(t \in On(p) /\ Open(t))
    BY <1>2, <2>2, <2>4
  <2>5. QED
    BY <2>3, <2>4
<1>4. hit \subseteq hit' /\ hit' \subseteq Sessions
  BY <1>1 DEF CmEnds, Typed, On
<1>5. InQueue' = InQueue /\ Accepted' = Accepted
  BY DEF InQueue, Accepted
<1>6. InQueue \subseteq Sessions /\ Accepted \subseteq Sessions
  BY <1>1, AcceptedSessions
<1>7. ism.at \in {"read", "more", "sleep"} => ism.who \in Sessions
  BY <1>1 DEF Lined, Typed, Module
<1>8. Typed'
  <2>1. conn' \in [Sessions -> Session]
    BY <1>3 DEF CmEnds
  <2>2. cm' \in [Ports -> [up : BOOLEAN, fds : Int, threads : Nat, empties : Nat]]
    <3>1. Fresh \in [up : BOOLEAN, fds : Int, threads : Nat, empties : Nat]
      BY DEF Fresh
    <3>2. [Fresh EXCEPT !.up = FALSE] \in [up : BOOLEAN, fds : Int, threads : Nat, empties : Nat]
      BY <3>1
    <3>3. QED
      BY <1>1, <3>2 DEF CmEnds, Typed
  <2>3. QED
    BY <1>1, <1>4, <2>1, <2>2 DEF Typed
<1>9. Lined'
  BY <1>1, <1>5 DEF Lined
<1>10. Sending'
  <2>1. SUFFICES ASSUME NEW t \in Sessions
                 PROVE  /\ conn'[t].at \notin {"await", "over"} => conn'[t].sent = 0
                        /\ conn'[t].at \notin {"send", "await", "over"} => conn'[t].reply = "none"
                        /\ conn'[t].at \in {"connect", "send", "await"} => conn'[t].own \in FirstPart(conn'[t].kind)
                        /\ conn'[t].sent # 0 => conn'[t].sent = conn'[t].own /\ conn'[t].own \in FirstPart(conn'[t].kind)
                        /\ conn'[t].first <= conn'[t].read /\ conn'[t].read <= conn'[t].sent
                        /\ conn'[t].at # "over" => conn'[t].outcome = "none"
                        /\ conn'[t].own # 0 =>
                             conn'[t].kind # "none" /\ (conn'[t].kind = "pingcm" => conn'[t].own < 6)
    BY DEF Sending
  <2>2. QED
    BY <1>1, <1>3 DEF Sending
<1>11. Awaited'
  BY <1>1, <1>3, <1>4, <1>5, <1>6, <1>7 DEF Awaited, Serving
<1>12. Caused'
  <2>1. \A t \in Sessions : Cause(t) => Cause(t)'
    BY <1>3, <1>4 DEF Cause, HeaderCut
  <2>2. \A t \in Sessions : conn'[t].outcome = "cut" => conn[t].outcome = "cut" \/ t \in hit'
    BY <1>3
  <2>3. QED
    BY <1>1, <1>3, <1>7, <2>1, <2>2 DEF Caused, Cause
<1>r. Reading'
  <2>1. ism.at = "more" => /\ conn'[ism.who].kind = conn[ism.who].kind
                           /\ conn'[ism.who].first = conn[ism.who].first
                           /\ conn'[ism.who].read = conn[ism.who].read
    BY <1>3, <1>7
  <2>2. QED
    BY <1>1, <1>4, <2>1 DEF Reading, Reassembles, Serving
<1>13. HandledForItsSender'
  BY <1>1, <1>3 DEF HandledForItsSender
<1>14. DescriptorsAreAccounted'
  BY <1>1, AccountEnds
<1>15. QED
  BY <1>8, <1>9, <1>10, <1>11, <1>12, <1>r, <1>13, <1>14 DEF NInv

-----------------------------------------------------------------------------
(* Steps of the ISM.                                                       *)

\* What the ISM does with the connection it serves: it reads from it, and
\* goes on, sleeps, or replies and comes back to its queue.
Serves(w) ==
  /\ w = ism.who
  /\ UNCHANGED <<cm, queue, kills, hit, most>>
  /\ w \in Sessions /\ ism.at \notin {"accept", "down"}
  /\ \A t \in Sessions \ {w} : conn'[t] = conn[t]
  /\ conn'[w].at = conn[w].at /\ conn'[w].kind = conn[w].kind
  /\ conn'[w].own = conn[w].own /\ conn'[w].sent = conn[w].sent
  /\ conn'[w].outcome = conn[w].outcome
  /\ conn'[w].first <= conn'[w].read /\ conn'[w].read <= conn[w].sent
  /\ conn'[w].by \in {NoOne, w}
  /\ \/ /\ ism'.at = "accept" /\ ism'.who = NoOne
        /\ conn'[w].reply # "none"
        /\ conn'[w].reply = "eof" => Cause(w)'
     \/ /\ ism'.at \in {"more", "sleep"} /\ ism'.who = w
        /\ conn'[w].reply = conn[w].reply
        /\ ism'.at = "sleep" => Cause(w)'
        /\ ism'.at = "more" =>
             Reassembles(conn'[w], ism') /\ (conn'[w].first = 0 => w \in hit)

\* Such a step keeps what everybody relies on.
LEMMA ServesKeeps ==
  ASSUME NInv, conn' \in [Sessions -> Session], ism' \in Module,
         NEW w \in Sessions, Serves(w)
  PROVE  NInv'
<1>1. /\ Typed /\ Lined /\ Sending /\ Awaited /\ Reading /\ Caused
      /\ HandledForItsSender /\ DescriptorsAreAccounted
  BY DEF NInv
<1>2. w \in Sessions /\ w # NoOne /\ w \in Accepted /\ w \notin InQueue
  BY <1>1, NetAssumption, AcceptedIs DEF Serves, Lined
<1>3. conn \in [Sessions -> Session]
  BY <1>1 DEF Typed
<1>4. conn[w].reply = "none" /\ conn[w].at \in {"send", "await", "over"}
      /\ (conn[w].at = "over" => w \in hit /\ conn[w].outcome = "cut")
  BY <1>1, <1>2 DEF Awaited
<1>5. InQueue \subseteq Sessions /\ InQueue' = InQueue /\ Accepted \subseteq Sessions
  BY <1>1, AcceptedSessions DEF Serves, InQueue
<1>6. Accepted' \subseteq Accepted /\ (ism'.who = NoOne => w \notin Accepted')
  BY <1>2, <1>5 DEF Serves, Accepted, InQueue
<1>7. UNCHANGED <<cm, queue, kills, hit, most>>
  BY DEF Serves
<1>8. Typed'
  BY <1>1, <1>7 DEF Typed
<1>9. Lined'
  <2>1. ism'.who \notin InQueue
    BY <1>2, <1>5, NetAssumption DEF Serves
  <2>2. ism'.who = NoOne <=> ism'.at \in {"accept", "down"}
    BY <1>2 DEF Serves
  <2>3. QED
    BY <1>1, <1>5, <1>7, <2>1, <2>2 DEF Lined
<1>10. Sending'
  BY <1>1, <1>2, <1>4 DEF Sending, Serves
<1>11. Awaited'
  <2>1. \A t \in Accepted' : /\ conn'[t].reply = "none"
                             /\ conn'[t].at \in {"send", "await", "over"}
                             /\ conn'[t].at = "over" => t \in hit /\ conn'[t].outcome = "cut"
    <3>1. ASSUME NEW t \in Accepted', t # w
          PROVE  /\ conn'[t].reply = "none"
                 /\ conn'[t].at \in {"send", "await", "over"}
                 /\ conn'[t].at = "over" => t \in hit /\ conn'[t].outcome = "cut"
      BY <1>1, <1>5, <1>6, <3>1 DEF Serves, Awaited
    <3>2. w \in Accepted' => /\ conn'[w].reply = "none"
                             /\ conn'[w].at \in {"send", "await", "over"}
                             /\ conn'[w].at = "over" => w \in hit /\ conn'[w].outcome = "cut"
      BY <1>4, <1>6 DEF Serves
    <3>3. QED
      BY <3>1, <3>2
  <2>2. \A t \in InQueue' : conn'[t].read = 0
    BY <1>1, <1>2, <1>5 DEF Serves, Awaited
  <2>3. ism'.at # "read"
    BY DEF Serves
  <2>4. QED
    BY <1>7, <2>1, <2>2, <2>3 DEF Awaited
<1>12. Caused'
  <2>1. \A t \in Sessions \ {w} : Cause(t)' <=> Cause(t)
    BY <1>7 DEF Serves, Cause, HeaderCut
  <2>2. conn'[w].outcome = "none" \/ conn[w].at = "over"
    BY <1>1, <1>2 DEF Serves, Sending
  <2>3. conn[w].at = "over" => Cause(w)'
    BY <1>4, <1>7 DEF Cause
  <2>4. conn'[w].reply = "eof" => Cause(w)'
    BY <1>4 DEF Serves
  <2>5. \A t \in Sessions : conn'[t].reply = "eof" \/ conn'[t].outcome \in {"eof", "cut"} => Cause(t)'
    <3>1. ASSUME NEW t \in Sessions, t # w
          PROVE  conn'[t].reply = "eof" \/ conn'[t].outcome \in {"eof", "cut"} => Cause(t)'
      BY <1>1, <2>1, <3>1 DEF Serves, Caused
    <3>2. QED
      BY <2>2, <2>3, <2>4, <3>1
  <2>6. ism'.at = "sleep" => ism'.who = w /\ Cause(w)'
    BY DEF Serves
  <2>7. ism'.at = "sleep" => Cause(ism.who)'
    BY <2>6
  <2>8. QED
    BY <2>5, <2>7 DEF Caused
<1>r. Reading'
  BY <1>7 DEF Serves, Reading, Serving
<1>13. HandledForItsSender'
  BY <1>1, <1>4 DEF Serves, HandledForItsSender
<1>14. DescriptorsAreAccounted'
  <2>1. ASSUME NEW q \in Ports
        PROVE  ClientSockets(q)' = ClientSockets(q) /\ IsmSockets(q)' = IsmSockets(q)
    BY DEF Serves, ClientSockets, IsmSockets, On
  <2>2. QED
    BY <1>1, <1>7, <2>1 DEF DescriptorsAreAccounted
<1>15. QED
  BY <1>8, <1>9, <1>10, <1>11, <1>12, <1>r, <1>13, <1>14 DEF NInv

\* The first of the queue is the one served; nothing was read of it.
LEMMA AcceptKeeps == ASSUME NInv, IsmAccepts PROVE NInv'
<1> DEFINE w == Head(queue)
<1>1. /\ Typed /\ Lined /\ Sending /\ Awaited /\ Reading /\ Caused
      /\ HandledForItsSender /\ DescriptorsAreAccounted
  BY DEF NInv
<1>2. queue # <<>> /\ queue' = Tail(queue) /\ ism.at = "accept"
  BY DEF IsmAccepts
<1>3. /\ w \in InQueue /\ InQueue' = InQueue \ {w}
      /\ \A i, j \in DOMAIN queue' : queue'[i] = queue'[j] => i = j
  BY <1>1, <1>2, Leaves
<1>4. InQueue \subseteq Sessions
  BY <1>1, AcceptedSessions
<1> HIDE DEF w
<1>5. ism' = [ism EXCEPT !.at = "read", !.who = w]
  BY DEF IsmAccepts, w
<1>6. ism' \in Module /\ ism'.at = "read" /\ ism'.who = w
  BY <1>1, <1>3, <1>4, <1>5 DEF Typed, Module
<1>7. conn' = conn /\ cm' = cm /\ kills' = kills /\ hit' = hit /\ most' = most
  BY DEF IsmAccepts
<1>8. Accepted' \subseteq Accepted
  BY <1>3, <1>6 DEF Accepted, InQueue
<1>9. Typed'
  <2>1. queue' \in Seq(Sessions)
    BY <1>1, <1>2 DEF Typed
  <2>2. QED
    BY <1>1, <1>6, <1>7, <2>1 DEF Typed
<1>10. Lined'
  BY <1>1, <1>3, <1>4, <1>6, NetAssumption DEF Lined
<1>11. Sending' /\ HandledForItsSender'
  BY <1>1, <1>7 DEF Sending, HandledForItsSender
<1>12. Awaited'
  <2>1. /\ \A t \in Accepted' : /\ conn[t].reply = "none"
                                /\ conn[t].at \in {"send", "await", "over"}
                                /\ conn[t].at = "over" => t \in hit /\ conn[t].outcome = "cut"
        /\ \A t \in InQueue' : conn[t].read = 0
        /\ conn[w].read = 0
    BY <1>1, <1>3, <1>8 DEF Awaited
  <2>2. QED
    BY <1>6, <1>7, <2>1 DEF Awaited, Serving
<1>13. Caused'
  <2>1. \A t \in Sessions : Cause(t)' <=> Cause(t)
    BY <1>7 DEF Cause, HeaderCut
  <2>2. QED
    BY <1>1, <1>6, <1>7, <2>1 DEF Caused
<1>r. Reading'
  BY <1>6 DEF Reading
<1>14. DescriptorsAreAccounted'
  BY <1>1, <1>7 DEF DescriptorsAreAccounted, ClientSockets, IsmSockets
<1>15. QED
  BY <1>9, <1>10, <1>11, <1>12, <1>13, <1>r, <1>14 DEF NInv

\* What the ISM puts together is an ISO message with its header, or one whose
\* header was cut, or the nothing a process left that has ended.
LEMMA MoreIs ==
  ASSUME NInv, ism.at = "more"
  PROVE  \/ Serving.first = 0 /\ ism.who \in hit /\ ism.size = -4
         \/ Serving.first \in 1 .. 3
         \/ /\ Serving.kind \in {"iso", "silent"} /\ Serving.first >= 8
            /\ ism.size = MsgLen - 4
<1>1. ism.who \in Sessions /\ Reassembles(Serving, ism) /\ Serving \in Session
      /\ (Serving.first = 0 => ism.who \in hit)
  BY DEF NInv, Typed, Lined, Reading, Module, Serving
<1>2. /\ Serving.first \in Nat /\ Serving.read \in Nat /\ Serving.sent \in Nat
      /\ Serving.first <= Serving.read /\ Serving.read <= Serving.sent
      /\ Serving.kind \in KindsOfMessage /\ Serving.first \notin 4 .. 7
      /\ ism.size = Needed(Serving.kind, Serving.first)
      /\ (Serving.sent # 0 => Serving.sent \in FirstPart(Serving.kind))
      /\ MsgLen \in 29 .. 9999
  BY <1>1, NetAssumption DEF NInv, Sending, Reassembles, Session, Serving
<1>3. CASE Serving.first = 0
  <2>1. Header(Serving.kind, 0) = 0
    BY DEF Header
  <2>2. QED
    BY <1>1, <1>2, <1>3, <2>1 DEF Needed, HeaderLen
<1>4. CASE Serving.first >= 8
  <2>1. Serving.sent # 0 /\ Serving.sent >= 8
    BY <1>2, <1>4
  <2>a. Serving.sent <= Length(Serving.kind) /\ Length(Serving.kind) \in 1 .. MsgLen
    BY <1>2, <2>1, PartTyped
  <2>2. Serving.kind \in {"iso", "silent"}
    <3>1. Length(Serving.kind) >= 8
      BY <1>2, <2>1, <2>a
    <3>2. QED
      BY <3>1 DEF Length
  <2>3. Header(Serving.kind, Serving.first) = MsgLen
    BY <1>2, <1>4, <2>2 DEF Header
  <2>4. QED
    BY <1>2, <1>4, <2>2, <2>3 DEF Needed, HeaderLen
<1>5. QED
  BY <1>2, <1>3, <1>4, SMTT(40)

\* A session's record after a step of the ISM: the ISM changes what it read of
\* the session, its reply, and whose message it handled.
Kept(d, c) ==
  /\ d \in Session
  /\ d.at = c.at /\ d.kind = c.kind /\ d.own = c.own /\ d.sent = c.sent
  /\ d.outcome = c.outcome

Replies == {"none", "answer", "bare", "pong", "captura", "eof"}

AtFirst(c, n, r) == [c EXCEPT !.read = n, !.first = n, !.reply = r]

LEMMA KeptAtFirst ==
  ASSUME NEW c \in Session, NEW n \in 0 .. MsgLen, NEW r \in Replies
  PROVE  LET d == AtFirst(c, n, r) IN
         Kept(d, c) /\ d.read = n /\ d.first = n /\ d.reply = r /\ d.by = c.by
BY DEF Session, Kept, Replies, AtFirst

LEMMA KeptUnanswered ==
  ASSUME NEW c \in Session, NEW n \in 0 .. MsgLen
  PROVE  LET d == [c EXCEPT !.read = n, !.first = n] IN
         Kept(d, c) /\ d.read = n /\ d.first = n /\ d.reply = c.reply /\ d.by = c.by
BY DEF Session, Kept

LEMMA KeptLater ==
  ASSUME NEW c \in Session, NEW n \in 0 .. MsgLen
  PROVE  LET d == [c EXCEPT !.read = n] IN
         Kept(d, c) /\ d.read = n /\ d.first = c.first /\ d.reply = c.reply /\ d.by = c.by
BY DEF Session, Kept

LEMMA KeptReplied ==
  ASSUME NEW c \in Session, NEW r \in Replies
  PROVE  LET d == [c EXCEPT !.reply = r] IN
         Kept(d, c) /\ d.read = c.read /\ d.first = c.first /\ d.reply = r /\ d.by = c.by
BY DEF Session, Kept, Replies

WithReply(c, r, b) == [c EXCEPT !.reply = r, !.by = b]

LEMMA KeptHandled ==
  ASSUME NEW c \in Session, NEW r \in Replies, NEW b \in Sessions \cup {NoOne}
  PROVE  LET d == WithReply(c, r, b) IN
         Kept(d, c) /\ d.read = c.read /\ d.first = c.first /\ d.reply = r /\ d.by = b
BY DEF Session, Kept, Replies, WithReply

LEMMA KeptGivenUp ==
  ASSUME NEW c \in Session, NEW b \in Sessions \cup {NoOne}
  PROVE  LET d == [c EXCEPT !.by = b] IN
         Kept(d, c) /\ d.read = c.read /\ d.first = c.first /\ d.reply = c.reply /\ d.by = b
BY DEF Session, Kept

\* Why the ISM may leave a record without an answer.
Excused(c, w) == c.kind = "silent" \/ w \in hit \/ c.first \in 1 .. 3

\* A step that changes the record of the session served and nothing else.
LEMMA ServedKeeps ==
  ASSUME NInv, NEW w \in Sessions, w = ism.who, ism.at \notin {"accept", "down"},
         NEW c, Kept(c, conn[w]), Served(c), ism' \in Module,
         UNCHANGED <<cm, queue, kills, hit, most>>,
         c.first <= c.read, c.read <= conn[w].sent, c.by \in {NoOne, w},
         \/ /\ ism'.at = "accept" /\ ism'.who = NoOne /\ c.reply # "none"
            /\ c.reply = "eof" => Excused(c, w)
         \/ /\ ism'.at \in {"more", "sleep"} /\ ism'.who = w /\ c.reply = conn[w].reply
            /\ ism'.at = "sleep" => Excused(c, w)
            /\ ism'.at = "more" => Reassembles(c, ism') /\ (c.first = 0 => w \in hit)
  PROVE  NInv'
<1>1. conn \in [Sessions -> Session] /\ c \in Session /\ conn' = [conn EXCEPT ![w] = c]
  BY DEF NInv, Typed, Kept, Served
<1>2. conn' \in [Sessions -> Session] /\ conn'[w] = c /\ \A t \in Sessions \ {w} : conn'[t] = conn[t]
  BY <1>1, ConnTyped
<1>3. Excused(c, w) => Cause(w)'
  BY <1>2 DEF Excused, Cause, HeaderCut, HeaderLen
<1>4. Serves(w)
  <2>1. /\ conn'[w].at = conn[w].at /\ conn'[w].kind = conn[w].kind
        /\ conn'[w].own = conn[w].own /\ conn'[w].sent = conn[w].sent
        /\ conn'[w].outcome = conn[w].outcome
    BY <1>2 DEF Kept
  <2>2. QED
    BY <1>2, <1>3, <2>1 DEF Serves
<1>5. QED
  BY <1>2, <1>4, ServesKeeps

\* The session the ISM serves, and what it may read of it.
LEMMA ServingIs ==
  ASSUME NInv, NEW w \in Sessions, w = ism.who
  PROVE  /\ Serving = conn[w] /\ conn[w] \in Session
         /\ conn[w].reply = "none" /\ (conn[w].at = "over" => w \in hit)
         /\ conn[w].sent \in 0 .. MsgLen /\ conn[w].read \in 0 .. MsgLen
         /\ conn[w].first <= conn[w].read /\ conn[w].read <= conn[w].sent
         /\ conn[w].by \in {NoOne, w} /\ MsgLen \in Nat /\ MsgLen >= 29
         /\ conn[w].first \in 0 .. MsgLen
         /\ \A n \in Reads : /\ conn[w].read + n \in 0 .. MsgLen /\ n \in 0 .. MsgLen
                             /\ conn[w].read + n <= conn[w].sent
                             /\ n = 0 => InFlight = 0
<1>1. w \in Accepted
  <2>1. w # NoOne
    BY NetAssumption
  <2>2. QED
    BY <2>1, AcceptedIs
<1>2. conn[w] \in Session /\ Serving = conn[w]
  BY DEF NInv, Typed, Serving
<1>3. conn[w].reply = "none" /\ (conn[w].at = "over" => w \in hit)
  BY <1>1 DEF NInv, Awaited
<1>4. conn[w].first <= conn[w].read /\ conn[w].read <= conn[w].sent
  BY DEF NInv, Sending
<1>5. conn[w].by \in {NoOne, w}
  BY DEF NInv, HandledForItsSender
<1>6. /\ conn[w].sent \in 0 .. MsgLen /\ conn[w].read \in 0 .. MsgLen
      /\ conn[w].first \in 0 .. MsgLen
  BY <1>2 DEF Session
<1>7. MsgLen \in Nat /\ MsgLen >= 29 /\ \A n \in Splits : n \in Nat /\ n > 0
  BY NetAssumption
<1>8. ASSUME NEW n \in Reads
      PROVE  /\ conn[w].read + n \in 0 .. MsgLen /\ n \in 0 .. MsgLen
             /\ conn[w].read + n <= conn[w].sent
             /\ n = 0 => InFlight = 0
  <2>1. InFlight = conn[w].sent - conn[w].read
    BY <1>2 DEF InFlight
  <2>2. n = InFlight \/ (n \in Splits /\ n < InFlight)
    BY DEF Reads
  <2>3. n \in Nat /\ n <= InFlight /\ (n = 0 => InFlight = 0)
    BY <1>4, <1>6, <1>7, <2>1, <2>2
  <2>4. QED
    BY <1>4, <1>6, <1>7, <2>1, <2>3
<1>9. QED
  BY <1>2, <1>3, <1>4, <1>5, <1>6, <1>7, <1>8

\* The ISM comes back to its queue.
LEMMA FinishedIs ==
  ASSUME Typed, Finished
  PROVE  ism' \in Module /\ ism'.at = "accept" /\ ism'.who = NoOne
BY DEF Typed, Finished, Module

\* What recvMessage holds after n bytes.
LEMMA StoresTyped ==
  ASSUME Typed, NEW w \in Sessions, w = ism.who, NEW n \in 0 .. MsgLen
  PROVE  /\ Stores(n) \in Module /\ Stores(n).at = ism.at
         /\ Stores(n).who = w /\ Stores(n).size = ism.size
         /\ n >= HeaderLen => Stores(n).held = n /\ Stores(n).of = w
<1>1. ism \in Module /\ n \in Int
  BY DEF Typed
<1>2. CASE n < HeaderLen
  BY <1>1, <1>2 DEF Stores, HeaderLen
<1>3. CASE ~(n < HeaderLen)
  <2>1. Stores(n) = [ism EXCEPT !.held = n, !.of = w]
    BY <1>3 DEF Stores
  <2>2. [ism EXCEPT !.held = n, !.of = w] \in Module
    BY <1>1 DEF Module
  <2>3. QED
    BY <1>1, <2>1, <2>2 DEF Module
<1>4. QED
  BY <1>2, <1>3

\* The first read answers a short text, or starts to put a message together.
LEMMA ReadsKeeps ==
  ASSUME NInv, NEW w \in Sessions, w = ism.who, IsmReads
  PROVE  NInv'
<1>1. /\ conn[w] \in Session /\ conn[w].reply = "none" /\ (conn[w].at = "over" => w \in hit)
      /\ conn[w].by \in {NoOne, w} /\ Serving = conn[w]
  BY ServingIs
<1>2. Typed /\ ism.at = "read" /\ UNCHANGED <<cm, queue, kills, hit, most>>
  BY DEF NInv, IsmReads
<1>3. PICK n \in Reads :
        \/ /\ n \in 4 .. 5
           /\ Served([conn[w] EXCEPT !.read = n, !.first = n, !.reply = "pong"])
           /\ Finished
        \/ /\ n \in 6 .. 7
           /\ Served([conn[w] EXCEPT !.read = n, !.first = n, !.reply = "captura"])
           /\ Finished
        \/ /\ n \notin 4 .. 7
           /\ Served([conn[w] EXCEPT !.read = n, !.first = n])
           /\ ism' = [Stores(n) EXCEPT !.at = "more", !.size = Needed(conn[w].kind, n)]
  BY <1>1 DEF IsmReads
<1>4. n \in 0 .. MsgLen /\ n <= conn[w].sent /\ (n = 0 => w \in hit)
  <2>1. conn[w].read = 0
    BY <1>1, <1>2 DEF NInv, Awaited
  <2>2. conn[w].read + n <= conn[w].sent /\ n \in 0 .. MsgLen /\ (n = 0 => InFlight = 0)
    BY ServingIs
  <2>3. InFlight > 0 \/ conn[w].at = "over"
    BY <1>1 DEF IsmReads, PeerClosed
  <2>4. QED
    BY <1>1, <2>1, <2>2, <2>3
<1>5. ASSUME NEW r \in {"pong", "captura"},
             Served([conn[w] EXCEPT !.read = n, !.first = n, !.reply = r]), Finished
      PROVE  NInv'
  <2> DEFINE c == AtFirst(conn[w], n, r)
  <2>a. r \in Replies
    BY DEF Replies
  <2>1. Kept(c, conn[w]) /\ c.read = n /\ c.first = n /\ c.reply = r /\ c.by = conn[w].by
    BY <1>1, <1>4, <2>a, KeptAtFirst
  <2>2. Served(c) /\ r # "eof" /\ r # "none"
    BY <1>5 DEF AtFirst
  <2> HIDE DEF c
  <2>3. ism' \in Module /\ ism'.at = "accept" /\ ism'.who = NoOne
    BY <1>2, <1>5, FinishedIs
  <2>4. QED
    BY <1>1, <1>2, <1>4, <2>1, <2>2, <2>3, ServedKeeps
<1>6. ASSUME n \notin 4 .. 7,
             Served([conn[w] EXCEPT !.read = n, !.first = n]),
             ism' = [Stores(n) EXCEPT !.at = "more", !.size = Needed(conn[w].kind, n)]
      PROVE  NInv'
  <2> DEFINE c == [conn[w] EXCEPT !.read = n, !.first = n]
  <2>1. Kept(c, conn[w]) /\ c.read = n /\ c.first = n /\ c.reply = conn[w].reply /\ c.by = conn[w].by
    BY <1>1, <1>4, KeptUnanswered
  <2>2. Served(c)
    BY <1>6
  <2> HIDE DEF c
  <2>3. n \in Nat /\ Needed(conn[w].kind, n) \in -HeaderLen .. MsgLen
    BY <1>4, NeededTyped
  <2>4. /\ Stores(n) \in Module /\ Stores(n).who = w
        /\ n >= HeaderLen => Stores(n).held = n /\ Stores(n).of = w
    BY <1>2, <1>4, StoresTyped
  <2>5. /\ ism' \in Module /\ ism'.at = "more" /\ ism'.who = w
        /\ ism'.size = Needed(conn[w].kind, n)
        /\ ism'.held = Stores(n).held /\ ism'.of = Stores(n).of
    BY <1>6, <2>3, <2>4 DEF Module
  <2>6. c.kind = conn[w].kind
    BY <2>1 DEF Kept
  <2>7. Reassembles(c, ism')
    BY <1>4, <1>6, <2>1, <2>3, <2>4, <2>5, <2>6 DEF Reassembles
  <2>8. QED
    BY <1>1, <1>2, <1>4, <2>1, <2>2, <2>5, <2>7, ServedKeeps
<1>7. QED
  BY <1>3, <1>5, <1>6

\* Another read goes on with the same message.
LEMMA ReadsMoreKeeps ==
  ASSUME NInv, NEW w \in Sessions, w = ism.who, IsmReadsMore
  PROVE  NInv'
<1>1. /\ conn[w] \in Session /\ conn[w].read \in 0 .. MsgLen
      /\ conn[w].by \in {NoOne, w} /\ Serving = conn[w]
  BY ServingIs
<1>2. Typed /\ ism.at = "more" /\ UNCHANGED <<cm, queue, kills, hit, most>>
  BY DEF NInv, IsmReadsMore
<1>3. PICK n \in Reads : /\ Served([conn[w] EXCEPT !.read = conn[w].read + n])
                         /\ ism' = Stores(conn[w].read + n)
  BY <1>1 DEF IsmReadsMore
<1> DEFINE m == conn[w].read + n
           c == [conn[w] EXCEPT !.read = m]
<1>4. m \in 0 .. MsgLen /\ m <= conn[w].sent /\ conn[w].read <= m
  <2>1. m \in 0 .. MsgLen /\ m <= conn[w].sent /\ n \in 0 .. MsgLen
    BY ServingIs
  <2>2. QED
    BY <1>1, <2>1
<1>5. Served([conn[w] EXCEPT !.read = m]) /\ ism' = Stores(m)
  BY <1>3
<1> HIDE DEF m
<1>6. Kept(c, conn[w]) /\ c.read = m /\ c.first = conn[w].first /\ c.reply = conn[w].reply
      /\ c.by = conn[w].by
  BY <1>1, <1>4, KeptLater
<1>7. Served(c)
  BY <1>5
<1> HIDE DEF c
<1>8. /\ ism' \in Module /\ ism'.at = "more" /\ ism'.who = w /\ ism'.size = ism.size
      /\ m >= HeaderLen => ism'.held = m /\ ism'.of = w
  BY <1>2, <1>4, <1>5, StoresTyped
<1>9. /\ conn[w].first <= conn[w].read /\ conn[w].first \notin 4 .. 7
      /\ ism.size = Needed(conn[w].kind, conn[w].first)
      /\ conn[w].first = 0 => w \in hit
  BY <1>1, <1>2 DEF NInv, Sending, Reading, Reassembles
<1>10. c.kind = conn[w].kind /\ conn[w].first \in Nat /\ conn[w].read \in Nat /\ m \in Nat
  BY <1>1, <1>4, <1>6 DEF Kept, Session
<1>11. c.first <= c.read
  BY <1>4, <1>6, <1>9, <1>10
<1>12. Reassembles(c, ism')
  BY <1>6, <1>8, <1>9, <1>10, <1>11 DEF Reassembles
<1>13. QED
  BY <1>1, <1>2, <1>4, <1>6, <1>7, <1>8, <1>9, <1>11, <1>12, ServedKeeps

\* A message that is put together is refused, answered or given to a handler.
LEMMA ProcessesKeeps ==
  ASSUME NInv, NEW w \in Sessions, w = ism.who, IsmProcesses, ~IsmEnds
  PROVE  NInv'
<1>1. /\ conn[w] \in Session /\ conn[w].first <= conn[w].read
      /\ conn[w].read <= conn[w].sent /\ conn[w].first \in 0 .. MsgLen
      /\ conn[w].by \in {NoOne, w} /\ Serving = conn[w] /\ MsgLen \in Nat /\ MsgLen >= 29
      /\ conn[w].read \in 0 .. MsgLen
  BY ServingIs
<1>2. /\ ism.at = "more" /\ conn[w].read >= ism.size /\ UNCHANGED <<cm, queue, kills, hit, most>>
      /\ IsmRefuses \/ IsmKnowsNoType \/ IsmHandles
  BY <1>1 DEF IsmProcesses, Enough, IsmRefuses, IsmKnowsNoType, IsmHandles, IsmFails
<1>3. Typed /\ ism \in Module /\ ism.held \in 0 .. MsgLen /\ ism.of \in Sessions \cup {NoOne}
  BY DEF NInv, Typed, Module
<1>4. /\ conn[w].first <= conn[w].read
      /\ conn[w].read >= HeaderLen => ism.held = conn[w].read /\ ism.of = w
  BY <1>1, <1>2 DEF NInv, Sending, Reading, Reassembles
<1>5. \/ conn[w].first = 0 /\ w \in hit /\ ism.size = -4
      \/ conn[w].first \in 1 .. 3
      \/ /\ conn[w].kind \in {"iso", "silent"} /\ conn[w].first >= 8
         /\ ism.size = MsgLen - 4
  BY <1>1, <1>2, MoreIs
<1>6. CASE IsmRefuses
  <2>a. ism' = [ism EXCEPT !.at = "sleep"] /\ conn' = conn /\ ~HasAcquirer
    BY <1>6 DEF IsmRefuses
  <2>1. ism.held < 9
    BY <1>3, <2>a DEF HasAcquirer, HeaderLen, AcquirerLen
  <2>2. conn[w].first \in 0 .. 3
    <3>1. ASSUME conn[w].first >= 8, ism.size = MsgLen - 4 PROVE FALSE
      BY <1>1, <1>2, <1>3, <1>4, <2>1, <3>1 DEF HeaderLen
    <3>2. QED
      BY <1>1, <1>5, <3>1
  <2>3. Excused(conn[w], w)
    BY <1>1, <1>5, <2>2 DEF Excused
  <2>4. Kept(conn[w], conn[w])
    BY <1>1 DEF Kept
  <2>5. Served(conn[w])
    BY <1>1, <2>a DEF NInv, Typed, Served
  <2>6. ism' \in Module /\ ism'.at = "sleep" /\ ism'.who = w
    BY <1>3, <2>a DEF Module
  <2>7. QED
    BY <1>1, <1>2, <2>3, <2>4, <2>5, <2>6, ServedKeeps
<1>7. CASE IsmKnowsNoType
  <2> DEFINE c == [conn[w] EXCEPT !.reply = "bare"]
  <2>1. Kept(c, conn[w]) /\ c.read = conn[w].read /\ c.first = conn[w].first /\ c.reply = "bare" /\ c.by = conn[w].by
    BY <1>1, KeptReplied DEF Replies
  <2>2. Served(c) /\ Finished
    BY <1>1, <1>7 DEF IsmKnowsNoType, Answers
  <2> HIDE DEF c
  <2>3. ism' \in Module /\ ism'.at = "accept" /\ ism'.who = NoOne
    BY <1>3, <2>2, FinishedIs
  <2>4. QED
    BY <1>1, <1>2, <2>1, <2>2, <2>3, ServedKeeps
<1>8. CASE IsmHandles
  <2>1. ism.size >= 5
    BY <1>8 DEF IsmHandles, AcquirerLen
  <2>2. conn[w].read >= 5
    BY <1>1, <1>2, <1>3, <2>1 DEF Module, HeaderLen
  <2>3. ism.of = w
    BY <1>1, <1>4, <2>2 DEF HeaderLen
  <2>4. CASE Served([conn[w] EXCEPT !.reply = "answer", !.by = w]) /\ Finished
    <3> DEFINE c == WithReply(conn[w], "answer", w)
    <3>a. "answer" \in Replies /\ w \in Sessions \cup {NoOne}
      BY DEF Replies
    <3>1. Kept(c, conn[w]) /\ c.read = conn[w].read /\ c.first = conn[w].first /\ c.reply = "answer" /\ c.by = w
      BY <1>1, <3>a, KeptHandled
    <3>2. Served(c)
      BY <2>4 DEF WithReply
    <3> HIDE DEF c
    <3>3. ism' \in Module /\ ism'.at = "accept" /\ ism'.who = NoOne
      BY <1>3, <2>4, FinishedIs
    <3>4. QED
      BY <1>1, <1>2, <3>1, <3>2, <3>3, ServedKeeps
  <2>5. CASE /\ conn[w].kind = "silent" \/ conn[w].first < HeaderLen
             /\ Served([conn[w] EXCEPT !.by = w])
             /\ ism' = [ism EXCEPT !.at = "sleep"]
    <3> DEFINE c == [conn[w] EXCEPT !.by = w]
    <3>1. Kept(c, conn[w]) /\ c.read = conn[w].read /\ c.first = conn[w].first
          /\ c.reply = conn[w].reply /\ c.by = w
      BY <1>1, KeptGivenUp
    <3>2. Served(c)
      BY <2>5
    <3>3. c.kind = conn[w].kind
      BY <3>1 DEF Kept
    <3> HIDE DEF c
    <3>4. conn[w].kind = "silent" \/ w \in hit \/ conn[w].first \in 1 .. 3
      BY <1>1, <1>5, <2>5 DEF HeaderLen
    <3>5. Excused(c, w)
      BY <3>1, <3>3, <3>4 DEF Excused
    <3>6. ism' \in Module /\ ism'.at = "sleep" /\ ism'.who = w
      BY <1>3, <2>5 DEF Module
    <3>7. QED
      BY <1>1, <1>2, <3>1, <3>2, <3>5, <3>6, ServedKeeps
  <2>6. QED
    BY <1>1, <1>8, <2>3, <2>4, <2>5 DEF IsmHandles, IsSilent
<1>9. QED
  BY <1>2, <1>6, <1>7, <1>8

\* The ISM wakes up and closes the connection.
LEMMA WakesKeeps ==
  ASSUME NInv, NEW w \in Sessions, w = ism.who, IsmWakes
  PROVE  NInv'
<1>1. conn[w] \in Session /\ Serving = conn[w] /\ conn[w].by \in {NoOne, w}
      /\ conn[w].first <= conn[w].read /\ conn[w].read <= conn[w].sent
  BY ServingIs
<1>2. Typed /\ ism.at = "sleep" /\ UNCHANGED <<cm, queue, kills, hit, most>>
  BY DEF NInv, IsmWakes
<1> DEFINE c == [conn[w] EXCEPT !.reply = "eof"]
<1>3. Kept(c, conn[w]) /\ c.read = conn[w].read /\ c.first = conn[w].first
      /\ c.reply = "eof" /\ c.by = conn[w].by
  BY <1>1, KeptReplied DEF Replies
<1>4. Served(c) /\ Finished
  BY <1>1 DEF IsmWakes, Answers, AfterSleep
<1> HIDE DEF c
<1>5. Excused(conn[w], w)
  BY <1>1, <1>2 DEF NInv, Caused, Cause, HeaderCut, HeaderLen, Excused
<1>6. Excused(c, w)
  BY <1>3, <1>5 DEF Excused, Kept
<1>7. ism' \in Module /\ ism'.at = "accept" /\ ism'.who = NoOne
  BY <1>2, <1>4, FinishedIs
<1>8. QED
  BY <1>1, <1>2, <1>3, <1>4, <1>6, <1>7, ServedKeeps

\* The end of the ISM ends the connections it had, and marks their sessions.
LEMMA IsmEndsKeeps ==
  ASSUME NInv, IsmEnds, UNCHANGED <<cm, most>>, kills' \in 0 .. MaxKills
  PROVE  NInv'
<1>1. /\ Typed /\ Lined /\ Sending /\ Awaited /\ Reading /\ Caused
      /\ HandledForItsSender /\ DescriptorsAreAccounted
      /\ conn \in [Sessions -> Session]
  BY DEF NInv, Typed
<1>2. \A t \in Sessions :
        conn'[t] = IF t \in Accepted THEN [conn[t] EXCEPT !.reply = "eof"] ELSE conn[t]
  BY DEF IsmEnds
<1>3. \A t \in Sessions :
        /\ conn'[t] \in Session
        /\ conn'[t].kind = conn[t].kind /\ conn'[t].own = conn[t].own
        /\ conn'[t].sent = conn[t].sent /\ conn'[t].read = conn[t].read
        /\ conn'[t].first = conn[t].first /\ conn'[t].by = conn[t].by
        /\ conn'[t].at = conn[t].at /\ conn'[t].outcome = conn[t].outcome
        /\ \/ conn'[t].reply = conn[t].reply
           \/ t \in Accepted /\ conn'[t].reply = "eof" /\ t \in hit'
  <2>1. SUFFICES ASSUME NEW t \in Sessions
                 PROVE  /\ conn'[t] \in Session
                        /\ conn'[t].kind = conn[t].kind /\ conn'[t].own = conn[t].own
                        /\ conn'[t].sent = conn[t].sent /\ conn'[t].read = conn[t].read
                        /\ conn'[t].first = conn[t].first /\ conn'[t].by = conn[t].by
                        /\ conn'[t].at = conn[t].at /\ conn'[t].outcome = conn[t].outcome
                        /\ \/ conn'[t].reply = conn[t].reply
                           \/ t \in Accepted /\ conn'[t].reply = "eof" /\ t \in hit'
    OBVIOUS
  <2>2. conn[t] \in Session
    BY <1>1
  <2>3. CASE t \in Accepted
    <3>1. conn'[t] = [conn[t] EXCEPT !.reply = "eof"]
      BY <1>2, <2>3
    <3>2. t \in hit'
      BY <2>3 DEF IsmEnds
    <3>3. QED
      BY <2>2, <2>3, <3>1, <3>2 DEF Session
  <2>4. CASE t \notin Accepted
    BY <1>2, <2>2, <2>4
  <2>5. QED
    BY <2>3, <2>4
<1>4. Accepted \subseteq Sessions
  BY <1>1, AcceptedSessions
<1>5. hit \subseteq hit' /\ hit' \subseteq Sessions
  BY <1>1, <1>4 DEF IsmEnds, Typed
<1>6. queue' = <<>> /\ ism' \in Module /\ ism'.at = "down" /\ ism'.who = NoOne
  <2>1. MsgLen \in Nat
    BY Sizes
  <2>2. ism' = [Waiting EXCEPT !.at = "down"] /\ queue' = <<>>
    BY DEF IsmEnds
  <2>3. QED
    BY <2>1, <2>2 DEF Waiting, Module, HeaderLen
<1>7. InQueue' = {} /\ Accepted' = {}
  BY <1>6 DEF InQueue, Accepted
<1>8. Typed'
  <2>1. conn' \in [Sessions -> Session]
    BY <1>3 DEF IsmEnds
  <2>2. queue' \in Seq(Sessions)
    BY <1>6
  <2>3. QED
    BY <1>1, <1>5, <1>6, <2>1, <2>2 DEF Typed
<1>9. Lined'
  BY <1>6, <1>7 DEF Lined
<1>10. Sending'
  <2>1. \A t \in Accepted : conn[t].at \in {"send", "await", "over"}
    BY <1>1 DEF Awaited
  <2>2. QED
    BY <1>1, <1>3, <2>1 DEF Sending
<1>11. Awaited'
  BY <1>6, <1>7 DEF Awaited
<1>12. Caused'
  <2>1. \A t \in Sessions : Cause(t) => Cause(t)'
    BY <1>3, <1>5 DEF Cause, HeaderCut
  <2>2. \A t \in Sessions : t \in hit' => Cause(t)'
    BY DEF Cause
  <2>3. QED
    BY <1>1, <1>3, <1>6, <2>1, <2>2 DEF Caused
<1>r. Reading'
  BY <1>6 DEF Reading
<1>13. HandledForItsSender'
  BY <1>1, <1>3 DEF HandledForItsSender
<1>14. DescriptorsAreAccounted'
  <2>1. ASSUME NEW q \in Ports
        PROVE  ClientSockets(q)' = ClientSockets(q) /\ IsmSockets(q)' = IsmSockets(q)
    BY <1>3 DEF ClientSockets, IsmSockets, On
  <2>2. QED
    BY <1>1, <2>1 DEF DescriptorsAreAccounted
<1>15. QED
  BY <1>8, <1>9, <1>10, <1>11, <1>12, <1>r, <1>13, <1>14 DEF NInv

-----------------------------------------------------------------------------
(* All steps.                                                              *)

\* Nobody is connected at the start.
LEMMA InitNInv == Init => NInv
<1> SUFFICES ASSUME Init PROVE NInv
  OBVIOUS
<1>1. PICK kind \in [Sessions -> Kinds] : conn = [s \in Sessions |-> Idle(kind[s])]
  BY DEF Init
<1>2. \A s \in Sessions :
        /\ conn[s] \in Session
        /\ conn[s].at = "off" /\ conn[s].sent = 0 /\ conn[s].read = 0
        /\ conn[s].reply = "none" /\ conn[s].outcome = "none"
        /\ conn[s].own = 0 /\ conn[s].first = 0 /\ conn[s].by = NoOne
  <2>1. \A s \in Sessions : kind[s] \in KindsOfMessage
    BY <1>1, NetAssumption
  <2>2. QED
    BY <1>1, <2>1, NetAssumption DEF Idle, Session
<1>3. InQueue = {} /\ Accepted = {} /\ ism.at = "accept" /\ ism.who = NoOne /\ queue = <<>>
  BY DEF Init, InQueue, Accepted, Waiting
<1>4. Typed
  <2>1. conn \in [Sessions -> Session]
    BY <1>1, <1>2
  <2>2. cm \in [Ports -> [up : BOOLEAN, fds : Int, threads : Nat, empties : Nat]]
    BY DEF Init, Fresh
  <2>3. QED
    BY <2>1, <2>2, NetAssumption DEF Init, Typed, Waiting, Module, HeaderLen
<1>5. Lined /\ Sending /\ Awaited /\ Reading /\ Caused /\ HandledForItsSender
  <2>1. Lined
    BY <1>3, NetAssumption DEF Lined
  <2>2. Sending
    BY <1>2 DEF Sending
  <2>3. Awaited /\ Reading /\ Caused /\ HandledForItsSender
    BY <1>2, <1>3 DEF Awaited, Reading, Caused, HandledForItsSender
  <2>4. QED
    BY <2>1, <2>2, <2>3
<1>6. DescriptorsAreAccounted
  <2>1. ASSUME NEW p \in Ports PROVE ClientSockets(p) = {} /\ IsmSockets(p) = {}
    BY <1>2 DEF ClientSockets, IsmSockets, On
  <2>2. \A p \in Ports : cm[p].fds = 0 /\ cm[p].empties = 0
    BY DEF Init, Fresh
  <2>3. QED
    BY <2>1, <2>2, FS_EmptySet DEF DescriptorsAreAccounted
<1>7. QED
  BY <1>4, <1>5, <1>6 DEF NInv

\* Every step keeps the invariant.
LEMMA NextNInv == NInv /\ [Next]_vars => NInv'
<1> SUFFICES ASSUME NInv, [Next]_vars PROVE NInv'
  OBVIOUS
<1>1. \A s \in Sessions : PortOf[s] \in Ports
  BY NetAssumption
<1>2. kills \in 0 .. MaxKills /\ MaxKills \in Nat
  BY NetAssumption DEF NInv, Typed
<1>3. ASSUME NEW s \in Sessions, TerminalConnects(s) \/ CmAccepts(s) \/ Thread(s)
      PROVE  NInv'
  <2>1. CASE ConnectToIsm(s)
    BY <2>1, ConnectKeeps
  <2>2. CASE ConnectFails(s)
    BY <1>1, <1>2, <2>2, CmEndsKeeps DEF ConnectFails
  <2>3. QED
    BY <1>3, <2>1, <2>2, ThreadSteps DEF Thread
<1>4. CASE IsmStep
  <2>1. CASE IsmAccepts
    BY <2>1, AcceptKeeps
  <2>2. CASE IsmProcesses /\ IsmEnds
    BY <1>2, <2>2, IsmEndsKeeps DEF IsmProcesses
  <2>3. CASE \/ IsmReads \/ IsmReadsMore \/ IsmWakes
             \/ IsmProcesses /\ ~IsmEnds
    <3>1. ism.at \in {"read", "more", "sleep"}
      BY <2>3 DEF IsmReads, IsmReadsMore, IsmProcesses, IsmWakes
    <3>2. ism.who \in Sessions
      BY <3>1 DEF NInv, Typed, Lined, Module
    <3>3. QED
      BY <2>3, <3>2, ReadsKeeps, ReadsMoreKeeps, ProcessesKeeps, WakesKeeps, SMTT(40)
  <2>4. QED
    BY <1>4, <2>1, <2>2, <2>3 DEF IsmStep
<1>5. ASSUME NEW p \in Ports, KillCm(p) PROVE NInv'
  BY <1>2, <1>5, CmEndsKeeps DEF KillCm
<1>6. ASSUME NEW p \in Ports, CmRestarts(p) PROVE NInv'
  <2>1. cm \in [Ports -> [up : BOOLEAN, fds : Int, threads : Nat, empties : Nat]]
    BY DEF NInv, Typed
  <2>2. /\ cm' \in [Ports -> [up : BOOLEAN, fds : Int, threads : Nat, empties : Nat]]
        /\ \A q \in Ports : cm'[q].fds = cm[q].fds /\ cm'[q].empties = cm[q].empties
    BY <1>6, <2>1 DEF CmRestarts
  <2>3. conn' = conn /\ queue' = queue /\ ism' = ism /\ kills' = kills /\ hit' = hit /\ most' = most
    BY <1>6 DEF CmRestarts
  <2>4. Typed' /\ Lined' /\ Sending' /\ Awaited' /\ Reading' /\ Caused' /\ HandledForItsSender'
    BY <2>2, <2>3
    DEF NInv, Typed, Lined, InQueue, Sending, Awaited, Accepted, Serving, Reading, Caused, Cause, HeaderCut,
        HandledForItsSender
  <2>5. DescriptorsAreAccounted'
    BY <2>2, <2>3 DEF NInv, DescriptorsAreAccounted, ClientSockets, IsmSockets
  <2>6. QED
    BY <2>4, <2>5 DEF NInv
<1>7. CASE KillIsm
  BY <1>2, <1>7, IsmEndsKeeps DEF KillIsm
<1>8. CASE IsmRestarts
  <2>1. conn' = conn /\ cm' = cm /\ queue' = queue /\ kills' = kills /\ hit' = hit /\ most' = most
        /\ ism.at = "down"
    BY <1>8 DEF IsmRestarts
  <2>2. ism' \in Module /\ ism'.at = "accept" /\ ism'.who = NoOne /\ ism.who = NoOne
    BY <1>8, <2>1, NetAssumption DEF IsmRestarts, Waiting, Module, NInv, Lined, HeaderLen
  <2>3. InQueue' = InQueue /\ Accepted' = Accepted
    BY <2>1, <2>2 DEF InQueue, Accepted
  <2>4. Typed' /\ Lined' /\ Sending' /\ Awaited' /\ Reading' /\ Caused' /\ HandledForItsSender'
    BY <2>1, <2>2, <2>3
    DEF NInv, Typed, Lined, Sending, Awaited, Reading, Caused, Cause, HeaderCut, HandledForItsSender
  <2>5. DescriptorsAreAccounted'
    BY <2>1 DEF NInv, DescriptorsAreAccounted, ClientSockets, IsmSockets
  <2>6. QED
    BY <2>4, <2>5 DEF NInv
<1>9. CASE UNCHANGED vars
  <2>1. /\ conn' = conn /\ cm' = cm /\ queue' = queue /\ ism' = ism
        /\ kills' = kills /\ hit' = hit /\ most' = most
    BY <1>9 DEF vars
  <2>2. InQueue' = InQueue /\ Accepted' = Accepted /\ Serving' = Serving
    BY <2>1 DEF InQueue, Accepted, Serving
  <2>3. Typed' /\ Lined'
    BY <2>1, <2>2 DEF NInv, Typed, Lined
  <2>4. Sending' /\ Awaited' /\ Reading' /\ Caused' /\ HandledForItsSender'
    BY <2>1, <2>2 DEF NInv, Sending, Awaited, Reading, Caused, Cause, HeaderCut, HandledForItsSender
  <2>5. DescriptorsAreAccounted'
    BY <2>1 DEF NInv, DescriptorsAreAccounted, ClientSockets, IsmSockets
  <2>6. QED
    BY <2>3, <2>4, <2>5 DEF NInv
<1>10. QED
  BY <1>3, <1>4, <1>5, <1>6, <1>7, <1>8, <1>9 DEF Next

\* The invariant always holds.
LEMMA AlwaysNInv == Spec => []NInv
BY InitNInv, NextNInv, PTL DEF Spec

-----------------------------------------------------------------------------
(* What the terminals may rely on.                                         *)

\* Sessions, processes and queue keep their types: no thread gives back more
\* descriptors than its process holds.
THEOREM NetTypeCorrect == Spec => []TypeOK
<1>1. NInv => TypeOK
  <2>1. SUFFICES ASSUME NInv PROVE TypeOK
    OBVIOUS
  <2>2. \A p \in Ports : cm[p].fds \in Nat
    <3>1. SUFFICES ASSUME NEW p \in Ports PROVE cm[p].fds \in Nat
      OBVIOUS
    <3>2. Cardinality(ClientSockets(p)) \in Nat /\ Cardinality(IsmSockets(p)) \in Nat
      BY SocketsFinite
    <3>3. cm[p].empties \in Nat
      BY <2>1 DEF NInv, Typed
    <3>4. QED
      BY <2>1, <3>2, <3>3 DEF NInv, DescriptorsAreAccounted
  <2>3. cm \in [Ports -> Process]
    BY <2>1, <2>2 DEF NInv, Typed, Process
  <2>4. QED
    BY <2>1, <2>3 DEF NInv, Typed, TypeOK
<1>2. QED
  BY <1>1, AlwaysNInv, PTL

\* Who is left without an answer asked for it, lost a process it used, or sent
\* a message whose header did not reach the ISM in one read.
THEOREM SilenceHasACause == Spec => []UnansweredHasACause
<1>1. NInv => UnansweredHasACause
  BY DEF NInv, Caused, Cause, UnansweredHasACause
<1>2. QED
  BY <1>1, AlwaysNInv, PTL

\* However a message is cut, and whatever earlier ones left in recvMessage, a
\* handler is given the message of the terminal it answers.
THEOREM HandledForSender == Spec => []HandledForItsSender
<1>1. NInv => HandledForItsSender
  BY DEF NInv
<1>2. QED
  BY <1>1, AlwaysNInv, PTL

\* Only empty connections cost a cm_tcp process a descriptor for good.
THEOREM DescriptorsAccounted == Spec => []DescriptorsAreAccounted
<1>1. NInv => DescriptorsAreAccounted
  BY DEF NInv
<1>2. QED
  BY <1>1, AlwaysNInv, PTL

-----------------------------------------------------------------------------
(* What a terminal gets whose message is read in one piece.                *)

\* Replies a session may have whose message was read whole.
Fits(c) ==
  c.own = Length(c.kind) /\ c.first = c.own =>
    /\ c.reply \in {"none", "eof", ReplyTo(c.kind)}
    /\ c.outcome \in {"none", "eof", "cut", ReplyTo(c.kind)}

Fitting == \A s \in Sessions : Fits(conn[s])

\* Only a message for the ISM is read whole, and it was received.
LEMMA WholeIs ==
  ASSUME NInv, NEW s \in Sessions, conn[s].own = Length(conn[s].kind)
  PROVE  conn[s].kind \in {"iso", "silent", "ping", "paynet"}
<1>1. conn[s].kind \in KindsOfMessage
  BY DEF NInv, Typed, Session
<1>2. conn[s].own # 0 => conn[s].kind # "none" /\ (conn[s].kind = "pingcm" => conn[s].own < 6)
  BY DEF NInv, Sending
<1>3. CASE conn[s].kind \in {"pingcm", "none"}
  <2>1. conn[s].own = 6
    BY <1>3 DEF Length
  <2>2. QED
    BY <1>2, <1>3, <2>1
<1>4. QED
  BY <1>1, <1>3 DEF KindsOfMessage

\* A terminal, cm_tcp's main loop and its threads keep everything fitting.
LEMMA ThreadFits ==
  ASSUME NInv, Fitting, NEW s \in Sessions,
         \/ TerminalConnects(s) \/ CmAccepts(s)
         \/ ReceivePing(s) \/ ReceiveNothing(s) \/ ReceiveMessage(s)
         \/ ConnectToIsm(s) \/ SendMessage(s) \/ ReturnReply(s)
  PROVE  Fitting'
<1>1. conn \in [Sessions -> Session] /\ conn[s] \in Session /\ Fits(conn[s])
  BY DEF NInv, Typed, Fitting
<1>2. ASSUME NEW r \in Session, conn' = [conn EXCEPT ![s] = r], Fits(r)
      PROVE  Fitting'
  <2>1. conn'[s] = r /\ \A t \in Sessions \ {s} : conn'[t] = conn[t]
    BY <1>1, <1>2, ConnTyped
  <2>2. QED
    BY <1>2, <2>1 DEF Fitting
<1>3. ASSUME NEW r \in Session, r.kind = conn[s].kind, r.own = conn[s].own, r.first = conn[s].first,
             r.reply = conn[s].reply, r.outcome \in {conn[s].outcome, conn[s].reply}
      PROVE  Fits(r)
  BY <1>1, <1>3 DEF Fits
<1>4. ASSUME NEW at \in {"queued", "recv", "orphan", "over", "send"}, conn' = Set(s, at)
      PROVE  Fitting'
  <2> DEFINE r == [conn[s] EXCEPT !.at = at]
  <2>1. r \in Session /\ r.kind = conn[s].kind /\ r.own = conn[s].own /\ r.first = conn[s].first
        /\ r.reply = conn[s].reply /\ r.outcome = conn[s].outcome
    BY <1>1 DEF Session
  <2>2. conn' = [conn EXCEPT ![s] = r]
    BY <1>4 DEF Set
  <2> HIDE DEF r
  <2>3. QED
    BY <1>2, <1>3, <2>1, <2>2
<1>5. CASE TerminalConnects(s) \/ CmAccepts(s) \/ ReceiveNothing(s) \/ ConnectToIsm(s)
  BY <1>4, <1>5 DEF TerminalConnects, CmAccepts, ReceiveNothing, ConnectToIsm
<1>6. CASE ReceivePing(s)
  <2> DEFINE r == [conn[s] EXCEPT !.at = "over", !.outcome = "pongcm"]
  <2>1. r \in Session /\ r.kind = conn[s].kind /\ r.own = conn[s].own
    BY <1>1 DEF Session
  <2>2. conn' = [conn EXCEPT ![s] = r] /\ conn[s].kind = "pingcm"
    BY <1>1, <1>6 DEF ReceivePing
  <2> HIDE DEF r
  <2>3. r.own # Length(r.kind)
    BY <2>1, <2>2, WholeIs
  <2>4. Fits(r)
    BY <2>3 DEF Fits
  <2>5. QED
    BY <1>2, <2>1, <2>2, <2>4
<1>7. CASE ReceiveMessage(s)
  <2>1. PICK n \in FirstPart(conn[s].kind) : conn' = [conn EXCEPT ![s].at = "connect", ![s].own = n]
    BY <1>7 DEF ReceiveMessage
  <2> DEFINE r == [conn[s] EXCEPT !.at = "connect", !.own = n]
  <2>2. n \in 1 .. MsgLen
    <3>1. conn[s].kind \in KindsOfMessage
      BY <1>1 DEF Session
    <3>2. QED
      BY <3>1, <2>1, PartTyped
  <2>a. n \in 0 .. MsgLen /\ n # 0
    BY <2>2, Sizes
  <2>3. r \in Session /\ r.own = n /\ r.first = conn[s].first
    BY <1>1, <2>a DEF Session
  <2>4. conn' = [conn EXCEPT ![s] = r]
    BY <1>1, <2>1
  <2> HIDE DEF r
  <2>5. conn[s].first = 0
    <3>1. conn[s].sent = 0 /\ conn[s].first <= conn[s].read /\ conn[s].read <= conn[s].sent
      BY <1>7 DEF ReceiveMessage, NInv, Sending
    <3>2. conn[s].first \in Nat /\ conn[s].read \in Nat
      BY <1>1, Sizes DEF Session
    <3>3. QED
      BY <3>1, <3>2
  <2>6. Fits(r)
    BY <2>a, <2>3, <2>5 DEF Fits
  <2>7. QED
    BY <1>2, <2>3, <2>4, <2>6
<1>8. CASE SendMessage(s)
  <2> DEFINE r == [conn[s] EXCEPT !.at = "await", !.sent = conn[s].own]
  <2>1. r \in Session /\ r.kind = conn[s].kind /\ r.own = conn[s].own /\ r.first = conn[s].first
        /\ r.reply = conn[s].reply /\ r.outcome = conn[s].outcome
    BY <1>1 DEF Session
  <2>2. conn' = [conn EXCEPT ![s] = r]
    BY <1>1, <1>8 DEF SendMessage
  <2> HIDE DEF r
  <2>3. QED
    BY <1>2, <1>3, <2>1, <2>2
<1>9. CASE ReturnReply(s)
  <2> DEFINE r == [conn[s] EXCEPT !.at = "over", !.outcome = conn[s].reply]
  <2>1. r \in Session /\ r.kind = conn[s].kind /\ r.own = conn[s].own /\ r.first = conn[s].first
        /\ r.reply = conn[s].reply /\ r.outcome = conn[s].reply
    BY <1>1 DEF Session
  <2>2. conn' = [conn EXCEPT ![s] = r]
    BY <1>1, <1>9 DEF ReturnReply
  <2> HIDE DEF r
  <2>3. QED
    BY <1>2, <1>3, <2>1, <2>2
<1>10. QED
  BY <1>5, <1>6, <1>7, <1>8, <1>9

\* A session the ISM serves has no reply yet, and an outcome only when its
\* process ended.
LEMMA ServedFits ==
  ASSUME NInv, Fitting, NEW w \in Sessions, w = ism.who, NEW c, Served(c),
         c.own = Length(c.kind) /\ c.first = c.own =>
           /\ c.reply \in {"none", "eof", ReplyTo(c.kind)}
           /\ c.outcome = conn[w].outcome
  PROVE  Fitting'
<1>1. conn \in [Sessions -> Session] /\ conn' = [conn EXCEPT ![w] = c]
  BY DEF NInv, Typed, Served
<1>2. conn'[w] = c /\ \A t \in Sessions \ {w} : conn'[t] = conn[t]
  BY <1>1
<1>3. conn[w].outcome \in {"none", "cut"}
  <2>1. w \in Accepted
    BY AcceptedIs, NetAssumption
  <2>2. conn[w].reply = "none" /\ conn[w].at \in {"send", "await", "over"}
    BY <2>1 DEF NInv, Awaited
  <2>3. conn[w].at = "over" => conn[w].outcome = "cut"
    BY <2>1 DEF NInv, Awaited
  <2>4. conn[w].at # "over" => conn[w].outcome = "none"
    BY DEF NInv, Sending
  <2>5. QED
    BY <2>3, <2>4
<1>4. Fits(c)
  BY <1>3 DEF Fits
<1>5. QED
  BY <1>2, <1>4 DEF Fitting

\* The ISM takes 4 or 5 bytes for a ping and 6 or 7 for a request of paynet:
\* whole messages of these lengths are.
LEMMA ShortMessages ==
  ASSUME NInv, NEW s \in Sessions, conn[s].own = Length(conn[s].kind)
  PROVE  /\ conn[s].own \in 4 .. 5 => ReplyTo(conn[s].kind) = "pong"
         /\ conn[s].own \in 6 .. 7 => ReplyTo(conn[s].kind) = "captura"
<1>1. conn[s].kind \in {"iso", "silent", "ping", "paynet"}
  BY WholeIs
<1>2. CASE conn[s].kind \in {"iso", "silent"}
  <2>1. conn[s].own = MsgLen
    BY <1>2 DEF Length
  <2>2. QED
    BY <2>1, Sizes
<1>3. CASE conn[s].kind = "ping"
  <2>1. conn[s].own = 4 /\ ReplyTo(conn[s].kind) = "pong"
    BY <1>3 DEF Length, ReplyTo
  <2>2. QED
    BY <2>1
<1>4. CASE conn[s].kind = "paynet"
  <2>1. conn[s].own = 6 /\ ReplyTo(conn[s].kind) = "captura"
    BY <1>4 DEF Length, ReplyTo
  <2>2. QED
    BY <2>1
<1>5. QED
  BY <1>1, <1>2, <1>3, <1>4

\* The ISM's steps do: it goes by the length of what it read.
LEMMA IsmFits ==
  ASSUME NInv, Fitting, NEW w \in Sessions, w = ism.who,
         \/ IsmReads \/ IsmReadsMore \/ IsmWakes
         \/ IsmProcesses /\ ~IsmEnds
  PROVE  Fitting'
<1>1. /\ Serving = conn[w] /\ conn[w] \in Session /\ conn[w].reply = "none"
      /\ MsgLen \in Nat /\ MsgLen >= 29 /\ conn[w].first <= conn[w].read
      /\ conn[w].read <= conn[w].sent
      /\ conn[w].read \in 0 .. MsgLen /\ conn[w].first \in 0 .. MsgLen
  BY ServingIs
<1>2. conn \in [Sessions -> Session]
  BY DEF NInv, Typed
<1>3. CASE IsmReads
  <2>1. PICK n \in Reads :
          \/ /\ n \in 4 .. 5
             /\ Served([conn[w] EXCEPT !.read = n, !.first = n, !.reply = "pong"])
          \/ /\ n \in 6 .. 7
             /\ Served([conn[w] EXCEPT !.read = n, !.first = n, !.reply = "captura"])
          \/ Served([conn[w] EXCEPT !.read = n, !.first = n])
    BY <1>1, <1>3 DEF IsmReads
  <2>2. n \in 0 .. MsgLen
    BY ServingIs
  <2>3. ASSUME NEW r \in {"pong", "captura"}, r = "pong" => n \in 4 .. 5,
               r = "captura" => n \in 6 .. 7,
               Served([conn[w] EXCEPT !.read = n, !.first = n, !.reply = r])
        PROVE  Fitting'
    <3> DEFINE c == AtFirst(conn[w], n, r)
    <3>a. r \in Replies
      BY DEF Replies
    <3>1. Kept(c, conn[w]) /\ c.first = n /\ c.reply = r
      BY <1>1, <2>2, <3>a, KeptAtFirst
    <3>2. Served(c)
      BY <2>3 DEF AtFirst
    <3> HIDE DEF c
    <3>3. c.own = conn[w].own /\ c.kind = conn[w].kind /\ c.outcome = conn[w].outcome
      BY <3>1 DEF Kept
    <3>4. ASSUME c.own = Length(c.kind), c.first = c.own PROVE c.reply = ReplyTo(c.kind)
      BY <2>3, <3>1, <3>3, <3>4, ShortMessages
    <3>5. QED
      BY <3>2, <3>3, <3>4, ServedFits
  <2>4. CASE Served([conn[w] EXCEPT !.read = n, !.first = n])
    <3> DEFINE c == [conn[w] EXCEPT !.read = n, !.first = n]
    <3>1. Kept(c, conn[w]) /\ c.reply = "none"
      BY <1>1, <2>2, KeptUnanswered
    <3>2. Served(c)
      BY <2>4
    <3> HIDE DEF c
    <3>3. QED
      BY <3>1, <3>2, ServedFits DEF Kept
  <2>5. QED
    BY <2>1, <2>3, <2>4, SMTT(40)
<1>4. CASE IsmReadsMore
  <2>1. PICK n \in Reads : Served([conn[w] EXCEPT !.read = conn[w].read + n])
    BY <1>1, <1>4 DEF IsmReadsMore
  <2> DEFINE m == conn[w].read + n
             c == [conn[w] EXCEPT !.read = m]
  <2>2. m \in 0 .. MsgLen
    BY ServingIs
  <2>3. Served([conn[w] EXCEPT !.read = m])
    BY <2>1
  <2> HIDE DEF m
  <2>4. Kept(c, conn[w]) /\ c.reply = "none"
    BY <1>1, <2>2, KeptLater
  <2>5. Served(c)
    BY <2>3
  <2> HIDE DEF c
  <2>6. QED
    BY <2>4, <2>5, ServedFits DEF Kept
<1>5. CASE IsmWakes
  <2> DEFINE c == [conn[w] EXCEPT !.reply = "eof"]
  <2>1. Kept(c, conn[w]) /\ c.reply = "eof"
    BY <1>1, KeptReplied DEF Replies
  <2>2. Served(c)
    BY <1>1, <1>5 DEF IsmWakes, Answers, AfterSleep
  <2> HIDE DEF c
  <2>3. QED
    BY <2>1, <2>2, ServedFits DEF Kept
<1>6. CASE IsmProcesses /\ ~IsmEnds
  <2>1. /\ ism.at = "more"
        /\ IsmRefuses \/ IsmKnowsNoType \/ IsmHandles
    BY <1>6 DEF IsmProcesses, IsmRefuses, IsmKnowsNoType, IsmHandles, IsmFails
  <2>2. ASSUME conn[w].own = Length(conn[w].kind), conn[w].first = conn[w].own
        PROVE  conn[w].kind \in {"iso", "silent"} /\ conn[w].first = MsgLen /\ ism.held >= 29
    <3>1. conn[w].own \in {MsgLen, 4, 6}
      BY <2>2 DEF Length
    <3>a. conn[w].first \in {MsgLen, 4, 6}
      BY <2>2, <3>1
    <3>b. conn[w].first # 0 /\ conn[w].first \notin 1 .. 3
      BY <1>1, <3>a
    <3>2. conn[w].kind \in {"iso", "silent"}
      BY <1>1, <2>1, <3>b, MoreIs
    <3>3. conn[w].first = MsgLen
      BY <2>2, <3>2 DEF Length
    <3>4. conn[w].read >= 29
      BY <1>1, <3>3
    <3>5. ism.held = conn[w].read
      <4>1. Reassembles(conn[w], ism)
        BY <1>1, <2>1 DEF NInv, Reading
      <4>2. conn[w].read >= HeaderLen
        BY <1>1, <3>4 DEF HeaderLen
      <4>3. QED
        BY <4>1, <4>2 DEF Reassembles
    <3>6. QED
      BY <3>2, <3>3, <3>4, <3>5
  <2>3. CASE IsmRefuses
    BY <2>3 DEF IsmRefuses, Fitting
  <2>4. CASE IsmKnowsNoType
    <3> DEFINE c == [conn[w] EXCEPT !.reply = "bare"]
    <3>1. Kept(c, conn[w]) /\ c.first = conn[w].first
      BY <1>1, KeptReplied DEF Replies
    <3>2. Served(c)
      BY <1>1, <2>4 DEF IsmKnowsNoType, Answers
    <3> HIDE DEF c
    <3>3. ism.held < 13 /\ ism.held \in Nat
      BY <2>4 DEF IsmKnowsNoType, HasType, HeaderLen, AcquirerLen, TypeLen, NInv, Typed, Module
    <3>4. ASSUME conn[w].own = Length(conn[w].kind), conn[w].first = conn[w].own PROVE FALSE
      BY <2>2, <3>3, <3>4
    <3>5. QED
      BY <3>1, <3>2, <3>4, ServedFits DEF Kept
  <2>5. CASE IsmHandles
    <3>1. CASE conn[w].kind # "silent" \/ conn[w].first < HeaderLen
      <4>1. \E b : \/ Served([conn[w] EXCEPT !.reply = "answer", !.by = b])
                   \/ Served([conn[w] EXCEPT !.by = b])
        BY <1>1, <2>5 DEF IsmHandles
      <4>2. PICK b : \/ Served([conn[w] EXCEPT !.reply = "answer", !.by = b])
                     \/ Served([conn[w] EXCEPT !.by = b])
        BY <4>1
      <4>3. conn[w].own = Length(conn[w].kind) /\ conn[w].first = conn[w].own =>
              ReplyTo(conn[w].kind) = "answer"
        BY <1>1, <2>2, <3>1 DEF ReplyTo, HeaderLen
      <4>4. CASE Served([conn[w] EXCEPT !.reply = "answer", !.by = b])
        <5> DEFINE c == [conn[w] EXCEPT !.reply = "answer", !.by = b]
        <5>1. /\ c.reply = "answer" /\ c.own = conn[w].own /\ c.kind = conn[w].kind
              /\ c.first = conn[w].first /\ c.outcome = conn[w].outcome
          BY <1>1 DEF Session
        <5>2. Served(c)
          BY <4>4
        <5> HIDE DEF c
        <5>3. QED
          BY <4>3, <5>1, <5>2, ServedFits
      <4>5. CASE Served([conn[w] EXCEPT !.by = b])
        <5> DEFINE c == [conn[w] EXCEPT !.by = b]
        <5>1. c.reply = "none" /\ c.outcome = conn[w].outcome
          BY <1>1 DEF Session
        <5>2. Served(c)
          BY <4>5
        <5> HIDE DEF c
        <5>3. QED
          BY <5>1, <5>2, ServedFits
      <4>6. QED
        BY <4>2, <4>4, <4>5
    <3>2. CASE ~(conn[w].kind # "silent" \/ conn[w].first < HeaderLen)
      <4>1. PICK b : Served([conn[w] EXCEPT !.by = b])
        BY <1>1, <2>5, <3>2 DEF IsmHandles, IsSilent
      <4>2. PICK c : /\ Served(c) /\ c.reply = "none" /\ c.outcome = conn[w].outcome
        BY <1>1, <4>1 DEF Session
      <4>3. QED
        BY <4>2, ServedFits
    <3>3. QED
      BY <3>1, <3>2
  <2>6. QED
    BY <2>1, <2>3, <2>4, <2>5
<1>7. QED
  BY <1>3, <1>4, <1>5, <1>6

\* The end of a process tells nobody anything.
LEMMA EndsFit ==
  ASSUME NInv, Fitting, IsmEnds \/ (\E p \in Ports : CmEnds(p))
  PROVE  Fitting'
<1>1. conn \in [Sessions -> Session]
  BY DEF NInv, Typed
<1>2. ASSUME NEW t \in Sessions
      PROVE  /\ conn'[t].kind = conn[t].kind /\ conn'[t].own = conn[t].own
             /\ conn'[t].first = conn[t].first
             /\ conn'[t].reply \in {conn[t].reply, "eof"}
             /\ conn'[t].outcome \in {conn[t].outcome, "cut"}
  <2>1. conn[t] \in Session
    BY <1>1
  <2>2. CASE IsmEnds
    BY <2>1, <2>2 DEF IsmEnds, Session
  <2>3. ASSUME NEW p \in Ports, CmEnds(p)
        PROVE  /\ conn'[t].kind = conn[t].kind /\ conn'[t].own = conn[t].own
               /\ conn'[t].first = conn[t].first /\ conn'[t].reply = conn[t].reply
               /\ conn'[t].outcome \in {conn[t].outcome, "cut"}
    <3>1. conn'[t] = conn[t] \/ conn'[t] = [conn[t] EXCEPT !.at = "over", !.outcome = "cut"]
      BY <2>3 DEF CmEnds
    <3>2. QED
      BY <2>1, <3>1 DEF Session
  <2>4. QED
    BY <2>2, <2>3
<1>3. ASSUME NEW t \in Sessions PROVE Fits(conn[t])'
  <2>1. Fits(conn[t])
    BY DEF Fitting
  <2>2. QED
    BY <1>2, <2>1 DEF Fits
<1>4. QED
  BY <1>3 DEF Fitting

\* Every step keeps everything fitting.
LEMMA NextFits ==
  ASSUME NInv, Fitting, [Next]_vars
  PROVE  Fitting'
<1>1. \A s \in Sessions : PortOf[s] \in Ports
  BY NetAssumption
<1>2. ASSUME NEW s \in Sessions, TerminalConnects(s) \/ CmAccepts(s) \/ Thread(s)
      PROVE  Fitting'
  <2>1. CASE ConnectFails(s)
    BY <1>1, <2>1, EndsFit DEF ConnectFails
  <2>2. QED
    BY <1>2, <2>1, ThreadFits DEF Thread
<1>3. CASE conn' = conn
  BY <1>3 DEF Fitting
<1>4. CASE IsmStep
  <2>1. CASE IsmAccepts
    BY <1>3, <2>1 DEF IsmAccepts
  <2>2. CASE IsmProcesses /\ IsmEnds
    BY <2>2, EndsFit
  <2>3. CASE \/ IsmReads \/ IsmReadsMore \/ IsmWakes
             \/ IsmProcesses /\ ~IsmEnds
    <3>1. ism.at \in {"read", "more", "sleep"}
      BY <2>3 DEF IsmReads, IsmReadsMore, IsmProcesses, IsmWakes
    <3>2. ism.who \in Sessions
      BY <3>1 DEF NInv, Typed, Lined, Module
    <3>3. QED
      BY <2>3, <3>2, IsmFits, SMTT(40)
  <2>4. QED
    BY <1>4, <2>1, <2>2, <2>3 DEF IsmStep
<1>5. ASSUME NEW p \in Ports, KillCm(p) PROVE Fitting'
  BY <1>5, EndsFit DEF KillCm
<1>6. CASE KillIsm
  BY <1>6, EndsFit DEF KillIsm
<1>7. CASE IsmRestarts \/ (\E p \in Ports : CmRestarts(p)) \/ UNCHANGED vars
  BY <1>3, <1>7 DEF IsmRestarts, CmRestarts, vars
<1>8. QED
  BY <1>2, <1>4, <1>5, <1>6, <1>7 DEF Next

\* Whatever was cut, killed or answered before: a terminal whose message is
\* read in one piece gets the reply its message asks for, or none.
THEOREM RepliesFit == Spec => []ReplyOfItsKind
<1>1. Init => Fitting
  <2> SUFFICES ASSUME Init PROVE Fitting
    OBVIOUS
  <2>1. \A s \in Sessions : conn[s].reply = "none" /\ conn[s].outcome = "none"
    BY DEF Init, Idle
  <2>2. QED
    BY <2>1 DEF Fitting, Fits
<1>2. NInv /\ Fitting /\ [Next]_vars => Fitting'
  BY NextFits
<1>3. Fitting => ReplyOfItsKind
  BY DEF Fitting, Fits, Whole, ReplyOfItsKind
<1>4. QED
  BY <1>1, <1>2, <1>3, AlwaysNInv, PTL DEF Spec

-----------------------------------------------------------------------------
(* That no process ends within the limits.                                 *)

\* No more terminals are connected than there were at most.
Peak == Cardinality(OpenSessions) <= most

\* Each empty connection lost one descriptor at most.
Counted == \A p \in Ports : cm[p].empties <= Cardinality(Emptied(p))

Calm == WithinLimits => hit = {} /\ ism.at # "down" /\ \A p \in Ports : cm[p].up

\* A session keeps its kind and its first read, stays over, and begins with its
\* terminal's connect.
Onward(c, d) ==
  /\ d.kind = c.kind
  /\ c.at = "over" => d.at = "over"
  /\ c.at = "off" => d.at = "off"
  /\ c.first # 0 => d.first = c.first

\* Every other step takes a session onward.
LEMMA StepsOnward ==
  ASSUME NInv, [Next]_vars, NEW t \in Sessions, ~TerminalConnects(t)
  PROVE  Onward(conn[t], conn'[t])
<1>1. conn \in [Sessions -> Session] /\ conn[t] \in Session
  BY DEF NInv, Typed
<1>2. ASSUME conn'[t] = conn[t] PROVE Onward(conn[t], conn'[t])
  BY <1>2 DEF Onward
<1>3. ASSUME NEW p, CmEnds(p) PROVE Onward(conn[t], conn'[t])
  <2>1. \/ conn'[t] = conn[t]
        \/ conn'[t] = [conn[t] EXCEPT !.at = "over", !.outcome = "cut"] /\ conn[t].at # "off"
    BY <1>3 DEF CmEnds, Open
  <2>2. QED
    BY <1>1, <1>2, <2>1 DEF Session, Onward
<1>4. ASSUME NEW s \in Sessions, TerminalConnects(s) \/ CmAccepts(s) \/ Thread(s)
      PROVE  Onward(conn[t], conn'[t])
  <2>1. CASE ConnectFails(s)
    BY <1>3, <2>1 DEF ConnectFails
  <2>2. CASE s # t /\ ~ConnectFails(s)
    <3>1. CASE TerminalConnects(s) \/ CmAccepts(s) \/ ReceiveNothing(s) \/ ConnectToIsm(s)
      <4>1. \E at : conn' = Set(s, at)
        BY <3>1 DEF TerminalConnects, CmAccepts, ReceiveNothing, ConnectToIsm
      <4>2. conn'[t] = conn[t]
        BY <1>1, <2>2, <4>1 DEF Set
      <4>3. QED
        BY <1>2, <4>2
    <3>2. CASE ReceivePing(s) \/ ReceiveMessage(s) \/ SendMessage(s) \/ ReturnReply(s)
      <4>1. conn'[t] = conn[t]
        BY <1>1, <2>2, <3>2 DEF ReceivePing, ReceiveMessage, SendMessage, ReturnReply
      <4>2. QED
        BY <1>2, <4>1
    <3>3. QED
      BY <1>4, <2>2, <3>1, <3>2 DEF Thread
  <2>3. CASE s = t
    <3>1. CASE CmAccepts(t) \/ ReceiveNothing(t) \/ ConnectToIsm(t)
      <4>1. PICK at : conn' = Set(t, at) /\ conn[t].at \notin {"off", "over"}
        BY <3>1 DEF CmAccepts, ReceiveNothing, ConnectToIsm
      <4>2. QED
        BY <1>1, <4>1 DEF Set, Onward, Session
    <3>2. CASE ReceivePing(t)
      BY <1>1, <3>2 DEF ReceivePing, Onward, Session
    <3>3. CASE ReceiveMessage(t)
      BY <1>1, <3>3 DEF ReceiveMessage, Onward, Session
    <3>4. CASE SendMessage(t)
      BY <1>1, <3>4 DEF SendMessage, Onward, Session
    <3>5. CASE ReturnReply(t)
      BY <1>1, <3>5 DEF ReturnReply, Onward, Session
    <3>6. QED
      BY <1>4, <2>1, <2>3, <3>1, <3>2, <3>3, <3>4, <3>5 DEF Thread
  <2>4. QED
    BY <2>1, <2>2, <2>3
<1>5. CASE IsmEnds
  BY <1>1, <1>5 DEF IsmEnds, Session, Onward
<1>6. ASSUME NEW c, Served(c), Onward(conn[ism.who], c) PROVE Onward(conn[t], conn'[t])
  BY <1>1, <1>2, <1>6 DEF Served
<1>7. CASE IsmStep
  <2>1. CASE IsmAccepts
    BY <1>2, <2>1 DEF IsmAccepts
  <2>2. CASE IsmProcesses /\ IsmEnds
    BY <1>5, <2>2
  <2>3. CASE \/ IsmReads \/ IsmReadsMore \/ IsmWakes
             \/ IsmProcesses /\ ~IsmEnds
    <3>1. PICK w \in Sessions : w = ism.who
      <4>1. ism.at \in {"read", "more", "sleep"}
        BY <2>3 DEF IsmReads, IsmReadsMore, IsmProcesses, IsmWakes
      <4>2. QED
        BY <4>1, SMTT(40) DEF NInv, Typed, Lined, Module
    <3>2. conn[w] \in Session /\ Serving = conn[w] /\ conn[w].first <= conn[w].read
      BY <3>1, ServingIs
    <3>3. CASE IsmReads
      <4>1. conn[w].first = 0
        <5>1. conn[w].read = 0
          BY <3>2, <3>3 DEF IsmReads, NInv, Awaited
        <5>2. conn[w].first \in Nat
          BY <3>2, Sizes, SMTT(40) DEF Session
        <5>3. QED
          BY <3>2, <5>1, <5>2
      <4>2. PICK n : \/ Served([conn[w] EXCEPT !.read = n, !.first = n, !.reply = "pong"])
                     \/ Served([conn[w] EXCEPT !.read = n, !.first = n, !.reply = "captura"])
                     \/ Served([conn[w] EXCEPT !.read = n, !.first = n])
        BY <3>2, <3>3 DEF IsmReads
      <4>3. /\ Onward(conn[w], [conn[w] EXCEPT !.read = n, !.first = n])
            /\ \A r : Onward(conn[w], [conn[w] EXCEPT !.read = n, !.first = n, !.reply = r])
        BY <3>2, <4>1 DEF Onward, Session
      <4>4. QED
        BY <1>6, <3>1, <4>2, <4>3
    <3>4. CASE IsmReadsMore
      <4>1. PICK n : Served([conn[w] EXCEPT !.read = conn[w].read + n])
        BY <3>2, <3>4 DEF IsmReadsMore
      <4>2. \A m : Onward(conn[w], [conn[w] EXCEPT !.read = m])
        BY <3>2 DEF Onward, Session
      <4>3. QED
        BY <1>6, <3>1, <4>1, <4>2
    <3>5. CASE IsmWakes
      <4>1. Served([conn[w] EXCEPT !.reply = AfterSleep])
        BY <3>2, <3>5 DEF IsmWakes, Answers
      <4>2. \A r : Onward(conn[w], [conn[w] EXCEPT !.reply = r])
        BY <3>2 DEF Onward, Session
      <4>3. QED
        BY <1>6, <3>1, <4>1, <4>2
    <3>6. CASE IsmProcesses /\ ~IsmEnds
      <4>1. CASE IsmRefuses
        BY <1>2, <4>1 DEF IsmRefuses
      <4>2. CASE IsmKnowsNoType
        <5>1. Served([conn[w] EXCEPT !.reply = "bare"])
          BY <3>2, <4>2 DEF IsmKnowsNoType, Answers
        <5>2. Onward(conn[w], [conn[w] EXCEPT !.reply = "bare"])
          BY <3>2 DEF Onward, Session
        <5>3. QED
          BY <1>6, <3>1, <5>1, <5>2
      <4>3. CASE IsmHandles
        <5>1. PICK b : \/ Served([conn[w] EXCEPT !.reply = "answer", !.by = b])
                       \/ Served([conn[w] EXCEPT !.by = b])
          BY <3>2, <4>3 DEF IsmHandles
        <5>2. Onward(conn[w], [conn[w] EXCEPT !.reply = "answer", !.by = b])
          BY <3>2 DEF Onward, Session
        <5>3. Onward(conn[w], [conn[w] EXCEPT !.by = b])
          BY <3>2 DEF Onward, Session
        <5>4. QED
          BY <1>6, <3>1, <5>1, <5>2, <5>3
      <4>4. QED
        BY <3>6, <4>1, <4>2, <4>3
        DEF IsmProcesses, IsmRefuses, IsmKnowsNoType, IsmHandles, IsmFails
    <3>7. QED
      BY <2>3, <3>3, <3>4, <3>5, <3>6
  <2>4. QED
    BY <1>7, <2>1, <2>2, <2>3 DEF IsmStep
<1>8. ASSUME NEW p \in Ports, KillCm(p) \/ CmRestarts(p)
      PROVE  Onward(conn[t], conn'[t])
  BY <1>2, <1>3, <1>8 DEF KillCm, CmRestarts
<1>9. CASE KillIsm \/ IsmRestarts \/ UNCHANGED vars
  BY <1>2, <1>5, <1>9 DEF KillIsm, IsmRestarts, vars
<1>10. QED
  BY <1>4, <1>7, <1>8, <1>9 DEF Next

\* A terminal that connects keeps its kind and its first read as well.
LEMMA KeepsWhatItWas ==
  ASSUME NInv, [Next]_vars, NEW t \in Sessions
  PROVE  /\ conn'[t].kind = conn[t].kind
         /\ conn[t].at = "over" => conn'[t].at = "over"
         /\ HeaderCut(t) => HeaderCut(t)'
<1>1. CASE TerminalConnects(t)
  <2>1. conn \in [Sessions -> Session] /\ conn[t] \in Session /\ conn' = Set(t, "queued")
        /\ conn[t].at = "off"
    BY <1>1 DEF NInv, Typed, TerminalConnects
  <2>2. conn'[t].kind = conn[t].kind /\ conn'[t].first = conn[t].first
    BY <2>1 DEF Set, Session
  <2>3. QED
    BY <2>1, <2>2 DEF HeaderCut
<1>2. CASE ~TerminalConnects(t)
  <2>1. Onward(conn[t], conn'[t])
    BY <1>2, StepsOnward
  <2>2. HeaderCut(t) => conn[t].first # 0
    BY DEF HeaderCut, HeaderLen
  <2>3. QED
    BY <2>1, <2>2 DEF Onward, HeaderCut
<1>3. QED
  BY <1>1, <1>2

\* The sets of empty sessions are finite, and grow.
LEMMA EmptiedGrows ==
  ASSUME NInv, [Next]_vars, NEW p \in Ports
  PROVE  /\ Emptied(p) \subseteq Emptied(p)' /\ IsFiniteSet(Emptied(p)) /\ IsFiniteSet(Emptied(p)')
         /\ Cardinality(Emptied(p)) \in Nat /\ Cardinality(Emptied(p)') \in Nat
         /\ Cardinality(Emptied(p)) <= Cardinality(Emptied(p)')
<1>1. Emptied(p) \in SUBSET Sessions /\ Emptied(p)' \in SUBSET Sessions
  BY DEF Emptied, On
<1>2. IsFiniteSet(Emptied(p)) /\ IsFiniteSet(Emptied(p)')
  BY <1>1, FS_Subset, NetAssumption
<1>3. Emptied(p) \subseteq Emptied(p)'
  BY KeepsWhatItWas DEF Emptied, On
<1>4. QED
  BY <1>2, <1>3, FS_Subset, FS_CardinalityType

\* The connected terminals can be counted.
LEMMA OpenFinite ==
  /\ IsFiniteSet(OpenSessions) /\ Cardinality(OpenSessions) \in Nat
<1>1. OpenSessions \in SUBSET Sessions
  BY DEF OpenSessions
<1>2. QED
  BY <1>1, FS_Subset, FS_CardinalityType, NetAssumption

\* Every step keeps the peak, which never falls.
LEMMA PeakStays ==
  ASSUME NInv, Peak, [Next]_vars
  PROVE  Peak' /\ most' \in Nat /\ most \in Nat /\ most <= most'
<1>1. most \in Nat
  BY DEF NInv, Typed
<1>2. IsFiniteSet(OpenSessions) /\ Cardinality(OpenSessions) \in Nat
  BY OpenFinite
<1>3. ASSUME NEW s \in Sessions, TerminalConnects(s)
      PROVE  Peak' /\ most' \in Nat /\ most <= most'
  <2> DEFINE n == Cardinality(OpenSessions) + 1
  <2>1. most' = IF n > most THEN n ELSE most
    BY <1>3 DEF TerminalConnects
  <2>2. OpenSessions' = OpenSessions \cup {s}
    <3>1. conn \in [Sessions -> Session] /\ conn[s] \in Session /\ conn' = Set(s, "queued")
      BY <1>3 DEF NInv, Typed, TerminalConnects
    <3>2. conn'[s].at = "queued" /\ \A t \in Sessions \ {s} : conn'[t] = conn[t]
      BY <3>1 DEF Set, Session
    <3>3. QED
      BY <3>2 DEF OpenSessions, Open
  <2>3. s \notin OpenSessions
    BY <1>3 DEF TerminalConnects, OpenSessions, Open
  <2>4. Cardinality(OpenSessions)' = n
    BY <1>2, <2>2, <2>3, FS_AddElement
  <2>5. n \in Nat
    BY <1>2
  <2> HIDE DEF n
  <2>6. QED
    BY <1>1, <2>1, <2>4, <2>5 DEF Peak
<1>4. ASSUME \A s \in Sessions : ~TerminalConnects(s)
      PROVE  Peak' /\ most' = most
  <2>1. most' = most
    <3>1. CASE UNCHANGED vars
      BY <3>1 DEF vars
    <3>2. ASSUME NEW s \in Sessions, CmAccepts(s) \/ Thread(s) PROVE most' = most
      BY <3>2, SMTT(40) DEF CmAccepts, Thread, ReceivePing, ReceiveNothing, ReceiveMessage, ConnectToIsm,
                  ConnectFails, SendMessage, ReturnReply
    <3>3. CASE IsmStep
      BY <3>3 DEF IsmStep, IsmAccepts, IsmReads, IsmReadsMore, IsmProcesses, IsmWakes
    <3>4. ASSUME NEW p \in Ports, KillCm(p) \/ CmRestarts(p) PROVE most' = most
      BY <3>4 DEF KillCm, CmRestarts
    <3>5. CASE KillIsm \/ IsmRestarts
      BY <3>5 DEF KillIsm, IsmRestarts
    <3>6. QED
      BY <1>4, <3>1, <3>2, <3>3, <3>4, <3>5 DEF Next
  <2>2. OpenSessions' \subseteq OpenSessions
    <3>1. \A t \in Sessions : Onward(conn[t], conn'[t])
      BY <1>4, StepsOnward
    <3>2. QED
      BY <3>1 DEF Onward, OpenSessions, Open
  <2>3. Cardinality(OpenSessions') <= Cardinality(OpenSessions) /\ Cardinality(OpenSessions') \in Nat
    BY <1>2, <2>2, FS_Subset, FS_CardinalityType
  <2>4. QED
    BY <1>1, <1>2, <2>1, <2>3 DEF Peak
<1>5. QED
  BY <1>1, <1>3, <1>4

\* What is outside the limits stays there.
LEMMA LimitsLeft ==
  ASSUME NInv, Peak, [Next]_vars, kills \in Nat, kills <= kills', kills' \in Nat, WithinLimits'
  PROVE  WithinLimits
<1>1. kills' = 0 /\ most' <= Backlog + 1 /\ \A s \in Sessions : ~HeaderCut(s)'
  BY DEF WithinLimits
<1>2. kills = 0
  BY <1>1
<1>3. \A s \in Sessions : ~HeaderCut(s)
  BY <1>1, KeepsWhatItWas
<1>4. most <= Backlog + 1 /\ most \in Nat /\ most' \in Nat /\ most <= most'
  BY <1>1, PeakStays, NetAssumption
<1>5. ASSUME NEW p \in Ports PROVE 2 * most + Cardinality(Emptied(p)) <= FdLimit
  <2>1. 2 * most' + Cardinality(Emptied(p)') <= FdLimit
    BY DEF WithinLimits
  <2>2. /\ Cardinality(Emptied(p)) \in Nat /\ Cardinality(Emptied(p)') \in Nat
        /\ Cardinality(Emptied(p)) <= Cardinality(Emptied(p)')
    BY EmptiedGrows
  <2>3. FdLimit \in Nat
    BY NetAssumption
  <2>4. QED
    BY <1>4, <2>1, <2>2, <2>3
<1>6. QED
  BY <1>2, <1>3, <1>4, <1>5 DEF WithinLimits

\* Every step keeps the count.
LEMMA CountedStays ==
  ASSUME NInv, Counted, [Next]_vars
  PROVE  Counted'
<1>1. cm \in [Ports -> [up : BOOLEAN, fds : Int, threads : Nat, empties : Nat]]
  BY DEF NInv, Typed
<1>2. \A s \in Sessions : PortOf[s] \in Ports
  BY NetAssumption
<1>3. ASSUME \A p \in Ports : cm'[p].empties \in {0, cm[p].empties}
      PROVE  Counted'
  <2>1. SUFFICES ASSUME NEW p \in Ports PROVE cm'[p].empties <= Cardinality(Emptied(p))'
    BY DEF Counted
  <2>2. cm[p].empties <= Cardinality(Emptied(p)) /\ cm[p].empties \in Nat
    BY <1>1 DEF Counted
  <2>3. QED
    BY <1>3, <2>2, EmptiedGrows
<1>4. ASSUME NEW p \in Ports, CmEnds(p) PROVE Counted'
  BY <1>1, <1>3, <1>4 DEF CmEnds, Fresh
<1>5. CASE cm' = cm
  BY <1>3, <1>5
<1>6. ASSUME NEW s \in Sessions, ReceiveNothing(s) PROVE Counted'
  <2>1. SUFFICES ASSUME NEW p \in Ports PROVE cm'[p].empties <= Cardinality(Emptied(p))'
    BY DEF Counted
  <2>2. cm[p].empties <= Cardinality(Emptied(p)) /\ cm[p].empties \in Nat
    BY <1>1 DEF Counted
  <2>3. CASE p # PortOf[s]
    <3>1. cm'[p].empties = cm[p].empties
      BY <1>1, <1>6, <2>3 DEF ReceiveNothing
    <3>2. QED
      BY <2>2, <3>1, EmptiedGrows
  <2>4. CASE p = PortOf[s]
    <3>1. cm'[p].empties = cm[p].empties + 1
      BY <1>1, <1>6, <2>4 DEF ReceiveNothing
    <3>2. s \notin Emptied(p)
      BY <1>6 DEF ReceiveNothing, Emptied
    <3>3. s \in Emptied(p)'
      <4>1. conn[s] \in Session /\ conn \in [Sessions -> Session]
        BY DEF NInv, Typed
      <4>2. conn'[s].at = "over" /\ conn'[s].kind = "none"
        BY <1>6, <4>1 DEF ReceiveNothing, Set, Session
      <4>3. QED
        BY <2>4, <4>2 DEF Emptied, On
    <3>4. Cardinality(Emptied(p)) # Cardinality(Emptied(p)')
      BY <3>2, <3>3, EmptiedGrows, FS_Subset
    <3>5. QED
      BY <2>2, <3>1, <3>4, EmptiedGrows
  <2>5. QED
    BY <2>3, <2>4
<1>7. ASSUME NEW s \in Sessions, TerminalConnects(s) \/ CmAccepts(s) \/ Thread(s)
      PROVE  Counted'
  <2>1. CASE TerminalConnects(s) \/ ReceiveMessage(s) \/ SendMessage(s)
    BY <1>5, <2>1 DEF TerminalConnects, ReceiveMessage, SendMessage
  <2>2. CASE CmAccepts(s)
    <3>1. \A p \in Ports : cm'[p].empties = cm[p].empties
      BY <1>1, <1>2, <2>2 DEF CmAccepts
    <3>2. QED
      BY <1>3, <3>1
  <2>3. CASE ReceivePing(s) \/ ConnectToIsm(s) \/ ReturnReply(s)
    <3>1. PICK n : cm' = [cm EXCEPT ![PortOf[s]].fds = n]
      BY <2>3 DEF ReceivePing, ConnectToIsm, ReturnReply, Closes
    <3>2. \A p \in Ports : cm'[p].empties = cm[p].empties
      BY <1>1, <3>1
    <3>3. QED
      BY <1>3, <3>2
  <2>4. CASE ConnectFails(s)
    BY <1>2, <1>4, <2>4 DEF ConnectFails
  <2>5. QED
    BY <1>6, <1>7, <2>1, <2>2, <2>3, <2>4 DEF Thread
<1>8. CASE IsmStep
  BY <1>5, <1>8
  DEF IsmStep, IsmAccepts, IsmReads, IsmReadsMore, IsmProcesses, IsmWakes
<1>9. ASSUME NEW p \in Ports, KillCm(p) \/ CmRestarts(p) PROVE Counted'
  <2>1. CASE KillCm(p)
    BY <1>4, <2>1 DEF KillCm
  <2>2. CASE CmRestarts(p)
    <3>1. \A q \in Ports : cm'[q].empties = cm[q].empties
      BY <1>1, <2>2 DEF CmRestarts
    <3>2. QED
      BY <1>3, <3>1
  <2>3. QED
    BY <1>9, <2>1, <2>2
<1>10. CASE KillIsm \/ IsmRestarts \/ UNCHANGED vars
  BY <1>5, <1>10 DEF KillIsm, IsmRestarts, vars
<1>11. QED
  BY <1>7, <1>8, <1>9, <1>10 DEF Next

\* A thread that connects finds a descriptor and a place in the queue.
LEMMA RoomForAll ==
  ASSUME NInv, Peak, Counted, WithinLimits, hit = {}, NEW s \in Sessions, conn[s].at = "connect"
  PROVE  cm[PortOf[s]].fds # FdLimit /\ ~QueueFull
<1> DEFINE p == PortOf[s]
           others == OpenSessions \ {s}
<1>1. /\ IsFiniteSet(OpenSessions) /\ Cardinality(OpenSessions) \in Nat
      /\ IsFiniteSet(others) /\ Cardinality(others) = Cardinality(OpenSessions) - 1
      /\ Backlog \in Nat /\ FdLimit \in Nat /\ p \in Ports /\ most \in Nat
  <2>1. s \in OpenSessions
    BY DEF OpenSessions, Open
  <2>2. IsFiniteSet(OpenSessions) /\ Cardinality(OpenSessions) \in Nat
    BY OpenFinite
  <2>3. IsFiniteSet(others) /\ Cardinality(others) = Cardinality(OpenSessions) - 1
    BY <2>1, <2>2, FS_RemoveElement
  <2>4. most \in Nat
    BY DEF NInv, Typed
  <2>5. QED
    BY <2>2, <2>3, <2>4, NetAssumption
<1>2. Len(queue) <= Cardinality(others)
  <2>1. queue \in Seq(Sessions) /\ Len(queue) \in Nat /\ DOMAIN queue = 1 .. Len(queue)
    BY DEF NInv, Typed
  <2>2. \A i \in DOMAIN queue : queue[i] \in others
    <3>1. SUFFICES ASSUME NEW i \in DOMAIN queue PROVE queue[i] \in others
      OBVIOUS
    <3>2. queue[i] \in Accepted /\ queue[i] \in Sessions
      BY <2>1 DEF Accepted
    <3>3. conn[queue[i]].at \in {"send", "await"}
      BY <3>2 DEF NInv, Awaited
    <3>4. QED
      BY <3>2, <3>3 DEF OpenSessions, Open
  <2>3. queue \in Injection(1 .. Len(queue), others)
    <3>1. queue \in [1 .. Len(queue) -> others]
      BY <2>1, <2>2
    <3>2. \A i, j \in 1 .. Len(queue) : queue[i] = queue[j] => i = j
      BY <2>1 DEF NInv, Lined
    <3>3. QED
      BY <3>1, <3>2 DEF Injection, IsInjective
  <2>4. Cardinality(1 .. Len(queue)) = Len(queue)
    <3>1. PICK n \in Nat : n = Len(queue)
      BY <2>1
    <3>2. 1 \in Int /\ n \in Int
      BY <3>1
    <3>3. Cardinality(1 .. n) = IF 1 > n THEN 0 ELSE n - 1 + 1
      BY <3>2, FS_Interval
    <3>4. QED
      BY <3>1, <3>3
  <2>5. QED
    BY <1>1, <2>3, <2>4, FS_Injection
<1>3. cm[p].fds < 2 * Cardinality(OpenSessions) + Cardinality(Emptied(p))
      /\ Cardinality(Emptied(p)) \in Nat
  <2>1. /\ ClientSockets(p) \subseteq OpenSessions
        /\ IsmSockets(p) \subseteq others
    BY DEF ClientSockets, IsmSockets, OpenSessions, Open, On
  <2>2. /\ Cardinality(ClientSockets(p)) \in Nat /\ Cardinality(IsmSockets(p)) \in Nat
    BY <1>1, SocketsFinite
  <2>3. /\ Cardinality(ClientSockets(p)) <= Cardinality(OpenSessions)
        /\ Cardinality(IsmSockets(p)) <= Cardinality(others)
    BY <1>1, <2>1, FS_Subset
  <2>4. Cardinality(Emptied(p)) \in Nat
    <3>1. Emptied(p) \in SUBSET Sessions
      BY DEF Emptied, On
    <3>2. QED
      BY <3>1, FS_Subset, FS_CardinalityType, NetAssumption
  <2>5. /\ cm[p].fds = Cardinality(ClientSockets(p)) + Cardinality(IsmSockets(p)) + cm[p].empties
        /\ cm[p].empties <= Cardinality(Emptied(p)) /\ cm[p].empties \in Nat
    BY <1>1 DEF NInv, Typed, DescriptorsAreAccounted, Counted
  <2> HIDE DEF p, others
  <2>6. QED
    BY <1>1, <2>2, <2>3, <2>4, <2>5
<1>4. cm[p].fds \in Int /\ Len(queue) \in Int
  BY <1>1 DEF NInv, Typed
<1>5. /\ most <= Backlog + 1 /\ 2 * most + Cardinality(Emptied(p)) <= FdLimit
      /\ Cardinality(OpenSessions) <= most
  BY <1>1 DEF WithinLimits, Peak
<1> HIDE DEF p, others
<1>6. cm[p].fds # FdLimit
  BY <1>1, <1>3, <1>4, <1>5
<1>7. ~QueueFull
  BY <1>1, <1>2, <1>4, <1>5 DEF QueueFull
<1>8. QED
  BY <1>6, <1>7 DEF p

\* A message whose header the ISM has is long enough for its handler.
LEMMA NoFailure ==
  ASSUME NInv, WithinLimits, hit = {}, IsmProcesses
  PROVE  ~IsmFails
<1>1. ism.at = "more" /\ ism.who \in Sessions
  BY DEF IsmProcesses, NInv, Typed, Lined, Module
<1>2. ~HeaderCut(ism.who)
  BY <1>1 DEF WithinLimits
<1>3. Serving.first \notin 1 .. 3
  BY <1>2 DEF HeaderCut, HeaderLen, Serving
<1>4. ism.size = MsgLen - 4
  BY <1>1, <1>3, MoreIs
<1>5. QED
  BY <1>4, Sizes DEF IsmFails, AcquirerLen

\* No step within the limits ends the calm.
LEMMA CalmStays ==
  ASSUME NInv, Peak, Counted, Calm, [Next]_vars
  PROVE  Calm'
<1>1. cm \in [Ports -> [up : BOOLEAN, fds : Int, threads : Nat, empties : Nat]] /\ ism \in Module
      /\ kills \in Nat
  BY NetAssumption DEF NInv, Typed
<1>2. \A s \in Sessions : PortOf[s] \in Ports
  BY NetAssumption
<1>3. ASSUME WithinLimits', kills' = kills
      PROVE  WithinLimits /\ hit = {} /\ ism.at # "down" /\ \A p \in Ports : cm[p].up
  BY <1>1, <1>3, LimitsLeft DEF Calm
<1>4. ASSUME hit' = hit, kills' = kills, ism.at # "down" => ism'.at # "down",
             \A p \in Ports : cm'[p].up = cm[p].up
      PROVE  Calm'
  BY <1>3, <1>4 DEF Calm
<1>5. ASSUME NEW s \in Sessions, TerminalConnects(s) \/ CmAccepts(s) \/ Thread(s)
      PROVE  Calm'
  <2>1. kills' = kills
    BY <1>5
    DEF Thread, TerminalConnects, CmAccepts, ReceivePing, ReceiveNothing, ReceiveMessage,
        ConnectToIsm, ConnectFails, SendMessage, ReturnReply
  <2>2. CASE ConnectFails(s)
    <3>1. ASSUME WithinLimits' PROVE FALSE
      <4>1. WithinLimits /\ hit = {} /\ ism.at # "down"
        BY <1>3, <2>1, <3>1
      <4>2. conn[s].at = "connect"
        BY <2>2 DEF ConnectFails
      <4>3. cm[PortOf[s]].fds # FdLimit /\ ~QueueFull
        BY <4>1, <4>2, RoomForAll
      <4>4. QED
        BY <2>2, <4>1, <4>3 DEF ConnectFails
    <3>2. QED
      BY <3>1 DEF Calm
  <2>3. CASE ~ConnectFails(s)
    <3>1. hit' = hit /\ ism' = ism
      BY <1>5, <2>3
      DEF Thread, TerminalConnects, CmAccepts, ReceivePing, ReceiveNothing, ReceiveMessage,
          ConnectToIsm, SendMessage, ReturnReply
    <3>2. \A p \in Ports : cm'[p].up = cm[p].up
      <4>1. CASE CmAccepts(s)
        BY <1>1, <1>2, <4>1 DEF CmAccepts
      <4>2. CASE ReceivePing(s) \/ ReceiveNothing(s) \/ ConnectToIsm(s) \/ ReturnReply(s)
        <5>1. PICK n : \/ cm' = [cm EXCEPT ![PortOf[s]].fds = n]
                       \/ cm' = [cm EXCEPT ![PortOf[s]].empties = n]
          BY <4>2 DEF ReceivePing, ReceiveNothing, ConnectToIsm, ReturnReply, Closes
        <5>2. QED
          BY <1>1, <5>1
      <4>3. CASE TerminalConnects(s) \/ ReceiveMessage(s) \/ SendMessage(s)
        BY <4>3 DEF TerminalConnects, ReceiveMessage, SendMessage
      <4>4. QED
        BY <1>5, <2>3, <4>1, <4>2, <4>3 DEF Thread
    <3>3. QED
      BY <1>4, <2>1, <3>1, <3>2
  <2>4. QED
    BY <2>2, <2>3
<1>6. CASE IsmStep
  <2>1. kills' = kills /\ cm' = cm
    BY <1>6 DEF IsmStep, IsmAccepts, IsmReads, IsmReadsMore, IsmProcesses, IsmWakes
  <2>2. CASE IsmProcesses /\ IsmFails
    <3>1. ~WithinLimits'
      BY <1>3, <2>1, <2>2, NoFailure
    <3>2. QED
      BY <3>1 DEF Calm
  <2>3. CASE IsmAccepts
    <3>1. ism'.at # "down" /\ hit' = hit
      BY <1>1, <2>3 DEF IsmAccepts, Module
    <3>2. QED
      BY <1>4, <2>1, <3>1
  <2>4. CASE IsmReads
    <3>1. hit' = hit
      BY <2>4 DEF IsmReads
    <3>2. ism'.at # "down"
      <4>1. PICK n \in Reads : \/ Finished
                               \/ ism' = [Stores(n) EXCEPT !.at = "more", !.size = Needed(Serving.kind, n)]
        BY <2>4 DEF IsmReads
      <4>2. DOMAIN Stores(n) = DOMAIN ism /\ "at" \in DOMAIN ism
        BY <1>1 DEF Stores, Module
      <4>3. CASE Finished
        BY <1>1, <4>3 DEF Finished, Module
      <4>4. CASE ism' = [Stores(n) EXCEPT !.at = "more", !.size = Needed(Serving.kind, n)]
        BY <1>1, <4>4 DEF Stores, Module
      <4>5. QED
        BY <4>1, <4>3, <4>4
    <3>3. QED
      BY <1>4, <2>1, <3>1, <3>2
  <2>5. CASE IsmReadsMore
    <3>1. hit' = hit
      BY <2>5 DEF IsmReadsMore
    <3>2. ism'.at # "down"
      BY <1>1, <2>5 DEF IsmReadsMore, Stores, Module
    <3>3. QED
      BY <1>4, <2>1, <3>1, <3>2
  <2>6. CASE IsmProcesses /\ ~IsmFails
    <3>1. hit' = hit
      BY <2>6 DEF IsmProcesses, IsmRefuses, IsmKnowsNoType, IsmHandles
    <3>2. ism'.at # "down"
      BY <1>1, <2>6 DEF IsmProcesses, IsmRefuses, IsmKnowsNoType, IsmHandles, Answers, Finished, Module
    <3>3. QED
      BY <1>4, <2>1, <3>1, <3>2
  <2>7. CASE IsmWakes
    <3>1. ism'.at # "down" /\ hit' = hit
      BY <1>1, <2>7 DEF IsmWakes, Answers, Finished, Module
    <3>2. QED
      BY <1>4, <2>1, <3>1
  <2>8. QED
    BY <1>6, <2>2, <2>3, <2>4, <2>5, <2>6, <2>7 DEF IsmStep
<1>7. CASE KillIsm \/ (\E p \in Ports : KillCm(p))
  <2>1. kills' = kills + 1
    BY <1>7 DEF KillIsm, KillCm
  <2>2. kills' # 0
    BY <1>1, <2>1
  <2>3. QED
    BY <2>2 DEF Calm, WithinLimits
<1>8. ASSUME NEW p \in Ports, CmRestarts(p) PROVE Calm'
  <2>1. kills' = kills /\ ~cm[p].up
    BY <1>8 DEF CmRestarts
  <2>2. ~WithinLimits'
    BY <1>3, <2>1
  <2>3. QED
    BY <2>2 DEF Calm
<1>9. CASE IsmRestarts
  <2>1. kills' = kills /\ ism.at = "down"
    BY <1>9 DEF IsmRestarts
  <2>2. ~WithinLimits'
    BY <1>3, <2>1
  <2>3. QED
    BY <2>2 DEF Calm
<1>10. CASE UNCHANGED vars
  BY <1>4, <1>10 DEF vars
<1>11. QED
  BY <1>5, <1>6, <1>7, <1>8, <1>9, <1>10 DEF Next

\* However many terminals come and go, with whatever messages: as long as no
\* more are connected at one time than the ISM's queue and the descriptors are
\* enough for, the thread that connects to the ISM never fails, so its exit(),
\* which ends cm_tcp for every terminal of the port, is never reached; and the
\* ISM ends only over a message whose header was cut.
THEOREM NobodyEndsWithinLimits == Spec => []NobodyEndsUnprovoked
<1>1. Init => Peak /\ Counted /\ Calm
  <2> SUFFICES ASSUME Init PROVE Peak /\ Counted /\ Calm
    OBVIOUS
  <2>1. \A s \in Sessions : conn[s].at = "off"
    BY DEF Init, Idle
  <2>2. ASSUME NEW p \in Ports PROVE cm[p].empties <= Cardinality(Emptied(p))
    <3>1. Emptied(p) = {}
      BY <2>1 DEF Emptied, On
    <3>2. cm[p].empties = 0
      BY DEF Init, Fresh
    <3>3. QED
      BY <3>1, <3>2, FS_EmptySet
  <2>3. Peak
    <3>1. OpenSessions = {}
      BY <2>1 DEF OpenSessions, Open
    <3>2. QED
      BY <3>1, FS_EmptySet DEF Init, Peak
  <2>4. QED
    BY <2>2, <2>3 DEF Init, Counted, Calm, Waiting, Fresh
<1>2. NInv /\ Peak /\ Counted /\ Calm /\ [Next]_vars => Peak' /\ Counted' /\ Calm'
  BY PeakStays, CountedStays, CalmStays
<1>3. Calm => NobodyEndsUnprovoked
  BY DEF Calm, NobodyEndsUnprovoked
<1>4. QED
  BY <1>1, <1>2, <1>3, AlwaysNInv, PTL DEF Spec

=============================================================================
