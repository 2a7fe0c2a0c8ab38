\* Everything a terminal may send on one port.  What cm_tcp's first recv returns
\* of an ISO message is enough for the ISM to stop waiting, whose reads may be
\* cut inside the header or in the lengths it takes for other messages.  One
\* process is killed.
CONSTANTS
  s1 = s1 s2 = s2 s3 = s3 p7071 = p7071
  Sessions = {s1, s2}
  Ports = {p7071}
  PortOf <- OnePort
  Kinds = {"iso", "silent", "ping", "paynet", "pingcm", "none"}
  MsgLen = 917
  Segments = {1, 913}
  Splits = {2, 6}
  Backlog = 1
  FdLimit = 4
  ThreadLimit = 4
  MaxKills = 1
  NoOne = NoOne
SPECIFICATION FairSpec
INVARIANTS
  TypeOK ReplyOfItsKind HandledForItsSender
PROPERTIES SessionsEnd
CHECK_DEADLOCK FALSE
