\* Two connections of test_cm_tcp.c, to a process that may start one thread.
CONSTANTS
  s1 = s1 s2 = s2 s3 = s3 p7071 = p7071
  Sessions = {s1, s2}
  Ports = {p7071}
  PortOf <- OnePort
  Kinds = {"pingcm"}
  MsgLen = 917
  Segments = {}
  Splits = {}
  Backlog = 3
  FdLimit = 8
  ThreadLimit = 1
  MaxKills = 0
  NoOne = NoOne
SPECIFICATION FairSpec
PROPERTIES PingIsAnswered
CHECK_DEADLOCK FALSE
