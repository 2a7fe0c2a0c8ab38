\* test_ism.c's one message, which cm_tcp may receive in two segments.
CONSTANTS
  s1 = s1 s2 = s2 s3 = s3 p7071 = p7071
  Sessions = {s1}
  Ports = {p7071}
  PortOf <- OnePort
  Kinds = {"iso"}
  MsgLen = 917
  Segments = {500}
  Splits = {400}
  Backlog = 3
  FdLimit = 8
  ThreadLimit = 4
  MaxKills = 0
  NoOne = NoOne
SPECIFICATION FairSpec
PROPERTIES IsoIsAnswered
CHECK_DEADLOCK FALSE
