\* Three terminals at the limits of one cm_tcp process: two threads, four
\* descriptors, two places in the ISM's queue.  A message may be cut anywhere,
\* and a terminal may wait for ever.
CONSTANTS
  s1 = s1 s2 = s2 s3 = s3 p7071 = p7071
  Sessions = {s1, s2, s3}
  Ports = {p7071}
  PortOf <- OnePort
  Kinds = {"iso", "silent", "pingcm", "none"}
  MsgLen = 917
  Segments = {5, 12}
  Splits = {2}
  Backlog = 1
  FdLimit = 4
  ThreadLimit = 2
  MaxKills = 1
  NoOne = NoOne
SPECIFICATION Spec
INVARIANTS
  UnansweredHasACause NobodyEndsUnprovoked DescriptorsAreAccounted
CHECK_DEADLOCK FALSE
SYMMETRY Alike
