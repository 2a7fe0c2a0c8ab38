\* One terminal's keep-alives with two troubles in between.
CONSTANTS
  ism = ism
  tool = tool
  None = None
  Null = Null
  NoRow = NoRow
  Procs = {ism, tool}
  Keys = {"nsu", "timestamp", "hostname", "app", "fw"}
  Timestamp = "timestamp"
  AppKey = "app"
  FwKey = "fw"
  HostKeys <- Hosts
  Values <- Texts
  Empty <- NoChars
  NullText <- NullChars
  Models <- TerminalModels
  Layouts <- Orders
  FirstVersions <- Installed
  FirstContents <- Configured
  OtherCalls <- OtherRequests
  ToolCalls <- Edits
  MaxTroubles = 2
SPECIFICATION FairSpec
INVARIANTS
  TypeOK HandlesReturned ReadsWhatWas WritesAreReported MistakesOnlyCutVersions AnswerWasConfigured
PROPERTIES CallsReturn Converges
