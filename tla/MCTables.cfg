\* One terminal and the six files of ISM/tables; two terminals and two short
\* tables, with an unreadable configuration and crashes.
CONSTANTS
  Terminals = {t1, t2}
  Tables = {0, 1, 2, 3, 4, 5, 6, 7}
  RowSizes <- AllTables
  FieldLimit = 999
  ListMax = 100
  NoFile = NoFile
  ConfigFaults = TRUE
SPECIFICATION MCSpec
INVARIANTS TypeOK RowsInOrder WholeUnlessDisturbed FieldsFit
PROPERTIES DownloadEnds
