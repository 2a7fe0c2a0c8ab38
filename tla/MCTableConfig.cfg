\* The comment of both handlers about correcting the configuration.
CONSTANTS
  Terminals = {t1, t2}
  Tables = {0, 1}
  RowSizes <- SmallTables
  FieldLimit = 20
  ListMax = 10
  NoFile = NoFile
  ConfigFaults = TRUE
SPECIFICATION Spec
INVARIANT ConfigNamesATable
