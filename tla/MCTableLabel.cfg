\* The comment of iso_ChargeProcess about the name in its answer.
CONSTANTS
  Terminals = {t1, t2}
  Tables = {0, 1}
  RowSizes <- SmallTables
  FieldLimit = 20
  ListMax = 10
  NoFile = NoFile
  ConfigFaults = FALSE
SPECIFICATION Spec
INVARIANT LabelNamesRows
