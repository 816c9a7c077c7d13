SPECIFICATION Spec
CONSTANTS
  Base = 4
  IntSize = 2
  ColumnInfo <- SmallInfo
  Ints = {7}
  Strings <- SmallStrings
  MaxRow = 4
INVARIANT RoundTrip
CHECK_DEADLOCK FALSE
