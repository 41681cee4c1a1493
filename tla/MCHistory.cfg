\* Four days of files, read in any order, and five messages after them.
SPECIFICATION Spec
CONSTANTS
  Files <- FourDays
  News <- MoreRecords
  Slots = 11
  Page = 2
  Hours = 4
  MinCurve = 0
INVARIANTS Chronological HistoryIsAll
PROPERTIES RowIsRecord PageNewestFirst CurveIsLastKnown
