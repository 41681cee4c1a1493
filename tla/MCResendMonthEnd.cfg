\* A range that ends with the last day of a month.
SPECIFICATION Spec
CONSTANTS
  Files <- SomeFiles
  Ranges <- MonthEnd
  MaxLate = 0
  MaxStray = 0
INVARIANTS OnlyRangeIsSent
