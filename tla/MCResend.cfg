\* Ranges that end within a month, two answers that come late and a stray one.
SPECIFICATION FairSpec
CONSTANTS
  Files <- SomeFiles
  Ranges <- InnerRanges
  MaxLate = 2
  MaxStray = 1
INVARIANTS LossNeedsOk RangeIsSent OnlyRangeIsSent
PROPERTIES WalkEnds
