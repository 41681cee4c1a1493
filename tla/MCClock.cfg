SPECIFICATION FairSpec
CONSTANTS
  Times = {t1, t2}
  None = None
  MaxFrames = 1
INVARIANTS TypeOK WholeTimes ClocksAgree MidnightIsSet
PROPERTIES BoardFollows KeepsSyncing
