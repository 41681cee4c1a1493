\* Two processes at one modem, answers as late as they like.
SPECIFICATION FairSpec
CONSTANTS
  Procs = {cap, sync}
  MaxTries = 2
  MaxCalls = 1
  Header <- NoHeader
  Replies = {"ok", "json", "error"}
  Late = TRUE
INVARIANTS TypeOK AckedIsStored BodyIsOwn
PROPERTIES ImplementsLink CallsReturn
CHECK_DEADLOCK FALSE
