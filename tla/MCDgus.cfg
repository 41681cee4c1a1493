SPECIFICATION Spec
CONSTANTS
  Words = 1
  MinPassword = 2
  Names <- NameSet
  Passwords <- PasswordSet
  MaxTouches = 5
  MaxWaiting = 9
  MaxFaults = 1
  MaxFailures = 1
INVARIANTS BackInStep ModeIsSaved
PROPERTIES NetworkIsTyped OkStoresShown
CHECK_DEADLOCK FALSE
