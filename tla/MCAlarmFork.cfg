\* The CO sensor alone, room for one forked process beside the first.
SPECIFICATION Spec
CONSTANTS
  Sensors = {co}
  CO = co
  LowSensors = {}
  Procs = {p1, p2}
  Boot = p1
  MaxCount = 2
  CounterMod = 4
  LinkLoses = FALSE
  PowerFails = TRUE
INVARIANTS OwedCarried
