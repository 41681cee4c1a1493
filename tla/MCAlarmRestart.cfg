\* A reliable link, and power failures: an alarm left without its message.
SPECIFICATION Spec
CONSTANTS
  Sensors = {co2}
  CO = co
  LowSensors = {co2}
  Procs = {p1}
  Boot = p1
  MaxCount = 2
  CounterMod = 4
  LinkLoses = FALSE
  PowerFails = TRUE
INVARIANTS PendingCarried
