\* One CAP process, two sensors, reliable link, power failures.
SPECIFICATION Spec
CONSTANTS
  Sensors = {co, co2}
  CO = co
  LowSensors = {co2}
  Procs = {p1}
  Boot = p1
  MaxCount = 2
  CounterMod = 4
  LinkLoses = FALSE
  PowerFails = TRUE
INVARIANTS TypeOK CountedAlarm OneBound OwedCarried DiskFollows
