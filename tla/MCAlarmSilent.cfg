\* A reliable link, no power failures, one sensor and one process.
SPECIFICATION Spec
CONSTANTS
  Sensors = {co2}
  CO = co
  LowSensors = {co2}
  Procs = {p1}
  Boot = p1
  MaxCount = 2
  CounterMod = 4
  LinkLoses = FALSE
  PowerFails = FALSE
INVARIANTS ReportedIsKnown
