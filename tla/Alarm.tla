------------------------------- MODULE Alarm -------------------------------
(***************************************************************************)
(* The alarm side of build_message() in src/web/cap.c: how the CAP process *)
(* turns the frames of the acquisition board into alarms, tells the server *)
(* about them, and keeps them in sensor_alarm.cfg across a power cycle.    *)
(*                                                                         *)
(* A frame that passes its CRC is a reading of a sensor, an "error" frame  *)
(* (the sensor is not inserted), or the TIME frame that ends a cycle.      *)
(* co_flash_alarm() forks a child which blinks the display and then        *)
(* RETURNS into build_message(): from then on it is one more CAP process,  *)
(* with a copy of the memory it was forked from.  So every piece of memory *)
(* is indexed by process, and only the file, the shared segment and the    *)
(* server are common.                                                      *)
(***************************************************************************)
EXTENDS Naturals

CONSTANTS
  Sensors,     \* the sensors with an alarm: co, co2, hcho, shidu, temp, pm25
  CO,          \* the sensor whose alarm flashes the display
  LowSensors,  \* the sensors whose lower limit a reading can undercut
  Procs,       \* process slots: more processes than these cannot be forked
  Boot,        \* the CAP process that main() forks
  MaxCount,    \* MAX_COUNT_TIMES: readings out of range that make an alarm
  CounterMod,  \* a sensortimes counter is a char: 256 values
  LinkLoses,   \* may a message to the server be lost?
  PowerFails   \* may the power fail?

ASSUME ProcAssumption == Boot \in Procs
ASSUME SensorAssumption == LowSensors \subseteq Sensors
ASSUME CountAssumption == /\ MaxCount \in Nat \ {0}
                          /\ CounterMod \in Nat
                          /\ MaxCount < CounterMod
ASSUME SwitchAssumption == LinkLoses \in BOOLEAN /\ PowerFails \in BOOLEAN

Bounds == {"below", "up"}                \* ALARM_BELOW, ALARM_UP
Kinds  == Bounds \cup {"uninsert"}       \* ... and ALARM_UNINSERT
Readings(s) == {"in", "up"} \cup (IF s \in LowSensors THEN {"below"} ELSE {})

VARIABLES
  live,    \* the CAP processes that run
  pc,      \* where each of them is in build_message()
  frame,   \* the reading each has in hand: its sensor and where it lies
  then,    \* what each does once its save is over
  mem,     \* sensor, sensortimes, the _send flags and warnning_msg of each
  disk,    \* sensor_alarm.cfg
  state,   \* g_state->sensor, the shared segment the display reads
  known,   \* the alarms the server holds for in force
  owed     \* history: alarms raised since boot, not yet reported or cleared

vars == <<live, pc, frame, then, mem, disk, state, known, owed>>

Flags  == [Sensors -> SUBSET Kinds]
Memory == [sensor : Flags,
           sent   : [Sensors -> BOOLEAN],
           times  : [Sensors -> 0 .. CounterMod - 1],
           warn   : Kinds \cup {"none"}]    \* the ALARM_TYPE of warnning_msg
Image  == [sensor : Flags, sent : [Sensors -> BOOLEAN]]
Frames == [s : Sensors, r : {"in"} \cup Bounds]

NoFlags == [s \in Sensors |-> {}]
Blank   == [sensor |-> NoFlags, sent |-> [s \in Sensors |-> FALSE]]

(* get_sensor_alarm_info(): the counters start at zero and warnning_msg is
   NULL; a file that is missing, or was cut short, leaves all flags clear. *)
Loaded(image) == [sensor |-> image.sensor,
                  sent   |-> image.sent,
                  times  |-> [s \in Sensors |-> 0],
                  warn   |-> "none"]

Boots(image) ==
  /\ live'  = {Boot}
  /\ pc'    = [p \in Procs |-> "idle"]
  /\ then'  = [p \in Procs |-> "idle"]
  /\ mem'   = [p \in Procs |-> Loaded(image)]
  /\ state' = image.sensor
  /\ owed'  = [p \in Procs |-> {}]

Init ==
  /\ live  = {Boot}
  /\ pc    = [p \in Procs |-> "idle"]
  /\ then  = [p \in Procs |-> "idle"]
  /\ \E s \in Sensors : frame = [p \in Procs |-> [s |-> s, r |-> "in"]]
  /\ mem   = [p \in Procs |-> Loaded(Blank)]
  /\ disk  = Blank
  /\ state = NoFlags
  /\ known = NoFlags
  /\ owed  = [p \in Procs |-> {}]
----------------------------------------------------------------------------
(* Messages to the server.  send_server_save_local() ignores the answer of
   send_web_post(): whether a message arrived makes no difference here.     *)

Arrives(news) == IF LinkLoses THEN SUBSET news ELSE {news}

(* Warnings and clearances are pairs of a sensor and a kind. *)
SendWarnings(news) ==
  \E got \in Arrives(news) :
    known' = [s \in Sensors |-> known[s] \cup {k \in Kinds : <<s, k>> \in got}]

clear_alarm(news) ==
  \E got \in Arrives(news) :
    known' = [s \in Sensors |-> known[s] \ {k \in Kinds : <<s, k>> \in got}]
----------------------------------------------------------------------------
(* The changes a frame makes to a process's memory. *)

(* Mutant: the alarm type is set on a message of its own, not warnning_msg. *)
WithAlarmUncarried(m, s, k) == [m EXCEPT !.sensor[s] = @ \cup {k}]

(* Mutant: a counter wider than a char. *)
WithCountWide(m, s) == [m EXCEPT !.times[s] = @ + 1]

WithCount(m, s)    == [m EXCEPT !.times[s] = (@ + 1) % CounterMod]
WithAlarm(m, s, k) == [m EXCEPT !.sensor[s] = @ \cup {k}, !.warn = k]

(* Mutant: an alarm in force does not stop another one. *)
RaiseDueAgain(m, s) == m.times[s] = MaxCount

(* The counter has just reached the limit and the sensor has no alarm yet. *)
RaiseDue(m, s) == m.times[s] = MaxCount /\ m.sensor[s] = {}

Goes(p, to, next) ==
  /\ pc'   = [pc EXCEPT ![p] = to]
  /\ then' = [then EXCEPT ![p] = next]
----------------------------------------------------------------------------
(* The handlers of one process p. *)

Waiting(p) == p \in live /\ pc[p] = "idle"

(* Mutant: the flag is cleared in memory but not saved. *)
ReadingEndsUninsertUnsaved(p, s, r) ==
  /\ Waiting(p)
  /\ "uninsert" \in mem[p].sensor[s]
  /\ frame' = [frame EXCEPT ![p] = [s |-> s, r |-> r]]
  /\ clear_alarm({<<s, "uninsert">>})
  /\ mem' = [mem EXCEPT ![p].sensor[s] = @ \ {"uninsert"}]
  /\ owed' = [owed EXCEPT ![p] = IF mem[p].sensor[s] = {"uninsert"} THEN @ \ {s} ELSE @]
  /\ Goes(p, "judge", "idle")
  /\ UNCHANGED <<live, disk, state>>

(* A reading arrives from a sensor that was not inserted: the server is told
   first, then the flag is cleared and saved, then the reading is judged.   *)
ReadingEndsUninsert(p, s, r) ==
  /\ Waiting(p)
  /\ "uninsert" \in mem[p].sensor[s]
  /\ frame' = [frame EXCEPT ![p] = [s |-> s, r |-> r]]
  /\ clear_alarm({<<s, "uninsert">>})
  /\ mem' = [mem EXCEPT ![p].sensor[s] = @ \ {"uninsert"}]
  /\ owed' = [owed EXCEPT ![p] = IF mem[p].sensor[s] = {"uninsert"} THEN @ \ {s} ELSE @]
  /\ Goes(p, "open", "judge")
  /\ UNCHANGED <<live, disk, state>>

ReadingOfInserted(p, s, r) ==
  /\ Waiting(p)
  /\ "uninsert" \notin mem[p].sensor[s]
  /\ frame' = [frame EXCEPT ![p] = [s |-> s, r |-> r]]
  /\ Goes(p, "judge", "idle")
  /\ UNCHANGED <<live, mem, disk, state, known, owed>>

(* Mutant: the alarm is dropped but the counter is not reset. *)
InRangeKeepsCount(p) ==
  LET s == frame[p].s
      ended == mem[p].sensor[s] \cap Bounds
  IN  /\ pc[p] = "judge"
      /\ frame[p].r = "in"
      /\ clear_alarm({<<s, k>> : k \in ended})
      /\ mem' = [mem EXCEPT ![p].sensor[s] = {}]
      /\ owed' = [owed EXCEPT ![p] = @ \ {s}]
      /\ Goes(p, IF ended = {} THEN "idle" ELSE "open", "idle")
      /\ UNCHANGED <<live, frame, disk, state>>

(* In range: the counter restarts; an alarm for a limit is cleared at the
   server, and then all flags of the sensor are dropped and saved.          *)
InRange(p) ==
  LET s == frame[p].s
      ended == mem[p].sensor[s] \cap Bounds
  IN  /\ pc[p] = "judge"
      /\ frame[p].r = "in"
      /\ clear_alarm({<<s, k>> : k \in ended})
      /\ IF ended = {}
           THEN /\ mem' = [mem EXCEPT ![p].times[s] = 0]
                /\ Goes(p, "idle", "idle")
                /\ UNCHANGED owed
           ELSE /\ mem' = [mem EXCEPT ![p].times[s] = 0, ![p].sensor[s] = {}]
                /\ Goes(p, "open", "idle")
                /\ owed' = [owed EXCEPT ![p] = @ \ {s}]
      /\ UNCHANGED <<live, frame, disk, state>>

(* Out of range, and no alarm is due: the counter goes on, modulo 256. *)
OutOfRange(p) ==
  LET s == frame[p].s
  IN  /\ pc[p] = "judge"
      /\ frame[p].r \in Bounds
      /\ ~RaiseDue(WithCount(mem[p], s), s)
      /\ mem' = [mem EXCEPT ![p] = WithCount(@, s)]
      /\ Goes(p, "idle", "idle")
      /\ UNCHANGED <<live, frame, disk, state, known, owed>>

(* Out of range once too often.  For CO the process tries to fork first: the
   child stops at its fork with the counter raised and the flag not yet set. *)
RaiseAlarm(p) ==
  LET s == frame[p].s
  IN  /\ pc[p] = "judge"
      /\ frame[p].r \in Bounds
      /\ RaiseDue(WithCount(mem[p], s), s)
      /\ s = CO => Procs = live               \* fork() fails
      /\ mem' = [mem EXCEPT ![p] = WithAlarm(WithCount(@, s), s, frame[p].r)]
      /\ Goes(p, "open", "rearm")
      /\ UNCHANGED <<live, frame, disk, state, known, owed>>

RaiseAlarmForking(p, child) ==
  LET s == frame[p].s
  IN  /\ pc[p] = "judge"
      /\ frame[p].r \in Bounds
      /\ RaiseDue(WithCount(mem[p], s), s)
      /\ s = CO
      /\ child \notin live
      /\ live' = live \cup {child}
      /\ mem' = [mem EXCEPT ![p] = WithAlarm(WithCount(@, s), s, frame[p].r),
                            ![child] = WithCount(mem[p], s)]
      /\ pc' = [pc EXCEPT ![p] = "open", ![child] = "flash"]
      /\ then' = [then EXCEPT ![p] = "rearm", ![child] = "rearm"]
      /\ frame' = [frame EXCEPT ![child] = frame[p]]
      /\ owed' = [owed EXCEPT ![child] = owed[p]]
      /\ UNCHANGED <<disk, state, known>>

(* The child has flashed for nine seconds and returns into build_message(). *)
co_flash_alarm(p) ==
  /\ pc[p] = "flash"
  /\ mem' = [mem EXCEPT ![p] = WithAlarm(@, frame[p].s, frame[p].r)]
  /\ pc' = [pc EXCEPT ![p] = "open"]
  /\ UNCHANGED <<live, frame, then, disk, state, known, owed>>

(* An error frame; one for a sensor already marked is ignored. *)
ErrorFrame(p, s) ==
  /\ Waiting(p)
  /\ "uninsert" \notin mem[p].sensor[s]
  /\ mem' = [mem EXCEPT ![p] = [WithAlarm(@, s, "uninsert") EXCEPT !.sent[s] = FALSE]]
  /\ owed' = [owed EXCEPT ![p] = @ \cup {s}]
  /\ Goes(p, "open", "idle")
  /\ UNCHANGED <<live, frame, disk, state, known>>

(* The TIME frame: one warning for every alarm not yet reported, all with the
   type of the alarm raised last; then warnning_msg is freed.               *)
TimeFrame(p) ==
  LET pending == {s \in Sensors : mem[p].sensor[s] # {} /\ ~mem[p].sent[s]}
  IN  /\ Waiting(p)
      /\ mem[p].warn # "none"
      /\ SendWarnings({<<s, mem[p].warn>> : s \in pending})
      /\ mem' = [mem EXCEPT ![p].sent = [s \in Sensors |-> @[s] \/ s \in pending],
                            ![p].warn = "none"]
      /\ owed' = [owed EXCEPT ![p] = @ \ pending]
      /\ UNCHANGED <<live, pc, frame, then, disk, state>>

(* save_sensor_alarm_info(): fopen "w" empties the file, fclose() fills it. *)
SaveOpen(p) ==
  /\ pc[p] = "open"
  /\ pc' = [pc EXCEPT ![p] = "write"]
  /\ disk' = Blank
  /\ state' = mem[p].sensor
  /\ UNCHANGED <<live, frame, then, mem, known, owed>>

(* The _send flag of a new alarm is cleared only after the file is written. *)
SaveWrite(p) ==
  LET s == frame[p].s
      rearm == then[p] = "rearm"
  IN  /\ pc[p] = "write"
      /\ disk' = [sensor |-> mem[p].sensor, sent |-> mem[p].sent]
      /\ mem' = IF rearm THEN [mem EXCEPT ![p].sent[s] = FALSE] ELSE mem
      /\ owed' = IF rearm THEN [owed EXCEPT ![p] = @ \cup {s}] ELSE owed
      /\ Goes(p, IF then[p] = "judge" THEN "judge" ELSE "idle", "idle")
      /\ UNCHANGED <<live, frame, state, known>>

PowerCycle ==
  /\ PowerFails
  /\ Boots(disk)
  /\ UNCHANGED <<frame, disk, known>>
----------------------------------------------------------------------------
Handle(p) ==
  \/ \E s \in Sensors, r \in {"in"} \cup Bounds :
       /\ r \in Readings(s)
       /\ ReadingEndsUninsert(p, s, r) \/ ReadingOfInserted(p, s, r)
  \/ InRange(p)
  \/ OutOfRange(p)
  \/ RaiseAlarm(p)
  \/ \E child \in Procs : RaiseAlarmForking(p, child)
  \/ co_flash_alarm(p)
  \/ \E s \in Sensors : ErrorFrame(p, s)
  \/ TimeFrame(p)
  \/ SaveOpen(p)
  \/ SaveWrite(p)

Next == (\E p \in Procs : Handle(p)) \/ PowerCycle

Spec == Init /\ [][Next]_vars
----------------------------------------------------------------------------
(* Every variable holds the kind of value the declarations say; sensortimes
   stays within its char.                                                   *)
TypeOK ==
  /\ live \subseteq Procs
  /\ pc    \in [Procs -> {"idle", "judge", "flash", "open", "write"}]
  /\ then  \in [Procs -> {"idle", "judge", "rearm"}]
  /\ frame \in [Procs -> Frames]
  /\ mem   \in [Procs -> Memory]
  /\ disk  \in Image
  /\ state \in Flags
  /\ known \in Flags
  /\ owed  \in [Procs -> SUBSET Sensors]

(* A counter that has passed the limit belongs to a sensor with a limit alarm:
   the test `sensortimes.co==MAX_COUNT_TIMES' is an equality on a counter that
   wraps, yet no run of bad readings slips past it, whatever not-inserted
   spells, clearances and power cycles come between.  (A child that still
   flashes has not returned to the line that sets the flag.)                *)
CountedAlarm ==
  \A p \in Procs, s \in Sensors :
    pc[p] # "flash" /\ mem[p].times[s] >= MaxCount => mem[p].sensor[s] \cap Bounds # {}

(* A sensor is never marked too low and too high at once, in no process and
   not in the file: two saves of different processes cannot merge either.   *)
OneBound ==
  /\ \A p \in Procs, s \in Sensors : ~(Bounds \subseteq mem[p].sensor[s])
  /\ \A s \in Sensors : ~(Bounds \subseteq disk.sensor[s])

(* An alarm raised since boot and not yet reported or cleared still has its
   _send flag clear and a warnning_msg to travel with, though all sensors
   share that one message and each alarm overwrites it.                     *)
OwedCarried ==
  \A p \in Procs : pc[p] = "idle" =>
    \A s \in owed[p] : /\ mem[p].sensor[s] # {}
                       /\ ~mem[p].sent[s]
                       /\ mem[p].warn # "none"

(* While one process runs, the file and the shared segment hold exactly its
   flags whenever it waits for a frame: every path that changes them saves. *)
DiskFollows ==
  \A p \in Procs : live = {p} /\ pc[p] = "idle" =>
    disk.sensor = mem[p].sensor /\ state = mem[p].sensor

(* What a comment promises of every alarm, "need send server alarm": a sensor
   in alarm and not yet reported has a message to be reported with.  It fails:
   after a power cycle the flags are back and warnning_msg is not.          *)
PendingCarried ==
  \A p \in live, s \in Sensors :
    pc[p] = "idle" /\ mem[p].sensor[s] # {} /\ ~mem[p].sent[s] => mem[p].warn # "none"

(* With a link that loses nothing and power that never fails, a sensor that
   is in alarm and marked as reported is in alarm at the server.  It fails:
   one message carries one type, and clearing that type leaves none.        *)
ReportedIsKnown ==
  \A p \in live, s \in Sensors :
    pc[p] = "idle" /\ mem[p].sensor[s] # {} /\ mem[p].sent[s] => known[s] # {}
============================================================================
