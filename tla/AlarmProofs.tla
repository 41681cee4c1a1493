---------------------------- MODULE AlarmProofs ----------------------------
(***************************************************************************)
(* Proofs about Alarm, for any sensors, any number of processes and any    *)
(* counter width that the limit fits in.                                   *)
(***************************************************************************)
EXTENDS Alarm, TLAPS

(***************************************************************************)
(* The inductive invariant, for the memory m of a process that is at c in   *)
(* build_message() with frame f in hand and n to do after its save.        *)
(* CountedAlarm alone is not inductive: a counter that meets the limit      *)
(* raises an alarm only if the sensor has no flag at all, so a sensor being *)
(* judged must not be marked as not inserted, and a child that still        *)
(* flashes must owe its flag.                                               *)
(***************************************************************************)
Counts(m, f, c) ==
  \A s \in Sensors : m.times[s] >= MaxCount =>
    m.sensor[s] \cap Bounds # {} \/ (c = "flash" /\ s = f.s)

JudgesInserted(m, f, c, n) ==
  c = "judge" \/ (c \in {"open", "write"} /\ n = "judge") => "uninsert" \notin m.sensor[f.s]

FlashOwesFlag(m, f, c) ==
  c = "flash" => m.sensor[f.s] = {} /\ f.r \in Bounds

Sound(m, f, c, n) == Counts(m, f, c) /\ JudgesInserted(m, f, c, n) /\ FlashOwesFlag(m, f, c)

SoundInv == \A p \in Procs : Sound(mem[p], frame[p], pc[p], then[p])

CountedInv == TypeOK /\ SoundInv

(* Values of the right kind stay of the right kind under the helpers. *)
LEMMA HelperTypes ==
  ASSUME NEW m \in Memory, NEW s \in Sensors, NEW k \in Kinds
  PROVE  /\ WithCount(m, s) \in Memory
         /\ WithAlarm(m, s, k) \in Memory
         /\ [WithAlarm(m, s, k) EXCEPT !.sent[s] = FALSE] \in Memory
         /\ [m EXCEPT !.sensor[s] = @ \ {"uninsert"}] \in Memory
         /\ [m EXCEPT !.times[s] = 0] \in Memory
         /\ [m EXCEPT !.times[s] = 0, !.sensor[s] = {}] \in Memory
         /\ [m EXCEPT !.sent[s] = FALSE] \in Memory
<1>1. (m.times[s] + 1) % CounterMod \in 0 .. CounterMod - 1
  BY CountAssumption DEF Memory
<1>2. 0 \in 0 .. CounterMod - 1
  BY CountAssumption
<1>3. m.sensor[s] \cup {k} \in SUBSET Kinds /\ m.sensor[s] \ {"uninsert"} \in SUBSET Kinds
  BY DEF Memory, Flags
<1>4. WithCount(m, s) \in Memory /\ [m EXCEPT !.times[s] = 0] \in Memory
  BY <1>1, <1>2 DEF Memory, WithCount
<1>5. WithAlarm(m, s, k) \in Memory /\ [m EXCEPT !.sensor[s] = @ \ {"uninsert"}] \in Memory
  BY <1>3 DEF Memory, Flags, WithAlarm
<1>6. [m EXCEPT !.sent[s] = FALSE] \in Memory
  BY DEF Memory
<1>7. [WithAlarm(m, s, k) EXCEPT !.sent[s] = FALSE] \in Memory
  BY <1>5 DEF Memory
<1>8. [m EXCEPT !.times[s] = 0, !.sensor[s] = {}] \in Memory
  BY <1>2 DEF Memory, Flags
<1>9. QED
  BY <1>4, <1>5, <1>6, <1>7, <1>8

(* Counting changes one counter alone. *)
LEMMA CountFields ==
  ASSUME NEW m \in Memory, NEW s \in Sensors
  PROVE  /\ WithCount(m, s).sensor = m.sensor
         /\ WithCount(m, s).sent = m.sent
         /\ WithCount(m, s).warn = m.warn
  BY DEF WithCount, Memory

(* An alarm adds its flag and overwrites the message. *)
LEMMA AlarmFields ==
  ASSUME NEW m \in Memory, NEW s \in Sensors, NEW k \in Kinds
  PROVE  /\ WithAlarm(m, s, k).sensor = [m.sensor EXCEPT ![s] = @ \cup {k}]
         /\ WithAlarm(m, s, k).sent = m.sent
         /\ WithAlarm(m, s, k).warn = k
  BY DEF WithAlarm, Memory

LEMMA CountTimes ==
  ASSUME NEW m \in Memory, NEW s \in Sensors
  PROVE  WithCount(m, s).times = [m.times EXCEPT ![s] = (@ + 1) % CounterMod]
  BY DEF WithCount, Memory

LEMMA AlarmTimes ==
  ASSUME NEW m \in Memory, NEW s \in Sensors, NEW k \in Kinds
  PROVE  WithAlarm(m, s, k).times = m.times
  BY DEF WithAlarm, Memory

(* An alarm that is raised for a limit keeps the count. *)
LEMMA RaisedCounts ==
  ASSUME NEW m \in Memory, NEW f \in Frames, NEW c, Counts(m, f, "judge"), f.r \in Bounds
  PROVE  Counts(WithAlarm(WithCount(m, f.s), f.s, f.r), f, c)
<1> DEFINE n == WithAlarm(WithCount(m, f.s), f.s, f.r)
<1>1. WithCount(m, f.s) \in Memory /\ f.s \in Sensors /\ f.r \in Kinds
  BY HelperTypes DEF Frames, Kinds
<1>2. n.sensor = [m.sensor EXCEPT ![f.s] = @ \cup {f.r}]
  BY <1>1, CountFields, AlarmFields
<1>2a. n.times = [m.times EXCEPT ![f.s] = (@ + 1) % CounterMod]
  <2>1. n.times = WithCount(m, f.s).times
    BY <1>1, AlarmTimes
  <2>2. WithCount(m, f.s).times = [m.times EXCEPT ![f.s] = (@ + 1) % CounterMod]
    BY <1>1, CountTimes
  <2>3. QED
    BY <2>1, <2>2
<1>3. m.sensor \in [Sensors -> SUBSET Kinds] /\ DOMAIN m.times = Sensors
  BY DEF Memory, Flags
<1>4. n.sensor[f.s] \cap Bounds # {}
  BY <1>1, <1>2, <1>3
<1>5. \A s \in Sensors : s # f.s => n.sensor[s] = m.sensor[s] /\ n.times[s] = m.times[s]
  BY <1>1, <1>2, <1>2a, <1>3
<1>6. QED
  BY <1>4, <1>5 DEF Counts

LEMMA LoadedType ==
  ASSUME NEW image \in Image
  PROVE  Loaded(image) \in Memory
  BY CountAssumption DEF Loaded, Image, Memory

LEMMA BlankType == Blank \in Image /\ NoFlags \in Flags
  BY DEF Blank, NoFlags, Image, Flags

LEMMA TypeInit == Init => TypeOK
  BY LoadedType, BlankType, ProcAssumption DEF Init, TypeOK, Frames

(* Every step keeps every variable within its type, the 8-bit counters
   included.                                                                *)
LEMMA TypeStep ==
  ASSUME CountedInv, [Next]_vars
  PROVE  TypeOK'
<1> USE DEF CountedInv, TypeOK
<1>1. ASSUME NEW p \in Procs, Handle(p) PROVE TypeOK'
  <2>0. mem[p] \in Memory /\ frame[p].s \in Sensors
    BY DEF Frames
  <2>1. ASSUME NEW s \in Sensors, NEW r \in {"in"} \cup Bounds,
               ReadingEndsUninsert(p, s, r) PROVE TypeOK'
    <3>1. [mem[p] EXCEPT !.sensor[s] = @ \ {"uninsert"}] \in Memory
      BY <2>0, HelperTypes DEF Kinds
    <3>2. mem' \in [Procs -> Memory]
      BY <2>1, <3>1 DEF ReadingEndsUninsert
    <3>3. frame' \in [Procs -> Frames]
      BY <2>1 DEF ReadingEndsUninsert, Frames
    <3>4. known' \in Flags
      BY <2>1 DEF ReadingEndsUninsert, clear_alarm, Flags
    <3>5. QED
      BY <2>1, <3>2, <3>3, <3>4 DEF ReadingEndsUninsert, Goes
  <2>2. ASSUME NEW s \in Sensors, NEW r \in {"in"} \cup Bounds,
               ReadingOfInserted(p, s, r) PROVE TypeOK'
    BY <2>2 DEF ReadingOfInserted, Goes, Frames
  <2>3. CASE InRange(p)
    <3> DEFINE s == frame[p].s
    <3>1. /\ [mem[p] EXCEPT !.times[s] = 0] \in Memory
          /\ [mem[p] EXCEPT !.times[s] = 0, !.sensor[s] = {}] \in Memory
      BY <2>0, HelperTypes DEF Kinds
    <3>2. mem' \in [Procs -> Memory]
      BY <2>3, <3>1 DEF InRange
    <3>3. known' \in Flags
      BY <2>3 DEF InRange, clear_alarm, Flags
    <3>4. owed' \in [Procs -> SUBSET Sensors]
      BY <2>3 DEF InRange
    <3>5. QED
      BY <2>3, <3>2, <3>3, <3>4 DEF InRange, Goes
  <2>4. CASE OutOfRange(p)
    <3>1. WithCount(mem[p], frame[p].s) \in Memory
      BY <2>0, HelperTypes DEF Kinds
    <3>2. mem' \in [Procs -> Memory]
      BY <2>4, <3>1 DEF OutOfRange
    <3>3. QED
      BY <2>4, <3>2 DEF OutOfRange, Goes
  <2>5. CASE RaiseAlarm(p)
    <3>1. WithAlarm(WithCount(mem[p], frame[p].s), frame[p].s, frame[p].r) \in Memory
      BY <2>0, <2>5, HelperTypes DEF RaiseAlarm, Kinds
    <3>2. mem' \in [Procs -> Memory]
      BY <2>5, <3>1 DEF RaiseAlarm
    <3>3. QED
      BY <2>5, <3>2 DEF RaiseAlarm, Goes
  <2>6. ASSUME NEW child \in Procs, RaiseAlarmForking(p, child) PROVE TypeOK'
    <3>1. /\ WithCount(mem[p], frame[p].s) \in Memory
          /\ WithAlarm(WithCount(mem[p], frame[p].s), frame[p].s, frame[p].r) \in Memory
      BY <2>0, <2>6, HelperTypes DEF RaiseAlarmForking, Kinds
    <3>2. mem' \in [Procs -> Memory]
      BY <2>6, <3>1 DEF RaiseAlarmForking
    <3>3. QED
      BY <2>6, <3>2 DEF RaiseAlarmForking
  <2>7. CASE co_flash_alarm(p)
    <3>1. WithAlarm(mem[p], frame[p].s, frame[p].r) \in Memory
      BY <2>0, <2>7, HelperTypes DEF co_flash_alarm, SoundInv, Sound, FlashOwesFlag, Kinds
    <3>2. QED
      BY <2>7, <3>1 DEF co_flash_alarm
  <2>8. ASSUME NEW s \in Sensors, ErrorFrame(p, s) PROVE TypeOK'
    <3>1. [WithAlarm(mem[p], s, "uninsert") EXCEPT !.sent[s] = FALSE] \in Memory
      BY <2>0, HelperTypes DEF Kinds
    <3>2. mem' \in [Procs -> Memory]
      BY <2>8, <3>1 DEF ErrorFrame
    <3>3. QED
      BY <2>8, <3>2 DEF ErrorFrame, Goes
  <2>9. CASE TimeFrame(p)
    <3>1. mem' \in [Procs -> Memory]
      <4> DEFINE sent == [s \in Sensors |-> mem[p].sent[s] \/ (mem[p].sensor[s] # {} /\ ~mem[p].sent[s])]
                 after == [mem[p] EXCEPT !.sent = sent, !.warn = "none"]
      <4>1. mem' = [mem EXCEPT ![p] = after]
        BY <2>9 DEF TimeFrame
      <4>2. after \in Memory
        BY <2>0 DEF Memory
      <4>3. QED
        BY <4>1, <4>2
    <3>2. known' \in Flags
      BY <2>9 DEF TimeFrame, SendWarnings, Flags
    <3>3. QED
      BY <2>9, <3>1, <3>2 DEF TimeFrame
  <2>10. CASE SaveOpen(p)
    BY <2>10, BlankType DEF SaveOpen, Memory
  <2>11. CASE SaveWrite(p)
    <3>1. [mem[p] EXCEPT !.sent[frame[p].s] = FALSE] \in Memory
      BY <2>0, HelperTypes DEF Kinds
    <3>2. mem' \in [Procs -> Memory]
      BY <2>11, <3>1 DEF SaveWrite
    <3>3. disk' \in Image
      BY <2>0, <2>11 DEF SaveWrite, Memory, Image
    <3>4. owed' \in [Procs -> SUBSET Sensors]
      BY <2>0, <2>11 DEF SaveWrite
    <3>5. QED
      BY <2>11, <3>2, <3>3, <3>4 DEF SaveWrite, Goes
  <2>12. QED
    BY <1>1, <2>1, <2>2, <2>3, <2>4, <2>5, <2>6, <2>7, <2>8, <2>9, <2>10, <2>11
    DEF Handle
<1>2. CASE PowerCycle
  BY <1>2, LoadedType, ProcAssumption DEF PowerCycle, Boots, Image, Flags
<1>3. CASE UNCHANGED vars
  BY <1>3 DEF vars
<1>4. QED
  BY <1>1, <1>2, <1>3 DEF Next

(* No step loses count. *)
LEMMA CountStep ==
  ASSUME CountedInv, [Next]_vars
  PROVE  SoundInv'
<1> USE DEF CountedInv
<1>1. ASSUME NEW p \in Procs, Handle(p) PROVE SoundInv'
  <2> DEFINE m == mem[p]
             f == frame[p]
             Others == \A q \in Procs \ {p} :
                         UNCHANGED <<mem[q], frame[q], pc[q], then[q]>>
             SoundHere == Sound(mem[p], frame[p], pc[p], then[p])
  <2>0. /\ mem[p] \in Memory /\ frame[p] \in Frames /\ frame[p].s \in Sensors
        /\ SoundHere
    BY DEF TypeOK, Frames, SoundInv
  <2>00. Others /\ SoundHere' => SoundInv'
    BY DEF SoundInv
  <2>1. ASSUME NEW s \in Sensors, NEW r \in {"in"} \cup Bounds,
               ReadingEndsUninsert(p, s, r) PROVE SoundInv'
    <3>1. /\ Others
          /\ mem'[p] = [m EXCEPT !.sensor[s] = @ \ {"uninsert"}]
          /\ frame'[p] = [s |-> s, r |-> r]
          /\ pc'[p] = "open" /\ then'[p] = "judge" /\ pc[p] = "idle"
      BY <2>1 DEF ReadingEndsUninsert, Waiting, Goes, TypeOK
    <3>2. QED
      BY <2>0, <2>00, <3>1
      DEF Sound, Counts, JudgesInserted, FlashOwesFlag, Memory, Flags, Bounds
  <2>2. ASSUME NEW s \in Sensors, NEW r \in {"in"} \cup Bounds,
               ReadingOfInserted(p, s, r) PROVE SoundInv'
    <3>1. /\ Others
          /\ mem'[p] = m
          /\ frame'[p] = [s |-> s, r |-> r]
          /\ pc'[p] = "judge" /\ "uninsert" \notin m.sensor[s] /\ pc[p] = "idle"
      BY <2>2 DEF ReadingOfInserted, Waiting, Goes, TypeOK
    <3>2. QED
      BY <2>0, <2>00, <3>1 DEF Sound, Counts, JudgesInserted, FlashOwesFlag
  <2>3. CASE InRange(p)
    <3>1. /\ Others
          /\ frame'[p] = f /\ pc[p] = "judge"
          /\ \/ mem'[p] = [m EXCEPT !.times[f.s] = 0] /\ pc'[p] = "idle"
             \/ /\ mem'[p] = [m EXCEPT !.times[f.s] = 0, !.sensor[f.s] = {}]
                /\ pc'[p] = "open" /\ then'[p] = "idle"
      BY <2>3 DEF InRange, Goes, TypeOK
    <3>2. /\ mem'[p].times[f.s] = 0
          /\ \A s \in Sensors : s # f.s => /\ mem'[p].times[s] = m.times[s]
                                           /\ mem'[p].sensor[s] = m.sensor[s]
      <4>1. CASE mem'[p] = [m EXCEPT !.times[f.s] = 0]
        BY <2>0, <4>1 DEF Memory
      <4>2. CASE mem'[p] = [m EXCEPT !.times[f.s] = 0, !.sensor[f.s] = {}]
        BY <2>0, <4>2 DEF Memory, Flags
      <4>3. QED
        BY <3>1, <4>1, <4>2
    <3>3. Counts(mem'[p], f, "open") /\ Counts(mem'[p], f, "idle")
      BY <2>0, <3>1, <3>2, CountAssumption DEF Sound, Counts
    <3>4. QED
      BY <2>00, <3>1, <3>3 DEF Sound, JudgesInserted, FlashOwesFlag
  <2>4. CASE OutOfRange(p)
    <3>1. /\ Others
          /\ mem'[p] = [m EXCEPT !.times[f.s] = (@ + 1) % CounterMod]
          /\ frame'[p] = f /\ pc[p] = "judge" /\ pc'[p] = "idle"
          /\ ~(mem'[p].times[f.s] = MaxCount /\ m.sensor[f.s] = {})
      <4>1. /\ mem'[p] = WithCount(m, f.s) /\ frame'[p] = f /\ pc[p] = "judge" /\ pc'[p] = "idle"
            /\ Others /\ ~RaiseDue(WithCount(m, f.s), f.s)
        BY <2>4 DEF OutOfRange, Goes, TypeOK
      <4>2. WithCount(m, f.s).sensor = m.sensor
        BY <2>0, CountFields
      <4>3. QED
        BY <4>1, <4>2 DEF WithCount, RaiseDue
    <3>2. mem'[p].times[f.s] >= MaxCount =>
            m.times[f.s] >= MaxCount \/ mem'[p].times[f.s] = MaxCount
      <4>1. mem'[p].times[f.s] = (m.times[f.s] + 1) % CounterMod /\ m.times[f.s] \in 0 .. CounterMod - 1
        BY <2>0, <3>1 DEF Memory
      <4>2. QED
        BY <4>1, CountAssumption
    <3>3. "uninsert" \notin m.sensor[f.s] /\ m.sensor[f.s] \in SUBSET Kinds
      BY <2>0, <3>1 DEF Sound, JudgesInserted, Memory, Flags
    <3>4. \A s \in Sensors : /\ mem'[p].sensor[s] = m.sensor[s]
                             /\ s # f.s => mem'[p].times[s] = m.times[s]
      BY <2>0, <3>1 DEF Memory
    <3>5. Counts(mem'[p], f, "idle")
      <4>a. /\ \A s \in Sensors : s # f.s /\ m.times[s] >= MaxCount => m.sensor[s] \cap Bounds # {}
            /\ Counts(mem'[p], f, "idle") <=>
                 \A s \in Sensors : mem'[p].times[s] >= MaxCount => mem'[p].sensor[s] \cap Bounds # {}
        BY <2>0, <3>1 DEF Sound, Counts
      <4>1. CASE mem'[p].times[f.s] >= MaxCount
        <5>1. m.times[f.s] >= MaxCount \/ m.sensor[f.s] # {}
          BY <3>1, <3>2, <4>1
        <5>2. m.sensor[f.s] \cap Bounds # {}
          <6>1. CASE m.times[f.s] >= MaxCount
            BY <2>0, <3>1, <6>1 DEF Sound, Counts
          <6>2. CASE m.sensor[f.s] # {}
            BY <3>3, <6>2 DEF Kinds
          <6>3. QED
            BY <5>1, <6>1, <6>2
        <5>3. QED
          BY <3>4, <5>2, <4>a
      <4>2. CASE ~(mem'[p].times[f.s] >= MaxCount)
        BY <3>4, <4>2, <4>a
      <4>3. QED
        BY <4>1, <4>2
    <3>6. QED
      BY <2>00, <3>1, <3>5 DEF Sound, JudgesInserted, FlashOwesFlag
  <2>5. CASE RaiseAlarm(p)
    <3>1. /\ Others
          /\ mem'[p] = WithAlarm(WithCount(m, f.s), f.s, f.r) /\ f.r \in Bounds
          /\ frame'[p] = f /\ pc[p] = "judge" /\ pc'[p] = "open" /\ then'[p] = "rearm"
      BY <2>5 DEF RaiseAlarm, Goes, TypeOK
    <3>2. Counts(mem'[p], f, "open")
      BY <2>0, <3>1, RaisedCounts DEF Sound
    <3>3. QED
      BY <2>00, <3>1, <3>2 DEF Sound, JudgesInserted, FlashOwesFlag
  <2>6. ASSUME NEW child \in Procs, RaiseAlarmForking(p, child) PROVE SoundInv'
    <3>1. /\ \A q \in Procs \ {p, child} : UNCHANGED <<mem[q], frame[q], pc[q], then[q]>>
          /\ f.r \in Bounds /\ pc[p] = "judge"
          /\ WithCount(m, f.s).sensor[f.s] = {}
      BY <2>6 DEF RaiseAlarmForking, TypeOK, RaiseDue
    <3>2. mem'[child] = WithCount(m, f.s) /\ frame'[child] = f /\ pc'[child] = "flash"
      BY <2>6 DEF RaiseAlarmForking, TypeOK
    <3>3. ASSUME p # child PROVE SoundHere'
      <4>1. /\ mem'[p] = WithAlarm(WithCount(m, f.s), f.s, f.r)
            /\ frame'[p] = f /\ pc'[p] = "open" /\ then'[p] = "rearm"
        BY <2>6, <3>3 DEF RaiseAlarmForking, TypeOK
      <4>2. Counts(mem'[p], f, "open")
        BY <2>0, <3>1, <4>1, RaisedCounts DEF Sound
      <4>3. QED
        BY <4>1, <4>2 DEF Sound, JudgesInserted, FlashOwesFlag
    <3>4. Sound(mem'[child], frame'[child], pc'[child], then'[child])
      <4>1. Counts(WithCount(m, f.s), f, "flash")
        BY <2>0, <3>1 DEF Sound, Counts, WithCount, Memory, Flags
      <4>2. QED
        BY <3>1, <3>2, <4>1 DEF Sound, JudgesInserted, FlashOwesFlag
    <3>5. \A q \in Procs \ {p, child} : Sound(mem'[q], frame'[q], pc'[q], then'[q])
      BY <3>1 DEF SoundInv
    <3>6. QED
      BY <3>3, <3>4, <3>5 DEF SoundInv
  <2>7. CASE co_flash_alarm(p)
    <3>1. /\ Others
          /\ mem'[p] = WithAlarm(m, f.s, f.r) /\ f.r \in Bounds
          /\ frame'[p] = f /\ pc'[p] = "open" /\ m.sensor[f.s] = {}
      BY <2>0, <2>7 DEF co_flash_alarm, TypeOK, Sound, FlashOwesFlag
    <3>2. Counts(mem'[p], f, "open")
      BY <2>0, <3>1 DEF Sound, Counts, WithAlarm, Memory, Flags
    <3>3. "uninsert" \notin mem'[p].sensor[f.s]
      BY <2>0, <3>1 DEF WithAlarm, Memory, Flags, Bounds
    <3>4. QED
      BY <2>00, <3>1, <3>2, <3>3 DEF Sound, JudgesInserted, FlashOwesFlag
  <2>8. ASSUME NEW s \in Sensors, ErrorFrame(p, s) PROVE SoundInv'
    <3>1. /\ Others
          /\ mem'[p] = [WithAlarm(m, s, "uninsert") EXCEPT !.sent[s] = FALSE]
          /\ frame'[p] = f /\ pc[p] = "idle" /\ pc'[p] = "open" /\ then'[p] = "idle"
      BY <2>8 DEF ErrorFrame, Waiting, Goes, TypeOK
    <3>2. Counts(mem'[p], f, "open")
      BY <2>0, <3>1 DEF Sound, Counts, WithAlarm, Memory, Flags
    <3>3. QED
      BY <2>00, <3>1, <3>2 DEF Sound, JudgesInserted, FlashOwesFlag
  <2>9. CASE TimeFrame(p)
    <3>1. /\ Others
          /\ mem'[p].sensor = m.sensor /\ mem'[p].times = m.times
          /\ frame'[p] = f /\ pc'[p] = pc[p] /\ then'[p] = then[p]
      BY <2>0, <2>9 DEF TimeFrame, TypeOK, Memory
    <3>2. QED
      BY <2>0, <2>00, <3>1 DEF Sound, Counts, JudgesInserted, FlashOwesFlag
  <2>10. CASE SaveOpen(p)
    <3>1. /\ Others
          /\ mem'[p] = m /\ frame'[p] = f
          /\ pc[p] = "open" /\ pc'[p] = "write" /\ then'[p] = then[p]
      BY <2>10 DEF SaveOpen, TypeOK
    <3>2. QED
      BY <2>0, <2>00, <3>1 DEF Sound, Counts, JudgesInserted, FlashOwesFlag
  <2>11. CASE SaveWrite(p)
    <3>1. /\ Others
          /\ mem'[p].sensor = m.sensor /\ mem'[p].times = m.times
          /\ frame'[p] = f /\ pc[p] = "write"
          /\ pc'[p] = (IF then[p] = "judge" THEN "judge" ELSE "idle") /\ then'[p] = "idle"
      BY <2>0, <2>11 DEF SaveWrite, Goes, TypeOK, Memory
    <3>2. QED
      BY <2>0, <2>00, <3>1 DEF Sound, Counts, JudgesInserted, FlashOwesFlag
  <2>12. QED
    BY <1>1, <2>1, <2>2, <2>3, <2>4, <2>5, <2>6, <2>7, <2>8, <2>9, <2>10, <2>11
    DEF Handle
<1>2. CASE PowerCycle
  BY <1>2, CountAssumption
  DEF PowerCycle, Boots, Loaded, SoundInv, Sound, Counts, JudgesInserted, FlashOwesFlag
<1>3. CASE UNCHANGED vars
  BY <1>3 DEF vars, SoundInv
<1>4. QED
  BY <1>1, <1>2, <1>3 DEF Next

(* The counters and the flags of the sensors never part: the induction. *)
LEMMA CountedInvariant == Spec => []CountedInv
<1>1. Init => CountedInv
  <2> SUFFICES ASSUME Init PROVE SoundInv
    BY TypeInit DEF CountedInv
  <2> QED
    BY CountAssumption
    DEF Init, SoundInv, Sound, Counts, JudgesInserted, FlashOwesFlag, Loaded
<1>2. CountedInv /\ [Next]_vars => CountedInv'
  BY TypeStep, CountStep DEF CountedInv
<1>3. QED
  BY <1>1, <1>2, PTL DEF Spec

(* Every behaviour of the program keeps its variables within their types. *)
THEOREM TypeCorrect == Spec => []TypeOK
  BY CountedInvariant, PTL DEF CountedInv

(* No run of readings out of range slips past the equality test on the 8-bit
   counter, whatever the frames, forks, saves and power cycles.             *)
THEOREM CountedCorrect == Spec => []CountedAlarm
<1>1. CountedInv => CountedAlarm
  BY DEF CountedInv, SoundInv, Sound, Counts, CountedAlarm
<1>2. QED
  BY <1>1, CountedInvariant, PTL

(***************************************************************************)
(* The second inductive invariant.  What is owed is carried at every point *)
(* of build_message(), not only between frames, and a process about to     *)
(* clear a _send flag after its save has the flag and the message for it.  *)
(***************************************************************************)
Carried(m, o, f, c, n) ==
  /\ \A s \in o : m.sensor[s] # {} /\ ~m.sent[s] /\ m.warn # "none"
  /\ c \in {"open", "write"} /\ n = "rearm" => m.sensor[f.s] # {} /\ m.warn # "none"

CarriedInv == \A p \in Procs : Carried(mem[p], owed[p], frame[p], pc[p], then[p])

(* No step drops the flag, the clear _send or the message of what is owed:
   not the fork that copies them, nor the save between flag and _send.      *)
LEMMA CarriedStep ==
  ASSUME CountedInv, CarriedInv, [Next]_vars
  PROVE  CarriedInv'
<1> USE DEF CountedInv
<1>1. ASSUME NEW p \in Procs, Handle(p) PROVE CarriedInv'
  <2> DEFINE m == mem[p]
             f == frame[p]
             o == owed[p]
             Others == \A q \in Procs \ {p} :
                         UNCHANGED <<mem[q], owed[q], frame[q], pc[q], then[q]>>
             CarriedHere == Carried(mem[p], owed[p], frame[p], pc[p], then[p])
  <2>0. /\ m \in Memory /\ f \in Frames /\ f.s \in Sensors /\ o \subseteq Sensors
        /\ Sound(m, f, pc[p], then[p]) /\ CarriedHere
    BY DEF TypeOK, Frames, SoundInv, CarriedInv
  <2>00. Others /\ CarriedHere' => CarriedInv'
    BY DEF CarriedInv
  <2>1. ASSUME NEW s \in Sensors, NEW r \in {"in"} \cup Bounds,
               ReadingEndsUninsert(p, s, r) PROVE CarriedInv'
    <3>1. /\ Others
          /\ mem'[p] = [m EXCEPT !.sensor[s] = @ \ {"uninsert"}]
          /\ owed'[p] = IF m.sensor[s] = {"uninsert"} THEN o \ {s} ELSE o
          /\ then'[p] = "judge" /\ "uninsert" \in m.sensor[s]
      BY <2>1 DEF ReadingEndsUninsert, Goes, TypeOK
    <3>2. \A t \in owed'[p] : /\ mem'[p].sensor[t] # {}
                              /\ ~mem'[p].sent[t] /\ mem'[p].warn # "none"
      BY <2>0, <3>1 DEF Carried, Memory, Flags
    <3>3. QED
      BY <2>00, <3>1, <3>2 DEF Carried
  <2>2. ASSUME NEW s \in Sensors, NEW r \in {"in"} \cup Bounds,
               ReadingOfInserted(p, s, r) PROVE CarriedInv'
    <3>1. Others /\ mem'[p] = m /\ owed'[p] = o /\ pc'[p] = "judge"
      BY <2>2 DEF ReadingOfInserted, Goes, TypeOK
    <3>2. QED
      BY <2>0, <2>00, <3>1 DEF Carried
  <2>3. CASE InRange(p)
    <3>1. /\ Others /\ then'[p] = "idle"
          /\ \/ mem'[p] = [m EXCEPT !.times[f.s] = 0] /\ owed'[p] = o
             \/ /\ mem'[p] = [m EXCEPT !.times[f.s] = 0, !.sensor[f.s] = {}]
                /\ owed'[p] = o \ {f.s}
      <4>1. CASE m.sensor[f.s] \cap Bounds = {}
        BY <2>3, <4>1 DEF InRange, Goes, TypeOK
      <4>2. CASE m.sensor[f.s] \cap Bounds # {}
        BY <2>3, <4>2 DEF InRange, Goes, TypeOK
      <4>3. QED
        BY <4>1, <4>2
    <3>2. \A t \in owed'[p] : /\ mem'[p].sensor[t] # {}
                              /\ ~mem'[p].sent[t] /\ mem'[p].warn # "none"
      <4>1. CASE mem'[p] = [m EXCEPT !.times[f.s] = 0] /\ owed'[p] = o
        BY <2>0, <4>1 DEF Carried, Memory
      <4>2. CASE /\ mem'[p] = [m EXCEPT !.times[f.s] = 0, !.sensor[f.s] = {}]
                 /\ owed'[p] = o \ {f.s}
        BY <2>0, <4>2 DEF Carried, Memory, Flags
      <4>3. QED
        BY <3>1, <4>1, <4>2
    <3>3. QED
      BY <2>00, <3>1, <3>2 DEF Carried
  <2>4. CASE OutOfRange(p)
    <3>1. /\ Others /\ mem'[p] = WithCount(m, f.s)
          /\ owed'[p] = o /\ pc'[p] = "idle"
      BY <2>4 DEF OutOfRange, Goes, TypeOK
    <3>2. /\ mem'[p].sensor = m.sensor /\ mem'[p].sent = m.sent
          /\ mem'[p].warn = m.warn
      BY <2>0, <3>1, CountFields
    <3>3. QED
      BY <2>0, <2>00, <3>1, <3>2 DEF Carried
  <2>5. CASE RaiseAlarm(p)
    <3>1. /\ Others /\ mem'[p] = WithAlarm(WithCount(m, f.s), f.s, f.r)
          /\ f.r \in Bounds /\ owed'[p] = o /\ frame'[p] = f
      BY <2>5 DEF RaiseAlarm, Goes, TypeOK
    <3>2. /\ mem'[p].warn # "none" /\ mem'[p].sent = m.sent
          /\ mem'[p].sensor = [m.sensor EXCEPT ![f.s] = @ \cup {f.r}]
      <4>1. WithCount(m, f.s) \in Memory /\ f.r \in Kinds /\ f.r # "none"
        BY <2>0, <3>1, HelperTypes DEF Kinds, Bounds
      <4>2. QED
        BY <2>0, <3>1, <4>1, CountFields, AlarmFields
    <3>3. \A t \in o : mem'[p].sensor[t] # {} /\ ~mem'[p].sent[t]
      BY <2>0, <3>2 DEF Carried, Memory, Flags
    <3>4. mem'[p].sensor[f.s] # {}
      BY <2>0, <3>2 DEF Memory, Flags
    <3>5. QED
      BY <2>00, <3>1, <3>2, <3>3, <3>4 DEF Carried
  <2>6. ASSUME NEW child \in Procs, RaiseAlarmForking(p, child) PROVE CarriedInv'
    <3>1. /\ \A q \in Procs \ {p, child} :
               UNCHANGED <<mem[q], owed[q], frame[q], pc[q], then[q]>>
          /\ f.r \in Bounds
          /\ mem'[child] = WithCount(m, f.s) /\ owed'[child] = o /\ pc'[child] = "flash"
      BY <2>6 DEF RaiseAlarmForking, TypeOK
    <3>2. ASSUME p # child PROVE CarriedHere'
      <4>1. /\ mem'[p] = WithAlarm(WithCount(m, f.s), f.s, f.r)
            /\ owed'[p] = o /\ frame'[p] = f
        BY <2>6, <3>2 DEF RaiseAlarmForking, TypeOK
      <4>2. WithCount(m, f.s) \in Memory /\ f.r \in Kinds /\ f.r # "none"
        BY <2>0, <3>1, HelperTypes DEF Kinds, Bounds
      <4>3. /\ mem'[p].warn # "none" /\ mem'[p].sent = m.sent
            /\ mem'[p].sensor = [m.sensor EXCEPT ![f.s] = @ \cup {f.r}]
        BY <2>0, <4>1, <4>2, CountFields, AlarmFields
      <4>4. \A t \in o : mem'[p].sensor[t] # {} /\ ~mem'[p].sent[t]
        BY <2>0, <4>3 DEF Carried, Memory, Flags
      <4>5. mem'[p].sensor[f.s] # {}
        BY <2>0, <4>3 DEF Memory, Flags
      <4>6. QED
        BY <4>1, <4>3, <4>4, <4>5 DEF Carried
    <3>3. Carried(mem'[child], owed'[child], frame'[child], pc'[child], then'[child])
      BY <2>0, <3>1, SMTT(30) DEF Carried, WithCount, Memory
    <3>4. \A q \in Procs \ {p, child} :
            Carried(mem'[q], owed'[q], frame'[q], pc'[q], then'[q])
      BY <3>1 DEF CarriedInv
    <3>5. QED
      BY <3>2, <3>3, <3>4 DEF CarriedInv
  <2>7. CASE co_flash_alarm(p)
    <3>1. /\ Others /\ mem'[p] = WithAlarm(m, f.s, f.r) /\ f.r \in Bounds
          /\ owed'[p] = o /\ frame'[p] = f
      BY <2>0, <2>7 DEF co_flash_alarm, TypeOK, Sound, FlashOwesFlag
    <3>2. /\ mem'[p].warn # "none" /\ mem'[p].sent = m.sent
          /\ mem'[p].sensor = [m.sensor EXCEPT ![f.s] = @ \cup {f.r}]
      <4>1. f.r \in Kinds /\ f.r # "none"
        BY <3>1 DEF Bounds, Kinds
      <4>2. QED
        BY <2>0, <3>1, <4>1, AlarmFields
    <3>3. \A t \in Sensors : m.sensor[t] # {} => mem'[p].sensor[t] # {}
      BY <2>0, <3>2 DEF Memory, Flags
    <3>4. mem'[p].sensor[f.s] # {}
      BY <2>0, <3>2 DEF Memory, Flags
    <3>5. \A t \in o : mem'[p].sensor[t] # {} /\ ~mem'[p].sent[t]
      BY <2>0, <3>2, <3>3 DEF Carried
    <3>6. QED
      BY <2>0, <2>00, <3>1, <3>2, <3>4, <3>5 DEF Carried
  <2>8. ASSUME NEW s \in Sensors, ErrorFrame(p, s) PROVE CarriedInv'
    <3>1. /\ Others /\ then'[p] = "idle" /\ owed'[p] = o \cup {s}
          /\ mem'[p] = [WithAlarm(m, s, "uninsert") EXCEPT !.sent[s] = FALSE]
      BY <2>8 DEF ErrorFrame, Goes, TypeOK
    <3>2. \A t \in owed'[p] : /\ mem'[p].sensor[t] # {}
                              /\ ~mem'[p].sent[t] /\ mem'[p].warn # "none"
      BY <2>0, <3>1 DEF Carried, WithAlarm, Memory, Flags
    <3>3. QED
      BY <2>00, <3>1, <3>2 DEF Carried
  <2>9. CASE TimeFrame(p)
    <3>1. /\ Others /\ pc'[p] = "idle" /\ owed'[p] = o \ {s \in Sensors :
                                          m.sensor[s] # {} /\ ~m.sent[s]}
      BY <2>9 DEF TimeFrame, Waiting, TypeOK
    <3>2. owed'[p] = {}
      BY <2>0, <3>1 DEF Carried
    <3>3. QED
      BY <2>00, <3>1, <3>2 DEF Carried
  <2>10. CASE SaveOpen(p)
    <3>1. /\ Others /\ mem'[p] = m /\ owed'[p] = o /\ frame'[p] = f
          /\ pc[p] = "open" /\ pc'[p] = "write" /\ then'[p] = then[p]
      BY <2>10 DEF SaveOpen, TypeOK
    <3>2. QED
      BY <2>0, <2>00, <3>1 DEF Carried
  <2>11. CASE SaveWrite(p)
    <3>1. /\ Others /\ pc[p] = "write" /\ then'[p] = "idle"
          /\ \/ /\ then[p] = "rearm" /\ owed'[p] = o \cup {f.s}
                /\ mem'[p] = [m EXCEPT !.sent[f.s] = FALSE]
             \/ mem'[p] = m /\ owed'[p] = o
      BY <2>11 DEF SaveWrite, Goes, TypeOK
    <3>2. QED
      BY <2>0, <2>00, <3>1 DEF Carried, Memory
  <2>12. QED
    BY <1>1, <2>1, <2>2, <2>3, <2>4, <2>5, <2>6, <2>7, <2>8, <2>9, <2>10, <2>11
    DEF Handle
<1>2. CASE PowerCycle
  BY <1>2 DEF PowerCycle, Boots, CarriedInv, Carried
<1>3. CASE UNCHANGED vars
  BY <1>3 DEF vars, CarriedInv
<1>4. QED
  BY <1>1, <1>2, <1>3 DEF Next

(* An alarm raised since boot keeps, until it is reported or cleared, all that
   the TIME frame needs to report it, for any number of sensors that share
   the one warnning_msg and any number of forked processes.                 *)
THEOREM ReportsCarried == Spec => []OwedCarried
<1>1. Init => CarriedInv
  BY DEF Init, CarriedInv, Carried
<1>2. CountedInv /\ CarriedInv /\ [Next]_vars => CarriedInv'
  BY CarriedStep
<1>3. CarriedInv => OwedCarried
  BY DEF CarriedInv, Carried, OwedCarried
<1>4. QED
  BY <1>1, <1>2, <1>3, CountedInvariant, PTL DEF Spec

(***************************************************************************)
(* The flags of a sensor.  A step leaves them, clears some, marks the       *)
(* sensor as not inserted, or raises an alarm where there is no flag.       *)
(***************************************************************************)
Follows(old, new) ==
  \A s \in Sensors : new[s] \ {"uninsert"} \subseteq old[s] \/ \E k \in Bounds : new[s] = {k}

LEMMA FlagsStep ==
  ASSUME CountedInv, NEW p \in Procs, Handle(p), NEW q \in Procs
  PROVE  \E o \in Procs : Follows(mem[o].sensor, mem'[q].sensor)
<1> DEFINE m == mem[p]
           f == frame[p]
<1> USE DEF CountedInv
<1>0. m \in Memory /\ f.s \in Sensors /\ m.sensor \in Flags
  BY DEF TypeOK, Frames, Memory
<1>a. ASSUME mem'[q] = mem[q] PROVE Follows(mem[q].sensor, mem'[q].sensor)
  BY <1>a DEF Follows
<1>b. ASSUME NEW s \in Sensors, NEW k \in Bounds, m.sensor[s] = {},
             mem'[q].sensor = [m.sensor EXCEPT ![s] = @ \cup {k}]
      PROVE  Follows(m.sensor, mem'[q].sensor)
  BY <1>0, <1>b DEF Follows, Flags
<1>c. ASSUME f.r \in Bounds, RaiseDue(WithCount(m, f.s), f.s)
      PROVE  /\ m.sensor[f.s] = {}
             /\ WithAlarm(WithCount(m, f.s), f.s, f.r).sensor = [m.sensor EXCEPT ![f.s] = @ \cup {f.r}]
  <2>1. WithCount(m, f.s) \in Memory /\ f.r \in Kinds
    BY <1>0, <1>c, HelperTypes DEF Kinds
  <2>2. WithCount(m, f.s).sensor = m.sensor
    BY <1>0, CountFields
  <2>3. QED
    BY <1>0, <1>c, <2>1, <2>2, AlarmFields DEF RaiseDue
<1>1. ASSUME NEW s \in Sensors, NEW r \in {"in"} \cup Bounds,
             ReadingEndsUninsert(p, s, r) \/ ReadingOfInserted(p, s, r), q = p
      PROVE  Follows(m.sensor, mem'[p].sensor)
  <2>1. mem'[p].sensor = [m.sensor EXCEPT ![s] = @ \ {"uninsert"}] \/ mem'[p] = m
    <3>1. CASE ReadingEndsUninsert(p, s, r)
      BY <1>0, <3>1 DEF ReadingEndsUninsert, TypeOK, Memory
    <3>2. CASE ReadingOfInserted(p, s, r)
      BY <3>2 DEF ReadingOfInserted
    <3>3. QED
      BY <1>1, <3>1, <3>2
  <2>2. QED
    BY <1>0, <2>1 DEF Follows, Flags
<1>2. ASSUME InRange(p), q = p PROVE Follows(m.sensor, mem'[p].sensor)
  <2>1. mem'[p].sensor = m.sensor \/ mem'[p].sensor = [m.sensor EXCEPT ![f.s] = {}]
    BY <1>0, <1>2 DEF InRange, TypeOK, Memory
  <2>2. QED
    BY <1>0, <2>1 DEF Follows, Flags
<1>3. ASSUME OutOfRange(p), q = p PROVE Follows(m.sensor, mem'[p].sensor)
  BY <1>0, <1>3, CountFields DEF OutOfRange, TypeOK, Follows
<1>4. ASSUME RaiseAlarm(p), q = p PROVE Follows(m.sensor, mem'[p].sensor)
  <2>1. /\ mem'[p] = WithAlarm(WithCount(m, f.s), f.s, f.r) /\ f.r \in Bounds
        /\ RaiseDue(WithCount(m, f.s), f.s)
    BY <1>4 DEF RaiseAlarm, TypeOK
  <2>2. QED
    BY <1>0, <1>b, <1>c, <1>4, <2>1
<1>5. ASSUME NEW child \in Procs, RaiseAlarmForking(p, child), q \in {p, child}
      PROVE  Follows(m.sensor, mem'[q].sensor)
  <2>1. /\ f.r \in Bounds /\ RaiseDue(WithCount(m, f.s), f.s)
        /\ mem'[q] \in {WithAlarm(WithCount(m, f.s), f.s, f.r), WithCount(m, f.s)}
    BY <1>5 DEF RaiseAlarmForking, TypeOK
  <2>2. CASE mem'[q] = WithCount(m, f.s)
    BY <1>0, <2>2, CountFields DEF Follows
  <2>3. CASE mem'[q] = WithAlarm(WithCount(m, f.s), f.s, f.r)
    BY <1>0, <1>b, <1>c, <2>1, <2>3
  <2>4. QED
    BY <2>1, <2>2, <2>3
<1>6. ASSUME co_flash_alarm(p), q = p PROVE Follows(m.sensor, mem'[p].sensor)
  <2>1. mem'[p] = WithAlarm(m, f.s, f.r) /\ f.r \in Bounds /\ m.sensor[f.s] = {}
    BY <1>6 DEF co_flash_alarm, TypeOK, SoundInv, Sound, FlashOwesFlag
  <2>2. mem'[p].sensor = [m.sensor EXCEPT ![f.s] = @ \cup {f.r}]
    BY <1>0, <2>1, AlarmFields DEF Kinds
  <2>3. QED
    BY <1>0, <1>b, <1>6, <2>1, <2>2
<1>7. ASSUME NEW s \in Sensors, ErrorFrame(p, s), q = p PROVE Follows(m.sensor, mem'[p].sensor)
  <2>1. mem'[p].sensor = [m.sensor EXCEPT ![s] = @ \cup {"uninsert"}]
    BY <1>0, <1>7 DEF ErrorFrame, WithAlarm, TypeOK, Memory
  <2>2. QED
    BY <1>0, <2>1 DEF Follows, Flags
<1>8. ASSUME TimeFrame(p) \/ SaveOpen(p) \/ SaveWrite(p), q = p
      PROVE  Follows(m.sensor, mem'[p].sensor)
  <2>1. mem'[p].sensor = m.sensor
    BY <1>0, <1>8 DEF TimeFrame, SaveOpen, SaveWrite, TypeOK, Memory
  <2>2. QED
    BY <2>1 DEF Follows
<1>9. CASE q # p /\ mem'[q] = mem[q]
  BY <1>9, <1>a
<1>10. \/ mem'[q] = mem[q]
       \/ q = p
       \/ \E child \in Procs : RaiseAlarmForking(p, child) /\ q = child
  <2>1. CASE \E s \in Sensors, r \in {"in"} \cup Bounds :
               ReadingEndsUninsert(p, s, r) \/ ReadingOfInserted(p, s, r)
    BY <2>1 DEF ReadingEndsUninsert, ReadingOfInserted, TypeOK
  <2>2. CASE InRange(p)
    BY <2>2 DEF InRange, TypeOK
  <2>3. CASE OutOfRange(p) \/ RaiseAlarm(p) \/ co_flash_alarm(p) \/ TimeFrame(p) \/ SaveOpen(p) \/ SaveWrite(p)
    BY <2>3 DEF OutOfRange, RaiseAlarm, co_flash_alarm, TimeFrame, SaveOpen, SaveWrite, TypeOK
  <2>4. CASE \E s \in Sensors : ErrorFrame(p, s)
    BY <2>4 DEF ErrorFrame, TypeOK
  <2>5. CASE \E child \in Procs : RaiseAlarmForking(p, child)
    BY <2>5 DEF RaiseAlarmForking, TypeOK
  <2>6. QED
    BY <2>1, <2>2, <2>3, <2>4, <2>5 DEF Handle
<1>11. CASE q = p
  BY <1>1, <1>2, <1>3, <1>4, <1>5, <1>6, <1>7, <1>8, <1>11 DEF Handle
<1>12. QED
  BY <1>5, <1>9, <1>10, <1>11

(* No sensor is ever marked both too low and too high, in a process or in the
   file, for any number of processes that save to it.                       *)
THEOREM BoundsExclude == Spec => []OneBound
<1>1. Init => OneBound
  BY DEF Init, OneBound, Loaded, Blank, NoFlags, Bounds
<1>2. ASSUME CountedInv, OneBound, [Next]_vars PROVE OneBound'
  <2>1. ASSUME NEW p \in Procs, Handle(p) PROVE OneBound'
    <3>1. \A q \in Procs, s \in Sensors : ~(Bounds \subseteq mem'[q].sensor[s])
      <4> SUFFICES ASSUME NEW q \in Procs, NEW s \in Sensors PROVE ~(Bounds \subseteq mem'[q].sensor[s])
        OBVIOUS
      <4>1. PICK o \in Procs : Follows(mem[o].sensor, mem'[q].sensor)
        BY <1>2, <2>1, FlagsStep
      <4>2. QED
        BY <1>2, <4>1 DEF Follows, OneBound, Bounds
    <3>2. disk' \in {disk, Blank, [sensor |-> mem[p].sensor, sent |-> mem[p].sent]}
      BY <2>1 DEF Handle, ReadingEndsUninsert, ReadingOfInserted, InRange, OutOfRange, RaiseAlarm,
                  RaiseAlarmForking, co_flash_alarm, ErrorFrame, TimeFrame, SaveOpen, SaveWrite
    <3>3. \A s \in Sensors : ~(Bounds \subseteq disk'.sensor[s])
      BY <1>2, <3>2 DEF OneBound, Blank, NoFlags, Bounds
    <3>4. QED
      BY <3>1, <3>3 DEF OneBound
  <2>2. CASE PowerCycle
    BY <1>2, <2>2 DEF PowerCycle, Boots, Loaded, OneBound
  <2>3. CASE UNCHANGED vars
    BY <1>2, <2>3 DEF vars, OneBound
  <2>4. QED
    BY <1>2, <2>1, <2>2, <2>3 DEF Next
<1>3. QED
  BY <1>1, <1>2, CountedInvariant, PTL DEF Spec

(***************************************************************************)
(* The file and the shared segment.  While one process runs they have its  *)
(* flags also when it judges a reading, and the segment has them between    *)
(* the two halves of a save; and only a process that runs is on its way.    *)
(***************************************************************************)
SavedInv ==
  /\ \A p \in Procs : pc[p] # "idle" => p \in live
  /\ \A p \in Procs : live = {p} =>
       /\ pc[p] \in {"idle", "judge"} => disk.sensor = mem[p].sensor
       /\ pc[p] \in {"idle", "judge", "write"} => state = mem[p].sensor

LEMMA SavedStep ==
  ASSUME CountedInv, SavedInv, [Next]_vars
  PROVE  SavedInv'
<1> USE DEF CountedInv
<1>1. ASSUME NEW p \in Procs, Handle(p) PROVE SavedInv'
  <2> DEFINE f == frame[p]
  <2>0. /\ p \in live /\ mem[p] \in Memory /\ f.s \in Sensors
        /\ pc \in [Procs -> {"idle", "judge", "flash", "open", "write"}] /\ live \subseteq Procs
        /\ mem \in [Procs -> Memory]
    BY <1>1 DEF SavedInv, TypeOK, Frames, Handle, ReadingEndsUninsert, ReadingOfInserted, InRange,
                OutOfRange, RaiseAlarm, RaiseAlarmForking, co_flash_alarm, ErrorFrame, TimeFrame,
                SaveOpen, SaveWrite, Waiting
  <2>1. ASSUME NEW child \in Procs, RaiseAlarmForking(p, child) PROVE SavedInv'
    <3>1. live' = live \cup {child} /\ child \notin live
      BY <2>1 DEF RaiseAlarmForking
    <3>2. \A q \in Procs : live' # {q}
      BY <2>0, <3>1
    <3>3. \A q \in Procs \ {p, child} : pc'[q] = pc[q]
      BY <2>1 DEF RaiseAlarmForking, TypeOK
    <3>4. QED
      BY <2>0, <3>1, <3>2, <3>3 DEF SavedInv
  <2>2. ASSUME live' = live, \A q \in Procs \ {p} : pc'[q] = pc[q],
               live = {p} => /\ pc'[p] \in {"idle", "judge"} => disk'.sensor = mem'[p].sensor
                             /\ pc'[p] \in {"idle", "judge", "write"} => state' = mem'[p].sensor
        PROVE  SavedInv'
    BY <2>0, <2>2 DEF SavedInv
  <2>3. ASSUME NEW s \in Sensors, NEW r \in {"in"} \cup Bounds,
               ReadingEndsUninsert(p, s, r) \/ ReadingOfInserted(p, s, r)
        PROVE  SavedInv'
    BY <2>0, <2>2, <2>3 DEF ReadingEndsUninsert, ReadingOfInserted, Waiting, Goes, SavedInv
  <2>4. CASE InRange(p)
    <3>1. /\ live' = live /\ \A q \in Procs \ {p} : pc'[q] = pc[q]
          /\ disk' = disk /\ state' = state /\ pc[p] = "judge"
          /\ pc'[p] = "open" \/ mem'[p].sensor = mem[p].sensor
      BY <2>0, <2>4 DEF InRange, Goes, Memory
    <3>2. QED
      BY <2>2, <3>1 DEF SavedInv
  <2>5. CASE OutOfRange(p)
    <3>1. /\ live' = live /\ \A q \in Procs \ {p} : pc'[q] = pc[q]
          /\ disk' = disk /\ state' = state /\ pc[p] = "judge"
          /\ mem'[p].sensor = mem[p].sensor
      BY <2>0, <2>5, CountFields DEF OutOfRange, Goes
    <3>2. QED
      BY <2>2, <3>1 DEF SavedInv
  <2>6. CASE RaiseAlarm(p) \/ co_flash_alarm(p) \/ \E s \in Sensors : ErrorFrame(p, s)
    BY <2>0, <2>2, <2>6 DEF RaiseAlarm, co_flash_alarm, ErrorFrame, Goes
  <2>7. CASE TimeFrame(p)
    <3>1. /\ live' = live /\ pc' = pc /\ disk' = disk /\ state' = state
          /\ mem'[p].sensor = mem[p].sensor
      BY <2>0, <2>7 DEF TimeFrame, Memory
    <3>2. QED
      BY <2>2, <3>1 DEF SavedInv
  <2>8. CASE SaveOpen(p)
    BY <2>0, <2>2, <2>8 DEF SaveOpen
  <2>9. CASE SaveWrite(p)
    <3>1. /\ live' = live /\ \A q \in Procs \ {p} : pc'[q] = pc[q]
          /\ disk'.sensor = mem[p].sensor /\ state' = state /\ pc[p] = "write"
          /\ mem'[p].sensor = mem[p].sensor
      BY <2>0, <2>9 DEF SaveWrite, Goes, Memory
    <3>2. QED
      BY <2>2, <3>1 DEF SavedInv
  <2>10. QED
    BY <1>1, <2>1, <2>3, <2>4, <2>5, <2>6, <2>7, <2>8, <2>9 DEF Handle
<1>2. CASE PowerCycle
  BY <1>2 DEF PowerCycle, Boots, Loaded, SavedInv
<1>3. CASE UNCHANGED vars
  BY <1>3 DEF vars, SavedInv
<1>4. QED
  BY <1>1, <1>2, <1>3 DEF Next

(* Whenever the only CAP process waits for a frame, the file and the segment
   the display reads have exactly its flags: every path saves, also after a
   power failure in the middle of a save.                                   *)
THEOREM FlagsAreSaved == Spec => []DiskFollows
<1>1. Init => SavedInv
  BY DEF Init, SavedInv, Loaded, Blank
<1>2. CountedInv /\ SavedInv /\ [Next]_vars => SavedInv'
  BY SavedStep
<1>3. SavedInv => DiskFollows
  BY DEF SavedInv, DiskFollows
<1>4. QED
  BY <1>1, <1>2, <1>3, CountedInvariant, PTL DEF Spec
=============================================================================
