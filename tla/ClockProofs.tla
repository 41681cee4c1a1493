---------------------------- MODULE ClockProofs ----------------------------
(***************************************************************************)
(* Proofs about Clock, for any times and any room on the line.             *)
(***************************************************************************)
EXTENDS Clock, TLAPS

(***************************************************************************)
(* The inductive invariant.  The properties speak of moments when nobody   *)
(* sets the time; what makes them true is what a process that does it      *)
(* alone has established so far, step by step, and that nobody else has    *)
(* touched since.                                                          *)
(***************************************************************************)

(* The frames s bring the board, which has b now, to time t, unless one was
   lost: t is on its way with nothing else after it, or it is there already
   with nothing else on its way.                                            *)
Frames         == [time : Reading, sure : BOOLEAN]
Still(s, i, t) == \A j \in DOMAIN s : j >= i => s[j].time \in {Never, t}
Brings(s, b, l, t) ==
  \/ \E i \in DOMAIN s : s[i].time = t /\ t # Never /\ Still(s, i, t)
  \/ Still(s, 1, t) /\ (b = t \/ l)

Delivered == Brings(down, board, lost, Read)

(* How far a process that sets the time alone has come. *)
Progress(p) ==
  /\ cells.date \in Times
  /\ pc[p] = "hour" => cells.date = given[p]
  /\ pc[p] \in {"crc", "send", "rtc", "clock"} => cells.hour = cells.date
  /\ pc[p] \in {"send", "rtc", "clock"} => cells.crc = Read
  /\ pc[p] \in {"rtc", "clock"} => Delivered
  /\ p = "sync" /\ pc[p] = "clock" => rtc = Read

Agreed ==
  /\ cells.hour = cells.date /\ cells.crc = Read
  /\ (clock = Read \/ CutShort) /\ Delivered
  /\ last = "sync" => rtc = Read \/ CutShort

HasGiven   == \A p \in Procs : pc[p] \in {"date", "hour"} => given[p] \in Times
AloneInv   == \A p \in Procs : alone[p] =>
                /\ pc[p] \in Setting /\ last = p
                /\ \A q \in Procs : pc[q] \in Setting => q = p
                /\ Progress(p)
UnmixedInv == ~mixed => /\ \A p \in Procs : pc[p] \in Setting => alone[p]
                        /\ Whole(cells.crc)
                        /\ Settled => Agreed
WaitsSet   == pc["sync"] = "alarm" => cells.date # None

ClockInv == TypeOK /\ HasGiven /\ AloneInv /\ UnmixedInv /\ WaitsSet /\ WholeTimes
----------------------------------------------------------------------------
(* The line. *)

LEMMA TailType ==
  ASSUME NEW S, NEW s \in Seq(S), s # <<>>
  PROVE  Tail(s) \in Seq(S) /\ Head(s) \in S /\ Len(Tail(s)) = Len(s) - 1
  OBVIOUS

LEMMA AppendBrings ==
  ASSUME NEW s \in Seq(Frames), NEW b, NEW l, NEW t, NEW f \in Frames,
         Brings(s, b, l, t), f.time \in {Never, t}
  PROVE  Brings(Append(s, f), b, l, t)
  BY DEF Brings, Still, Frames

LEMMA AppendNew ==
  ASSUME NEW s \in Seq(Frames), NEW b, NEW l, NEW t, NEW f \in Frames,
         f.time = t, t # Never
  PROVE  Brings(Append(s, f), b, l, t)
<1>1. Len(s) + 1 \in DOMAIN Append(s, f) /\ Append(s, f)[Len(s) + 1] = f
  OBVIOUS
<1>2. Still(Append(s, f), Len(s) + 1, t)
  BY DEF Still
<1>3. QED
  BY <1>1, <1>2 DEF Brings

LEMMA Shift ==
  ASSUME NEW s \in Seq(Frames), s # <<>>
  PROVE  /\ \A j \in DOMAIN Tail(s) : j + 1 \in DOMAIN s /\ Tail(s)[j] = s[j + 1]
         /\ \A j \in DOMAIN s : j # 1 => j - 1 \in DOMAIN Tail(s) /\ Tail(s)[j - 1] = s[j]
         /\ 1 \in DOMAIN s /\ Head(s) = s[1]
  OBVIOUS

(* A frame behind the first stays on its way. *)
LEMMA TailBrings ==
  ASSUME NEW s \in Seq(Frames), s # <<>>, NEW b, NEW l, NEW t, NEW i \in DOMAIN s,
         i # 1, s[i].time = t, t # Never, Still(s, i, t)
  PROVE  Brings(Tail(s), b, l, t)
<1>1. i - 1 \in DOMAIN Tail(s) /\ Tail(s)[i - 1] = s[i]
  BY Shift
<1>2. Still(Tail(s), i - 1, t)
  BY Shift DEF Still
<1>3. QED
  BY <1>1, <1>2 DEF Brings

LEMMA LoseBrings ==
  ASSUME NEW s \in Seq(Frames), s # <<>>, NEW b, NEW l, NEW t, Brings(s, b, l, t)
  PROVE  Brings(Tail(s), b, TRUE, t)
<1>1. CASE Still(s, 1, t)
  BY <1>1, Shift DEF Brings, Still
<1>2. CASE ~Still(s, 1, t)
  BY <1>2, TailBrings DEF Brings
<1>3. QED
  BY <1>1, <1>2

(* The board takes the first frame, if it holds a time. *)
LEMMA TakeBrings ==
  ASSUME NEW s \in Seq(Frames), s # <<>>, NEW b, NEW l, NEW t, Brings(s, b, l, t)
  PROVE  /\ Head(s).time # Never => Brings(Tail(s), Head(s).time, FALSE, t)
         /\ Head(s).time = Never => Brings(Tail(s), b, l, t)
<1>1. CASE Still(s, 1, t)
  <2>1. Still(Tail(s), 1, t) /\ Head(s).time \in {Never, t}
    BY <1>1, Shift DEF Still
  <2>2. CASE b = t \/ l
    BY <2>1, <2>2 DEF Brings
  <2>3. CASE ~(b = t \/ l)
    <3>1. PICK i \in DOMAIN s : s[i].time = t /\ t # Never /\ Still(s, i, t)
      BY <2>3 DEF Brings
    <3>2. CASE i = 1
      BY <2>1, <3>1, <3>2, Shift DEF Brings
    <3>3. CASE i # 1
      BY <3>1, <3>3, TailBrings
    <3>4. QED
      BY <3>2, <3>3
  <2>4. QED
    BY <2>2, <2>3
<1>2. CASE ~Still(s, 1, t)
  BY <1>2, TailBrings DEF Brings
<1>3. QED
  BY <1>1, <1>2

(* What the board makes of the bytes. *)
LEMMA FrameOfCells ==
  ASSUME TypeOK
  PROVE  /\ Frame(cells) \in Frames
         /\ Frame(cells).time \in {Never, cells.crc}
         /\ Whole(cells.crc) => Whole(Frame(cells).time)
         /\ cells.crc = Read /\ cells.hour = cells.date => Frame(cells).time \in {Never, Read}
         /\ cells.crc = Read /\ cells.date \in Times => Frame(cells).time = Read /\ Read # Never
  BY NoneAssumption DEF TypeOK, Frame, Frames, Fits, Reading, Half, Never, Read, Whole
----------------------------------------------------------------------------
(* Every variable holds the kind of value the declarations say. *)
LEMMA TypeInit == Init => TypeOK
<1> SUFFICES ASSUME Init PROVE TypeOK
  OBVIOUS
<1>1. Never \in Reading /\ None \in Half
  BY DEF Never, Reading, Half
<1>2. down \in Seq([time : Reading, sure : BOOLEAN]) /\ Len(down) <= MaxFrames
  BY BoundAssumption DEF Init
<1>3. cells \in [date : Half, hour : Half, crc : Reading]
  BY <1>1 DEF Init
<1>4. QED
  BY <1>1, <1>2, <1>3 DEF Init, TypeOK, Procs, Setting

LEMMA TypeStep == TypeOK /\ [Next]_vars => TypeOK'
<1> SUFFICES ASSUME TypeOK, [Next]_vars PROVE TypeOK'
  OBVIOUS
<1> USE DEF TypeOK, Goto, At, Procs, Setting
<1>f. Frame(cells) \in [time : Reading, sure : BOOLEAN]
  BY FrameOfCells DEF Frames
<1>w. Write => down' \in Seq([time : Reading, sure : BOOLEAN]) /\ Len(down') <= MaxFrames
  BY <1>f, BoundAssumption DEF Write
<1>r. Read \in Reading
  BY DEF Read, Reading
<1>1. ASSUME NEW p \in Procs, Reply(p) \/ NoReply(p) \/ TimeStep(p) \/ Send(p) PROVE TypeOK'
  <2>1. CASE Reply(p)
    BY <2>1 DEF Reply, Half, clocks, line, history
  <2>2. CASE NoReply(p)
    BY <2>2 DEF NoReply, memory, clocks, line, history
  <2>3. CASE Date(p)
    BY <2>3 DEF Date, clocks, line
  <2>4. CASE Hour(p)
    BY <2>4 DEF Hour, Half, clocks, line, history
  <2>5. CASE Crc(p)
    BY <2>5, <1>r DEF Crc, clocks, line, history
  <2>6. CASE SetLcdTime(p)
    BY <2>6, <1>r DEF SetLcdTime, memory, line
  <2>7. CASE Send(p)
    BY <2>7, <1>w DEF Send, memory, clocks, history
  <2>8. QED
    BY <1>1, <2>1, <2>2, <2>3, <2>4, <2>5, <2>6, <2>7 DEF TimeStep
<1>2. CASE Test \/ Midnight \/ AskRange \/ ResendEnds \/ AlarmFails
  BY <1>2 DEF Test, Midnight, AskRange, ResendEnds, AlarmFails, memory, clocks, line, history
<1>3. CASE SetTime
  BY <1>3, <1>r DEF SetTime, memory, line, history
<1>c. CASE SetTimeFails
  <2>1. pc' \in [Procs -> {"idle", "post", "date", "test", "alarm"} \cup Setting \cup
                       {"ask", "resend", "cut", "dead"}]
    BY <1>c DEF SetTimeFails
  <2>2. mixed' \in BOOLEAN
    BY <1>c DEF SetTimeFails
  <2>3. alone' \in [Procs -> BOOLEAN]
    BY <1>c DEF SetTimeFails
  <2>4. QED
    BY <1>c, <2>1, <2>2, <2>3 DEF SetTimeFails, memory, clocks, line
<1>4. CASE ChangeServer \/ ChangeManual
  BY <1>4 DEF ChangeServer, ChangeManual, Half, memory, clocks, line, history
<1>5. CASE Resend
  BY <1>5, <1>w DEF Resend, memory, clocks, history
<1>6. CASE Take \/ Lose
  <2>1. down # <<>> /\ down' = Tail(down)
    BY <1>6 DEF Take, Lose
  <2> DEFINE F == [time : Reading, sure : BOOLEAN]
  <2>a. down \in Seq(F) /\ Len(down) <= MaxFrames
    OBVIOUS
  <2> HIDE DEF F
  <2>b. down' \in Seq(F) /\ Head(down) \in F /\ Len(down') = Len(down) - 1
    BY <2>1, <2>a, TailType
  <2>c. Len(down') <= MaxFrames
    BY <2>a, <2>b, BoundAssumption
  <2> USE DEF F
  <2>2. /\ down' \in Seq([time : Reading, sure : BOOLEAN]) /\ Len(down') <= MaxFrames
        /\ Head(down) \in [time : Reading, sure : BOOLEAN]
    BY <2>b, <2>c
  <2>3. QED
    BY <1>6, <2>2 DEF Take, Lose, memory, clocks, history
<1>7. CASE UNCHANGED vars
  BY <1>7 DEF vars, memory, clocks, line, history
<1>8. QED
  BY <1>1, <1>2, <1>3, <1>c, <1>4, <1>5, <1>6, <1>7 DEF Next, SyncStep, SyncEnds
----------------------------------------------------------------------------
(* The time of a process that is about to set it is a time. *)
LEMMA GivenStep == TypeOK /\ HasGiven /\ [Next]_vars => HasGiven'
<1> SUFFICES ASSUME TypeOK, HasGiven, [Next]_vars PROVE HasGiven'
  OBVIOUS
<1> USE DEF TypeOK, HasGiven, Goto, At, Procs, Setting
<1>1. ASSUME NEW p \in Procs, Reply(p) \/ NoReply(p) \/ TimeStep(p) \/ Send(p) PROVE HasGiven'
  BY <1>1 DEF Reply, NoReply, TimeStep, Date, Hour, Crc, SetLcdTime, Send, memory
<1>2. CASE Test \/ Midnight \/ SetTime \/ ChangeServer \/ ChangeManual
  BY <1>2 DEF Test, Midnight, SetTime, ChangeServer, ChangeManual, memory
<1>a. CASE AskRange \/ ResendEnds \/ SyncEnds
  BY <1>a DEF AskRange, ResendEnds, SyncEnds, SetTimeFails, AlarmFails, memory
<1>3. CASE Resend \/ Take \/ Lose \/ UNCHANGED vars
  BY <1>3 DEF Resend, Take, Lose, vars, memory
<1>4. QED
  BY <1>1, <1>2, <1>a, <1>3 DEF Next, SyncStep

(* Midnight is waited for with a time in the memory, which then stays. *)
LEMMA WaitsStep == TypeOK /\ HasGiven /\ WaitsSet /\ [Next]_vars => WaitsSet'
<1> SUFFICES ASSUME TypeOK, HasGiven, WaitsSet, [Next]_vars PROVE WaitsSet'
  OBVIOUS
<1> USE DEF TypeOK, WaitsSet, Goto, At, Procs, Setting
<1>1. ASSUME NEW p \in Procs, Reply(p) \/ NoReply(p) \/ TimeStep(p) \/ Send(p) PROVE WaitsSet'
  <2>1. CASE Date(p)
    BY <2>1, NoneAssumption DEF Date, HasGiven
  <2>2. CASE Hour(p)
    BY <2>2 DEF Hour
  <2>3. CASE Crc(p)
    BY <2>3 DEF Crc
  <2>4. QED
    BY <1>1, <2>1, <2>2, <2>3 DEF Reply, NoReply, TimeStep, SetLcdTime, Send, memory
<1>2. CASE Test \/ Midnight \/ SetTime \/ ChangeServer \/ ChangeManual
  BY <1>2 DEF Test, Midnight, SetTime, ChangeServer, ChangeManual, memory
<1>a. CASE AskRange \/ ResendEnds \/ SyncEnds
  BY <1>a DEF AskRange, ResendEnds, SyncEnds, SetTimeFails, AlarmFails, memory
<1>3. CASE Resend \/ Take \/ Lose \/ UNCHANGED vars
  BY <1>3 DEF Resend, Take, Lose, vars, memory
<1>4. QED
  BY <1>1, <1>2, <1>a, <1>3 DEF Next, SyncStep

(* A frame is put on the line only as it is, and whole unless two set the time
   at once.                                                                 *)
LEMMA WholeStep == TypeOK /\ UnmixedInv /\ WholeTimes /\ [Next]_vars => WholeTimes'
<1> SUFFICES ASSUME TypeOK, UnmixedInv, WholeTimes, [Next]_vars PROVE WholeTimes'
  OBVIOUS
<1> DEFINE W(s) == \A i \in DOMAIN s : s[i].sure => Whole(s[i].time)
<1>1. W(down) /\ (W(down') => WholeTimes') /\ down \in Seq(Frames)
  BY DEF WholeTimes, Range, Whole, TypeOK, Frames
<1>2. ASSUME Write PROVE W(down')
  <2> DEFINE f == Frame(cells)
  <2>1. f \in Frames
    BY FrameOfCells
  <2>2. f.sure => Whole(f.time)
    BY FrameOfCells DEF UnmixedInv, Frame, TypeOK
  <2>3. down' = Append(down, f)
    BY <1>2 DEF Write
  <2> HIDE DEF f
  <2>4. QED
    BY <1>1, <2>1, <2>2, <2>3
<1>3. ASSUME down # <<>>, down' = Tail(down) PROVE W(down')
  BY <1>1, <1>3, Shift
<1>4. ASSUME UNCHANGED down PROVE W(down')
  BY <1>1, <1>4
<1>5. UNCHANGED down \/ Write \/ (down # <<>> /\ down' = Tail(down))
  BY DEF Next, SyncStep, SyncEnds, TimeStep, Reply, NoReply, Date, Hour, Crc, Send, SetLcdTime,
         Test, SetTime, SetTimeFails, AlarmFails, AskRange, ResendEnds, Midnight, ChangeServer, ChangeManual, Resend, Take, Lose, vars, line
<1>6. QED
  BY <1>1, <1>2, <1>3, <1>4, <1>5
----------------------------------------------------------------------------
(* What a process that sets the time alone has established, and what is
   agreed when nobody does, step by step.                                   *)
Established == AloneInv /\ UnmixedInv

(* Steps that set nothing. *)
LEMMA OtherStep ==
  ASSUME TypeOK, Established,
         UNCHANGED <<cells, clocks, line, history>>,
         \A p \in Procs : pc[p] \in Setting \/ pc'[p] \in Setting =>
                           pc'[p] = pc[p] /\ given'[p] = given[p],
         CutShort => CutShort'
  PROVE  Established'
  BY DEF Established, AloneInv, UnmixedInv, Progress, Agreed, Settled, Delivered, Read, Whole,
         clocks, line, history

(* Steps of the line, once it brings what is in the memory. *)
LEMMA LineStep ==
  ASSUME TypeOK, Established,
         UNCHANGED <<pc, memory, rtc, clock, history>>,
         cells.crc = Read /\ cells.hour = cells.date /\ Delivered => Delivered'
  PROVE  Established'
<1>1. UNCHANGED <<pc, given, cells, rtc, clock, alone, mixed, last>> /\ Read' = Read
  BY DEF memory, history, Read
<1>2. AloneInv'
  BY <1>1 DEF Established, AloneInv, Progress, Setting
<1>3. UnmixedInv'
  BY <1>1 DEF Established, UnmixedInv, Agreed, Settled, Whole, CutShort, At
<1>4. QED
  BY <1>2, <1>3 DEF Established

LEMMA ResendStep == TypeOK /\ Established /\ Resend => Established'
<1> SUFFICES ASSUME TypeOK, Established, Resend PROVE Established'
  OBVIOUS
<1>1. ASSUME cells.crc = Read, cells.hour = cells.date, Delivered PROVE Delivered'
  <2>1. Frame(cells) \in Frames /\ Frame(cells).time \in {Never, Read} /\ down \in Seq(Frames)
    BY <1>1, FrameOfCells DEF TypeOK, Frames
  <2>2. Brings(Append(down, Frame(cells)), board, lost, Read)
    BY <1>1, <2>1, AppendBrings DEF Delivered
  <2>3. down' = Append(down, Frame(cells)) /\ UNCHANGED <<board, lost>> /\ Read' = Read
    BY DEF Resend, Write, memory, clocks, Read
  <2>4. QED
    BY <2>2, <2>3 DEF Delivered
<1>2. UNCHANGED <<pc, memory, rtc, clock, history>>
  BY DEF Resend, clocks
<1>3. QED
  BY <1>1, <1>2, LineStep

LEMMA TakeStep == TypeOK /\ Established /\ (Take \/ Lose) => Established'
<1> SUFFICES ASSUME TypeOK, Established, Take \/ Lose PROVE Established'
  OBVIOUS
<1>1. UNCHANGED <<pc, memory, rtc, clock, history>> /\ down # <<>> /\ down' = Tail(down)
  BY DEF Take, Lose, clocks
<1>2. Read' = Read /\ down \in Seq(Frames)
  BY <1>1 DEF Read, memory, TypeOK, Frames
<1>3. ASSUME Delivered PROVE Delivered'
  <2>1. CASE Take
    BY <1>1, <1>2, <1>3, <2>1, TakeBrings DEF Take, Delivered
  <2>2. CASE Lose
    BY <1>1, <1>2, <1>3, <2>2, LoseBrings DEF Lose, Delivered, clocks
  <2>3. QED
    BY <2>1, <2>2
<1>4. QED
  BY <1>1, <1>3, LineStep

(* The first cell: from here on the process is alone, or two are at once. *)
LEMMA DateStep == ASSUME TypeOK, HasGiven, Established, NEW p \in Procs, Date(p) PROVE Established'
<1> DEFINE others == {q \in Procs \ {p} : pc[q] \in Setting}
<1> USE DEF TypeOK, Setting
<1>1. /\ pc' = [pc EXCEPT ![p] = "hour"] /\ cells' = [cells EXCEPT !.date = given[p]]
      /\ alone' = [q \in Procs |-> IF q = p THEN others = {} ELSE alone[q] /\ q \notin others]
      /\ mixed' = (mixed \/ others # {}) /\ last' = p /\ UNCHANGED given
      /\ given[p] \in Times
  BY DEF Date, Goto, At, HasGiven
<1>2. \A q \in Procs \ {p} : alone'[q] = FALSE
  BY <1>1 DEF Established, AloneInv
<1>3. AloneInv'
  BY <1>1, <1>2 DEF AloneInv, Progress
<1>4. ASSUME ~mixed' PROVE others = {} /\ Whole(cells.crc)
  BY <1>1, <1>4 DEF Established, UnmixedInv
<1>5. UnmixedInv'
  BY <1>1, <1>4 DEF UnmixedInv, Settled, Whole
<1>6. QED
  BY <1>3, <1>5 DEF Established

LEMMA HourStep == ASSUME TypeOK, Established, NEW p \in Procs, Hour(p) PROVE Established'
<1> USE DEF TypeOK, Setting
<1>1. /\ pc[p] = "hour" /\ pc' = [pc EXCEPT ![p] = "crc"]
      /\ cells' = [cells EXCEPT !.hour = given[p]]
      /\ UNCHANGED <<alone, mixed, last, clock, rtc>>
  BY DEF Hour, Goto, At, clocks, history
<1>2. AloneInv'
  BY <1>1 DEF Established, AloneInv, Progress
<1>3. UnmixedInv'
  BY <1>1 DEF Established, UnmixedInv, Settled, Whole
<1>4. QED
  BY <1>2, <1>3 DEF Established

LEMMA CrcStep == ASSUME TypeOK, Established, NEW p \in Procs, Crc(p) PROVE Established'
<1> USE DEF TypeOK, Setting
<1>1. /\ pc[p] = "crc" /\ pc' = [pc EXCEPT ![p] = "send"]
      /\ cells' = [cells EXCEPT !.crc = Read] /\ Read' = Read
      /\ UNCHANGED <<alone, mixed, last, clock, rtc, given>>
  BY DEF Crc, Goto, At, clocks, history, Read
<1>2. AloneInv'
  BY <1>1 DEF Established, AloneInv, Progress
<1>3. ASSUME ~mixed PROVE cells.hour = cells.date
  BY <1>1, <1>3 DEF Established, UnmixedInv, AloneInv, Progress
<1>4. UnmixedInv'
  BY <1>1, <1>3 DEF Established, UnmixedInv, Settled, Whole, Read
<1>5. QED
  BY <1>2, <1>4 DEF Established

LEMMA SendStep == ASSUME TypeOK, Established, NEW p \in Procs, Send(p) PROVE Established'
<1> USE DEF TypeOK, Setting
<1>1. /\ pc[p] = "send" /\ pc' = [pc EXCEPT ![p] = IF p = "sync" THEN "rtc" ELSE "clock"]
      /\ UNCHANGED <<given, cells, alone, mixed, last, rtc, clock, board, lost>> /\ Read' = Read
      /\ down' = Append(down, Frame(cells))
  BY DEF Send, Goto, At, Write, memory, clocks, history, Read
<1>2. ASSUME alone[p] PROVE Delivered'
  <2>1. cells.crc = Read /\ cells.date \in Times
    BY <1>1, <1>2 DEF Established, AloneInv, Progress
  <2>2. Frame(cells).time = Read /\ Read # Never /\ Frame(cells) \in Frames /\ down \in Seq(Frames)
    BY <2>1, FrameOfCells DEF Frames
  <2>3. Brings(Append(down, Frame(cells)), board, lost, Read)
    BY <2>2, AppendNew
  <2>4. QED
    BY <1>1, <2>3 DEF Delivered
<1>3. AloneInv'
  BY <1>1, <1>2 DEF Established, AloneInv, Progress
<1>4. UnmixedInv'
  BY <1>1 DEF Established, UnmixedInv, Settled, Whole
<1>5. QED
  BY <1>3, <1>4 DEF Established

LEMMA SetTimeStep == TypeOK /\ Established /\ SetTime => Established'
<1> SUFFICES ASSUME TypeOK, Established, SetTime PROVE Established'
  OBVIOUS
<1> USE DEF TypeOK, Setting, Procs
<1>1. /\ pc["sync"] = "rtc" /\ pc' = [pc EXCEPT !["sync"] = "clock"] /\ rtc' = Read
      /\ UNCHANGED <<given, cells, alone, mixed, last, clock, board, lost, down>> /\ Read' = Read
      /\ Delivered' = Delivered
  BY DEF SetTime, Goto, At, memory, line, history, Read, Delivered
<1>2. AloneInv'
  BY <1>1 DEF Established, AloneInv, Progress
<1>3. UnmixedInv'
  BY <1>1 DEF Established, UnmixedInv, Settled, Whole
<1>4. QED
  BY <1>2, <1>3 DEF Established

(* The process ends before the display has the time. *)
LEMMA SetTimeFailsStep == TypeOK /\ Established /\ SetTimeFails => Established'
<1> SUFFICES ASSUME TypeOK, Established, SetTimeFails PROVE Established'
  OBVIOUS
<1> USE DEF TypeOK, Setting, Procs
<1>1. /\ pc["sync"] = "rtc" /\ pc' = [pc EXCEPT !["sync"] = "cut"]
      /\ mixed' = (mixed /\ ~alone["sync"]) /\ alone' = [alone EXCEPT !["sync"] = FALSE]
      /\ UNCHANGED <<given, cells, last, rtc, clock, board, lost, down>> /\ Read' = Read
      /\ Delivered' = Delivered
  BY DEF SetTimeFails, Goto, At, memory, clocks, line, Read, Delivered
<1>2. AloneInv'
  BY <1>1 DEF Established, AloneInv, Progress
<1>3. ASSUME ~mixed' PROVE alone["sync"]
  BY <1>1, <1>3 DEF Established, UnmixedInv
<1>4. ASSUME alone["sync"]
      PROVE  /\ \A q \in Procs : pc'[q] \notin Setting
             /\ cells.hour = cells.date /\ cells.crc = Read /\ Delivered
             /\ CutShort'
  BY <1>1, <1>4 DEF Established, AloneInv, Progress, CutShort, At
<1>5. UnmixedInv'
  BY <1>1, <1>3, <1>4 DEF UnmixedInv, Settled, Agreed, Whole, Read
<1>6. QED
  BY <1>2, <1>5 DEF Established

(* The last clock is set, and all agree if the process was alone. *)
LEMMA SetLcdTimeStep == ASSUME TypeOK, Established, NEW p \in Procs, SetLcdTime(p) PROVE Established'
<1> USE DEF TypeOK, Setting, Procs
<1>1. /\ pc[p] = "clock" /\ pc' = [pc EXCEPT ![p] = IF p = "sync" THEN "test" ELSE "idle"]
      /\ clock' = Read /\ mixed' = (mixed /\ ~alone[p]) /\ alone' = [alone EXCEPT ![p] = FALSE]
      /\ UNCHANGED <<given, cells, last, rtc, board, lost, down>> /\ Read' = Read
      /\ Delivered' = Delivered
  BY DEF SetLcdTime, Goto, At, memory, line, Read, Delivered
<1>2. AloneInv'
  BY <1>1 DEF Established, AloneInv, Progress
<1>3. ASSUME ~mixed' PROVE alone[p]
  BY <1>1, <1>3 DEF Established, UnmixedInv
<1>4. ASSUME alone[p]
      PROVE  /\ \A q \in Procs : pc'[q] \notin Setting
             /\ cells.hour = cells.date /\ cells.crc = Read /\ Delivered
             /\ last = p /\ (p = "sync" => rtc = Read)
  BY <1>1, <1>4 DEF Established, AloneInv, Progress
<1>5. UnmixedInv'
  BY <1>1, <1>3, <1>4 DEF UnmixedInv, Settled, Agreed, Whole, Read
<1>6. QED
  BY <1>2, <1>5 DEF Established

LEMMA EstablishedStep == TypeOK /\ HasGiven /\ Established /\ [Next]_vars => Established'
<1> SUFFICES ASSUME TypeOK, HasGiven, Established, [Next]_vars PROVE Established'
  OBVIOUS
<1>1. ASSUME NEW p \in Procs, Reply(p) \/ NoReply(p) PROVE Established'
  <2>1. UNCHANGED <<cells, clocks, line, history>>
    BY <1>1 DEF Reply, NoReply, memory
  <2>2. \A q \in Procs : pc[q] \in Setting \/ pc'[q] \in Setting =>
                          pc'[q] = pc[q] /\ given'[q] = given[q]
    BY <1>1 DEF Reply, NoReply, memory, At, Goto, TypeOK, Setting
  <2>3. CutShort => CutShort'
    BY <2>1, <1>1 DEF Reply, NoReply, CutShort, At, Goto, TypeOK, history
  <2>4. QED
    BY <2>1, <2>2, <2>3, OtherStep
<1>2. ASSUME NEW p \in Procs, TimeStep(p) \/ Send(p) PROVE Established'
  BY <1>2, DateStep, HourStep, CrcStep, SendStep, SetLcdTimeStep DEF TimeStep
<1>3. CASE Test \/ Midnight \/ AskRange \/ ResendEnds \/ AlarmFails
  <2>1. UNCHANGED <<given, cells, clocks, line, history>>
    BY <1>3 DEF Test, Midnight, AskRange, ResendEnds, AlarmFails, memory
  <2>2. \A q \in Procs : pc[q] \in Setting \/ pc'[q] \in Setting => pc'[q] = pc[q]
    BY <1>3 DEF Test, Midnight, AskRange, ResendEnds, AlarmFails, At, Goto, TypeOK, Setting, Procs
  <2>3. CutShort => CutShort'
    BY <1>3 DEF Test, Midnight, AskRange, ResendEnds, AlarmFails, CutShort, At
  <2>4. QED
    BY <2>1, <2>2, <2>3, OtherStep
<1>4. CASE ChangeServer \/ ChangeManual
  <2>1. UNCHANGED <<cells, clocks, line, history>>
    BY <1>4 DEF ChangeServer, ChangeManual, memory
  <2>2. \A q \in Procs : pc[q] \in Setting \/ pc'[q] \in Setting =>
                          pc'[q] = pc[q] /\ given'[q] = given[q]
    BY <1>4 DEF ChangeServer, ChangeManual, memory, At, Goto, TypeOK, Setting, Procs
  <2>3. CutShort => CutShort'
    BY <2>1, <1>4 DEF ChangeServer, ChangeManual, CutShort, At, Goto, TypeOK, Procs, history
  <2>4. QED
    BY <2>1, <2>2, <2>3, OtherStep
<1>5. CASE UNCHANGED vars
  <2>1. CutShort => CutShort'
    BY <1>5 DEF vars, CutShort, At, history
  <2>2. QED
    BY <1>5, <2>1, OtherStep DEF vars, memory
<1>6. CASE SetTime \/ SetTimeFails \/ Resend \/ Take \/ Lose
  BY <1>6, SetTimeStep, SetTimeFailsStep, ResendStep, TakeStep
<1>7. QED
  BY <1>1, <1>2, <1>3, <1>4, <1>5, <1>6 DEF Next, SyncStep, SyncEnds
----------------------------------------------------------------------------
LEMMA ClockInit == Init => ClockInv
<1> SUFFICES ASSUME Init PROVE ClockInv
  OBVIOUS
<1>1. HasGiven /\ WaitsSet /\ AloneInv
  BY DEF Init, HasGiven, WaitsSet, AloneInv, Procs
<1>2. Read = Never
  BY DEF Init, Read, Never
<1>3. Delivered
  BY <1>2 DEF Init, Delivered, Brings, Still
<1>4. Agreed /\ Whole(cells.crc)
  BY <1>2, <1>3 DEF Init, Agreed, Whole, Never
<1>5. \A p \in Procs : pc[p] \notin Setting
  BY DEF Init, Procs, Setting
<1>6. UnmixedInv
  BY <1>4, <1>5 DEF UnmixedInv
<1>7. WholeTimes
  BY DEF Init, WholeTimes, Range
<1>8. QED
  BY <1>1, <1>6, <1>7, TypeInit DEF ClockInv

LEMMA ClockStep == ClockInv /\ [Next]_vars => ClockInv'
  BY TypeStep, GivenStep, WaitsStep, WholeStep, EstablishedStep DEF ClockInv, Established

(* The clocks' state is always one that the processes have established. *)
THEOREM Invariant == Spec => []ClockInv
  BY ClockInit, ClockStep, PTL DEF Spec

(* Every variable always holds the kind of value the declarations say. *)
THEOREM TypeCorrect == Spec => []TypeOK
<1>1. ClockInv => TypeOK
  BY DEF ClockInv
<1>2. QED
  BY <1>1, Invariant, PTL

(* No time that is half one and half another goes to the board, unless two have
   set the time at once.                                                    *)
THEOREM TimesAreWhole == Spec => []WholeTimes
<1>1. ClockInv => WholeTimes
  BY DEF ClockInv
<1>2. QED
  BY <1>1, Invariant, PTL

(* When nobody sets the time and the line is empty, the memory, the display and
   the board have the same time, unless two have set it at once or a frame was
   lost and none came after it; the display lacks it when the process that
   brought it ended at the computer's clock.                                *)
THEOREM Agreement == Spec => []ClocksAgree
<1>1. ClockInv => ClocksAgree
  BY DEF ClockInv, UnmixedInv, ClocksAgree, Agreed, Delivered, Brings
<1>2. QED
  BY <1>1, Invariant, PTL

(* The synchronising process waits for midnight by a clock that has the time it
   was given, unless the display process has set another.                   *)
THEOREM WaitsByItsTime == Spec => []MidnightIsSet
<1>1. ClockInv => MidnightIsSet
  <2> SUFFICES ASSUME ClockInv, At("sync", "alarm"), ~mixed, last = "sync"
               PROVE  rtc = Read /\ rtc # Never
    BY DEF MidnightIsSet
  <2>1. \A p \in Procs : pc[p] \notin Setting
    <3>1. pc["sync"] \notin Setting
      BY DEF At, Setting
    <3>2. \A p \in Procs : pc[p] \in Setting => p = "sync"
      BY DEF ClockInv, UnmixedInv, AloneInv
    <3>3. QED
      BY <3>1, <3>2
  <2>2. Agreed
    BY <2>1 DEF ClockInv, UnmixedInv, Settled
  <2>3. cells.date # None
    BY DEF ClockInv, WaitsSet, At
  <2>4. QED
    BY <2>2, <2>3 DEF Agreed, Read, Never, CutShort, At
<1>2. QED
  BY <1>1, Invariant, PTL
=============================================================================
