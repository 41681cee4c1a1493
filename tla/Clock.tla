------------------------------- MODULE Clock -------------------------------
(***************************************************************************)
(* The time, in src/web/cap.c: the synchronising process asks the server   *)
(* for it and then waits for midnight (sync_server, set_alarm, the last    *)
(* loop of main), the display process asks too or takes it from the user   *)
(* (manul_set_time), and the CAP process sends it again when the board     *)
(* wants it (RESEND_BYTE of get_uart).                                     *)
(*                                                                         *)
(* It is handed around in server_time, thirteen bytes of shared memory     *)
(* that nothing guards: whoever sets the time writes the bytes one by one, *)
(* computes the checksum over what is then in the memory, and sends to the *)
(* board and copies to the other clocks what is then there.  Here they are *)
(* three cells, the date (with the constant head, which is written before  *)
(* it), the hour and the checksum; a cell holds the time it was taken      *)
(* from, and a checksum fits no other two cells.  The time of the server   *)
(* does not run: what matters is from which setting a clock has its time.  *)
(* Years begin with 2001 (the year 2000 is a zero byte).                   *)
(*                                                                         *)
(* Any failing call on the computer's clock ends the synchronising process *)
(* (exit(errno) of set_time and set_alarm): "cut" short of the display, or *)
(* "dead" around midnight.  Nobody starts it again.                        *)
(***************************************************************************)
EXTENDS Naturals, Sequences, SequencesExt, TLC

CONSTANTS
  Times,      \* times the server or the user gives
  None,       \* zero bytes, or a clock that was never set
  MaxFrames   \* bound on the frames on their way to the board

ASSUME NoneAssumption  == None \notin Times
ASSUME BoundAssumption == MaxFrames \in Nat \ {0}

VARIABLES
  pc,      \* of the two processes that set the time
  given,   \* the time each of them is about to set
  cells,   \* server_time
  rtc,     \* the clock of the computer
  clock,   \* the clock of the display
  board,   \* the clock of the board
  down,    \* frames on their way to the board
  lost,    \* history: was one lost since the board took one?
  alone,   \* history: has nobody else set the time while this process did?
  mixed,   \* history: have two set it at once, and none alone since?
  last     \* history: who began to set it last

memory  == <<given, cells>>
clocks  == <<rtc, clock, board>>
line    == <<down, lost>>
history == <<alone, mixed, last>>
vars    == <<pc, memory, clocks, line, history>>

Procs   == {"sync", "lcd"}
Setting == {"hour", "crc", "send", "rtc", "clock"}  \* begun to set the time
Never   == [date |-> None, hour |-> None]
Half    == Times \cup {None}
Reading == [date : Half, hour : Half]               \* of a clock

Read == [date |-> cells.date, hour |-> cells.hour]

Init ==
  /\ pc = [p \in Procs |-> IF p = "sync" THEN "post" ELSE "idle"]
  /\ given = [p \in Procs |-> None]
  /\ cells = [date |-> None, hour |-> None, crc |-> Never]
  /\ rtc = Never /\ clock = Never /\ board = Never
  /\ down = <<>> /\ lost = FALSE
  /\ alone = [p \in Procs |-> FALSE] /\ mixed = FALSE /\ last = "sync"

At(p, l)   == pc[p] = l
Goto(p, l) == pc' = [pc EXCEPT ![p] = l]
----------------------------------------------------------------------------
(* sync_server(): send_web_post() returns, with a time or without. *)
Reply(p) ==
  /\ At(p, "post")
  /\ \E t \in Times : given' = [given EXCEPT ![p] = t]
  /\ Goto(p, "date")
  /\ UNCHANGED <<cells, clocks, line, history>>

NoReply(p) ==
  /\ At(p, "post")
  /\ Goto(p, IF p = "sync" THEN "test" ELSE "idle")
  /\ UNCHANGED <<memory, clocks, line, history>>

(* Head and date are written ... *)
Date(p) ==
  /\ At(p, "date")
  /\ cells' = [cells EXCEPT !.date = given[p]]
  /\ Goto(p, "hour")
  /\ LET others == {q \in Procs \ {p} : pc[q] \in Setting} IN
       /\ alone' = [q \in Procs |-> IF q = p THEN others = {} ELSE alone[q] /\ q \notin others]
       /\ mixed' = (mixed \/ others # {})
  /\ last' = p
  /\ UNCHANGED <<given, clocks, line>>

(* ... then the hour, the minute and the second ... *)
Hour(p) ==
  /\ At(p, "hour")
  /\ cells' = [cells EXCEPT !.hour = given[p]]
  /\ given' = [given EXCEPT ![p] = None]
  /\ Goto(p, "crc")
  /\ UNCHANGED <<clocks, line, history>>

(* Mutant: the checksum leaves out the hour. *)
CrcOfDate(p) ==
  /\ At(p, "crc")
  /\ cells' = [cells EXCEPT !.crc = [date |-> cells.date]]
  /\ Goto(p, "send")
  /\ UNCHANGED <<given, clocks, line, history>>

(* ... and the checksum of what is there. *)
Crc(p) ==
  /\ At(p, "crc")
  /\ cells' = [cells EXCEPT !.crc = Read]
  /\ Goto(p, "send")
  /\ UNCHANGED <<given, clocks, line, history>>

(* A frame is what the board makes of it, a time or nothing. *)
Fits(c)  == c.date # None /\ c.crc = [date |-> c.date, hour |-> c.hour]
Frame(c) == [time |-> IF Fits(c) THEN c.crc ELSE Never, sure |-> ~mixed]
Write    == Len(down) < MaxFrames /\ down' = Append(down, Frame(cells))

(* Only the synchronising process sets the clock of the computer. *)
Send(p) ==
  /\ At(p, "send")
  /\ Write
  /\ Goto(p, IF p = "sync" THEN "rtc" ELSE "clock")
  /\ UNCHANGED <<memory, clocks, lost, history>>

(* Mutant: set_time() is not called. *)
SetTimeNot ==
  /\ At("sync", "rtc")
  /\ Goto("sync", "clock")
  /\ UNCHANGED <<memory, clocks, line, history>>

SetTime ==
  /\ At("sync", "rtc")
  /\ rtc' = Read
  /\ Goto("sync", "clock")
  /\ UNCHANGED <<memory, clock, board, line, history>>

(* The clock cannot be opened, or takes no such time: the process ends, and the
   display is not told.                                                     *)
SetTimeFails ==
  /\ At("sync", "rtc")
  /\ Goto("sync", "cut")
  /\ mixed' = (mixed /\ ~alone["sync"]) /\ alone' = [alone EXCEPT !["sync"] = FALSE]
  /\ UNCHANGED <<memory, clocks, line, last>>

(* Mutant: only the synchronising process sets the clock of the display. *)
SetLcdTimeSync(p) ==
  /\ At(p, "clock")
  /\ clock' = IF p = "sync" THEN Read ELSE clock
  /\ Goto(p, IF p = "sync" THEN "test" ELSE "idle")
  /\ mixed' = (mixed /\ ~alone[p]) /\ alone' = [alone EXCEPT ![p] = FALSE]
  /\ UNCHANGED <<memory, rtc, board, line, last>>

(* set_lcd_time(), and the end of the setting. *)
SetLcdTime(p) ==
  /\ At(p, "clock")
  /\ clock' = Read
  /\ Goto(p, IF p = "sync" THEN "test" ELSE "idle")
  /\ mixed' = (mixed /\ ~alone[p]) /\ alone' = [alone EXCEPT ![p] = FALSE]
  /\ UNCHANGED <<memory, rtc, board, line, last>>
----------------------------------------------------------------------------
(* Mutant: after midnight the process waits for the next one. *)
MidnightAgain ==
  /\ At("sync", "alarm")
  /\ Goto("sync", "test")
  /\ UNCHANGED <<memory, clocks, line, history>>

(* The loop of the synchronising process: once there is a time, whoever has
   set it, it waits for midnight (set_alarm); otherwise it asks again after ten
   seconds.                                                                 *)
Test ==
  /\ At("sync", "test")
  /\ Goto("sync", IF cells.date # None THEN "alarm" ELSE "post")
  /\ UNCHANGED <<memory, clocks, line, history>>

Midnight ==
  /\ At("sync", "alarm")
  /\ Goto("sync", "ask")
  /\ UNCHANGED <<memory, clocks, line, history>>

(* A call of set_alarm() on the clock fails, before the wait or after it. *)
AlarmFails ==
  /\ At("sync", "alarm")
  /\ Goto("sync", "dead")
  /\ UNCHANGED <<memory, clocks, line, history>>

(* sync_server(fd_com, 1, 1): the server answers with a range of history to be
   sent again, or with none, or not at all ...                              *)
AskRange ==
  /\ At("sync", "ask")
  /\ \/ Goto("sync", "resend")
     \/ Goto("sync", "post")
  /\ UNCHANGED <<memory, clocks, line, history>>

(* ... and resend_history() returns, if it ever does (see Resend). *)
ResendEnds ==
  /\ At("sync", "resend")
  /\ Goto("sync", "post")
  /\ UNCHANGED <<memory, clocks, line, history>>

(* TOUCH_TIME_CHANGE_SERVER *)
ChangeServer ==
  /\ At("lcd", "idle")
  /\ Goto("lcd", "post")
  /\ UNCHANGED <<memory, clocks, line, history>>

(* TOUCH_TIME_CHANGE_OK and _MANUL: with fields that hold a time. *)
ChangeManual ==
  /\ At("lcd", "idle")
  /\ \E t \in Times : given' = [given EXCEPT !["lcd"] = t]
  /\ Goto("lcd", "date")
  /\ UNCHANGED <<cells, clocks, line, history>>

(* Mutant: nothing is sent, as for VERIFY_BYTE. *)
ResendNothing == FALSE /\ UNCHANGED vars

(* Mutant: what is sent has a checksum of its own. *)
ResendAnew ==
  /\ Len(down) < MaxFrames
  /\ down' = Append(down, Frame([cells EXCEPT !.crc = Read]))
  /\ UNCHANGED <<pc, memory, clocks, lost, history>>

(* RESEND_BYTE: the board asks, at any time, and the CAP process sends what is
   there.                                                                   *)
Resend ==
  /\ Write
  /\ UNCHANGED <<pc, memory, clocks, lost, history>>
----------------------------------------------------------------------------
(* The board takes a frame whose checksum fits, if the line does not lose it. *)
Take ==
  /\ down # <<>>
  /\ down' = Tail(down)
  /\ IF Head(down).time # Never THEN board' = Head(down).time /\ lost' = FALSE
     ELSE UNCHANGED <<board, lost>>
  /\ UNCHANGED <<pc, memory, rtc, clock, history>>

Lose ==
  /\ down # <<>>
  /\ down' = Tail(down)
  /\ lost' = TRUE
  /\ UNCHANGED <<pc, memory, clocks, history>>

SyncStep == Test \/ SetTime \/ AskRange
SyncEnds == SetTimeFails \/ AlarmFails
TimeStep(p) == Date(p) \/ Hour(p) \/ Crc(p) \/ SetLcdTime(p)

Next ==
  \/ SyncStep \/ SyncEnds \/ Midnight \/ ResendEnds
  \/ ChangeServer \/ ChangeManual
  \/ \E p \in Procs : Reply(p) \/ NoReply(p) \/ TimeStep(p) \/ Send(p)
  \/ Resend
  \/ Take \/ Lose

Spec == Init /\ [][Next]_vars

(* A call of the link returns (see GprsLink), with an answer or without; midnight
   comes; the board goes on asking, and the line does not lose every frame.
   The other steps are those of processes that run.  Who waits for room on the
   line (MaxFrames) gets it in turn.  Nothing says that resend_history() ever
   returns, nor that the clock's calls fail or do not.                      *)
Fairness ==
  /\ WF_vars(SyncStep) /\ WF_vars(Midnight)
  /\ \A p \in Procs : WF_vars(Reply(p) \/ NoReply(p)) /\ WF_vars(TimeStep(p)) /\ SF_vars(Send(p))
  /\ SF_vars(Resend) /\ SF_vars(Take)

FairSpec == Spec /\ Fairness
----------------------------------------------------------------------------
(* Every variable holds the kind of value the declarations say. *)
TypeOK ==
  /\ pc \in [Procs -> {"idle", "post", "date", "test", "alarm"} \cup Setting \cup
                      {"ask", "resend", "cut", "dead"}]
  /\ given \in [Procs -> Half]
  /\ cells \in [date : Half, hour : Half, crc : Reading]
  /\ {rtc, clock, board} \subseteq Reading
  /\ down \in Seq([time : Reading, sure : BOOLEAN]) /\ Len(down) <= MaxFrames
  /\ {lost, mixed} \subseteq BOOLEAN /\ alone \in [Procs -> BOOLEAN] /\ last \in Procs

Whole(t) == t.date = t.hour
Settled  == \A p \in Procs : pc[p] \notin Setting

(* No time that is half one and half another reaches the board, although the
   CAP process sends what it finds while another one writes it: only two that
   set the time at once can bring that about, and the next that does it alone
   repairs it.                                                              *)
WholeTimes == \A f \in Range(down) : f.sure => Whole(f.time)

(* When nobody is setting the time and nothing is on the line, the board, the
   display and the memory have one time, unless two have set it at once or
   the board was last sent something it did not get.  The display lacks the
   last time when the process that brought it ended at the computer's clock. *)
CutShort    == At("sync", "cut") /\ last = "sync"
ClocksAgree ==
  Settled /\ down = <<>> /\ ~mixed /\ ~lost => board = Read /\ (clock = Read \/ CutShort)

(* The midnight the synchronising process waits for is that of the time it was
   given: the clock of the computer has it, unless the display process has
   begun to set another time, which that clock never gets.                  *)
MidnightIsSet ==
  At("sync", "alarm") /\ ~mixed /\ last = "sync" => rtc = Read /\ rtc # Never

(* The time in the memory comes to the board, though frames are lost and the
   server may stay away, unless another is set or two are at once.          *)
BoardFollows ==
  \A t \in Times :
    Settled /\ ~mixed /\ cells.date = t ~> board.date = t \/ mixed \/ cells.date # t

(* The synchronising process sets the clock of the computer again and again as
   long as the server answers again and again when it is asked, although a time
   set by the user lets it wait for midnight by a clock nobody has set.  Only
   two things can keep it from that: its end at a call on that clock, and a
   resending of history that does not come to an end.                       *)
KeepsSyncing ==
  ([]<>At("sync", "post") => []<>At("sync", "date")) =>
    []<>At("sync", "rtc") \/ <>[](pc["sync"] \in {"cut", "dead", "resend"})
=============================================================================
