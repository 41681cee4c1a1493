------------------------------- MODULE Resend -------------------------------
(***************************************************************************)
(* resend_history() in src/web/cap.c: the server asks for the data of a    *)
(* range of time; the program walks the files of the days one by one and   *)
(* posts every line until the answer is "ok", then reports that it is done.*)
(*                                                                         *)
(* A call of send_web_post() is one step here, with the outcomes that       *)
(* GprsLink shows it to have: the answer of this request, no useful answer, *)
(* the late "ok" of an earlier attempt, or an "ok" that no request of this  *)
(* process has earned: one meant for another process at the modem, or an    *)
(* error page with the letters ok in it.                                    *)
(***************************************************************************)
EXTENDS Integers, Sequences, FiniteSets

CONSTANTS
  Files,     \* the history files: a function from dates to the times of their lines
  Ranges,    \* the ranges the server may ask for
  MaxLate,   \* bound on the answers that come late
  MaxStray   \* bound on the "ok"s that are not this process's

ASSUME LateAssumption == MaxLate \in Nat /\ MaxStray \in Nat

(* A file is named after its date, and a range has dates: <<year, month, day>>.
   A time is a minute of the day.                                           *)
Dates == Nat \X (1 .. 12) \X (1 .. 31)

ASSUME FileAssumption  == \A d \in DOMAIN Files : d \in Dates /\ Files[d] \in Seq(Nat)
ASSUME RangeAssumption == \A r \in Ranges : r.begin \in Dates /\ r.end \in Dates /\ r.until \in Nat

VARIABLES
  range,    \* date_begin and date_end
  day,      \* year_b, month_b, day_b
  pos,      \* the line of the day's file that is read next
  phase,    \* "walk", "file", "report" or "done"
  acked,    \* the lines an "ok" has been taken for
  stored,   \* the lines the server has stored
  late,     \* "ok"s of earlier attempts still under way
  slow,     \* how many more answers may come late
  stray     \* how many more "ok"s may come that are not this process's

vars == <<range, day, pos, phase, acked, stored, late, slow, stray>>

Year(d)  == d[1]
Month(d) == d[2]
Day(d)   == d[3]

(* max_day: month 0, which the walk passes after December, is one of the rest. *)
MaxDay(m) ==
  IF m = 2 THEN 28 ELSE IF m \in {1, 3, 5, 7, 8, 10, 12} THEN 31 ELSE 30

(* Mutant: the day after the last of a month is the first of the same month. *)
NextDateSameMonth(d) ==
  IF Day(d) # MaxDay(Month(d)) THEN <<Year(d), Month(d), Day(d) + 1>>
  ELSE IF Month(d) = 12        THEN <<Year(d) + 1, 0, 0>>
                               ELSE <<Year(d), Month(d), 0>>

(* The day after d: the walk passes a day 0 of every month, and a month 0. *)
NextDate(d) ==
  IF Day(d) # MaxDay(Month(d)) THEN <<Year(d), Month(d), Day(d) + 1>>
  ELSE IF Month(d) = 12        THEN <<Year(d) + 1, 0, 0>>
                               ELSE <<Year(d), Month(d) + 1, 0>>

(* Mutant: the months are compared as an alternative to the days. *)
WalksOnMonths(d, e) == Year(d) < Year(e) \/ Month(d) < Month(e)

(* Mutant: the day after the last is walked too. *)
WalksOnPast(d, e) == Year(d) < Year(e) \/ Month(d) < Month(e) \/ Day(d) <= Day(e) + 1

(* The condition of the loop over the days. *)
WalksOn(d, e) == Year(d) < Year(e) \/ Month(d) < Month(e) \/ Day(d) <= Day(e)

Lines(d) == IF d \in DOMAIN Files THEN Files[d] ELSE <<>>

(* On the last day of the range, a line after its time ends the walk. *)
PastEnd(d, t) == d = range.end /\ t > range.until
----------------------------------------------------------------------------
Init ==
  /\ range \in Ranges
  /\ day = range.begin
  /\ pos = 1
  /\ phase = "walk"
  /\ acked = {} /\ stored = {}
  /\ late = 0 /\ slow = MaxLate /\ stray = MaxStray

OpenDay ==
  /\ phase = "walk"
  /\ WalksOn(day, range.end)
  /\ pos' = 1
  /\ phase' = "file"
  /\ UNCHANGED <<range, day, acked, stored, late, slow, stray>>

StopWalk ==
  /\ phase = "walk"
  /\ ~WalksOn(day, range.end)
  /\ phase' = "report"
  /\ UNCHANGED <<range, day, pos, acked, stored, late, slow, stray>>

EndOfFile ==
  /\ phase = "file"
  /\ pos > Len(Lines(day))
  /\ day' = NextDate(day)
  /\ phase' = "walk"
  /\ UNCHANGED <<range, pos, acked, stored, late, slow, stray>>

LineInHand == phase = "file" /\ pos <= Len(Lines(day))
Sendable   == LineInHand /\ ~PastEnd(day, Lines(day)[pos])

LastLine ==
  /\ LineInHand
  /\ PastEnd(day, Lines(day)[pos])
  /\ phase' = "report"
  /\ UNCHANGED <<range, day, pos, acked, stored, late, slow, stray>>

(* The answer of this request comes, and it is "ok". *)
SendAnswered ==
  /\ Sendable
  /\ stored' = stored \cup {<<day, pos>>}
  /\ acked' = acked \cup {<<day, pos>>}
  /\ pos' = pos + 1
  /\ UNCHANGED <<range, day, phase, late, slow, stray>>

(* What becomes of a request whose own answer has not been read: it is lost, or
   the server has stored it, and then its "ok" may still come.               *)
Reached ==
  \/ UNCHANGED <<stored, late, slow>>
  \/ stored' = stored \cup {<<day, pos>>} /\ UNCHANGED <<late, slow>>
  \/ stored' = stored \cup {<<day, pos>>} /\ slow > 0 /\ slow' = slow - 1 /\ late' = late + 1

(* Mutant: the line is taken for sent whatever the answer. *)
SendUnansweredOnce ==
  /\ Sendable
  /\ Reached
  /\ acked' = acked \cup {<<day, pos>>}
  /\ pos' = pos + 1
  /\ UNCHANGED <<range, day, phase, stray>>

(* No answer, or one that does not begin with "ok": the line is sent again. *)
SendUnanswered ==
  /\ Sendable
  /\ Reached
  /\ UNCHANGED <<range, day, pos, phase, acked, stray>>

(* The "ok" of an earlier attempt is taken for the answer of this one, which
   may be lost, or stored with its own "ok" now late.                       *)
SendAnsweredLate ==
  /\ Sendable
  /\ late > 0
  /\ \/ stored' = stored /\ late' = late - 1
     \/ stored' = stored \cup {<<day, pos>>} /\ late' \in {late - 1, late}
  /\ acked' = acked \cup {<<day, pos>>}
  /\ pos' = pos + 1
  /\ UNCHANGED <<range, day, phase, slow, stray>>

(* An "ok" that is not this process's is taken for the answer of this request:
   that of another process, with which the modem is shared and from which the
   mutex keeps nobody, or a page of an error that has the letters in it.     *)
SendMisled ==
  /\ Sendable
  /\ stray > 0 /\ stray' = stray - 1
  /\ Reached
  /\ acked' = acked \cup {<<day, pos>>}
  /\ pos' = pos + 1
  /\ UNCHANGED <<range, day, phase>>

(* resend_history_done(): one message, whose answer is ignored. *)
resend_history_done ==
  /\ phase = "report"
  /\ phase' = "done"
  /\ UNCHANGED <<range, day, pos, acked, stored, late, slow, stray>>

(* The walk is over; the process goes back to its loop. *)
Finished == phase = "done" /\ UNCHANGED vars

Next ==
  \/ OpenDay \/ StopWalk \/ EndOfFile \/ LastLine
  \/ SendAnswered \/ SendUnanswered \/ SendAnsweredLate \/ SendMisled
  \/ resend_history_done \/ Finished

(* The loop never waits for anything but a call, and a call returns; a line
   sent again and again is answered in the end.                             *)
Fairness ==
  /\ WF_vars(OpenDay \/ StopWalk \/ EndOfFile \/ LastLine \/ resend_history_done)
  /\ SF_vars(SendAnswered)

Spec     == Init /\ [][Next]_vars
FairSpec == Spec /\ Fairness
----------------------------------------------------------------------------
(* What the server asked for, by the calendar. *)

Before(d, e) ==
  \/ Year(d) < Year(e)
  \/ Year(d) = Year(e) /\ Month(d) < Month(e)
  \/ Year(d) = Year(e) /\ Month(d) = Month(e) /\ Day(d) < Day(e)

InRange(d) == (d = range.begin \/ Before(range.begin, d)) /\ (d = range.end \/ Before(d, range.end))

AllLines == UNION {{d} \X DOMAIN Files[d] : d \in DOMAIN Files}

Asked == {l \in AllLines : InRange(l[1]) /\ ~PastEnd(l[1], Files[l[1]][l[2]])}

(* Every variable holds the kind of value the declarations say. *)
TypeOK ==
  /\ range \in Ranges
  /\ Month(day) \in 0 .. 12 /\ Day(day) \in 0 .. 31
  /\ pos \in Nat \ {0}
  /\ phase \in {"walk", "file", "report", "done"}
  /\ acked \subseteq AllLines /\ stored \subseteq AllLines
  /\ late \in 0 .. MaxLate /\ slow \in 0 .. MaxLate /\ stray \in 0 .. MaxStray

(* A line the program has done with is in the server's hands, unless an "ok"
   that was not its own was taken for it: each late one and each stray one
   loses one line at most, and nothing else loses any.  It is what the loop
   around send_web_post() is for.                                            *)
LossNeedsOk == Cardinality(acked \ stored) + late + slow + stray <= MaxLate + MaxStray

(* When the program reports that the range is sent, every line of it is: the
   walk over made-up days and months, the early return on the last day and
   the retries leave nothing out.                                           *)
RangeIsSent == phase \in {"report", "done"} => Asked \subseteq acked

(* Nothing of a day outside the range is sent, what doc/request.txt says the
   answer to an asking server is: the data of the time range.               *)
OnlyRangeIsSent == \A l \in stored : InRange(l[1])

(* The walk comes to an end and is reported. *)
WalkEnds == <>(phase = "done")
============================================================================
