---------------------------- MODULE ResendProofs ----------------------------
(***************************************************************************)
(* Proofs about Resend, for any files, ranges and number of late and    *)
(* stray answers.                                                          *)
(* What the calendar of the walk does not know is named where it matters.  *)
(***************************************************************************)
EXTENDS Resend, FiniteSetTheorems, TLAPS

(* The days of the walk's own calendar, with day 0 of a month and month 0. *)
Days    == Nat \X (0 .. 12) \X (0 .. 31)
OnWalk(d) == d \in Days /\ Day(d) <= MaxDay(Month(d))

(* No file and no beginning is a day the walk does not know, such as 29 February. *)
DaysAreKnown == (\A d \in DOMAIN Files : OnWalk(d)) /\ \A r \in Ranges : OnWalk(r.begin)

(* The lines of a file are in the order of their times: the clock was never set back. *)
FilesInOrder == \A d \in DOMAIN Files : \A i, j \in DOMAIN Files[d] : i <= j => Files[d][i] <= Files[d][j]

(* A range ends after it begins, and within a month. *)
RangesEndInside == \A r \in Ranges :
  /\ r.begin = r.end \/ Before(r.begin, r.end)
  /\ Day(r.end) < MaxDay(Month(r.end))
----------------------------------------------------------------------------
(* The order of the days. *)

LEMMA Order ==
  /\ \A d, e \in Days : Before(d, e) \/ d = e \/ Before(e, d)
  /\ \A d \in Days : ~Before(d, d)
  /\ \A d, e \in Days : Before(d, e) => ~Before(e, d)
  /\ \A d, e, f \in Days : Before(d, e) /\ Before(e, f) => Before(d, f)
<1> USE DEF Days, Before, Year, Month, Day
<1>1. \A d, e \in Days : Before(d, e) \/ d = e \/ Before(e, d)
  OBVIOUS
<1>2. \A d, e \in Days : Before(d, e) => ~Before(e, d)
  OBVIOUS
<1>3. \A d, e, f \in Days : Before(d, e) /\ Before(e, f) => Before(d, f)
  OBVIOUS
<1>4. \A d \in Days : ~Before(d, d)
  OBVIOUS
<1>5. QED
  BY <1>1, <1>2, <1>3, <1>4

(* The walk goes on to the next day it knows. *)
LEMMA NextDay ==
  ASSUME NEW d, OnWalk(d)
  PROVE  /\ OnWalk(NextDate(d)) /\ Before(d, NextDate(d))
         /\ \A e : OnWalk(e) /\ Before(d, e) => e = NextDate(d) \/ Before(NextDate(d), e)
<1> USE DEF OnWalk, NextDate, MaxDay, Days, Before, Year, Month, Day
<1>1. OnWalk(NextDate(d)) /\ Before(d, NextDate(d))
  OBVIOUS
<1>2. ASSUME NEW e, OnWalk(e), Before(d, e), ~Before(NextDate(d), e) PROVE e = NextDate(d)
  BY <1>2
<1>3. QED
  BY <1>1, <1>2

LEMMA WalkStops ==
  ASSUME NEW d \in Days, NEW e \in Days, ~WalksOn(d, e)
  PROVE  Before(e, d)
BY DEF WalksOn, Before, Days, Year, Month, Day

TypeInv ==
  /\ range \in Ranges /\ pos \in Nat \ {0}
  /\ phase \in {"walk", "file", "report", "done"}
  /\ late \in Nat /\ slow \in Nat /\ late + slow <= MaxLate
  /\ stray \in Nat /\ stray <= MaxStray
  /\ IsFiniteSet(acked)

LEMMA SumKept ==
  \A a, b, c, d, e, f, g, m \in Nat :
    d + e + f + g <= m /\ a <= d /\ b + c <= e + f => a + b + c + g <= m
OBVIOUS

LEMMA SumLate ==
  \A a, b, c, d, e, g, m \in Nat : d + e + c + g <= m /\ a + b <= d + e => a + b + c + g <= m
OBVIOUS

LEMMA SumStray ==
  \A a, b, c, d, e, f, g, m \in Nat :
    d + e + f + (g + 1) <= m /\ a <= d + 1 /\ b + c <= e + f => a + b + c + g <= m
OBVIOUS

LEMMA Types == Spec => []TypeInv
<1>1. Init => TypeInv
  BY LateAssumption, FS_EmptySet DEF Init, TypeInv
<1>2. TypeInv /\ [Next]_vars => TypeInv'
  <2> SUFFICES ASSUME TypeInv, [Next]_vars PROVE TypeInv'
    OBVIOUS
  <2> USE DEF TypeInv
  <2>1. CASE OpenDay \/ StopWalk \/ EndOfFile \/ LastLine \/ resend_history_done \/ Finished \/ UNCHANGED vars
    BY <2>1 DEF OpenDay, StopWalk, EndOfFile, LastLine, resend_history_done, Finished, vars
  <2>2. CASE SendAnswered \/ SendAnsweredLate \/ SendMisled
    <3>1. IsFiniteSet(acked \cup {<<day, pos>>})
      BY FS_AddElement
    <3>2. QED
      <4>1. acked' = acked \cup {<<day, pos>>} /\ UNCHANGED <<range, phase>> /\ pos' = pos + 1
        BY <2>2 DEF SendAnswered, SendAnsweredLate, SendMisled
      <4>2. /\ late' \in Nat /\ slow' \in Nat /\ late' + slow' <= MaxLate
            /\ stray' \in Nat /\ stray' <= MaxStray
        BY <2>2, LateAssumption DEF SendAnswered, SendAnsweredLate, SendMisled, Reached
      <4>3. QED
        BY <3>1, <4>1, <4>2
  <2>3. CASE SendUnanswered
    BY <2>3, LateAssumption DEF SendUnanswered, Reached
  <2>4. QED
    BY <2>1, <2>2, <2>3 DEF Next
<1>3. QED
  BY <1>1, <1>2, PTL DEF Spec
----------------------------------------------------------------------------
(* Each "ok" that is taken for that of another line loses one line at most, and
   nothing else loses any: for any files, any number of answers that come late,
   and any number of "ok"s that are another process's or an error page's.   *)
THEOREM LossIsCounted == Spec => []LossNeedsOk
<1>1. Init => LossNeedsOk
  BY LateAssumption, FS_EmptySet DEF Init, LossNeedsOk
<1>2. TypeInv /\ LossNeedsOk /\ [Next]_vars => LossNeedsOk'
  <2> SUFFICES ASSUME TypeInv, LossNeedsOk, [Next]_vars PROVE LossNeedsOk'
    OBVIOUS
  <2> DEFINE l == <<day, pos>>
             lines == acked \ stored
  <2>1. /\ IsFiniteSet(lines) /\ Cardinality(lines) \in Nat
        /\ late \in Nat /\ slow \in Nat /\ stray \in Nat /\ MaxLate + MaxStray \in Nat
    BY FS_Subset, FS_CardinalityType, LateAssumption DEF TypeInv
  <2>2. \A s \in SUBSET lines : Cardinality(s) \in Nat /\ Cardinality(s) <= Cardinality(lines)
    BY <2>1, FS_Subset, FS_CardinalityType
  <2>3. \A s \in SUBSET (lines \cup {l}) : Cardinality(s) \in Nat /\ Cardinality(s) <= Cardinality(lines) + 1
    <3>1. IsFiniteSet(lines \cup {l}) /\ Cardinality(lines \cup {l}) <= Cardinality(lines) + 1
      BY <2>1, FS_AddElement
    <3>2. QED
      BY <2>1, <3>1, FS_Subset, FS_CardinalityType
  <2>4. CASE OpenDay \/ StopWalk \/ EndOfFile \/ LastLine \/ resend_history_done \/ Finished \/ UNCHANGED vars
    BY <2>4 DEF LossNeedsOk, OpenDay, StopWalk, EndOfFile, LastLine, resend_history_done, Finished, vars
  <2>5. CASE SendAnswered \/ SendUnanswered
    <3>1. acked' \ stored' \in SUBSET lines
      BY <2>5 DEF SendAnswered, SendUnanswered, Reached
    <3>2. late' + slow' <= late + slow /\ late' + slow' \in Nat
      BY <2>1, <2>5 DEF SendAnswered, SendUnanswered, Reached
    <3>3. Cardinality(acked' \ stored') <= Cardinality(lines) /\ Cardinality(acked' \ stored') \in Nat
      BY <2>2, <3>1
    <3>4. late' \in Nat /\ slow' \in Nat /\ stray' = stray
      BY <2>1, <2>5 DEF SendAnswered, SendUnanswered, Reached
    <3>5. QED
      <4> HIDE DEF lines
      <4>1. Cardinality(lines) + late + slow + stray <= MaxLate + MaxStray
        BY DEF LossNeedsOk, lines
      <4>2. QED
        <5>1. Cardinality(acked' \ stored') + late' + slow' + stray' <= MaxLate + MaxStray
          BY <2>1, <3>2, <3>3, <3>4, <4>1, SumKept
        <5>2. QED
          BY <5>1 DEF LossNeedsOk
  <2>6. CASE SendAnsweredLate
    <3>1. late > 0 /\ slow' = slow /\ stray' = stray
      BY <2>6 DEF SendAnsweredLate
    <3>2. \/ acked' \ stored' \in SUBSET lines /\ late' \in {late - 1, late}
          \/ acked' \ stored' \in SUBSET (lines \cup {l}) /\ late' = late - 1
      BY <2>6 DEF SendAnsweredLate
    <3>3. Cardinality(acked' \ stored') \in Nat /\ Cardinality(acked' \ stored') + late' <= Cardinality(lines) + late
      <4>1. CASE acked' \ stored' \in SUBSET lines /\ late' \in {late - 1, late}
        <5>1. Cardinality(acked' \ stored') \in Nat /\ Cardinality(acked' \ stored') <= Cardinality(lines)
          BY <2>2, <4>1
        <5>2. QED
          <6> HIDE DEF lines
          <6> QED BY <2>1, <4>1, <5>1
      <4>2. CASE acked' \ stored' \in SUBSET (lines \cup {l}) /\ late' = late - 1
        <5>1. Cardinality(acked' \ stored') \in Nat /\ Cardinality(acked' \ stored') <= Cardinality(lines) + 1
          BY <2>3, <4>2
        <5>2. QED
          <6> HIDE DEF lines
          <6> QED BY <2>1, <4>2, <5>1
      <4>3. QED
        BY <3>2, <4>1, <4>2
    <3>4. late' \in Nat
      BY <2>1, <3>1, <3>2
    <3>5. QED
      <4> HIDE DEF lines
      <4>1. Cardinality(lines) + late + slow + stray <= MaxLate + MaxStray
        BY DEF LossNeedsOk, lines
      <4>2. QED
        <5>1. Cardinality(acked' \ stored') + late' + slow' + stray' <= MaxLate + MaxStray
          BY <2>1, <3>1, <3>3, <3>4, <4>1, SumLate
        <5>2. QED
          BY <5>1 DEF LossNeedsOk
  <2>7. CASE SendMisled
    <3>1. acked' \ stored' \in SUBSET (lines \cup {l}) /\ stray > 0 /\ stray' = stray - 1
      BY <2>7 DEF SendMisled, Reached
    <3>2. late' + slow' <= late + slow /\ late' \in Nat /\ slow' \in Nat
      BY <2>1, <2>7 DEF SendMisled, Reached
    <3>3. Cardinality(acked' \ stored') <= Cardinality(lines) + 1 /\ Cardinality(acked' \ stored') \in Nat
      BY <2>3, <3>1
    <3>4. stray' \in Nat /\ stray' + 1 = stray
      BY <2>1, <3>1
    <3>5. QED
      <4> HIDE DEF lines
      <4>1. Cardinality(lines) + late + slow + stray <= MaxLate + MaxStray
        BY DEF LossNeedsOk, lines
      <4>2. Cardinality(acked' \ stored') + late' + slow' + stray' <= MaxLate + MaxStray
        BY <2>1, <3>2, <3>3, <3>4, <4>1, SumStray
      <4>3. QED
        BY <4>2 DEF LossNeedsOk
  <2>8. QED
    BY <2>4, <2>5, <2>6, <2>7 DEF Next
<1>3. QED
  BY <1>1, <1>2, Types, PTL DEF Spec

----------------------------------------------------------------------------
(***************************************************************************)
(* The walk.  Every line asked for of a day that has been passed, or before *)
(* the one in hand, is sent.                                               *)
(***************************************************************************)
Passed(l) == \/ phase \in {"report", "done"}
             \/ Before(l[1], day)
             \/ phase = "file" /\ l[1] = day /\ l[2] < pos

WalkInv == OnWalk(day) /\ \A l \in Asked : Passed(l) => l \in acked

LEMMA AskedLine ==
  ASSUME TypeInv, NEW l \in Asked
  PROVE  /\ l[1] \in DOMAIN Files /\ l[1] \in Days /\ l[2] \in DOMAIN Files[l[1]] /\ l = <<l[1], l[2]>>
         /\ InRange(l[1]) /\ ~PastEnd(l[1], Files[l[1]][l[2]])
         /\ range.begin \in Days /\ range.end \in Days /\ range.until \in Nat
<1>1. l[1] \in DOMAIN Files /\ l[2] \in DOMAIN Files[l[1]] /\ l = <<l[1], l[2]>>
  <2>1. PICK d \in DOMAIN Files : l \in {d} \X DOMAIN Files[d]
    BY DEF Asked, AllLines
  <2>2. QED
    BY <2>1
<1>2. InRange(l[1]) /\ ~PastEnd(l[1], Files[l[1]][l[2]])
  BY DEF Asked
<1>3. l[1] \in Days
  BY <1>1, FileAssumption DEF Dates, Days
<1>4. range.begin \in Days /\ range.end \in Days /\ range.until \in Nat
  BY RangeAssumption DEF TypeInv, Dates, Days
<1>5. QED
  BY <1>1, <1>2, <1>3, <1>4

LEMMA WalkInit == ASSUME DaysAreKnown PROVE Init => WalkInv
<1> SUFFICES ASSUME Init PROVE WalkInv
  OBVIOUS
<1>1. TypeInv
  BY LateAssumption, FS_EmptySet DEF Init, TypeInv
<1>2. ASSUME NEW l \in Asked PROVE ~Before(l[1], day)
  BY <1>1, <1>2, AskedLine, Order DEF Init, InRange
<1>3. QED
  BY <1>2 DEF Init, WalkInv, Passed, DaysAreKnown

LEMMA WalkStep ==
  ASSUME DaysAreKnown, FilesInOrder, TypeInv, WalkInv, [Next]_vars
  PROVE  WalkInv'
<1> USE DEF WalkInv
<1>0. range' = range /\ Asked' = Asked /\ day \in Days
  <2>1. range' = range
    BY DEF Next, OpenDay, StopWalk, EndOfFile, LastLine, SendAnswered, SendUnanswered,
       SendAnsweredLate, SendMisled, resend_history_done, Finished, vars
  <2>2. QED
    BY <2>1 DEF Asked, InRange, PastEnd, OnWalk
<1> SUFFICES ASSUME NEW l \in Asked, Passed(l)' PROVE l \in acked'
  <2>1. OnWalk(day)'
    <3>1. day' = day \/ day' = NextDate(day)
      BY DEF Next, OpenDay, StopWalk, EndOfFile, LastLine, SendAnswered, SendUnanswered,
         SendAnsweredLate, SendMisled, resend_history_done, Finished, vars
    <3>2. QED
      BY <3>1, NextDay
  <2>2. QED
    BY <1>0, <2>1
<1> DEFINE d == l[1]
<1>1. /\ d \in DOMAIN Files /\ d \in Days /\ OnWalk(d) /\ l[2] \in DOMAIN Files[d] /\ l = <<d, l[2]>>
      /\ d = range.end \/ Before(d, range.end)
      /\ range.end \in Days /\ ~PastEnd(d, Files[d][l[2]])
  BY AskedLine DEF InRange, DaysAreKnown
<1>2. Files[d] \in Seq(Nat) /\ Lines(d) = Files[d] /\ DOMAIN Files[d] = 1 .. Len(Files[d])
  <2>1. Files[d] \in Seq(Nat)
    BY <1>1, FileAssumption
  <2>2. QED
    BY <1>1, <2>1 DEF Lines
<1>3. CASE OpenDay
  BY <1>2, <1>3, <1>1 DEF OpenDay, Passed
<1>4. CASE StopWalk
  <2>1. Before(range.end, day)
    BY <1>0, <1>1, <1>4, WalkStops DEF StopWalk
  <2>2. Before(d, day)
    BY <1>0, <1>1, <2>1, Order
  <2>3. QED
    BY <1>4, <2>2 DEF StopWalk, Passed
<1>5. CASE EndOfFile
  <2>1. Before(d, NextDate(day)) /\ day' = NextDate(day) /\ acked' = acked
    BY <1>5 DEF EndOfFile, Passed
  <2>2. Before(d, day) \/ d = day
    BY <1>0, <1>1, <2>1, NextDay, Order DEF OnWalk
  <2>3. d = day => l[2] < pos
    BY <1>1, <1>2, <1>5 DEF EndOfFile, TypeInv
  <2>4. QED
    BY <1>5, <2>1, <2>2, <2>3 DEF EndOfFile, Passed
<1>6. CASE LastLine
  <2>1. /\ day = range.end /\ Lines(day)[pos] > range.until /\ pos \in 1 .. Len(Lines(day))
        /\ acked' = acked /\ day' = day /\ phase = "file"
    BY <1>6 DEF LastLine, LineInHand, PastEnd, TypeInv
  <2>2. ASSUME d = day, ~(l[2] < pos) PROVE FALSE
    <3>1. pos \in DOMAIN Files[d] /\ l[2] \in DOMAIN Files[d] /\ pos <= l[2]
      BY <1>1, <1>2, <2>1, <2>2
    <3>2. Files[d][pos] <= Files[d][l[2]]
      BY <1>1, <3>1 DEF FilesInOrder
    <3>3. Files[d][pos] \in Nat /\ Files[d][l[2]] \in Nat /\ range.until \in Nat
      BY <1>2, <3>1, AskedLine
    <3>4. Files[d][l[2]] <= range.until
      BY <1>1, <2>1, <2>2, <3>3 DEF PastEnd
    <3>5. Files[d][pos] > range.until
      BY <1>2, <2>1, <2>2
    <3>6. QED
      BY <3>2, <3>3, <3>4, <3>5
  <2>3. QED
    BY <1>1, <2>1, <2>2 DEF Passed
<1>7. CASE SendAnswered \/ SendAnsweredLate \/ SendMisled
  <2>1. acked' = acked \cup {<<day, pos>>} /\ pos' = pos + 1 /\ phase' = "file" /\ day' = day /\ phase = "file"
    BY <1>7 DEF SendAnswered, SendAnsweredLate, SendMisled, Sendable, LineInHand
  <2>2. CASE Before(d, day)
    BY <2>1, <2>2 DEF Passed
  <2>3. CASE d = day /\ l[2] < pos + 1
    <3>1. l[2] \in Nat /\ pos \in Nat
      BY <1>1, <1>2 DEF TypeInv
    <3>2. CASE l[2] = pos
      BY <1>1, <2>1, <2>3, <3>2
    <3>3. CASE l[2] < pos
      BY <2>1, <2>3, <3>3 DEF Passed
    <3>4. QED
      BY <2>3, <3>1, <3>2, <3>3
  <2>4. QED
    <3>1. Before(d, day) \/ (d = day /\ l[2] < pos + 1)
      BY <2>1 DEF Passed
    <3>2. QED
      BY <2>2, <2>3, <3>1
<1>8. CASE SendUnanswered \/ resend_history_done \/ Finished \/ UNCHANGED vars
  BY <1>8 DEF SendUnanswered, resend_history_done, Finished, vars, Passed
<1>9. QED
  BY <1>3, <1>4, <1>5, <1>6, <1>7, <1>8 DEF Next

(* When the program reports that the range is sent, every line of it is: for any
   files whose days the walk knows and whose lines are in order, and for any
   range, also one that ends with a month.                                  *)
THEOREM AllIsSent ==
  ASSUME DaysAreKnown, FilesInOrder
  PROVE  Spec => []RangeIsSent
<1>1. Init => WalkInv
  BY WalkInit
<1>2. TypeInv /\ WalkInv /\ [Next]_vars => WalkInv'
  BY WalkStep
<1>3. WalkInv => RangeIsSent
  BY DEF WalkInv, Passed, RangeIsSent
<1>4. QED
  BY <1>1, <1>2, <1>3, Types, PTL DEF Spec

----------------------------------------------------------------------------
(***************************************************************************)
(* The other half.  The walk compares years, months and days apart from    *)
(* each other, so that it ends in time only where the day after the range  *)
(* is one of the same month.                                               *)
(***************************************************************************)
OnlyInv ==
  /\ OnWalk(day)
  /\ phase = "walk" => InRange(day) \/ day = NextDate(range.end)
  /\ phase = "file" => InRange(day)
  /\ OnlyRangeIsSent

LEMMA EndIsKnown ==
  ASSUME RangesEndInside, TypeInv
  PROVE  /\ OnWalk(range.end) /\ range.begin \in Days
         /\ range.begin = range.end \/ Before(range.begin, range.end)
         /\ ~WalksOn(NextDate(range.end), range.end)
<1>1. range.begin \in Dates /\ range.end \in Dates /\ Day(range.end) < MaxDay(Month(range.end))
  BY RangeAssumption DEF TypeInv, RangesEndInside
<1>2. range.begin \in Days /\ OnWalk(range.end)
  BY <1>1 DEF OnWalk, Days, Dates, MaxDay, Day, Month
<1>3. ~WalksOn(NextDate(range.end), range.end)
  BY <1>1 DEF WalksOn, NextDate, MaxDay, Dates, Year, Month, Day
<1>4. QED
  BY <1>2, <1>3 DEF TypeInv, RangesEndInside

LEMMA OnlyInit == ASSUME DaysAreKnown, RangesEndInside PROVE Init => OnlyInv
BY DEF Init, OnlyInv, InRange, OnlyRangeIsSent, DaysAreKnown, RangesEndInside

LEMMA OnlyStep ==
  ASSUME RangesEndInside, TypeInv, OnlyInv, [Next]_vars
  PROVE  OnlyInv'
<1> USE DEF OnlyInv
<1>0. range' = range /\ (\A d : InRange(d)' <=> InRange(d)) /\ NextDate(range.end)' = NextDate(range.end)
  <2>1. range' = range
    BY DEF Next, OpenDay, StopWalk, EndOfFile, LastLine, SendAnswered, SendUnanswered,
       SendAnsweredLate, SendMisled, resend_history_done, Finished, vars
  <2>2. QED
    BY <2>1 DEF InRange
<1>1. CASE OpenDay
  <2>1. InRange(day)
    BY <1>1, EndIsKnown DEF OpenDay
  <2>2. QED
    BY <1>0, <1>1, <2>1 DEF OpenDay, OnlyRangeIsSent
<1>2. CASE StopWalk \/ LastLine \/ resend_history_done \/ Finished \/ UNCHANGED vars
  BY <1>0, <1>2 DEF StopWalk, LastLine, resend_history_done, Finished, vars, OnlyRangeIsSent
<1>3. CASE EndOfFile
  <2>1. /\ InRange(day) /\ day \in Days /\ phase' = "walk" /\ stored' = stored
        /\ day' = NextDate(day)
    BY <1>3 DEF EndOfFile, OnWalk
  <2>2. OnWalk(NextDate(day)) /\ Before(day, NextDate(day)) /\ NextDate(day) \in Days
    BY NextDay DEF OnWalk
  <2>3. range.begin = NextDate(day) \/ Before(range.begin, NextDate(day))
    BY <2>1, <2>2, EndIsKnown, Order DEF InRange
  <2>4. \/ NextDate(day) = NextDate(range.end)
        \/ NextDate(day) = range.end \/ Before(NextDate(day), range.end)
    BY <2>1, EndIsKnown, NextDay DEF InRange
  <2>5. InRange(NextDate(day)) \/ NextDate(day) = NextDate(range.end)
    BY <2>3, <2>4 DEF InRange
  <2>6. QED
    BY <1>0, <2>1, <2>2, <2>5 DEF OnlyRangeIsSent
<1>4. CASE SendAnswered \/ SendUnanswered \/ SendAnsweredLate \/ SendMisled
  <2>1. phase = "file" /\ phase' = phase /\ day' = day /\ stored' \subseteq stored \cup {<<day, pos>>}
    BY <1>4 DEF SendAnswered, SendUnanswered, SendAnsweredLate, SendMisled, Reached, Sendable, LineInHand
  <2>2. \A l \in stored' : InRange(l[1])
    BY <2>1 DEF OnlyRangeIsSent
  <2>3. QED
    BY <1>0, <2>1, <2>2 DEF OnlyRangeIsSent
<1>5. QED
  BY <1>1, <1>2, <1>3, <1>4 DEF Next

(* Nothing of a day outside the range is sent, for any files, if every range ends
   within a month: the run resend_month_end shows what happens to another.  *)
THEOREM OnlyTheRange ==
  ASSUME DaysAreKnown, RangesEndInside
  PROVE  Spec => []OnlyRangeIsSent
<1>1. Init => OnlyInv
  BY OnlyInit
<1>2. TypeInv /\ OnlyInv /\ [Next]_vars => OnlyInv'
  BY OnlyStep
<1>3. OnlyInv => OnlyRangeIsSent
  BY DEF OnlyInv
<1>4. QED
  BY <1>1, <1>2, <1>3, Types, PTL DEF Spec
----------------------------------------------------------------------------
(* A line in hand is a line of a file. *)
LEMMA HandIsLine == ASSUME TypeInv, LineInHand PROVE <<day, pos>> \in AllLines
<1>1. CASE day \in DOMAIN Files
  <2>1. Files[day] \in Seq(Nat) /\ pos \in Nat \ {0} /\ pos <= Len(Files[day])
    BY <1>1, FileAssumption DEF TypeInv, LineInHand, Lines
  <2>2. pos \in DOMAIN Files[day]
    BY <2>1
  <2>3. QED
    BY <1>1, <2>2 DEF AllLines
<1>2. CASE day \notin DOMAIN Files
  BY <1>2 DEF TypeInv, LineInHand, Lines
<1>3. QED
  BY <1>1, <1>2

(* The walk stays on the days it knows, and sends lines of the files only. *)
WalkTypes == OnWalk(day) /\ acked \subseteq AllLines /\ stored \subseteq AllLines

LEMMA WalkTypesStep == ASSUME TypeInv, WalkTypes, [Next]_vars PROVE WalkTypes'
<1> USE DEF WalkTypes
<1>1. CASE EndOfFile
  BY <1>1, NextDay DEF EndOfFile
<1>2. CASE SendAnswered \/ SendUnanswered \/ SendAnsweredLate \/ SendMisled
  <2>1. /\ day' = day /\ LineInHand
        /\ acked' \subseteq acked \cup {<<day, pos>>} /\ stored' \subseteq stored \cup {<<day, pos>>}
    BY <1>2 DEF SendAnswered, SendUnanswered, SendAnsweredLate, SendMisled, Reached, Sendable
  <2>2. <<day, pos>> \in AllLines
    BY <2>1, HandIsLine
  <2>3. QED
    BY <2>1, <2>2
<1>3. CASE OpenDay \/ StopWalk \/ LastLine \/ resend_history_done \/ Finished \/ UNCHANGED vars
  BY <1>3 DEF OpenDay, StopWalk, LastLine, resend_history_done, Finished, vars
<1>4. QED
  BY <1>1, <1>2, <1>3 DEF Next

(* Every variable holds the kind of value the declarations say: day and month stay
   within the calendar of the walk, and what is sent is a line of a file.   *)
THEOREM TypeCorrect ==
  ASSUME DaysAreKnown
  PROVE  Spec => []TypeOK
<1>1. Init => WalkTypes
  BY DEF Init, WalkTypes, DaysAreKnown
<1>2. TypeInv /\ WalkTypes /\ [Next]_vars => WalkTypes'
  BY WalkTypesStep
<1>3. TypeInv /\ WalkTypes => TypeOK
  <2> SUFFICES ASSUME TypeInv, WalkTypes PROVE TypeOK
    OBVIOUS
  <2>1. Month(day) \in 0 .. 12 /\ Day(day) \in 0 .. 31
    BY DEF WalkTypes, OnWalk, Days, Month, Day
  <2>2. late \in 0 .. MaxLate /\ slow \in 0 .. MaxLate /\ stray \in 0 .. MaxStray
    BY LateAssumption DEF TypeInv
  <2>3. QED
    BY <2>1, <2>2 DEF TypeInv, WalkTypes, TypeOK
<1>4. QED
  BY <1>1, <1>2, <1>3, Types, PTL DEF Spec
=============================================================================
