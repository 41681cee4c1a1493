------------------------------ MODULE History ------------------------------
(***************************************************************************)
(* The history of one sensor, in shared memory: load_history() fills it    *)
(* from the files of the days in a process of its own, the CAP process     *)
(* adds a record every ten minutes (send_server_save_local), and the       *)
(* display process pages through it (show_history) or draws the last day   *)
(* (show_curve).  The six sensors have the same code, one copy each.       *)
(*                                                                         *)
(* Nothing locks: a record is its data and its time in a slot and then the *)
(* counter, and the display reads the counter anew for the time of a row,  *)
(* for its data, and for every record of a curve.  The first record is     *)
(* saved ten minutes after the start (alarm(600)); the load is taken to be *)
(* over by then, so loader and CAP never write at once.                    *)
(***************************************************************************)
EXTENDS Integers, Sequences, FiniteSets, SequencesExt

CONSTANTS
  Files,     \* a function from dates <<year, month, day>> to sequences of records
  News,      \* the records the CAP process saves, in this order
  Slots,     \* the length of the shared array: 100000
  Page,      \* the records on a page: 7
  Hours,     \* the hours of a day: 24
  MinCurve   \* records a curve needs beside one: 0, or 7 for shidu and temp

ASSUME SizeAssumption ==
  /\ Slots \in Nat /\ Page \in Nat \ {0} /\ Hours \in Nat \ {0} /\ MinCurve \in Nat

(* A line with a time and the line with its message, and the messages to come. *)
Record == [time : Seq(Nat), data : Int]

ASSUME RecordAssumption ==
  /\ IsFiniteSet(DOMAIN Files) /\ \A d \in DOMAIN Files : d \in Nat \X Nat \X Nat /\ Files[d] \in Seq(Record)
  /\ News \in Seq(Record)

VARIABLES
  load,    \* the loader: "dir", "sort", then "time", "data", "count"; "done" or "failed"
  names,   \* file_list: the names of the files it has still to open
  pass, left, right, \* of the sort: its pass, and the two names compared (j and m)
  todo,    \* the records it has still to read of the open file
  hist,    \* g_history_co: the slots
  cnt,     \* *g_co_cnt
  done,    \* *history_done
  cap,     \* the CAP process: "idle", "time", "count"
  saved,   \* how many of News it has dealt with
  lcd,     \* the display process: "idle", "time", "data" (of a row) or "curve"
  begin,   \* begin_co, the offset of the page
  row,     \* the row that is drawn
  walk,    \* the locals of show_curve(): temp, hour1, hour2, i and buf[0..j-1]
  from,    \* history: the counter when the page or curve was begun
  screen,  \* the rows on the display
  curve    \* the curve on the display

sortVars == <<pass, left, right>>
loadVars == <<load, names, sortVars, todo, done>>
capVars  == <<cap, saved>>
lcdVars  == <<lcd, begin, row, walk, from, screen, curve>>
vars     == <<loadVars, hist, cnt, capVars, lcdVars>>

(* A record has a time <<year, month, day, hour, minute>> and a value; None
   stands for a message without a value of this sensor.  A slot that was never
   filled is zero: an empty time, of no day.                                *)
None  == -1
Blank == [time |-> <<0, 0, 0, 0, 0>>, data |-> None]
Date(r) == SubSeq(r.time, 1, 3)
Hour(r) == r.time[4]

(* The times of the lines and messages are the program's own, of the board's clock. *)
Timed(r) == Len(r.time) = 5 /\ Hour(r) < Hours

ASSUME TimeAssumption ==
  /\ \A d \in DOMAIN Files : \A n \in DOMAIN Files[d] : Timed(Files[d][n])
  /\ \A n \in DOMAIN News : Timed(News[n])
----------------------------------------------------------------------------
(* The order of two names in pass k of the sort: by year, by month within a
   year, by day within a month.                                             *)

(* Mutant: months and days are compared whatever their years and months. *)
AfterAnywhere(k, a, b) == a[k] > b[k]

After(k, a, b) == a[k] > b[k] /\ \A l \in 1 .. k - 1 : a[l] = b[l]
----------------------------------------------------------------------------
Init ==
  /\ load = "dir" /\ names = <<>> /\ todo = <<>> /\ done = FALSE
  /\ pass = 1 /\ left = 1 /\ right = 2
  /\ hist = [i \in 0 .. Slots - 1 |-> Blank]
  /\ cnt = 0
  /\ cap = "idle" /\ saved = 0
  /\ lcd = "idle" /\ begin = 0 /\ row = 1 /\ from = 0
  /\ walk = [day |-> <<>>, hour |-> 0, next |-> 0, i |-> 0, buf |-> <<>>]
  /\ screen = [k \in 1 .. Page |-> Blank]
  /\ curve = <<>>

(* The directory gives the names in any order, or cannot be opened; then
   *history_done stays 0.                                                   *)
OpenDir ==
  /\ load = "dir"
  /\ \/ /\ names' \in SetToSeqs(DOMAIN Files)
        /\ load' = IF Len(names') > 1 THEN "sort" ELSE "time"
     \/ load' = "failed" /\ UNCHANGED names
  /\ UNCHANGED <<sortVars, todo, done, hist, cnt, capVars, lcdVars>>

(* The sort: in each of three passes every name is compared with all that come
   after it, and takes the place of the later one.                          *)
CompareNames ==
  /\ load = "sort"
  /\ names' = IF After(pass, names[left], names[right])
               THEN [names EXCEPT ![left] = names[right], ![right] = names[left]]
               ELSE names
  /\ \/ /\ right < Len(names) /\ right' = right + 1
        /\ UNCHANGED <<load, pass, left>>
     \/ /\ right = Len(names) /\ left < Len(names) - 1 /\ left' = left + 1 /\ right' = left + 2
        /\ UNCHANGED <<load, pass>>
     \/ /\ right = Len(names) /\ left = Len(names) - 1 /\ left' = 1 /\ right' = 2
        /\ IF pass < 3 THEN pass' = pass + 1 /\ UNCHANGED load
                       ELSE load' = "time" /\ UNCHANGED pass
  /\ UNCHANGED <<todo, done, hist, cnt, capVars, lcdVars>>

OpenFile ==
  /\ load = "time" /\ todo = <<>> /\ names # <<>>
  /\ todo' = Files[Head(names)] /\ names' = Tail(names)
  /\ UNCHANGED <<load, sortVars, done, hist, cnt, capVars, lcdVars>>

(* A line with a time: the time of the next slot, used or not. *)
LoadTime ==
  /\ load = "time" /\ todo # <<>>
  /\ hist' = [hist EXCEPT ![cnt].time = Head(todo).time]
  /\ load' = "data"
  /\ UNCHANGED <<names, sortVars, todo, done, cnt, capVars, lcdVars>>

(* A line with a message: the slot is filled if it has a value of the sensor. *)
LoadData ==
  /\ load = "data"
  /\ IF Head(todo).data = None
       THEN load' = "time" /\ todo' = Tail(todo) /\ UNCHANGED hist
       ELSE /\ hist' = [hist EXCEPT ![cnt].data = Head(todo).data]
            /\ load' = "count" /\ UNCHANGED todo
  /\ UNCHANGED <<names, sortVars, done, cnt, capVars, lcdVars>>

LoadCount ==
  /\ load = "count"
  /\ cnt' = cnt + 1
  /\ load' = "time"
  /\ todo' = Tail(todo)
  /\ UNCHANGED <<names, sortVars, done, hist, capVars, lcdVars>>

(* Mutant: the load stops at the last record. *)
LoadEndEarly ==
  /\ load = "time" /\ Len(todo) <= 1 /\ names = <<>>
  /\ load' = "done" /\ done' = TRUE
  /\ UNCHANGED <<names, sortVars, todo, hist, cnt, capVars, lcdVars>>

LoadEnd ==
  /\ load = "time" /\ todo = <<>> /\ names = <<>>
  /\ load' = "done" /\ done' = TRUE
  /\ UNCHANGED <<names, sortVars, todo, hist, cnt, capVars, lcdVars>>
----------------------------------------------------------------------------
MaySave == load \in {"done", "failed"} /\ cap = "idle" /\ saved < Len(News)

(* Mutant: the record is counted before its time is written. *)
RecordDataCounting ==
  /\ MaySave
  /\ hist' = [hist EXCEPT ![cnt].data = News[saved + 1].data]
  /\ cnt' = cnt + 1
  /\ cap' = "time"
  /\ UNCHANGED <<loadVars, saved, lcdVars>>

(* send_server_save_local(): data, time, counter; nothing without a value. *)
RecordData ==
  /\ MaySave
  /\ IF News[saved + 1].data = None
       THEN saved' = saved + 1 /\ UNCHANGED <<hist, cap>>
       ELSE /\ hist' = [hist EXCEPT ![cnt].data = News[saved + 1].data]
            /\ cap' = "time" /\ UNCHANGED saved
  /\ UNCHANGED <<loadVars, cnt, lcdVars>>

RecordTime ==
  /\ cap = "time"
  /\ hist' = [hist EXCEPT ![cnt].time = News[saved + 1].time]
  /\ cap' = "count"
  /\ UNCHANGED <<loadVars, cnt, saved, lcdVars>>

RecordCount ==
  /\ cap = "count"
  /\ cnt' = cnt + 1
  /\ cap' = "idle" /\ saved' = saved + 1
  /\ UNCHANGED <<loadVars, hist, lcdVars>>
----------------------------------------------------------------------------
(* show_history(): a page is drawn only when more than a page is left; then
   row after row, the time and the data each from where the counter is then. *)
Touched == lcd = "idle" /\ UNCHANGED <<loadVars, hist, cnt, capVars, screen, curve>>

StartPage(b) ==
  /\ begin' = b
  /\ from' = cnt
  /\ row' = 1
  /\ lcd' = IF cnt - b - Page > 0 THEN "time" ELSE "idle"
  /\ UNCHANGED walk

(* Mutant: the rows are counted from the wrong end of the page. *)
ShowTimeReversed ==
  /\ lcd = "time"
  /\ screen' = [screen EXCEPT ![row].time = hist[cnt - begin - (Page + 1 - row)].time]
  /\ lcd' = "data"
  /\ UNCHANGED <<loadVars, hist, cnt, capVars, begin, row, walk, from, curve>>

ShowTime ==
  /\ lcd = "time"
  /\ screen' = [screen EXCEPT ![row].time = hist[cnt - begin - row].time]
  /\ lcd' = "data"
  /\ UNCHANGED <<loadVars, hist, cnt, capVars, begin, row, walk, from, curve>>

ShowData ==
  /\ lcd = "data"
  /\ screen' = [screen EXCEPT ![row].data = hist[cnt - begin - row].data]
  /\ IF row = Page THEN lcd' = "idle" /\ UNCHANGED row
                   ELSE lcd' = "time" /\ row' = row + 1
  /\ UNCHANGED <<loadVars, hist, cnt, capVars, begin, walk, from, curve>>

RefreshPage == Touched /\ StartPage(0)

LastPage == Touched /\ begin >= Page /\ StartPage(begin - Page)

NextPage == Touched /\ begin + Page < cnt /\ StartPage(begin + Page)

(* TOUCH_CURVE_LIST, and a sensor's touch or a log-in while the load runs. *)
ShowList == Touched /\ StartPage(begin)
----------------------------------------------------------------------------
(* show_curve(): back from the last record while the day is the same.  It looks
   at the slot before the first when all records are of one day: the end of
   another segment, which is zero and no time.                              *)

ShowCurve ==
  /\ Touched
  /\ done
  /\ cnt - MinCurve > 0
  /\ lcd' = "curve"
  /\ walk' = [day |-> Date(hist[cnt - 1]), hour |-> Hours, next |-> Hour(hist[cnt - 1]),
              i |-> 0, buf |-> <<>>]
  /\ from' = cnt
  /\ UNCHANGED <<begin, row>>

Slot   == cnt - walk.i - 1
InWalk == Slot >= 0 /\ Date(hist[Slot]) = walk.day

(* Mutant: a point too many for every hour. *)
FillOneMore(w, v) ==
  IF w.hour = w.next THEN w.buf
  ELSE w.buf \o [k \in 1 .. Min({w.hour - w.next + 1, Hours - Len(w.buf)}) |-> v]

(* The newest record of an hour fills the points from the hour before, as long
   as there is room in the buffer.                                          *)
Fill(w, v) == w.buf \o [k \in 1 .. Min({w.hour - w.next, Hours - Len(w.buf)}) |-> v]

CurveBack ==
  /\ lcd = "curve" /\ InWalk
  /\ walk' = [walk EXCEPT !.buf  = Fill(walk, hist[Slot].data),
                          !.hour = walk.next,
                          !.i    = @ + 1,
                          !.next = IF Slot > 0 THEN Hour(hist[Slot - 1]) ELSE 0]
  /\ UNCHANGED <<loadVars, hist, cnt, capVars, lcd, begin, row, from, screen, curve>>

(* The last point is repeated to the end; with none, it is what lies on the
   stack before the buffer, no value of a record.                           *)
CurveEnd ==
  /\ lcd = "curve" /\ ~InWalk
  /\ LET buf == walk.buf
         last == IF buf = <<>> THEN None ELSE buf[Len(buf)]
     IN  curve' = [k \in 1 .. Hours |-> IF k <= Len(buf) THEN buf[k] ELSE last]
  /\ lcd' = "idle"
  /\ UNCHANGED <<loadVars, hist, cnt, capVars, begin, row, walk, from, screen>>

Next ==
  \/ OpenDir \/ CompareNames \/ OpenFile \/ LoadTime \/ LoadData \/ LoadCount \/ LoadEnd
  \/ RecordData \/ RecordTime \/ RecordCount
  \/ ShowTime \/ ShowData \/ RefreshPage \/ LastPage \/ NextPage \/ ShowList
  \/ ShowCurve \/ CurveBack \/ CurveEnd

Spec == Init /\ [][Next]_vars
----------------------------------------------------------------------------
FileRecords  == UNION {{Files[d][i] : i \in DOMAIN Files[d]} : d \in DOMAIN Files}
SavedRecords == {News[i] : i \in 1 .. saved}
WithValue(R) == {r \in R : r.data # None}
Records      == WithValue(FileRecords \cup {News[i] : i \in DOMAIN News})

Before(t, u) == \E i \in 1 .. 5 : t[i] < u[i] /\ \A k \in 1 .. i - 1 : t[k] = u[k]

(* Every variable holds the kind of value the declarations say; the counter
   leaves room for the record that is being written.                        *)
TypeOK ==
  /\ load \in {"dir", "sort", "time", "data", "count", "done", "failed"}
  /\ names \in Seq(DOMAIN Files) /\ pass \in 1 .. 3 /\ {left, right} \subseteq 1 .. Len(names) + 2
  /\ todo \in Seq(FileRecords) /\ done \in BOOLEAN
  /\ DOMAIN hist = 0 .. Slots - 1 /\ cnt \in 0 .. Slots
  /\ cap \in {"idle", "time", "count"} /\ saved \in 0 .. Len(News)
  /\ lcd \in {"idle", "time", "data", "curve"}
  /\ begin \in Nat /\ row \in 1 .. Page /\ from \in 0 .. cnt
  /\ walk.i \in 0 .. cnt + 1 /\ Len(walk.buf) <= Hours
  /\ DOMAIN screen = 1 .. Page /\ Len(curve) \in {0, Hours}

(* The records are in the order of their times, whatever the order of the
   directory: the passes of the sort do not undo each other.                *)
Chronological ==
  \A i, j \in 0 .. cnt - 1 : i < j => Before(hist[i].time, hist[j].time)

(* Between two saves, a history that is loaded holds exactly the records with
   a value of the files and of the messages since: lines without one, which
   leave their time in a slot, neither count nor lend their time to another. *)
HistoryIsAll ==
  load = "done" /\ cap = "idle" =>
    {hist[i] : i \in 0 .. cnt - 1} = WithValue(FileRecords \cup SavedRecords)

(* A row on the display is one record that was saved, whatever the CAP process
   has written of the next by then.  Only when a record is counted between the
   two halves of a row has it the data of the record after its own.         *)
RowIsRecord ==
  [][ShowData /\ cnt <= from + 1 =>
       \E i \in 0 .. cnt - 1 :
         LET shown == screen'[row] IN
         /\ hist[i] \in Records /\ shown.time = hist[i].time
         /\ \/ shown.data = hist[i].data
            \/ (cnt = from + 1 /\ i + 1 < cnt /\ shown.data = hist[i + 1].data)]_vars

(* A page goes from new to old even when a record comes in while it is drawn
   (they come ten minutes apart): a row may repeat the time of the one above
   it, or have that of the record before that one, and none is skipped.     *)
PageNewestFirst ==
  [][ShowTime /\ row > 1 /\ cnt <= from + 1 =>
       LET above == screen[row - 1].time
           this  == screen'[row].time
       IN  \/ this = above
           \/ \E i \in 1 .. cnt - 1 : hist[i].time = above /\ hist[i - 1].time = this]_vars

(* The records of the day of the curve, as counted when it was begun; those of
   its first hour; and those that are known at the end of the hour of point k. *)
OfDay     == {i \in 0 .. from - 1 : Date(hist[i]) = walk.day}
FirstHour == {i \in OfDay : \A j \in OfDay : Hour(hist[i]) <= Hour(hist[j])}
KnownAt(k) == {i \in OfDay : Hour(hist[i]) <= Hours - k}

PointIsRight(v, k) ==
  LET n == Max(IF KnownAt(k) = {} THEN FirstHour ELSE KnownAt(k))
  IN  \/ v = hist[n].data
      \/ cnt > from /\ \/ v = hist[n + 1].data
                       \/ KnownAt(k) = {} /\ \E i \in FirstHour : v = hist[i].data

(* The counter stands as it did when the curve was begun, or is one further
   by a record of the same day.                                             *)
SameDay == cnt = from \/ (cnt = from + 1 /\ Date(hist[from]) = walk.day)

(* A curve has for each hour the last value known by its end: of the newest
   record of the day up to that hour; before the first, the first hour's.
   When a record of the same day is counted while the curve is computed, a
   point may have the value of the record after that one, or, before the first,
   of an older one of the first hour, and no other.                         *)
CurveIsLastKnown ==
  [][CurveEnd /\ SameDay => \A k \in 1 .. Hours : PointIsRight(curve'[k], k)]_vars
============================================================================
