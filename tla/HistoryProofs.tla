--------------------------- MODULE HistoryProofs ---------------------------
(***************************************************************************)
(* Proofs about History, for any files, messages, pages and days.          *)
(***************************************************************************)
EXTENDS History, SequenceTheorems, FiniteSetTheorems, TLAPS

(* Arrays and counters.  The counter may run past the end of the array here:
   nothing in the code stops it.                                            *)
ShapeInv ==
  /\ hist = [i \in 0 .. Slots - 1 |-> hist[i]]
  /\ DOMAIN screen = 1 .. Page /\ \A k \in 1 .. Page : DOMAIN screen[k] = {"time", "data"}
  /\ cnt \in Nat /\ begin \in Nat /\ row \in 1 .. Page /\ from \in Nat /\ from <= cnt
  /\ lcd \in {"time", "data"} => from - begin - Page > 0

(* The row above is one the array had when it was drawn: at most as many records
   from the end as have been counted since the page was begun.              *)
Drawn(k) == \E c \in from .. cnt : screen[k].time = hist[c - begin - k].time

PageInv ==
  /\ lcd = "time" /\ row > 1 => Drawn(row - 1)
  /\ lcd = "data" => Drawn(row)

LEMMA PageInit == Init => ShapeInv /\ PageInv
BY SizeAssumption DEF Init, ShapeInv, PageInv, Blank

(* Nothing that is counted is ever written again. *)
LEMMA CountedStays ==
  ASSUME ShapeInv, [Next]_vars
  PROVE  /\ cnt' \in {cnt, cnt + 1}
         /\ hist' = [i \in 0 .. Slots - 1 |-> hist'[i]]
         /\ \A i \in 0 .. cnt - 1 : hist'[i] = hist[i]
<1>1. CASE UNCHANGED hist /\ cnt' \in {cnt, cnt + 1}
  BY <1>1 DEF ShapeInv
<1>2. CASE LoadTime \/ LoadData \/ RecordData \/ RecordTime
  <2>1. cnt' = cnt /\ (hist' = hist \/ \E v, w : hist' = [hist EXCEPT ![cnt].time = v] \/ hist' = [hist EXCEPT ![cnt].data = w])
    BY <1>2 DEF LoadTime, LoadData, RecordData, RecordTime
  <2>2. PICK r : hist' = hist \/ hist' = [hist EXCEPT ![cnt] = r]
    BY <2>1
  <2>3. \A i \in 0 .. Slots - 1 : hist'[i] = IF i = cnt /\ hist' # hist THEN r ELSE hist[i]
    BY <2>2 DEF ShapeInv
  <2>4. hist' = [i \in 0 .. Slots - 1 |-> hist'[i]]
    BY <2>2 DEF ShapeInv
  <2>5. CASE cnt \in 0 .. Slots - 1
    BY <2>1, <2>3, <2>4, <2>5, SizeAssumption DEF ShapeInv
  <2>6. CASE cnt \notin 0 .. Slots - 1
    <3>1. hist' = hist
      BY <2>2, <2>3, <2>4, <2>6 DEF ShapeInv
    <3>2. QED
      BY <2>1, <2>4, <3>1
  <2>7. QED
    BY <2>5, <2>6
<1>3. QED
  BY <1>1, <1>2 DEF Next, OpenDir, CompareNames, OpenFile, LoadCount, LoadEnd, RecordCount, ShowTime, ShowData, RefreshPage,
     LastPage, NextPage, ShowList, ShowCurve, CurveBack, CurveEnd, Touched, StartPage, vars, loadVars, capVars

LEMMA ShapeStep == ASSUME ShapeInv, [Next]_vars PROVE ShapeInv'
<1>0. /\ cnt' \in Nat /\ cnt <= cnt' /\ hist' = [i \in 0 .. Slots - 1 |-> hist'[i]]
      /\ Page \in Nat \ {0}
  BY CountedStays, SizeAssumption, SMTT(30) DEF ShapeInv
<1>1. CASE UNCHANGED <<lcd, begin, row, from, screen>>
  BY <1>0, <1>1 DEF ShapeInv
<1>2. CASE RefreshPage \/ LastPage \/ NextPage \/ ShowList
  BY <1>0, <1>2, SMTT(30) DEF ShapeInv, RefreshPage, LastPage, NextPage, ShowList, Touched, StartPage
<1>3. CASE ShowTime
  <2>1. DOMAIN screen' = 1 .. Page /\ \A k \in 1 .. Page : DOMAIN screen'[k] = {"time", "data"}
    BY <1>3 DEF ShowTime, ShapeInv
  <2>2. QED
    BY <1>0, <1>3, <2>1 DEF ShowTime, ShapeInv
<1>4. CASE ShowData
  <2>1. DOMAIN screen' = 1 .. Page /\ \A k \in 1 .. Page : DOMAIN screen'[k] = {"time", "data"}
    BY <1>4 DEF ShowData, ShapeInv
  <2>2. QED
    BY <1>0, <1>4, <2>1, SMTT(30) DEF ShowData, ShapeInv
<1>5. CASE ShowCurve \/ CurveBack \/ CurveEnd
  BY <1>0, <1>5 DEF ShapeInv, ShowCurve, CurveBack, CurveEnd, Touched
<1>6. QED
  BY <1>1, <1>2, <1>3, <1>4, <1>5 DEF Next, OpenDir, CompareNames, OpenFile, LoadTime, LoadData, LoadCount, LoadEnd,
     RecordData, RecordTime, RecordCount, vars, lcdVars

LEMMA PageStep == ASSUME ShapeInv, PageInv, [Next]_vars PROVE PageInv'
<1>0. /\ cnt' \in {cnt, cnt + 1} /\ cnt \in Nat /\ begin \in Nat /\ row \in 1 .. Page /\ from \in Nat
      /\ Page \in Nat \ {0}
      /\ \A i \in 0 .. cnt - 1 : hist'[i] = hist[i]
      /\ DOMAIN screen = 1 .. Page /\ \A k \in 1 .. Page : DOMAIN screen[k] = {"time", "data"}
  BY CountedStays, SizeAssumption DEF ShapeInv
<1>1. CASE UNCHANGED <<lcd, begin, row, from, screen>>
  <2>1. ASSUME lcd \in {"time", "data"}, NEW k \in 1 .. Page, Drawn(k) PROVE Drawn(k)'
    <3>1. PICK c \in from .. cnt : screen[k].time = hist[c - begin - k].time
      BY <2>1 DEF Drawn
    <3>2. c - begin - k \in 0 .. cnt - 1 /\ c \in from .. cnt'
      BY <1>0, <2>1, <3>1, SMTT(30) DEF ShapeInv
    <3>3. QED
      BY <1>0, <1>1, <3>1, <3>2 DEF Drawn
  <2>2. row > 1 => row - 1 \in 1 .. Page
    BY <1>0
  <2>3. QED
    BY <1>0, <1>1, <2>1, <2>2 DEF PageInv
<1>2. CASE RefreshPage \/ LastPage \/ NextPage \/ ShowList
  BY <1>2 DEF PageInv, RefreshPage, LastPage, NextPage, ShowList, Touched, StartPage
<1>3. CASE ShowTime
  <2>1. /\ screen'[row].time = hist[cnt - begin - row].time /\ lcd' = "data"
        /\ UNCHANGED <<hist, cnt, begin, row, from>>
    BY <1>0, <1>3 DEF ShowTime
  <2>2. cnt \in from .. cnt
    BY <1>0 DEF ShapeInv
  <2>3. QED
    BY <2>1, <2>2 DEF PageInv, Drawn
<1>4. CASE ShowData
  <2>1. /\ lcd = "data" /\ screen'[row].time = screen[row].time
        /\ lcd' = "time" => row' = row + 1
        /\ lcd' # "data"
        /\ UNCHANGED <<hist, cnt, begin, from>>
    BY <1>0, <1>4 DEF ShowData
  <2>2. lcd' = "time" => row' - 1 = row
    BY <1>0, <2>1
  <2>3. Drawn(row)
    BY <2>1 DEF PageInv
  <2>4. QED
    BY <2>1, <2>2, <2>3 DEF PageInv, Drawn
<1>5. CASE ShowCurve \/ CurveBack \/ CurveEnd
  BY <1>5 DEF PageInv, ShowCurve, CurveBack, CurveEnd, Touched, Drawn
<1>6. QED
  BY <1>1, <1>2, <1>3, <1>4, <1>5 DEF Next, OpenDir, CompareNames, OpenFile, LoadTime, LoadData, LoadCount, LoadEnd,
     RecordData, RecordTime, RecordCount, vars, lcdVars

(* Pages go from new to old and skip nothing, for any pages, files and messages,
   when one record comes while a page is drawn.                             *)
THEOREM PagesGoBack == Spec => PageNewestFirst
<1>1. ASSUME ShapeInv, PageInv, ShowTime, row > 1, cnt <= from + 1
      PROVE  \/ screen'[row].time = screen[row - 1].time
             \/ \E i \in 1 .. cnt - 1 : hist[i].time = screen[row - 1].time /\ hist[i - 1].time = screen'[row].time
  <2>1. lcd = "time" /\ screen'[row].time = hist[cnt - begin - row].time
    BY <1>1 DEF ShowTime, ShapeInv
  <2>2. PICK c \in from .. cnt : screen[row - 1].time = hist[c - begin - (row - 1)].time
    BY <1>1, <2>1 DEF PageInv, Drawn
  <2>a. /\ Page \in Nat /\ row \in 1 .. Page /\ row > 1 /\ begin \in Nat /\ from \in Nat /\ cnt \in Nat
        /\ from - begin - Page > 0 /\ cnt <= from + 1 /\ c \in from .. cnt
    BY <1>1, <2>1, <2>2, SizeAssumption DEF ShapeInv
  <2>3. c - begin - (row - 1) \in 1 .. cnt - 1
    BY <2>a
  <2>4. CASE c = cnt
    <3>1. cnt - begin - row = c - begin - (row - 1) - 1
      BY <2>a, <2>4
    <3>2. QED
      BY <2>1, <2>2, <2>3, <3>1
  <2>5. CASE c + 1 = cnt
    <3>1. cnt - begin - row = c - begin - (row - 1)
      BY <2>a, <2>5
    <3>2. QED
      BY <2>1, <2>2, <3>1
  <2>6. QED
    BY <2>a, <2>4, <2>5
<1>2. ShapeInv /\ PageInv =>
        [ShowTime /\ row > 1 /\ cnt <= from + 1 =>
           LET above == screen[row - 1].time
               this  == screen'[row].time
           IN  \/ this = above
               \/ \E i \in 1 .. cnt - 1 : hist[i].time = above /\ hist[i - 1].time = this]_vars
  BY <1>1
<1>3. QED
  BY PageInit, ShapeStep, PageStep, <1>2, PTL DEF Spec, PageNewestFirst
----------------------------------------------------------------------------
(***************************************************************************)
(* The sort of the names, as good as its loops are: in pass k what comes    *)
(* before the two names compared is in its place, up to part k of a date.  *)
(***************************************************************************)
NotLater(k, a, b) ==
  \/ \A l \in 1 .. k : a[l] = b[l]
  \/ \E l \in 1 .. k : a[l] < b[l] /\ \A h \in 1 .. l - 1 : a[h] = b[h]

Settled(s, N, k, p, q) ==
  /\ \A a, b \in 1 .. N : a < b => NotLater(k - 1, s[a], s[b])
  /\ \A a, b \in 1 .. N : a < b /\ (a < p \/ (a = p /\ b < q)) => ~After(k, s[a], s[b])

InOrder(s) == \A a, b \in DOMAIN s : a < b => NotLater(3, s[a], s[b])

Loading == load \in {"sort", "time", "data", "count"}

NamesInv ==
  /\ names \in Seq(DOMAIN Files) /\ \A a, b \in DOMAIN names : names[a] = names[b] => a = b
  /\ ~Loading => names = <<>>
  /\ load = "dir" => pass = 1 /\ left = 1 /\ right = 2
  /\ load = "sort" => /\ pass \in 1 .. 3 /\ left \in 1 .. Len(names) - 1 /\ right \in left + 1 .. Len(names)
                      /\ Settled(names, Len(names), pass, left, right)
  /\ load \in {"time", "data", "count"} => InOrder(names)

Dated(s, N) == \A a \in 1 .. N, l \in 1 .. 3 : s[a][l] \in Nat

LEMMA DateParts ==
  /\ \A d \in DOMAIN Files, l \in 1 .. 3 : d[l] \in Nat
  /\ \A d, e \in DOMAIN Files : (\A l \in 1 .. 3 : d[l] = e[l]) => d = e
<1>1. \A d \in DOMAIN Files : d \in Nat \X Nat \X Nat
  BY RecordAssumption
<1>2. ASSUME NEW d \in Nat \X Nat \X Nat PROVE \A l \in 1 .. 3 : d[l] \in Nat
  <2>1. d[1] \in Nat /\ d[2] \in Nat /\ d[3] \in Nat
    OBVIOUS
  <2>2. \A l \in 1 .. 3 : l = 1 \/ l = 2 \/ l = 3
    OBVIOUS
  <2>3. QED
    BY <2>1, <2>2
<1>3. ASSUME NEW d \in Nat \X Nat \X Nat, NEW e \in Nat \X Nat \X Nat, \A l \in 1 .. 3 : d[l] = e[l]
      PROVE  d = e
  <2>1. d[1] = e[1] /\ d[2] = e[2] /\ d[3] = e[3]
    BY <1>3
  <2>2. d = <<d[1], d[2], d[3]>> /\ e = <<e[1], e[2], e[3]>>
    OBVIOUS
  <2>3. QED
    BY <2>1, <2>2
<1>4. QED
  BY <1>1, <1>2, <1>3

LEMMA NextPart ==
  ASSUME NEW k \in 1 .. 3, NEW a, NEW b, \A l \in 1 .. 3 : a[l] \in Nat /\ b[l] \in Nat,
         NotLater(k - 1, a, b), ~After(k, a, b)
  PROVE  NotLater(k, a, b)
<1>1. CASE \A l \in 1 .. k - 1 : a[l] = b[l]
  <2>1. a[k] <= b[k] /\ a[k] \in Nat /\ b[k] \in Nat
    BY <1>1 DEF After
  <2>2. CASE a[k] = b[k]
    <3>1. \A l \in 1 .. k : l \in 1 .. k - 1 \/ l = k
      OBVIOUS
    <3>2. QED
      BY <1>1, <2>2, <3>1 DEF NotLater
  <2>3. CASE a[k] < b[k]
    <3>1. k \in 1 .. k
      OBVIOUS
    <3>2. QED
      BY <1>1, <2>3, <3>1 DEF NotLater
  <2>4. QED
    BY <2>1, <2>2, <2>3
<1>2. CASE \E l \in 1 .. k - 1 : a[l] < b[l] /\ \A h \in 1 .. l - 1 : a[h] = b[h]
  <2>1. \A l \in 1 .. k - 1 : l \in 1 .. k
    OBVIOUS
  <2>2. QED
    BY <1>2, <2>1 DEF NotLater
<1>3. QED
  BY <1>1, <1>2 DEF NotLater

LEMMA SamePart ==
  ASSUME NEW k \in 1 .. 3, NEW a, NEW b, NEW c, NEW d, NotLater(k - 1, a, b),
         \A l \in 1 .. k - 1 : c[l] = a[l], \A l \in 1 .. k - 1 : d[l] = b[l]
  PROVE  NotLater(k - 1, c, d)
<1>1. CASE \A l \in 1 .. k - 1 : a[l] = b[l]
  BY <1>1 DEF NotLater
<1>2. CASE \E l \in 1 .. k - 1 : a[l] < b[l] /\ \A h \in 1 .. l - 1 : a[h] = b[h]
  <2>1. PICK l \in 1 .. k - 1 : a[l] < b[l] /\ \A h \in 1 .. l - 1 : a[h] = b[h]
    BY <1>2
  <2>2. \A h \in 1 .. l - 1 : h \in 1 .. k - 1
    OBVIOUS
  <2>3. c[l] < d[l] /\ \A h \in 1 .. l - 1 : c[h] = d[h]
    BY <2>1, <2>2
  <2>4. QED
    BY <2>3 DEF NotLater
<1>3. QED
  BY <1>1, <1>2 DEF NotLater

(* One comparison. *)
LEMMA SettleStep ==
  ASSUME NEW N \in Nat, NEW s, NEW t, NEW k \in 1 .. 3, NEW p \in 1 .. N - 1, NEW q \in p + 1 .. N,
         Dated(s, N), Settled(s, N, k, p, q),
         IF After(k, s[p], s[q])
         THEN t[p] = s[q] /\ t[q] = s[p] /\ \A a \in 1 .. N : a # p /\ a # q => t[a] = s[a]
         ELSE t = s
  PROVE  Dated(t, N) /\ Settled(t, N, k, p, q + 1)
<1>0. p \in 1 .. N /\ q \in 1 .. N /\ p < q
  OBVIOUS
<1>1. CASE ~After(k, s[p], s[q])
  <2>1. t = s
    BY <1>1
  <2>2. ASSUME NEW a \in 1 .. N, NEW b \in 1 .. N, a < b, a < p \/ (a = p /\ b < q + 1)
        PROVE  ~After(k, s[a], s[b])
    <3>1. (a < p \/ (a = p /\ b < q)) \/ (a = p /\ b = q)
      BY <2>2
    <3>2. QED
      BY <1>1, <2>2, <3>1 DEF Settled
  <2>3. \A a, b \in 1 .. N : a < b => NotLater(k - 1, s[a], s[b])
    BY DEF Settled
  <2>4. Settled(s, N, k, p, q + 1)
    BY <2>2, <2>3 DEF Settled
  <2>5. QED
    BY <2>1, <2>4
<1>2. CASE After(k, s[p], s[q])
  <2>1. t[p] = s[q] /\ t[q] = s[p] /\ \A a \in 1 .. N : a # p /\ a # q => t[a] = s[a]
    BY <1>2
  <2>2. s[p][k] > s[q][k] /\ \A l \in 1 .. k - 1 : s[p][l] = s[q][l]
    BY <1>2 DEF After
  <2>3. \A a \in 1 .. N, l \in 1 .. k - 1 : t[a][l] = s[a][l]
    BY <2>1, <2>2
  <2>4. Dated(t, N)
    BY <1>0, <2>1 DEF Dated
  <2>5. ASSUME NEW a \in 1 .. N, NEW b \in 1 .. N, a < b PROVE NotLater(k - 1, t[a], t[b])
    <3>1. NotLater(k - 1, s[a], s[b])
      BY <2>5 DEF Settled
    <3>2. (\A l \in 1 .. k - 1 : t[a][l] = s[a][l]) /\ (\A l \in 1 .. k - 1 : t[b][l] = s[b][l])
      BY <2>3
    <3>3. QED
      BY <3>1, <3>2, SamePart
  <2>6. ASSUME NEW a \in 1 .. N, NEW b \in 1 .. N, a < b, a < p \/ (a = p /\ b < q + 1), After(k, t[a], t[b])
        PROVE  FALSE
    <3>1. \A c \in 1 .. N : s[c][k] \in Nat
      BY DEF Dated
    <3>2. CASE a < p
      <4>1. t[a] = s[a]
        BY <1>0, <2>1, <3>2
      <4>2. t[b] = s[b] \/ (b = p /\ t[b] = s[q]) \/ (b = q /\ t[b] = s[p])
        BY <2>1
      <4>3. ~After(k, s[a], s[b]) /\ ~After(k, s[a], s[p]) /\ ~After(k, s[a], s[q])
        BY <1>0, <2>6, <3>2 DEF Settled
      <4>4. QED
        BY <2>6, <4>1, <4>2, <4>3
    <3>3. CASE a = p /\ b < q
      <4>1. t[a] = s[q] /\ t[b] = s[b]
        BY <1>0, <2>1, <2>6, <3>3
      <4>2. s[q][k] > s[b][k] /\ \A l \in 1 .. k - 1 : s[q][l] = s[b][l]
        BY <2>6, <4>1 DEF After
      <4>3. s[p][k] > s[b][k] /\ \A l \in 1 .. k - 1 : s[p][l] = s[b][l]
        BY <1>0, <2>2, <3>1, <4>2
      <4>4. After(k, s[p], s[b])
        BY <4>3 DEF After
      <4>5. ~After(k, s[p], s[b])
        BY <2>6, <3>3 DEF Settled
      <4>6. QED
        BY <4>4, <4>5
    <3>4. CASE a = p /\ b = q
      <4>1. s[q][k] > s[p][k]
        BY <2>1, <2>6, <3>4 DEF After
      <4>2. QED
        BY <1>0, <2>2, <3>1, <4>1
    <3>5. QED
      BY <2>6, <3>2, <3>3, <3>4
  <2>7. QED
    BY <2>4, <2>5, <2>6 DEF Settled
<1>3. QED
  BY <1>1, <1>2

(* The end of the inner loop, and of a pass. *)
LEMMA SettleRow ==
  ASSUME NEW N \in Nat, NEW s, NEW k \in 1 .. 3, NEW p \in 1 .. N - 1, Settled(s, N, k, p, N + 1)
  PROVE  Settled(s, N, k, p + 1, p + 2)
<1>1. ASSUME NEW a \in 1 .. N, NEW b \in 1 .. N, a < b, a < p + 1 \/ (a = p + 1 /\ b < p + 2)
      PROVE  ~After(k, s[a], s[b])
  <2>1. a < p \/ (a = p /\ b < N + 1)
    BY <1>1
  <2>2. QED
    BY <1>1, <2>1 DEF Settled
<1>2. QED
  BY <1>1 DEF Settled

LEMMA SettlePass ==
  ASSUME NEW N \in Nat, NEW s, NEW k \in 1 .. 3, Dated(s, N), Settled(s, N, k, N - 1, N + 1)
  PROVE  /\ \A a, b \in 1 .. N : a < b => NotLater(k, s[a], s[b])
         /\ Settled(s, N, k + 1, 1, 2)
<1>1. ASSUME NEW a \in 1 .. N, NEW b \in 1 .. N, a < b PROVE NotLater(k, s[a], s[b])
  <2>1. a < N - 1 \/ (a = N - 1 /\ b < N + 1)
    BY <1>1
  <2>2. ~After(k, s[a], s[b]) /\ NotLater(k - 1, s[a], s[b])
    BY <1>1, <2>1 DEF Settled
  <2>3. \A l \in 1 .. 3 : s[a][l] \in Nat /\ s[b][l] \in Nat
    BY DEF Dated
  <2>4. QED
    BY <2>2, <2>3, NextPart
<1>2. \A a, b \in 1 .. N : ~(a < b /\ (a < 1 \/ (a = 1 /\ b < 2)))
  OBVIOUS
<1>3. (k + 1) - 1 = k
  OBVIOUS
<1>4. QED
  BY <1>1, <1>2, <1>3 DEF Settled

(* The directory gives each name once. *)
LEMMA Directory ==
  ASSUME NEW s \in SetToSeqs(DOMAIN Files)
  PROVE  /\ s \in Seq(DOMAIN Files) /\ Range(s) = DOMAIN Files
         /\ \A a, b \in DOMAIN s : s[a] = s[b] => a = b
<1> DEFINE D == DOMAIN Files
           N == Cardinality(D)
<1>1. IsFiniteSet(D) /\ N \in Nat
  BY RecordAssumption, FS_CardinalityType
<1>2. s \in [1 .. N -> D] /\ \A a, b \in 1 .. N : a # b => s[a] # s[b]
  BY DEF SetToSeqs
<1> HIDE DEF D, N
<1>3. DOMAIN s = 1 .. N
  BY <1>2
<1>4. s \in Injection(1 .. N, D)
  BY <1>2, <1>3 DEF Injection, IsInjective
<1>5. Cardinality(1 .. N) = N
  <2>1. 1 \in Int /\ N \in Int /\ (IF 1 > N THEN 0 ELSE N - 1 + 1) = N
    BY <1>1
  <2>2. QED
    BY <2>1, FS_Interval
<1>6. s \in Surjection(1 .. N, D)
  BY <1>1, <1>4, <1>5, FS_Injection DEF N
<1>7. Range(s) = D
  BY <1>2, <1>3, <1>6 DEF Surjection, Range
<1>8. s \in Seq(D)
  BY <1>1, <1>2
<1>9. QED
  BY <1>2, <1>3, <1>7, <1>8 DEF D

LEMMA Swapped ==
  ASSUME NEW s, NEW t, NEW p \in DOMAIN s, NEW q \in DOMAIN s, p # q, DOMAIN t = DOMAIN s,
         t[p] = s[q], t[q] = s[p], \A a \in DOMAIN s : a # p /\ a # q => t[a] = s[a],
         \A a, b \in DOMAIN s : s[a] = s[b] => a = b
  PROVE  Range(t) = Range(s) /\ \A a, b \in DOMAIN t : t[a] = t[b] => a = b
<1>1. \A a \in DOMAIN t : t[a] \in Range(s)
  BY DEF Range
<1>2. \A a \in DOMAIN s : s[a] \in Range(t)
  <2> TAKE a \in DOMAIN s
  <2>1. \E b \in DOMAIN t : t[b] = s[a]
    OBVIOUS
  <2>2. QED
    BY <2>1 DEF Range
<1>3. Range(t) = Range(s)
  <2>1. \A x : x \in Range(t) => x \in Range(s)
    BY <1>1 DEF Range
  <2>2. \A x : x \in Range(s) => x \in Range(t)
    BY <1>2 DEF Range
  <2>3. QED
    BY <2>1, <2>2
<1>4. \A a, b \in DOMAIN t : t[a] = t[b] => a = b
  OBVIOUS
<1>5. QED
  BY <1>3, <1>4

LEMMA NamesDated == ASSUME NEW s \in Seq(DOMAIN Files) PROVE Dated(s, Len(s))
<1>1. \A a \in 1 .. Len(s) : s[a] \in DOMAIN Files
  OBVIOUS
<1>2. QED
  BY <1>1, DateParts DEF Dated

LEMMA NamesInit == Init => NamesInv
BY DEF Init, NamesInv, Loading

(* What a comparison leaves as it was. *)
LEMMA Compared ==
  ASSUME NamesInv, CompareNames
  PROVE  /\ names' \in Seq(DOMAIN Files) /\ Len(names') = Len(names) /\ Range(names') = Range(names)
         /\ \A a, b \in DOMAIN names' : names'[a] = names'[b] => a = b
         /\ Settled(names', Len(names), pass, left, right + 1)
<1> DEFINE N == Len(names)
           t == names'
<1>1. /\ names \in Seq(DOMAIN Files) /\ \A a, b \in DOMAIN names : names[a] = names[b] => a = b
      /\ N \in Nat /\ DOMAIN names = 1 .. N
      /\ pass \in 1 .. 3 /\ left \in 1 .. N - 1 /\ right \in left + 1 .. N
      /\ Settled(names, N, pass, left, right)
      /\ t = IF After(pass, names[left], names[right])
             THEN [names EXCEPT ![left] = names[right], ![right] = names[left]] ELSE names
  BY DEF NamesInv, CompareNames
<1> HIDE DEF N, t
<1>2. left \in DOMAIN names /\ right \in DOMAIN names /\ left # right
  BY <1>1
<1>3. /\ t \in Seq(DOMAIN Files) /\ Len(t) = N /\ Range(t) = Range(names)
      /\ \A a, b \in DOMAIN t : t[a] = t[b] => a = b
      /\ IF After(pass, names[left], names[right])
         THEN t[left] = names[right] /\ t[right] = names[left] /\ \A a \in 1 .. N : a # left /\ a # right => t[a] = names[a]
         ELSE t = names
  <2>1. CASE After(pass, names[left], names[right])
    <3>1. t = [names EXCEPT ![left] = names[right], ![right] = names[left]]
      BY <1>1, <2>1
    <3>2. /\ t \in [1 .. N -> DOMAIN Files] /\ t[left] = names[right] /\ t[right] = names[left]
          /\ \A a \in DOMAIN names : a # left /\ a # right => t[a] = names[a]
      <4>1. names \in [1 .. N -> DOMAIN Files]
        BY <1>1
      <4>2. QED
        BY <1>1, <1>2, <3>1, <4>1
    <3>4. t \in Seq(DOMAIN Files) /\ Len(t) = N /\ DOMAIN t = DOMAIN names
      <4> DEFINE D == DOMAIN Files
      <4>1. N \in Nat /\ t \in [1 .. N -> D] /\ DOMAIN names = 1 .. N
        BY <1>1, <3>2
      <4> HIDE DEF D
      <4>2. t \in Seq(D) /\ Len(t) = N /\ DOMAIN t = 1 .. N
        BY <4>1
      <4>3. QED
        BY <4>1, <4>2 DEF D
    <3>5. \A a, b \in DOMAIN names : names[a] = names[b] => a = b
      BY <1>1
    <3>6. Range(t) = Range(names) /\ \A a, b \in DOMAIN t : t[a] = t[b] => a = b
      BY <1>2, <3>2, <3>4, <3>5, Swapped, SMTT(30)
    <3>7. QED
      BY <1>1, <2>1, <3>2, <3>4, <3>6
  <2>2. CASE ~After(pass, names[left], names[right])
    BY <1>1, <2>2 DEF N
  <2>3. QED
    BY <2>1, <2>2
<1>4. Dated(names, N)
  BY <1>1, NamesDated DEF N
<1>5. Settled(t, N, pass, left, right + 1)
  <2>1. N \in Nat /\ pass \in 1 .. 3 /\ left \in 1 .. N - 1 /\ right \in left + 1 .. N /\ Settled(names, N, pass, left, right)
    BY <1>1
  <2>2. IF After(pass, names[left], names[right])
        THEN t[left] = names[right] /\ t[right] = names[left] /\ \A a \in 1 .. N : a # left /\ a # right => t[a] = names[a]
        ELSE t = names
    BY <1>3
  <2>3. QED
    BY <1>4, <2>1, <2>2, SettleStep
<1>6. QED
  BY <1>3, <1>5 DEF N, t

LEMMA NamesStep == NamesInv /\ [Next]_vars => NamesInv'
<1> SUFFICES ASSUME NamesInv, [Next]_vars PROVE NamesInv'
  OBVIOUS
<1> USE DEF Loading
<1>1. CASE OpenDir
  <2>1. CASE load' = "failed" /\ UNCHANGED names
    BY <1>1, <2>1 DEF OpenDir, NamesInv
  <2>2. CASE names' \in SetToSeqs(DOMAIN Files) /\ load' = IF Len(names') > 1 THEN "sort" ELSE "time"
    <3> DEFINE t == names'
               N == Len(t)
    <3>1. t \in Seq(DOMAIN Files) /\ \A a, b \in DOMAIN t : t[a] = t[b] => a = b
      BY <2>2, Directory
    <3>2. N \in Nat /\ DOMAIN t = 1 .. N
      BY <3>1
    <3>3. UNCHANGED <<pass, left, right>> /\ pass = 1 /\ left = 1 /\ right = 2
      BY <1>1 DEF OpenDir, NamesInv, sortVars
    <3> HIDE DEF N
    <3>4. CASE N > 1
      <4>1. \A a, b : NotLater(0, a, b)
        BY DEF NotLater
      <4>2. Settled(t, N, 1, 1, 2)
        BY <3>2, <4>1 DEF Settled
      <4>3. QED
        BY <2>2, <3>1, <3>2, <3>3, <3>4, <4>2 DEF NamesInv, N
    <3>5. CASE ~(N > 1)
      <4>1. InOrder(t)
        BY <3>2, <3>5 DEF InOrder
      <4>2. QED
        BY <2>2, <3>1, <3>5, <4>1 DEF NamesInv, N
    <3>6. QED
      BY <3>4, <3>5
  <2>3. QED
    BY <1>1, <2>1, <2>2 DEF OpenDir
<1>2. CASE CompareNames
  <2> DEFINE N == Len(names)
             t == names'
  <2>1. /\ load = "sort" /\ pass \in 1 .. 3 /\ left \in 1 .. N - 1 /\ right \in left + 1 .. N
    BY <1>2 DEF CompareNames, NamesInv
  <2>2. /\ t \in Seq(DOMAIN Files) /\ Len(t) = N /\ \A a, b \in DOMAIN t : t[a] = t[b] => a = b
        /\ Settled(t, N, pass, left, right + 1) /\ N \in Nat
    BY <1>2, Compared DEF NamesInv
  <2>3. DOMAIN t = 1 .. N /\ Dated(t, N)
    BY <2>2, NamesDated
  <2> HIDE DEF N, t
  <2>4. CASE right < N
    <3>1. right' = right + 1 /\ UNCHANGED <<load, pass, left>>
      BY <1>2, <2>4 DEF CompareNames, N
    <3>2. right' \in left' + 1 .. N /\ left' \in 1 .. N - 1
      BY <2>1, <2>2, <2>4, <3>1
    <3>3. QED
      BY <2>1, <2>2, <2>3, <3>1, <3>2 DEF NamesInv, t
  <2>5. CASE right = N /\ left < N - 1
    <3>1. left' = left + 1 /\ right' = left + 2 /\ UNCHANGED <<load, pass>>
      BY <1>2, <2>1, <2>2, <2>5 DEF CompareNames, N
    <3>2. right' \in left' + 1 .. N /\ left' \in 1 .. N - 1
      BY <2>1, <2>2, <2>5, <3>1
    <3>3. Settled(t, N, pass, left + 1, left + 2)
      BY <2>1, <2>2, <2>5, SettleRow
    <3>4. QED
      BY <2>1, <2>2, <2>3, <3>1, <3>2, <3>3 DEF NamesInv, t
  <2>6. CASE right = N /\ left = N - 1
    <3>1. /\ left' = 1 /\ right' = 2
          /\ IF pass < 3 THEN pass' = pass + 1 /\ UNCHANGED load ELSE load' = "time" /\ UNCHANGED pass
      BY <1>2, <2>1, <2>2, <2>6 DEF CompareNames, N
    <3>2. /\ \A a, b \in 1 .. N : a < b => NotLater(pass, t[a], t[b])
          /\ Settled(t, N, pass + 1, 1, 2)
      BY <2>1, <2>2, <2>3, <2>6, SettlePass
    <3>3. CASE pass < 3
      <4>1. right' \in left' + 1 .. N /\ left' \in 1 .. N - 1 /\ pass' \in 1 .. 3
        BY <2>1, <2>2, <2>6, <3>1, <3>3
      <4>2. QED
        BY <2>1, <2>2, <2>3, <3>1, <3>2, <3>3, <4>1 DEF NamesInv, t
    <3>4. CASE ~(pass < 3)
      <4>1. pass = 3 /\ load' = "time"
        BY <2>1, <3>1, <3>4
      <4>2. InOrder(t)
        BY <2>3, <3>2, <4>1 DEF InOrder
      <4>3. QED
        BY <2>2, <4>1, <4>2 DEF NamesInv, t
    <3>5. QED
      BY <3>3, <3>4
  <2>7. QED
    BY <2>1, <2>2, <2>4, <2>5, <2>6
<1>3. CASE OpenFile
  <2>1. load = "time" /\ load' = "time" /\ names # <<>> /\ names' = Tail(names) /\ names \in Seq(DOMAIN Files)
    BY <1>3 DEF OpenFile, NamesInv
  <2>2. /\ names' \in Seq(DOMAIN Files) /\ Len(names) \in Nat \ {0} /\ DOMAIN names = 1 .. Len(names)
        /\ DOMAIN names' = 1 .. Len(names) - 1 /\ \A a \in DOMAIN names' : names'[a] = names[a + 1]
    BY <2>1
  <2>3. \A a \in DOMAIN names' : a + 1 \in DOMAIN names /\ a \in Nat
    BY <2>2
  <2>4. \A a, b \in DOMAIN names' : names'[a] = names'[b] => a = b
    BY <2>2, <2>3 DEF NamesInv
  <2>5. InOrder(names')
    BY <2>1, <2>2, <2>3 DEF InOrder, NamesInv
  <2>6. QED
    BY <2>1, <2>2, <2>4, <2>5 DEF NamesInv
<1>4. CASE LoadEnd
  BY <1>4 DEF LoadEnd, NamesInv
<1>5. CASE /\ UNCHANGED <<names, pass, left, right>>
           /\ load' = load \/ {load, load'} \subseteq {"time", "data", "count"}
  BY <1>5 DEF NamesInv
<1>6. LoadTime \/ LoadData \/ LoadCount =>
        /\ UNCHANGED <<names, pass, left, right>> /\ {load, load'} \subseteq {"time", "data", "count"}
  BY DEF LoadTime, LoadData, LoadCount, sortVars
<1>7. RecordData \/ RecordTime \/ RecordCount \/ UNCHANGED vars => UNCHANGED <<names, pass, left, right, load>>
  BY DEF RecordData, RecordTime, RecordCount, vars, loadVars, sortVars
<1>8. ShowTime \/ ShowData \/ RefreshPage \/ LastPage \/ NextPage \/ ShowList \/ ShowCurve \/ CurveBack \/ CurveEnd =>
        UNCHANGED <<names, pass, left, right, load>>
  BY DEF ShowTime, ShowData, RefreshPage, LastPage, NextPage, ShowList, ShowCurve, CurveBack, CurveEnd, Touched,
         loadVars, sortVars
<1>9. QED
  BY <1>1, <1>2, <1>3, <1>4, <1>5, <1>6, <1>7, <1>8 DEF Next
----------------------------------------------------------------------------
(***************************************************************************)
(* The records.                                                            *)
(***************************************************************************)
RecordsOf(D) == UNION {{Files[d][n] : n \in DOMAIN Files[d]} : d \in D}
Lines(D)     == UNION {{d} \X DOMAIN Files[d] : d \in D}

(* The array has room for all that is on file and for what follows. *)
HasRoom == Cardinality(Lines(DOMAIN Files)) + Len(News) <= Slots

(* The clock was never set back: the lines of a day have its date and are in the
   order of their times, and the messages follow them.                      *)
FilesInOrder ==
  /\ \A d \in DOMAIN Files : \A n \in DOMAIN Files[d] : Date(Files[d][n]) = d
  /\ \A d \in DOMAIN Files : \A m, n \in DOMAIN Files[d] : m < n => Before(Files[d][m].time, Files[d][n].time)
  /\ \A r \in FileRecords, n \in DOMAIN News : Before(r.time, News[n].time)
  /\ \A m, n \in DOMAIN News : m < n => Before(News[m].time, News[n].time)

DataShape ==
  /\ hist \in [0 .. Slots - 1 -> Record] /\ cnt \in Nat
  /\ todo \in Seq(FileRecords) /\ saved \in 0 .. Len(News)
  /\ load \in {"dir", "sort", "time", "data", "count", "done", "failed"} /\ cap \in {"idle", "time", "count"}
  /\ load \in {"dir", "sort"} => cnt = 0 /\ todo = <<>>
  /\ load \in {"data", "count"} => todo # <<>>
  /\ load \in {"done", "failed"} => todo = <<>> /\ cnt + Len(News) - saved <= Slots
  /\ Loading => cnt + Len(todo) + Cardinality(Lines(Range(names))) + Len(News) <= Slots
  /\ load = "dir" \/ Loading => cap = "idle" /\ saved = 0
  /\ cap # "idle" => saved < Len(News)

(* The slot after the counter, half written or whole. *)
SlotInv ==
  /\ load = "data" => hist[cnt].time = Head(todo).time
  /\ load = "count" => hist[cnt] = Head(todo) /\ Head(todo).data # None
  /\ cap = "time" => hist[cnt].data = News[saved + 1].data /\ News[saved + 1].data # None
  /\ cap = "count" => hist[cnt] = News[saved + 1] /\ News[saved + 1].data # None

LEMMA OneFile ==
  ASSUME NEW d \in DOMAIN Files
  PROVE  /\ IsFiniteSet(DOMAIN Files[d]) /\ Cardinality(DOMAIN Files[d]) = Len(Files[d]) /\ Len(Files[d]) \in Nat
         /\ Files[d] \in Seq(FileRecords) /\ Range(Files[d]) \subseteq FileRecords
<1>1. Files[d] \in Seq(Record)
  BY RecordAssumption
<1>2. Len(Files[d]) \in Nat /\ DOMAIN Files[d] = 1 .. Len(Files[d])
  BY <1>1
<1> DEFINE L == Len(Files[d])
<1> HIDE DEF L
<1>3. IsFiniteSet(1 .. L) /\ Cardinality(1 .. L) = L
  <2>1. 1 \in Int /\ L \in Int /\ (IF 1 > L THEN 0 ELSE L - 1 + 1) = L
    BY <1>2 DEF L
  <2>2. QED
    BY <2>1, FS_Interval
<1>4. Range(Files[d]) \subseteq FileRecords
  BY DEF Range, FileRecords
<1>5. Files[d] \in Seq(FileRecords)
  <2>1. \A n \in 1 .. L : Files[d][n] \in FileRecords
    BY <1>2 DEF FileRecords, L
  <2>2. L \in Nat /\ Files[d] = [n \in 1 .. L |-> Files[d][n]]
    BY <1>1, <1>2 DEF L
  <2> DEFINE R == FileRecords
  <2>3. \A n \in 1 .. L : Files[d][n] \in R
    BY <2>1
  <2> HIDE DEF R
  <2>4. Files[d] \in Seq(R)
    BY <2>2, <2>3
  <2>5. QED
    BY <2>4 DEF R
<1>6. QED
  BY <1>2, <1>3, <1>4, <1>5 DEF L

LEMMA RangeTail ==
  ASSUME NEW S, NEW s \in Seq(S), s # <<>>
  PROVE  Range(s) = {Head(s)} \cup Range(Tail(s))
<1>1. Head(s) = s[1] /\ 1 \in DOMAIN s /\ DOMAIN s = 1 .. Len(s) /\ DOMAIN Tail(s) = 1 .. Len(s) - 1 /\ Len(s) \in Nat
  OBVIOUS
<1>2. \A j \in DOMAIN Tail(s) : Tail(s)[j] = s[j + 1]
  OBVIOUS
<1>3. \A j \in DOMAIN Tail(s) : j + 1 \in DOMAIN s
  BY <1>1
<1>4. \A j \in DOMAIN s : j = 1 \/ (j - 1 \in DOMAIN Tail(s) /\ Tail(s)[j - 1] = s[j])
  BY <1>1, <1>2
<1>5. QED
  <2>1. Range(s) \subseteq {Head(s)} \cup Range(Tail(s))
    <3> SUFFICES ASSUME NEW j \in DOMAIN s PROVE s[j] \in {Head(s)} \cup Range(Tail(s))
      BY DEF Range
    <3>1. QED
      BY <1>1, <1>4 DEF Range
  <2>2. {Head(s)} \cup Range(Tail(s)) \subseteq Range(s)
    <3>1. \A j \in DOMAIN Tail(s) : Tail(s)[j] \in Range(s)
      BY <1>2, <1>3 DEF Range
    <3>2. QED
      BY <1>1, <3>1 DEF Range
  <2>3. QED
    BY <2>1, <2>2

LEMMA LinesAreFinite ==
  ASSUME NEW D \in SUBSET DOMAIN Files
  PROVE  IsFiniteSet(Lines(D)) /\ Cardinality(Lines(D)) \in Nat
<1> DEFINE M == {{d} \X DOMAIN Files[d] : d \in D}
           F == [d \in D |-> {d} \X DOMAIN Files[d]]
<1>1. IsFiniteSet(D)
  BY RecordAssumption, FS_Subset
<1>2. F \in Surjection(D, M)
  BY DEF Surjection
<1>3. IsFiniteSet(M)
  <2> HIDE DEF F, M
  <2>1. QED
    BY <1>1, <1>2, FS_Surjection
<1>4. ASSUME NEW T \in M PROVE IsFiniteSet(T)
  <2>1. PICK d \in D : T = {d} \X DOMAIN Files[d]
    OBVIOUS
  <2>2. IsFiniteSet({d}) /\ IsFiniteSet(DOMAIN Files[d])
    BY OneFile, FS_Singleton
  <2>3. QED
    BY <2>1, <2>2, FS_Product
<1>5. Lines(D) = UNION M
  BY DEF Lines
<1> HIDE DEF M
<1>6. IsFiniteSet(UNION M)
  BY <1>3, <1>4, FS_UNION
<1>7. QED
  BY <1>5, <1>6, FS_CardinalityType

(* Opening a file. *)
LEMMA LinesOpened ==
  ASSUME NEW E \in SUBSET DOMAIN Files, NEW d \in DOMAIN Files, d \notin E
  PROVE  /\ Cardinality(Lines({d} \cup E)) = Len(Files[d]) + Cardinality(Lines(E))
         /\ RecordsOf({d} \cup E) = Range(Files[d]) \cup RecordsOf(E)
<1> DEFINE A == {d} \X DOMAIN Files[d]
           B == Lines(E)
<1>1. IsFiniteSet(A) /\ Cardinality(A) = Len(Files[d]) /\ Len(Files[d]) \in Nat
  <2>1. /\ IsFiniteSet({d}) /\ IsFiniteSet(DOMAIN Files[d]) /\ Cardinality({d}) = 1
        /\ Cardinality(DOMAIN Files[d]) = Len(Files[d]) /\ Len(Files[d]) \in Nat
    BY OneFile, FS_Singleton
  <2>2. IsFiniteSet(A) /\ Cardinality(A) = Cardinality({d}) * Cardinality(DOMAIN Files[d])
    BY <2>1, FS_Product
  <2>3. QED
    BY <2>1, <2>2
<1>2. IsFiniteSet(B) /\ Cardinality(B) \in Nat
  BY LinesAreFinite
<1>3. A \cap B = {}
  <2>1. \A x \in A : x[1] = d
    OBVIOUS
  <2>2. \A x \in B : x[1] \in E
    BY DEF Lines
  <2>3. QED
    BY <2>1, <2>2
<1>4. Lines({d} \cup E) = A \cup B
  BY DEF Lines
<1>5. Cardinality(A \cup B) = Cardinality(A) + Cardinality(B)
  <2> HIDE DEF A, B
  <2>1. Cardinality(A \cup B) = Cardinality(A) + Cardinality(B) - Cardinality({})
    BY <1>1, <1>2, <1>3, FS_Union
  <2>2. Cardinality({}) = 0
    BY FS_EmptySet
  <2>3. QED
    BY <1>1, <1>2, <2>1, <2>2
<1>6. RecordsOf({d} \cup E) = Range(Files[d]) \cup RecordsOf(E)
  BY DEF RecordsOf, Range
<1> HIDE DEF A, B
<1>7. QED
  BY <1>1, <1>4, <1>5, <1>6 DEF B

LEMMA NameOpened ==
  ASSUME NamesInv, names # <<>>
  PROVE  LET d == Head(names)
             E == Range(Tail(names))
         IN  /\ d \in DOMAIN Files /\ E \in SUBSET DOMAIN Files /\ d \notin E /\ Range(names) = {d} \cup E
             /\ \A e \in E : \E a \in DOMAIN names : a > 1 /\ names[a] = e
<1> DEFINE D == DOMAIN Files
<1>1. names \in Seq(D) /\ \A a, b \in DOMAIN names : names[a] = names[b] => a = b
  BY DEF NamesInv
<1> HIDE DEF D
<1>2. /\ Head(names) \in D /\ Head(names) = names[1] /\ 1 \in DOMAIN names /\ Len(names) \in Nat \ {0}
      /\ DOMAIN names = 1 .. Len(names)
      /\ Tail(names) \in Seq(D) /\ DOMAIN Tail(names) = 1 .. Len(names) - 1
      /\ \A a \in DOMAIN Tail(names) : Tail(names)[a] = names[a + 1] /\ Tail(names)[a] \in D
  BY <1>1
<1>3. \A a \in DOMAIN Tail(names) : a + 1 \in DOMAIN names /\ a + 1 > 1
  BY <1>2
<1>4. \A e \in Range(Tail(names)) : \E a \in DOMAIN names : a > 1 /\ names[a] = e
  BY <1>2, <1>3 DEF Range
<1>5. Head(names) \notin Range(Tail(names))
  BY <1>1, <1>2, <1>4
<1>6. Range(Tail(names)) \in SUBSET D
  BY <1>2 DEF Range
<1>7. Range(names) = {Head(names)} \cup Range(Tail(names))
  BY <1>1, RangeTail
<1>8. QED
  BY <1>2, <1>4, <1>5, <1>6, <1>7 DEF D

LEMMA RecordFields ==
  /\ FileRecords \subseteq Record /\ News \in Seq(Record)
  /\ \A r \in Record, s \in Record : r.time = s.time /\ r.data = s.data => r = s
  /\ \A r \in Record : r.time \in Seq(Nat) /\ r.data \in Int
  /\ \A r \in Record, t \in Seq(Nat) : /\ [r EXCEPT !.time = t] \in Record
                                      /\ [r EXCEPT !.time = t].time = t /\ [r EXCEPT !.time = t].data = r.data
  /\ \A r \in Record, v \in Int : /\ [r EXCEPT !.data = v] \in Record
                                 /\ [r EXCEPT !.data = v].data = v /\ [r EXCEPT !.data = v].time = r.time
<1>1. FileRecords \subseteq Record /\ News \in Seq(Record)
  BY RecordAssumption DEF FileRecords
<1>2. \A r \in Record, s \in Record : r.time = s.time /\ r.data = s.data => r = s
  BY DEF Record
<1>3. \A r \in Record : r.time \in Seq(Nat) /\ r.data \in Int
  BY DEF Record
<1>4. \A r \in Record, t \in Seq(Nat) : /\ [r EXCEPT !.time = t] \in Record
                                      /\ [r EXCEPT !.time = t].time = t /\ [r EXCEPT !.time = t].data = r.data
  BY DEF Record
<1>5. \A r \in Record, v \in Int : /\ [r EXCEPT !.data = v] \in Record
                                 /\ [r EXCEPT !.data = v].data = v /\ [r EXCEPT !.data = v].time = r.time
  BY DEF Record
<1>6. QED
  BY <1>1, <1>2, <1>3, <1>4, <1>5

(* Half of a record goes into the slot after the counter. *)
LEMMA Put ==
  ASSUME hist \in [0 .. Slots - 1 -> Record], cnt \in 0 .. Slots - 1, NEW r \in Record
  PROVE  LET byTime == [hist EXCEPT ![cnt].time = r.time]
             byData == [hist EXCEPT ![cnt].data = r.data]
         IN  /\ byTime \in [0 .. Slots - 1 -> Record] /\ byData \in [0 .. Slots - 1 -> Record]
             /\ byTime[cnt].time = r.time /\ byTime[cnt].data = hist[cnt].data
             /\ byData[cnt].data = r.data /\ byData[cnt].time = hist[cnt].time
<1> DEFINE T == [hist[cnt] EXCEPT !.time = r.time]
           D == [hist[cnt] EXCEPT !.data = r.data]
<1>1. hist[cnt] \in Record /\ r.time \in Seq(Nat) /\ r.data \in Int
  BY RecordFields
<1>2. /\ T \in Record /\ T.time = r.time /\ T.data = hist[cnt].data
      /\ D \in Record /\ D.data = r.data /\ D.time = hist[cnt].time
  BY <1>1, RecordFields
<1>3. [hist EXCEPT ![cnt].time = r.time] = [hist EXCEPT ![cnt] = T]
  OBVIOUS
<1>4. [hist EXCEPT ![cnt].data = r.data] = [hist EXCEPT ![cnt] = D]
  OBVIOUS
<1>5. QED
  BY <1>2, <1>3, <1>4

LEMMA DataInit == Init => DataShape /\ SlotInv
<1>1. Blank \in Record
  BY DEF Blank, Record, None
<1>2. Len(News) \in Nat
  BY RecordAssumption
<1>3. QED
  BY <1>1, <1>2, SizeAssumption DEF Init, DataShape, SlotInv, Loading

LEMMA DataStep ==
  ASSUME HasRoom, NamesInv, DataShape, SlotInv, [Next]_vars
  PROVE  DataShape' /\ SlotInv'
<1> USE DEF DataShape, SlotInv, Loading, loadVars, sortVars, capVars, lcdVars
<1>0. Len(News) \in Nat /\ Slots \in Nat /\ \A n \in 1 .. Len(News) : News[n] \in Record
  BY RecordAssumption, SizeAssumption
<1>a. todo # <<>> => /\ Head(todo) \in Record /\ Tail(todo) \in Seq(FileRecords) /\ Len(todo) \in Nat \ {0}
                     /\ Len(Tail(todo)) = Len(todo) - 1
  BY RecordFields
<1>b. Range(names) \in SUBSET DOMAIN Files /\ Cardinality(Lines(Range(names))) \in Nat
  <2>1. names \in Seq(DOMAIN Files)
    BY DEF NamesInv
  <2>2. Range(names) \in SUBSET DOMAIN Files
    BY <2>1 DEF Range
  <2>3. QED
    BY <2>2, LinesAreFinite
<1>1. CASE OpenDir
  <2>1. /\ load = "dir" /\ cnt = 0 /\ todo = <<>> /\ Len(todo) = 0 /\ saved = 0 /\ cap = "idle"
        /\ UNCHANGED <<todo, hist, cnt, cap, saved>>
    BY <1>1 DEF OpenDir
  <2>2. Cardinality(Lines(DOMAIN Files)) \in Nat
    BY LinesAreFinite
  <2>3. CASE load' = "failed"
    BY <1>0, <2>1, <2>2, <2>3 DEF HasRoom
  <2>4. CASE names' \in SetToSeqs(DOMAIN Files) /\ load' \in {"sort", "time"}
    <3>1. Range(names') = DOMAIN Files
      BY <2>4, Directory
    <3>2. cnt' + Len(todo') + Cardinality(Lines(Range(names'))) + Len(News) <= Slots
      BY <1>0, <2>1, <2>2, <3>1 DEF HasRoom
    <3>3. QED
      BY <2>1, <2>4, <3>2
  <2>5. QED
    BY <1>1, <2>3, <2>4 DEF OpenDir
<1>c. CASE CompareNames
  <2>1. Range(names') = Range(names)
    BY <1>c, Compared
  <2>2. load = "sort" /\ load' \in {"sort", "time"} /\ UNCHANGED <<todo, hist, cnt, cap, saved>>
    BY <1>c DEF CompareNames
  <2>3. QED
    BY <2>1, <2>2
<1>d. CASE OpenFile
  <2> DEFINE d == Head(names)
             E == Range(Tail(names))
  <2>1. /\ load = "time" /\ todo = <<>> /\ todo' = Files[d] /\ names' = Tail(names) /\ names # <<>>
        /\ UNCHANGED <<load, hist, cnt, cap, saved>>
    BY <1>d DEF OpenFile
  <2>2. d \in DOMAIN Files /\ E \in SUBSET DOMAIN Files /\ d \notin E /\ Range(names) = {d} \cup E
    BY <2>1, NameOpened
  <2>3. Range(names') = E
    BY <2>1
  <2> HIDE DEF d, E
  <2>4. Cardinality(Lines({d} \cup E)) = Len(Files[d]) + Cardinality(Lines(E))
    BY <2>2, LinesOpened
  <2>5. Files[d] \in Seq(FileRecords) /\ Len(Files[d]) \in Nat /\ Cardinality(Lines(E)) \in Nat
    BY <2>2, OneFile, LinesAreFinite
  <2>6. Len(todo) = 0
    BY <2>1
  <2>7. cnt' + Len(todo') + Cardinality(Lines(Range(names'))) + Len(News) <= Slots
    BY <1>0, <2>1, <2>2, <2>3, <2>4, <2>5, <2>6
  <2>8. QED
    BY <2>1, <2>5, <2>7
<1>2. CASE LoadTime
  <2>1. cnt \in 0 .. Slots - 1
    BY <1>0, <1>a, <1>b, <1>2 DEF LoadTime
  <2>2. QED
    BY <1>a, <1>2, <2>1, Put DEF LoadTime
<1>3. CASE LoadData
  <2>1. cnt \in 0 .. Slots - 1 /\ Head(todo) \in Record
    BY <1>0, <1>a, <1>b, <1>3 DEF LoadData
  <2>2. CASE Head(todo).data = None
    <3>1. load = "data" /\ load' = "time" /\ todo' = Tail(todo) /\ UNCHANGED <<names, hist, cnt, cap, saved>>
      BY <1>3, <2>2 DEF LoadData
    <3>2. todo # <<>> /\ Len(todo') = Len(todo) - 1 /\ todo' \in Seq(FileRecords)
      BY <1>a, <3>1
    <3>3. QED
      BY <1>0, <1>a, <1>b, <3>1, <3>2, SMTT(30)
  <2>3. CASE Head(todo).data # None
    <3>1. /\ hist' \in [0 .. Slots - 1 -> Record] /\ hist'[cnt].data = Head(todo).data
          /\ hist'[cnt].time = hist[cnt].time
      <4>1. hist' = [hist EXCEPT ![cnt].data = Head(todo).data]
        BY <1>3, <2>3 DEF LoadData
      <4>2. hist \in [0 .. Slots - 1 -> Record]
        OBVIOUS
      <4>3. QED
        BY <2>1, <4>1, <4>2, Put
    <3>2. hist'[cnt] = Head(todo)
      BY <1>3, <2>1, <3>1, RecordFields DEF LoadData
    <3>3. QED
      BY <1>3, <2>3, <3>1, <3>2 DEF LoadData
  <2>4. QED
    BY <2>2, <2>3
<1>4. CASE LoadCount
  BY <1>0, <1>a, <1>b, <1>4 DEF LoadCount
<1>5. CASE LoadEnd
  BY <1>0, <1>b, <1>5 DEF LoadEnd
<1>6. CASE RecordData
  <2>1. cnt \in 0 .. Slots - 1 /\ saved + 1 \in 1 .. Len(News) /\ load \in {"done", "failed"} /\ cap = "idle"
    BY <1>0, <1>6 DEF RecordData, MaySave
  <2>2. News[saved + 1] \in Record
    BY <1>0, <2>1
  <2>3. CASE News[saved + 1].data = None
    <3>1. saved' = saved + 1 /\ UNCHANGED <<load, todo, hist, cnt, cap>>
      BY <1>6, <2>3 DEF RecordData
    <3>2. QED
      BY <1>0, <2>1, <3>1
  <2>4. CASE News[saved + 1].data # None
    <3>1. hist' \in [0 .. Slots - 1 -> Record] /\ hist'[cnt].data = News[saved + 1].data
      <4>1. hist' = [hist EXCEPT ![cnt].data = News[saved + 1].data]
        BY <1>6, <2>4 DEF RecordData
      <4>2. hist \in [0 .. Slots - 1 -> Record]
        OBVIOUS
      <4>3. QED
        BY <2>1, <2>2, <4>1, <4>2, Put
    <3>2. cap' = "time" /\ UNCHANGED <<load, names, todo, cnt, saved>>
      BY <1>6, <2>4 DEF RecordData
    <3>3. QED
      BY <1>0, <2>1, <2>4, <3>1, <3>2
  <2>5. QED
    BY <2>3, <2>4
<1>7. CASE RecordTime
  <2>0. cap = "time" /\ load \in {"done", "failed"} /\ cnt \in Nat /\ saved \in Nat
    BY <1>7 DEF RecordTime
  <2>1. cnt \in 0 .. Slots - 1 /\ News[saved + 1] \in Record /\ load \in {"done", "failed"}
    BY <1>0, <2>0
  <2>2. /\ hist' \in [0 .. Slots - 1 -> Record] /\ hist'[cnt].time = News[saved + 1].time
        /\ hist'[cnt].data = hist[cnt].data
    BY <1>7, <2>1, Put DEF RecordTime
  <2>3. hist'[cnt] = News[saved + 1]
    <3>1. hist'[cnt] \in Record /\ hist'[cnt].data = News[saved + 1].data
      BY <1>7, <2>1, <2>2 DEF RecordTime
    <3>2. QED
      BY <2>1, <2>2, <3>1, RecordFields
  <2>4. QED
    BY <1>7, <2>1, <2>2, <2>3 DEF RecordTime
<1>8. CASE RecordCount
  BY <1>0, <1>8 DEF RecordCount
<1>9. CASE UNCHANGED <<load, names, todo, hist, cnt, cap, saved>>
  BY <1>9
<1>10. QED
  BY <1>1, <1>2, <1>3, <1>4, <1>5, <1>6, <1>7, <1>8, <1>9, <1>c, <1>d DEF Next, ShowTime, ShowData, RefreshPage,
     LastPage, NextPage, ShowList, ShowCurve, CurveBack, CurveEnd, Touched, vars

(* What is counted, with what is still to be read, is what there is. *)
Counted == {hist[i] : i \in 0 .. cnt - 1}

AllInv == load # "dir" =>
  Counted \cup WithValue(Range(todo) \cup RecordsOf(Range(names))) =
    WithValue((IF load = "failed" THEN {} ELSE FileRecords) \cup SavedRecords)

LEMMA AllStep ==
  ASSUME NamesInv, ShapeInv, DataShape, SlotInv, AllInv, [Next]_vars
  PROVE  AllInv'
<1> USE DEF AllInv, loadVars, sortVars, capVars, lcdVars
<1>0. cnt \in Nat /\ Len(News) \in Nat /\ saved \in Nat
  BY RecordAssumption DEF DataShape
<1>1. CASE OpenDir
  <2>1. /\ load = "dir" /\ UNCHANGED <<hist, cnt, saved>> /\ Counted' = {} /\ SavedRecords' = {}
        /\ todo' = <<>> /\ Range(todo') = {}
    <3>1. load = "dir" /\ UNCHANGED <<hist, cnt, saved, todo>> /\ cnt = 0 /\ saved = 0 /\ todo = <<>>
      BY <1>1 DEF OpenDir, DataShape, Loading
    <3>2. QED
      BY <3>1 DEF Counted, SavedRecords, Range
  <2>2. CASE load' = "failed" /\ UNCHANGED names
    <3>1. names' = <<>>
      BY <2>1, <2>2 DEF NamesInv, Loading
    <3>2. Range(names') = {} /\ RecordsOf(Range(names')) = {}
      BY <3>1 DEF Range, RecordsOf
    <3>3. QED
      BY <2>1, <2>2, <3>2 DEF WithValue
  <2>3. CASE names' \in SetToSeqs(DOMAIN Files) /\ load' \in {"sort", "time"}
    <3>1. Range(names') = DOMAIN Files
      BY <2>3, Directory
    <3>2. RecordsOf(DOMAIN Files) = FileRecords
      BY DEF RecordsOf, FileRecords
    <3>3. QED
      BY <2>1, <2>3, <3>1, <3>2 DEF WithValue
  <2>4. QED
    BY <1>1, <2>2, <2>3 DEF OpenDir
<1>a. CASE CompareNames
  <2>1. Range(names') = Range(names)
    BY <1>a, Compared
  <2>2. load = "sort" /\ load' \in {"sort", "time"} /\ UNCHANGED <<todo, hist, cnt, saved>>
    BY <1>a DEF CompareNames
  <2>3. Counted' = Counted /\ SavedRecords' = SavedRecords
    BY <2>2 DEF Counted, SavedRecords
  <2>4. QED
    BY <2>1, <2>2, <2>3
<1>b. CASE OpenFile
  <2> DEFINE d == Head(names)
             E == Range(Tail(names))
  <2>1. /\ load = "time" /\ todo = <<>> /\ todo' = Files[d] /\ names' = Tail(names) /\ names # <<>>
        /\ UNCHANGED <<load, hist, cnt, saved>>
    BY <1>b DEF OpenFile
  <2>2. d \in DOMAIN Files /\ E \in SUBSET DOMAIN Files /\ d \notin E /\ Range(names) = {d} \cup E
    BY <2>1, NameOpened
  <2>3. Range(names') = E
    BY <2>1
  <2> HIDE DEF d, E
  <2>4. RecordsOf({d} \cup E) = Range(Files[d]) \cup RecordsOf(E)
    BY <2>2, LinesOpened
  <2>5. Range(todo) = {}
    BY <2>1 DEF Range
  <2>6. Range(todo) \cup RecordsOf(Range(names)) = Range(todo') \cup RecordsOf(Range(names'))
    BY <2>1, <2>2, <2>3, <2>4, <2>5
  <2>7. Counted' = Counted /\ SavedRecords' = SavedRecords
    BY <2>1 DEF Counted, SavedRecords
  <2>8. QED
    BY <2>1, <2>6, <2>7
<1>2. ASSUME cnt' = cnt PROVE Counted' = Counted
  BY <1>2, CountedStays DEF Counted
<1>3. CASE todo' = todo /\ names' = names /\ saved' = saved /\ cnt' = cnt
           /\ (load' = load \/ (load # "dir" /\ {load, load'} \cap {"dir", "failed"} = {}))
  BY <1>2, <1>3 DEF SavedRecords
<1>4. ASSUME todo # <<>> PROVE Range(todo) = {Head(todo)} \cup Range(Tail(todo))
  BY <1>4, RangeTail DEF DataShape
<1>5. CASE LoadData /\ Head(todo).data = None
  <2>1. load = "data" /\ load' = "time" /\ todo' = Tail(todo) /\ UNCHANGED <<names, hist, cnt, saved>> /\ todo # <<>>
    BY <1>5 DEF LoadData, DataShape
  <2>2. WithValue(Range(todo) \cup RecordsOf(Range(names))) = WithValue(Range(todo') \cup RecordsOf(Range(names)))
    BY <1>4, <1>5, <2>1 DEF WithValue
  <2>3. QED
    BY <1>2, <2>1, <2>2 DEF SavedRecords
<1>6. CASE LoadCount
  <2>1. /\ load = "count" /\ load' = "time" /\ todo' = Tail(todo) /\ cnt' = cnt + 1 /\ UNCHANGED <<names, hist, saved>>
        /\ todo # <<>> /\ hist[cnt] = Head(todo) /\ Head(todo).data # None
    BY <1>6 DEF LoadCount, DataShape, SlotInv
  <2>2. Counted' = Counted \cup {Head(todo)}
    BY <1>0, <2>1 DEF Counted
  <2>3. WithValue(Range(todo) \cup RecordsOf(Range(names))) =
          {Head(todo)} \cup WithValue(Range(todo') \cup RecordsOf(Range(names)))
    BY <1>4, <2>1 DEF WithValue
  <2>4. QED
    BY <2>1, <2>2, <2>3 DEF SavedRecords
<1>7. CASE RecordData /\ News[saved + 1].data = None
  <2>1. saved' = saved + 1 /\ UNCHANGED <<load, names, todo, hist, cnt>>
    BY <1>7 DEF RecordData
  <2>2. SavedRecords' = SavedRecords \cup {News[saved + 1]}
    BY <1>0, <2>1 DEF SavedRecords
  <2>3. WithValue((IF load = "failed" THEN {} ELSE FileRecords) \cup SavedRecords') =
          WithValue((IF load = "failed" THEN {} ELSE FileRecords) \cup SavedRecords)
    BY <1>7, <2>2 DEF WithValue
  <2>4. QED
    BY <1>2, <2>1, <2>3
<1>8. CASE RecordCount
  <2>1. /\ saved' = saved + 1 /\ cnt' = cnt + 1 /\ UNCHANGED <<load, names, todo, hist>>
        /\ hist[cnt] = News[saved + 1] /\ News[saved + 1].data # None /\ load # "dir"
    BY <1>8 DEF RecordCount, SlotInv, DataShape
  <2>2. Counted' = Counted \cup {News[saved + 1]} /\ SavedRecords' = SavedRecords \cup {News[saved + 1]}
    BY <1>0, <2>1, SMTT(30) DEF Counted, SavedRecords
  <2>3. WithValue((IF load = "failed" THEN {} ELSE FileRecords) \cup SavedRecords') =
          WithValue((IF load = "failed" THEN {} ELSE FileRecords) \cup SavedRecords) \cup {News[saved + 1]}
    BY <2>1, <2>2 DEF WithValue
  <2>4. QED
    BY <2>1, <2>2, <2>3
<1>9. CASE \/ LoadTime \/ LoadEnd \/ RecordTime
           \/ LoadData /\ Head(todo).data # None
           \/ RecordData /\ News[saved + 1].data # None
  <2>1. todo' = todo /\ names' = names /\ saved' = saved /\ cnt' = cnt
    BY <1>9 DEF LoadTime, LoadEnd, RecordTime, LoadData, RecordData
  <2>2. load' = load \/ (load # "dir" /\ {load, load'} \cap {"dir", "failed"} = {})
    BY <1>9 DEF LoadTime, LoadEnd, RecordTime, LoadData, RecordData
  <2>3. QED
    BY <1>3, <2>1, <2>2
<1>10. CASE UNCHANGED <<load, names, todo, cnt, saved>>
  BY <1>3, <1>10
<1>11. QED
  BY <1>1, <1>5, <1>6, <1>7, <1>8, <1>9, <1>10, <1>a, <1>b DEF Next, ShowTime, ShowData, RefreshPage,
     LastPage, NextPage, ShowList, ShowCurve, CurveBack, CurveEnd, Touched, vars

RecordsInv == ShapeInv /\ PageInv /\ NamesInv /\ DataShape /\ SlotInv /\ AllInv

LEMMA RecordsAlways == ASSUME HasRoom PROVE Spec => []RecordsInv
<1>1. Init => RecordsInv
  BY PageInit, NamesInit, DataInit DEF RecordsInv, Init, AllInv
<1>2. RecordsInv /\ [Next]_vars => RecordsInv'
  BY ShapeStep, PageStep, NamesStep, DataStep, AllStep DEF RecordsInv
<1>3. QED
  BY <1>1, <1>2, PTL DEF Spec

(* A loaded history holds every record with a value and nothing else, for any
   files, messages and directory, if the array has room for them.           *)
THEOREM NothingIsLost == ASSUME HasRoom PROVE Spec => []HistoryIsAll
<1>1. RecordsInv => HistoryIsAll
  <2> SUFFICES ASSUME RecordsInv, load = "done" PROVE Counted = WithValue(FileRecords \cup SavedRecords)
    BY DEF HistoryIsAll, Counted
  <2>1. todo = <<>> /\ names = <<>>
    BY DEF RecordsInv, DataShape, NamesInv, Loading
  <2>2. WithValue(Range(todo) \cup RecordsOf(Range(names))) = {}
    BY <2>1 DEF Range, RecordsOf, WithValue
  <2>3. QED
    BY <2>2 DEF RecordsInv, AllInv
<1>2. QED
  BY <1>1, RecordsAlways, PTL

(* A row of a page is a record that was saved, or has the time of one and the
   value of the next if that was counted between: for any pages too.        *)
THEOREM RowsAreRecords == ASSUME HasRoom PROVE Spec => RowIsRecord
<1>1. ASSUME RecordsInv, ShowData, cnt <= from + 1
      PROVE  \E i \in 0 .. cnt - 1 :
               /\ hist[i] \in Records /\ screen'[row].time = hist[i].time
               /\ \/ screen'[row].data = hist[i].data
                  \/ (cnt = from + 1 /\ i + 1 < cnt /\ screen'[row].data = hist[i + 1].data)
  <2>1. /\ lcd = "data" /\ screen'[row].data = hist[cnt - begin - row].data /\ screen'[row].time = screen[row].time
        /\ row \in 1 .. Page /\ Page \in Nat /\ cnt \in Nat /\ begin \in Nat /\ from \in Nat /\ from <= cnt
        /\ from - begin - Page > 0
    BY <1>1, SizeAssumption DEF ShowData, RecordsInv, ShapeInv
  <2>2. PICK c \in from .. cnt : screen[row].time = hist[c - begin - row].time
    BY <1>1, <2>1 DEF RecordsInv, PageInv, Drawn
  <2> DEFINE i == c - begin - row
  <2>3. i \in 0 .. cnt - 1
    BY <2>1
  <2>4. hist[i] \in Records
    <3>1. SavedRecords \subseteq {News[n] : n \in DOMAIN News}
      BY <1>1, RecordAssumption DEF SavedRecords, RecordsInv, DataShape
    <3>2. hist[i] \in Counted /\ load # "dir"
      <4>1. hist[i] \in Counted
        BY <2>3 DEF Counted
      <4>2. load # "dir"
        BY <1>1, <2>1, <2>3 DEF RecordsInv, DataShape
      <4>3. QED
        BY <4>1, <4>2
    <3>3. QED
      BY <1>1, <3>1, <3>2 DEF RecordsInv, AllInv, WithValue, Records
  <2>5. \/ cnt - begin - row = i
        \/ cnt = from + 1 /\ i + 1 < cnt /\ cnt - begin - row = i + 1
    BY <1>1, <2>1
  <2>6. QED
    BY <2>1, <2>2, <2>3, <2>4, <2>5
<1>2. RecordsInv =>
        [ShowData /\ cnt <= from + 1 =>
           \E i \in 0 .. cnt - 1 :
             LET shown == screen'[row] IN
             /\ hist[i] \in Records /\ shown.time = hist[i].time
             /\ \/ shown.data = hist[i].data
                \/ (cnt = from + 1 /\ i + 1 < cnt /\ shown.data = hist[i + 1].data)]_vars
  BY <1>1
<1>3. QED
  BY <1>2, RecordsAlways, PTL DEF RowIsRecord
----------------------------------------------------------------------------
(* A line has the date of its file, and those of a file are before those of
   every file that comes after it.                                          *)
LEMMA DayOf ==
  ASSUME FilesInOrder, NEW d \in DOMAIN Files, NEW n \in DOMAIN Files[d]
  PROVE  \A l \in 1 .. 3 : Files[d][n].time[l] = d[l]
<1>1. Date(Files[d][n]) = d
  BY DEF FilesInOrder
<1>2. Len(Files[d][n].time) = 5
  BY TimeAssumption DEF Timed
<1>3. Files[d][n].time \in Seq(Nat)
  <2>1. Files[d][n] \in FileRecords
    BY DEF FileRecords
  <2>2. QED
    BY <2>1, RecordFields
<1>4. ASSUME NEW s \in Seq(Nat), Len(s) = 5 PROVE \A l \in 1 .. 3 : SubSeq(s, 1, 3)[l] = s[l]
  BY <1>4
<1>5. QED
  BY <1>1, <1>2, <1>3, <1>4 DEF Date

LEMMA LaterFile ==
  ASSUME FilesInOrder, NEW d \in DOMAIN Files, NEW e \in DOMAIN Files, d # e, NotLater(3, d, e)
  PROVE  \A m \in DOMAIN Files[d], n \in DOMAIN Files[e] : Before(Files[d][m].time, Files[e][n].time)
<1>1. PICK l \in 1 .. 3 : d[l] < e[l] /\ \A h \in 1 .. l - 1 : d[h] = e[h]
  BY DateParts DEF NotLater
<1>2. l \in 1 .. 5 /\ \A h \in 1 .. l - 1 : h \in 1 .. 3
  OBVIOUS
<1> SUFFICES ASSUME NEW m \in DOMAIN Files[d], NEW n \in DOMAIN Files[e]
             PROVE  Before(Files[d][m].time, Files[e][n].time)
  OBVIOUS
<1>3. \A h \in 1 .. 3 : Files[d][m].time[h] = d[h] /\ Files[e][n].time[h] = e[h]
  BY DayOf
<1>4. Files[d][m].time[l] < Files[e][n].time[l]
  BY <1>1, <1>3
<1>5. \A h \in 1 .. l - 1 : Files[d][m].time[h] = Files[e][n].time[h]
  BY <1>1, <1>2, <1>3
<1>6. QED
  BY <1>2, <1>4, <1>5 DEF Before

(* The order: what is counted is in order, and before all that is to come. *)
ToCome(r) ==
  /\ \A i \in 0 .. cnt - 1 : Before(hist[i].time, r.time)
  /\ \A j \in DOMAIN todo : Before(todo[j].time, r.time)

OrderInv ==
  /\ Chronological
  /\ \A j, k \in DOMAIN todo : j < k => Before(todo[j].time, todo[k].time)
  /\ \A j \in DOMAIN todo : \A i \in 0 .. cnt - 1 : Before(hist[i].time, todo[j].time)
  /\ \A r \in RecordsOf(Range(names)) : ToCome(r)
  /\ \A n \in DOMAIN News : n > saved => \A i \in 0 .. cnt - 1 : Before(hist[i].time, News[n].time)

LEMMA OrderStep ==
  ASSUME FilesInOrder, NamesInv, ShapeInv, DataShape, SlotInv, OrderInv, [Next]_vars
  PROVE  OrderInv'
<1> USE DEF OrderInv, ToCome, loadVars, sortVars, capVars, lcdVars
<1>0. /\ cnt \in Nat /\ saved \in Nat /\ DOMAIN News = 1 .. Len(News) /\ Len(News) \in Nat
      /\ todo \in Seq(FileRecords)
      /\ \A i \in 0 .. cnt - 1 : hist'[i] = hist[i]
  BY RecordAssumption, CountedStays DEF DataShape
<1>a. ASSUME todo # <<>>
      PROVE  /\ Head(todo) \in FileRecords /\ Head(todo) = todo[1] /\ 1 \in DOMAIN todo
             /\ \A j \in DOMAIN Tail(todo) : j \in Nat \ {0} /\ j + 1 \in DOMAIN todo /\ Tail(todo)[j] = todo[j + 1]
  BY <1>0, <1>a
<1>1. CASE OpenDir \/ CompareNames
  <2>1. cnt = 0 /\ cnt' = 0 /\ todo = <<>> /\ todo' = <<>>
    BY <1>1 DEF OpenDir, CompareNames, DataShape
  <2>2. DOMAIN todo' = {} /\ 0 .. cnt' - 1 = {}
    BY <2>1
  <2>3. QED
    BY <2>2 DEF Chronological
<1>b. CASE OpenFile
  <2> DEFINE d == Head(names)
             E == Range(Tail(names))
  <2>1. /\ load = "time" /\ todo' = Files[d] /\ Range(names') = E /\ names # <<>>
        /\ UNCHANGED <<hist, cnt, saved>>
    BY <1>b DEF OpenFile
  <2>2. /\ d \in DOMAIN Files /\ E \in SUBSET DOMAIN Files /\ d \notin E /\ Range(names) = {d} \cup E
        /\ \A e \in E : \E a \in DOMAIN names : a > 1 /\ names[a] = e
    BY <2>1, NameOpened
  <2>3. \A e \in E : NotLater(3, d, e)
    <3>1. names \in Seq(DOMAIN Files) /\ InOrder(names)
      BY <2>1 DEF NamesInv
    <3>2. 1 \in DOMAIN names /\ d = names[1]
      BY <2>1, <3>1
    <3>3. QED
      BY <2>2, <3>1, <3>2 DEF InOrder
  <2> HIDE DEF d, E
  <2>4. RecordsOf(Range(names)) = Range(Files[d]) \cup RecordsOf(E)
    BY <2>2, LinesOpened
  <2>5. \A j \in DOMAIN todo' : \A i \in 0 .. cnt - 1 : Before(hist[i].time, todo'[j].time)
    BY <2>1, <2>4 DEF Range
  <2>6. \A r \in RecordsOf(E), j \in DOMAIN todo' : Before(todo'[j].time, r.time)
    <3> SUFFICES ASSUME NEW e \in E, NEW n \in DOMAIN Files[e], NEW j \in DOMAIN todo'
                 PROVE  Before(todo'[j].time, Files[e][n].time)
      BY DEF RecordsOf
    <3>1. e \in DOMAIN Files /\ d # e /\ NotLater(3, d, e)
      BY <2>2, <2>3
    <3>2. QED
      BY <2>1, <2>2, <3>1, LaterFile
  <2>7. \A j, k \in DOMAIN todo' : j < k => Before(todo'[j].time, todo'[k].time)
    BY <2>1, <2>2 DEF FilesInOrder
  <2>8. \A r \in RecordsOf(E), i \in 0 .. cnt - 1 : Before(hist[i].time, r.time)
    BY <2>4
  <2>9. Chronological'
    BY <2>1 DEF Chronological
  <2>10. QED
    BY <2>1, <2>5, <2>6, <2>7, <2>8, <2>9
<1>2. CASE cnt' = cnt /\ saved' \in {saved, saved + 1} /\ names' = names /\ (todo' = todo \/ (todo # <<>> /\ todo' = Tail(todo)))
  <2>1. Chronological'
    BY <1>0, <1>2 DEF Chronological
  <2>2. /\ \A j, k \in DOMAIN todo' : j < k => Before(todo'[j].time, todo'[k].time)
        /\ \A j \in DOMAIN todo' : \A i \in 0 .. cnt - 1 : Before(hist[i].time, todo'[j].time)
        /\ \A r \in RecordsOf(Range(names)) : \A j \in DOMAIN todo' : Before(todo'[j].time, r.time)
    <3>1. CASE todo' = todo
      BY <3>1
    <3>2. CASE todo # <<>> /\ todo' = Tail(todo)
      BY <1>a, <3>2
    <3>3. QED
      BY <1>2, <3>1, <3>2
  <2>3. \A n \in DOMAIN News : n > saved' => \A i \in 0 .. cnt - 1 : Before(hist[i].time, News[n].time)
    BY <1>0, <1>2
  <2>4. QED
    BY <1>0, <1>2, <2>1, <2>2, <2>3
<1>3. CASE LoadCount
  <2>1. /\ cnt' = cnt + 1 /\ hist' = hist /\ saved' = saved /\ todo' = Tail(todo) /\ names' = names
        /\ todo # <<>> /\ hist[cnt] = todo[1]
    BY <1>3, <1>a DEF LoadCount, DataShape, SlotInv
  <2>2. \A i \in 0 .. cnt' - 1 : i \in 0 .. cnt - 1 \/ i = cnt
    BY <1>0, <2>1
  <2>3. Chronological'
    <3>1. \A i \in 0 .. cnt - 1 : Before(hist[i].time, hist[cnt].time)
      BY <1>a, <2>1
    <3>2. QED
      BY <1>0, <2>1, <2>2, <3>1 DEF Chronological
  <2>4. \A j \in DOMAIN todo' : Before(hist[cnt].time, todo'[j].time)
    BY <1>a, <2>1
  <2>5. \A n \in DOMAIN News : Before(hist[cnt].time, News[n].time)
    BY <1>a, <2>1 DEF FilesInOrder
  <2>6. \A r \in RecordsOf(Range(names')) : ToCome(r)'
    BY <1>a, <2>1, <2>2
  <2>7. /\ \A j, k \in DOMAIN todo' : j < k => Before(todo'[j].time, todo'[k].time)
        /\ \A j \in DOMAIN todo' : \A i \in 0 .. cnt - 1 : Before(hist[i].time, todo'[j].time)
    BY <1>a, <2>1
  <2>8. QED
    BY <2>1, <2>2, <2>3, <2>4, <2>5, <2>6, <2>7
<1>4. CASE RecordCount
  <2>1. /\ cnt' = cnt + 1 /\ hist' = hist /\ saved' = saved + 1 /\ todo' = todo /\ names' = names
        /\ saved + 1 \in DOMAIN News /\ hist[cnt] = News[saved + 1]
    BY <1>0, <1>4 DEF RecordCount, DataShape, SlotInv
  <2>2. todo = <<>> /\ names = <<>>
    BY <1>4 DEF RecordCount, DataShape, NamesInv, Loading
  <2>3. \A i \in 0 .. cnt' - 1 : i \in 0 .. cnt - 1 \/ i = cnt
    BY <1>0, <2>1
  <2>4. Chronological'
    BY <1>0, <2>1, <2>3, SMTT(30) DEF Chronological
  <2>5. \A n \in DOMAIN News : n > saved + 1 => Before(hist[cnt].time, News[n].time)
    BY <1>0, <2>1 DEF FilesInOrder
  <2>6. DOMAIN todo' = {} /\ RecordsOf(Range(names')) = {}
    BY <2>1, <2>2 DEF RecordsOf, Range
  <2>7. QED
    BY <1>0, <2>1, <2>3, <2>4, <2>5, <2>6
<1>5. CASE LoadTime \/ LoadData \/ LoadEnd \/ RecordData \/ RecordTime
  <2>1. /\ cnt' = cnt /\ saved' \in {saved, saved + 1} /\ names' = names
        /\ (todo' = todo \/ (todo # <<>> /\ todo' = Tail(todo)))
    BY <1>5 DEF LoadTime, LoadData, LoadEnd, RecordData, RecordTime, DataShape
  <2>2. QED
    BY <1>2, <2>1
<1>6. CASE UNCHANGED <<todo, cnt, saved, names>>
  BY <1>2, <1>6
<1>7. QED
  BY <1>1, <1>3, <1>4, <1>5, <1>6, <1>b DEF Next, ShowTime, ShowData, RefreshPage,
     LastPage, NextPage, ShowList, ShowCurve, CurveBack, CurveEnd, Touched, vars

LEMMA OrderAlways == ASSUME HasRoom, FilesInOrder PROVE Spec => [](RecordsInv /\ OrderInv)
<1>1. Init => OrderInv
  <2>1. Init => todo = <<>> /\ cnt = 0 /\ RecordsOf(Range(names)) = {}
    BY DEF Init, RecordsOf, Range
  <2>2. QED
    BY <2>1 DEF OrderInv, Chronological
<1>2. RecordsInv /\ OrderInv /\ [Next]_vars => OrderInv'
  BY OrderStep DEF RecordsInv
<1>3. QED
  BY <1>1, <1>2, RecordsAlways, PTL DEF Spec

(* The history is in the order of the times, for any files and messages that
   were written in order, and whatever the order of the directory: the sort
   undoes it, a line without a value lends its time to no other, and loader and
   CAP process append.                                                      *)
THEOREM HistoryIsOrdered ==
  ASSUME HasRoom, FilesInOrder
  PROVE  Spec => []Chronological
BY OrderAlways, PTL DEF OrderInv
----------------------------------------------------------------------------
(* The curve.  Of what is counted: times are times, and in order. *)
Times(C) ==
  /\ \A i \in C : hist[i].time \in Seq(Nat) /\ Timed(hist[i]) /\ hist[i].data \in Int
  /\ \A i, j \in C : i < j => Before(hist[i].time, hist[j].time)

LEMMA CountedTimes ==
  ASSUME RecordsInv
  PROVE  \A i \in 0 .. cnt - 1 : hist[i].time \in Seq(Nat) /\ Timed(hist[i]) /\ hist[i].data \in Int
<1>1. \A r \in FileRecords : Timed(r)
  BY TimeAssumption DEF FileRecords
<1>2. \A r \in SavedRecords : Timed(r)
  BY RecordAssumption, TimeAssumption DEF SavedRecords, RecordsInv, DataShape
<1>3. ASSUME NEW i \in 0 .. cnt - 1 PROVE hist[i].time \in Seq(Nat) /\ Timed(hist[i]) /\ hist[i].data \in Int
  <2>1. hist[i] \in Counted /\ load # "dir"
    BY DEF Counted, RecordsInv, DataShape
  <2>2. hist[i] \in FileRecords \cup SavedRecords
    BY <2>1 DEF RecordsInv, AllInv, WithValue
  <2>3. hist[i] \in Record
    <3>1. SavedRecords \subseteq Record
      BY RecordAssumption DEF SavedRecords, RecordsInv, DataShape
    <3>2. QED
      BY <2>2, <3>1, RecordFields
  <2>4. QED
    BY <1>1, <1>2, <2>2, <2>3, RecordFields
<1>4. QED
  BY <1>3

LEMMA TimesAre == ASSUME RecordsInv, OrderInv PROVE Times(0 .. cnt - 1)
BY CountedTimes DEF Times, OrderInv, Chronological

(* In the order of the times the hours of a day do not go back, and what lies
   between two records of a day is of that day.                             *)
LEMMA TimeParts ==
  ASSUME NEW t \in Seq(Nat), Len(t) = 5
  PROVE  \A n \in 1 .. 5 : t[n] \in Nat
<1> SUFFICES ASSUME NEW n \in 1 .. 5 PROVE t[n] \in Nat
  OBVIOUS
<1>1. n \in 1 .. Len(t)
  OBVIOUS
<1>2. QED
  BY <1>1, ElementOfSeq

LEMMA DateOf ==
  ASSUME NEW r, NEW q, r.time \in Seq(Nat), q.time \in Seq(Nat), Len(r.time) = 5, Len(q.time) = 5
  PROVE  Date(r) = Date(q) <=> \A n \in 1 .. 3 : r.time[n] = q.time[n]
<1>1. ASSUME NEW s \in Seq(Nat), Len(s) = 5 PROVE SubSeq(s, 1, 3) = [n \in 1 .. 3 |-> s[n]]
  BY <1>1
<1>2. Date(r) = [n \in 1 .. 3 |-> r.time[n]] /\ Date(q) = [n \in 1 .. 3 |-> q.time[n]]
  BY <1>1 DEF Date
<1>3. QED
  BY <1>2

LEMMA HoursOfDay ==
  ASSUME NEW C, Times(C), NEW i \in C, NEW j \in C, i < j, Date(hist[i]) = Date(hist[j])
  PROVE  Hour(hist[i]) <= Hour(hist[j])
<1>1. /\ hist[i].time \in Seq(Nat) /\ hist[j].time \in Seq(Nat)
      /\ Len(hist[i].time) = 5 /\ Len(hist[j].time) = 5
      /\ Before(hist[i].time, hist[j].time)
  BY DEF Times, Timed
<1>2. PICK n \in 1 .. 5 : hist[i].time[n] < hist[j].time[n] /\ \A k \in 1 .. n - 1 : hist[i].time[k] = hist[j].time[k]
  BY <1>1 DEF Before
<1>3. \A k \in 1 .. 3 : hist[i].time[k] = hist[j].time[k]
  <2> DEFINE q == hist[i]
             r == hist[j]
  <2>1. q.time \in Seq(Nat) /\ r.time \in Seq(Nat) /\ Len(q.time) = 5 /\ Len(r.time) = 5 /\ Date(q) = Date(r)
    BY <1>1
  <2> HIDE DEF q, r
  <2>2. \A k \in 1 .. 3 : q.time[k] = r.time[k]
    BY <2>1, DateOf
  <2>3. QED
    BY <2>2 DEF q, r
<1>4. \A k \in 1 .. 5 : hist[i].time[k] \in Nat /\ hist[j].time[k] \in Nat
  BY <1>1, TimeParts
<1>5. n = 4 \/ n = 5
  BY <1>2, <1>3, <1>4
<1>6. QED
  BY <1>2, <1>4, <1>5 DEF Hour

LEMMA DayIsWhole ==
  ASSUME NEW C, Times(C), NEW i \in C, NEW j \in C, NEW k \in C, i < j, j < k, Date(hist[i]) = Date(hist[k])
  PROVE  Date(hist[j]) = Date(hist[k])
<1> DEFINE a == hist[i].time
           b == hist[j].time
           c == hist[k].time
<1>1. /\ a \in Seq(Nat) /\ b \in Seq(Nat) /\ c \in Seq(Nat) /\ Len(a) = 5 /\ Len(b) = 5 /\ Len(c) = 5
      /\ Before(a, b) /\ Before(b, c)
  BY DEF Times, Timed
<1>2. PICK m \in 1 .. 5 : a[m] < b[m] /\ \A l \in 1 .. m - 1 : a[l] = b[l]
  BY <1>1 DEF Before
<1>3. PICK n \in 1 .. 5 : b[n] < c[n] /\ \A l \in 1 .. n - 1 : b[l] = c[l]
  BY <1>1 DEF Before
<1>4. \A l \in 1 .. 3 : a[l] = c[l]
  BY <1>1, DateOf
<1>5. \A l \in 1 .. 5 : a[l] \in Nat /\ b[l] \in Nat /\ c[l] \in Nat
  BY <1>1, TimeParts
<1>6. m > 3
  <2> HIDE DEF a, b, c
  <2> SUFFICES ASSUME m <= 3 PROVE FALSE
    OBVIOUS
  <2>1. CASE n < m
    <3>1. n \in 1 .. m - 1 /\ n \in 1 .. 3
      BY <2>1
    <3>2. QED
      BY <1>2, <1>3, <1>4, <1>5, <3>1
  <2>2. CASE m < n
    <3>1. m \in 1 .. n - 1 /\ m \in 1 .. 3
      BY <2>2
    <3>2. QED
      BY <1>2, <1>3, <1>4, <1>5, <3>1
  <2>3. CASE m = n
    <3>1. m \in 1 .. 3
      OBVIOUS
    <3>2. QED
      BY <1>2, <1>3, <1>4, <1>5, <2>3, <3>1
  <2>4. QED
    BY <2>1, <2>2, <2>3
<1>7. \A l \in 1 .. 3 : a[l] = b[l]
  BY <1>2, <1>6
<1>8. \A l \in 1 .. 3 : hist[j].time[l] = hist[k].time[l]
  BY <1>4, <1>7
<1>9. /\ hist[j].time \in Seq(Nat) /\ Len(hist[j].time) = 5
      /\ hist[k].time \in Seq(Nat) /\ Len(hist[k].time) = 5
  BY <1>1
<1>10. QED
  BY <1>8, <1>9, DateOf, SMTT(30)

LEMMA MaxIs ==
  ASSUME NEW S, S \subseteq Int, NEW n \in S, \A i \in S : i <= n
  PROVE  Max(S) = n
<1>1. \A i \in S : n >= i
  OBVIOUS
<1>2. Max(S) \in S /\ \A i \in S : Max(S) >= i
  BY <1>1 DEF Max
<1>3. Max(S) \in Int /\ n \in Int /\ Max(S) >= n /\ Max(S) <= n
  BY <1>2
<1>4. QED
  BY <1>3

LEMMA MinIs == ASSUME NEW a \in Int, NEW b \in Int PROVE Min({a, b}) = IF a <= b THEN a ELSE b
<1>1. \E m \in {a, b} : \A i \in {a, b} : m <= i
  <2>1. CASE a <= b
    BY <2>1
  <2>2. CASE b < a
    BY <2>2
  <2>3. QED
    BY <2>1, <2>2
<1>2. Min({a, b}) \in {a, b} /\ \A i \in {a, b} : Min({a, b}) <= i
  BY <1>1 DEF Min
<1>3. QED
  BY <1>2

(* A run of the same value after a sequence. *)
RunAfter(s, v, n) == s \o [k \in 1 .. n |-> v]

LEMMA RunIs ==
  ASSUME NEW s \in Seq(Int), NEW v \in Int, NEW n \in Int
  PROVE  /\ RunAfter(s, v, n) \in Seq(Int)
         /\ Len(RunAfter(s, v, n)) = Len(s) + (IF n > 0 THEN n ELSE 0)
         /\ \A k \in 1 .. Len(RunAfter(s, v, n)) : RunAfter(s, v, n)[k] = IF k <= Len(s) THEN s[k] ELSE v
<1> DEFINE r == [k \in 1 .. n |-> v]
<1> HIDE DEF r
<1>1. r \in Seq(Int) /\ Len(r) = IF n > 0 THEN n ELSE 0
  <2>1. CASE n \in Nat
    BY <2>1 DEF r
  <2>2. CASE n < 0
    <3>1. 1 .. n = 1 .. 0
      BY <2>2
    <3>2. r = << >>
      BY <3>1 DEF r
    <3>3. QED
      BY <2>2, <3>2
  <2>3. QED
    BY <2>1, <2>2
<1>2. \A k \in 1 .. Len(r) : r[k] = v
  <2> SUFFICES ASSUME NEW k \in 1 .. Len(r) PROVE r[k] = v
    OBVIOUS
  <2> DEFINE l == Len(r)
  <2>1. l = (IF n > 0 THEN n ELSE 0) /\ k \in 1 .. l
    BY <1>1
  <2> HIDE DEF l
  <2>2. k \in 1 .. n
    BY <2>1
  <2>3. QED
    BY <2>2 DEF r
<1>a. r \in Seq(Int)
  BY <1>1
<1>3. s \o r \in Seq(Int) /\ Len(s \o r) = Len(s) + Len(r)
  BY <1>a
<1>4. \A k \in 1 .. Len(s) + Len(r) : (s \o r)[k] = IF k <= Len(s) THEN s[k] ELSE r[k - Len(s)]
  BY <1>a
<1>5. ASSUME NEW k \in 1 .. Len(s) + Len(r) PROVE (s \o r)[k] = IF k <= Len(s) THEN s[k] ELSE v
  <2>1. Len(s) \in Nat /\ Len(r) \in Nat
    BY <1>1
  <2>2. k > Len(s) => k - Len(s) \in 1 .. Len(r)
    BY <2>1
  <2>3. QED
    BY <1>2, <1>4, <2>2
<1>6. QED
  BY <1>1, <1>3, <1>5 DEF r, RunAfter

(* The values that are right for a point, with a record to measure it by. *)
Best(k)  == Max(IF KnownAt(k) = {} THEN FirstHour ELSE KnownAt(k))
Right(k) == {v \in Int : Best(k) \in 0 .. from - 1 /\ PointIsRight(v, k)}

(* The walk.  Its next hour is that of a record p, or 0 before the first; all
   from p on are of the day, and the buffer is full to the hour before it.
   When a record is counted, the walk reads the one after p a second time, and
   then p for the hour it has already (Level).                              *)
HourAt(p) == IF p >= 0 THEN Hour(hist[p]) ELSE 0
Ended(p)  == p < 0 \/ Date(hist[p]) # walk.day

Behind(p) ==
  /\ walk.hour = IF p = from - 1 THEN Hours ELSE Hour(hist[p + 1])
  /\ Len(walk.buf) = Hours - walk.hour
  /\ Slot = p \/ (cnt > from /\ Slot = p + 1)

Level(p) ==
  /\ cnt > from /\ Slot = p
  /\ walk.hour = walk.next
  /\ ~Ended(p) => Len(walk.buf) = Hours - walk.hour
  /\ Ended(p) => p < from - 1 /\ Len(walk.buf) >= Hours - Hour(hist[p + 1])

Steady(p) ==
  /\ walk.next = HourAt(p)
  /\ \A i \in p + 1 .. from - 1 : Date(hist[i]) = walk.day
  /\ Behind(p) \/ Level(p)

WalkShape ==
  /\ from \in Nat \ {0} /\ walk.day = Date(hist[from - 1])
  /\ walk.i \in Nat /\ walk.buf \in Seq(Int) /\ Len(walk.buf) <= Hours

WalkInv ==
  /\ DOMAIN walk = {"day", "hour", "next", "i", "buf"}
  /\ lcd = "curve" /\ SameDay =>
       /\ WalkShape
       /\ \E p \in -1 .. from - 1 : Steady(p)
       /\ \A k \in 1 .. Len(walk.buf) : walk.buf[k] \in Right(k)

(* What is known at the end of an hour, from what has been walked through. *)
LEMMA Known ==
  ASSUME ShapeInv, Times(0 .. from - 1), WalkShape, NEW p \in -1 .. from - 1,
         \A i \in p + 1 .. from - 1 : Date(hist[i]) = walk.day,
         NEW k \in 1 .. Hours
  PROVE  /\ (~Ended(p) /\ Hours - k >= Hour(hist[p]) /\ (p = from - 1 \/ Hours - k < Hour(hist[p + 1]))) =>
              p \in KnownAt(k) /\ \A i \in KnownAt(k) : i <= p
         /\ (Ended(p) /\ Hours - k < Hour(hist[p + 1])) => KnownAt(k) = {}
         /\ Ended(p) => /\ p + 1 \in FirstHour /\ p < from - 1
                        /\ Hour(hist[p + 1]) \in 0 .. Hours - 1
                        /\ KnownAt(Hours - Hour(hist[p + 1])) = FirstHour
<1> DEFINE C == 0 .. from - 1
<1>0. from \in Nat \ {0} /\ Hours \in Nat /\ \A i \in C : Hour(hist[i]) \in Nat
  <2>1. ASSUME NEW i \in C PROVE Hour(hist[i]) \in Nat
    BY TimeParts DEF Times, Timed, Hour
  <2>2. QED
    BY <2>1, SizeAssumption DEF WalkShape
<1>1. \A i, j \in C : i < j /\ Date(hist[i]) = Date(hist[j]) => Hour(hist[i]) <= Hour(hist[j])
  BY HoursOfDay
<1>2. ASSUME NEW i \in C, NEW j \in C, NEW l \in C, i < j, j < l, Date(hist[i]) = Date(hist[l])
      PROVE  Date(hist[j]) = Date(hist[l])
  <2>1. Times(C)
    OBVIOUS
  <2> HIDE DEF C
  <2>2. QED
    BY <1>2, <2>1, DayIsWhole
<1>3. from - 1 \in C /\ Date(hist[from - 1]) = walk.day
  BY <1>0 DEF WalkShape
<1>4. OfDay = {i \in C : Date(hist[i]) = walk.day}
  BY DEF OfDay
<1>5. ASSUME ~Ended(p), Hours - k >= Hour(hist[p]), p = from - 1 \/ Hours - k < Hour(hist[p + 1])
      PROVE  p \in KnownAt(k) /\ \A i \in KnownAt(k) : i <= p
  <2>1. p \in C /\ Date(hist[p]) = walk.day
    BY <1>0, <1>5 DEF Ended
  <2>2. p \in KnownAt(k)
    BY <1>0, <1>4, <1>5, <2>1 DEF KnownAt
  <2>3. ASSUME NEW i \in KnownAt(k), i > p PROVE FALSE
    <3>1. i \in C /\ Hour(hist[i]) <= Hours - k /\ Date(hist[i]) = walk.day
      BY <1>4 DEF KnownAt
    <3>2. p + 1 \in C /\ Date(hist[p + 1]) = walk.day /\ i >= p + 1 /\ p # from - 1
      BY <1>0, <2>1, <2>3, <3>1
    <3>3. Hour(hist[p + 1]) <= Hour(hist[i])
      BY <1>0, <1>1, <3>1, <3>2
    <3>4. QED
      BY <1>0, <1>5, <3>1, <3>2, <3>3
  <2>4. KnownAt(k) \subseteq Int
    BY <1>4 DEF KnownAt
  <2>5. QED
    BY <1>0, <2>1, <2>2, <2>3, <2>4
<1>6. ASSUME Ended(p)
      PROVE  p + 1 \in OfDay /\ p < from - 1 /\ \A i \in OfDay : i >= p + 1
  <2>1. p < from - 1
    BY <1>0, <1>3, <1>6 DEF Ended
  <2>2. p + 1 \in C /\ Date(hist[p + 1]) = walk.day
    BY <1>0, <2>1
  <2>3. ASSUME NEW i \in OfDay, i < p + 1 PROVE FALSE
    <3>1. i \in C /\ p \in C /\ Date(hist[i]) = walk.day /\ i <= p
      BY <1>0, <1>4, <2>3
    <3>2. Date(hist[p]) # walk.day /\ i # p
      BY <1>6, <3>1 DEF Ended
    <3>3. i < p /\ p < from - 1
      BY <1>0, <2>1, <3>1, <3>2
    <3>4. QED
      BY <1>2, <1>3, <3>1, <3>2, <3>3
  <2>4. QED
    BY <1>0, <1>4, <2>1, <2>2, <2>3
<1>7. ASSUME Ended(p) PROVE \A i \in OfDay : Hour(hist[p + 1]) <= Hour(hist[i])
  <2> SUFFICES ASSUME NEW i \in OfDay PROVE Hour(hist[p + 1]) <= Hour(hist[i])
    OBVIOUS
  <2>1. i \in C /\ p + 1 \in C /\ p + 1 <= i /\ Date(hist[p + 1]) = Date(hist[i])
    BY <1>4, <1>6, <1>7
  <2>2. QED
    BY <1>0, <1>1, <2>1
<1>8. ASSUME Ended(p), Hours - k < Hour(hist[p + 1]) PROVE KnownAt(k) = {}
  <2> SUFFICES ASSUME NEW i \in KnownAt(k) PROVE FALSE
    OBVIOUS
  <2>1. i \in OfDay /\ i \in C /\ p + 1 \in C /\ Hour(hist[i]) <= Hours - k
    BY <1>4, <1>6, <1>8 DEF KnownAt
  <2>2. Hour(hist[p + 1]) <= Hour(hist[i])
    BY <1>7, <1>8, <2>1
  <2>3. QED
    BY <1>0, <1>8, <2>1, <2>2
<1>9. Ended(p) => p + 1 \in FirstHour
  BY <1>6, <1>7 DEF FirstHour
<1>10. ASSUME Ended(p) PROVE Hour(hist[p + 1]) \in 0 .. Hours - 1 /\ KnownAt(Hours - Hour(hist[p + 1])) = FirstHour
  <2> DEFINE h == Hour(hist[p + 1])
  <2>1. p + 1 \in OfDay /\ p + 1 \in C
    BY <1>4, <1>6, <1>10
  <2>2. h \in 0 .. Hours - 1
    BY <1>0, <2>1 DEF Times, Timed
  <2>3. Hours - (Hours - h) = h
    BY <1>0, <2>2
  <2>4. KnownAt(Hours - h) = {i \in OfDay : Hour(hist[i]) <= h}
    BY <2>3 DEF KnownAt
  <2>5. ASSUME NEW i \in OfDay PROVE Hour(hist[i]) <= h <=> \A j \in OfDay : Hour(hist[i]) <= Hour(hist[j])
    <3>1. \A j \in OfDay : Hour(hist[j]) \in Nat /\ h <= Hour(hist[j])
      BY <1>0, <1>4, <1>7, <1>10
    <3>2. QED
      BY <2>1, <2>2, <3>1
  <2>6. QED
    BY <2>2, <2>4, <2>5 DEF FirstHour
<1>11. QED
  BY <1>5, <1>6, <1>8, <1>9, <1>10

LEMMA RightStays ==
  ASSUME NEW k, NEW v \in Right(k), from \in Nat, cnt \in Nat, from <= cnt, from' = from, walk'.day = walk.day,
         cnt' \in {cnt, cnt + 1}, \A i \in 0 .. cnt - 1 : hist'[i] = hist[i]
  PROVE  v \in Right(k)'
<1>1. \A i \in 0 .. from - 1 : i \in 0 .. cnt - 1 /\ hist'[i] = hist[i]
  OBVIOUS
<1>2. OfDay' = OfDay
  BY <1>1 DEF OfDay
<1>3. \A i \in OfDay : hist'[i] = hist[i]
  BY <1>1 DEF OfDay
<1>4. FirstHour' = FirstHour /\ KnownAt(k)' = KnownAt(k)
  BY <1>2, <1>3 DEF FirstHour, KnownAt
<1>5. Best(k)' = Best(k) /\ Best(k) \in 0 .. from - 1
  BY <1>4 DEF Best, Right
<1>6. hist'[Best(k)] = hist[Best(k)]
  BY <1>1, <1>5
<1>7. cnt > from => cnt' > from /\ hist'[Best(k) + 1] = hist[Best(k) + 1]
  BY <1>5
<1>8. \A i \in FirstHour : hist'[i] = hist[i]
  BY <1>3 DEF FirstHour
<1>9. PointIsRight(v, k)'
  BY <1>4, <1>5, <1>6, <1>7, <1>8 DEF Right, PointIsRight, Best
<1>10. QED
  BY <1>5, <1>9 DEF Right

LEMMA FillIs ==
  ASSUME walk.buf \in Seq(Int), Len(walk.buf) <= Hours, walk.hour \in Int, walk.next \in Int, NEW v \in Int
  PROVE  LET b == Fill(walk, v)
             n == walk.hour - walk.next
             m == IF n <= Hours - Len(walk.buf) THEN n ELSE Hours - Len(walk.buf)
         IN  /\ b \in Seq(Int) /\ Len(b) = Len(walk.buf) + (IF m > 0 THEN m ELSE 0) /\ Len(b) <= Hours
             /\ \A k \in 1 .. Len(b) : b[k] = IF k <= Len(walk.buf) THEN walk.buf[k] ELSE v
<1> DEFINE n == walk.hour - walk.next
           r == Hours - Len(walk.buf)
           m == IF n <= r THEN n ELSE r
<1>1. walk.buf \in Seq(Int) /\ Len(walk.buf) \in Nat /\ n \in Int /\ r \in Nat /\ m \in Int
  BY SizeAssumption
<1>2. Min({n, r}) = m
  BY <1>1, MinIs
<1>3. Fill(walk, v) = walk.buf \o [k \in 1 .. m |-> v]
  BY <1>2 DEF Fill
<1>4. m <= r
  BY <1>1
<1> HIDE DEF n, m
<1>5. /\ Fill(walk, v) \in Seq(Int) /\ Len(Fill(walk, v)) = Len(walk.buf) + (IF m > 0 THEN m ELSE 0)
      /\ \A k \in 1 .. Len(Fill(walk, v)) : Fill(walk, v)[k] = IF k <= Len(walk.buf) THEN walk.buf[k] ELSE v
  <2>1. Fill(walk, v) = RunAfter(walk.buf, v, m)
    BY <1>3 DEF RunAfter
  <2>2. walk.buf \in Seq(Int) /\ m \in Int
    BY <1>1
  <2> DEFINE b == walk.buf
  <2> HIDE DEF b
  <2>3. /\ RunAfter(b, v, m) \in Seq(Int)
        /\ Len(RunAfter(b, v, m)) = Len(b) + (IF m > 0 THEN m ELSE 0)
        /\ \A k \in 1 .. Len(RunAfter(b, v, m)) : RunAfter(b, v, m)[k] = IF k <= Len(b) THEN b[k] ELSE v
    <3>1. b \in Seq(Int)
      BY <2>2 DEF b
    <3>2. QED
      BY <2>2, <3>1, RunIs
  <2>4. QED
    BY <2>1, <2>3 DEF b
<1>6. Len(walk.buf) + (IF m > 0 THEN m ELSE 0) <= Hours
  <2> DEFINE l == Len(walk.buf)
  <2>1. l \in Nat /\ m \in Int /\ Hours \in Nat /\ l <= Hours /\ m <= Hours - l
    BY <1>1, <1>4, SizeAssumption
  <2> HIDE DEF l
  <2>2. l + (IF m > 0 THEN m ELSE 0) <= Hours
    BY <2>1
  <2>3. QED
    BY <2>2 DEF l
<1>7. QED
  BY <1>5, <1>6 DEF n, m

(* One record further back. *)
LEMMA BackStep ==
  ASSUME ShapeInv, Times(0 .. cnt - 1), WalkInv, SameDay, CurveBack
  PROVE  /\ WalkShape'
         /\ \E p \in -1 .. from - 1 : Steady(p)'
         /\ \A k \in 1 .. Len(walk'.buf) : walk'.buf[k] \in Right(k)'
<1>0. /\ from \in Nat \ {0} /\ cnt \in {from, from + 1} /\ Hours \in Nat
      /\ Slot \in 0 .. cnt - 1 /\ Date(hist[Slot]) = walk.day /\ hist[Slot].data \in Int
      /\ lcd = "curve" /\ WalkShape
      /\ \A k \in 1 .. Len(walk.buf) : walk.buf[k] \in Right(k)
  <2>1. lcd = "curve" /\ WalkShape /\ SameDay
    BY DEF CurveBack, WalkInv
  <2>2. from \in Nat \ {0} /\ cnt \in {from, from + 1} /\ walk.i \in Nat
    BY <2>1 DEF WalkShape, SameDay
  <2>3. Slot \in 0 .. cnt - 1 /\ Date(hist[Slot]) = walk.day
    BY <2>2 DEF CurveBack, InWalk, Slot
  <2>4. QED
    BY <2>1, <2>2, <2>3, SizeAssumption DEF Times, WalkInv
<1>1. \A i \in 0 .. cnt - 1 : Hour(hist[i]) \in 0 .. Hours - 1
  <2>1. ASSUME NEW i \in 0 .. cnt - 1 PROVE Hour(hist[i]) \in 0 .. Hours - 1
    <3>1. hist[i].time \in Seq(Nat) /\ Len(hist[i].time) = 5 /\ Hour(hist[i]) < Hours
      BY DEF Times, Timed
    <3>2. Hour(hist[i]) \in Nat
      BY <3>1, TimeParts DEF Hour
    <3>3. QED
      BY <1>0, <3>1, <3>2
  <2>2. QED
    BY <2>1
<1>2. Times(0 .. from - 1)
  <2>1. 0 .. from - 1 \subseteq 0 .. cnt - 1
    BY <1>0
  <2>2. QED
    BY <2>1 DEF Times
<1> DEFINE v == hist[Slot].data
           b == Fill(walk, v)
<1>3. /\ walk'.buf = b /\ walk'.hour = walk.next /\ walk'.i = walk.i + 1 /\ walk'.day = walk.day
      /\ walk'.next = IF Slot > 0 THEN Hour(hist[Slot - 1]) ELSE 0
      /\ DOMAIN walk' = {"day", "hour", "next", "i", "buf"}
      /\ UNCHANGED <<hist, cnt, from, lcd>>
  BY <1>0 DEF CurveBack, WalkInv
<1>4. Slot' = Slot - 1
  <2>1. walk'.i = walk.i + 1 /\ cnt' = cnt /\ walk.i \in Nat /\ cnt \in Int
    BY <1>0, <1>3 DEF WalkShape
  <2>2. cnt - (walk.i + 1) - 1 = cnt - walk.i - 1 - 1
    BY <2>1
  <2>3. QED
    BY <2>1, <2>2 DEF Slot
<1>5. PICK p \in -1 .. from - 1 : Steady(p)
  BY <1>0 DEF WalkInv
<1>6. walk.next = HourAt(p) /\ walk.next \in Nat /\ \A i \in -1 .. from - 1 : HourAt(i) \in 0 .. Hours - 1
  <2>1. ASSUME NEW i \in -1 .. from - 1 PROVE HourAt(i) \in 0 .. Hours - 1
    <3>1. 0 \in 0 .. Hours - 1 /\ (i >= 0 => i \in 0 .. cnt - 1)
      BY <1>0, SizeAssumption
    <3>2. QED
      BY <1>1, <3>1 DEF HourAt
  <2>2. QED
    BY <1>0, <1>5, <2>1 DEF Steady
<1>7. walk.hour \in Nat /\ Len(walk.buf) \in Nat
  <2>1. p # from - 1 => p + 1 \in 0 .. cnt - 1
    BY <1>0
  <2>2. walk.hour \in {Hours, walk.next} \/ (p # from - 1 /\ walk.hour = Hour(hist[p + 1]))
    BY <1>5 DEF Steady, Behind, Level
  <2>3. walk.hour \in Nat
    BY <1>0, <1>1, <1>6, <2>1, <2>2
  <2>4. QED
    BY <1>0, <2>3 DEF WalkShape
<1> DEFINE n == walk.hour - walk.next
           m == IF n <= Hours - Len(walk.buf) THEN n ELSE Hours - Len(walk.buf)
<1>8. /\ b \in Seq(Int) /\ Len(b) = Len(walk.buf) + (IF m > 0 THEN m ELSE 0) /\ Len(b) <= Hours
      /\ \A k \in 1 .. Len(b) : b[k] = IF k <= Len(walk.buf) THEN walk.buf[k] ELSE v
  <2>1. v \in Int /\ WalkShape /\ walk.hour \in Int /\ walk.next \in Int
    BY <1>0, <1>6, <1>7
  <2> HIDE DEF v
  <2>2. QED
    BY <2>1, FillIs DEF WalkShape
<1> HIDE DEF v, b, n, m
<1>9. WalkShape'
  BY <1>0, <1>3, <1>8 DEF WalkShape
<1>10. ASSUME NEW k, NEW w \in Right(k) PROVE w \in Right(k)'
  BY <1>0, <1>3, RightStays DEF ShapeInv
<1>11. SUFFICES /\ \E q \in -1 .. from - 1 : Steady(q)'
                /\ \A k \in 1 .. Len(b) : k > Len(walk.buf) => v \in Right(k)
  <2>1. ASSUME NEW k \in 1 .. Len(b), \A l \in 1 .. Len(b) : l > Len(walk.buf) => v \in Right(l)
        PROVE  b[k] \in Right(k)'
    <3>1. CASE k <= Len(walk.buf)
      <4>1. k \in 1 .. Len(walk.buf)
        BY <1>7, <3>1
      <4>2. QED
        BY <1>0, <1>8, <1>10, <3>1, <4>1
    <3>2. CASE ~(k <= Len(walk.buf))
      <4>1. k > Len(walk.buf)
        BY <1>7, <3>2
      <4>2. QED
        BY <1>8, <1>10, <2>1, <3>2, <4>1
    <3>3. QED
      BY <3>1, <3>2
  <2>2. QED
    BY <1>3, <1>9, <2>1
<1>12. ASSUME NEW i \in 0 .. from - 1, i \in p + 1 .. from - 1 PROVE Date(hist[i]) = walk.day
  BY <1>5, <1>12 DEF Steady
<1>13. \A k \in 1 .. Len(b) : k \in 1 .. Hours
  BY <1>0, <1>8
<1>b. /\ Len(b) \in Nat /\ Len(b) >= Len(walk.buf)
      /\ walk.next <= walk.hour /\ Len(walk.buf) = Hours - walk.hour => Len(b) = Hours - walk.next
      /\ walk.hour = walk.next => Len(b) = Len(walk.buf)
  <2> DEFINE l == Len(walk.buf)
             c == Len(b)
             x == walk.hour
             y == walk.next
  <2>1. l \in Nat /\ x \in Nat /\ y \in Nat /\ c = l + (IF m > 0 THEN m ELSE 0) /\ l <= Hours
    BY <1>0, <1>6, <1>7, <1>8 DEF WalkShape
  <2>2. m = IF x - y <= Hours - l THEN x - y ELSE Hours - l
    BY DEF m, n
  <2>a. Hours \in Nat
    BY <1>0
  <2> HIDE DEF l, c, x, y, m
  <2>b. m \in Int
    BY <2>1, <2>2, <2>a
  <2>3. /\ c \in Nat /\ c >= l
        /\ y <= x /\ l = Hours - x => c = Hours - y
        /\ x = y => c = l
    <3>1. CASE x - y <= Hours - l
      BY <2>1, <2>2, <2>a, <2>b, <3>1
    <3>2. CASE ~(x - y <= Hours - l)
      BY <2>1, <2>2, <2>a, <2>b, <3>2
    <3>3. QED
      BY <3>1, <3>2
  <2>4. QED
    BY <2>3 DEF l, c, x, y
<1>c. ASSUME Len(walk.buf) = Hours - walk.hour, walk.next <= walk.hour, NEW k \in 1 .. Len(b), k > Len(walk.buf)
      PROVE  Hours - k >= walk.next /\ Hours - k < walk.hour
  <2>1. Len(b) = Hours - walk.next
    BY <1>b, <1>c
  <2> DEFINE x == walk.hour
             y == walk.next
  <2>2. x \in Nat /\ y \in Nat /\ k \in 1 .. Hours - y /\ k > Hours - x
    BY <1>6, <1>7, <1>c, <2>1
  <2> HIDE DEF x, y
  <2>3. Hours - k >= y /\ Hours - k < x
    BY <1>0, <2>2
  <2>4. QED
    BY <2>3 DEF x, y
<1>a. \A i \in p + 1 .. from - 1 : Date(hist[i]) = walk.day
  BY <1>5 DEF Steady
<1>14. CASE Behind(p) /\ Slot = p
  <2>1. p \in 0 .. from - 1 /\ ~Ended(p)
    BY <1>0, <1>14 DEF Ended
  <2>2. /\ walk.hour = IF p = from - 1 THEN Hours ELSE Hour(hist[p + 1])
        /\ Len(walk.buf) = Hours - walk.hour
        /\ walk.next = Hour(hist[p]) /\ walk.next <= walk.hour
    <3>1. walk.next = Hour(hist[p])
      BY <1>6, <2>1 DEF HourAt
    <3>2. ASSUME p # from - 1 PROVE Hour(hist[p]) <= Hour(hist[p + 1])
      <4>1. p + 1 \in 0 .. from - 1 /\ Date(hist[p]) = Date(hist[p + 1]) /\ p < p + 1
        BY <1>0, <1>12, <1>14, <2>1, <3>2
      <4>2. QED
        BY <1>2, <2>1, <4>1, HoursOfDay
    <3>3. p \in 0 .. cnt - 1
      BY <1>0, <2>1
    <3>4. QED
      BY <1>0, <1>1, <1>14, <3>1, <3>2, <3>3 DEF Behind
  <2>3. Len(b) = Hours - walk.next
    BY <1>b, <2>2
  <2>4. ASSUME NEW k \in 1 .. Len(b), k > Len(walk.buf) PROVE v \in Right(k)
    <3>1. Hours - k >= Hour(hist[p]) /\ (p = from - 1 \/ Hours - k < Hour(hist[p + 1])) /\ k \in 1 .. Hours
      BY <1>13, <1>c, <2>2, <2>4
    <3>2. p \in KnownAt(k) /\ \A i \in KnownAt(k) : i <= p
      BY <1>0, <1>2, <1>a, <2>1, <3>1, Known
    <3>3. Best(k) = p
      <4>1. KnownAt(k) \subseteq Int
        BY DEF KnownAt, OfDay
      <4>2. QED
        BY <3>2, <4>1, MaxIs DEF Best
    <3>4. QED
      BY <1>0, <1>14, <2>1, <3>3 DEF Right, PointIsRight, Best, v
  <2>5. Steady(p - 1)' /\ p - 1 \in -1 .. from - 1
    <3>1. walk'.next = HourAt(p - 1)'
      <4>1. p > 0 <=> p - 1 >= 0
        BY <2>1
      <4>2. QED
        BY <1>3, <1>14, <4>1 DEF HourAt
    <3>2. p - 1 + 1 = p /\ p - 1 # from - 1
      BY <2>1
    <3>3. (\A i \in p - 1 + 1 .. from - 1 : Date(hist[i]) = walk.day)'
      <4>1. \A i \in p .. from - 1 : Date(hist[i]) = walk.day
        BY <1>0, <1>a, <1>14, <2>1
      <4>2. QED
        BY <1>3, <3>2, <4>1
    <3>4. Behind(p - 1)'
      BY <1>3, <1>4, <1>14, <2>2, <2>3, <3>2 DEF Behind
    <3>5. Steady(p - 1)'
      BY <3>1, <3>3, <3>4 DEF Steady
    <3>6. QED
      BY <1>0, <2>1, <3>5
  <2>6. QED
    BY <2>4, <2>5
<1>15. CASE Behind(p) /\ Slot = p + 1 /\ cnt > from
  <2>1. cnt = from + 1 /\ p + 1 \in 0 .. from /\ v = hist[p + 1].data
    BY <1>0, <1>15 DEF v
  <2>2. /\ walk.hour = IF p = from - 1 THEN Hours ELSE Hour(hist[p + 1])
        /\ Len(walk.buf) = Hours - walk.hour
    BY <1>15 DEF Behind
  <2>3. walk'.next = HourAt(p)' /\ walk'.hour = walk'.next /\ cnt' > from' /\ Slot' = p
    <3>1. Slot > 0 <=> p >= 0
      BY <1>15
    <3>2. Slot - 1 = p
      BY <1>15
    <3>3. QED
      BY <1>3, <1>4, <1>6, <1>15, <3>1, <3>2 DEF HourAt
  <2>4. (\A i \in p + 1 .. from - 1 : Date(hist[i]) = walk.day)'
    BY <1>3, <1>a
  <2>5. CASE ~Ended(p)
    <3>1. p \in 0 .. from - 1 /\ walk.next = Hour(hist[p]) /\ walk.next <= walk.hour
      <4>1. p \in 0 .. from - 1 /\ Date(hist[p]) = walk.day
        BY <2>5 DEF Ended
      <4>2. walk.next = Hour(hist[p])
        BY <1>6, <4>1 DEF HourAt
      <4>3. ASSUME p # from - 1 PROVE Hour(hist[p]) <= Hour(hist[p + 1])
        <5>1. p + 1 \in 0 .. from - 1 /\ Date(hist[p]) = Date(hist[p + 1]) /\ p < p + 1
          BY <1>0, <1>12, <4>1, <4>3
        <5>2. QED
          BY <1>2, <4>1, <5>1, HoursOfDay
      <4>4. p \in 0 .. cnt - 1
        BY <1>0, <4>1
      <4>5. QED
        BY <1>0, <1>1, <2>2, <4>1, <4>2, <4>3, <4>4
    <3>2. Len(b) = Hours - walk.next
      BY <1>b, <2>2, <3>1
    <3>3. ASSUME NEW k \in 1 .. Len(b), k > Len(walk.buf) PROVE v \in Right(k)
      <4>1. Hours - k >= Hour(hist[p]) /\ (p = from - 1 \/ Hours - k < Hour(hist[p + 1])) /\ k \in 1 .. Hours
        BY <1>13, <1>c, <2>2, <3>1, <3>3
      <4>2. p \in KnownAt(k) /\ \A i \in KnownAt(k) : i <= p
        BY <1>0, <1>2, <1>a, <2>5, <4>1, Known
      <4>3. Best(k) = p
        <5>1. KnownAt(k) \subseteq Int
          BY DEF KnownAt, OfDay
        <5>2. QED
          BY <4>2, <5>1, MaxIs DEF Best
      <4>4. v \in Int
        BY <1>0 DEF v
      <4>5. QED
        BY <1>15, <2>1, <3>1, <4>3, <4>4 DEF Right, PointIsRight, Best
    <3>4. Level(p)'
      BY <1>3, <2>3, <2>5, <3>2 DEF Level, Ended
    <3>5. QED
      BY <2>3, <2>4, <3>3, <3>4 DEF Steady
  <2>6. CASE Ended(p)
    <3>1. /\ p + 1 \in FirstHour /\ p < from - 1 /\ Hour(hist[p + 1]) \in 0 .. Hours - 1
          /\ KnownAt(Hours - Hour(hist[p + 1])) = FirstHour
      <4>1. 1 \in 1 .. Hours
        BY SizeAssumption
      <4>2. QED
        BY <1>0, <1>2, <1>a, <2>6, <4>1, Known
    <3>2. walk.hour = Hour(hist[p + 1]) /\ Len(walk.buf) \in 1 .. Hours /\ Len(walk.buf) = Hours - Hour(hist[p + 1])
      BY <1>0, <2>2, <3>1
    <3>3. ASSUME NEW k \in 1 .. Len(b), k > Len(walk.buf) PROVE v \in Right(k)
      <4>1. Hours - k < Hour(hist[p + 1]) /\ k \in 1 .. Hours
        BY <1>0, <1>7, <1>13, <3>1, <3>2, <3>3, SMTT(30)
      <4>2. KnownAt(k) = {}
        BY <1>0, <1>2, <1>a, <2>6, <4>1, Known
      <4>3. Best(k) \in 0 .. from - 1
        <5>1. Best(Len(walk.buf)) \in 0 .. from - 1
          <6>1. Len(walk.buf) \in 1 .. Len(walk.buf)
            BY <3>2
          <6>2. QED
            BY <1>0, <6>1 DEF Right
        <5>2. Best(Len(walk.buf)) = Max(FirstHour) /\ Best(k) = Max(FirstHour)
          BY <3>1, <3>2, <4>2 DEF Best
        <5>3. QED
          BY <5>1, <5>2
      <4>4. v \in Int
        BY <1>0 DEF v
      <4>5. QED
        BY <1>15, <2>1, <3>1, <4>2, <4>3, <4>4 DEF Right, PointIsRight
    <3>4. Len(b) >= Len(walk.buf)
      BY <1>b
    <3>5. Level(p)'
      BY <1>0, <1>3, <1>8, <2>3, <2>6, <3>1, <3>2, <3>4 DEF Level, Ended
    <3>6. QED
      BY <2>3, <2>4, <3>3, <3>5 DEF Steady
  <2>7. QED
    BY <2>5, <2>6
<1>16. CASE Level(p)
  <2>1. p \in 0 .. from - 1 /\ ~Ended(p) /\ Slot = p /\ walk.hour = walk.next /\ Len(walk.buf) = Hours - walk.hour
    BY <1>0, <1>16 DEF Level, Ended
  <2>2. Len(b) = Len(walk.buf)
    BY <1>b, <2>1
  <2>3. \A k \in 1 .. Len(b) : k > Len(walk.buf) => v \in Right(k)
    BY <1>7, <2>2
  <2>4. Steady(p - 1)' /\ p - 1 \in -1 .. from - 1
    <3>1. walk'.next = HourAt(p - 1)'
      <4>1. p > 0 <=> p - 1 >= 0
        BY <2>1
      <4>2. QED
        BY <1>3, <2>1, <4>1 DEF HourAt
    <3>2. p - 1 + 1 = p /\ p - 1 # from - 1
      BY <2>1
    <3>3. (\A i \in p - 1 + 1 .. from - 1 : Date(hist[i]) = walk.day)'
      <4>1. \A i \in p .. from - 1 : Date(hist[i]) = walk.day
        BY <1>0, <1>a, <2>1
      <4>2. QED
        BY <1>3, <3>2, <4>1
    <3>4. walk.next = Hour(hist[p])
      BY <1>6, <2>1 DEF HourAt
    <3>5. Behind(p - 1)'
      BY <1>3, <1>4, <2>1, <2>2, <3>2, <3>4 DEF Behind
    <3>6. Steady(p - 1)'
      BY <3>1, <3>3, <3>5 DEF Steady
    <3>7. QED
      BY <1>0, <2>1, <3>6
  <2>5. QED
    BY <2>3, <2>4
<1>17. QED
  BY <1>5, <1>14, <1>15, <1>16 DEF Steady, Behind

LEMMA WalkStep ==
  ASSUME ShapeInv, Times(0 .. cnt - 1), WalkInv, [Next]_vars
  PROVE  WalkInv'
<1>0. /\ cnt' \in {cnt, cnt + 1} /\ cnt \in Nat /\ from \in Nat /\ from <= cnt
      /\ \A i \in 0 .. cnt - 1 : hist'[i] = hist[i]
  BY CountedStays DEF ShapeInv
<1>1. CASE CurveBack
  <2>1. UNCHANGED <<hist, cnt, from, lcd>> /\ DOMAIN walk' = DOMAIN walk /\ walk'.day = walk.day
    BY <1>1 DEF CurveBack, WalkInv
  <2>2. SameDay' <=> SameDay
    BY <2>1 DEF SameDay
  <2>3. QED
    BY <1>1, <2>1, <2>2, BackStep DEF WalkInv
<1>2. CASE UNCHANGED <<lcd, walk, from>>
  <2> SUFFICES ASSUME lcd = "curve", SameDay' PROVE WalkShape' /\ (\E p \in -1 .. from - 1 : Steady(p))'
                                                   /\ (\A k \in 1 .. Len(walk.buf) : walk.buf[k] \in Right(k))'
    BY <1>2 DEF WalkInv
  <2>1. SameDay /\ (cnt' = cnt \/ (cnt = from /\ cnt' = from + 1))
    <3>1. CASE cnt' = cnt
      <4>1. cnt = from + 1 => hist'[from] = hist[from]
        BY <1>0
      <4>2. QED
        BY <1>2, <3>1, <4>1 DEF SameDay
    <3>2. CASE cnt' = cnt + 1
      BY <1>0, <1>2, <3>2 DEF SameDay
    <3>3. QED
      BY <1>0, <3>1, <3>2
  <2>2. WalkShape /\ \A k \in 1 .. Len(walk.buf) : walk.buf[k] \in Right(k)
    BY <2>1 DEF WalkInv
  <2>3. PICK p \in -1 .. from - 1 : Steady(p)
    BY <2>1 DEF WalkInv
  <2>4. \A i \in 0 .. from - 1 : hist'[i] = hist[i]
    BY <1>0
  <2>5. WalkShape'
    <3>1. from - 1 \in 0 .. from - 1
      BY <2>2 DEF WalkShape
    <3>2. QED
      BY <1>2, <2>2, <2>4, <3>1 DEF WalkShape
  <2>6. (\A k \in 1 .. Len(walk.buf) : walk.buf[k] \in Right(k))'
    <3>1. ASSUME NEW k, NEW v \in Right(k) PROVE v \in Right(k)'
      BY <1>0, <1>2, RightStays
    <3>2. QED
      BY <1>2, <2>2, <3>1
  <2>7. Steady(p)'
    <3>1. p >= 0 => p \in 0 .. from - 1
      OBVIOUS
    <3>2. p # from - 1 => p + 1 \in 0 .. from - 1
      BY <1>0
    <3>3. HourAt(p)' = HourAt(p)
      BY <2>4, <3>1 DEF HourAt
    <3>4. (\A i \in p + 1 .. from - 1 : Date(hist[i]) = walk.day)'
      <4>1. \A i \in p + 1 .. from - 1 : i \in 0 .. from - 1 /\ Date(hist[i]) = walk.day
        BY <1>0, <2>3 DEF Steady
      <4>2. QED
        BY <1>2, <2>4, <4>1
    <3>5. Slot' = Slot \/ (cnt = from /\ cnt' = from + 1 /\ Slot' = Slot + 1)
      <4>1. Slot \in Int /\ walk.i \in Nat
        BY <1>0, <2>2 DEF Slot, WalkShape
      <4>2. CASE cnt' = cnt
        BY <1>2, <4>2 DEF Slot
      <4>3. CASE cnt' = from + 1 /\ cnt = from
        BY <1>0, <1>2, <4>1, <4>3 DEF Slot
      <4>4. QED
        BY <2>1, <4>2, <4>3
    <3>6. CASE Behind(p)
      <4>1. walk'.hour = IF p = from' - 1 THEN Hours ELSE Hour(hist'[p + 1])
        BY <1>2, <2>4, <3>2, <3>6 DEF Behind
      <4>2. Slot' = p \/ (cnt' > from' /\ Slot' = p + 1)
        BY <1>0, <1>2, <2>1, <3>5, <3>6 DEF Behind
      <4>3. Behind(p)'
        BY <1>2, <3>6, <4>1, <4>2 DEF Behind
      <4>4. QED
        BY <1>2, <2>3, <3>3, <3>4, <4>3 DEF Steady
    <3>7. CASE Level(p)
      <4>1. cnt' = cnt /\ Slot' = Slot /\ cnt > from
        BY <1>0, <2>1, <3>5, <3>7 DEF Level
      <4>2. Ended(p)' <=> Ended(p)
        BY <1>2, <2>4, <3>1 DEF Ended
      <4>3. p < from - 1 => p + 1 \in 0 .. from - 1
        BY <1>0
      <4>4. Level(p)'
        BY <1>2, <2>4, <3>7, <4>1, <4>2, <4>3 DEF Level
      <4>5. QED
        BY <1>2, <2>3, <3>3, <3>4, <4>4 DEF Steady
    <3>8. QED
      BY <2>3, <3>6, <3>7 DEF Steady
  <2>8. QED
    BY <1>2, <2>5, <2>6, <2>7
<1>3. CASE ShowCurve
  <2>1. cnt \in Nat \ {0}
    BY <1>0, <1>3, SizeAssumption DEF ShowCurve
  <2>2. /\ walk' = [day |-> Date(hist[cnt - 1]), hour |-> Hours, next |-> Hour(hist[cnt - 1]), i |-> 0, buf |-> <<>>]
        /\ from' = cnt /\ UNCHANGED <<hist, cnt>>
    BY <1>3 DEF ShowCurve, Touched
  <2>3. WalkShape' /\ DOMAIN walk' = {"day", "hour", "next", "i", "buf"}
    BY <2>1, <2>2, SizeAssumption DEF WalkShape
  <2>4. Steady(cnt - 1)'
    <3>1. Slot' = cnt - 1 /\ walk'.next = HourAt(cnt - 1)'
      BY <2>1, <2>2 DEF Slot, HourAt
    <3>2. (\A i \in cnt - 1 + 1 .. from - 1 : Date(hist[i]) = walk.day)'
      BY <2>1, <2>2
    <3>3. Behind(cnt - 1)'
      BY <2>1, <2>2, <3>1, SizeAssumption DEF Behind
    <3>4. QED
      BY <2>2, <3>1, <3>2, <3>3 DEF Steady
  <2>5. (\A k \in 1 .. Len(walk.buf) : walk.buf[k] \in Right(k))'
    BY <2>2
  <2>6. QED
    BY <2>1, <2>2, <2>3, <2>4, <2>5 DEF WalkInv
<1>4. CASE RefreshPage \/ LastPage \/ NextPage \/ ShowList \/ ShowTime \/ ShowData \/ CurveEnd
  <2>1. walk' = walk /\ lcd' # "curve"
    BY <1>4 DEF RefreshPage, LastPage, NextPage, ShowList, ShowTime, ShowData, CurveEnd, Touched, StartPage
  <2>2. QED
    BY <2>1 DEF WalkInv
<1>5. QED
  BY <1>1, <1>2, <1>3, <1>4 DEF Next, OpenDir, CompareNames, OpenFile, LoadTime, LoadData, LoadCount, LoadEnd,
     RecordData, RecordTime, RecordCount, vars, lcdVars

(* A curve has for every hour the last value known by its end, also when a
   record of the day is counted while it is computed: for days of any length,
   any files and messages, read as the theorem HistoryIsOrdered has them.   *)
THEOREM CurvesAreRight ==
  ASSUME HasRoom, FilesInOrder
  PROVE  Spec => CurveIsLastKnown
<1>1. ASSUME RecordsInv, OrderInv, WalkInv, CurveEnd, SameDay, NEW k \in 1 .. Hours
      PROVE  PointIsRight(curve'[k], k)
  <2> DEFINE L == Len(walk.buf)
  <2>1. /\ WalkShape /\ ShapeInv /\ Times(0 .. cnt - 1)
        /\ \A j \in 1 .. L : walk.buf[j] \in Right(j)
    BY <1>1, TimesAre DEF WalkInv, CurveEnd, RecordsInv
  <2>2. PICK p \in -1 .. from - 1 : Steady(p)
    BY <1>1 DEF WalkInv, CurveEnd
  <2>3. /\ from \in Nat \ {0} /\ cnt \in {from, from + 1} /\ Hours \in Nat \ {0} /\ L \in 0 .. Hours
        /\ \A i \in p + 1 .. from - 1 : Date(hist[i]) = walk.day
    BY <1>1, <2>1, <2>2, SizeAssumption DEF WalkShape, SameDay, Steady
  <2>4. Times(0 .. from - 1)
    <3>1. 0 .. from - 1 \subseteq 0 .. cnt - 1
      BY <2>3
    <3>2. QED
      BY <2>1, <3>1 DEF Times
  <2>5. Ended(p)
    <3>1. Slot < 0 \/ Date(hist[Slot]) # walk.day
      <4>1. Slot \in Int
        BY <2>1, <2>3 DEF Slot, WalkShape
      <4>2. QED
        BY <1>1, <4>1 DEF CurveEnd, InWalk
    <3>2. CASE Slot = p
      BY <3>1, <3>2 DEF Ended
    <3>3. CASE Slot = p + 1 /\ cnt > from
      <4>1. Date(hist[p + 1]) # walk.day
        BY <3>1, <3>3
      <4>2. p + 1 = from
        BY <2>3, <4>1
      <4>3. QED
        BY <1>1, <2>3, <3>3, <4>1, <4>2 DEF SameDay
    <3>4. QED
      BY <2>2, <3>2, <3>3 DEF Steady, Behind, Level
  <2> DEFINE h == Hour(hist[p + 1])
  <2>6. /\ p + 1 \in FirstHour /\ p < from - 1 /\ h \in 0 .. Hours - 1 /\ KnownAt(Hours - h) = FirstHour
    <3>1. 1 \in 1 .. Hours
      BY <2>3
    <3>2. QED
      BY <2>1, <2>3, <2>4, <2>5, <3>1, Known
  <2>7. L >= Hours - h
    <3>1. CASE Behind(p)
      BY <2>3, <2>6, <3>1 DEF Behind
    <3>2. CASE Level(p)
      BY <2>5, <3>2 DEF Level
    <3>3. QED
      BY <2>2, <3>1, <3>2 DEF Steady
  <2>8. ASSUME NEW j \in 1 .. Hours, j > Hours - h PROVE KnownAt(j) = {}
    <3>1. Hours - j < h
      BY <2>3, <2>6, <2>8
    <3>2. QED
      BY <2>1, <2>3, <2>4, <2>5, <3>1, Known
  <2>9. curve'[k] = IF k <= L THEN walk.buf[k] ELSE walk.buf[L]
    <3>1. L \in 1 .. Hours /\ (walk.buf = <<>> => L = 0)
      BY <2>3, <2>6, <2>7
    <3>2. walk.buf # <<>>
      BY <3>1
    <3>3. QED
      BY <1>1, <3>2 DEF CurveEnd
  <2>10. CASE k <= L
    <3>1. k \in 1 .. L
      BY <2>3, <2>10
    <3>2. walk.buf[k] \in Right(k)
      BY <2>1, <3>1
    <3>3. QED
      BY <2>9, <2>10, <3>2 DEF Right
  <2>11. CASE k > L
    <3>1. L \in 1 .. L /\ L \in 1 .. Hours /\ L >= Hours - h /\ k > Hours - h
      BY <2>3, <2>6, <2>7, <2>11
    <3>2. KnownAt(k) = {}
      BY <2>8, <3>1
    <3>3. KnownAt(L) = {} \/ KnownAt(L) = FirstHour
      <4>1. CASE L = Hours - h
        BY <2>6, <4>1
      <4>2. CASE L > Hours - h
        BY <2>8, <3>1, <4>2
      <4>3. QED
        BY <2>3, <2>6, <3>1, <4>1, <4>2
    <3>4. walk.buf[L] \in Right(L) /\ curve'[k] = walk.buf[L]
      BY <2>1, <2>3, <2>9, <2>11, <3>1
    <3> HIDE DEF L
    <3>5. PointIsRight(walk.buf[L], L)
      BY <3>4 DEF Right
    <3>6. QED
      BY <2>6, <3>2, <3>3, <3>4, <3>5 DEF PointIsRight
  <2>12. QED
    BY <2>3, <2>10, <2>11
<1>2. RecordsInv /\ OrderInv /\ WalkInv =>
        [CurveEnd /\ SameDay => \A k \in 1 .. Hours : PointIsRight(curve'[k], k)]_vars
  BY <1>1
<1>3. Init => WalkInv
  BY DEF Init, WalkInv
<1>4. RecordsInv /\ OrderInv /\ WalkInv /\ [Next]_vars => WalkInv'
  BY TimesAre, WalkStep DEF RecordsInv
<1>5. QED
  BY <1>2, <1>3, <1>4, OrderAlways, PTL DEF Spec, CurveIsLastKnown
----------------------------------------------------------------------------
(* What the sort leaves behind, and the locals of a curve. *)
SortTypes ==
  /\ pass \in 1 .. 3 /\ done \in BOOLEAN
  /\ load # "sort" => left = 1 /\ right = 2

CurveTypes ==
  /\ lcd \in {"idle", "time", "data", "curve"}
  /\ DOMAIN walk = {"day", "hour", "next", "i", "buf"} /\ walk.hour \in Int /\ walk.next \in Int
  /\ walk.i \in 0 .. cnt /\ walk.buf \in Seq(Int) /\ Len(walk.buf) <= Hours
  /\ Len(curve) \in {0, Hours}

LEMMA SortTypesStep == ASSUME NamesInv, SortTypes, [Next]_vars PROVE SortTypes'
<1> USE DEF SortTypes, sortVars, loadVars
<1>1. CASE CompareNames
  BY <1>1 DEF CompareNames
<1>2. CASE OpenDir
  BY <1>2 DEF OpenDir
<1>3. CASE OpenFile \/ LoadTime \/ LoadData \/ LoadCount \/ LoadEnd
  BY <1>3 DEF OpenFile, LoadTime, LoadData, LoadCount, LoadEnd
<1>4. CASE UNCHANGED loadVars
  BY <1>4
<1>5. QED
  BY <1>1, <1>2, <1>3, <1>4 DEF Next, RecordData, RecordTime, RecordCount, ShowTime, ShowData, RefreshPage, LastPage,
     NextPage, ShowList, ShowCurve, CurveBack, CurveEnd, Touched, vars

(* A curve of an hour's points, each a value or the slot before the buffer. *)
LEMMA Points == ASSUME NEW n \in Nat, NEW f \in [1 .. n -> Int] PROVE Len(f) = n
OBVIOUS

LEMMA CurveTypesStep ==
  ASSUME ShapeInv, \A i \in 0 .. cnt - 1 : hist[i].time \in Seq(Nat) /\ Timed(hist[i]) /\ hist[i].data \in Int,
         CurveTypes, [Next]_vars
  PROVE  CurveTypes'
<1> USE DEF CurveTypes
<1>0. /\ cnt \in Nat /\ cnt' \in {cnt, cnt + 1} /\ Hours \in Nat \ {0} /\ MinCurve \in Nat
      /\ walk.i \in 0 .. cnt'
  BY CountedStays, SizeAssumption, SMTT(30) DEF ShapeInv
<1>1. \A i \in 0 .. cnt - 1 : Hour(hist[i]) \in Int
  <2>1. ASSUME NEW i \in 0 .. cnt - 1 PROVE Hour(hist[i]) \in Int
    BY TimeParts DEF Timed, Hour
  <2>2. QED
    BY <2>1
<1>2. CASE ShowCurve
  <2>1. /\ cnt - MinCurve > 0 /\ lcd' = "curve" /\ curve' = curve
        /\ walk' = [day |-> Date(hist[cnt - 1]), hour |-> Hours, next |-> Hour(hist[cnt - 1]), i |-> 0, buf |-> <<>>]
    BY <1>2 DEF ShowCurve, Touched
  <2>2. cnt - 1 \in 0 .. cnt - 1 /\ 0 \in 0 .. cnt'
    BY <1>0, <2>1
  <2>3. QED
    BY <1>0, <1>1, <2>1, <2>2
<1>3. CASE CurveBack
  <2>1. Slot \in 0 .. cnt - 1 /\ walk.i + 1 \in 0 .. cnt'
    BY <1>0, <1>3 DEF CurveBack, InWalk, Slot
  <2> DEFINE v == hist[Slot].data
             b == Fill(walk, v)
             h == IF Slot > 0 THEN Hour(hist[Slot - 1]) ELSE 0
  <2>2. b \in Seq(Int) /\ Len(b) <= Hours
    <3>1. v \in Int
      BY <2>1
    <3>2. QED
      BY <3>1, FillIs
  <2>3. h \in Int
    <3>1. Slot > 0 => Slot - 1 \in 0 .. cnt - 1
      BY <1>0, <2>1
    <3>2. QED
      BY <1>1, <3>1
  <2>4. /\ walk' = [walk EXCEPT !.buf = b, !.hour = walk.next, !.i = walk.i + 1, !.next = h]
        /\ UNCHANGED <<lcd, curve>>
    BY <1>3 DEF CurveBack
  <2> HIDE DEF b, h
  <2>5. /\ walk'.buf = b /\ walk'.hour = walk.next /\ walk'.i = walk.i + 1 /\ walk'.next = h
        /\ DOMAIN walk' = DOMAIN walk
    BY <2>4
  <2>6. QED
    BY <2>1, <2>2, <2>3, <2>4, <2>5
<1>4. CASE CurveEnd
  <2> DEFINE last == IF walk.buf = <<>> THEN None ELSE walk.buf[Len(walk.buf)]
  <2>1. last \in Int
    BY DEF None
  <2>2. /\ curve' = [k \in 1 .. Hours |-> IF k <= Len(walk.buf) THEN walk.buf[k] ELSE last]
        /\ lcd' = "idle" /\ walk' = walk
    BY <1>4 DEF CurveEnd
  <2>3. \A k \in 1 .. Hours : k <= Len(walk.buf) => walk.buf[k] \in Int
    OBVIOUS
  <2>4. curve' \in [1 .. Hours -> Int]
    BY <2>1, <2>2, <2>3
  <2>5. Len(curve') = Hours
    BY <1>0, <2>4, Points
  <2>6. QED
    BY <1>0, <2>2, <2>5
<1>5. CASE UNCHANGED <<walk, curve>> /\ lcd' \in {"idle", "time", "data", "curve"}
  BY <1>0, <1>5
<1>6. QED
  BY <1>2, <1>3, <1>4, <1>5 DEF Next, OpenDir, CompareNames, OpenFile, LoadTime, LoadData, LoadCount, LoadEnd,
     RecordData, RecordTime, RecordCount, ShowTime, ShowData, RefreshPage, LastPage, NextPage, ShowList, Touched,
     StartPage, vars, lcdVars

(* Every variable holds the kind of value the declarations say, for any files,
   messages and sizes: the counter stays within the array if it has room, the
   walk of a curve within what is counted, and its points within the day.    *)
THEOREM TypeCorrect == ASSUME HasRoom PROVE Spec => []TypeOK
<1>1. Init => SortTypes /\ CurveTypes
  <2> SUFFICES ASSUME Init PROVE SortTypes /\ CurveTypes
    OBVIOUS
  <2>1. SortTypes
    <3>1. done = FALSE
      BY DEF Init
    <3>2. pass \in 1 .. 3 /\ left = 1 /\ right = 2
      BY DEF Init
    <3>3. QED
      BY <3>1, <3>2 DEF SortTypes
  <2>2. DOMAIN walk = {"day", "hour", "next", "i", "buf"} /\ walk.hour = 0 /\ walk.next = 0 /\ walk.i = 0 /\ walk.buf = <<>>
    BY DEF Init
  <2>3. <<>> \in Seq(Int) /\ Len(<<>>) = 0
    OBVIOUS
  <2>4. lcd = "idle" /\ curve = <<>> /\ cnt = 0
    BY DEF Init
  <2>5. CurveTypes
    BY <2>2, <2>3, <2>4, SizeAssumption DEF CurveTypes
  <2>6. QED
    BY <2>1, <2>5
<1>2. RecordsInv /\ SortTypes /\ CurveTypes /\ [Next]_vars => (SortTypes /\ CurveTypes)'
  BY SortTypesStep, CurveTypesStep, CountedTimes DEF RecordsInv
<1>3. RecordsInv /\ SortTypes /\ CurveTypes => TypeOK
  <2> SUFFICES ASSUME RecordsInv, SortTypes, CurveTypes PROVE TypeOK
    OBVIOUS
  <2> USE DEF RecordsInv
  <2>1. names \in Seq(DOMAIN Files) /\ pass \in 1 .. 3 /\ {left, right} \subseteq 1 .. Len(names) + 2
    <3>1. names \in Seq(DOMAIN Files) /\ Len(names) \in Nat
      BY DEF NamesInv
    <3>2. CASE load = "sort"
      BY <3>1, <3>2 DEF NamesInv
    <3>3. CASE load # "sort"
      BY <3>1, <3>3 DEF SortTypes
    <3>4. QED
      BY <3>1, <3>2, <3>3 DEF SortTypes
  <2>2. cnt \in 0 .. Slots
    <3>1. Cardinality(Lines(Range(names))) \in Nat /\ Len(News) \in Nat /\ Len(todo) \in Nat
      <4>1. Range(names) \in SUBSET DOMAIN Files
        BY <2>1 DEF Range
      <4>2. QED
        BY <4>1, LinesAreFinite, RecordAssumption DEF DataShape
    <3>2. QED
      BY <3>1, SizeAssumption DEF DataShape, Loading
  <2>3. load \in {"dir", "sort", "time", "data", "count", "done", "failed"} /\ todo \in Seq(FileRecords) /\ done \in BOOLEAN
    BY DEF DataShape, SortTypes
  <2>4. DOMAIN hist = 0 .. Slots - 1 /\ cap \in {"idle", "time", "count"} /\ saved \in 0 .. Len(News)
    BY DEF DataShape
  <2>5. begin \in Nat /\ row \in 1 .. Page /\ from \in 0 .. cnt /\ DOMAIN screen = 1 .. Page
    BY DEF ShapeInv
  <2>6. /\ lcd \in {"idle", "time", "data", "curve"} /\ Len(curve) \in {0, Hours}
        /\ walk.i \in 0 .. cnt + 1 /\ Len(walk.buf) <= Hours
    BY <2>2, SizeAssumption DEF CurveTypes
  <2>7. QED
    BY <2>1, <2>2, <2>3, <2>4, <2>5, <2>6 DEF TypeOK
<1>4. QED
  BY <1>1, <1>2, <1>3, RecordsAlways, PTL DEF Spec
=============================================================================
