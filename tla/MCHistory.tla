----------------------------- MODULE MCHistory -----------------------------
(***************************************************************************)
(* Instances of History for TLC: days around the turn of a year and of a   *)
(* month, a day of four hours, a page of two records.                      *)
(***************************************************************************)
EXTENDS History, TLC

Rec(y, m, d, h, min, v) == [time |-> <<y, m, d, h, min>>, data |-> v]

FourDays ==
  (<<15, 12, 31>> :> <<Rec(15, 12, 31, 1, 0, 1)>>) @@
  (<<16, 1, 1>>   :> <<Rec(16, 1, 1, 0, 0, None), Rec(16, 1, 1, 2, 0, 2)>>) @@
  (<<16, 1, 3>>   :> <<Rec(16, 1, 3, 3, 0, 3)>>) @@
  (<<16, 2, 2>>   :> <<Rec(16, 2, 2, 0, 0, 4), Rec(16, 2, 2, 1, 10, 5)>>)

MoreRecords ==
  <<Rec(16, 2, 2, 1, 20, 6), Rec(16, 2, 2, 2, 0, None),
    Rec(16, 2, 3, 2, 0, 7), Rec(16, 2, 3, 2, 10, 8), Rec(16, 2, 3, 3, 0, 9)>>
============================================================================
