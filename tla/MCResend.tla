------------------------------ MODULE MCResend ------------------------------
(***************************************************************************)
(* Instances of Resend for TLC.  The files stand around the turn of a year, *)
(* the end of a February and the end of a month, one or two lines each.    *)
(***************************************************************************)
EXTENDS Resend, TLC

SomeFiles ==
  (<<2015, 12, 30>> :> <<10>>) @@ (<<2015, 12, 31>> :> <<10, 700>>) @@
  (<<2016, 1, 1>> :> <<30>>) @@ (<<2016, 1, 2>> :> <<0, 600>>) @@ (<<2016, 1, 3>> :> <<5>>) @@
  (<<2016, 3, 1>> :> <<100>>) @@ (<<2016, 4, 30>> :> <<100, 200>>) @@
  (<<2016, 5, 3>> :> <<100>>)

Asks(b, e, t) == [begin |-> b, end |-> e, until |-> t]

(* Ranges within a month, over the end of a month, and over the end of a year,
   that end before, at and after a line.                                    *)
InnerRanges ==
  {Asks(b, e, t) : b \in {<<2015, 12, 30>>, <<2015, 12, 31>>, <<2016, 1, 1>>},
                    e \in {<<2016, 1, 1>>, <<2016, 1, 2>>}, t \in {30, 599, 600}}
  \cup {Asks(<<2016, 3, 1>>, <<2016, 5, 3>>, t) : t \in {99, 100}}
  \cup {Asks(<<2015, 12, 29>>, <<2015, 12, 30>>, 20)}

(* A range that ends with the last day of a month. *)
MonthEnd == {Asks(<<2016, 4, 29>>, <<2016, 4, 30>>, 1439)}
============================================================================
