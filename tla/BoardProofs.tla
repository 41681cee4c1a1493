---------------------------- MODULE BoardProofs ----------------------------
(***************************************************************************)
(* Proofs about Board, for any interfaces, rules of types and bounds on    *)
(* questions, visits, edits, frames and losses.                            *)
(***************************************************************************)
EXTENDS Board, FiniteSetTheorems, TLAPS

DownFrames == {Ask} \cup {Set(t) : t \in Table} \cup [kind : {"zero"}, of : Gases, no : Nat, sure : BOOLEAN]
UpFrames   == {NoFrame} \cup {Reading(g) : g \in Gases} \cup {Answer(t) : t \in Table}

TypeInv ==
  /\ page \in {"test", "select", "types", "zero"} /\ pc \in {"idle", "ask"}
  /\ mode \in {"normal", "zero"} /\ cpc \in {"idle", "mode", "write"} /\ word \in Slots
  /\ mem \in Table /\ shown \in Table /\ table \in Table
  /\ no \in Slots /\ cur \in Words
  /\ down \in Seq(DownFrames) /\ up \in Seq(UpFrames) /\ frame \in UpFrames
  /\ cpc = "write" => frame.kind = "table"
  /\ {edits, since} \subseteq SUBSET Slots /\ heard \in {"no", "yes", "late"} /\ sure \in BOOLEAN

(* Where the display process waits, tunes zero and has edits. *)
PlaceInv ==
  /\ pc = "ask" => page \in {"select", "zero"} /\ mode = "normal"
  /\ mode = "zero" => page = "zero"
  /\ heard # "no" => pc = "ask"
  /\ cpc # "write" => word = 0
  /\ page \in {"test", "zero"} \/ pc = "ask" => edits = {}

(***************************************************************************)
(* A question that was put with nothing left to come is answered with the  *)
(* table the board has: a table sent before it is taken before it.         *)
(***************************************************************************)
NoSet == \A j \in DOMAIN down : down[j].kind # "set"

AskInv == pc = "ask" /\ heard # "late" =>
  /\ \A i, j \in DOMAIN down : down[i].kind = "ask" /\ down[j].kind = "set" => j < i
  /\ \A j \in DOMAIN up : up[j].kind = "table" => NoSet /\ up[j].table = table
  /\ cpc = "write" => NoSet /\ frame.table = table /\ \A m \in 0 .. word - 1 : mem[m] = table[m]
  /\ heard = "yes" => NoSet /\ mem = table

(* Nothing is to come, by the places in the queues. *)
NoneComes == /\ \A j \in DOMAIN down : down[j].kind # "ask"
             /\ cpc # "write"
             /\ \A j \in DOMAIN up : up[j].kind # "table"

(* Once it is answered, the memory differs from it by the user's edits only. *)
Edited == \A n \in Slots : IF n \in edits THEN Allowed(n, mem[n]) ELSE mem[n] = table[n]

SureInv == sure /\ pc = "idle" /\ page # "test" =>
  /\ NoneComes /\ NoSet
  /\ page \in {"select", "types"} => mem = shown /\ Edited
  /\ page = "zero" => mem = table

(* What the page shows is in the memory, but for what CAP has written since. *)
ShownInv == pc = "idle" /\ page \in {"select", "types"} =>
              \A n \in Slots : n \in since \/ mem[n] = shown[n]

(* And what is sent while zero is tuned is right until another table comes after it. *)
Right(g, n) == PluggedIn(g, n) \/ (n = Top + 1 /\ ~\E m \in Slots : PluggedIn(g, m))

ZeroInv == \A j \in DOMAIN down : down[j].kind = "zero" /\ down[j].sure =>
  Right(down[j].of, down[j].no - 1) /\ \A i \in DOMAIN down : i < j => down[i].kind # "set"

BoardInv == TypeInv /\ PlaceInv /\ AskInv /\ SureInv /\ ShownInv /\ ZeroInv
----------------------------------------------------------------------------
(* Sequences. *)

LEMMA TailFacts ==
  ASSUME NEW S, NEW s \in Seq(S), s # <<>>
  PROVE  /\ Tail(s) \in Seq(S) /\ Head(s) \in S /\ Head(s) = s[1] /\ 1 \in DOMAIN s
         /\ \A j \in DOMAIN Tail(s) : j \in Nat \ {0} /\ j + 1 \in DOMAIN s /\ Tail(s)[j] = s[j + 1]
OBVIOUS

LEMMA AppendFacts ==
  ASSUME NEW S, NEW s \in Seq(S), NEW e \in S
  PROVE  /\ Append(s, e) \in Seq(S) /\ Append(s, e)[Len(s) + 1] = e
         /\ \A j \in DOMAIN Append(s, e) :
              \/ j \in DOMAIN s /\ j \in Nat /\ j < Len(s) + 1 /\ Append(s, e)[j] = s[j]
              \/ j = Len(s) + 1 /\ Append(s, e)[j] = e
OBVIOUS

LEMMA Kinds ==
  /\ \A f \in DownFrames : /\ f.kind \in {"ask", "set", "zero"}
                           /\ f.kind = "ask" => f = Ask
                           /\ f.kind = "set" => f.table \in Table
                           /\ f.kind = "zero" => f.of \in Gases /\ f.no \in Nat
  /\ \A f \in UpFrames : /\ f.kind \in {"none", "reading", "table"}
                         /\ f.kind = "table" => f.table \in Table
                         /\ f.kind = "reading" => f.of \in Gases
  /\ \A t \in Table : /\ Set(t) \in DownFrames /\ Set(t).kind = "set" /\ Set(t).table = t
                      /\ Answer(t) \in UpFrames /\ Answer(t).kind = "table" /\ Answer(t).table = t
  /\ Ask \in DownFrames /\ Ask.kind = "ask" /\ NoFrame \in UpFrames /\ NoFrame.kind = "none"
  /\ \A g \in Gases : Reading(g) \in UpFrames /\ Reading(g).kind = "reading"
<1> USE DEF DownFrames, UpFrames, Ask, Set, Reading, NoFrame, Answer
<1>1. ASSUME NEW f \in DownFrames
      PROVE  /\ f.kind \in {"ask", "set", "zero"}
             /\ f.kind = "ask" => f = Ask
             /\ f.kind = "set" => f.table \in Table
             /\ f.kind = "zero" => f.of \in Gases /\ f.no \in Nat
  <2>1. CASE f = Ask
    BY <2>1
  <2>2. CASE f \in {Set(t) : t \in Table}
    BY <2>2
  <2>3. CASE f \in [kind : {"zero"}, of : Gases, no : Nat, sure : BOOLEAN]
    BY <2>3
  <2>4. QED
    BY <2>1, <2>2, <2>3
<1>2. ASSUME NEW f \in UpFrames
      PROVE  /\ f.kind \in {"none", "reading", "table"}
             /\ f.kind = "table" => f.table \in Table
             /\ f.kind = "reading" => f.of \in Gases
  <2>1. CASE f = NoFrame
    BY <2>1
  <2>2. CASE f \in {Reading(g) : g \in Gases}
    BY <2>2
  <2>3. CASE f \in {Answer(t) : t \in Table}
    BY <2>3
  <2>4. QED
    BY <2>1, <2>2, <2>3
<1>3. \A t \in Table : Set(t) \in DownFrames /\ Set(t).kind = "set" /\ Set(t).table = t
  OBVIOUS
<1>4. \A t \in Table : Answer(t) \in UpFrames /\ Answer(t).kind = "table" /\ Answer(t).table = t
  OBVIOUS
<1>5. Ask \in DownFrames /\ Ask.kind = "ask" /\ NoFrame \in UpFrames /\ NoFrame.kind = "none"
  OBVIOUS
<1>6. \A g \in Gases : Reading(g) \in UpFrames /\ Reading(g).kind = "reading"
  OBVIOUS
<1>7. QED
  BY <1>1, <1>2, <1>3, <1>4, <1>5, <1>6

LEMMA Coming == ASSUME TypeInv PROVE ToCome <=> ~NoneComes
<1>1. \A j \in DOMAIN down : down[j] \in DownFrames
  BY DEF TypeInv
<1>2. Ask \in Range(down) <=> \E j \in DOMAIN down : down[j].kind = "ask"
  BY <1>1, Kinds DEF Range
<1>3. (\E f \in Range(up) : f.kind = "table") <=> \E j \in DOMAIN up : up[j].kind = "table"
  BY DEF Range
<1>4. QED
  BY <1>2, <1>3 DEF ToCome, NoneComes

(* The first interface with such a sensor is one, if there is one. *)
LEMMA FirstFound ==
  ASSUME NEW g, NEW n \in Slots, mem[n] = g
  PROVE  Interface(g) \in Slots /\ mem[Interface(g)] = g
<1> DEFINE T == {0 .. m : m \in {k \in Slots : mem[k] = g}}
<1>1. T \subseteq FiniteSubsetsOf(Slots) /\ T # {}
  <2>1. ASSUME NEW m \in Slots PROVE 0 .. m \in FiniteSubsetsOf(Slots)
    <3>1. IsFiniteSet(0 .. m)
      BY <2>1, TopAssumption, FS_Interval DEF Slots
    <3>2. 0 .. m \subseteq Slots
      BY <2>1, TopAssumption DEF Slots
    <3>3. QED
      BY <3>1, <3>2 DEF FiniteSubsetsOf
  <2>2. QED
    BY <2>1
<1>2. IsWellFoundedOn(StrictSubsetOrdering(Slots), FiniteSubsetsOf(Slots))
  BY FS_StrictSubsetOrderingWellFounded
<1>3. PICK x \in T : \A y \in T : ~(<<y, x>> \in StrictSubsetOrdering(Slots))
  BY <1>1, <1>2, WFMin
<1>4. PICK m \in Slots : mem[m] = g /\ x = 0 .. m
  BY <1>3
<1>5. ASSUME NEW k \in 0 .. m - 1, mem[k] = g PROVE FALSE
  <2>1. k \in Slots /\ 0 .. k \in T
    BY <1>4, <1>5, TopAssumption DEF Slots
  <2>2. 0 .. k \subseteq 0 .. m /\ 0 .. k # 0 .. m /\ 0 .. m \subseteq Slots /\ 0 .. k \subseteq Slots
    <3>1. m \in 0 .. m /\ m \notin 0 .. k
      BY <1>4, <1>5, TopAssumption DEF Slots
    <3>2. QED
      BY <1>4, <1>5, <3>1, TopAssumption DEF Slots
  <2>3. <<0 .. k, x>> \in StrictSubsetOrdering(Slots)
    BY <1>4, <2>2 DEF StrictSubsetOrdering
  <2>4. QED
    BY <1>3, <2>1, <2>3
<1>6. \E k \in Slots : mem[k] = g /\ \A j \in 0 .. k - 1 : mem[j] # g
  BY <1>4, <1>5
<1>7. QED
  BY <1>6 DEF Interface
----------------------------------------------------------------------------
(* Types and places. *)

LEMMA TypeInit == Init => TypeInv /\ PlaceInv
<1> SUFFICES ASSUME Init PROVE TypeInv /\ PlaceInv
  OBVIOUS
<1>1. [n \in Slots |-> IF n = 0 THEN Unset ELSE "none"] \in Table /\ Blank \in Table /\ table \in Table
  BY DEF Init, Table, Blank, Words, Types, Gases, Tables
<1>2. 0 \in Slots /\ "none" \in Words
  BY TopAssumption DEF Slots, Words, Types
<1>3. NoFrame \in UpFrames
  BY DEF UpFrames
<1>4. mem \in Table /\ shown \in Table /\ table \in Table
  BY <1>1 DEF Init
<1>5. TypeInv
  BY <1>2, <1>3, <1>4 DEF Init, TypeInv
<1>6. PlaceInv
  BY DEF Init, PlaceInv
<1>7. QED
  BY <1>5, <1>6

(* What a handler, the CAP process and the board write. *)
LEMMA Sent ==
  ASSUME TypeInv
  PROVE  /\ Append(down, Ask) \in Seq(DownFrames)
         /\ Append(down, Set(mem)) \in Seq(DownFrames)
         /\ \A g \in Gases : Append(up, Reading(g)) \in Seq(UpFrames)
         /\ Append(up, Answer(table)) \in Seq(UpFrames)
BY Kinds, AppendFacts DEF TypeInv

LEMMA InterfaceNat == ASSUME TypeInv, NEW g PROVE Interface(g) \in Nat
<1>1. CASE \E n \in Slots : mem[n] = g
  BY <1>1, FirstFound, TopAssumption DEF Slots
<1>2. CASE ~\E n \in Slots : mem[n] = g
  BY <1>2, TopAssumption DEF Interface
<1>3. QED
  BY <1>1, <1>2

LEMMA HandleTypes == ASSUME TypeInv, PlaceInv, Handle PROVE TypeInv' /\ PlaceInv'
<1> USE DEF TypeInv, PlaceInv, display, shared, cap, history, line, On, Write
<1>0. 0 \in Slots /\ {"none", Unset} \subseteq Words /\ Types \subseteq Words /\ Blank \in Table
  BY TopAssumption DEF Slots, Words, Types, Blank, Table
<1>1. CASE InterfaceSet
  BY <1>0, <1>1, Sent DEF InterfaceSet, Question, Table
<1>2. CASE TunZero
  BY <1>2, Sent DEF TunZero, Question
<1>3. CASE AskAgain
  BY <1>3, Sent DEF AskAgain
<1>4. CASE AskEnds
  BY <1>4 DEF AskEnds
<1>5. CASE Choose
  BY <1>5 DEF Choose, Table
<1>6. CASE SetType
  BY <1>0, <1>6 DEF SetType
<1>7. CASE SetReturn
  <2>1. mem' \in Table /\ edits' \subseteq Slots
    BY <1>7 DEF SetReturn, Store, Table
  <2>2. QED
    BY <1>0, <1>7, <2>1 DEF SetReturn, TypesLeft
<1>8. CASE Ok
  BY <1>0, <1>8, Sent DEF Ok, SelectLeft
<1>9. CASE Return
  BY <1>0, <1>9 DEF Return, SelectLeft
<1>10. CASE ZeroBegin \/ ZeroStop
  BY <1>10 DEF ZeroBegin, ZeroStop
<1>11. QED
  BY <1>1, <1>2, <1>3, <1>4, <1>5, <1>6, <1>7, <1>8, <1>9, <1>10 DEF Handle

LEMMA TypeStep == ASSUME TypeInv, PlaceInv, [Next]_vars PROVE TypeInv' /\ PlaceInv'
<1> USE DEF TypeInv, PlaceInv, display, shared, cap, history, line
<1>0. 0 \in Slots
  BY TopAssumption DEF Slots
<1>1. CASE Handle
  BY <1>1, HandleTypes
<1>2. CASE TakeFrame
  <2>1. Tail(up) \in Seq(UpFrames) /\ Head(up) \in UpFrames
    BY <1>2, TailFacts DEF TakeFrame
  <2>2. QED
    BY <1>2, <2>1 DEF TakeFrame
<1>3. CASE WriteWord
  <2>1. frame.table \in Table /\ NoFrame \in UpFrames
    BY <1>3, Kinds DEF WriteWord
  <2>2. mem' \in Table
    BY <1>3, <2>1 DEF WriteWord, Table
  <2>3. word < Top => word + 1 \in Slots
    BY TopAssumption DEF Slots
  <2>4. CASE word < Top
    BY <1>3, <2>2, <2>3, <2>4 DEF WriteWord
  <2>5. CASE ~(word < Top)
    BY <1>0, <1>3, <2>1, <2>2, <2>5 DEF WriteWord
  <2>6. QED
    BY <2>4, <2>5
<1>4. CASE Dispatch
  <2>1. frame.kind = "reading" => Zero(frame.of, Interface(frame.of) + 1) \in DownFrames
    BY InterfaceNat, Kinds DEF Zero, DownFrames
  <2>2. down' \in Seq(DownFrames)
    BY <1>4, <2>1, SMTT(30) DEF Dispatch, Write
  <2>3. QED
    BY <1>4, <2>2, Kinds DEF Dispatch
<1>5. CASE Board
  <2>1. Tail(down) \in Seq(DownFrames) /\ Head(down) \in DownFrames
    BY <1>5, TailFacts DEF Board
  <2>2. Head(down).kind = "set" => Head(down).table \in Table
    BY <2>1, Kinds
  <2>3. up' \in Seq(UpFrames) /\ table' \in Table
    BY <1>5, <2>2, Sent DEF Board, Lose
  <2>4. QED
    BY <1>5, <2>1, <2>3 DEF Board
<1>6. CASE BoardReads
  BY <1>6, Sent DEF BoardReads
<1>7. CASE UNCHANGED vars
  BY <1>7 DEF vars
<1>8. QED
  BY <1>1, <1>2, <1>3, <1>4, <1>5, <1>6, <1>7 DEF Next
----------------------------------------------------------------------------
(***************************************************************************)
(* The table in the memory and the tables on their way, action by action.  *)
(***************************************************************************)
DataInv == AskInv /\ SureInv /\ ZeroInv

LEMMA DataInit == Init => DataInv
BY DEF Init, DataInv, AskInv, SureInv, ZeroInv

(* A question goes after all that has been sent. *)
LEMMA QuestionData ==
  ASSUME TypeInv, PlaceInv, DataInv, InterfaceSet \/ TunZero \/ AskAgain
  PROVE  DataInv'
<1> USE DEF DataInv, display, shared, cap, history, line, On, Write
<1>1. /\ pc' = "ask" /\ down' = Append(down, Ask) /\ UNCHANGED <<up, cpc, frame, word, table>>
  BY DEF InterfaceSet, TunZero, AskAgain, Question
<1>2. \A j \in DOMAIN down' : \/ j \in DOMAIN down /\ j < Len(down) + 1 /\ down'[j] = down[j]
                              \/ j = Len(down) + 1 /\ down'[j].kind = "ask"
  BY <1>1, Kinds, AppendFacts DEF TypeInv
<1>3. SureInv'
  BY <1>1 DEF SureInv
<1>4. ZeroInv'
  <2>1. \A g, n : Right(g, n)' <=> Right(g, n)
    BY <1>1 DEF Right, PluggedIn
  <2>2. QED
    BY <1>2, <2>1 DEF ZeroInv
<1>5. NoSet => NoSet'
  BY <1>2 DEF NoSet
<1>6. AskInv'
  <2>1. CASE InterfaceSet \/ TunZero
    <3>1. heard' # "late" => NoneComes
      BY <2>1, Coming DEF InterfaceSet, TunZero, Question
    <3>2. heard' # "yes"
      BY <2>1 DEF InterfaceSet, TunZero, Question
    <3>3. QED
      BY <1>1, <1>2, <3>1, <3>2 DEF AskInv, NoneComes
  <2>2. CASE AskAgain
    <3>1. pc = "ask" /\ UNCHANGED <<mem, heard>>
      BY <2>2 DEF AskAgain
    <3>2. QED
      BY <1>1, <1>2, <1>5, <3>1 DEF AskInv
  <2>3. QED
    BY <2>1, <2>2
<1>7. QED
  BY <1>3, <1>4, <1>6

(* The keys that send nothing to the board. *)
LEMMA KeyData ==
  ASSUME TypeInv, PlaceInv, DataInv,
         AskEnds \/ Choose \/ SetType \/ SetReturn \/ Return \/ ZeroBegin \/ ZeroStop
  PROVE  DataInv'
<1> USE DEF DataInv, display, shared, cap, history, line, On
<1>1. pc' = "idle" /\ UNCHANGED <<up, down, cpc, frame, word, table>>
  BY DEF AskEnds, Choose, SetType, SetReturn, Return, ZeroBegin, ZeroStop
<1>2. AskInv'
  BY <1>1 DEF AskInv
<1>3. ZeroInv'
  BY <1>1 DEF ZeroInv, Right, PluggedIn
<1>4. (NoneComes /\ NoSet) <=> (NoneComes /\ NoSet)'
  BY <1>1 DEF NoneComes, NoSet
<1>5. SureInv'
  <2>1. CASE AskEnds
    <3>1. /\ pc = "ask" /\ page' = page /\ mem' = mem /\ edits' = edits
          /\ page = "select" => shown' = mem
          /\ sure' => heard = "yes" /\ NoneComes
      BY <2>1, Coming DEF AskEnds
    <3>2. edits = {} /\ page \in {"select", "zero"}
      BY <3>1 DEF PlaceInv
    <3>3. sure' => NoSet /\ mem = table
      BY <3>1 DEF AskInv
    <3>4. QED
      BY <1>1, <1>4, <3>1, <3>2, <3>3 DEF SureInv, Edited
  <2>2. CASE Choose \/ SetType
    <3>1. /\ pc = "idle" /\ page \in {"select", "types"} /\ page' = "types"
          /\ UNCHANGED <<mem, shown, edits, sure>>
      BY <2>2 DEF Choose, SetType
    <3>2. Edited => Edited'
      BY <1>1, <3>1 DEF Edited
    <3>3. QED
      BY <1>4, <3>1, <3>2 DEF SureInv
  <2>3. CASE SetReturn
    <3>1. pc = "idle" /\ page = "types" /\ page' = "select" /\ sure' = sure
      BY <2>3 DEF SetReturn
    <3>2. mem = shown => mem' = shown'
      BY <2>3 DEF SetReturn, Store, Allowed
    <3>3. Edited => Edited'
      <4>1. CASE Allowed(no, cur)
        <5>1. mem' = [mem EXCEPT ![no] = cur] /\ edits' = edits \cup {no} /\ table' = table
          BY <1>1, <2>3, <4>1 DEF SetReturn, Store
        <5>2. \A n \in Slots : mem'[n] = IF n = no THEN cur ELSE mem[n]
          BY <5>1 DEF TypeInv, Table
        <5>3. QED
          BY <4>1, <5>1, <5>2 DEF Edited
      <4>2. CASE ~Allowed(no, cur)
        BY <1>1, <2>3, <4>2 DEF SetReturn, Edited
      <4>3. QED
        BY <4>1, <4>2
    <3>4. QED
      BY <1>4, <3>1, <3>2, <3>3 DEF SureInv
  <2>4. CASE Return \/ ZeroBegin \/ ZeroStop
    <3>1. \/ page' = "test"
          \/ pc = "idle" /\ page = "zero" /\ page' = "zero" /\ UNCHANGED <<mem, sure>>
      BY <2>4 DEF Return, ZeroBegin, ZeroStop
    <3>2. QED
      BY <1>1, <1>4, <3>1 DEF SureInv
  <2>5. QED
    BY <2>1, <2>2, <2>3, <2>4
<1>6. QED
  BY <1>2, <1>3, <1>5

(* A table that is sent leaves the page that could send it. *)
LEMMA OkData == ASSUME TypeInv, PlaceInv, DataInv, Ok PROVE DataInv'
<1> USE DEF DataInv, display, cap, history, line, On, Write
<1>1. pc' = "idle" /\ page' = "test" /\ down' = Append(down, Set(mem)) /\ table' = table
  BY DEF Ok
<1>2. /\ Len(down) \in Nat
      /\ \A j \in DOMAIN down' : \/ j \in DOMAIN down /\ j \in Nat /\ j < Len(down) + 1 /\ down'[j] = down[j]
                                 \/ j = Len(down) + 1 /\ down'[j].kind = "set"
  BY <1>1, Kinds, AppendFacts DEF TypeInv
<1>3. ZeroInv'
  <2>1. \A g, n : Right(g, n)' <=> Right(g, n)
    BY <1>1 DEF Right, PluggedIn
  <2>2. QED
    BY <1>2, <2>1 DEF ZeroInv
<1>4. QED
  BY <1>1, <1>3 DEF AskInv, SureInv
(* The CAP process writes what it was sent, and answers a reading with what the
   memory says.                                                             *)
LEMMA CapData ==
  ASSUME TypeInv, PlaceInv, DataInv, TakeFrame \/ WriteWord \/ Dispatch
  PROVE  DataInv'
<1> USE DEF DataInv, display, shared, line
<1>1. /\ table' = table /\ page' = page /\ pc' = pc /\ shown' = shown /\ edits' = edits /\ sure' = sure
      /\ \A g, n : Right(g, n)' <=> Right(g, n)
  BY DEF TakeFrame, WriteWord, Dispatch, history, Right, PluggedIn
<1>2. CASE TakeFrame
  <2>1. /\ up # <<>> /\ up' = Tail(up) /\ down' = down /\ mem' = mem /\ heard' = heard /\ cpc # "write" /\ word' = word
        /\ cpc' = "write" => frame' = Head(up) /\ Head(up).kind = "table"
    BY <1>2 DEF TakeFrame, history
  <2>2. /\ Head(up) = up[1] /\ 1 \in DOMAIN up
        /\ \A j \in DOMAIN Tail(up) : j + 1 \in DOMAIN up /\ Tail(up)[j] = up[j + 1]
    BY <2>1, TailFacts DEF TypeInv
  <2>3. word = 0
    BY <2>1 DEF PlaceInv
  <2>4. AskInv'
    BY <1>1, <2>1, <2>2, <2>3 DEF AskInv, NoSet
  <2>5. SureInv'
    BY <1>1, <2>1, <2>2 DEF SureInv, NoneComes, NoSet, Edited
  <2>6. ZeroInv'
    BY <1>1, <2>1 DEF ZeroInv
  <2>7. QED
    BY <2>4, <2>5, <2>6
<1>3. CASE WriteWord
  <2>1. /\ cpc = "write" /\ up' = up /\ down' = down
        /\ mem' = [mem EXCEPT ![word] = frame.table[word]]
    BY <1>3 DEF WriteWord
  <2>2. SureInv'
    BY <1>1, <2>1 DEF SureInv, NoneComes
  <2>3. ZeroInv'
    BY <1>1, <2>1 DEF ZeroInv
  <2>4. ASSUME pc = "ask", heard' # "late"
        PROVE  heard # "late" /\ NoSet /\ frame.table = table
    BY <1>3, <2>1, <2>4 DEF WriteWord, AskInv, TypeInv
  <2>5. ASSUME pc = "ask", heard' # "late"
        PROVE  \A m \in 0 .. word : mem'[m] = table[m]
    BY <2>1, <2>4, <2>5, TopAssumption DEF AskInv, TypeInv, Table, Slots
  <2>6. ASSUME pc = "ask", heard' # "late", heard = "yes"
        PROVE  mem' = table
    BY <2>1, <2>4, <2>6 DEF AskInv, TypeInv, Table
  <2>7. ASSUME pc = "ask", heard' # "late", ~(word < Top)
        PROVE  mem' = table
    <3>1. word = Top /\ 0 .. word = Slots
      BY <2>7, TopAssumption DEF TypeInv, Slots
    <3>2. mem' = [n \in Slots |-> mem'[n]] /\ table = [n \in Slots |-> table[n]]
      BY <2>1 DEF TypeInv, Table
    <3>3. \A n \in Slots : mem'[n] = table[n]
      BY <2>5, <2>7, <3>1
    <3>4. QED
      BY <3>2, <3>3
  <2>8. AskInv'
    <3> SUFFICES ASSUME pc = "ask", heard' # "late" PROVE AskInv'
      BY <1>1 DEF AskInv
    <3>1. CASE word < Top
      BY <1>1, <1>3, <2>1, <2>4, <2>5, <2>6, <3>1, TopAssumption DEF WriteWord, AskInv, NoSet, TypeInv, Slots
    <3>2. CASE ~(word < Top)
      BY <1>1, <1>3, <2>1, <2>4, <2>7, <3>2 DEF WriteWord, AskInv, NoSet
    <3>3. QED
      BY <3>1, <3>2
  <2>9. QED
    BY <2>2, <2>3, <2>8
<1>4. CASE Dispatch
  <2> DEFINE g == frame.of
             z == Zero(g, Interface(g) + 1)
  <2>1. /\ cpc = "mode" /\ cpc' = "idle" /\ up' = up /\ mem' = mem /\ heard' = heard
        /\ \/ down' = down
           \/ mode = "zero" /\ frame.kind = "reading" /\ down' = Append(down, z)
    BY <1>4 DEF Dispatch, Write, history
  <2>2. CASE down' = down
    BY <1>1, <2>1, <2>2 DEF AskInv, SureInv, ZeroInv, NoneComes, NoSet, Edited
  <2>3. CASE mode = "zero" /\ frame.kind = "reading" /\ down' = Append(down, z)
    <3>1. pc = "idle" /\ page = "zero"
      BY <2>3 DEF PlaceInv, TypeInv
    <3>2. sure => mem = table /\ NoneComes /\ NoSet
      BY <3>1 DEF SureInv
    <3>3. sure => Right(g, Interface(g))
      <4>1. ASSUME NEW n \in Slots, mem[n] = g PROVE Interface(g) \in Slots /\ mem[Interface(g)] = g
        BY <4>1, FirstFound, TopAssumption
      <4>2. (~\E n \in Slots : mem[n] = g) => Interface(g) = Top + 1
        BY DEF Interface
      <4>3. QED
        BY <3>2, <4>1, <4>2 DEF Right, PluggedIn
    <3>4. z \in DownFrames /\ z.kind = "zero" /\ z.sure = sure /\ z.of = g /\ z.no - 1 = Interface(g)
      <4>1. g \in Gases /\ sure \in BOOLEAN
        BY <2>3, Kinds DEF TypeInv
      <4>2. Interface(g) \in Nat
        BY InterfaceNat
      <4>3. QED
        BY <4>1, <4>2 DEF Zero, DownFrames
    <3> HIDE DEF z
    <3>5. /\ Len(down) \in Nat
          /\ \A j \in DOMAIN down' : \/ j \in DOMAIN down /\ j \in Nat /\ j < Len(down) + 1 /\ down'[j] = down[j]
                                     \/ j = Len(down) + 1 /\ down'[j] = z
      BY <2>3, <3>4, AppendFacts DEF TypeInv
    <3>6. ZeroInv'
      <4> SUFFICES ASSUME NEW j \in DOMAIN down', down'[j].kind = "zero", down'[j].sure
                   PROVE  Right(down'[j].of, down'[j].no - 1) /\ \A i \in DOMAIN down' : i < j => down'[i].kind # "set"
        BY <1>1 DEF ZeroInv
      <4>1. CASE j \in DOMAIN down /\ j \in Nat /\ j < Len(down) + 1 /\ down'[j] = down[j]
        BY <3>5, <4>1 DEF ZeroInv
      <4>2. CASE j = Len(down) + 1 /\ down'[j] = z
        BY <3>2, <3>3, <3>4, <3>5, <4>2 DEF NoSet
      <4>3. QED
        BY <3>5, <4>1, <4>2
    <3>7. SureInv'
      BY <1>1, <2>1, <3>1, <3>2, <3>4, <3>5 DEF SureInv, NoneComes, NoSet
    <3>8. AskInv'
      BY <1>1, <3>1 DEF AskInv
    <3>9. QED
      BY <3>6, <3>7, <3>8
  <2>4. QED
    BY <2>1, <2>2, <2>3
<1>5. QED
  BY <1>2, <1>3, <1>4

(* The board takes the frames in their order, or the line loses them. *)
LEMMA BoardData == ASSUME TypeInv, PlaceInv, DataInv, Board \/ BoardReads PROVE DataInv'
<1> USE DEF DataInv, display, shared, cap, history
<1>1. UNCHANGED <<page, pc, shown, edits, sure, heard, mem, cpc, frame, word>>
  BY DEF Board, BoardReads
<1>2. CASE BoardReads
  <2>1. /\ down' = down /\ table' = table
        /\ \E g \in Gases : up' = Append(up, Reading(g))
    BY <1>2 DEF BoardReads
  <2>2. \A j \in DOMAIN up' : up'[j].kind = "table" => j \in DOMAIN up /\ up'[j] = up[j]
    BY <2>1, Kinds, AppendFacts DEF TypeInv
  <2>3. QED
    BY <1>1, <2>1, <2>2 DEF AskInv, SureInv, ZeroInv, NoneComes, NoSet, Edited, Right, PluggedIn
<1>3. CASE Board
  <2> DEFINE f == Head(down)
  <2>1. /\ down # <<>> /\ down' = Tail(down)
        /\ \/ f.kind = "ask" /\ up' = Append(up, Answer(table)) /\ table' = table
           \/ f.kind = "set" /\ up' = up
           \/ up' = up /\ table' = table
    BY <1>3 DEF Board, Lose
  <2>2. /\ f = down[1] /\ 1 \in DOMAIN down
        /\ \A j \in DOMAIN down' : j \in Nat \ {0} /\ j + 1 \in DOMAIN down /\ down'[j] = down[j + 1]
    BY <2>1, TailFacts DEF TypeInv
  <2> HIDE DEF f
  <2>3. NoSet => NoSet' /\ f.kind # "set"
    BY <2>2 DEF NoSet
  <2>4. ZeroInv'
    <3>1. ASSUME NEW j \in DOMAIN down', down'[j].kind = "zero", down'[j].sure
          PROVE  /\ table' = table /\ Right(down'[j].of, down'[j].no - 1)
                 /\ \A i \in DOMAIN down' : i < j => down'[i].kind # "set"
      <4>1. /\ Right(down'[j].of, down'[j].no - 1)
            /\ \A i \in DOMAIN down : i < j + 1 => down[i].kind # "set"
        BY <2>2, <3>1 DEF ZeroInv
      <4>2. QED
        BY <2>1, <2>2, <3>1, <4>1
    <3>2. table' = table => \A g, n : Right(g, n)' <=> Right(g, n)
      BY DEF Right, PluggedIn
    <3>3. QED
      BY <3>1, <3>2 DEF ZeroInv
  <2>5. CASE up' = up /\ table' = table
    <3>1. AskInv'
      BY <1>1, <2>2, <2>3, <2>5 DEF AskInv
    <3>2. SureInv'
      BY <1>1, <2>2, <2>3, <2>5 DEF SureInv, NoneComes, Edited
    <3>3. QED
      BY <2>4, <3>1, <3>2
  <2>6. CASE f.kind = "ask" /\ up' = Append(up, Answer(table)) /\ table' = table
    <3>1. \A j \in DOMAIN up' : \/ j \in DOMAIN up /\ up'[j] = up[j]
                                \/ up'[j].table = table
      BY <2>6, Kinds, AppendFacts DEF TypeInv
    <3>2. ASSUME pc = "ask", heard # "late" PROVE NoSet'
      BY <2>2, <2>6, <3>2 DEF AskInv, NoSet
    <3>3. AskInv'
      BY <1>1, <2>2, <2>3, <2>6, <3>1, <3>2 DEF AskInv
    <3>4. SureInv'
      BY <1>1, <2>2, <2>6 DEF SureInv, NoneComes
    <3>5. QED
      BY <2>4, <3>3, <3>4
  <2>7. CASE f.kind = "set" /\ up' = up
    <3>1. ~NoSet
      BY <2>3, <2>7
    <3>2. AskInv'
      BY <1>1, <2>2, <2>7, <3>1 DEF AskInv
    <3>3. SureInv'
      BY <1>1, <3>1 DEF SureInv
    <3>4. QED
      BY <2>4, <3>2, <3>3
  <2>8. QED
    BY <2>1, <2>5, <2>6, <2>7
<1>4. QED
  BY <1>2, <1>3

LEMMA BoardStep == TypeInv /\ PlaceInv /\ DataInv /\ [Next]_vars => DataInv'
<1> SUFFICES ASSUME TypeInv, PlaceInv, DataInv, [Next]_vars PROVE DataInv'
  OBVIOUS
<1>1. CASE UNCHANGED vars
  BY <1>1 DEF DataInv, AskInv, SureInv, ZeroInv, NoneComes, NoSet, Edited, Right, PluggedIn,
              vars, display, shared, cap, history, line
<1>2. QED
  BY <1>1, QuestionData, KeyData, OkData, CapData, BoardData DEF Next, Handle

(* The page differs from the memory only by what CAP has written since. *)
LEMMA ShownStep == ASSUME TypeInv, PlaceInv, ShownInv, [Next]_vars PROVE ShownInv'
<1> USE DEF ShownInv, On
<1>1. CASE WriteWord
  <2>1. /\ page' = page /\ pc' = pc /\ shown' = shown
        /\ \A n \in Slots : n # word => mem'[n] = mem[n]
        /\ page \in {"select", "types"} => since' = since \cup {word}
    BY <1>1 DEF WriteWord, display, TypeInv, Table
  <2>2. QED
    BY <2>1
<1>2. CASE SetReturn
  <2>1. CASE no # 0
    BY <1>2, <2>1 DEF SetReturn
  <2>2. CASE no = 0
    BY <1>2, <2>2 DEF SetReturn, Allowed
  <2>3. QED
    BY <2>1, <2>2
<1>3. CASE AskEnds
  BY <1>3 DEF AskEnds, shared, PlaceInv
<1>4. CASE Choose \/ SetType
  BY <1>4 DEF Choose, SetType, history
<1>5. CASE InterfaceSet \/ TunZero \/ AskAgain
  BY <1>5 DEF InterfaceSet, TunZero, AskAgain, Question
<1>6. CASE Ok \/ Return \/ ZeroBegin \/ ZeroStop
  BY <1>6 DEF Ok, Return, ZeroBegin, ZeroStop
<1>7. CASE TakeFrame \/ Dispatch
  BY <1>7 DEF TakeFrame, Dispatch, display, shared, history
<1>8. CASE Board \/ BoardReads \/ UNCHANGED vars
  BY <1>8 DEF Board, BoardReads, display, shared, history, vars
<1>9. QED
  BY <1>1, <1>2, <1>3, <1>4, <1>5, <1>6, <1>7, <1>8 DEF Next, Handle

LEMMA BoardAlways == Spec => [](TypeInv /\ PlaceInv /\ DataInv /\ ShownInv)
<1>1. TypeInv /\ PlaceInv /\ DataInv /\ ShownInv /\ [Next]_vars =>
        (TypeInv /\ PlaceInv /\ DataInv /\ ShownInv)'
  BY TypeStep, BoardStep, ShownStep
<1>2. Init => ShownInv
  BY DEF Init, ShownInv
<1>3. QED
  BY TypeInit, DataInit, <1>1, <1>2, PTL DEF Spec
----------------------------------------------------------------------------
(* While zero is tuned, the board is told an interface with a sensor of the gas
   it has read, for any interfaces and any loss, if the question before was
   answered; one past the last if there is none plugged in, which is all that
   the sensor built in ever gets.                                           *)
THEOREM ZeroGoesRight == Spec => []ZeroToItsInterface
<1>1. TypeInv /\ ZeroInv => ZeroToItsInterface
  <2> SUFFICES ASSUME TypeInv, ZeroInv, down # <<>>, Head(down).kind = "zero", Head(down).sure
               PROVE  Right(Head(down).of, Head(down).no - 1)
    BY DEF ZeroToItsInterface, Right
  <2>1. Head(down) = down[1] /\ 1 \in DOMAIN down
    BY TailFacts DEF TypeInv
  <2>2. QED
    BY <2>1 DEF ZeroInv
<1>2. QED
  BY <1>1, BoardAlways, PTL DEF DataInv

(* The display process sends what it shows, but for the words of an answer that
   CAP has written since the page was drawn, whatever was lost or came late; all
   of it, if the question was answered and no answer was left to come.       *)
THEOREM SentAsShown == Spec => SetIsShown
<1>1. SureInv /\ ShownInv =>
        [Ok => /\ \A n \in Slots : n \in since \/ mem[n] = shown[n]
               /\ sure => mem = shown]_vars
  BY DEF SureInv, ShownInv, Ok, On
<1>2. QED
  BY <1>1, BoardAlways, PTL DEF SetIsShown, DataInv

(* It differs from the board's own only where the user has set a type that the
   interface takes, whatever was set and not sent before.                   *)
THEOREM EditsAlone == Spec => OnlyEditsChange
<1>1. SureInv => [Ok /\ sure =>
                    \A n \in Slots : IF n \in edits THEN Allowed(n, mem[n]) ELSE mem[n] = table[n]]_vars
  BY DEF SureInv, Edited, Ok, On
<1>2. QED
  BY <1>1, BoardAlways, PTL DEF OnlyEditsChange, DataInv
----------------------------------------------------------------------------
(* What bounds the model's counters and queues, and that the first interface is
   never edited.                                                            *)
BoundInv ==
  /\ asks \in 0 .. MaxAsks /\ visits \in 0 .. MaxVisits /\ stored \in 0 .. MaxEdits
  /\ Len(up) <= MaxFrames /\ Len(down) <= MaxFrames /\ losses \in 0 .. MaxLosses
  /\ 0 \notin edits

LEMMA Lengths ==
  ASSUME NEW S, NEW s \in Seq(S), NEW e \in S
  PROVE  Len(Append(s, e)) = Len(s) + 1 /\ (s # <<>> => Len(Tail(s)) = Len(s) - 1)
OBVIOUS

LEMMA BoundStep == ASSUME TypeInv, BoundInv, [Next]_vars PROVE BoundInv'
<1> USE DEF BoundInv
<1>0. Len(up) \in Nat /\ Len(down) \in Nat
  BY DEF TypeInv
<1>1. asks' \in 0 .. MaxAsks /\ visits' \in 0 .. MaxVisits /\ stored' \in 0 .. MaxEdits
  <2>1. asks' = asks \/ asks' = 0 \/ (asks < MaxAsks /\ asks' = asks + 1)
    BY DEF Next, Handle, InterfaceSet, TunZero, AskAgain, AskEnds, Choose, SetType, SetReturn, Ok, Return, ZeroBegin,
       ZeroStop, TakeFrame, WriteWord, Dispatch, Board, BoardReads, Question, display, vars
  <2>2. visits' = visits \/ (visits < MaxVisits /\ visits' = visits + 1)
    BY DEF Next, Handle, InterfaceSet, TunZero, AskAgain, AskEnds, Choose, SetType, SetReturn, Ok, Return, ZeroBegin,
       ZeroStop, TakeFrame, WriteWord, Dispatch, Board, BoardReads, Question, display, vars
  <2>3. stored' = stored \/ (stored < MaxEdits /\ stored' = stored + 1)
    BY DEF Next, Handle, InterfaceSet, TunZero, AskAgain, AskEnds, Choose, SetType, SetReturn, Ok, Return, ZeroBegin,
       ZeroStop, TakeFrame, WriteWord, Dispatch, Board, BoardReads, Question, Store, display, vars
  <2>4. QED
    BY <2>1, <2>2, <2>3, BoundAssumption, SMTT(30)
<1>2. Len(up') <= MaxFrames
  <2>1. CASE up' = up
    BY <2>1
  <2>2. CASE TakeFrame
    <3>1. Len(Tail(up)) = Len(up) - 1
      BY <2>2, Lengths, Kinds DEF TakeFrame, TypeInv
    <3>2. QED
      BY <1>0, <2>2, <3>1, BoundAssumption DEF TakeFrame
  <2>3. CASE Board \/ BoardReads
    <3>1. /\ Len(up) < MaxFrames
          /\ \/ up' = up \/ up' = Append(up, Answer(table))
             \/ \E g \in Gases : up' = Append(up, Reading(g))
      BY <2>3 DEF Board, BoardReads
    <3>2. /\ Len(Append(up, Answer(table))) = Len(up) + 1
          /\ \A g \in Gases : Len(Append(up, Reading(g))) = Len(up) + 1
      BY Lengths, Kinds DEF TypeInv
    <3>3. QED
      BY <1>0, <3>1, <3>2, BoundAssumption
  <2>4. QED
    BY <2>1, <2>2, <2>3 DEF Next, Handle, InterfaceSet, TunZero, AskAgain, AskEnds, Choose, SetType, SetReturn, Ok,
       Return, ZeroBegin, ZeroStop, WriteWord, Dispatch, On, line, vars
<1>3. Len(down') <= MaxFrames
  <2>1. CASE down' = down
    BY <2>1
  <2>2. CASE \E f \in DownFrames : Write(f)
    <3>1. PICK f \in DownFrames : Len(down) < MaxFrames /\ down' = Append(down, f)
      BY <2>2 DEF Write
    <3>2. Len(Append(down, f)) = Len(down) + 1
      BY Lengths DEF TypeInv
    <3>3. QED
      BY <1>0, <3>1, <3>2, BoundAssumption
  <2>3. CASE Board
    <3>1. Len(Tail(down)) = Len(down) - 1
      BY <2>3, Lengths, Kinds DEF Board, TypeInv
    <3>2. QED
      BY <1>0, <2>3, <3>1, BoundAssumption DEF Board
  <2>4. CASE Handle
    BY <2>1, <2>2, <2>4, Kinds DEF TypeInv, Handle, InterfaceSet, TunZero, AskAgain, AskEnds, Choose, SetType, SetReturn,
       Ok, Return, ZeroBegin, ZeroStop, Question, line
  <2>5. CASE Dispatch
    <3>1. frame.kind = "reading" => Zero(frame.of, Interface(frame.of) + 1) \in DownFrames
      BY InterfaceNat, Kinds DEF Zero, DownFrames, TypeInv
    <3>2. QED
      BY <2>1, <2>2, <2>5, <3>1 DEF Dispatch
  <2>6. QED
    BY <2>1, <2>3, <2>4, <2>5 DEF Next, TakeFrame, WriteWord, BoardReads, line, vars
<1>4. losses' \in 0 .. MaxLosses
  <2>1. losses' = losses \/ (losses < MaxLosses /\ losses' = losses + 1)
    BY DEF Next, Handle, InterfaceSet, TunZero, AskAgain, AskEnds, Choose, SetType, SetReturn, Ok, Return, ZeroBegin,
       ZeroStop, TakeFrame, WriteWord, Dispatch, Board, BoardReads, On, Lose, line, vars
  <2>2. QED
    BY <2>1, BoundAssumption
<1>5. 0 \notin edits'
  BY DEF Next, Handle, InterfaceSet, TunZero, AskAgain, AskEnds, Choose, SetType, SetReturn, Ok, Return, ZeroBegin, ZeroStop,
     TakeFrame, WriteWord, Dispatch, Board, BoardReads, Question, Store, SelectLeft, Allowed, history, vars
<1>6. QED
  BY <1>1, <1>2, <1>3, <1>4, <1>5

(* Every variable holds the kind of value the declarations say, for any
   interfaces, rules and bounds.                                            *)
THEOREM TypeCorrect == Spec => []TypeOK
<1>1. Init => BoundInv
  BY BoundAssumption DEF Init, BoundInv
<1>2. TypeInv /\ BoundInv /\ [Next]_vars => BoundInv'
  BY BoundStep
<1>3. TypeInv /\ BoundInv => TypeOK
  BY DEF TypeInv, BoundInv, TypeOK
<1>4. QED
  BY <1>1, <1>2, <1>3, BoardAlways, PTL DEF Spec
=============================================================================
