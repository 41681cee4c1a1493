------------------------------- MODULE Board -------------------------------
(***************************************************************************)
(* The sensor interfaces of the acquisition board, in src/web/cap.c: the   *)
(* display process asks for the table (ask_interface), shows it, lets the  *)
(* user edit it and sends it back; the CAP process, which alone reads the  *)
(* serial line, dispatches each frame on *factory_mode (get_uart), and     *)
(* while a zero point is tuned answers a reading with the interface it     *)
(* belongs to (return_zero_point).  Verification, which asks for the table *)
(* too but changes nothing of it, is in Panel.                             *)
(*                                                                         *)
(* The table lies in shared memory and nothing guards it: CAP writes it    *)
(* word by word, and the display process takes a zero in its first word    *)
(* for an answer, the first interface being built in and without a type.   *)
(* Showing or sending the table is one step, at any point of that writing. *)
(* The sensor built in measures HCHO; CO and HCHO, of two makes each in    *)
(* the code and of one here, may be plugged in besides.  The pages and the *)
(* keys on them are those of the display's touch configuration (see Panel, *)
(* where keys also wait while a handler runs: here the user waits for it). *)
(***************************************************************************)
EXTENDS Naturals, Sequences, SequencesExt

CONSTANTS
  Top,       \* interfaces 0 .. Top: 10 in the code
  Fixed,     \* interfaces that take one type only, with that type
  MaxAsks,   \* times the question is repeated: 21 in the code
  MaxVisits, \* bound on the visits of the two pages that ask
  MaxEdits,  \* bound on the types the user stores
  MaxFrames, \* bound on the frames on their way, up and down
  MaxLosses  \* bound on the frames that are lost

ASSUME TopAssumption   == Top \in Nat
ASSUME BoundAssumption ==
  MaxAsks \in Nat /\ MaxVisits \in Nat /\ MaxEdits \in Nat /\ MaxFrames \in Nat \ {0} /\ MaxLosses \in Nat

VARIABLES
  page,    \* the page on the display
  pc,      \* of the display process: "idle" or "ask"
  asks,    \* i of ask_interface(): how often it has repeated the question
  shown,   \* the table on the page of interfaces, blank on other pages
  visits,  \* of these pages, so far
  stored,  \* types stored so far
  no, cur, \* interface_config_no, cur_select_interface, on the page of types
  mem,     \* sensor_interface_mem
  mode,    \* *factory_mode
  cpc,     \* of the CAP process: "idle", "mode" or "write"
  frame,   \* the frame it has in hand
  word,    \* the word it writes next
  up, down,\* frames on their way from and to the board
  table,   \* the board's own table
  losses,  \* frames the line has lost
  heard,   \* history: is the question answered, "no", "yes", or "late":
           \* answers to earlier ones were still to come when it was put
  sure,    \* history: was the last one answered, with nothing left to come?
  edits,   \* history: interfaces the user has set since, on this page
  since    \* history: words CAP has written since the page showed the table

display == <<pc, asks, shown, visits, stored, no, cur>>
shared  == <<mem, mode>>
cap     == <<cpc, frame, word>>
history == <<heard, sure, edits, since>>
line    == <<up, down, table, losses>>
vars    == <<page, display, shared, cap, line, history>>

Slots == 0 .. Top
Gases == {"co", "hcho"}          \* whose zero points are tuned
Types == {"none", "pm"} \cup Gases   \* "none" is 0x0000
Unset == "0x1234"
Words == Types \cup {Unset}
Table == [Slots -> Words]

Blank == [n \in Slots |-> "none"]

Ask        == [kind |-> "ask"]
Set(t)     == [kind |-> "set", table |-> t]
Zero(g, n) == [kind |-> "zero", of |-> g, no |-> n, sure |-> sure]   \* history: of, sure
Answer(t)  == [kind |-> "table", table |-> t]
Reading(g) == [kind |-> "reading", of |-> g]
NoFrame    == [kind |-> "none"]

(* Which type an interface takes: the rule of TOUCH_SET_RETURN. *)
Allowed(n, t) ==
  /\ n # 0
  /\ IF n \in DOMAIN Fixed THEN t = Fixed[n]
     ELSE t \notin {Fixed[m] : m \in DOMAIN Fixed}

(* The board's table obeys the rule; the memory of a new process is zero but
   for its first word.                                                      *)
Tables == {t \in [Slots -> Types] : t[0] = "none" /\ \A n \in Slots \ {0} : Allowed(n, t[n])}

Init ==
  /\ page = "test"
  /\ pc = "idle" /\ asks = 0
  /\ mem = [n \in Slots |-> IF n = 0 THEN Unset ELSE "none"]
  /\ shown = Blank /\ visits = 0 /\ stored = 0 /\ no = 0 /\ cur = "none"
  /\ mode = "normal"
  /\ cpc = "idle" /\ frame = NoFrame /\ word = 0
  /\ up = <<>> /\ down = <<>> /\ losses = 0
  /\ table \in Tables
  /\ heard = "no" /\ sure = FALSE /\ edits = {} /\ since = {}
----------------------------------------------------------------------------
(* The display process, key by key.  On(p, q): a key of page p is touched, on
   which the display goes to page q by itself.                              *)
On(p, q) ==
  /\ pc = "idle" /\ page = p
  /\ page' = q
  /\ UNCHANGED <<cap, up, table, losses>>

Write(f) == Len(down) < MaxFrames /\ down' = Append(down, f)

(* Is an answer still to come? *)
ToCome == Ask \in Range(down) \/ cpc = "write" \/ \E f \in Range(up) : f.kind = "table"

Question ==
  /\ visits < MaxVisits /\ visits' = visits + 1
  /\ Write(Ask)
  /\ pc' = "ask"
  /\ heard' = IF ToCome THEN "late" ELSE "no"
  /\ UNCHANGED <<asks, shown, stored, no, cur, mode, sure, edits, since>>

(* TOUCH_INTERFACE_SET: the first word is spoilt, so that a zero there must
   come from an answer.                                                     *)
InterfaceSet ==
  /\ On("test", "select")
  /\ mem' = [mem EXCEPT ![0] = Unset]
  /\ Question

(* Mutant: the question is not put when the first word is zero already. *)
TunZeroTrusting ==
  /\ On("test", "zero")
  /\ \/ mem[0] # "none" /\ Question
     \/ mem[0] = "none" /\ UNCHANGED <<display, mode, down, history>>
  /\ UNCHANGED mem

(* TOUCH_TUN_ZERO asks and does not spoil it. *)
TunZero ==
  /\ On("test", "zero")
  /\ Question
  /\ UNCHANGED mem

(* A second has passed without a zero in the first word. *)
AskAgain ==
  /\ pc = "ask" /\ asks < MaxAsks /\ mem[0] # "none"
  /\ Write(Ask)
  /\ asks' = asks + 1
  /\ UNCHANGED <<page, pc, shown, visits, stored, no, cur, shared, cap, up, table, losses, history>>

(* There is one, or the questions are used up: what is there is taken, and on
   the page of interfaces shown.                                            *)
AskEnds ==
  /\ pc = "ask" /\ (mem[0] = "none" \/ asks = MaxAsks)
  /\ pc' = "idle" /\ asks' = 0
  /\ IF page = "select" THEN shown' = mem /\ since' = {} ELSE UNCHANGED <<shown, since>>
  /\ sure' = (heard = "yes" /\ ~ToCome) /\ heard' = "no"
  /\ UNCHANGED <<page, visits, stored, no, cur, shared, cap, line, edits>>

(* TOUCH_INTERFACE_1 .. 11: the page of types, for the first one too. *)
Choose ==
  /\ On("select", "types")
  /\ \E n \in Slots : no' = n /\ cur' = mem[n]
  /\ UNCHANGED <<pc, asks, shown, visits, stored, mem, mode, down, history>>

SetType ==
  /\ On("types", "types")
  /\ cur' \in Types
  /\ UNCHANGED <<pc, asks, shown, visits, stored, no, mem, mode, down, history>>

Store ==
  /\ stored < MaxEdits /\ stored' = stored + 1
  /\ mem' = [mem EXCEPT ![no] = cur] /\ edits' = edits \cup {no}
TypesLeft  == no' = 0 /\ cur' = "none"
SelectLeft == shown' = Blank /\ edits' = {} /\ since' = {}

(* Mutant: the type is stored without asking whether the interface takes it. *)
SetReturnAny ==
  /\ On("types", "select")
  /\ IF no # 0 THEN Store /\ shown' = mem' /\ since' = {}
     ELSE UNCHANGED <<mem, edits, stored, shown, since>>
  /\ TypesLeft
  /\ UNCHANGED <<pc, asks, visits, mode, down, heard, sure>>

(* Mutant: the page is left as it was. *)
SetReturnUnshown ==
  /\ On("types", "select")
  /\ IF Allowed(no, cur) THEN Store ELSE UNCHANGED <<mem, edits, stored>>
  /\ TypesLeft
  /\ UNCHANGED <<pc, asks, shown, visits, mode, down, heard, sure, since>>

(* The type chosen is stored if the interface takes it, and the table shown
   again; the first interface is never set.                                 *)
SetReturn ==
  /\ On("types", "select")
  /\ IF Allowed(no, cur) THEN Store ELSE UNCHANGED <<mem, edits, stored>>
  /\ IF no # 0 THEN shown' = mem' /\ since' = {} ELSE UNCHANGED <<shown, since>>
  /\ TypesLeft
  /\ UNCHANGED <<pc, asks, visits, mode, down, heard, sure>>

(* set_interface() *)
Ok ==
  /\ On("select", "test")
  /\ Write(Set(mem))
  /\ SelectLeft
  /\ UNCHANGED <<pc, asks, visits, stored, no, cur, mem, mode, heard, sure>>

(* TOUCH_INTERFACE_RETURN: what was stored and not sent stays in the memory. *)
Return ==
  /\ On("select", "test")
  /\ SelectLeft
  /\ UNCHANGED <<pc, asks, visits, stored, no, cur, mem, mode, down, heard, sure>>

(* TOUCH_TUN_ZERO_BEGIN: the request goes to the display, not to the board. *)
ZeroBegin ==
  /\ On("zero", "zero")
  /\ mode' = "zero"
  /\ UNCHANGED <<display, mem, down, history>>

ZeroStop ==
  /\ On("zero", "zero") \/ On("zero", "test")
  /\ mode' = "normal"
  /\ UNCHANGED <<display, mem, down, history>>
----------------------------------------------------------------------------
(* The CAP process: get_uart().  *factory_mode is read once to see whether the
   mode is normal, and a second time when it is not.                        *)
TakeFrame ==
  /\ cpc = "idle" /\ up # <<>>
  /\ up' = Tail(up)
  /\ \/ mode # "normal" /\ cpc' = "mode" /\ frame' = Head(up)
     \/ mode = "normal" /\ Head(up).kind = "table" /\ cpc' = "write" /\ frame' = Head(up)
     \/ mode = "normal" /\ Head(up).kind # "table" /\ UNCHANGED <<cpc, frame>>  \* build_message()
  /\ UNCHANGED <<page, display, word, shared, down, table, losses, history>>

(* An answer goes into the memory word by word, whoever reads it. *)
WriteWord ==
  /\ cpc = "write"
  /\ mem' = [mem EXCEPT ![word] = frame.table[word]]
  /\ IF word < Top THEN word' = word + 1 /\ UNCHANGED <<cpc, frame, heard>>
     ELSE /\ word' = 0 /\ cpc' = "idle" /\ frame' = NoFrame
          /\ heard' = IF pc = "ask" /\ heard = "no" THEN "yes" ELSE heard
  /\ since' = IF page \in {"select", "types"} THEN since \cup {word} ELSE since
  /\ UNCHANGED <<page, display, mode, line, sure, edits>>

(* return_zero_point(): the first interface with a sensor of this gas plugged in,
   one past the last when there is none; never the one built in.            *)
Interface(g) ==
  IF \E n \in Slots : mem[n] = g
  THEN CHOOSE n \in Slots : mem[n] = g /\ \A m \in 0 .. n - 1 : mem[m] # g
  ELSE Top + 1

(* The mode is read again: while a zero point is tuned a reading is answered;
   all else is only shown, an answer that comes in this mode too.           *)
Dispatch ==
  /\ cpc = "mode" /\ cpc' = "idle" /\ frame' = NoFrame
  /\ IF mode = "zero" /\ frame.kind = "reading"
     THEN Write(Zero(frame.of, Interface(frame.of) + 1))
     ELSE UNCHANGED down
  /\ UNCHANGED <<page, display, mem, mode, word, up, table, losses, history>>
----------------------------------------------------------------------------
(* The board, and the line to it, which may lose a frame. *)
Lose == losses < MaxLosses /\ losses' = losses + 1

Board ==
  LET f == Head(down) IN
  /\ down # <<>> /\ Len(up) < MaxFrames
  /\ down' = Tail(down)
  /\ \/ f.kind = "ask" /\ up' = Append(up, Answer(table)) /\ UNCHANGED <<table, losses>>
     \/ f.kind = "set" /\ table' = f.table /\ UNCHANGED <<up, losses>>
     \/ f.kind = "zero" /\ UNCHANGED <<up, table, losses>>
     \/ Lose /\ UNCHANGED <<up, table>>
  /\ UNCHANGED <<page, display, shared, cap, history>>

(* HCHO is always measured.  Bound: one reading at a time is on its way. *)
BoardReads ==
  /\ \A f \in Range(up) : f.kind # "reading"
  /\ Len(up) < MaxFrames
  /\ \E g \in Gases :
       /\ g = "hcho" \/ \E n \in Slots : table[n] = g
       /\ up' = Append(up, Reading(g))
  /\ UNCHANGED <<page, display, shared, cap, down, table, losses, history>>

Handle ==
  \/ InterfaceSet \/ TunZero \/ AskAgain \/ AskEnds
  \/ Choose \/ SetType \/ SetReturn \/ Ok \/ Return
  \/ ZeroBegin \/ ZeroStop

Next ==
  \/ Handle
  \/ TakeFrame \/ WriteWord \/ Dispatch
  \/ Board \/ BoardReads

Spec == Init /\ [][Next]_vars
----------------------------------------------------------------------------
(* Every variable holds the kind of value the declarations say. *)
TypeOK ==
  /\ page \in {"test", "select", "types", "zero"}
  /\ pc \in {"idle", "ask"} /\ asks \in 0 .. MaxAsks /\ word \in Slots
  /\ visits \in 0 .. MaxVisits /\ stored \in 0 .. MaxEdits
  /\ {mem, shown, table} \subseteq Table
  /\ no \in Slots /\ cur \in Words
  /\ mode \in {"normal", "zero"}
  /\ cpc \in {"idle", "mode", "write"} /\ (cpc = "write" => frame.kind = "table")
  /\ Len(up) <= MaxFrames /\ Len(down) <= MaxFrames /\ losses \in 0 .. MaxLosses
  /\ heard \in {"no", "yes", "late"} /\ edits \subseteq Slots \ {0}
  /\ sure \in BOOLEAN /\ since \subseteq Slots

(* While a zero point is tuned, the frame that answers a reading names an
   interface at which the board has such a sensor plugged in when it takes the
   frame, although the table it is looked up in may hold types that were stored
   and never sent: the question put before settles it, if it was answered in
   time.  The sensor built in is never named: with another of HCHO plugged in
   its zero goes to that one, and without, to an interface there is not.     *)
PluggedIn(g, n) == n \in Slots /\ table[n] = g

ZeroToItsInterface ==
  down # <<>> /\ Head(down).kind = "zero" /\ Head(down).sure =>
    LET g == Head(down).of
        n == Head(down).no - 1
    IN  PluggedIn(g, n) \/ (n = Top + 1 /\ ~\E m \in Slots : PluggedIn(g, m))

(* What OK sends is what its page shows, but for the words of an answer the other
   process has written since the page showed the table; when the question of
   this visit was answered and no answer was left to come, it is all of it.  *)
SetIsShown ==
  [][Ok => /\ \A n \in Slots : n \in since \/ mem[n] = shown[n]
           /\ sure => mem = shown]_vars

(* And it differs from the board's own table only where the user has set a type
   on this visit of the page, one the interface takes: types of an earlier
   visit that were stored and not sent are forgotten, and the spoilt word is
   never sent.                                                              *)
OnlyEditsChange ==
  [][Ok /\ sure =>
       \A n \in Slots : IF n \in edits THEN Allowed(n, mem[n]) ELSE mem[n] = table[n]]_vars
============================================================================
