-------------------------------- MODULE Dgus --------------------------------
(***************************************************************************)
(* The line from the display, byte by byte, in src/web/cap.c: lcd_loop     *)
(* finds the keys the user touches in it, and read_dgus, called by the     *)
(* handler of a key, takes the bytes that come next for the answer to its  *)
(* question.  The handlers are those of the page on which the user chooses *)
(* between the two ways to the server and types the name and the password  *)
(* of the wireless network (input_handle, wifi_handle, set_net_interface,  *)
(* get_net_interface after a power failure).                               *)
(*                                                                         *)
(* The line may lose a byte.  The display goes to a page by itself when a  *)
(* key is touched, as its configuration says (03-12/DWIN_SET): a key that  *)
(* the parser misses has changed the page all the same.                    *)
(***************************************************************************)
EXTENDS Naturals, Sequences, SequencesExt

CONSTANTS
  Words,        \* words of a field: 10 in the code
  MinPassword,  \* length of the shortest password: 8 in the code
  Names,        \* what the user types as the name of the network ...
  Passwords,    \* ... and as the password: sequences of bytes, in ASCII
  MaxTouches,   \* bound on the keys touched
  MaxWaiting,   \* bound on the bytes that wait when a key is touched
  MaxFaults,    \* bound on the bytes lost
  MaxFailures   \* bound on the power failures

ASSUME WordsAssumption == Words \in 1 .. 125   \* a byte holds the length of a frame
ASSUME TypedAssumption ==                      \* a field takes no more than it holds
  \A w \in Names \cup Passwords : w \in Seq(1 .. 254) /\ Len(w) <= 2 * Words
ASSUME BoundsAssumption == {MinPassword, MaxTouches, MaxWaiting, MaxFaults, MaxFailures} \subseteq Nat

VARIABLES
  page,     \* the page on the display: "away", "transfer" or "done"
  text,     \* the way that the page of transfer shows (ADDR_XFER_MODE)
  field,    \* the fields of that page
  rx,       \* bytes on their way from the display
  asked,    \* questions on their way to it
  get, i, key,  \* of lcd_loop(): its state, the index into ptr, ptr[1 .. 5]
  pc,       \* "loop", "name" or "password" in read_dgus(), "open" or "write"
            \* in set_net_interface()
  n, out,   \* of read_dgus(): bytes counted, bytes of the answer
  name,     \* ap_name of wifi_handle(), once it is read
  sel,      \* wifi_select of input_handle()
  mode,     \* *send_by_wifi: "WIFI" or "GPRS"
  file,     \* interface.txt
  network,  \* the name and the password the wireless network is set to
  touched, heard,  \* history: the keys touched, and those acted on, since the
                   \* program started
  touches, faults, failures, \* keys touched, bytes lost, power failures so far
  clear,    \* history: is nothing but the answer awaited on the line?
  amid,     \* history: keys that were on the line when a field was read
  tidy      \* history: does the page, when it comes up, show the way chosen?

display == <<page, text, field>>
line    == <<rx, asked>>
parser  == <<get, i, key>>
reader  == <<n, out, name>>
store   == <<sel, mode, file, network>>
history == <<touched, heard, touches, faults, failures, clear, amid, tidy>>
vars    == <<display, line, parser, pc, reader, store, history>>

Byte == 0 .. 255

(* dwin.h *)
XferSet == \h0673
Gprs    == \h05a9
Wifi    == \h05aa
Ok      == \h05ab
Return  == \h073f
Keys    == {XferSet, Gprs, Wifi, Ok, Return}

Hi(w) == w \div 256
Lo(w) == w % 256

(* The frame of a key; the second word is the first plus \h100. *)
KeyFrame(k) == <<\h5a, \ha5, \h06, \h83, Hi(k), Lo(k), \h01, Hi(k + 256), Lo(k)>>

(* The frame of a field, which the display ends with \hff. *)
Addr(f)      == IF f = "name" THEN \h0581 ELSE \h0595
Text(f)      == [j \in 1 .. 2 * Words |-> IF j <= Len(field[f]) THEN field[f][j] ELSE \hff]
FieldFrame(f) ==
  <<\h5a, \ha5, 4 + 2 * Words, \h83, Hi(Addr(f)), Lo(Addr(f)), Words>> \o Text(f)

Blank == [name |-> <<>>, password |-> <<>>]

(* get_net_interface(): an empty file leaves the shared byte zero. *)
Loaded(f) == IF f = "absent" THEN "WIFI" ELSE IF f = "empty" THEN "GPRS" ELSE f

Init ==
  /\ page = "away" /\ rx = <<>> /\ asked = <<>>
  /\ get = 0 /\ i = 1 /\ key = <<>>
  /\ pc = "loop" /\ n = 0 /\ out = <<>> /\ name = <<>>
  /\ sel = "GPRS"
  /\ touched = <<>> /\ heard = <<>> /\ clear = FALSE /\ amid = 0
  /\ text = "GPRS" /\ field = Blank
  /\ file \in {"absent", "WIFI", "GPRS"}
  /\ mode = Loaded(file) /\ tidy = (sel = mode)
  /\ network = Blank
  /\ touches = 0 /\ faults = 0 /\ failures = 0
----------------------------------------------------------------------------
(* The display. *)

(* A frame comes, or what the line leaves of it. *)
Emit(f) ==
  \/ rx' = rx \o f /\ UNCHANGED faults
  \/ /\ faults < MaxFaults /\ faults' = faults + 1
     /\ \E j \in DOMAIN f : rx' = rx \o RemoveAt(f, j)

InRead == pc \in {"name", "password"}

(* From the page that shows the way chosen the user comes to that of transfer
   by two keys, of which the first has no handler.                          *)
Touch(k) ==
  /\ touches < MaxTouches /\ touches' = touches + 1
  /\ touched' = Append(touched, k)
  /\ Len(rx) <= MaxWaiting
  /\ IF k = XferSet THEN page # "transfer" ELSE page = "transfer"
  /\ page' = CASE k = XferSet -> "transfer" [] k = Return -> "away" [] OTHER -> page
  /\ Emit(KeyFrame(k))
  /\ clear' = FALSE
  /\ amid' = IF InRead \/ asked # <<>> THEN amid + 1 ELSE amid
  /\ UNCHANGED <<text, field, asked, parser, pc, reader, store, heard, failures, tidy>>

Type ==
  /\ page = "transfer"
  /\ field' \in [name : Names, password : Passwords] /\ field' # field
  /\ clear' = FALSE
  /\ UNCHANGED <<page, text, line, parser, pc, reader, store,
                 touched, heard, touches, faults, failures, amid, tidy>>

Answer ==
  /\ asked # <<>> /\ asked' = Tail(asked)
  /\ Emit(FieldFrame(Head(asked)))
  /\ clear' = (clear /\ faults' = faults)
  /\ UNCHANGED <<display, parser, pc, reader, store, touched, heard, touches, failures, amid, tidy>>
----------------------------------------------------------------------------
(* lcd_loop(): c is the next byte.  A byte that is neither of those awaited in
   states 2 and 3 falls through to state 4 and is stored.                   *)
Stored(c) ==
  \/ get = 4
  \/ get = 3 /\ c # \h83
  \/ get = 2 /\ c \notin {\h06, \h83}

Skip(c) ==
  /\ ~Stored(c)
  /\ get' = CASE get = 0 -> IF c = \h5a THEN 1 ELSE 0
              [] get = 1 -> IF c = \ha5 THEN 2 ELSE 1
              [] OTHER   -> IF c = \h83 THEN 4 ELSE 3
  /\ IF get' = 4 THEN i' = 1 /\ key' = <<>> ELSE UNCHANGED <<i, key>>
  /\ UNCHANGED <<page, text, field, asked, pc, reader, store, heard, clear, amid, tidy>>

(* ptr[i++] = c.  Only ptr[1 .. 5] is ever read. *)
Keep(c) ==
  /\ Stored(c) /\ i # 5
  /\ i' = i + 1
  /\ key' = IF i < 5 THEN Append(key, c) ELSE key
  /\ UNCHANGED <<page, text, field, asked, get, pc, reader, store, heard, clear, amid, tidy>>

Ask(f) == asked' = Append(asked, f) /\ pc' = f /\ n' = 0 /\ out' = <<>>

(* The handlers of input_handle(). *)
OnPage == \E j \in DOMAIN heard :
  heard[j] = XferSet /\ \A k \in j .. Len(heard) : heard[k] \notin {Ok, Return}

XferSetKey ==
  /\ field' = Blank /\ text' = mode /\ tidy' = (tidy /\ ~OnPage)
  /\ UNCHANGED <<page, asked, pc, reader, store, clear, amid>>

SelectKey(w) ==
  /\ sel' = w /\ text' = w /\ tidy' = OnPage
  /\ UNCHANGED <<page, field, asked, pc, reader, mode, file, network, clear, amid>>

(* Mutant: the way chosen stays chosen. *)
ReturnKeyKept ==
  /\ tidy' = TRUE
  /\ UNCHANGED <<page, text, field, asked, pc, reader, store, clear, amid>>

ReturnKey ==
  /\ sel' = mode /\ tidy' = TRUE
  /\ UNCHANGED <<page, text, field, asked, pc, reader, mode, file, network, clear, amid>>

OkKey ==
  /\ mode' = sel /\ tidy' = TRUE
  /\ IF sel = "WIFI"
     THEN /\ Ask("name") /\ UNCHANGED <<page, name>>
          /\ clear' = (rx' = <<>> /\ asked = <<>>)
          /\ amid' = amid + Len(touched) - Len(heard')
     ELSE pc' = "open" /\ page' = "done" /\ UNCHANGED <<asked, reader, clear, amid>>
  /\ UNCHANGED <<text, field, sel, file, network>>

(* Mutant: the parser goes on storing. *)
HandleOn(c) ==
  LET addr == key[1] * 256 + key[2]
      data == key[4] * 256 + c
  IN
  /\ Stored(c) /\ i = 5
  /\ get' = 4 /\ i' = 6 /\ key' = <<>>
  /\ IF addr \in Keys /\ data = addr + 256
     THEN /\ heard' = Append(heard, addr)
          /\ \/ addr = XferSet /\ XferSetKey
             \/ addr = Gprs /\ SelectKey("GPRS")
             \/ addr = Wifi /\ SelectKey("WIFI")
             \/ addr = Return /\ ReturnKey
             \/ addr = Ok /\ OkKey
     ELSE UNCHANGED <<page, text, field, asked, pc, reader, store, heard, clear, amid, tidy>>

(* The fifth byte: a handler runs if the second word goes with the first. *)
Handle(c) ==
  LET addr == key[1] * 256 + key[2]
      data == key[4] * 256 + c
  IN
  /\ Stored(c) /\ i = 5
  /\ get' = 0 /\ i' = 6 /\ key' = <<>>
  /\ IF addr \in Keys /\ data = addr + 256
     THEN /\ heard' = Append(heard, addr)
          /\ \/ addr = XferSet /\ XferSetKey
             \/ addr = Gprs /\ SelectKey("GPRS")
             \/ addr = Wifi /\ SelectKey("WIFI")
             \/ addr = Return /\ ReturnKey
             \/ addr = Ok /\ OkKey
     ELSE UNCHANGED <<page, text, field, asked, pc, reader, store, heard, clear, amid, tidy>>

Loop ==
  /\ pc = "loop" /\ rx # <<>> /\ rx' = Tail(rx)
  /\ Skip(Head(rx)) \/ Keep(Head(rx)) \/ Handle(Head(rx))
  /\ UNCHANGED <<touched, touches, faults, failures>>
----------------------------------------------------------------------------
(* Mutant: six bytes are taken for the head. *)
TakenEarly(c) == IF n < 6 THEN out ELSE Append(out, IF c = \hff THEN 0 ELSE c)

(* read_dgus(): seven bytes are taken for the head of the answer, whatever they
   are, and as many as were asked for are its text, but for \hff.          *)
Taken(c) == IF n < 7 THEN out ELSE Append(out, IF c = \hff THEN 0 ELSE c)
Done     == n = 2 * Words + 6
String(s) == SubSeq(s, 1, SelectInSeq(s \o <<0>>, LAMBDA c : c = 0) - 1)

InProgress(f) == pc = f /\ rx # <<>> /\ rx' = Tail(rx)

ReadByte ==
  /\ \E f \in {"name", "password"} : InProgress(f)
  /\ ~Done
  /\ n' = n + 1 /\ out' = Taken(Head(rx))
  /\ UNCHANGED <<display, asked, parser, pc, name, store, history>>

NameRead ==
  /\ InProgress("name") /\ Done
  /\ name' = String(Taken(Head(rx)))
  /\ Ask("password")
  /\ clear' = (clear /\ rx' = <<>> /\ asked = <<>>)
  /\ UNCHANGED <<display, parser, store, touched, heard, touches, faults, failures, amid, tidy>>

(* Mutant: only the other way is saved. *)
WifiDoneUnsaved == page' = "done" /\ pc' = "loop" /\ n' = 0 /\ out' = <<>> /\ name' = <<>>

(* The rest of wifi_handle(), and switch_pic(WIFI_PAGE): the network is set,
   whichever of those known to wpa_cli it replaces.                         *)
WifiDone == page' = "done" /\ pc' = "open" /\ n' = 0 /\ out' = <<>> /\ name' = <<>>

PasswordRead ==
  /\ InProgress("password") /\ Done
  /\ LET p == String(Taken(Head(rx))) IN
       network' = IF Len(p) >= MinPassword /\ name # <<>> THEN [name |-> name, password |-> p] ELSE network
  /\ WifiDone
  /\ UNCHANGED <<text, field, asked, parser, sel, mode, file, history>>

(* A hundred times there was no byte: nothing is set. *)
ReadTimeout ==
  /\ InRead /\ rx = <<>>
  /\ WifiDone
  /\ UNCHANGED <<text, field, line, parser, store, history>>

(* set_net_interface(): the file is emptied, and written when it is closed. *)
OpenFile ==
  /\ pc = "open" /\ pc' = "write" /\ file' = "empty"
  /\ UNCHANGED <<display, line, parser, reader, sel, mode, network, history>>

WriteFile ==
  /\ pc = "write" /\ pc' = "loop" /\ file' = mode
  /\ UNCHANGED <<display, line, parser, reader, sel, mode, network, history>>

PowerFailure ==
  /\ failures < MaxFailures /\ failures' = failures + 1
  /\ page' = "away" /\ rx' = <<>> /\ asked' = <<>>
  /\ get' = 0 /\ i' = 1 /\ key' = <<>>
  /\ pc' = "loop" /\ n' = 0 /\ out' = <<>> /\ name' = <<>>
  /\ sel' = "GPRS"
  /\ touched' = <<>> /\ heard' = <<>> /\ clear' = FALSE /\ amid' = 0
  /\ field' = Blank /\ text' = "GPRS" /\ mode' = Loaded(file) /\ tidy' = (sel' = mode')
  /\ UNCHANGED <<file, network, touches, faults>>

Next ==
  \/ \E k \in Keys : Touch(k)
  \/ Type \/ Answer
  \/ Loop
  \/ ReadByte \/ NameRead \/ PasswordRead \/ ReadTimeout
  \/ OpenFile \/ WriteFile
  \/ PowerFailure

Spec == Init /\ [][Next]_vars
----------------------------------------------------------------------------
Ways == {"WIFI", "GPRS"}

(* Every variable holds the kind of value the declarations say. *)
TypeOK ==
  /\ page \in {"away", "transfer", "done"} /\ {text, sel, mode} \subseteq Ways
  /\ {field, network} \subseteq [name : Seq(Byte), password : Seq(Byte)]
  /\ rx \in Seq(Byte) /\ asked \in Seq({"name", "password"})
  /\ get \in 0 .. 4 /\ i \in Nat \ {0} /\ key \in Seq(Byte) /\ Len(key) <= 4
  /\ pc \in {"loop", "name", "password", "open", "write"}
  /\ n \in 0 .. 2 * Words + 6 /\ out \in Seq(Byte) /\ name \in Seq(Byte)
  /\ file \in Ways \cup {"absent", "empty"}
  /\ touched \in Seq(Keys) /\ heard \in Seq(Keys)
  /\ touches \in 0 .. MaxTouches /\ faults \in 0 .. MaxFaults /\ failures \in 0 .. MaxFailures /\ amid \in Nat
  /\ {clear, tidy} \subseteq BOOLEAN

(* Each lost byte costs two keys at most, the one it was lost in and the next,
   and so does a key whose bytes are on the line when an answer is read: the
   parser is in step again, and for what is left of a frame or of an answer
   that came too late no handler runs.                                      *)
Quiet == pc = "loop" /\ rx = <<>> /\ asked = <<>>
BackInStep ==
  Quiet =>
    /\ Len(touched) - Len(heard) <= 2 * (faults + amid)
    /\ \E at \in [DOMAIN heard -> DOMAIN touched] :
         \A j \in DOMAIN heard :
           heard[j] = touched[at[j]] /\ \A k \in 1 .. j - 1 : at[k] < at[j]

(* The wireless network is set to what the user typed, when nothing else was on
   the line while it was read.                                              *)
NetworkIsTyped == [][network' # network /\ clear => network' = field]_vars

(* What is stored when the user says so is the way the page shows, whatever keys
   were lost, while the way chosen, which is kept apart from the way in use,
   went with the page when it came up (tidy).  It may not after a key that came
   after the one that left the page, when the page comes up for the second time
   before it was left (the end of an earlier transfer takes it away), and after
   every start with WIFI in use: there OK makes GPRS the way in use, although
   the page shows WIFI, until the user has chosen or left the page.          *)
Fresh == \A j \in DOMAIN heard : heard[j] = XferSet

OkStoresShown ==
  [][heard' = Append(heard, Ok) /\ OnPage =>
       /\ tidy  => mode' = text
       /\ Fresh => mode' = "GPRS"]_vars

(* A power failure finds the way in use in the file, except while the page of
   transfer is being left.                                                  *)
ModeIsSaved == pc = "loop" => Loaded(file) = mode
=============================================================================
