------------------------------- MODULE Panel -------------------------------
(***************************************************************************)
(* The display process: input_handle() in src/web/cap.c, its log-in, its   *)
(* pages, the verification and the zeroing of sensors, and the SIGALRM     *)
(* that darkens the display after five minutes; and what the CAP process   *)
(* draws on the page of a verification (get_uart).  The pages that edit    *)
(* settings (user, network, interfaces, times, link) are left out.         *)
(*                                                                         *)
(* The display is a device of its own.  It shows the page it was last told *)
(* to, or jumps to another by itself when a button says so, and sends the  *)
(* key of a button; keys wait in the serial port while a handler runs      *)
(* (asking the board for its interfaces takes up to 21 seconds).  Which    *)
(* button stands on which page, and where it jumps, is the touch           *)
(* configuration of the display (03-12/DWIN_SET, the file that starts      *)
(* with 13), whose key codes are those of src/web/dwin.h.                  *)
(*                                                                         *)
(* When the board is told to verify a sensor it answers with the points    *)
(* and corrections it has for it.  The answer comes to the CAP process,    *)
(* which shows it on the page and puts out the lamp of every point; the    *)
(* display process, which knows nothing of it, lights the lamp of the      *)
(* point the user selects.                                                 *)
(***************************************************************************)
EXTENDS Naturals, Sequences

CONSTANTS
  Objects,   \* the sensors that can be verified
  Points,    \* the points of a verification; 0 is the zero point
  NoPoint,   \* 100: none
  MaxKeys,   \* bound on the keys that wait
  MaxAnswers \* bound on the answers of the board that wait

ASSUME PointAssumption == 0 \in Points /\ NoPoint \notin Points
ASSUME KeysAssumption  == MaxKeys \in Nat \ {0} /\ MaxAnswers \in Nat \ {0}

VARIABLES
  page,     \* the page on the display
  lit,      \* lcd_state
  armed,    \* is an alarm() running?
  keys,     \* keys the display has sent and nobody has read
  pc,       \* "idle", "check", "wake", "arm", "act", "after"
  key,      \* the key in hand
  g_index, logged,
  done,     \* *history_done
  mode,     \* *factory_mode: "normal", "zero" (TUN_ZERO_MODE) or "verify"
  obj,      \* verify_object
  point,    \* verify_point
  told,     \* the object the board was last told to verify
  zeroing,  \* has the board been told to zero, and not yet to stop?
  answers,  \* points and corrections from the board that nobody has read
  cap,      \* of the CAP process: "idle", or "factory" with an answer in hand
  drawn,    \* the point that is lit on the page
  overtaken,  \* history, while calm: was it selected before the board answered?
  calm      \* history: no touch and no signal came while a handler ran

device  == <<page, keys>>
handler == <<pc, key>>
light   == <<lit, armed>>
factory == <<mode, obj, point, told, zeroing>>
lamps   == <<drawn, overtaken>>
verify  == <<answers, cap, lamps>>
vars    == <<device, handler, light, g_index, logged, done, factory, verify, calm>>

(* The keys on each page, as <<key, argument>>: the touch configuration of the
   display.  "OTHER" stands for the keys input_handle() does not know.      *)
K(name) == <<name, 0>>

Keys(p) ==
  CASE p = "MAIN_PAGE"   -> {K("RUN_TIME"), K("DEVICE_STATE"), K("OTHER")}
    [] p = "CURVE_PAGE"  -> {K("CURVE_LIST"), K("OTHER")}
    [] p = "LOG_IN_PAGE" -> {K("USER_OK_VERIFY"), K("USER_RETURN_VERIFY")}
    [] p = "SYSTEM_SET_PAGE"    -> {K("SENSOR_SET"), K("SYS_SET_RETURN")}
    [] p = "SENSOR_TEST_PAGE"   -> {K("VERIFY"), K("TUN_ZERO"), K("OTHER")}
    [] p = "VERIFY_SELECT_PAGE" -> {<<"VERIFY_OBJECT", o>> : o \in Objects}
    [] p = "VERIFY_PAGE" -> {K("VERIFY_EXIT"), K("VERIFY_VALUE")}
                            \cup {<<"JIAOZHUN_P", i>> : i \in Points}
    [] p = "TUN_ZERO_PAGE" -> {K("TUN_ZERO_BEGIN"), K("TUN_ZERO_END"), K("TUN_ZERO_RETURN")}
    [] OTHER -> {K("OTHER")}

(* The page the display jumps to by itself when key k of page p is touched. *)
JumpOf(k, p) ==
  CASE k[1] = "SYS_SET_RETURN"  -> "MAIN_PAGE"
    [] k[1] = "VERIFY"          -> "VERIFY_SELECT_PAGE"
    [] k[1] = "TUN_ZERO"        -> "TUN_ZERO_PAGE"
    [] k[1] = "TUN_ZERO_RETURN" -> "SENSOR_TEST_PAGE"
    [] k[1] = "OTHER" /\ p \in {"MAIN_PAGE", "SENSOR_TEST_PAGE"} -> "SYSTEM_SET_PAGE"
    [] k[1] = "OTHER" /\ p \in {"CURVE_PAGE", "LIST_PAGE", "STATE_PAGE"} -> "MAIN_PAGE"
    [] OTHER -> p

Pages == {"MAIN_PAGE", "CURVE_PAGE", "LIST_PAGE", "STATE_PAGE", "LOG_IN_PAGE",
          "SYSTEM_SET_PAGE", "SENSOR_TEST_PAGE",
          "VERIFY_SELECT_PAGE", "VERIFY_PAGE", "TUN_ZERO_PAGE", "OFF_PAGE"}

Init ==
  /\ page = "MAIN_PAGE" /\ keys = <<>>
  /\ pc = "idle" /\ key = K("NONE")
  /\ lit = TRUE /\ armed = TRUE
  /\ g_index = "NONE" /\ logged = FALSE /\ done = FALSE
  /\ mode = "normal" /\ obj \in Objects /\ told = obj
  /\ point = NoPoint /\ zeroing = FALSE
  /\ answers = 0 /\ cap = "idle" /\ drawn = NoPoint /\ overtaken = FALSE
  /\ calm = TRUE
----------------------------------------------------------------------------
(* The device and the signals. *)

AtRest == pc = "idle" /\ keys = <<>>

Touch(k) ==
  /\ k \in Keys(page) /\ Len(keys) < MaxKeys
  /\ keys' = Append(keys, k)
  /\ page' = JumpOf(k, page)
  /\ calm' = (calm /\ AtRest)
  /\ UNCHANGED <<handler, light, g_index, logged, done, factory, verify>>

(* One of the four state pages returns without a key. *)
Jump ==
  /\ page = "STATE_PAGE" /\ page' = "MAIN_PAGE"
  /\ calm' = (calm /\ AtRest)
  /\ UNCHANGED <<keys, handler, light, g_index, logged, done, factory, verify>>

(* The signal handler runs between any two steps of input_handle(). *)
lcd_off ==
  /\ armed
  /\ page' = "OFF_PAGE" /\ lit' = FALSE /\ armed' = FALSE
  /\ calm' = (calm /\ AtRest)
  /\ UNCHANGED <<keys, handler, g_index, logged, done, factory, verify>>

(* load_history() is over, in its own process. *)
HistoryDone ==
  /\ ~done /\ done' = TRUE
  /\ UNCHANGED <<device, handler, light, g_index, logged, factory, verify, calm>>
----------------------------------------------------------------------------
(* input_handle(), down to the key. *)

ReadKey ==
  /\ AtRest = FALSE /\ pc = "idle"
  /\ key' = Head(keys) /\ keys' = Tail(keys)
  /\ pc' = "check"
  /\ UNCHANGED <<page, light, g_index, logged, done, factory, verify, calm>>

Resume(g) ==
  IF g \in {"TUN_ZERO_PAGE", "VERIFY_SELECT_PAGE", "VERIFY_PAGE"} THEN g ELSE "MAIN_PAGE"

CheckLight ==
  /\ pc = "check"
  /\ IF lit THEN page' = page /\ pc' = "arm"
            ELSE page' = Resume(g_index) /\ pc' = "wake"
  /\ UNCHANGED <<keys, key, light, g_index, logged, done, factory, verify, calm>>

(* lcd_on() has slept its 100 ms after the change of page. *)
WakeUp ==
  /\ pc = "wake"
  /\ lit' = TRUE /\ pc' = "arm"
  /\ UNCHANGED <<device, key, armed, g_index, logged, done, factory, verify, calm>>

(* Mutant: a display that was lit is not armed again. *)
ArmDarkOnly ==
  /\ pc = "arm"
  /\ pc' = "act" /\ armed' = ~lit
  /\ UNCHANGED <<device, key, lit, g_index, logged, done, factory, verify, calm>>

Arm ==
  /\ pc = "arm"
  /\ pc' = "act" /\ armed' = TRUE
  /\ UNCHANGED <<device, key, lit, g_index, logged, done, factory, verify, calm>>

(* The handler of a key, which ends the call unless it says more. *)
On(name) == pc = "act" /\ key[1] = name /\ UNCHANGED <<light, done, calm>>
Ends     == pc' = "idle" /\ key' = K("NONE") /\ UNCHANGED keys
Shows(p) == page' = p
----------------------------------------------------------------------------
(* History and log-in. *)

RunTime ==
  /\ On("RUN_TIME") /\ Ends
  /\ Shows(IF ~logged THEN "LOG_IN_PAGE" ELSE IF done THEN "CURVE_PAGE" ELSE "LIST_PAGE")
  /\ g_index' = "LIST_PAGE"
  /\ UNCHANGED <<logged, factory, verify>>

CurveList ==
  /\ On("CURVE_LIST") /\ Ends
  /\ Shows(IF g_index = "LIST_PAGE" THEN "LIST_PAGE" ELSE page)
  /\ UNCHANGED <<g_index, logged, factory, verify>>

show_sensor_network ==
  /\ On("DEVICE_STATE") /\ Ends /\ Shows("STATE_PAGE")
  /\ UNCHANGED <<g_index, logged, factory, verify>>

BackPage == IF g_index = "SYSTEM_SET_PAGE" THEN "SYSTEM_SET_PAGE" ELSE "MAIN_PAGE"

UserReturn ==
  /\ On("USER_RETURN_VERIFY") /\ Ends /\ Shows(BackPage)
  /\ UNCHANGED <<g_index, logged, factory, verify>>

(* A user the server or the program itself knows; nobody is logged out again. *)
verify_pwd(ok) == logged' = (logged \/ ok)

(* Mutant: the page of a log-in is shown whatever verify_pwd() says. *)
log_in_always ==
  /\ On("USER_OK_VERIFY")
  /\ \E ok \in BOOLEAN : verify_pwd(ok)
  /\ Shows(IF g_index = "SYSTEM_SET_PAGE" THEN "SENSOR_TEST_PAGE"
           ELSE IF done THEN "CURVE_PAGE" ELSE "MAIN_PAGE")
  /\ pc' = "after" /\ UNCHANGED <<keys, key, g_index, factory, verify>>

(* log_in(): the fields and the password are read and verified, or not. *)
log_in ==
  /\ On("USER_OK_VERIFY")
  /\ \E ok \in BOOLEAN :
       /\ verify_pwd(ok)
       /\ Shows(IF ~ok THEN BackPage
                ELSE IF g_index = "SYSTEM_SET_PAGE" THEN "SENSOR_TEST_PAGE"
                ELSE IF done THEN "CURVE_PAGE" ELSE "MAIN_PAGE")
  /\ pc' = "after" /\ UNCHANGED <<keys, key, g_index, factory, verify>>

(* After log_in() *history_done is read again: it may have changed since. *)
AfterLogIn ==
  /\ pc = "after" /\ Ends
  /\ Shows(IF logged /\ ~done /\ g_index = "LIST_PAGE" THEN "LIST_PAGE" ELSE page)
  /\ UNCHANGED <<light, g_index, logged, done, factory, verify, calm>>

SensorSet ==
  /\ On("SENSOR_SET") /\ Ends
  /\ Shows(IF logged THEN "SENSOR_TEST_PAGE" ELSE "LOG_IN_PAGE")
  /\ g_index' = "SYSTEM_SET_PAGE"
  /\ UNCHANGED <<logged, factory, verify>>

SysSetReturn ==
  /\ On("SYS_SET_RETURN") /\ Ends /\ Shows(page)
  /\ g_index' = "MAIN_PAGE"
  /\ UNCHANGED <<logged, factory, verify>>
----------------------------------------------------------------------------
(* Verification and zeroing.  tun_zero() and jiaozhun() write to the board. *)

AskVerify ==
  /\ On("VERIFY") /\ Ends /\ Shows(page)
  /\ g_index' = "VERIFY_SELECT_PAGE"
  /\ UNCHANGED <<logged, factory, verify>>

(* The board is told only when the mode changes; it will answer. *)
jiaozhun(on, sensor) ==
  IF on
  THEN /\ Shows("VERIFY_PAGE") /\ mode' = "verify"
       /\ IF mode = "verify" THEN UNCHANGED <<told, answers>>
          ELSE answers < MaxAnswers /\ told' = sensor /\ answers' = answers + 1
  ELSE /\ Shows("SENSOR_TEST_PAGE") /\ mode' = IF mode = "verify" THEN "normal" ELSE mode
       /\ UNCHANGED <<told, answers>>

(* Mutant: the page to come back to is not remembered. *)
VerifyObjectUnindexed ==
  /\ On("VERIFY_OBJECT") /\ Ends
  /\ obj' = key[2]
  /\ jiaozhun(TRUE, key[2])
  /\ UNCHANGED <<g_index, logged, point, zeroing, cap, lamps>>

VerifyObject ==
  /\ On("VERIFY_OBJECT") /\ Ends
  /\ g_index' = "VERIFY_PAGE"
  /\ obj' = key[2]
  /\ jiaozhun(TRUE, key[2])
  /\ UNCHANGED <<logged, point, zeroing, cap, lamps>>

(* Mutant: the mode is left on. *)
VerifyExitKeepsMode ==
  /\ On("VERIFY_EXIT") /\ Ends /\ Shows("SENSOR_TEST_PAGE")
  /\ zeroing' = (zeroing /\ point # 0)
  /\ point' = NoPoint
  /\ UNCHANGED <<g_index, logged, mode, obj, told, verify>>

(* Mutant: the point stays selected. *)
VerifyExitKeepsPoint ==
  /\ On("VERIFY_EXIT") /\ Ends
  /\ zeroing' = (zeroing /\ point # 0)
  /\ jiaozhun(FALSE, obj)
  /\ UNCHANGED <<g_index, logged, obj, point, cap, lamps>>

(* The lamps stay as they are. *)
VerifyExit ==
  /\ On("VERIFY_EXIT") /\ Ends
  /\ zeroing' = (zeroing /\ point # 0)
  /\ point' = NoPoint /\ overtaken' = FALSE
  /\ jiaozhun(FALSE, obj)
  /\ UNCHANGED <<g_index, logged, obj, cap, drawn>>

show_point(index) == drawn' = index /\ overtaken' = (calm /\ answers > 0)

(* Mutant: leaving the zero point does not stop the zeroing. *)
VerifyPointGoesOn ==
  /\ On("JIAOZHUN_P") /\ Ends /\ Shows(page)
  /\ point' = key[2]
  /\ zeroing' = (zeroing \/ key[2] = 0)
  /\ IF key[2] = point THEN UNCHANGED lamps ELSE show_point(key[2])
  /\ UNCHANGED <<g_index, logged, mode, obj, told, answers, cap>>

(* Touching the point that is selected does nothing. *)
VerifyPoint ==
  /\ On("JIAOZHUN_P") /\ Ends /\ Shows(page)
  /\ point' = key[2]
  /\ zeroing' = IF key[2] = point THEN zeroing ELSE key[2] = 0 \/ (zeroing /\ point # 0)
  /\ IF key[2] = point THEN UNCHANGED lamps ELSE show_point(key[2])
  /\ UNCHANGED <<g_index, logged, mode, obj, told, answers, cap>>

(* A value was typed: whatever else waits in the port is thrown away. *)
VerifyValue ==
  /\ On("VERIFY_VALUE") /\ Shows(page)
  /\ pc' = "idle" /\ key' = K("NONE") /\ keys' = <<>>
  /\ UNCHANGED <<g_index, logged, factory, verify>>

AskTunZero ==
  /\ On("TUN_ZERO") /\ Ends /\ Shows(page)
  /\ g_index' = "TUN_ZERO_PAGE"
  /\ UNCHANGED <<logged, factory, verify>>

(* tun_zero(fd_lcd,1): the request goes to the display, not to the board. *)
TunZeroBegin ==
  /\ On("TUN_ZERO_BEGIN") /\ Ends /\ Shows(page)
  /\ mode' = "zero"
  /\ UNCHANGED <<g_index, logged, obj, point, told, zeroing, verify>>

TunZeroStop ==
  /\ On("TUN_ZERO_END") \/ On("TUN_ZERO_RETURN")
  /\ Ends /\ Shows(page)
  /\ mode' = IF mode = "zero" THEN "normal" ELSE mode
  /\ UNCHANGED <<g_index, logged, obj, point, told, zeroing, verify>>

(* Keys the handler does not know. *)
OtherKey ==
  /\ On("OTHER") /\ Ends /\ Shows(page)
  /\ UNCHANGED <<g_index, logged, factory, verify>>

----------------------------------------------------------------------------
(* get_uart(): the CAP process reads *factory_mode for an answer of the board,
   and again unless it was NORMAL_MODE.  What it then shows is left out but for
   the lamps; in NORMAL_MODE it takes the answer for a reading.             *)

clear_point == drawn' = NoPoint

Answer ==
  /\ answers > 0 /\ cap = "idle"
  /\ IF mode = "normal" THEN answers' = answers - 1 /\ cap' = cap
                        ELSE cap' = "factory" /\ answers' = answers
  /\ UNCHANGED <<device, handler, light, g_index, logged, done, factory, lamps, calm>>

show_verify_point ==
  /\ cap = "factory"
  /\ cap' = "idle" /\ answers' = answers - 1
  /\ IF mode = "zero" THEN drawn' = drawn ELSE clear_point
  /\ UNCHANGED <<device, handler, light, g_index, logged, done, factory, overtaken, calm>>

Device == (\E k \in Keys(page) : Touch(k)) \/ Jump \/ lcd_off \/ HistoryDone

Handle ==
  \/ ReadKey \/ CheckLight \/ WakeUp \/ Arm
  \/ RunTime \/ CurveList \/ show_sensor_network
  \/ UserReturn \/ log_in \/ AfterLogIn \/ SensorSet \/ SysSetReturn
  \/ AskVerify \/ VerifyObject \/ VerifyExit \/ VerifyPoint \/ VerifyValue
  \/ AskTunZero \/ TunZeroBegin \/ TunZeroStop
  \/ OtherKey

Next == Device \/ Handle \/ Answer \/ show_verify_point

Spec == Init /\ [][Next]_vars
----------------------------------------------------------------------------
(* Every variable holds the kind of value the declarations say. *)
TypeOK ==
  /\ page \in Pages
  /\ keys \in Seq(UNION {Keys(p) : p \in Pages}) /\ Len(keys) <= MaxKeys
  /\ pc \in {"idle", "check", "wake", "arm", "act", "after"}
  /\ lit \in BOOLEAN /\ armed \in BOOLEAN /\ logged \in BOOLEAN /\ done \in BOOLEAN
  /\ g_index \in Pages \cup {"NONE"}
  /\ mode \in {"normal", "zero", "verify"}
  /\ obj \in Objects /\ told \in Objects /\ point \in Points \cup {NoPoint}
  /\ zeroing \in BOOLEAN /\ overtaken \in BOOLEAN
  /\ answers \in 0..MaxAnswers /\ cap \in {"idle", "factory"}
  /\ drawn \in Points \cup {NoPoint}

(* Between two keys a lit display has an alarm running, although the signal can
   come in the middle of the handler that stops and starts it: it will not
   stay lit for ever.                                                       *)
LitIsArmed == pc = "idle" /\ lit => armed

(* The board is zeroing for a verification exactly while the zero point is the
   one selected, whatever keys follow each other.                           *)
ZeroingIsPointZero == zeroing <=> point = 0

(* The history and the sensor pages are shown to a user who has logged in. *)
PagesNeedLogIn ==
  page \in {"CURVE_PAGE", "LIST_PAGE", "SENSOR_TEST_PAGE", "VERIFY_SELECT_PAGE",
            "VERIFY_PAGE", "TUN_ZERO_PAGE"} => logged

(* While *factory_mode is not NORMAL_MODE the CAP process handles no reading.  A
   user who waits for the display always has the page before him that leaves
   the mode, also after the display went dark and was lit again.            *)
ModeHasItsPage ==
  calm /\ AtRest =>
    /\ mode = "verify" => g_index = "VERIFY_PAGE" /\ page \in {"VERIFY_PAGE", "OFF_PAGE"}
    /\ mode = "zero" => g_index = "TUN_ZERO_PAGE" /\ page \in {"TUN_ZERO_PAGE", "OFF_PAGE"}

(* For such a user the board verifies the sensor that was selected last, though
   it is told only when the mode changes.                                   *)
VerifiesSelected == calm /\ mode = "verify" => told = obj

(* For such a user the point lit on the page is the one that a value he types
   will correct, although one process lights it and another puts it out, and
   leaving the page does not; unless he selected it before the board answered. *)
PointIsShown ==
  calm /\ AtRest /\ mode = "verify" /\ answers = 0 /\ ~overtaken => drawn = point
============================================================================
