---------------------------- MODULE PanelProofs ----------------------------
(***************************************************************************)
(* Proofs about Panel, for any sensors and points, and any number of keys  *)
(* and answers that wait.                                                  *)
(***************************************************************************)
EXTENDS Panel, TLAPS

AllKeys == UNION {Keys(p) : p \in Pages}

(* The keys of the pages, as far as the handlers take their argument, and the
   pages the display jumps to.                                              *)
LEMMA KeyTypes ==
  ASSUME NEW k \in AllKeys
  PROVE  /\ k[1] = "VERIFY_OBJECT" => k[2] \in Objects
         /\ k[1] = "JIAOZHUN_P" => k[2] \in Points
<1>1. PICK p \in Pages : k \in Keys(p)
  BY DEF AllKeys
<1>2. QED
  BY <1>1 DEF Keys, K, Pages

LEMMA JumpType ==
  ASSUME NEW k, NEW p \in Pages
  PROVE  JumpOf(k, p) \in Pages
  BY DEF JumpOf, Pages

(* The variables without the pages and the keys. *)
PlainTypes ==
  /\ pc \in {"idle", "check", "wake", "arm", "act", "after"}
  /\ lit \in BOOLEAN /\ armed \in BOOLEAN /\ logged \in BOOLEAN /\ done \in BOOLEAN
  /\ g_index \in Pages \cup {"NONE"}
  /\ mode \in {"normal", "zero", "verify"}
  /\ obj \in Objects /\ told \in Objects /\ point \in Points \cup {NoPoint}
  /\ zeroing \in BOOLEAN /\ overtaken \in BOOLEAN
  /\ answers \in 0..MaxAnswers /\ cap \in {"idle", "factory"}
  /\ cap = "factory" => answers > 0
  /\ drawn \in Points \cup {NoPoint}

(* The key in hand is one of the display's; an answer in hand is one that waits. *)
TypeInv ==
  /\ TypeOK
  /\ key \in AllKeys \cup {K("NONE")}
  /\ cap = "factory" => answers > 0

LEMMA TypeInit == Init => TypeInv
<1> SUFFICES ASSUME Init PROVE TypeInv
  OBVIOUS
<1>1. keys \in Seq(AllKeys) /\ Len(keys) <= MaxKeys /\ answers \in 0..MaxAnswers
  BY KeysAssumption DEF Init
<1>2. page \in Pages
  BY DEF Init, Pages
<1>3. QED
  BY <1>1, <1>2, PointAssumption DEF Init, TypeInv, TypeOK, AllKeys

(* The keys that wait. *)
LEMMA KeyQueue ==
  ASSUME NEW S, NEW s \in Seq(S)
  PROVE  /\ \A k \in S : Append(s, k) \in Seq(S) /\ Len(Append(s, k)) = Len(s) + 1
         /\ s # <<>> => Tail(s) \in Seq(S) /\ Head(s) \in S /\ Len(Tail(s)) = Len(s) - 1
  OBVIOUS

LEMMA TypeStep == TypeInv /\ [Next]_vars => TypeInv'
<1> SUFFICES ASSUME TypeInv, [Next]_vars PROVE TypeInv'
  OBVIOUS
<1> USE DEF handler, light, factory, lamps, verify, device
<1>0. /\ page \in Pages /\ keys \in Seq(AllKeys) /\ Len(keys) <= MaxKeys
      /\ Len(keys) \in Nat /\ key \in AllKeys \cup {K("NONE")}
  BY DEF TypeInv, TypeOK, AllKeys
<1> DEFINE Keeps == page' \in Pages /\ keys' \in Seq(AllKeys) /\ Len(keys') <= MaxKeys
                    /\ key' \in AllKeys \cup {K("NONE")}
<1>q. ASSUME Keeps, PlainTypes' PROVE TypeInv'
  BY <1>q DEF TypeInv, TypeOK, PlainTypes, AllKeys
<1>r. PlainTypes
  BY DEF TypeInv, TypeOK, PlainTypes
<1>1. CASE Device
  <2>1. ASSUME NEW k \in Keys(page), Touch(k) PROVE TypeInv'
    <3>1. k \in AllKeys
      BY <1>0 DEF AllKeys
    <3>2. Keeps
      BY <1>0, <2>1, <3>1, JumpType, KeyQueue, KeysAssumption DEF Touch
    <3>3. PlainTypes'
      BY <1>r, <2>1 DEF Touch, PlainTypes
    <3>4. QED
      BY <1>q, <3>2, <3>3
  <2>2. CASE Jump \/ lcd_off \/ HistoryDone
    <3>1. Keeps
      BY <1>0, <2>2 DEF Jump, lcd_off, HistoryDone, Pages
    <3>2. PlainTypes'
      <4>1. CASE Jump
        BY <1>r, <4>1 DEF Jump, PlainTypes
      <4>2. CASE lcd_off
        <5>1. UNCHANGED <<pc, g_index, logged, done, mode, obj, point, told, zeroing, answers, cap, drawn, overtaken>>
          BY <4>2 DEF lcd_off
        <5>2. lit' \in BOOLEAN /\ armed' \in BOOLEAN
          BY <4>2, Zenon DEF lcd_off
        <5>3. QED
          BY <1>r, <5>1, <5>2 DEF PlainTypes
      <4>3. CASE HistoryDone
        BY <1>r, <4>3 DEF HistoryDone, PlainTypes
      <4>4. QED
        BY <2>2, <4>1, <4>2, <4>3
    <3>3. QED
      BY <1>q, <3>1, <3>2
  <2>3. QED
    BY <1>1, <2>1, <2>2 DEF Device
<1>2. CASE ReadKey \/ CheckLight \/ WakeUp \/ Arm
  <2>1. Keeps
    <3>1. CASE ReadKey
      BY <1>0, <3>1, KeyQueue, KeysAssumption DEF ReadKey, AtRest
    <3>2. CASE CheckLight \/ WakeUp \/ Arm
      BY <1>0, <3>2 DEF CheckLight, WakeUp, Arm, Resume, Pages
    <3>3. QED
      BY <1>2, <3>1, <3>2
  <2>2. PlainTypes'
    <3>1. /\ UNCHANGED <<g_index, logged, done, mode, obj, told, point, zeroing, overtaken, answers, cap, drawn>>
          /\ pc' \in {"check", "wake", "arm", "act"}
          /\ lit' \in {lit, TRUE} /\ armed' \in {armed, TRUE}
      BY <1>2 DEF ReadKey, CheckLight, WakeUp, Arm
    <3>2. lit' \in BOOLEAN /\ armed' \in BOOLEAN
      BY <1>r, <3>1 DEF PlainTypes
    <3>3. QED
      BY <1>r, <3>1, <3>2 DEF PlainTypes
  <2>3. QED
    BY <1>q, <2>1, <2>2
<1>e. ASSUME Ends, page' \in Pages PROVE Keeps
  BY <1>0, <1>e DEF Ends
<1>3. CASE RunTime \/ CurveList \/ show_sensor_network \/ UserReturn \/ SensorSet \/ SysSetReturn
           \/ AskVerify \/ AskTunZero \/ TunZeroBegin \/ TunZeroStop \/ OtherKey \/ AfterLogIn
  <2>1. Ends /\ page' \in Pages
    BY <1>0, <1>3 DEF RunTime, CurveList, show_sensor_network, UserReturn, SensorSet, SysSetReturn,
       AskVerify, AskTunZero, TunZeroBegin, TunZeroStop, OtherKey, AfterLogIn, Shows, BackPage, Pages
  <2>2. PlainTypes'
    BY <1>r, <1>3 DEF RunTime, CurveList, show_sensor_network, UserReturn, SensorSet, SysSetReturn,
       AskVerify, AskTunZero, TunZeroBegin, TunZeroStop, OtherKey, AfterLogIn, PlainTypes, On, Ends, Pages
  <2>3. QED
    BY <1>e, <1>q, <2>1, <2>2
<1>4. CASE log_in
  <2>1. Keeps
    BY <1>0, <1>4 DEF log_in, Shows, BackPage, Pages
  <2>2. PlainTypes'
    BY <1>r, <1>4 DEF log_in, verify_pwd, On, PlainTypes
  <2>3. QED
    BY <1>q, <2>1, <2>2
<1>5. CASE VerifyObject \/ VerifyExit
  <2>1. Ends /\ page' \in Pages
    BY <1>0, <1>5 DEF VerifyObject, VerifyExit, jiaozhun, Shows, Pages
  <2>2. VerifyObject => key[2] \in Objects
    BY <1>0, KeyTypes DEF VerifyObject, On, K
  <2>3. answers' \in 0..MaxAnswers /\ (cap' = "factory" => answers' > 0)
    BY <1>r, <1>5, KeysAssumption DEF VerifyObject, VerifyExit, jiaozhun, PlainTypes
  <2>4. PlainTypes'
    <3>1. /\ pc' = "idle" /\ UNCHANGED <<lit, armed, logged, done, cap, drawn>>
          /\ g_index' \in {g_index, "VERIFY_PAGE"} /\ mode' \in {mode, "verify", "normal"}
          /\ point' \in {point, NoPoint}
      BY <1>5 DEF VerifyObject, VerifyExit, jiaozhun, On, Ends
    <3>2. obj' \in Objects /\ told' \in Objects
      BY <1>r, <1>5, <2>2 DEF VerifyObject, VerifyExit, jiaozhun, PlainTypes
    <3>3. zeroing' \in BOOLEAN /\ overtaken' \in BOOLEAN
      BY <1>r, <1>5 DEF VerifyObject, VerifyExit, PlainTypes
    <3>4. QED
      BY <1>r, <2>3, <3>1, <3>2, <3>3 DEF PlainTypes, Pages
  <2>5. QED
    BY <1>e, <1>q, <2>1, <2>4
<1>6. CASE VerifyPoint
  <2>1. Ends /\ page' \in Pages
    BY <1>0, <1>6 DEF VerifyPoint, Shows
  <2>2. key[2] \in Points
    BY <1>0, <1>6, KeyTypes DEF VerifyPoint, On, K
  <2>3. PlainTypes'
    <3>1. /\ pc' = "idle" /\ point' = key[2] /\ drawn' \in {drawn, key[2]}
          /\ UNCHANGED <<lit, armed, g_index, logged, done, mode, obj, told, answers, cap>>
      BY <1>6 DEF VerifyPoint, show_point, On, Ends
    <3>2. zeroing' \in BOOLEAN /\ overtaken' \in BOOLEAN
      BY <1>r, <1>6 DEF VerifyPoint, show_point, PlainTypes
    <3>3. QED
      BY <1>r, <2>2, <3>1, <3>2 DEF PlainTypes
  <2>4. QED
    BY <1>e, <1>q, <2>1, <2>3
<1>7. CASE VerifyValue
  <2>1. Keeps
    BY <1>0, <1>7, KeysAssumption DEF VerifyValue, Shows
  <2>2. PlainTypes'
    BY <1>r, <1>7 DEF VerifyValue, On, PlainTypes
  <2>3. QED
    BY <1>q, <2>1, <2>2
<1>8. CASE Answer \/ show_verify_point
  <2>1. Keeps
    BY <1>0, <1>8 DEF Answer, show_verify_point
  <2>2. answers' \in 0..MaxAnswers /\ (cap' = "factory" => answers' > 0)
    <3>1. answers \in 0..MaxAnswers /\ answers > 0 => answers - 1 \in 0..MaxAnswers
      BY KeysAssumption
    <3>2. answers \in 0..MaxAnswers /\ (cap = "factory" => answers > 0)
      BY <1>r DEF PlainTypes
    <3>3. CASE Answer
      BY <3>1, <3>2, <3>3 DEF Answer
    <3>4. CASE show_verify_point
      BY <3>1, <3>2, <3>4 DEF show_verify_point
    <3>5. QED
      BY <1>8, <3>3, <3>4
  <2>3. PlainTypes'
    BY <1>r, <1>8, <2>2 DEF Answer, show_verify_point, clear_point, PlainTypes
  <2>4. QED
    BY <1>q, <2>1, <2>3
<1>9. CASE UNCHANGED vars
  BY <1>9 DEF vars, TypeInv, TypeOK
<1>10. QED
  BY <1>1, <1>2, <1>3, <1>4, <1>5, <1>6, <1>7, <1>8, <1>9 DEF Next, Handle

LEMMA Types == Spec => []TypeInv
  BY TypeInit, TypeStep, PTL DEF Spec

(* Every variable always holds the kind of value the declarations say. *)
THEOREM TypeCorrect == Spec => []TypeOK
<1>1. TypeInv => TypeOK
  BY DEF TypeInv
<1>2. QED
  BY <1>1, Types, PTL
----------------------------------------------------------------------------
(***************************************************************************)
(* The light.  The alarm runs from the moment the handler has started it,  *)
(* not only between two keys.                                              *)
(***************************************************************************)
ArmedInv == pc \in {"idle", "act", "after"} /\ lit => armed

(* Between two keys a lit display has an alarm running, wherever in the handler
   the signal came.                                                         *)
THEOREM LightGoesOut == Spec => []LitIsArmed
<1> USE DEF handler, light, factory, lamps, verify, device
<1>1. Init => ArmedInv
  BY DEF Init, ArmedInv
<1>2. ASSUME ArmedInv, [Next]_vars PROVE ArmedInv'
  <2>1. CASE Device \/ Answer \/ show_verify_point
    BY <1>2, <2>1 DEF ArmedInv, Device, Touch, Jump, lcd_off, HistoryDone, Answer, show_verify_point
  <2>2. CASE ReadKey \/ CheckLight \/ WakeUp \/ Arm
    BY <1>2, <2>2 DEF ArmedInv, ReadKey, CheckLight, WakeUp, Arm
  <2>3. CASE Handle /\ pc \in {"act", "after"} /\ UNCHANGED light
    BY <1>2, <2>3 DEF ArmedInv
  <2>4. Handle => \/ ReadKey \/ CheckLight \/ WakeUp \/ Arm
                  \/ pc \in {"act", "after"} /\ UNCHANGED light
    BY DEF Handle, RunTime, CurveList, show_sensor_network, UserReturn, SensorSet, SysSetReturn,
       AskVerify, AskTunZero, TunZeroBegin, TunZeroStop, OtherKey, AfterLogIn, log_in,
       VerifyObject, VerifyExit, VerifyPoint, VerifyValue, On
  <2>5. CASE UNCHANGED vars
    BY <1>2, <2>5 DEF vars, ArmedInv
  <2>6. QED
    BY <1>2, <2>1, <2>2, <2>3, <2>4, <2>5 DEF Next
<1>3. ArmedInv => LitIsArmed
  BY DEF ArmedInv, LitIsArmed
<1>4. QED
  BY <1>1, <1>2, <1>3, PTL DEF Spec
----------------------------------------------------------------------------
(* The board zeroes exactly while the zero point is the one selected, for any
   points and any order of keys.                                            *)
THEOREM ZeroingStops == Spec => []ZeroingIsPointZero
<1> USE DEF handler, light, factory, lamps, verify, device
<1>1. Init => ZeroingIsPointZero
  BY PointAssumption DEF Init, ZeroingIsPointZero
<1>2. ASSUME TypeInv, ZeroingIsPointZero, [Next]_vars PROVE ZeroingIsPointZero'
  <2>1. CASE VerifyPoint
    <3>1. CASE key[2] = point
      BY <1>2, <2>1, <3>1 DEF VerifyPoint, ZeroingIsPointZero
    <3>2. CASE key[2] # point
      BY <1>2, <2>1, <3>2 DEF VerifyPoint, ZeroingIsPointZero
    <3>3. QED
      BY <3>1, <3>2
  <2>2. CASE VerifyExit
    BY <1>2, <2>2, PointAssumption DEF VerifyExit, ZeroingIsPointZero, TypeInv, TypeOK
  <2>3. \/ VerifyPoint \/ VerifyExit \/ UNCHANGED <<point, zeroing>>
    BY <1>2 DEF Next, Handle, Device, Touch, Jump, lcd_off, HistoryDone, Answer, show_verify_point,
       ReadKey, CheckLight, WakeUp, Arm, RunTime, CurveList, show_sensor_network, UserReturn,
       SensorSet, SysSetReturn, AskVerify, AskTunZero, TunZeroBegin, TunZeroStop, OtherKey,
       AfterLogIn, log_in, VerifyObject, VerifyValue, vars
  <2>4. CASE UNCHANGED <<point, zeroing>>
    BY <1>2, <2>4 DEF ZeroingIsPointZero
  <2>5. QED
    BY <2>1, <2>2, <2>3, <2>4
<1>3. QED
  BY <1>1, <1>2, Types, PTL DEF Spec
----------------------------------------------------------------------------
(***************************************************************************)
(* The log-in.  The pages of a user who has logged in are reached by keys  *)
(* that only such pages have, also when the key has waited, and by a page  *)
(* that the handler remembers for the light; both must tell of the log-in.  *)
(***************************************************************************)
LogInPages == {"CURVE_PAGE", "LIST_PAGE", "SENSOR_TEST_PAGE", "VERIFY_SELECT_PAGE",
               "VERIFY_PAGE", "TUN_ZERO_PAGE"}
LogInKeys  == {"CURVE_LIST", "VERIFY", "TUN_ZERO", "VERIFY_OBJECT", "VERIFY_EXIT"}

LogInInv ==
  /\ page \in LogInPages => logged
  /\ g_index \in {"VERIFY_SELECT_PAGE", "VERIFY_PAGE", "TUN_ZERO_PAGE"} => logged
  /\ \A i \in DOMAIN keys : keys[i][1] \in LogInKeys => logged
  /\ key[1] \in LogInKeys => logged

LEMMA KeyPages ==
  ASSUME NEW p \in Pages, NEW k \in Keys(p)
  PROVE  /\ k[1] \in LogInKeys => p \in LogInPages
         /\ JumpOf(k, p) \in LogInPages => p \in LogInPages
<1> USE DEF K, Pages, LogInPages, LogInKeys
<1>1. k[1] \in LogInKeys => p \in LogInPages
  BY DEF Keys
<1>2. k[1] \in {"VERIFY", "TUN_ZERO", "TUN_ZERO_RETURN"} => p \in LogInPages
  BY DEF Keys
<1>3. JumpOf(k, p) \in LogInPages => p \in LogInPages
  BY <1>2 DEF JumpOf
<1>4. QED
  BY <1>1, <1>3

LEMMA LogInStep ==
  ASSUME TypeInv, LogInInv, [Next]_vars
  PROVE  LogInInv'
<1> USE DEF handler, light, factory, lamps, verify, device, LogInInv
<1>0. page \in Pages /\ keys \in Seq(AllKeys) /\ logged \in BOOLEAN
  BY DEF TypeInv, TypeOK, AllKeys
<1>1. ASSUME NEW k \in Keys(page), Touch(k) PROVE LogInInv'
  <2>1. keys' = Append(keys, k) /\ page' = JumpOf(k, page) /\ UNCHANGED <<logged, g_index, key>>
    BY <1>1 DEF Touch
  <2>2. (k[1] \in LogInKeys => logged) /\ (page' \in LogInPages => logged)
    BY <1>0, <2>1, KeyPages
  <2>3. k \in AllKeys
    BY <1>0 DEF AllKeys
  <2>4. \A i \in DOMAIN keys' : keys'[i][1] \in LogInKeys => logged
    BY <1>0, <2>1, <2>2, <2>3
  <2>5. QED
    BY <2>1, <2>2, <2>4
<1>2. CASE Jump \/ lcd_off \/ HistoryDone \/ Answer \/ show_verify_point
  BY <1>2 DEF Jump, lcd_off, HistoryDone, Answer, show_verify_point, LogInPages
<1>3. CASE ReadKey
  <2>1. keys # <<>> /\ key' = Head(keys) /\ keys' = Tail(keys) /\ UNCHANGED <<page, logged, g_index>>
    BY <1>3 DEF ReadKey, AtRest
  <2>2. key'[1] \in LogInKeys => logged
    BY <1>0, <2>1
  <2>3. \A i \in DOMAIN keys' : keys'[i][1] \in LogInKeys => logged
    BY <1>0, <2>1
  <2>4. QED
    BY <2>1, <2>2, <2>3
<1>4. CASE CheckLight \/ WakeUp \/ Arm
  BY <1>4 DEF CheckLight, WakeUp, Arm, Resume, LogInPages
<1>e. ASSUME Ends \/ UNCHANGED <<keys, key>> \/ (keys' = <<>> /\ key' = K("NONE")), logged => logged'
      PROVE  /\ \A i \in DOMAIN keys' : keys'[i][1] \in LogInKeys => logged'
             /\ key'[1] \in LogInKeys => logged'
  BY <1>e DEF Ends, K, LogInKeys
<1>5. ASSUME RunTime \/ CurveList \/ show_sensor_network \/ UserReturn \/ SensorSet \/ SysSetReturn
             \/ AskVerify \/ AskTunZero \/ TunZeroBegin \/ TunZeroStop \/ OtherKey \/ AfterLogIn
             \/ VerifyObject \/ VerifyExit \/ VerifyPoint
      PROVE  LogInInv'
  <2>1. Ends /\ logged' = logged
    BY <1>5 DEF RunTime, CurveList, show_sensor_network, UserReturn, SensorSet, SysSetReturn,
       AskVerify, AskTunZero, TunZeroBegin, TunZeroStop, OtherKey, AfterLogIn,
       VerifyObject, VerifyExit, VerifyPoint
  <2>2. page' \in LogInPages => logged
    BY <1>5 DEF RunTime, CurveList, show_sensor_network, UserReturn, SensorSet, SysSetReturn,
       AskVerify, AskTunZero, TunZeroBegin, TunZeroStop, OtherKey, AfterLogIn,
       VerifyObject, VerifyExit, VerifyPoint, jiaozhun, Shows, BackPage, On, LogInPages, LogInKeys
  <2>3. g_index' \in {"VERIFY_SELECT_PAGE", "VERIFY_PAGE", "TUN_ZERO_PAGE"} => logged
    BY <1>5 DEF RunTime, CurveList, show_sensor_network, UserReturn, SensorSet, SysSetReturn,
       AskVerify, AskTunZero, TunZeroBegin, TunZeroStop, OtherKey, AfterLogIn,
       VerifyObject, VerifyExit, VerifyPoint, On, LogInKeys
  <2>4. QED
    BY <1>e, <2>1, <2>2, <2>3
<1>6. CASE log_in
  <2>1. UNCHANGED <<keys, key, g_index>> /\ (logged => logged')
    BY <1>0, <1>6 DEF log_in, verify_pwd
  <2>2. page' \in LogInPages => logged'
    BY <1>0, <1>6 DEF log_in, verify_pwd, Shows, BackPage, LogInPages
  <2>3. QED
    BY <1>e, <2>1, <2>2
<1>7. CASE VerifyValue
  BY <1>e, <1>7 DEF VerifyValue, Shows
<1>8. CASE UNCHANGED vars
  BY <1>8 DEF vars
<1>9. QED
  BY <1>1, <1>2, <1>3, <1>4, <1>5, <1>6, <1>7, <1>8 DEF Next, Device, Handle

(* The history and the sensor pages are shown to a user who has logged in, with
   any number of keys of earlier pages waiting.                             *)
THEOREM PagesAreGuarded == Spec => []PagesNeedLogIn
<1>1. Init => LogInInv
  BY DEF Init, LogInInv, LogInPages, LogInKeys, K
<1>2. LogInInv => PagesNeedLogIn
  BY DEF LogInInv, PagesNeedLogIn, LogInPages
<1>3. QED
  BY <1>1, <1>2, LogInStep, Types, PTL DEF Spec
----------------------------------------------------------------------------
(***************************************************************************)
(* The modes.  For a calm user every key in hand still has the page it was *)
(* touched on (or the one the display jumped to), and that page tells what *)
(* the handler remembers.                                                  *)
(***************************************************************************)

(* The key a calm user has touched and that has not been handled. *)
Hand == IF pc # "idle" THEN key ELSE IF keys = <<>> THEN K("NONE") ELSE Head(keys)

(* Keys and the page that shows while they are in hand. *)
HandPages == {<<"TUN_ZERO_BEGIN", "TUN_ZERO_PAGE">>, <<"TUN_ZERO", "TUN_ZERO_PAGE">>,
              <<"VERIFY_OBJECT", "VERIFY_SELECT_PAGE">>, <<"VERIFY", "VERIFY_SELECT_PAGE">>,
              <<"JIAOZHUN_P", "VERIFY_PAGE">>, <<"SYS_SET_RETURN", "MAIN_PAGE">>}

VerifyKeys == {"OTHER", "VERIFY_EXIT", "VERIFY_VALUE", "JIAOZHUN_P"}
ZeroKeys   == {"OTHER", "TUN_ZERO_BEGIN", "TUN_ZERO_END", "TUN_ZERO_RETURN"}

Verifying == mode = "verify" \/ point # NoPoint

OneKey   == keys = <<>> \/ (pc = "idle" /\ Len(keys) = 1)
DarkHand == ~lit => Hand[1] \in {"NONE", "OTHER"} /\ (page = "OFF_PAGE" \/ pc = "wake")
LogHand  == pc = "after" => key[1] = "USER_OK_VERIFY"

(* The page of a mode, the page the handler remembers, and the key in hand. *)
PageInv ==
  /\ Verifying => /\ g_index = "VERIFY_PAGE" /\ page \in {"VERIFY_PAGE", "OFF_PAGE"}
                  /\ Hand[1] \in {"NONE"} \cup VerifyKeys
  /\ mode = "zero" => /\ g_index = "TUN_ZERO_PAGE"
                      /\ page \in {"TUN_ZERO_PAGE", "OFF_PAGE"} \/ Hand[1] = "TUN_ZERO_RETURN"
                      /\ Hand[1] \in {"NONE"} \cup ZeroKeys
  /\ page = "VERIFY_PAGE" => g_index = "VERIFY_PAGE"
  /\ page = "TUN_ZERO_PAGE" => g_index = "TUN_ZERO_PAGE" \/ Hand[1] = "TUN_ZERO"
  /\ \A h \in HandPages : Hand[1] = h[1] => page = h[2]

(* The board is told, and its answer puts the lamp out before a point is selected. *)
LampInv ==
  /\ mode = "verify" => told = obj
  /\ answers > 0 /\ point # NoPoint => overtaken
  /\ answers = 0 /\ mode = "verify" /\ ~overtaken => drawn = point

CalmInv == calm => OneKey /\ DarkHand /\ LogHand /\ PageInv /\ LampInv

LEMMA HandKeys ==
  ASSUME NEW p \in Pages, NEW k \in Keys(p)
  PROVE  /\ p = "OFF_PAGE" => k[1] = "OTHER" /\ JumpOf(k, p) = p
         /\ p = "VERIFY_PAGE" => k[1] \in VerifyKeys /\ JumpOf(k, p) = p
         /\ p = "TUN_ZERO_PAGE" => /\ k[1] \in ZeroKeys
                                   /\ k[1] # "TUN_ZERO_RETURN" => JumpOf(k, p) = p
         /\ JumpOf(k, p) = "VERIFY_PAGE" => p = "VERIFY_PAGE"
         /\ JumpOf(k, p) = "TUN_ZERO_PAGE" => p = "TUN_ZERO_PAGE" \/ k[1] = "TUN_ZERO"
         /\ \A h \in HandPages : k[1] = h[1] => JumpOf(k, p) = h[2]
<1> USE DEF K, Pages
<1>1. p = "OFF_PAGE" => k[1] = "OTHER" /\ JumpOf(k, p) = p
  BY DEF Keys, JumpOf
<1>2. p = "VERIFY_PAGE" => k[1] \in VerifyKeys /\ JumpOf(k, p) = p
  BY DEF Keys, JumpOf, VerifyKeys
<1>3. p = "TUN_ZERO_PAGE" => /\ k[1] \in ZeroKeys
                             /\ k[1] # "TUN_ZERO_RETURN" => JumpOf(k, p) = p
  BY DEF Keys, JumpOf, ZeroKeys
<1>4. /\ JumpOf(k, p) = "VERIFY_PAGE" => p = "VERIFY_PAGE"
      /\ JumpOf(k, p) = "TUN_ZERO_PAGE" => p = "TUN_ZERO_PAGE" \/ k[1] = "TUN_ZERO"
  BY DEF JumpOf
<1>5. /\ k[1] = "TUN_ZERO_BEGIN" => p = "TUN_ZERO_PAGE"
      /\ k[1] = "VERIFY_OBJECT" => p = "VERIFY_SELECT_PAGE"
      /\ k[1] = "JIAOZHUN_P" => p = "VERIFY_PAGE"
  BY DEF Keys
<1>6. \A h \in HandPages : k[1] = h[1] => JumpOf(k, p) = h[2]
  BY <1>5 DEF JumpOf, HandPages
<1>7. QED
  BY <1>1, <1>2, <1>3, <1>4, <1>6

(* What a calm user has touched is handled before he touches again. *)
LEMMA HandEnds ==
  ASSUME OneKey, pc # "idle", Ends \/ (pc' = "idle" /\ key' = K("NONE") /\ keys' = <<>>)
  PROVE  OneKey' /\ LogHand' /\ Hand = key /\ Hand'[1] = "NONE" /\ pc' = "idle"
BY DEF OneKey, LogHand, Hand, Ends, K

LEMMA CalmDevice ==
  ASSUME TypeInv, CalmInv, Device
  PROVE  CalmInv'
<1> USE DEF handler, light, factory, lamps, verify, device
<1>0. page \in Pages
  BY DEF TypeInv, TypeOK
<1>1. CASE HistoryDone
  BY <1>1 DEF HistoryDone, CalmInv, OneKey, DarkHand, LogHand, PageInv, LampInv, Hand, Verifying
<1>2. SUFFICES ASSUME Jump \/ lcd_off \/ \E k \in Keys(page) : Touch(k), calm'
               PROVE  CalmInv'
  BY <1>1, <1>2 DEF Device, CalmInv
<1>3. calm /\ AtRest
  BY <1>2 DEF Touch, Jump, lcd_off
<1>4. OneKey /\ DarkHand /\ PageInv /\ LampInv /\ Hand[1] = "NONE" /\ pc = "idle" /\ keys = <<>>
  BY <1>3 DEF CalmInv, AtRest, Hand, K
<1>5. UNCHANGED <<pc, key, g_index, factory, verify>>
  BY <1>2 DEF Touch, Jump, lcd_off
<1>6. LampInv' /\ LogHand'
  BY <1>4, <1>5 DEF LampInv, LogHand
<1>7. ASSUME NEW k \in Keys(page), Touch(k) PROVE CalmInv'
  <2>1. keys' = <<k>> /\ page' = JumpOf(k, page) /\ lit' = lit
    BY <1>4, <1>7 DEF Touch
  <2>2. OneKey' /\ Hand' = k
    BY <1>4, <1>5, <2>1 DEF OneKey, Hand
  <2>3. DarkHand'
    BY <1>0, <1>4, <1>5, <2>1, <2>2, HandKeys DEF DarkHand
  <2>4. Verifying' => /\ g_index' = "VERIFY_PAGE" /\ page' \in {"VERIFY_PAGE", "OFF_PAGE"}
                      /\ Hand'[1] \in VerifyKeys
    BY <1>0, <1>4, <1>5, <2>1, <2>2, HandKeys DEF PageInv, Verifying, VerifyKeys
  <2>5. mode' = "zero" => /\ g_index' = "TUN_ZERO_PAGE"
                          /\ page' \in {"TUN_ZERO_PAGE", "OFF_PAGE"} \/ Hand'[1] = "TUN_ZERO_RETURN"
                          /\ Hand'[1] \in ZeroKeys
    BY <1>0, <1>4, <1>5, <2>1, <2>2, HandKeys DEF PageInv, ZeroKeys
  <2>6. /\ page' = "VERIFY_PAGE" => g_index' = "VERIFY_PAGE"
        /\ page' = "TUN_ZERO_PAGE" => g_index' = "TUN_ZERO_PAGE" \/ Hand'[1] = "TUN_ZERO"
    BY <1>0, <1>4, <1>5, <2>1, <2>2, HandKeys DEF PageInv
  <2>7. \A h \in HandPages : Hand'[1] = h[1] => page' = h[2]
    BY <1>0, <2>1, <2>2, HandKeys
  <2>8. PageInv'
    BY <2>4, <2>5, <2>6, <2>7 DEF PageInv
  <2>9. QED
    BY <1>6, <2>2, <2>3, <2>8 DEF CalmInv
<1>8. CASE Jump \/ lcd_off
  <2>1. UNCHANGED keys /\ OneKey' /\ Hand'[1] = "NONE"
    BY <1>4, <1>5, <1>8 DEF Jump, lcd_off, OneKey, Hand
  <2>2. DarkHand'
    <3>1. CASE Jump
      BY <1>4, <2>1, <3>1 DEF Jump, DarkHand
    <3>2. CASE lcd_off
      BY <2>1, <3>2 DEF lcd_off, DarkHand
    <3>3. QED
      BY <1>8, <3>1, <3>2
  <2>3. PageInv'
    BY <1>4, <1>5, <1>8, <2>1 DEF Jump, lcd_off, PageInv, Verifying, HandPages
  <2>4. QED
    BY <1>6, <2>1, <2>2, <2>3 DEF CalmInv
<1>9. QED
  BY <1>2, <1>7, <1>8

(* Down to the key, and in the CAP process. *)
LEMMA CalmRead ==
  ASSUME TypeInv, CalmInv, ReadKey \/ CheckLight \/ WakeUp \/ Arm \/ Answer \/ show_verify_point
  PROVE  CalmInv'
<1> USE DEF handler, light, factory, lamps, verify, device
<1>1. SUFFICES ASSUME calm' PROVE CalmInv'
  BY DEF CalmInv
<1>2. OneKey /\ DarkHand /\ LogHand /\ PageInv /\ LampInv
  BY <1>1 DEF CalmInv, ReadKey, CheckLight, WakeUp, Arm, Answer, show_verify_point
<1>3. Hand' = Hand /\ OneKey' /\ LogHand'
  <2>1. CASE ReadKey
    <3>1. keys \in Seq(AllKeys) /\ keys # <<>> /\ Len(keys) = 1
      BY <1>2, <2>1 DEF ReadKey, AtRest, OneKey, TypeInv, TypeOK, AllKeys
    <3>2. Tail(keys) = <<>>
      <4>1. Tail(keys) \in Seq(AllKeys) /\ Len(Tail(keys)) = 0
        BY <3>1, KeyQueue
      <4>2. \A t \in Seq(AllKeys) : Len(t) = 0 => t = <<>>
        OBVIOUS
      <4>3. QED
        BY <4>1, <4>2
    <3>3. QED
      BY <1>2, <2>1, <3>1, <3>2 DEF ReadKey, OneKey, LogHand, Hand
  <2>2. CASE CheckLight \/ WakeUp \/ Arm
    BY <1>2, <2>2 DEF CheckLight, WakeUp, Arm, OneKey, LogHand, Hand
  <2>3. CASE Answer \/ show_verify_point
    BY <1>2, <2>3 DEF Answer, show_verify_point, OneKey, LogHand, Hand
  <2>4. QED
    BY <2>1, <2>2, <2>3
<1>4. CASE ReadKey \/ CheckLight \/ WakeUp \/ Arm
  <2>1. UNCHANGED <<g_index, factory, verify>>
    BY <1>4 DEF ReadKey, CheckLight, WakeUp, Arm
  <2>2. LampInv'
    BY <1>2, <2>1 DEF LampInv
  <2>3. DarkHand' /\ PageInv'
    <3>1. CASE ReadKey \/ WakeUp \/ Arm
      <4>1. page' = page
        BY <3>1 DEF ReadKey, WakeUp, Arm
      <4>2. DarkHand'
        BY <1>2, <1>3, <3>1 DEF ReadKey, WakeUp, Arm, DarkHand, AtRest
      <4>3. PageInv'
        BY <1>2, <1>3, <2>1, <4>1 DEF PageInv, Verifying
      <4>4. QED
        BY <4>2, <4>3
    <3>2. CASE CheckLight /\ lit
      BY <1>2, <1>3, <2>1, <3>2 DEF CheckLight, PageInv, DarkHand, Verifying
    <3>3. CASE CheckLight /\ ~lit
      <4>1. Hand[1] \in {"NONE", "OTHER"} /\ page' = Resume(g_index) /\ pc' = "wake"
        BY <1>2, <3>3 DEF CheckLight, DarkHand
      <4>2. \A h \in HandPages : Hand'[1] # h[1]
        BY <1>3, <4>1 DEF HandPages
      <4>3. QED
        BY <1>2, <1>3, <2>1, <4>1, <4>2 DEF PageInv, DarkHand, Verifying, Resume, VerifyKeys, ZeroKeys
    <3>4. QED
      BY <1>4, <3>1, <3>2, <3>3
  <2>4. QED
    BY <1>3, <2>2, <2>3 DEF CalmInv
<1>5. CASE Answer \/ show_verify_point
  <2>1. UNCHANGED <<page, lit, pc, g_index, factory, overtaken>>
    BY <1>5 DEF Answer, show_verify_point
  <2>2. DarkHand' /\ PageInv'
    BY <1>2, <1>3, <2>1 DEF DarkHand, PageInv, Verifying
  <2>3. LampInv'
    <3>1. answers \in Nat /\ (cap = "factory" => answers > 0)
      BY KeysAssumption DEF TypeInv, TypeOK
    <3>2. CASE Answer
      BY <1>2, <2>1, <3>1, <3>2 DEF Answer, LampInv
    <3>3. CASE show_verify_point
      BY <1>2, <2>1, <3>1, <3>3 DEF show_verify_point, clear_point, LampInv
    <3>4. QED
      BY <1>5, <3>2, <3>3
  <2>4. QED
    BY <1>3, <2>2, <2>3 DEF CalmInv
<1>6. QED
  BY <1>4, <1>5

(* The pages and the log-in. *)
LEMMA CalmPages ==
  ASSUME CalmInv,
         \/ RunTime \/ CurveList \/ show_sensor_network \/ UserReturn \/ SensorSet
         \/ SysSetReturn \/ AskVerify \/ AskTunZero \/ log_in \/ AfterLogIn \/ OtherKey \/ VerifyValue
  PROVE  CalmInv'
<1> USE DEF handler, light, factory, lamps, verify, device
<1>1. SUFFICES ASSUME calm' PROVE CalmInv'
  BY DEF CalmInv
<1>2. /\ OneKey /\ DarkHand /\ LogHand /\ PageInv /\ LampInv
      /\ pc \in {"act", "after"} /\ UNCHANGED <<lit, factory, verify>>
  BY <1>1 DEF CalmInv, RunTime, CurveList, show_sensor_network, UserReturn, SensorSet, SysSetReturn,
     AskVerify, AskTunZero, log_in, AfterLogIn, OtherKey, VerifyValue, On
<1>3. LampInv'
  BY <1>2 DEF LampInv
<1>4. Hand = key
  BY <1>2 DEF Hand
<1>5. CASE log_in
  <2>1. key[1] = "USER_OK_VERIFY" /\ UNCHANGED <<key, keys, g_index>> /\ pc' = "after"
    BY <1>5 DEF log_in, On
  <2>2. OneKey' /\ LogHand' /\ Hand' = key
    BY <1>2, <2>1 DEF OneKey, LogHand, Hand
  <2>3. DarkHand'
    BY <1>2, <1>4, <2>1, <2>2 DEF DarkHand
  <2>4. page' \notin {"VERIFY_PAGE", "TUN_ZERO_PAGE"}
    BY <1>5 DEF log_in, Shows, BackPage
  <2>5. PageInv'
    BY <1>2, <1>4, <2>1, <2>2, <2>4 DEF PageInv, Verifying, VerifyKeys, ZeroKeys, HandPages
  <2>6. QED
    BY <1>3, <2>2, <2>3, <2>5 DEF CalmInv
<1>6. CASE ~log_in
  <2>1. OneKey' /\ LogHand' /\ Hand'[1] = "NONE" /\ pc' = "idle"
    <3>1. Ends \/ (pc' = "idle" /\ key' = K("NONE") /\ keys' = <<>>)
      BY <1>6 DEF RunTime, CurveList, show_sensor_network, UserReturn, SensorSet, SysSetReturn,
         AskVerify, AskTunZero, AfterLogIn, OtherKey, VerifyValue
    <3>2. QED
      BY <1>2, <3>1, HandEnds
  <2>2. DarkHand'
    <3>1. lit \/ key[1] = "OTHER"
      BY <1>2, <1>4, <1>6 DEF DarkHand, LogHand, RunTime, CurveList, show_sensor_network, UserReturn,
         SensorSet, SysSetReturn, AskVerify, AskTunZero, AfterLogIn, OtherKey, VerifyValue, On
    <3>2. key[1] = "OTHER" => page' = page
      BY <1>2, <1>6 DEF LogHand, RunTime, CurveList, show_sensor_network, UserReturn,
         SensorSet, SysSetReturn, AskVerify, AskTunZero, AfterLogIn, OtherKey, VerifyValue, On, Shows
    <3>3. QED
      BY <1>2, <1>4, <2>1, <3>1, <3>2 DEF DarkHand
  <2>3. PageInv'
    <3>1. CASE OtherKey \/ VerifyValue
      <4>1. key[1] \in {"OTHER", "VERIFY_VALUE"} /\ UNCHANGED <<page, g_index, mode, point>>
        BY <3>1 DEF OtherKey, VerifyValue, On, Shows
      <4>2. QED
        BY <1>2, <1>4, <2>1, <4>1 DEF PageInv, Verifying, HandPages
    <3>2. CASE AskVerify \/ AskTunZero \/ SysSetReturn
      <4>1. /\ key[1] \in {"VERIFY", "TUN_ZERO", "SYS_SET_RETURN"} /\ UNCHANGED <<page, mode, point>>
            /\ key[1] = "TUN_ZERO" => g_index' = "TUN_ZERO_PAGE"
        BY <3>2 DEF AskVerify, AskTunZero, SysSetReturn, On, Shows
      <4>2. mode # "zero" /\ ~Verifying
        BY <1>2, <1>4, <4>1 DEF PageInv, VerifyKeys, ZeroKeys
      <4>3. page = IF key[1] = "VERIFY" THEN "VERIFY_SELECT_PAGE"
                   ELSE IF key[1] = "TUN_ZERO" THEN "TUN_ZERO_PAGE" ELSE "MAIN_PAGE"
        BY <1>2, <1>4, <4>1 DEF PageInv, HandPages
      <4>4. QED
        BY <2>1, <4>1, <4>2, <4>3 DEF PageInv, Verifying, HandPages
    <3>3. CASE RunTime \/ CurveList \/ show_sensor_network \/ UserReturn \/ SensorSet \/ AfterLogIn
      <4>1. /\ key[1] \in {"RUN_TIME", "CURVE_LIST", "DEVICE_STATE", "USER_RETURN_VERIFY",
                           "SENSOR_SET", "USER_OK_VERIFY"}
            /\ UNCHANGED <<mode, point>>
            /\ (page' = page /\ g_index' = g_index) \/ page' \notin {"VERIFY_PAGE", "TUN_ZERO_PAGE"}
        BY <1>2, <3>3 DEF LogHand, RunTime, CurveList, show_sensor_network, UserReturn,
           SensorSet, AfterLogIn, On, Shows, BackPage
      <4>2. mode # "zero" /\ ~Verifying
        BY <1>2, <1>4, <4>1 DEF PageInv, VerifyKeys, ZeroKeys
      <4>3. QED
        BY <1>2, <1>4, <2>1, <4>1, <4>2 DEF PageInv, Verifying, HandPages
    <3>4. QED
      BY <1>6, <3>1, <3>2, <3>3
  <2>4. QED
    BY <1>3, <2>1, <2>2, <2>3 DEF CalmInv
<1>7. QED
  BY <1>5, <1>6

(* Verification and zeroing. *)
LEMMA CalmFactory ==
  ASSUME TypeInv, CalmInv, VerifyObject \/ VerifyExit \/ VerifyPoint \/ TunZeroBegin \/ TunZeroStop
  PROVE  CalmInv'
<1> USE DEF handler, light, factory, lamps, verify, device
<1>1. SUFFICES ASSUME calm' PROVE CalmInv'
  BY DEF CalmInv
<1>2. /\ OneKey /\ DarkHand /\ PageInv /\ LampInv
      /\ pc = "act" /\ lit' = lit /\ Ends
      /\ key[1] \in {"VERIFY_OBJECT", "VERIFY_EXIT", "JIAOZHUN_P", "TUN_ZERO_BEGIN",
                     "TUN_ZERO_END", "TUN_ZERO_RETURN"}
  BY <1>1 DEF CalmInv, VerifyObject, VerifyExit, VerifyPoint, TunZeroBegin, TunZeroStop, On
<1>3. OneKey' /\ LogHand' /\ Hand = key /\ Hand'[1] = "NONE"
  BY <1>2, HandEnds
<1>4. DarkHand'
  BY <1>2, <1>3 DEF DarkHand
<1>5. answers \in Nat
  BY DEF TypeInv, TypeOK
<1>6. \A h \in HandPages : Hand'[1] # h[1]
  BY <1>3 DEF HandPages
<1>7. CASE VerifyObject
  <2>1. mode # "zero" /\ ~Verifying
    BY <1>2, <1>3, <1>7 DEF VerifyObject, On, PageInv, VerifyKeys, ZeroKeys
  <2>2. /\ page' = "VERIFY_PAGE" /\ g_index' = "VERIFY_PAGE" /\ mode' = "verify" /\ point' = NoPoint
        /\ told' = obj' /\ answers' = answers + 1
    BY <2>1, <1>7 DEF VerifyObject, jiaozhun, Shows, Verifying
  <2>3. PageInv'
    BY <1>3, <1>6, <2>2 DEF PageInv
  <2>4. LampInv'
    BY <1>5, <2>2 DEF LampInv
  <2>5. QED
    BY <1>3, <1>4, <2>3, <2>4 DEF CalmInv
<1>8. CASE VerifyExit
  <2>1. mode # "zero"
    BY <1>2, <1>3, <1>8 DEF VerifyExit, On, PageInv, ZeroKeys
  <2>2. page' = "SENSOR_TEST_PAGE" /\ mode' \notin {"verify", "zero"} /\ point' = NoPoint
    BY <2>1, <1>8 DEF VerifyExit, jiaozhun, Shows
  <2>3. PageInv'
    BY <1>6, <2>2 DEF PageInv, Verifying
  <2>4. LampInv'
    BY <2>2 DEF LampInv
  <2>5. QED
    BY <1>3, <1>4, <2>3, <2>4 DEF CalmInv
<1>9. CASE VerifyPoint
  <2>1. /\ mode # "zero" /\ page = "VERIFY_PAGE" /\ g_index = "VERIFY_PAGE"
    BY <1>2, <1>3, <1>9 DEF VerifyPoint, On, PageInv, ZeroKeys, HandPages
  <2>2. UNCHANGED <<page, g_index, mode, obj, told, answers, calm>> /\ point' = key[2]
    BY <1>9 DEF VerifyPoint, Shows, On
  <2>3. PageInv'
    BY <1>3, <1>6, <2>1, <2>2 DEF PageInv
  <2>4. LampInv'
    <3>1. CASE key[2] = point
      BY <1>2, <1>9, <2>2, <3>1 DEF VerifyPoint, LampInv
    <3>2. CASE key[2] # point
      <4>1. drawn' = point' /\ overtaken' = (calm /\ answers > 0)
        BY <1>9, <2>2, <3>2 DEF VerifyPoint, show_point
      <4>2. answers' > 0 => overtaken'
        BY <1>1, <2>2, <4>1
      <4>3. QED
        BY <1>2, <2>2, <4>1, <4>2 DEF LampInv
    <3>3. QED
      BY <3>1, <3>2
  <2>5. QED
    BY <1>3, <1>4, <2>3, <2>4 DEF CalmInv
<1>10. CASE TunZeroBegin
  <2>1. /\ ~Verifying /\ page = "TUN_ZERO_PAGE" /\ g_index = "TUN_ZERO_PAGE"
    BY <1>2, <1>3, <1>10 DEF TunZeroBegin, On, PageInv, VerifyKeys, HandPages
  <2>2. UNCHANGED <<page, g_index, point>> /\ mode' = "zero"
    BY <1>10 DEF TunZeroBegin, Shows
  <2>3. PageInv'
    BY <1>3, <1>6, <2>1, <2>2 DEF PageInv, Verifying
  <2>4. LampInv'
    BY <2>1, <2>2 DEF LampInv, Verifying
  <2>5. QED
    BY <1>3, <1>4, <2>3, <2>4 DEF CalmInv
<1>11. CASE TunZeroStop
  <2>1. ~Verifying
    BY <1>2, <1>3, <1>11 DEF TunZeroStop, On, PageInv, VerifyKeys
  <2>2. UNCHANGED <<page, g_index, point>> /\ mode' \notin {"verify", "zero"}
    BY <1>11, <2>1 DEF TunZeroStop, Shows, Verifying
  <2>3. /\ page = "VERIFY_PAGE" => g_index = "VERIFY_PAGE"
        /\ page = "TUN_ZERO_PAGE" => g_index = "TUN_ZERO_PAGE"
    BY <1>2, <1>3 DEF PageInv
  <2>4. PageInv'
    BY <1>6, <2>1, <2>2, <2>3 DEF PageInv, Verifying
  <2>5. LampInv'
    BY <2>1, <2>2 DEF LampInv, Verifying
  <2>6. QED
    BY <1>3, <1>4, <2>4, <2>5 DEF CalmInv
<1>12. QED
  BY <1>7, <1>8, <1>9, <1>10, <1>11

LEMMA CalmInit == Init => CalmInv
  BY PointAssumption DEF Init, CalmInv, OneKey, DarkHand, LogHand, PageInv, LampInv, Verifying, Hand, K, HandPages

LEMMA Calm == Spec => []CalmInv
<1>1. TypeInv /\ CalmInv /\ [Next]_vars => CalmInv'
  <2> SUFFICES ASSUME TypeInv, CalmInv, [Next]_vars PROVE CalmInv'
    OBVIOUS
  <2>1. CASE UNCHANGED vars
    BY <2>1 DEF vars, device, handler, light, factory, lamps, verify, CalmInv, OneKey, DarkHand,
       LogHand, PageInv, LampInv, Verifying, Hand
  <2>2. CASE Next
    BY <2>2, CalmDevice, CalmRead, CalmPages, CalmFactory DEF Next, Handle
  <2>3. QED
    BY <2>1, <2>2
<1>2. QED
  BY <1>1, CalmInit, Types, PTL DEF Spec

(* A user who waits for the display has the page before him that leaves the mode,
   for any sensors and points: the zeroing and the verification end.        *)
THEOREM ModeIsLeft == Spec => []ModeHasItsPage
<1>1. CalmInv => ModeHasItsPage
  BY DEF CalmInv, ModeHasItsPage, AtRest, PageInv, Hand, K, Verifying
<1>2. QED
  BY <1>1, Calm, PTL

(* For such a user the board verifies the sensor that was selected last. *)
THEOREM SelectedIsTold == Spec => []VerifiesSelected
<1>1. CalmInv => VerifiesSelected
  BY DEF CalmInv, VerifiesSelected, LampInv
<1>2. QED
  BY <1>1, Calm, PTL

(* For such a user the lit point is the one that his value corrects, though two
   processes draw it, unless he selected it before the board answered.      *)
THEOREM LitPointIsSelected == Spec => []PointIsShown
<1>1. CalmInv => PointIsShown
  BY DEF CalmInv, PointIsShown, LampInv
<1>2. QED
  BY <1>1, Calm, PTL
=============================================================================
