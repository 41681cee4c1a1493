# TLA+ models of the air monitor (src/web/cap.c)

The repository is the firmware of an indoor air monitor: an ARM board between a
sensor acquisition board (the "cap" board, on a serial port), a DWIN touch
display (on a second one), a GPRS modem (on a third) and a server on the
Internet. The program that is built for the device (`src/web/cmp.sh`) is
`src/web/cap.c` with the helpers in `weblib.c`; the models are of that program.

## 1. Inventory

`main()` (cap.c:4994) creates shared memory segments and forks four processes,
which share these segments, the three serial ports and the files, and no lock:

| process | loop | writes | reads |
|---|---|---|---|
| loader | `load_history` once | history arrays and counters, `*history_done` | files of the days |
| CAP | `get_uart` -> `build_message` | alarms, `g_state->sensor`, history, `sensor_interface_mem`, `sensor_alarm.cfg`, day files, the page of a verification | `*factory_mode`, `server_time` |
| display | `lcd_loop` -> `input_handle` | `*factory_mode`, `*send_by_wifi`, `sensor_interface_mem`, `server_time`, `interface.txt` | history, `g_state`, interfaces |
| synchronisation | `sync_server`, `set_alarm` | `server_time`, the computer's clock | the server's answer, day files (`resend_history`) |

A further CAP process appears with every CO alarm: the child that
`co_flash_alarm()` forks to flash the display returns into `build_message()`.

| component | state | operations | what is hard | what makes it correct |
|---|---|---|---|---|
| alarms | `sensor`, `sensortimes`, `warnning_msg`, `sensor_alarm.cfg` | reading, error frame, TIME frame, save, load | one message for all alarms, equality on a wrapping counter, a forked twin, power failure | no alarm is skipped, or loses its message; file and memory agree |
| link to the server | `*send_by_wifi`, `network_state`, the receive buffer | `send_web_post` | answers without numbers, timeouts, one modem for all processes | an "ok" is the answer to this request; calls return |
| resending | the walk's date, the line in hand | `resend_history` | calendar, retries, late answers | everything in the range is sent, nothing else; the walk ends |
| history | arrays, counters, `*history_done`, page offset | load, save a record, pages, curve | three processes and no lock | complete, in order; the display shows records |
| display | page, light, `g_index`, `logged`, `*factory_mode`, `verify_*` | keys, SIGALRM | signal between two statements, keys that wait, a display that jumps by itself, a page drawn by two processes | the light goes out; modes are left; pages need a log-in; the lit point is the selected one |
| sensor interfaces | `sensor_interface_mem` | ask, show, edit, set; use while zero is tuned | polling for an answer another process writes word by word | what is set is what was shown; zero goes to the right interface |
| clock | `server_time`, three clocks | `sync_server`, `manul_set_time`, `set_alarm`, RESEND_BYTE | torn writes, two writers, a loop that waits for midnight by a clock, that may end there or in a resending | the board gets a whole time, the current one, and again every day |
| link settings | `wifi_select`, `*send_by_wifi`, `interface.txt` | SELECT_*, XFER_SET, XFER_RETURN, read_dgus | stale static, answers and keys on one line, a lost byte, power failure | what is stored is what is shown; file and memory agree |
| history files | one file a day, two lines a record | `save_to_file` | failure between two lines | readable after a crash |
| byte parsers | `state`, `get` | `get_uart`, `lcd_loop` | noise, resynchronisation | frames are found again |

Also in the repository and not part of that program: `src/main` (the start of a
split into processes with a message queue), `cap-gprs.c` (an older variant),
`web.c` and `web_interface.c` (a PC client), `json/` (cJSON), `rtc.c`, `clock.c`,
`time.c` (small tools), `01-22`, `03-08`, `03-12` (display projects).

`PROJECT.json` lists each component with its status, and the hazards with the
line where each bites and the properties that watch it.

## 2. Modules

### Alarm (MCAlarm, AlarmProofs)
The CAP process from a frame that passed its CRC. A frame is a sensor with a
place relative to its limits (`in`, `up`, `below`), an error frame, or the TIME
frame. Memory is a record per process slot (`sensor`, `sent`, `times`, `warn`),
because `fork()` copies it; `disk`, `state` (the segment) and `known` (what the
server holds) are common. `build_message()` is cut where another process or a
power failure can come between: the reading (`ReadingEndsUninsert`,
`ReadingOfInserted`), its judgement (`InRange`, `OutOfRange`, `RaiseAlarm`,
`RaiseAlarmForking`), the flashing child (`co_flash_alarm`), and the two halves of
`save_sensor_alarm_info()`: `SaveOpen` empties the file, `SaveWrite` fills it and
then clears the `_send` flag, as the code does after the save. `PowerCycle` loads
what is on file. The six copies of the code for six sensors differ only in limits:
of the lower ones, only that of CO2 can be undercut (`MIN_*` in
web_interface.h; values are never negative), hence `LowSensors`.

### Link, and GprsLink (MCGprs, GprsProofs)
`Link` is what a caller of `send_web_post()` may rely on, without modem, bytes or
attempts: a call is made, the server stores requests or refuses them with a page
that reads like an answer, a call returns; one that had the way to the server to
itself gives an answer only if its own request was stored or so refused, and NULL
says nothing. `GprsLink` is the function. Over the modem, byte by byte:
`{` restarts the buffer, `}` ends the call, `o` asks for the byte after it, anything
else is kept; polls that find nothing add up to a timeout, three of which end the
call. Over wifi `http_post()` of `weblib.c` connects (`Connect`), sends (`SendRequest`) and
receives once (`FirstRecv`), each of which may fail or time out; `HttpResults` is what
`http_parse_result()` makes of the page: as much of the body as has come if the status is
200, down to nothing (the second `recv()` is commented out, weblib.c:474), an "ok" for any
other status if the letters ok are in the page (weblib.c:402-415, and
`doc/request.txt:8` has the server answer 200 or ok), else NULL. The server and network
are external (`Server`, `WebServer`): process and answer, refuse with an error page, with
one that reads like an answer (`refused`), or lose, as late as they like. `SelectLink` is the user's choice while calls run. The mutex is not
modelled: it is initialised before the forks in memory that is not shared, so it
excludes nobody, and the processes take bytes from one modem. `ImplementsLink` is
the refinement: `L == INSTANCE Link WITH ...` maps a call's place to `busy`, and the
history variable `alone` says of a call that no other used the modem and no earlier
answer was under way while it ran.

### Resend (MCResend, ResendProofs)
`resend_history()`, with a call to the link as one step whose outcomes are those
of GprsLink: answered, unanswered, answered by the late "ok" of an earlier attempt, or
by an "ok" that is not this process's at all (`SendMisled`): another process's at the modem,
from which the mutex keeps nobody, or an error page with the letters in it. Whatever the
answer, the request itself is lost or stored (`Reached`). The made-up
dates (day 0 of a month, month 0) the walk passes are in the model. Lines are
numbered pairs of a time and a message.

### History (MCHistory, HistoryProofs)
One sensor's array (the code has six copies). The loader reads the names of the
directory in any order (`OpenDir`), compares and swaps two of them at a time in three
passes (`CompareNames`), and opens one file after another (`OpenFile`). Loader and CAP
process write a record in the code's order: data, time, counter (or time, data,
counter). The display reads the counter anew for the time of a row, for its
data, and for each record of a curve, and so it does here. The body of one
iteration of show_curve's loop is one step.

### Panel (MCPanel, PanelProofs)
`input_handle()` and the display as a device that sends keys and jumps by itself.
Which keys a page has (`Keys`) and where they jump is not in the program: it is the touch
configuration of the display, part of the display's project in `src/03-12/DWIN_SET` (the binary file whose name begins with 13: one
record of 16 or 32 bytes a button, with page, box, next page and key code); the
key codes are those of `dwin.h`. The handler is cut at the points where
SIGALRM (`lcd_off`) matters: `CheckLight`, `WakeUp`, `Arm`, then the key.
The page of a verification has a second painter: the board's answer comes to the
CAP process, which in `show_verify_point()` puts out the lamps of all points, which it does after a second look at `*factory_mode`
(`Answer`, `show_verify_point`), while the display process lights the one selected. `calm` is a history variable: the user touched only a
display at rest, and no signal came within a handler; `overtaken` marks a selection
that was made before the board's answer to the same page.

### Board (MCBoard, BoardProofs)
The interfaces of the acquisition board. The display process asks (`InterfaceSet`
spoils the first word of the table so that a zero there must come from an answer,
`TunZero` does not), polls once a second and asks again, up to 21 times (`AskAgain`,
`AskEnds`), shows the table, takes the user's edits by the rule of
`TOUCH_SET_RETURN` (`Allowed`), and sends or abandons it. The CAP process takes each
frame by the `*factory_mode` of the moment (`TakeFrame`, `Dispatch`) and writes an
answer word by word (`WriteWord`); while a zero point is tuned it answers a reading
with the interface it finds in the table (`Interface`). CO and HCHO are tuned; the sensor
that is built in measures HCHO and has no type in the table, so that its readings, which
come always (`BoardReads`), are answered with the interface of another HCHO sensor, or with
the one past the last. Frames are lost on the line. `sure` says whether the last question
was answered with nothing left to come, `since` which words of the table the CAP process
has written since the page showed it.

### Clock (MCClock, ClockProofs)
`server_time` as three cells, date, hour and checksum, a cell holding the time it was
written from. The synchronising process and the display process write them one by
one, compute the checksum over what is then there, send, and set the other clocks
from what is then there (`Date`, `Hour`, `Crc`, `Send`, `SetTime`, `SetLcdTime`); the CAP
process sends the bytes whenever the board asks (`Resend`), in the middle of that too.
The loop of `main()` is `Test`, `Midnight`, the question for a range of history (`AskRange`) with
the resending that may follow it and may never end (`ResendEnds`, see resend_month_end), and
the call of the server. A failing call on the computer's clock ends the process: in
`set_time()` before the display has the time (`SetTimeFails`), in `set_alarm()` around midnight
(`AlarmFails`). `mixed` says that two have set the time at once and none alone since.

### Dgus (MCDgus, DgusProofs)
The display's line in both uses, byte by byte: `lcd_loop()` with its cases that fall
through (`Skip`, `Keep`, `Handle`), and `read_dgus()` that counts bytes whatever they
are (`ReadByte`, `NameRead`, `PasswordRead`, `ReadTimeout`), behind the page on which the
user chooses the way to the server and types the wireless network. `OpenFile` and
`WriteFile` are the halves of `set_net_interface()`, a power failure may come between.
A key that the parser misses has changed the page all the same, since the display
jumps by itself. `wifi_select`, the way chosen, starts as GPRS and is not refreshed when the page comes
up; `tidy` says that it went with the page as it came up. It did not on the first visit
after every start with WIFI in use, where the page shows WIFI and "ok" makes GPRS the way in
use: `Fresh` is that visit, and OkStoresShown says so of it.

The modules meet in these places. Resend's steps for a call are the returns of
GprsLink seen from one caller; its `late` are the answers on GprsLink's way, its `stray` what
GprsLink gives a call that was not alone, or `refused`. Clock's `Reply` and `NoReply` are the two
kinds of return of Link, and its `ResendEnds` is the end of a walk of Resend. History's `RecordData` is
what Alarm's TIME frame does when a message is due. Panel's and Board's `mode` is one
flag, on whose value it depends whether Alarm gets frames; Panel's `done` is
History's. Dgus' `mode` is the choice GprsLink's `SelectLink` leaves free. Apart from
Link they are checked apart: what they share is one flag each, which each module
leaves free.

## 3. Runs

| run | question | properties | expected |
|---|---|---|---|
| alarm | counting, raising, carrying, saving, over power failures | TypeOK, CountedAlarm, OneBound, OwedCarried, DiskFollows | holds |
| alarm_fork | does the twin process of a CO alarm drop one that is owed? | OwedCarried | holds |
| alarm_silent | is a reported alarm known to the server? | ReportedIsKnown | violated |
| alarm_restart | has every pending alarm its message? | PendingCarried | violated |
| gprs | two processes, late answers, cut and refusing pages: is an answer one's own? do the calls return? | TypeOK, AckedIsStored, BodyIsOwn, ImplementsLink, CallsReturn | holds |
| resend | is the range sent, and only it? what is lost? does the walk end? | LossNeedsOk, RangeIsSent, OnlyRangeIsSent, WalkEnds | holds |
| resend_month_end | the same for a range that ends with a month | OnlyRangeIsSent | violated |
| history | completeness, order, pages and curves under concurrency | Chronological, HistoryIsAll, RowIsRecord, PageNewestFirst, CurveIsLastKnown | holds |
| panel | light, modes, log-in, verification | LitIsArmed, ZeroingIsPointZero, PagesNeedLogIn, ModeHasItsPage, VerifiesSelected, PointIsShown | holds |
| board | is what is sent what is shown and edited? whose zero is tuned? | ZeroToItsInterface, SetIsShown, OnlyEditsChange | holds |
| clock | torn times, agreement, the daily round | TypeOK, WholeTimes, ClocksAgree, MidnightIsSet, BoardFollows, KeepsSyncing | holds |
| dgus | lost bytes, keys amid answers, the stored way | BackInStep, ModeIsSaved, NetworkIsTyped, OkStoresShown | holds |

Findings. `alarm_silent`: one message serves all sensors and kinds, so that the type
raised last hides the other from the server although the flag says it was sent.
`alarm_restart`: the flag of an alarm survives a power cycle, the message that would
report it does not. `resend_month_end`: the walk compares year, month and day apart
from each other and sends days of the next month too.

What the other properties leave out on purpose, because the code does not give it, is
written at each: an answer that meets another process's call at the modem (`alone`), a
request refused with a page that reads like an answer (`refused`), words of a table that
are written after it was shown (`since`), a table asked for twice whose first answer comes
late (`sure`), two processes that set the time at once (`mixed`), a process that ended at the
computer's clock (`CutShort`), a point selected before the board has answered (`overtaken`), a
way shown on a page that came up over itself, or on the first visit after a start with WIFI in
use (`tidy`; of the latter OkStoresShown says what is stored instead).

Bounds.
- alarm*: `MaxCount` 2 of `CounterMod` 4 stands for 12 of 256: below, at, past and
  around the limit all occur. Two sensors, one with the flash and one with a lower
  limit, meet each other only in `warnning_msg` and in the file, and two suffice to
  overwrite. Two process slots: a third would meet the same file in the same steps.
- gprs: two attempts (three in the code) of one call each of two processes, so that an
  attempt meets the late answer of the one before, and a call that of another process:
  1.3 million states. A second call of one process begins like a second attempt, with old
  answers under way. The header is empty in the run; the proofs have any. A page reads "ok",
  has an object, or neither. The two processes are alike, but symmetry would spoil the
  check of `CallsReturn`.
- resend: files around the end of a year, of February and of a month, two late answers and
  one stray "ok" (`MaxLate`, `MaxStray`).
- history: four days around the turn of a year and a month, in each order of the
  directory, one with two lines of which the first has no value, pages of two rows and
  days of four hours; five messages to come, one without a value and three of the next
  day, two of them in its first hour with a record; slots for all lines and messages.
- panel: two objects, the zero point and another; one key that waits while another is
  handled, for more of them are handled one after the other in the same way; one answer
  that waits. 6.1 million states.
- board: four interfaces, the built-in one, one for a single type and two for the rest;
  one repetition of the question, two visits, one edit, one lost frame, one frame each
  way besides the one in hand: enough for an old answer to meet a new question, and an
  abandoned edit the next visit. 6.2 million states.
- clock: two times, the one before and the one now; one frame on the line, with which a
  sender finds it full. 249,000 states.
- dgus: fields of one word and passwords of two bytes or more, with bytes that look like
  the head of a frame; five keys, one lost byte, one power failure, nine bytes that wait
  when a key is touched (one frame of a key).

`CHECK_DEADLOCK FALSE` stands in gprs, board and dgus only: when all calls are made,
all visits paid or all keys touched nothing more need happen.

Fairness. GprsLink: each process runs on while it is in a call (weak fairness), since it polls
the modem without waiting and the waits of `http_post()` end by their timeouts; nothing is
asked of the network or the server. Resend: the
loop waits for nothing but a call, which returns (`CallsReturn`), and a line sent for ever is
answered at some time: strong fairness of `SendAnswered`, without which the
retry loop of the code has indeed no end. Clock: weak fairness of the steps of running
processes, of the return of a call, with a time or without one, and of midnight;
none of the failures of the computer's clock, nor of `ResendEnds`, since a resending of history
need not end: KeepsSyncing names these two ways in which the daily round may stop;
strong fairness of `Send` and `Resend`, which share the line, and of `Take`: the board goes
on asking and the line does not lose every frame.

## 4. Proofs

All theorems hold for any values of the constants that satisfy the modules' named
assumptions, and further hypotheses only where a theorem states them.

`AlarmProofs` (assumed: `Boot \in Procs`, `LowSensors \subseteq Sensors`, `MaxCount`
positive and below `CounterMod`, switches Boolean; for the code: 12 and 256):

- `TypeCorrect`: `Spec => []TypeOK`, each action conjunct by conjunct.
- `CountedCorrect`: `[]CountedAlarm`. The alarm is raised when the counter EQUALS
  the limit and no flag is set, the counter wraps, and three kinds of flag come and go
  apart from it. CountedAlarm exempts a flashing child, and one must know that the
  child's reading is one of the two limits, and that the sensor in hand is the only one
  out of step: the inductive invariant `CountedInv` says so of each process.
- `ReportsCarried`: `[]OwedCarried`. It speaks of idle processes only; the inductive
  `CarriedInv` asks the same at every point of `build_message()`, and of a process on its
  way to clear a `_send` flag that the alarm and its message are there.
- `BoundsExclude`: `[]OneBound`, by `FlagsStep`: a step of any process leaves a sensor with
  flags that some process had for it, or with one limit flag alone.
- `FlagsAreSaved`: `[]DiskFollows`, by `SavedInv`: while one process runs, file and segment
  have its flags whenever it is idle or judges a reading, and the segment also
  between the two halves of a save.

`GprsProofs` (assumed: `MaxTries` positive, nothing in a header that ends an answer,
`HeaderAssumption`):

- `TypeCorrect`: `[]TypeOK`. What bytes can be on the way bounds what the parser keeps.
- `OkIsEarned`: `[]AckedIsStored`, from `LinkInv`. `PeaceInv` says that while a call that is
  alone is at the modem no other is, that all on its way is of its own request, and that
  nothing that could end the call has been received before the server has stored the request
  or refused it with such a page, and the like of a page over wifi; `EarnedInv` is
  AckedIsStored for every answer but NULL.
- `BodyIsAnswer`: `[]BodyIsOwn`: over wifi the text is a first part of the body of the call's own page;
  over the modem it is the whole object, for headers that are empty or do not end in an `o` (`HeaderEndsApart`;
  the server's end with an empty line). An opening brace empties the buffer and a closing
  one ends the call, so a call that is alone gets the bytes between those of its own answer, and
  nothing of an older answer is left (`WholeInv`, `TextInv`). The header comes in because the byte
  after an `o` is taken without a look at what it is: an `o` at its end would hide the brace.
- `LinkIsImplemented`: `Spec => ImplementsLink`, the refinement of Link, from the same
  invariant: Init maps to Init, a post, a return and the server's storing or refusing to the actions
  of Link, every other step to a stutter.

`ResendProofs` (assumed: the forms of files and ranges):

- `LossIsCounted`: `[]LossNeedsOk`: by cardinality, a line is added to those lost only
  by a step that uses up a late or a stray "ok".
- `AllIsSent`: `[]RangeIsSent` if the walk knows the days of the files and of the beginning
  (`DaysAreKnown`: no 29 February, cap.c:593) and a file's lines are in order of their times
  (`FilesInOrder`: the clock was never set back). The invariant `WalkInv` says that what is
  asked for of a day passed, or before the line in hand, is sent; lemma `NextDay`
  says that the walk's next date is the next one there is in its calendar, and
  `WalkStops` that the loop does not end early. It holds for ranges that end
  with a month too.
- `OnlyTheRange`: `[]OnlyRangeIsSent` if the range ends before the last day of a month
  (`RangesEndInside`): then the day after its end stops the walk.
- `TypeCorrect`: `[]TypeOK` under `DaysAreKnown`, without which the walk counts days for ever
  (`NextDate` of a 30 February); what is sent is a line of a file (`HandIsLine`), and the bounds on late
  answers follow from LossNeedsOk.

`PanelProofs` (assumed: 0 is a point, `NoPoint` is none; room for a key and an answer):

- `TypeCorrect`, and from it `LightGoesOut`: `[]LitIsArmed` (invariant `ArmedInv`: wherever
  the handler is interrupted, a lit display has its alarm or is about to get it).
- `ZeroingStops`: `[]ZeroingIsPointZero`.
- `PagesAreGuarded`: `[]PagesNeedLogIn`, with `LogInInv`: keys that wait, and the key in hand,
  come from pages that were guarded too.
- `ModeIsLeft`, `SelectedIsTold`, `LitPointIsSelected`: `[]ModeHasItsPage`,
  `[]VerifiesSelected`, `[]PointIsShown`. They are about a calm user; the inductive `CalmInv`
  says that at most one key is under way, that a dark display handles none but the one
  that woke it, which key may be in hand on which page, and which lamp is lit between
  the two painters' steps.

`ClockProofs` (assumed: `None` is no time, room for a frame): `TypeCorrect`, `TimesAreWhole`,
`Agreement`, `WaitsByItsTime` for TypeOK, WholeTimes, ClocksAgree and MidnightIsSet. The
invariant `ClockInv` follows one setting through its steps: as long as the writer is alone, the cells written so
far are from its time, the checksum fits no cells but those it was
computed from, and the last frame on the line, or if there is none the board itself,
has the time of the memory unless it was lost or could not be taken. The display is behind only
if the last writer ended at the computer's clock (`CutShort`).

`BoardProofs` (assumed: interfaces from 0 on, bounds that are numbers): `SentAsShown`,
`EditsAlone` and `ZeroGoesRight` for SetIsShown, OnlyEditsChange and ZeroToItsInterface,
the first two of each step. That an unwritten word is still the one shown holds wherever CAP is in
writing an answer; the rest speaks of a table that was asked for in peace
(`sure`), and the invariant has what leads there: `AskInv` says of a question put with nothing
left to come that all tables sent before it stand before it in the queue, that the
answers under way are the board's table, and how much of one is written; `SureInv` that
afterwards nothing comes to change the memory and the edits are all that differs;
`ZeroInv` that a frame sent while zero is tuned is right until a table after it is taken.
That the search for the first interface of a gas finds one needs a least number, taken from
the library's fact that the subsets of a set are well-founded. `TypeCorrect` is `[]TypeOK`; `BoundInv`
has the bounds on counters and queues and that the built-in interface is never edited.

`HistoryProofs` (assumed: lines are records, sizes are numbers; a page and a day are not empty):

- `PagesGoBack`: PageNewestFirst, without any further hypothesis: nothing that is counted
  is written again (`CountedStays`), and the row above is a record of a counter not older
  than the page (`PageInv`).
- `NothingIsLost`, `RowsAreRecords`: HistoryIsAll and RowIsRecord, if the array has room for
  all lines and messages (`HasRoom`; a hazard says what happens without). The
  invariant `AllInv`: what is counted, with what is still to be read of the open file and of
  the files not yet opened, is what there is; `SlotInv` says how much of the next slot is
  written, `DataShape` that there is a slot for it.
- `HistoryIsOrdered`: Chronological, if besides the records were written in order
  (`FilesInOrder`: a day's lines have its date and are in order, messages come after the
  lines, that is, the clock was never set back). `NamesInv` proves the sort: the names stay
  those of the directory, each once, and in pass k all names before the two in hand are in
  their place by year, month and day up to part k (`Settled`), while the earlier parts stay as
  the passes before have left them. So at its end they are `InOrder`, from any order of the
  directory. `OrderInv`: what is counted is before all that is still to come.
- `CurvesAreRight`: CurveIsLastKnown under the same hypotheses, for days of any length, from
  `WalkInv`: what is in the buffer is right for its hours, and it reaches as far as the hour last
  seen (`Behind`), also where the walk reads a record a second time because one was counted
  (`Level`).
  The attempt to prove the property in its earlier form failed, because a record
  counted while a curve is computed shifts the walk by one: the property now says which value
  an hour has then, and the run has the messages for it.
- `TypeCorrect`: `[]TypeOK` under `HasRoom`: the counter stays within the array, the sort within the
  names, the walk of a curve within what is counted and its buffer within the hours of a day
  (`CurveTypes`), which holds whether or not the records are in order.

`DgusProofs` (assumed: a field takes no more bytes than it holds, none of which is 0 or \hff,
and `Words` is at most 125, so that a byte holds the length of a frame):

- `FileFollowsMode`: `[]ModeIsSaved`, with `WaysInv`.
- `TypedIsSet`: NetworkIsTyped. While `clear` holds, what is on the line is what is left of the one answer
  asked for, of which as many bytes are gone as `read_dgus()` has counted; so it stores the text of the
  field, and what it stores ends where the text does.
- `ShownIsStored`: OkStoresShown. `ShownInv`: while `tidy` holds the way shown is the way chosen,
  wherever the keys heard came from and whatever was lost. The attempt corrected
  the property: when the page of transfer comes up over itself it shows the way in use while
  the way chosen stays, and OK then stores what is not shown; `tidy` leaves that out (longer
  runs than that of dgus meet it too). Of the first visit after a start, which `tidy` leaves out
  when WIFI is in use, the theorem says what happens instead: the way chosen is still the GPRS it
  starts with as long as no other key is heard (`NotHeard`), and OK stores it.
- `ParserComesBack`: BackInStep, if the texts are ASCII (`TextsAreAscii`: other bytes could be those of a
  key). The invariant `StreamInv` cuts all bytes that have come since the start into frames of keys and
  answers, whole or without a byte (`Frame`, `Marked`), and says where the parser is in the frame in hand: between
  two frames (`Clear`), one byte short of a key that no byte can make (`Off`), following a key
  (`InKey`, for each byte that can be lost), following an answer (`InAnswer`), or deaf until the
  next frame (`Deaf`). With each frame stands what may be lost up to it (`cost`): two keys for a key
  with a lost byte, one for such an answer and for a key that an answer's reader takes; so that keys touched
  exceed keys heard by no more than that where the parser is (`Enough`). `FrameByte` is the step of the parser
  by a byte, `ByteRead` that of a reader, `StreamGrows` a new frame.
- `TypeCorrect`: `[]TypeOK`, under the same hypothesis, since `amid` is a number only because no key is heard
  that was not touched.

Only model-checked: liveness (CallsReturn, WalkEnds, BoardFollows, KeepsSyncing), which is
beyond the prover, as is ENABLED. Every safety property a passing run checks is stated by a theorem.
The TypeOK of Panel, Dgus, Resend, History and Board are proved and not run.

## 5. Not modelled

- The byte states of `get_uart()`; a frame arrives whole, or not.
- Number formatting: the corrections a verification shows and sends (`getxiuzhen`,
  `send_return`), messages and JSON, drawing.
- The user's data that the answer to a synchronisation brings along (cap.c:772-818): shown, not kept.
- Of `input_handle()`: the pages of user data, of alarms and of the network's state, which
  show what is there.
- History: a failure between the two lines of a record, and a load that is still
  running when the first record comes.
- Panel: the board's answer may be late, not lost; one that comes in normal mode is
  taken for a reading, which belongs to Alarm.
- Open files and sockets that are never closed: a hazard with a note, plain from reading.
- The last page of a history, which is never drawn when it is not full, is in History as
  the code has it: a page is drawn if more than 7 records are left (cap.c:2185), but the
  touch moves on if any is (cap.c:3798), which is plain from the two tests.
- What the board does with point 101, which it is told if the correction is sent before a
  point is chosen (cap.c:3313): it is not in the source.
- `src/main`, `cap-gprs.c`, the PC client and the display projects: not the program built.

## 6. Plan

1. History: the day files with a failure between the two lines of a record; a load
   that takes longer than the first record; Resend over such files.
2. `Frames`: the byte states of `get_uart()` with lost bytes, in front of Board.
3. Resend composed with Link in place of its summary of a call.
4. Panel and Board composed over `*factory_mode`; the pages still missing.
5. `src/main`: the message queue and the ways the processes are meant to share.
