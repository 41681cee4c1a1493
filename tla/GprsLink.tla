------------------------------ MODULE GprsLink ------------------------------
(***************************************************************************)
(* send_web_post() in src/web/cap.c: how a process posts a message to the  *)
(* server, over wifi with a connection of its own, or over the one serial  *)
(* modem that all processes share.                                         *)
(*                                                                         *)
(* `mutex' is initialised by main() before it forks and is not shared, so  *)
(* each process locks a copy of its own: it orders nothing and is not      *)
(* modelled.  The modem delivers bytes, of which the reader tells five     *)
(* kinds apart: the braces, the letters o and k, and the rest.  Answers    *)
(* carry nothing that says which request they answer.                      *)
(*                                                                         *)
(* Over wifi http_post() of src/web/weblib.c connects, sends, receives     *)
(* once and takes what came for the page: for a page of status 200 it      *)
(* gives as much of the body as has come, and a page of any other status   *)
(* that has the letters ok in it is an "ok".                               *)
(***************************************************************************)
EXTENDS Naturals, Sequences

CONSTANTS
  Procs,     \* the processes that post: CAP, display, synchronisation
  MaxTries,  \* attempts of one call: `for(j=0;j<3;j++)'
  MaxCalls,  \* bound on the calls of one process
  Header,    \* the bytes of an answer before its text
  Replies,   \* what a page of the server holds: "ok", "json", or "error", neither
  Late       \* may an answer come after its attempt has timed out?

ASSUME TriesAssumption == MaxTries \in Nat \ {0}
ASSUME CallsAssumption == MaxCalls \in Nat
ASSUME HeaderAssumption == Header \in Seq({"open", "o", "x"})  \* nothing that ends an answer
ASSUME ReplyAssumption == Replies \subseteq {"ok", "json", "error"}
ASSUME LateAssumption  == Late \in BOOLEAN

VARIABLES
  wifi,    \* *send_by_wifi
  pc,      \* "idle"; over wifi "connect", "send", "wait"; at the modem "reading",
           \* or "second": an o was read
  req,     \* the request of the current or last call: its process and number
  try,     \* j, the attempts of this call that have timed out
  rcv,     \* the bytes rcv[0..i-1]
  out,     \* what the last call gave its caller
  wire,    \* bytes the modem has received and nobody has read
  flight,  \* attempts on their way to the server or not yet answered
  web,     \* requests sent on a connection of their own, not yet dealt with
  page,    \* what the server has sent on the connection of the current call
  stored,  \* requests the server has processed
  refused, \* history: requests refused with a page that reads "ok" or has an object,
           \* and not processed before or since
  net,     \* g_state->network_state
  way,     \* history: did the current or last call go over "wifi" or the "modem"?
  alone    \* history: did the call have the modem and its answers to itself?

link == <<pc, req, try, rcv, out, wire, flight, web, page, stored, refused, net, way, alone>>
vars == <<wifi, link>>
server == <<web, page, stored, refused>>

Requests == Procs \X (0 .. MaxCalls)
Attempts == Requests \X (0 .. MaxTries - 1)
Bytes    == [c : {"open", "close", "o", "k", "x"}, of : Requests]
NULL     == [kind |-> "null", body |-> <<>>]
OK       == [kind |-> "ok", body |-> <<>>]
Said(b)  == [kind |-> "text", body |-> b]
Pages    == [status : {"none", "200", "other"}, body : {"ok", "json", "error"}]
NoPage   == [status |-> "none", body |-> "error"]

Text(r, cs) == [i \in DOMAIN cs |-> [c |-> cs[i], of |-> r]]

(* What a page holds: "ok" or a JSON object when the server has processed the
   request; when it has not, an error message, which has an o in it, or one
   that reads like either of the others.  The modem passes on the header too. *)
Body == [ok |-> <<"o", "k">>, json |-> <<"open", "x", "close">>, error |-> <<"o", "x">>]

Answer(r, kind) == Text(r, Header \o Body[kind])

Init ==
  /\ wifi \in BOOLEAN
  /\ pc  = [p \in Procs |-> "idle"]
  /\ req = [p \in Procs |-> <<p, 0>>]
  /\ try = [p \in Procs |-> 0]
  /\ rcv = [p \in Procs |-> <<>>]
  /\ out = [p \in Procs |-> OK]
  /\ wire = <<>> /\ flight = {} /\ web = {}
  /\ page = [p \in Procs |-> NoPage]
  /\ stored = {} /\ refused = {} /\ net = FALSE
  /\ way = [p \in Procs |-> "modem"]
  /\ alone = [p \in Procs |-> TRUE]
----------------------------------------------------------------------------
(* A call over wifi: http_post() opens a connection for this request alone. *)
PostWifi(p) ==
  /\ wifi
  /\ pc[p] = "idle" /\ req[p][2] < MaxCalls
  /\ req' = [req EXCEPT ![p] = <<p, req[p][2] + 1>>]
  /\ pc'  = [pc EXCEPT ![p] = "connect"]
  /\ way' = [way EXCEPT ![p] = "wifi"]
  /\ alone' = [alone EXCEPT ![p] = TRUE]
  /\ UNCHANGED <<wifi, try, rcv, out, wire, flight, server, net>>

(* The call is over and so is its connection. *)
WebReturns(p, answer) ==
  /\ page' = [page EXCEPT ![p] = NoPage]
  /\ pc'  = [pc EXCEPT ![p] = "idle"]
  /\ out' = [out EXCEPT ![p] = answer]
  /\ net' = (answer # NULL)

(* The name is not found, or the connection is refused or not made in time. *)
Connect(p) ==
  /\ pc[p] = "connect"
  /\ \/ pc' = [pc EXCEPT ![p] = "send"] /\ UNCHANGED <<page, out, net>>
     \/ WebReturns(p, NULL)
  /\ UNCHANGED <<wifi, req, try, rcv, wire, flight, web, stored, refused, way, alone>>

(* A request that is not sent to its end is none to the server. *)
SendRequest(p) ==
  /\ pc[p] = "send"
  /\ \/ /\ pc' = [pc EXCEPT ![p] = "wait"]
        /\ web' = web \cup {req[p]}
        /\ UNCHANGED <<page, out, net>>
     \/ WebReturns(p, NULL) /\ UNCHANGED web
  /\ UNCHANGED <<wifi, req, try, rcv, wire, flight, stored, refused, way, alone>>

(* n bytes of the body have come: the caller tells only a whole "ok" from text. *)
BodySoFar(r, k, n) ==
  IF k = "ok" /\ n = Len(Body[k]) THEN OK ELSE Said(Text(r, SubSeq(Body[k], 1, n)))

(* What http_parse_result() may make of the page pg, by how much of it came at
   once.  If that is too little, no status line or no empty line, it is NULL. *)
HttpResults(r, pg) ==
  {NULL} \cup
  {BodySoFar(r, pg.body, n) : n \in {m \in 0 .. Len(Body[pg.body]) : pg.status = "200"}} \cup
  {a \in {OK} : pg.status = "other" /\ pg.body = "ok"}

(* The only recv() of the call; it may also time out or find the line closed. *)
FirstRecv(p) ==
  /\ pc[p] = "wait"
  /\ \E answer \in HttpResults(req[p], page[p]) : WebReturns(p, answer)
  /\ UNCHANGED <<wifi, req, try, rcv, wire, flight, web, stored, refused, way, alone>>

AtModem(p) == pc[p] \in {"reading", "second"}

(* A call over the modem: the request is written, the buffer starts empty.
   Nothing stops a call while another is at the modem, or while answers of
   earlier ones are still to come: neither is then alone.                   *)
PostGprs(p) ==
  /\ ~wifi
  /\ pc[p] = "idle" /\ req[p][2] < MaxCalls
  /\ LET r == <<p, req[p][2] + 1>>
         others == {q \in Procs : AtModem(q)}
     IN  /\ req' = [req EXCEPT ![p] = r]
         /\ flight' = flight \cup {<<r, 0>>}
         /\ alone' = [q \in Procs |->
                         IF q = p THEN others = {} /\ wire = <<>> /\ flight = {}
                         ELSE alone[q] /\ q \notin others]
  /\ way' = [way EXCEPT ![p] = "modem"]
  /\ pc'  = [pc EXCEPT ![p] = "reading"]
  /\ try' = [try EXCEPT ![p] = 0]
  /\ rcv' = [rcv EXCEPT ![p] = <<>>]
  /\ UNCHANGED <<wifi, out, wire, server, net>>

(* The buffer is the call's own and goes with it. *)
Returns(p, answer) ==
  /\ pc'  = [pc EXCEPT ![p] = "idle"]
  /\ out' = [out EXCEPT ![p] = answer]
  /\ rcv' = [rcv EXCEPT ![p] = <<>>]
  /\ net' = TRUE

(* Mutant: an opening brace is kept like any byte. *)
ReadByteKeeping(p) ==
  LET b == Head(wire)
  IN  /\ pc[p] = "reading" /\ wire # <<>>
      /\ wire' = Tail(wire)
      /\ \/ b.c = "close" /\ Returns(p, Said(Append(rcv[p], b)))
         \/ /\ b.c # "close"
            /\ pc' = [pc EXCEPT ![p] = IF b.c = "o" THEN "second" ELSE @]
            /\ rcv' = [rcv EXCEPT ![p] = Append(@, b)]
            /\ UNCHANGED <<out, net>>
      /\ UNCHANGED <<wifi, req, try, flight, server, way, alone>>

(* One byte.  A closing brace ends the call; an opening one restarts the
   buffer; an o asks for one more byte at once; all else is kept.           *)
ReadByte(p) ==
  LET b == Head(wire)
  IN  /\ pc[p] = "reading" /\ wire # <<>>
      /\ wire' = Tail(wire)
      /\ \/ b.c = "close" /\ Returns(p, Said(Append(rcv[p], b)))
         \/ /\ b.c = "open"
            /\ rcv' = [rcv EXCEPT ![p] = <<b>>]
            /\ UNCHANGED <<pc, out, net>>
         \/ /\ b.c = "o"
            /\ pc' = [pc EXCEPT ![p] = "second"]
            /\ rcv' = [rcv EXCEPT ![p] = Append(@, b)]
            /\ UNCHANGED <<out, net>>
         \/ /\ b.c \in {"k", "x"}
            /\ rcv' = [rcv EXCEPT ![p] = Append(@, b)]
            /\ UNCHANGED <<pc, out, net>>
      /\ UNCHANGED <<wifi, req, try, flight, server, way, alone>>

(* Mutant: any second byte makes an "ok". *)
ReadSecondAny(p) ==
  /\ pc[p] = "second" /\ wire # <<>>
  /\ wire' = Tail(wire)
  /\ Returns(p, OK)
  /\ UNCHANGED <<wifi, req, try, flight, server, way, alone>>

(* The byte after an o: k makes the answer "ok"; any other takes the o's
   place in the buffer, a brace too; if there is none yet, the o stays.     *)
ReadSecond(p) ==
  LET b == Head(wire)
      last == Len(rcv[p])
  IN  /\ pc[p] = "second"
      /\ \/ wire # <<>> /\ b.c = "k" /\ wire' = Tail(wire) /\ Returns(p, OK)
         \/ /\ wire # <<>> /\ b.c # "k"
            /\ wire' = Tail(wire)
            /\ pc' = [pc EXCEPT ![p] = "reading"]
            /\ rcv' = [rcv EXCEPT ![p][last] = b]
            /\ UNCHANGED <<out, net>>
         \/ /\ wire = <<>>
            /\ pc' = [pc EXCEPT ![p] = "reading"]
            /\ UNCHANGED <<rcv, wire, out, net>>
      /\ UNCHANGED <<wifi, req, try, flight, server, way, alone>>

(* The polls that found nothing have added up to the timeout. *)
TimesOut(p) ==
  /\ pc[p] = "reading" /\ wire = <<>>
  /\ Late \/ <<req[p], try[p]>> \notin flight

(* Mutant: the last attempt is repeated for ever. *)
TimeoutForever(p) ==
  /\ TimesOut(p)
  /\ try' = [try EXCEPT ![p] = IF @ < MaxTries - 1 THEN @ + 1 ELSE @]
  /\ rcv' = [rcv EXCEPT ![p] = <<>>]
  /\ flight' = flight \cup {<<req[p], try'[p]>>}
  /\ net' = FALSE
  /\ UNCHANGED <<wifi, pc, out, req, wire, server, way, alone>>

(* Mutant: the attempt is counted before the limit is looked at. *)
TimeoutCounts(p) ==
  /\ TimesOut(p)
  /\ try' = [try EXCEPT ![p] = @ + 1]
  /\ rcv' = [rcv EXCEPT ![p] = <<>>]
  /\ \/ /\ try[p] < MaxTries - 1
        /\ flight' = flight \cup {<<req[p], try[p] + 1>>}
        /\ net' = FALSE
        /\ UNCHANGED <<pc, out>>
     \/ /\ try[p] = MaxTries - 1
        /\ pc'  = [pc EXCEPT ![p] = "idle"]
        /\ out' = [out EXCEPT ![p] = NULL]
        /\ UNCHANGED <<flight, net>>
  /\ UNCHANGED <<wifi, req, wire, server, way, alone>>

(* The polls that found nothing add up to the timeout: try again, or give up.
   Only a timeout that is followed by another attempt clears network_state. *)
Timeout(p) ==
  /\ TimesOut(p)
  /\ rcv' = [rcv EXCEPT ![p] = <<>>]
  /\ \/ /\ try[p] < MaxTries - 1
        /\ try' = [try EXCEPT ![p] = @ + 1]
        /\ flight' = flight \cup {<<req[p], try[p] + 1>>}
        /\ net' = FALSE
        /\ UNCHANGED <<pc, out>>
     \/ /\ try[p] = MaxTries - 1
        /\ pc'  = [pc EXCEPT ![p] = "idle"]
        /\ out' = [out EXCEPT ![p] = NULL]
        /\ UNCHANGED <<try, flight, net>>
  /\ UNCHANGED <<wifi, req, wire, server, way, alone>>
----------------------------------------------------------------------------
(* The network and the server.  A request is lost; or processed, and answered
   if the answer is not lost; or refused, with a page that a reader who looks
   for "ok" or for braces may take for an answer.                           *)
Processes(r)  == stored' = stored \cup {r} /\ refused' = refused \ {r}
Refuses(r, k) == /\ refused' = refused \cup {q \in {r} \ stored : k # "error"}
                 /\ UNCHANGED stored

(* An attempt made over the modem. *)
Server(a) ==
  LET r == a[1] IN
  /\ a \in flight
  /\ flight' = flight \ {a}
  /\ \/ UNCHANGED <<stored, refused, wire>>
     \/ /\ Processes(r)
        /\ wire' \in {wire} \cup {wire \o Answer(r, k) : k \in Replies \ {"error"}}
     \/ \E k \in Replies : Refuses(r, k) /\ wire' = wire \o Answer(r, k)
  /\ UNCHANGED <<wifi, pc, req, try, rcv, out, web, page, net, way, alone>>

(* A request made over wifi: nobody sees the page when its call has returned. *)
Shows(r, status, k) ==
  page' = [page EXCEPT ![r[1]] =
             IF req[r[1]] = r /\ pc[r[1]] = "wait" THEN [status |-> status, body |-> k] ELSE @]

WebServer(r) ==
  /\ r \in web
  /\ web' = web \ {r}
  /\ \/ UNCHANGED <<stored, refused, page>>
     \/ /\ Processes(r)
        /\ UNCHANGED page \/ \E k \in Replies \ {"error"} : Shows(r, "200", k)
     \/ \E k \in Replies : Refuses(r, k) /\ Shows(r, "other", k)
  /\ UNCHANGED <<wifi, pc, req, try, rcv, out, wire, flight, net, way, alone>>

(* The user chooses the other way on the display: *send_by_wifi changes
   whatever a call may be doing.  (After the last call MaxCalls allows it
   would change nothing else and is left out.)                              *)
SelectLink ==
  /\ \E p \in Procs : pc[p] = "idle" /\ req[p][2] < MaxCalls
  /\ wifi' = ~wifi
  /\ UNCHANGED link

Post(p) == PostWifi(p) \/ PostGprs(p)
Web(p)  == Connect(p) \/ SendRequest(p) \/ FirstRecv(p)
Read(p) == ReadByte(p) \/ ReadSecond(p)

Next ==
  \/ \E p \in Procs : Post(p) \/ Web(p) \/ Read(p) \/ Timeout(p)
  \/ \E a \in flight : Server(a)
  \/ \E r \in web : WebServer(r)
  \/ SelectLink

(* Each process runs on while it is in a call: it polls the modem again and
   again, and each wait of http_post() ends by its timeout at the latest.
   Where answers may be late that is enough: nobody need ever answer.       *)
Fairness == \A p \in Procs : WF_vars(Web(p) \/ Read(p) \/ Timeout(p))

Spec     == Init /\ [][Next]_vars
FairSpec == Spec /\ Fairness
----------------------------------------------------------------------------
(* Every variable holds the kind of value the declarations say, and a call
   never counts more attempts than it may make.                             *)
TypeOK ==
  /\ wifi \in BOOLEAN /\ net \in BOOLEAN
  /\ pc  \in [Procs -> {"idle", "connect", "send", "wait", "reading", "second"}]
  /\ req \in [Procs -> Requests]
  /\ try \in [Procs -> 0 .. MaxTries - 1]
  /\ \A p \in Procs : /\ rcv[p] \in Seq(Bytes)
                      /\ out[p] \in {NULL, OK} \cup {Said(b) : b \in {out[p].body}}
                      /\ out[p].body \in Seq(Bytes)
  /\ wire \in Seq(Bytes)
  /\ flight \subseteq Attempts
  /\ web \subseteq Requests /\ stored \subseteq Requests /\ refused \subseteq Requests
  /\ page \in [Procs -> Pages]
  /\ way \in [Procs -> {"wifi", "modem"}]
  /\ alone \in [Procs -> BOOLEAN]

Returned(p) == pc[p] = "idle" /\ req[p][2] > 0

(* When a call that was alone gives "ok", the server has dealt with that very
   request: it has processed it, or refused it with a page that says "ok".
   No other error page and no answer to another request is taken for one,
   although answers carry no number.                                        *)
AckedIsStored ==
  \A p \in Procs : Returned(p) /\ alone[p] /\ out[p] = OK => req[p] \in stored \cup refused

(* The text such a call returns is that of its own answer: over the modem the
   whole JSON object, from brace to brace, with no header and no earlier
   answer before it; over wifi as much of the body as came with the page's
   head, which may be nothing.                                              *)
BodyIsOwn ==
  \A p \in Procs : Returned(p) /\ alone[p] /\ out[p].kind = "text" =>
    \/ way[p] = "modem" /\ out[p].body = Text(req[p], Body.json)
    \/ /\ way[p] = "wifi" /\ req[p] \in stored
       /\ \E k \in {"ok", "json"} : \E n \in 0 .. Len(Body[k]) :
            out[p].body = Text(req[p], SubSeq(Body[k], 1, n))

(* A process is never in a call for ever: every call returns, whatever the
   others read from the modem and though no answer ever comes.              *)
CallsReturn == \A p \in Procs : []<>(pc[p] = "idle")

(* With bytes, pages, attempts and timeouts hidden the calls are those of Link:
   a call that was alone is given an answer only when the server has stored
   or refused its own request, and the server deals with no request that was
   not made.                                                                *)
L == INSTANCE Link WITH busy <- [p \in Procs |-> pc[p] # "idle"],
                        got  <- [p \in Procs |-> out[p].kind]
ImplementsLink == L!Spec
============================================================================
