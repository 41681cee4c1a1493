----------------------------- MODULE GprsProofs -----------------------------
(***************************************************************************)
(* Proofs about GprsLink, for any number of processes, calls and attempts, *)
(* and for answers that come late or not.                                  *)
(***************************************************************************)
EXTENDS GprsLink, SequenceTheorems, TLAPS

Outs == {NULL, OK} \cup {Said(b) : b \in Seq(Bytes)}

ProcTypes ==
  /\ pc  \in [Procs -> {"idle", "connect", "send", "wait", "reading", "second"}]
  /\ req \in [Procs -> Requests] /\ \A p \in Procs : req[p][1] = p
  /\ try \in [Procs -> 0 .. MaxTries - 1]
  /\ alone \in [Procs -> BOOLEAN]
  /\ way \in [Procs -> {"wifi", "modem"}]

DataTypes ==
  /\ wifi \in BOOLEAN /\ net \in BOOLEAN
  /\ rcv \in [Procs -> Seq(Bytes)]
  /\ out \in [Procs -> Outs]
  /\ wire \in Seq(Bytes)
  /\ stored \subseteq Requests /\ refused \subseteq Requests
  /\ page \in [Procs -> Pages]

(* A request on its way is one of a call that was made, and an o that waits for
   its second byte is in the buffer.                                        *)
WebMade == \A r \in web : \E p \in Procs : r \in Requests /\ r[2] \in 1 .. req[p][2] /\ r = <<p, r[2]>>
FlightInv == \A a \in flight : \E p \in Procs :
  a[1][1] = p /\ a \in Attempts /\ a[1][2] \in 1 .. req[p][2] /\ a[1] = <<p, a[1][2]>>
SecondInv == \A p \in Procs : pc[p] = "second" => rcv[p] # <<>>

MadeInv   == \A p \in Procs : pc[p] # "idle" => req[p][2] > 0

TypeInv == ProcTypes /\ DataTypes /\ WebMade /\ FlightInv /\ SecondInv /\ MadeInv

LEMMA SeqFacts ==
  ASSUME NEW S, NEW s \in Seq(S)
  PROVE  Len(s) \in Nat /\ DOMAIN s = 1 .. Len(s) /\ \A j \in DOMAIN s : s[j] \in S
OBVIOUS

LEMMA SeqOf ==
  ASSUME NEW S, NEW m \in Nat, NEW f \in [1 .. m -> S]
  PROVE  f \in Seq(S)
BY SeqDef, Zenon

LEMMA TextFacts ==
  ASSUME NEW r, NEW cs
  PROVE  /\ DOMAIN Text(r, cs) = DOMAIN cs
         /\ \A j \in DOMAIN cs : Text(r, cs)[j].c = cs[j]
BY DEF Text

LEMMA AnswerBytes ==
  ASSUME NEW r \in Requests, NEW k \in {"ok", "json", "error"}
  PROVE  /\ Answer(r, k) \in Seq(Bytes)
         /\ k = "error" => \A j \in DOMAIN Answer(r, k) : Answer(r, k)[j].c \notin {"k", "close"}
<1> DEFINE C == {"open", "close", "o", "k", "x"}
           t == Header \o Body[k]
<1>1. Header \in Seq(C)
  BY HeaderAssumption, SeqMonotonic
<1>2. Body[k] \in Seq(C)
  <2>1. <<"o", "k">> \in Seq(C) /\ <<"open", "x", "close">> \in Seq(C) /\ <<"o", "x">> \in Seq(C)
    OBVIOUS
  <2>2. QED
    <3>1. Body.ok \in Seq(C) /\ Body.json \in Seq(C) /\ Body.error \in Seq(C)
      BY <2>1 DEF Body
    <3>2. QED
      <4> HIDE DEF C
      <4> QED BY <3>1
<1>3. t \in Seq(C)
  BY <1>1, <1>2, ConcatProperties
<1>4. Answer(r, k) = Text(r, t)
  BY DEF Answer
<1>5. Answer(r, k) \in Seq(Bytes)
  <2> HIDE DEF t
  <2>1. DOMAIN t = 1 .. Len(t) /\ Len(t) \in Nat /\ \A j \in DOMAIN t : t[j] \in C
    BY <1>3, SeqFacts, Zenon
  <2>2. \A j \in 1 .. Len(t) : t[j] \in C
    BY <2>1
  <2>3. \A j \in 1 .. Len(t) : [c |-> t[j], of |-> r] \in Bytes
    BY <2>2 DEF Bytes
  <2>4. Text(r, t) \in [1 .. Len(t) -> Bytes]
    BY <2>1, <2>3 DEF Text
  <2>5. QED
    BY <1>4, <2>1, <2>4, SeqOf
<1>6. ASSUME k = "error" PROVE \A j \in DOMAIN Answer(r, k) : Answer(r, k)[j].c \notin {"k", "close"}
  <2> DEFINE E == {"open", "o", "x"}
  <2>1. Body[k] \in Seq(E)
    BY <1>6 DEF Body
  <2>2. t \in Seq(E)
    BY <2>1, HeaderAssumption, ConcatProperties
  <2>3. \A j \in DOMAIN t : t[j] \in E
    <3> HIDE DEF t
    <3> QED BY <2>2, SeqFacts, Zenon
  <2>4. QED
    <3> HIDE DEF t
    <3>1. \A j \in DOMAIN Text(r, t) : Text(r, t)[j].c \in E
      <4>1. DOMAIN Text(r, t) = DOMAIN t /\ \A j \in DOMAIN t : Text(r, t)[j].c = t[j]
        BY TextFacts
      <4>2. QED
        BY <2>3, <4>1
    <3>2. QED
      BY <1>4, <3>1
<1>7. QED
  BY <1>5, <1>6

LEMMA TypeInit == Init => TypeInv
<1> SUFFICES ASSUME Init PROVE TypeInv
  OBVIOUS
<1>1. OK \in Outs /\ <<>> \in Seq(Bytes)
  BY DEF Outs
<1>2. 0 \in 0 .. MaxTries - 1 /\ 0 \in 0 .. MaxCalls
  BY TriesAssumption, CallsAssumption
<1>3. ProcTypes
  BY <1>2 DEF Init, ProcTypes, Requests
<1>4. DataTypes
  BY <1>1 DEF Init, DataTypes, Pages, NoPage
<1>5. QED
  BY <1>3, <1>4 DEF Init, TypeInv, WebMade, FlightInv, SecondInv, MadeInv

LEMMA TypePost ==
  ASSUME TypeInv, NEW p \in Procs, PostWifi(p) \/ PostGprs(p)
  PROVE  TypeInv'
<1> USE CallsAssumption, TriesAssumption
<1> DEFINE r == <<p, req[p][2] + 1>>
<1>1. req[p] \in Requests /\ req[p][2] \in 0 .. MaxCalls /\ req[p][2] < MaxCalls
  BY DEF TypeInv, ProcTypes, Requests, PostWifi, PostGprs
<1>2. req[p][2] + 1 \in 1 .. MaxCalls /\ r \in Requests /\ req' = [req EXCEPT ![p] = r]
  BY <1>1 DEF Requests, PostWifi, PostGprs
<1>3. ProcTypes'
  <2>1. req' \in [Procs -> Requests] /\ \A q \in Procs : req'[q][1] = q
    BY <1>2 DEF TypeInv, ProcTypes
  <2>2. alone' \in [Procs -> BOOLEAN]
    <3>1. CASE PostWifi(p)
      BY <3>1 DEF TypeInv, ProcTypes, PostWifi
    <3>2. CASE PostGprs(p)
      <4>1. \A q \in Procs : alone[q] \in BOOLEAN
        BY DEF TypeInv, ProcTypes
      <4>2. QED
        BY <3>2, <4>1, Zenon DEF PostGprs
    <3>3. QED
      BY <3>1, <3>2
  <2>3. pc' \in [Procs -> {"idle", "connect", "send", "wait", "reading", "second"}] /\ try' \in [Procs -> 0 .. MaxTries - 1]
    <3>1. pc' = [pc EXCEPT ![p] = "connect"] \/ pc' = [pc EXCEPT ![p] = "reading"]
      BY DEF PostWifi, PostGprs
    <3>2. try' = try \/ try' = [try EXCEPT ![p] = 0]
      BY DEF PostWifi, PostGprs
    <3>3. QED
      BY <3>1, <3>2 DEF TypeInv, ProcTypes
  <2>4. way' \in [Procs -> {"wifi", "modem"}]
    BY DEF PostWifi, PostGprs, TypeInv, ProcTypes
  <2>5. QED
    BY <2>1, <2>2, <2>3, <2>4 DEF ProcTypes
<1>4. DataTypes'
  <2>1. /\ rcv' = rcv \/ rcv' = [rcv EXCEPT ![p] = <<>>]
        /\ UNCHANGED <<wifi, net, out, wire, stored, refused, page>>
    BY DEF PostWifi, PostGprs, server
  <2>2. <<>> \in Seq(Bytes)
    OBVIOUS
  <2>3. QED
    BY <2>1, <2>2 DEF TypeInv, DataTypes
<1>5. \A q \in Procs : req[q][2] \in 0 .. req'[q][2] /\ req'[q][2] \in Nat
  BY <1>1, <1>2 DEF TypeInv, ProcTypes, Requests
<1>6. \A a \in flight : \E q \in Procs :
        a[1][1] = q /\ a \in Attempts /\ a[1][2] \in 1 .. req'[q][2] /\ a[1] = <<q, a[1][2]>>
  BY <1>5 DEF TypeInv, FlightInv
<1>7. FlightInv'
  <2>1. CASE PostWifi(p)
    BY <1>6, <2>1 DEF PostWifi, FlightInv
  <2>2. CASE PostGprs(p)
    <3>1. flight' = flight \cup {<<r, 0>>}
      BY <2>2 DEF PostGprs
    <3>2. <<r, 0>> \in Attempts /\ req'[p] = r /\ r[2] \in 1 .. req'[p][2]
      BY <1>2 DEF Attempts, TypeInv, ProcTypes
    <3>3. QED
      BY <1>6, <3>1, <3>2 DEF FlightInv
  <2>3. QED
    BY <2>1, <2>2
<1>8. SecondInv'
  BY DEF TypeInv, ProcTypes, DataTypes, SecondInv, PostWifi, PostGprs
<1>9. MadeInv'
  BY <1>1, <1>2 DEF TypeInv, ProcTypes, MadeInv, PostWifi, PostGprs
<1>10. WebMade'
  <2>1. web' = web
    BY DEF PostWifi, PostGprs, server
  <2>2. QED
    BY <1>5, <2>1 DEF TypeInv, WebMade
<1>11. QED
  BY <1>3, <1>4, <1>7, <1>8, <1>9, <1>10 DEF TypeInv

(* The first n bytes of a body are text like any other. *)
LEMMA BodyBytes ==
  ASSUME NEW r \in Requests, NEW k \in {"ok", "json", "error"}, NEW n \in 0 .. Len(Body[k])
  PROVE  Text(r, SubSeq(Body[k], 1, n)) \in Seq(Bytes)
<1> DEFINE b == Body[k]
           cs == [j \in 1 .. n |-> b[j]]
<1>1. b \in Seq({"open", "close", "o", "k", "x"})
  <2>1. CASE k = "ok"
    BY <2>1 DEF Body
  <2>2. CASE k = "json"
    BY <2>2 DEF Body
  <2>3. CASE k = "error"
    BY <2>3 DEF Body
  <2>4. QED
    BY <2>1, <2>2, <2>3
<1>2. Len(b) \in Nat /\ \A j \in 1 .. Len(b) : b[j] \in {"open", "close", "o", "k", "x"}
  <2> HIDE DEF b
  <2> QED BY <1>1
<1>3. SubSeq(b, 1, n) = cs /\ DOMAIN cs = 1 .. n
  <2> HIDE DEF b
  <2> QED BY <1>1, <1>2
<1>4. n \in Nat /\ \A j \in 1 .. n : cs[j] \in {"open", "close", "o", "k", "x"}
  <2>1. n \in Nat /\ n <= Len(b)
    BY <1>2
  <2> HIDE DEF b
  <2>2. QED
    BY <1>2, <2>1
<1> HIDE DEF cs
<1>5. Text(r, cs) \in [1 .. n -> Bytes]
  <2>1. \A j \in 1 .. n : [c |-> cs[j], of |-> r] \in Bytes
    BY <1>4 DEF Bytes
  <2>2. QED
    BY <1>3, <2>1 DEF Text
<1>6. QED
  BY <1>3, <1>4, <1>5, SeqOf

LEMMA ResultIsOut ==
  ASSUME NEW r \in Requests, NEW pg \in Pages, NEW a \in HttpResults(r, pg)
  PROVE  a \in Outs
<1>1. CASE a \in {NULL, OK}
  BY <1>1 DEF Outs
<1>2. CASE \E n \in 0 .. Len(Body[pg.body]) : a = BodySoFar(r, pg.body, n)
  <2>1. PICK n \in 0 .. Len(Body[pg.body]) : a = BodySoFar(r, pg.body, n)
    BY <1>2
  <2>2. pg.body \in {"ok", "json", "error"}
    BY DEF Pages
  <2>3. Text(r, SubSeq(Body[pg.body], 1, n)) \in Seq(Bytes)
    BY <2>2, BodyBytes
  <2>4. QED
    BY <2>1, <2>3, Zenon DEF BodySoFar, Outs
<1>3. QED
  BY <1>1, <1>2 DEF HttpResults

LEMMA TypeWeb ==
  ASSUME TypeInv, NEW p \in Procs, Web(p)
  PROVE  TypeInv'
<1>0. req[p] \in Requests /\ UNCHANGED <<req, try, rcv, way, alone, wifi, flight, wire, stored, refused>>
  BY DEF TypeInv, ProcTypes, Web, Connect, SendRequest, FirstRecv
<1>1. PICK answer \in Outs : \/ WebReturns(p, answer)
                             \/ /\ pc' = [pc EXCEPT ![p] = "send"] \/ pc' = [pc EXCEPT ![p] = "wait"]
                                /\ UNCHANGED <<page, out, net>>
  <2>1. NULL \in Outs
    BY DEF Outs
  <2>2. CASE Connect(p) \/ SendRequest(p)
    BY <2>1, <2>2 DEF Connect, SendRequest
  <2>3. CASE FirstRecv(p)
    <3>1. page[p] \in Pages
      BY DEF TypeInv, DataTypes
    <3>2. QED
      BY <1>0, <2>3, <3>1, ResultIsOut DEF FirstRecv
  <2>4. QED
    BY <2>2, <2>3 DEF Web
<1>2. pc' \in [Procs -> {"idle", "connect", "send", "wait", "reading", "second"}]
  BY <1>1 DEF WebReturns, TypeInv, ProcTypes
<1>3. page' \in [Procs -> Pages] /\ out' \in [Procs -> Outs] /\ net' \in BOOLEAN
  <2>1. NoPage \in Pages
    BY DEF Pages, NoPage
  <2>2. CASE WebReturns(p, answer)
    BY <2>1, <2>2 DEF WebReturns, TypeInv, DataTypes
  <2>3. CASE UNCHANGED <<page, out, net>>
    BY <2>3 DEF TypeInv, DataTypes
  <2>4. QED
    BY <1>1, <2>2, <2>3
<1>4. pc[p] \in {"connect", "send", "wait"} /\ pc'[p] # "second" /\ \A q \in Procs \ {p} : pc'[q] = pc[q]
  BY <1>1 DEF Web, Connect, SendRequest, FirstRecv, WebReturns, TypeInv, ProcTypes
<1>5. WebMade'
  <2>1. web' = web \/ web' = web \cup {req[p]}
    BY DEF Web, Connect, SendRequest, FirstRecv
  <2>2. req[p][2] \in 1 .. req[p][2] /\ req[p] = <<p, req[p][2]>>
    BY <1>0, <1>4 DEF TypeInv, ProcTypes, MadeInv, Requests
  <2>3. QED
    BY <1>0, <2>1, <2>2 DEF TypeInv, WebMade
<1>6. SecondInv' /\ MadeInv' /\ FlightInv'
  BY <1>0, <1>4 DEF TypeInv, SecondInv, MadeInv, FlightInv
<1>7. QED
  BY <1>0, <1>2, <1>3, <1>5, <1>6 DEF TypeInv, ProcTypes, DataTypes

LEMMA TypeRead ==
  ASSUME TypeInv, NEW p \in Procs, Read(p)
  PROVE  TypeInv'
<1>0. req[p] \in Requests /\ UNCHANGED <<req, try, way, alone, wifi, flight, web, page, refused>>
  BY DEF TypeInv, ProcTypes, Read, ReadByte, ReadSecond, server
<1>1. ProcTypes'
  <2>1. pc' \in [Procs -> {"idle", "connect", "send", "wait", "reading", "second"}]
    <3>2. CASE ReadByte(p)
      BY <3>2 DEF TypeInv, ProcTypes, ReadByte, Returns
    <3>3. CASE ReadSecond(p)
      <4>1. pc' = [pc EXCEPT ![p] = "idle"] \/ pc' = [pc EXCEPT ![p] = "reading"]
        BY <3>3 DEF ReadSecond, Returns
      <4>2. QED
        BY <4>1 DEF TypeInv, ProcTypes
    <3>4. QED
      BY <3>2, <3>3 DEF Read
  <2>2. QED
    BY <1>0, <2>1 DEF TypeInv, ProcTypes
<1>2. FlightInv'
  BY <1>0 DEF TypeInv, FlightInv
<1>m. MadeInv'
  BY <1>0 DEF TypeInv, ProcTypes, MadeInv, Read, ReadByte, ReadSecond, Returns
<1>3. WebMade'
  BY <1>0 DEF TypeInv, WebMade
<1>4. ASSUME wire # <<>>
      PROVE  /\ Head(wire) \in Bytes /\ Tail(wire) \in Seq(Bytes)
             /\ Append(rcv[p], Head(wire)) \in Seq(Bytes) /\ Append(rcv[p], Head(wire)) # <<>>
  BY <1>4, HeadTailProperties, AppendProperties DEF TypeInv, DataTypes
<1>5. CASE ReadByte(p)
  <2>0. wire # <<>> /\ wire' = Tail(wire) /\ stored' = stored
    BY <1>5 DEF ReadByte, server
  <2>1. Said(Append(rcv[p], Head(wire))) \in Outs
    BY <1>4, <2>0 DEF Outs
  <2>2. out' \in [Procs -> Outs] /\ net' \in BOOLEAN
    BY <1>5, <2>1 DEF ReadByte, Returns, TypeInv, DataTypes
  <2>3. rcv' \in [Procs -> Seq(Bytes)]
    <3>1. <<Head(wire)>> \in Seq(Bytes)
      BY <1>4, <2>0
    <3>2. \/ rcv' = [rcv EXCEPT ![p] = <<>>] \/ rcv' = [rcv EXCEPT ![p] = <<Head(wire)>>]
          \/ rcv' = [rcv EXCEPT ![p] = Append(@, Head(wire))]
      BY <1>5 DEF ReadByte, Returns
    <3>3. <<>> \in Seq(Bytes)
      OBVIOUS
    <3>4. QED
      BY <1>4, <2>0, <3>1, <3>2, <3>3 DEF TypeInv, DataTypes
  <2>4. SecondInv'
    <3>1. \/ pc'[p] # "second" \/ rcv'[p] = Append(rcv[p], Head(wire))
      BY <1>5 DEF ReadByte, Returns, TypeInv, ProcTypes, DataTypes
    <3>2. \A q \in Procs \ {p} : pc'[q] = pc[q] /\ rcv'[q] = rcv[q]
      BY <1>5 DEF ReadByte, Returns, TypeInv, ProcTypes, DataTypes
    <3>3. QED
      BY <1>4, <2>0, <3>1, <3>2 DEF TypeInv, SecondInv
  <2>5. DataTypes'
    BY <1>0, <1>4, <2>0, <2>2, <2>3 DEF TypeInv, DataTypes
  <2>6. QED
    BY <1>1, <1>2, <1>3, <1>m, <2>4, <2>5 DEF TypeInv
<1>6. CASE ReadSecond(p)
  <2>0. (wire # <<>> /\ wire' = Tail(wire)) \/ UNCHANGED wire
    BY <1>6 DEF ReadSecond
  <2>1. wire' \in Seq(Bytes) /\ stored' = stored
    BY <1>4, <1>6, <2>0 DEF ReadSecond, server, TypeInv, DataTypes
  <2>2. out' \in [Procs -> Outs] /\ net' \in BOOLEAN
    BY <1>6 DEF ReadSecond, Returns, TypeInv, DataTypes, Outs
  <2>3. rcv' \in [Procs -> Seq(Bytes)]
    <3>1. rcv[p] \in Seq(Bytes) /\ rcv[p] # <<>>
      BY <1>6 DEF ReadSecond, TypeInv, DataTypes, SecondInv
    <3>2. Len(rcv[p]) \in 1 .. Len(rcv[p])
      BY <3>1
    <3>3. \/ rcv' = rcv \/ rcv' = [rcv EXCEPT ![p] = <<>>]
          \/ wire # <<>> /\ rcv' = [rcv EXCEPT ![p] = [rcv[p] EXCEPT ![Len(rcv[p])] = Head(wire)]]
      BY <1>6 DEF ReadSecond, Returns
    <3>4. wire # <<>> => [rcv[p] EXCEPT ![Len(rcv[p])] = Head(wire)] \in Seq(Bytes)
      BY <1>4, <3>1, <3>2, ExceptSeq
    <3>5. <<>> \in Seq(Bytes)
      OBVIOUS
    <3>6. QED
      BY <3>3, <3>4, <3>5 DEF TypeInv, DataTypes
  <2>4. SecondInv'
    <3>1. /\ pc'[p] # "second"
          /\ \A q \in Procs \ {p} : pc'[q] = pc[q] /\ rcv'[q] = rcv[q]
      BY <1>6 DEF ReadSecond, Returns, TypeInv, ProcTypes, DataTypes
    <3>2. QED
      BY <3>1 DEF TypeInv, SecondInv
  <2>5. DataTypes'
    BY <1>0, <2>1, <2>2, <2>3 DEF TypeInv, DataTypes
  <2>6. QED
    BY <1>1, <1>2, <1>3, <1>m, <2>4, <2>5 DEF TypeInv
<1>7. QED
  BY <1>5, <1>6 DEF Read

LEMMA TypeTimeout ==
  ASSUME TypeInv, NEW p \in Procs, Timeout(p)
  PROVE  TypeInv'
<1>0. /\ req[p] \in Requests /\ try[p] \in 0 .. MaxTries - 1 /\ MaxTries \in Nat
      /\ UNCHANGED <<req, way, alone, wifi, wire, web, page, stored, refused>> /\ pc[p] = "reading"
  BY TriesAssumption DEF TypeInv, ProcTypes, Timeout, TimesOut, server
<1>1. CASE try[p] < MaxTries - 1
  <2>1. /\ try' = [try EXCEPT ![p] = @ + 1] /\ rcv' = [rcv EXCEPT ![p] = <<>>]
        /\ flight' = flight \cup {<<req[p], try[p] + 1>>} /\ net' = FALSE /\ UNCHANGED <<pc, out>>
    BY <1>0, <1>1 DEF Timeout
  <2>2. try[p] + 1 \in 0 .. MaxTries - 1
    BY <1>0, <1>1
  <2>3. ProcTypes'
    BY <1>0, <2>1, <2>2 DEF TypeInv, ProcTypes
  <2>4. DataTypes'
    <3>1. <<>> \in Seq(Bytes)
      OBVIOUS
    <3>2. QED
      BY <1>0, <2>1, <3>1 DEF TypeInv, DataTypes
  <2>5. FlightInv'
    <3>1. <<req[p], try[p] + 1>> \in Attempts
      BY <1>0, <2>2 DEF Attempts
    <3>2. req[p][2] \in 1 .. req[p][2] /\ req[p] = <<p, req[p][2]>>
      BY <1>0 DEF TypeInv, ProcTypes, MadeInv, Requests
    <3>3. QED
      BY <1>0, <2>1, <3>1, <3>2 DEF TypeInv, FlightInv
  <2>6. SecondInv' /\ MadeInv' /\ WebMade'
    BY <1>0, <2>1 DEF TypeInv, ProcTypes, DataTypes, SecondInv, MadeInv, WebMade
  <2>7. QED
    BY <2>3, <2>4, <2>5, <2>6 DEF TypeInv
<1>2. CASE try[p] = MaxTries - 1
  <2>1. /\ pc'  = [pc EXCEPT ![p] = "idle"] /\ out' = [out EXCEPT ![p] = NULL]
        /\ rcv' = [rcv EXCEPT ![p] = <<>>] /\ UNCHANGED <<try, flight, net>>
    BY <1>0, <1>2 DEF Timeout
  <2>2. NULL \in Outs /\ <<>> \in Seq(Bytes)
    BY DEF Outs
  <2>3. QED
    BY <1>0, <2>1, <2>2 DEF TypeInv, ProcTypes, DataTypes, WebMade, FlightInv, SecondInv, MadeInv
<1>3. QED
  BY <1>1, <1>2 DEF Timeout

LEMMA TypeServer ==
  ASSUME TypeInv, NEW a \in flight, Server(a)
  PROVE  TypeInv'
<1>1. a[1] \in Requests
  BY DEF TypeInv, FlightInv, Attempts
<1>2. \/ wire' = wire
      \/ \E k \in {"ok", "json", "error"} : wire' = wire \o Answer(a[1], k)
  BY ReplyAssumption DEF Server
<1>3. wire' \in Seq(Bytes)
  <2>1. wire \in Seq(Bytes)
    BY DEF TypeInv, DataTypes
  <2>2. ASSUME NEW k \in {"ok", "json", "error"} PROVE wire \o Answer(a[1], k) \in Seq(Bytes)
    BY <1>1, <2>1, AnswerBytes, ConcatProperties
  <2>3. QED
    BY <1>2, <2>1, <2>2
<1>4. stored' \subseteq Requests /\ refused' \subseteq Requests
  BY <1>1 DEF Server, Processes, Refuses, TypeInv, DataTypes
<1>5. UNCHANGED <<wifi, pc, req, try, rcv, out, web, page, net, way, alone>> /\ flight' \subseteq flight
  BY DEF Server
<1>6. QED
  BY <1>3, <1>4, <1>5 DEF TypeInv, ProcTypes, DataTypes, WebMade, FlightInv, SecondInv, MadeInv

LEMMA TypeWebServer ==
  ASSUME TypeInv, NEW r \in web, WebServer(r)
  PROVE  TypeInv'
<1>1. r \in Requests /\ web' \subseteq web
  BY DEF TypeInv, WebMade, WebServer
<1>2. stored' \subseteq Requests /\ refused' \subseteq Requests
  BY <1>1 DEF WebServer, Processes, Refuses, TypeInv, DataTypes
<1>3. page' \in [Procs -> Pages]
  <2>1. \/ page' = page
        \/ \E k \in {"ok", "json", "error"} : Shows(r, "200", k) \/ Shows(r, "other", k)
    BY ReplyAssumption DEF WebServer
  <2>2. ASSUME NEW k \in {"ok", "json", "error"}, NEW st \in {"200", "other"}, Shows(r, st, k)
        PROVE  page' \in [Procs -> Pages]
    <3>1. [status |-> st, body |-> k] \in Pages
      BY DEF Pages
    <3>2. QED
      BY <2>2, <3>1 DEF Shows, TypeInv, DataTypes
  <2>3. QED
    BY <2>1, <2>2 DEF TypeInv, DataTypes
<1>4. UNCHANGED <<wifi, pc, req, try, rcv, out, wire, flight, net, way, alone>>
  BY DEF WebServer
<1>5. QED
  BY <1>1, <1>2, <1>3, <1>4 DEF TypeInv, ProcTypes, DataTypes, WebMade, FlightInv, SecondInv, MadeInv

LEMMA TypeStep == TypeInv /\ [Next]_vars => TypeInv'
<1>1. ASSUME TypeInv, SelectLink \/ UNCHANGED vars PROVE TypeInv'
  <2>1. UNCHANGED link /\ wifi' \in BOOLEAN
    BY <1>1 DEF SelectLink, vars, link, TypeInv, DataTypes
  <2>2. QED
    BY <1>1, <2>1 DEF link, TypeInv, ProcTypes, DataTypes, WebMade, FlightInv, SecondInv, MadeInv
<1>2. QED
  BY <1>1, TypePost, TypeWeb, TypeRead, TypeTimeout, TypeServer, TypeWebServer DEF Next, Post

LEMMA Types == Spec => []TypeInv
  BY TypeInit, TypeStep, PTL DEF Spec

(* Every variable always holds the kind of value the declarations say, and a call
   never counts more attempts than it may make, for any number of processes. *)
THEOREM TypeCorrect == Spec => []TypeOK
<1>1. TypeInv => TypeOK
  <2> SUFFICES ASSUME TypeInv PROVE TypeOK
    OBVIOUS
  <2>1. \A p \in Procs : /\ rcv[p] \in Seq(Bytes)
                         /\ out[p] \in {NULL, OK} \cup {Said(b) : b \in {out[p].body}}
                         /\ out[p].body \in Seq(Bytes)
    <3> SUFFICES ASSUME NEW p \in Procs
                 PROVE  /\ rcv[p] \in Seq(Bytes)
                        /\ out[p] \in {NULL, OK} \cup {Said(b) : b \in {out[p].body}}
                        /\ out[p].body \in Seq(Bytes)
      OBVIOUS
    <3>1. rcv[p] \in Seq(Bytes) /\ out[p] \in Outs /\ <<>> \in Seq(Bytes)
      BY DEF TypeInv, DataTypes
    <3>2. CASE out[p] \in {NULL, OK}
      <4>1. out[p].body = <<>>
        BY <3>2 DEF NULL, OK
      <4>2. QED
        BY <3>1, <3>2, <4>1
    <3>3. ASSUME NEW b \in Seq(Bytes), out[p] = Said(b)
          PROVE  out[p].body = b
      BY <3>3 DEF Said
    <3>4. QED
      BY <3>1, <3>2, <3>3 DEF Outs
  <2>2. flight \subseteq Attempts /\ web \subseteq Requests
    BY DEF TypeInv, FlightInv, WebMade
  <2>3. QED
    BY <2>1, <2>2 DEF TypeInv, ProcTypes, DataTypes, TypeOK
<1>2. QED
  BY <1>1, Types, PTL

----------------------------------------------------------------------------
(***************************************************************************)
(* The answers.  While a call that is alone is at the modem, no other is,  *)
(* all that is on its way is of its own request, and as long as the server *)
(* has neither stored nor answered that, nothing that could end the call   *)
(* has been received.  A page on a connection of its own is the answer to  *)
(* the current request.                                                    *)
(***************************************************************************)
Dealt == stored \cup refused

Clean(w) == \A j \in DOMAIN w : w[j].c \notin {"k", "close"}

Peace(p) ==
  /\ \A q \in Procs : AtModem(q) => q = p
  /\ \A a \in flight : a[1] = req[p]
  /\ req[p] \notin Dealt => Clean(wire)

Earned(p) == Returned(p) /\ alone[p] /\ out[p].kind # "null" => req[p] \in Dealt

PeaceInv  == \A p \in Procs : AtModem(p) /\ alone[p] => Peace(p)
EarnedInv == \A p \in Procs : Earned(p)
PageInv   == \A p \in Procs :
  /\ pc[p] # "wait" => page[p] = NoPage
  /\ page[p].status = "200" => page[p].body # "error" /\ req[p] \in stored
  /\ page[p].status = "other" /\ page[p].body = "ok" => req[p] \in Dealt
LinkInv   == PeaceInv /\ EarnedInv /\ PageInv

LEMMA CleanTail ==
  ASSUME wire \in Seq(Bytes), wire # <<>>
  PROVE  /\ Clean(wire) => Head(wire).c \notin {"k", "close"}
         /\ Clean(wire) => Clean(Tail(wire))
<1>1. Head(wire) = wire[1] /\ 1 \in DOMAIN wire
  OBVIOUS
<1>2. \A j \in DOMAIN Tail(wire) : j + 1 \in DOMAIN wire /\ Tail(wire)[j] = wire[j + 1]
  OBVIOUS
<1>3. QED
  BY <1>1, <1>2 DEF Clean

LEMMA CleanConcat ==
  ASSUME NEW s \in Seq(Bytes), NEW t \in Seq(Bytes), Clean(s), Clean(t)
  PROVE  Clean(s \o t)
<1>1. \A j \in DOMAIN (s \o t) : \/ j \in DOMAIN s /\ (s \o t)[j] = s[j]
                                 \/ j - Len(s) \in DOMAIN t /\ (s \o t)[j] = t[j - Len(s)]
  OBVIOUS
<1>2. QED
  BY <1>1 DEF Clean

LEMMA CleanEmpty == Clean(<<>>)
<1>1. DOMAIN <<>> = {}
  OBVIOUS
<1>2. QED
  BY <1>1 DEF Clean

LEMMA LinkInit == Init => LinkInv
  BY DEF Init, LinkInv, PeaceInv, EarnedInv, PageInv, NoPage, Earned, Returned, AtModem

(* A call that is made: those at the modem are not alone any more, and the call
   itself only when nothing is there.                                       *)
LEMMA LinkPost ==
  ASSUME TypeInv, LinkInv, NEW p \in Procs, PostWifi(p) \/ PostGprs(p)
  PROVE  LinkInv'
<1>1. /\ pc[p] = "idle" /\ pc'[p] \in {"connect", "reading"}
      /\ UNCHANGED <<out, stored, refused, wire, page>>
  BY DEF PostWifi, PostGprs, server, TypeInv, ProcTypes
<1>2. \A q \in Procs \ {p} : /\ pc'[q] = pc[q] /\ req'[q] = req[q]
                             /\ alone'[q] => alone[q]
  <2>1. CASE PostWifi(p)
    BY <2>1 DEF PostWifi, TypeInv, ProcTypes
  <2>2. CASE PostGprs(p)
    <3>1. \A q \in Procs \ {p} : pc'[q] = pc[q] /\ req'[q] = req[q]
      BY <2>2 DEF PostGprs, TypeInv, ProcTypes
    <3>2. \A q \in Procs \ {p} : alone'[q] => alone[q]
      BY <2>2, Zenon DEF PostGprs
    <3>3. QED
      BY <3>1, <3>2
  <2>3. QED
    BY <2>1, <2>2
<1>3. EarnedInv'
  <2>1. \A q \in Procs \ {p} : Earned(q)'
    BY <1>1, <1>2 DEF LinkInv, EarnedInv, Earned, Returned, Dealt
  <2>2. Earned(p)'
    BY <1>1 DEF Earned, Returned
  <2>3. QED
    BY <2>1, <2>2 DEF EarnedInv
<1>p. PageInv'
  BY <1>1, <1>2 DEF LinkInv, PageInv, NoPage, Dealt
<1>4. CASE PostWifi(p)
  <2>1. ~AtModem(p)' /\ flight' = flight
    BY <1>4 DEF PostWifi, AtModem, TypeInv, ProcTypes
  <2>2. \A q \in Procs \ {p} : AtModem(q)' = AtModem(q)
    BY <1>2 DEF AtModem
  <2>3. \A q \in Procs \ {p} : Peace(q) => Peace(q)'
    BY <1>1, <1>2, <2>1, <2>2 DEF Peace, Dealt
  <2>4. PeaceInv'
    BY <1>2, <2>1, <2>2, <2>3 DEF LinkInv, PeaceInv
  <2>5. QED
    BY <1>3, <1>p, <2>4 DEF LinkInv
<1>5. CASE PostGprs(p)
  <2>1. \A q \in Procs \ {p} : AtModem(q)' => AtModem(q) /\ ~alone'[q]
    <3>1. \A q \in Procs \ {p} : AtModem(q) => ~alone'[q]
      BY <1>5, Zenon DEF PostGprs
    <3>2. QED
      BY <1>2, <3>1 DEF AtModem
  <2>2. ASSUME alone'[p] PROVE Peace(p)'
    <3>1. {q \in Procs : AtModem(q)} = {} /\ wire = <<>> /\ flight = {}
      BY <1>5, <2>2, Zenon DEF PostGprs
    <3>2. \A q \in Procs : AtModem(q)' => q = p
      BY <2>1, <3>1
    <3>3. \A a \in flight' : a[1] = req'[p]
      BY <1>5, <3>1 DEF PostGprs, TypeInv, ProcTypes
    <3>4. Clean(wire)'
      BY <1>1, <3>1, CleanEmpty DEF Clean
    <3>5. QED
      BY <3>2, <3>3, <3>4 DEF Peace
  <2>3. PeaceInv'
    BY <2>1, <2>2 DEF PeaceInv
  <2>4. QED
    BY <1>3, <1>p, <2>3 DEF LinkInv
<1>6. QED
  BY <1>4, <1>5

(* An answer taken from the modem ends the call only with a k or a brace. *)
LEMMA ReturnIsEarned ==
  ASSUME TypeInv, LinkInv, NEW p \in Procs, Read(p), alone[p],
         pc'[p] = "idle"
  PROVE  req[p] \in Dealt
<1>1. AtModem(p) /\ wire # <<>> /\ Head(wire).c \in {"k", "close"}
  BY DEF Read, ReadByte, ReadSecond, Returns, AtModem, TypeInv, ProcTypes
<1>2. Peace(p) /\ wire \in Seq(Bytes)
  BY <1>1 DEF LinkInv, PeaceInv, TypeInv, DataTypes
<1>3. QED
  BY <1>1, <1>2, CleanTail DEF Peace

LEMMA LinkReturn ==
  ASSUME TypeInv, LinkInv, NEW p \in Procs, Web(p) \/ Read(p) \/ Timeout(p)
  PROVE  LinkInv'
<1>1. UNCHANGED <<req, alone, stored, refused>>
  BY DEF Web, Connect, SendRequest, FirstRecv, Read, ReadByte, ReadSecond, Timeout, server
<1>2. \A q \in Procs \ {p} : pc'[q] = pc[q] /\ out'[q] = out[q]
  BY DEF Web, Connect, SendRequest, FirstRecv, WebReturns, Read, ReadByte, ReadSecond, Timeout, Returns, TypeInv, ProcTypes, DataTypes
<1>3. AtModem(p)' => AtModem(p)
  BY DEF Web, Connect, SendRequest, FirstRecv, WebReturns, Read, ReadByte, ReadSecond, Timeout, TimesOut, Returns, AtModem, TypeInv, ProcTypes
<1>4. \A q \in Procs : AtModem(q)' => AtModem(q)
  BY <1>2, <1>3 DEF AtModem
<1>5. Clean(wire) => Clean(wire')
  <2>1. wire' = wire \/ (wire # <<>> /\ wire' = Tail(wire))
    BY DEF Web, Connect, SendRequest, FirstRecv, WebReturns, Read, ReadByte, ReadSecond, Timeout
  <2>2. wire \in Seq(Bytes)
    BY DEF TypeInv, DataTypes
  <2>3. QED
    BY <2>1, <2>2, CleanTail
<1>6. \A a \in flight' : a \in flight \/ (a[1] = req[p] /\ AtModem(p))
  <2>1. flight' = flight \/ (Timeout(p) /\ flight' = flight \cup {<<req[p], try[p] + 1>>})
    BY DEF Web, Connect, SendRequest, FirstRecv, WebReturns, Read, ReadByte, ReadSecond, Timeout
  <2>2. Timeout(p) => AtModem(p)
    BY DEF Timeout, TimesOut, AtModem
  <2>3. QED
    BY <2>1, <2>2
<1>7. PeaceInv'
  <2> SUFFICES ASSUME NEW q \in Procs, AtModem(q)', alone'[q] PROVE Peace(q)'
    BY DEF PeaceInv
  <2>1. AtModem(q) /\ alone[q] /\ Peace(q)
    BY <1>1, <1>4 DEF LinkInv, PeaceInv
  <2>2. \A a \in flight' : a[1] = req'[q]
    BY <1>1, <1>6, <2>1 DEF Peace
  <2>3. QED
    BY <1>1, <1>4, <1>5, <2>1, <2>2 DEF Peace, Dealt
<1>8. \A q \in Procs \ {p} : Earned(q)'
  BY <1>1, <1>2 DEF LinkInv, EarnedInv, Earned, Returned, Dealt
<1>9. Earned(p)'
  <2> SUFFICES ASSUME Returned(p)', alone'[p], out'[p].kind # "null" PROVE req[p] \in Dealt
    BY <1>1 DEF Earned, Dealt
  <2>1. pc'[p] = "idle"
    BY DEF Returned
  <2>2. CASE Web(p)
    <3>1. out' = [out EXCEPT ![p] = out'[p]] /\ (out'[p] = NULL \/ FirstRecv(p))
      BY <2>1, <2>2 DEF Web, Connect, SendRequest, FirstRecv, WebReturns, TypeInv, ProcTypes, DataTypes
    <3>2. out'[p] = NULL \/ (FirstRecv(p) /\ out'[p] \in HttpResults(req[p], page[p]))
      BY <3>1 DEF FirstRecv, WebReturns, TypeInv, DataTypes
    <3>3. page[p].status = "200" \/ (page[p].status = "other" /\ page[p].body = "ok")
      BY <3>2 DEF HttpResults, NULL
    <3>4. QED
      BY <3>3 DEF LinkInv, PageInv, Dealt
  <2>3. CASE Read(p)
    BY <1>1, <2>1, <2>3, ReturnIsEarned
  <2>4. CASE Timeout(p)
    <3>1. pc[p] = "reading" /\ (UNCHANGED pc \/ out' = [out EXCEPT ![p] = NULL])
      BY <2>4 DEF Timeout, TimesOut
    <3>2. out'[p].kind = "null"
      BY <2>1, <3>1 DEF NULL, TypeInv, DataTypes
    <3>3. QED
      BY <3>2
  <2>5. QED
    BY <2>2, <2>3, <2>4
<1>10. PageInv'
  <2>1. CASE Web(p)
    <3>1. \A q \in Procs \ {p} : page'[q] = page[q]
      BY <2>1 DEF Web, Connect, SendRequest, FirstRecv, WebReturns, TypeInv, DataTypes
    <3>2. page'[p] = NoPage
      BY <2>1 DEF Web, Connect, SendRequest, FirstRecv, WebReturns, TypeInv, DataTypes, LinkInv, PageInv
    <3>3. QED
      BY <1>1, <1>2, <3>1, <3>2 DEF LinkInv, PageInv, NoPage, Dealt
  <2>2. CASE Read(p) \/ Timeout(p)
    <3>1. UNCHANGED page /\ pc[p] # "wait" /\ pc'[p] # "wait"
      BY <2>2 DEF Read, ReadByte, ReadSecond, Timeout, TimesOut, Returns, server, TypeInv, ProcTypes
    <3>2. QED
      BY <1>1, <1>2, <3>1 DEF LinkInv, PageInv, Dealt
  <2>3. QED
    BY <2>1, <2>2
<1>11. QED
  BY <1>7, <1>8, <1>9, <1>10 DEF LinkInv, EarnedInv

LEMMA LinkServer ==
  ASSUME TypeInv, LinkInv, NEW a \in flight, Server(a)
  PROVE  LinkInv'
<1>1. /\ UNCHANGED <<pc, req, out, page, alone>> /\ flight' \subseteq flight
      /\ stored \subseteq stored' /\ Dealt \subseteq Dealt'
  BY DEF Server, Processes, Refuses, Dealt
<1>2. EarnedInv' /\ PageInv'
  BY <1>1 DEF LinkInv, EarnedInv, PageInv, Earned, Returned
<1>3. a[1] \in Requests /\ wire \in Seq(Bytes)
  BY DEF TypeInv, FlightInv, DataTypes, Attempts
<1>4. a[1] \in Dealt' \/ wire' = wire \/ wire' = wire \o Answer(a[1], "error")
  BY DEF Server, Processes, Refuses, Dealt
<1>5. Clean(wire) => Clean(wire \o Answer(a[1], "error"))
  BY <1>3, AnswerBytes, CleanConcat DEF Clean
<1>6. PeaceInv'
  <2> SUFFICES ASSUME NEW q \in Procs, AtModem(q)', alone'[q] PROVE Peace(q)'
    BY DEF PeaceInv
  <2>1. AtModem(q) /\ Peace(q) /\ a[1] = req[q]
    BY <1>1 DEF LinkInv, PeaceInv, Peace, AtModem
  <2>2. req'[q] \notin Dealt' => Clean(wire')
    BY <1>1, <1>4, <1>5, <2>1 DEF Peace
  <2>3. QED
    BY <1>1, <2>1, <2>2 DEF Peace, AtModem
<1>7. QED
  BY <1>2, <1>6 DEF LinkInv

(* The page that is shown is that of the current request, and says how the server
   has dealt with it.                                                       *)
LEMMA LinkWebServer ==
  ASSUME TypeInv, LinkInv, NEW r \in web, WebServer(r)
  PROVE  LinkInv'
<1>1. /\ UNCHANGED <<pc, req, out, wire, flight, alone>>
      /\ stored \subseteq stored' /\ Dealt \subseteq Dealt'
  BY DEF WebServer, Processes, Refuses, Dealt
<1>2. EarnedInv' /\ PeaceInv'
  BY <1>1 DEF LinkInv, EarnedInv, Earned, Returned, PeaceInv, Peace, AtModem
<1>3. PageInv'
  <2> SUFFICES ASSUME NEW q \in Procs
               PROVE  /\ pc[q] # "wait" => page'[q] = NoPage
                      /\ page'[q].status = "200" => page'[q].body # "error" /\ req[q] \in stored'
                      /\ page'[q].status = "other" /\ page'[q].body = "ok" => req[q] \in Dealt'
    BY <1>1 DEF PageInv
  <2>1. CASE page'[q] = page[q]
    BY <1>1, <2>1 DEF LinkInv, PageInv
  <2>2. CASE page'[q] # page[q]
    <3>1. \/ Processes(r) /\ \E k \in Replies \ {"error"} : Shows(r, "200", k)
          \/ \E k \in Replies : Refuses(r, k) /\ Shows(r, "other", k)
      BY <2>2 DEF WebServer
    <3>2. ASSUME NEW k, NEW st, Shows(r, st, k)
          PROVE  req[q] = r /\ pc[q] = "wait" /\ page'[q] = [status |-> st, body |-> k]
      BY <2>2, <3>2 DEF Shows, TypeInv, DataTypes
    <3>3. CASE Processes(r) /\ \E k \in Replies \ {"error"} : Shows(r, "200", k)
      <4>1. PICK k \in Replies \ {"error"} : Shows(r, "200", k)
        BY <3>3
      <4>2. req[q] = r /\ page'[q] = [status |-> "200", body |-> k]
        BY <3>2, <4>1
      <4>3. pc[q] = "wait" /\ r \in stored'
        BY <3>2, <3>3, <4>1 DEF Processes
      <4>4. QED
        BY <4>1, <4>2, <4>3
    <3>4. CASE \E k \in Replies : Refuses(r, k) /\ Shows(r, "other", k)
      <4>1. PICK k \in Replies : Refuses(r, k) /\ Shows(r, "other", k)
        BY <3>4
      <4>2. req[q] = r /\ page'[q] = [status |-> "other", body |-> k]
        BY <3>2, <4>1
      <4>3. pc[q] = "wait" /\ (k = "ok" => r \in Dealt')
        BY <3>2, <4>1 DEF Refuses, Dealt
      <4>4. QED
        BY <4>2, <4>3
    <3>5. QED
      BY <3>1, <3>3, <3>4
  <2>3. QED
    BY <2>1, <2>2
<1>4. QED
  BY <1>2, <1>3 DEF LinkInv

LEMMA LinkStep == TypeInv /\ LinkInv /\ [Next]_vars => LinkInv'
<1>1. ASSUME LinkInv, SelectLink \/ UNCHANGED vars PROVE LinkInv'
  BY <1>1 DEF SelectLink, vars, link, LinkInv, PeaceInv, Peace, EarnedInv, Earned, PageInv, Returned, AtModem, Dealt
<1>2. QED
  BY <1>1, LinkPost, LinkReturn, LinkServer, LinkWebServer DEF Next, Post

LEMMA LinkAlways == Spec => []LinkInv
  BY LinkInit, LinkStep, Types, PTL DEF Spec

(* When a call that was alone gives "ok", the server has processed that very
   request or refused it with a page that says "ok", for any number of
   processes, calls, attempts and late answers: no other error page and no
   answer to another request is taken for one.                              *)
THEOREM OkIsEarned == Spec => []AckedIsStored
<1>1. LinkInv => AckedIsStored
  BY DEF LinkInv, EarnedInv, Earned, Dealt, AckedIsStored, OK
<1>2. QED
  BY <1>1, LinkAlways, PTL

----------------------------------------------------------------------------
(***************************************************************************)
(* The text of an answer.  Only the three bytes of an object end in a      *)
(* brace, and what has been read of an object is all that is in the buffer, *)
(* unless an o before it made the parser take the opening brace for the    *)
(* second byte of an "ok".  A header of HTTP ends with an empty line.      *)
(***************************************************************************)
HeaderEndsApart == Header # <<>> => Header[Len(Header)] # "o"

B(ch, r) == [c |-> ch, of |-> r]

(* The object of the request r is whole: its closing brace is awaited with the
   buffer and the bytes before it in w as they must be.                     *)
Framed(w, buf, at, r) ==
  \A j \in DOMAIN w : w[j].c = "close" =>
    \/ j = 1 /\ at = "reading" /\ buf = <<B("open", r), B("x", r)>>
    \/ j = 2 /\ at = "reading" /\ buf = <<B("open", r)>> /\ w[1].c = "x"
    \/ j = 3 /\ at = "reading" /\ w[1].c = "open" /\ w[2].c = "x"
    \/ j > 3 /\ w[j - 3].c # "o" /\ w[j - 2].c = "open" /\ w[j - 1].c = "x"

Owns(w, r)   == \A j \in DOMAIN w : w[j].of = r
EndsApart(w) == w # <<>> => w[Len(w)].c # "o"

Whole(p) ==
  /\ Owns(wire, req[p])
  /\ Framed(wire, rcv[p], pc[p], req[p])
  /\ pc[p] = "second" => wire # <<>>

SomeOf(p) ==
  \E k \in {"ok", "json"} : \E n \in 0 .. Len(Body[k]) : out[p].body = Text(req[p], SubSeq(Body[k], 1, n))

OwnText(p) ==
  Returned(p) /\ alone[p] /\ out[p].kind = "text" =>
    \/ way[p] = "modem" /\ out[p].body = Text(req[p], <<"open", "x", "close">>)
    \/ way[p] = "wifi" /\ req[p] \in stored /\ SomeOf(p)

WayInv   == \A p \in Procs : /\ AtModem(p) => way[p] = "modem"
                             /\ pc[p] \in {"connect", "send", "wait"} => way[p] = "wifi"
WholeInv == EndsApart(wire) /\ WayInv /\ \A p \in Procs : AtModem(p) /\ alone[p] => Whole(p)
TextInv  == \A p \in Procs : OwnText(p)

LEMMA TextBytes ==
  ASSUME NEW r, NEW cs
  PROVE  /\ Text(r, cs) = [j \in DOMAIN cs |-> Text(r, cs)[j]] /\ DOMAIN Text(r, cs) = DOMAIN cs
         /\ \A j \in DOMAIN cs : /\ Text(r, cs)[j] = B(cs[j], r)
                                 /\ Text(r, cs)[j].c = cs[j] /\ Text(r, cs)[j].of = r
BY DEF Text, B

LEMMA ThreeBytes ==
  ASSUME NEW f, f = [j \in 1 .. 3 |-> f[j]]
  PROVE  f = <<f[1], f[2], f[3]>>
OBVIOUS

LEMMA ObjectChars ==
  LET cs == <<"open", "x", "close">>
  IN  DOMAIN cs = 1 .. 3 /\ cs[1] = "open" /\ cs[2] = "x" /\ cs[3] = "close"
OBVIOUS

LEMMA TextOf ==
  ASSUME NEW r
  PROVE  Text(r, <<"open", "x", "close">>) = <<B("open", r), B("x", r), B("close", r)>>
<1> DEFINE cs == <<"open", "x", "close">>
           f  == Text(r, cs)
<1>1. DOMAIN cs = 1 .. 3 /\ cs[1] = "open" /\ cs[2] = "x" /\ cs[3] = "close"
  BY ObjectChars
<1>2. f = [j \in DOMAIN cs |-> f[j]] /\ \A j \in DOMAIN cs : f[j] = B(cs[j], r)
  <2> HIDE DEF cs
  <2> QED BY TextBytes
<1> HIDE DEF cs, f
<1>3. 1 \in 1 .. 3 /\ 2 \in 1 .. 3 /\ 3 \in 1 .. 3
  OBVIOUS
<1>4. f[1] = B("open", r) /\ f[2] = B("x", r) /\ f[3] = B("close", r)
  BY <1>1, <1>2, <1>3
<1>5. f = <<f[1], f[2], f[3]>>
  BY <1>1, <1>2, ThreeBytes
<1>6. QED
  BY <1>4, <1>5 DEF f, cs

(* The bytes of an answer: its object, and what comes before that. *)
LEMMA BodyShape ==
  ASSUME NEW k \in {"ok", "json", "error"}
  PROVE  \/ /\ Body[k] \in Seq({"o", "k", "x"}) /\ Len(Body[k]) = 2
            /\ Body[k][1] = "o" /\ Body[k][2] \in {"k", "x"}
         \/ /\ Body[k] \in Seq({"open", "x", "close"}) /\ Len(Body[k]) = 3
            /\ Body[k][1] = "open" /\ Body[k][2] = "x" /\ Body[k][3] = "close"
<1>1. CASE k = "ok"
  BY <1>1 DEF Body
<1>2. CASE k = "error"
  BY <1>2 DEF Body
<1>3. CASE k = "json"
  BY <1>3 DEF Body
<1>4. QED
  BY <1>1, <1>2, <1>3

LEMMA Concat ==
  ASSUME NEW S, NEW s \in Seq(S), NEW t \in Seq(S)
  PROVE  /\ s \o t \in Seq(S) /\ Len(s) \in Nat /\ Len(t) \in Nat
         /\ Len(s \o t) = Len(s) + Len(t) /\ DOMAIN (s \o t) = 1 .. Len(s) + Len(t)
         /\ \A j \in 1 .. Len(s) : (s \o t)[j] = s[j]
         /\ \A j \in 1 .. Len(t) : (s \o t)[Len(s) + j] = t[j]
OBVIOUS

(* What the server sends ends in no o, all of it is the request's, and a
   closing brace in it ends an object that does not follow an o.            *)
LEMMA AnswerShape ==
  ASSUME HeaderEndsApart, NEW r \in Requests, NEW k \in {"ok", "json", "error"}
  PROVE  LET a == Answer(r, k) IN
         /\ a \in Seq(Bytes) /\ a # <<>> /\ a[Len(a)].c # "o" /\ Owns(a, r)
         /\ \A j \in DOMAIN a : a[j].c = "close" =>
              j >= 3 /\ a[j - 2].c = "open" /\ a[j - 1].c = "x" /\ (j > 3 => a[j - 3].c # "o")
<1> DEFINE H == {"open", "o", "x"}
           C == {"open", "close", "o", "k", "x"}
           h == Len(Header)
           b == Body[k]
           n == Len(b)
           t == Header \o b
           a == Answer(r, k)
<1>1. Header \in Seq(H) /\ Header \in Seq(C) /\ b \in Seq(C)
  <2>1. Header \in Seq(H)
    BY HeaderAssumption
  <2>2. H \subseteq C /\ {"o", "k", "x"} \subseteq C /\ {"open", "x", "close"} \subseteq C
    OBVIOUS
  <2>3. b \in Seq({"o", "k", "x"}) \/ b \in Seq({"open", "x", "close"})
    BY BodyShape
  <2> HIDE DEF H, C, b
  <2>4. QED
    BY <2>1, <2>2, <2>3, SeqMonotonic
<1>2. /\ h \in Nat /\ n \in Nat /\ DOMAIN t = 1 .. h + n
      /\ \A j \in 1 .. h : t[j] = Header[j]
      /\ \A j \in 1 .. n : t[h + j] = b[j]
  <2> HIDE DEF C, b
  <2> QED BY <1>1, Concat
<1>3. \A j \in 1 .. h : Header[j] \in H
  <2>1. Header \in Seq(H)
    BY HeaderAssumption
  <2> HIDE DEF H
  <2>2. QED
    BY <2>1
<1>4. \A y \in H : y # "close"
  OBVIOUS
<1>5. h > 0 => Header[h] # "o"
  <2> SUFFICES ASSUME h > 0 PROVE Header # <<>>
    BY DEF HeaderEndsApart
  <2> QED OBVIOUS
<1>6. \/ n = 2 /\ b[1] = "o" /\ b[2] # "close" /\ b[2] # "o"
      \/ n = 3 /\ b[1] = "open" /\ b[2] = "x" /\ b[3] = "close"
  <2>1. \A y \in {"k", "x"} : y # "close" /\ y # "o"
    OBVIOUS
  <2>2. QED
    BY <2>1, BodyShape, Zenon DEF n, b
<1>7. DOMAIN a = DOMAIN t /\ \A j \in DOMAIN t : a[j].c = t[j] /\ a[j].of = r
  <2>1. a = Text(r, t)
    BY DEF Answer
  <2> HIDE DEF t
  <2>2. QED
    BY <2>1, TextBytes
<1>8. a \in Seq(Bytes)
  BY AnswerBytes
<1> HIDE DEF t, a, b, h, n, H, C
<1>9. \A j \in 1 .. h : t[j] = Header[j] /\ Header[j] # "close"
  BY <1>2, <1>3, <1>4, Zenon
<1>10. /\ n > 0 /\ t[h + n] # "o"
       /\ \A j \in 1 .. h + n : t[j] = "close" =>
            j >= 3 /\ t[j - 2] = "open" /\ t[j - 1] = "x" /\ (j > 3 => t[j - 3] # "o")
  <2>1. n > 0 /\ t[h + n] # "o"
    <3>1. n > 0 /\ n \in 1 .. n /\ b[n] # "o"
      BY <1>6
    <3>2. QED
      BY <1>2, <3>1
  <2>2. ASSUME NEW j \in 1 .. h + n, t[j] = "close"
        PROVE  j >= 3 /\ t[j - 2] = "open" /\ t[j - 1] = "x" /\ (j > 3 => t[j - 3] # "o")
    <3>1. j \notin 1 .. h
      BY <1>9, <2>2
    <3>2. j - h \in 1 .. n /\ h + (j - h) = j
      BY <1>2, <3>1
    <3>3. b[j - h] = "close"
      BY <1>2, <2>2, <3>2
    <3>4. n = 3 /\ j - h = 3 /\ b[1] = "open" /\ b[2] = "x"
      BY <1>6, <3>2, <3>3
    <3>5. t[h + 1] = "open" /\ t[h + 2] = "x"
      <4>1. 1 \in 1 .. n /\ 2 \in 1 .. n
        BY <3>4
      <4>2. QED
        BY <1>2, <3>4, <4>1
    <3>6. h > 0 => t[h] # "o"
      <4>1. h > 0 => h \in 1 .. h
        BY <1>2
      <4>2. QED
        BY <1>5, <1>9, <4>1
    <3>7. j - 2 = h + 1 /\ j - 1 = h + 2 /\ j - 3 = h /\ (j > 3 => h > 0) /\ j >= 3
      BY <1>2, <3>4
    <3>8. QED
      BY <3>5, <3>6, <3>7
  <2>3. QED
    BY <2>1, <2>2
<1>11. DOMAIN a = 1 .. h + n /\ Len(a) = h + n /\ a # <<>>
  <2>1. DOMAIN a = 1 .. h + n /\ h + n > 0 /\ h + n \in Nat
    BY <1>2, <1>7, <1>10
  <2>2. QED
    BY <1>8, <2>1
<1>12. a[Len(a)].c # "o" /\ Owns(a, r)
  <2>1. h + n \in 1 .. h + n
    BY <1>2, <1>10
  <2>2. QED
    BY <1>2, <1>7, <1>10, <1>11, <2>1, Zenon DEF Owns
<1>13. ASSUME NEW j \in DOMAIN a, a[j].c = "close"
       PROVE  j >= 3 /\ a[j - 2].c = "open" /\ a[j - 1].c = "x" /\ (j > 3 => a[j - 3].c # "o")
  <2>1. t[j] = "close" /\ j \in 1 .. h + n
    BY <1>2, <1>7, <1>11, <1>13, Zenon
  <2>2. j >= 3 /\ t[j - 2] = "open" /\ t[j - 1] = "x" /\ (j > 3 => t[j - 3] # "o")
    BY <1>10, <2>1, Zenon
  <2>3. j - 2 \in 1 .. h + n /\ j - 1 \in 1 .. h + n /\ (j > 3 => j - 3 \in 1 .. h + n)
    BY <1>2, <2>1, <2>2
  <2>4. QED
    BY <1>2, <1>7, <2>2, <2>3, Zenon
<1>14. QED
  BY <1>8, <1>11, <1>12, <1>13 DEF a

LEMMA TailFacts ==
  ASSUME NEW S, NEW s \in Seq(S), s # <<>>
  PROVE  /\ Tail(s) \in Seq(S) /\ Len(s) \in Nat \ {0} /\ DOMAIN s = 1 .. Len(s) /\ Head(s) = s[1]
         /\ Len(Tail(s)) = Len(s) - 1 /\ DOMAIN Tail(s) = 1 .. Len(s) - 1
         /\ \A j \in 1 .. Len(s) - 1 : Tail(s)[j] = s[j + 1]
OBVIOUS

LEMMA AppendSecond ==
  ASSUME NEW S, NEW a \in S, NEW b \in S
  PROVE  Append(<<a>>, b) = <<a, b>>
<1> DEFINE s == <<a>>
           u == <<a, b>>
<1>1. s \in Seq(S) /\ u \in Seq(S) /\ Len(s) = 1 /\ Len(u) = 2
  OBVIOUS
<1>2. s[1] = a /\ u[1] = a /\ u[2] = b
  OBVIOUS
<1> SUFFICES Append(s, b) = u
  OBVIOUS
<1> HIDE DEF s, u
<1> DEFINE w == Append(s, b)
<1>3. w \in Seq(S) /\ Len(w) = Len(s) + 1 /\ w[Len(s) + 1] = b /\ \A j \in 1 .. Len(s) : w[j] = s[j]
  <2>1. s \in Seq(S)
    BY <1>1
  <2>2. QED
    BY <2>1
<1> HIDE DEF w
<1>4. Len(w) = 2 /\ w[1] = u[1] /\ w[2] = u[2]
  BY <1>1, <1>2, <1>3
<1>5. \A j \in 1 .. 2 : w[j] = u[j]
  BY <1>4
<1>6. w = u
  BY <1>1, <1>3, <1>4, <1>5, SeqEqual
<1>7. QED
  BY <1>6 DEF w

LEMMA AppendThird ==
  ASSUME NEW S, NEW a \in S, NEW b \in S, NEW d \in S
  PROVE  Append(<<a, b>>, d) = <<a, b, d>>
<1> DEFINE s == <<a, b>>
           u == <<a, b, d>>
<1>1. s \in Seq(S) /\ u \in Seq(S) /\ Len(s) = 2 /\ Len(u) = 3
  OBVIOUS
<1>2. s[1] = a /\ s[2] = b /\ u[1] = a /\ u[2] = b /\ u[3] = d
  OBVIOUS
<1> SUFFICES Append(s, d) = u
  OBVIOUS
<1> HIDE DEF s, u
<1> DEFINE w == Append(s, d)
<1>3. w \in Seq(S) /\ Len(w) = Len(s) + 1 /\ w[Len(s) + 1] = d /\ \A j \in 1 .. Len(s) : w[j] = s[j]
  <2>1. s \in Seq(S)
    BY <1>1
  <2>2. QED
    BY <2>1
<1> HIDE DEF w
<1>4. Len(w) = 3 /\ w[1] = u[1] /\ w[2] = u[2] /\ w[3] = u[3]
  BY <1>1, <1>2, <1>3
<1>5. \A j \in 1 .. 3 : w[j] = u[j]
  BY <1>4
<1>6. w = u
  BY <1>1, <1>3, <1>4, <1>5, SeqEqual
<1>7. QED
  BY <1>6 DEF w

LEMMA NotEmpty == ASSUME NEW S, NEW s \in Seq(S), s # <<>> PROVE Len(s) \in 1 .. Len(s)
OBVIOUS

LEMMA ByteIs == ASSUME NEW b \in Bytes PROVE b = B(b.c, b.of)
BY DEF Bytes, B

(* A byte is read and the call goes on: the object that was whole still is. *)
LEMMA FramedTail ==
  ASSUME NEW w \in Seq(Bytes), w # <<>>, NEW r \in Requests, Owns(w, r),
         NEW buf, NEW at, NEW buf2, NEW at2, Framed(w, buf, at, r),
         \/ at = "reading" /\ w[1].c = "open" /\ buf2 = <<w[1]>> /\ at2 = "reading"
         \/ at = "reading" /\ w[1].c = "o"
         \/ at = "reading" /\ w[1].c \in {"k", "x"} /\ buf2 = Append(buf, w[1]) /\ at2 = "reading"
         \/ at = "second" /\ at2 = "reading"
  PROVE  Framed(Tail(w), buf2, at2, r) /\ Owns(Tail(w), r)
<1> DEFINE v == Tail(w)
           m == Len(w) - 1
<1>1. /\ m \in Nat /\ DOMAIN w = 1 .. m + 1 /\ DOMAIN v = 1 .. m
      /\ \A j \in 1 .. m : v[j] = w[j + 1]
  BY TailFacts
<1>2. 1 \in DOMAIN w /\ w[1] = B(w[1].c, r)
  <2>1. 1 \in DOMAIN w
    BY <1>1
  <2>2. w[1] \in Bytes
    BY <2>1, SeqFacts
  <2>3. QED
    BY <2>1, <2>2, ByteIs DEF Owns
<1> HIDE DEF v, m
<1>3. ASSUME NEW j \in DOMAIN v, v[j].c = "close"
      PROVE  \/ j = 1 /\ at2 = "reading" /\ buf2 = <<B("open", r), B("x", r)>>
             \/ j = 2 /\ at2 = "reading" /\ buf2 = <<B("open", r)>> /\ v[1].c = "x"
             \/ j = 3 /\ at2 = "reading" /\ v[1].c = "open" /\ v[2].c = "x"
             \/ j > 3 /\ v[j - 3].c # "o" /\ v[j - 2].c = "open" /\ v[j - 1].c = "x"
  <2>1. j \in 1 .. m /\ j + 1 \in DOMAIN w /\ w[j + 1].c = "close"
    BY <1>1, <1>3
  <2>2. \/ j = 1 /\ at = "reading" /\ buf = <<B("open", r)>> /\ w[1].c = "x"
        \/ j = 2 /\ at = "reading" /\ w[1].c = "open" /\ w[2].c = "x"
        \/ j > 2 /\ w[j - 2].c # "o" /\ w[j - 1].c = "open" /\ w[j].c = "x"
    <3>1. \/ j + 1 = 1
          \/ j + 1 = 2 /\ at = "reading" /\ buf = <<B("open", r)>> /\ w[1].c = "x"
          \/ j + 1 = 3 /\ at = "reading" /\ w[1].c = "open" /\ w[2].c = "x"
          \/ j + 1 > 3 /\ w[(j + 1) - 3].c # "o" /\ w[(j + 1) - 2].c = "open" /\ w[(j + 1) - 1].c = "x"
      BY <2>1, Zenon DEF Framed
    <3>2. j \in Nat \ {0} /\ (j + 1) - 3 = j - 2 /\ (j + 1) - 2 = j - 1 /\ (j + 1) - 1 = j
      BY <2>1
    <3>3. QED
      BY <3>1, <3>2
  <2>3. B("open", r) \in Bytes /\ B("x", r) \in Bytes
    BY DEF B, Bytes
  <2>4. CASE j = 1
    <3>1. at = "reading" /\ buf = <<B("open", r)>> /\ w[1].c = "x"
      BY <2>2, <2>4
    <3>2. buf2 = Append(buf, w[1]) /\ at2 = "reading"
      BY <3>1
    <3>3. w[1] = B("x", r)
      BY <1>2, <3>1
    <3>4. buf2 = <<B("open", r), B("x", r)>>
      BY <3>1, <3>2, <3>3, <2>3, AppendSecond
    <3>5. QED
      BY <2>4, <3>2, <3>4
  <2>5. CASE j = 2
    <3>1. at = "reading" /\ w[1].c = "open" /\ w[2].c = "x"
      BY <2>2, <2>5
    <3>2. buf2 = <<w[1]>> /\ at2 = "reading"
      BY <3>1
    <3>3. w[1] = B("open", r) /\ v[1] = w[2]
      BY <1>1, <1>2, <2>1, <2>5, <3>1
    <3>4. QED
      BY <2>5, <3>1, <3>2, <3>3
  <2>6. CASE j > 2
    <3>1. w[j - 2].c # "o" /\ w[j - 1].c = "open" /\ w[j].c = "x"
      BY <2>2, <2>6
    <3>2. v[j - 2] = w[j - 1] /\ v[j - 1] = w[j]
      <4>1. j - 2 \in 1 .. m /\ j - 1 \in 1 .. m /\ (j - 2) + 1 = j - 1 /\ (j - 1) + 1 = j
        BY <1>1, <2>1, <2>6
      <4>2. QED
        BY <1>1, <4>1, Zenon
    <3>3. CASE j = 3
      <4>1. w[1].c # "o" /\ v[1].c = "open" /\ v[2].c = "x"
        BY <3>1, <3>2, <3>3
      <4>2. at2 = "reading"
        BY <4>1
      <4>3. QED
        BY <3>3, <4>1, <4>2
    <3>4. CASE j > 3
      <4>1. j - 3 \in 1 .. m /\ (j - 3) + 1 = j - 2
        BY <1>1, <2>1, <3>4
      <4>2. v[j - 3] = w[j - 2]
        BY <1>1, <4>1, Zenon
      <4>3. QED
        BY <3>1, <3>2, <3>4, <4>2
    <3>5. QED
      BY <2>1, <2>6, <3>3, <3>4
  <2>7. QED
    BY <2>1, <2>4, <2>5, <2>6
<1>4. Framed(v, buf2, at2, r)
  BY <1>3, Zenon DEF Framed
<1>5. Owns(v, r)
  <2> SUFFICES ASSUME NEW j \in DOMAIN v PROVE v[j].of = r
    BY DEF Owns
  <2>1. v[j] = w[j + 1] /\ j + 1 \in DOMAIN w
    BY <1>1
  <2>2. QED
    BY <2>1 DEF Owns
<1>6. QED
  BY <1>4, <1>5 DEF v

(* A process that is not alone, or not at the modem, is promised nothing; one that
   has just asked finds the modem empty.                                    *)
LEMMA WholePost ==
  ASSUME TypeInv, WholeInv, TextInv, NEW p \in Procs, PostWifi(p) \/ PostGprs(p)
  PROVE  WholeInv' /\ TextInv'
<1>1. UNCHANGED <<wire, out, stored>> /\ pc[p] = "idle"
  BY DEF PostWifi, PostGprs, server
<1>2. \A q \in Procs \ {p} : UNCHANGED <<pc[q], req[q], rcv[q], way[q]>>
  BY DEF PostWifi, PostGprs, TypeInv, ProcTypes, DataTypes
<1>3. \A q \in Procs \ {p} : alone'[q] => alone[q]
  <2>1. CASE PostWifi(p)
    BY <2>1 DEF PostWifi, TypeInv, ProcTypes
  <2>2. CASE PostGprs(p)
    BY <2>2, Zenon DEF PostGprs
  <2>3. QED
    BY <2>1, <2>2
<1>4. (pc'[p] = "connect" /\ way'[p] = "wifi") \/ (pc'[p] = "reading" /\ way'[p] = "modem")
  BY DEF PostWifi, PostGprs, TypeInv, ProcTypes
<1>5. pc'[p] = "reading" /\ alone'[p] => wire' = <<>>
  <2>1. CASE PostWifi(p)
    BY <2>1 DEF PostWifi, TypeInv, ProcTypes
  <2>2. CASE PostGprs(p)
    BY <2>2, <1>1, Zenon DEF PostGprs
  <2>3. QED
    BY <2>1, <2>2
<1>6. ASSUME NEW q \in Procs, AtModem(q)', alone'[q] PROVE Whole(q)'
  <2>1. CASE q # p
    <3>1. AtModem(q) /\ alone[q]
      BY <1>2, <1>3, <1>6, <2>1 DEF AtModem
    <3>2. Whole(q)
      BY <3>1 DEF WholeInv
    <3>3. QED
      BY <1>1, <1>2, <2>1, <3>2, Zenon DEF Whole
  <2>2. CASE q = p
    <3>1. pc'[q] = "reading" /\ wire' = <<>>
      BY <1>4, <1>5, <1>6, <2>2 DEF AtModem
    <3>2. QED
      BY <3>1 DEF Whole, Owns, Framed
  <2>3. QED
    BY <2>1, <2>2
<1>7. ASSUME NEW q \in Procs PROVE OwnText(q)'
  <2>1. CASE q # p
    <3>1. OwnText(q) /\ (Returned(q)' => Returned(q)) /\ (alone'[q] => alone[q])
      BY <1>2, <1>3, <2>1 DEF TextInv, Returned
    <3>2. UNCHANGED <<out[q], req[q], way[q], stored>>
      BY <1>1, <1>2, <2>1
    <3>3. QED
      BY <3>1, <3>2, Zenon DEF OwnText, SomeOf
  <2>2. CASE q = p
    BY <1>4, <2>2 DEF OwnText, Returned
  <2>3. QED
    BY <2>1, <2>2
<1>8. WayInv'
  BY <1>2, <1>4 DEF WholeInv, WayInv, AtModem
<1>9. QED
  BY <1>1, <1>6, <1>7, <1>8 DEF WholeInv, TextInv, EndsApart

(* A byte of a call that is alone: it is the first of what is its own. *)
LEMMA OwnByte ==
  ASSUME TypeInv, NEW p \in Procs, Owns(wire, req[p]), wire # <<>>
  PROVE  /\ wire[1].c \in {"open", "close", "o", "k", "x"} /\ wire[1] = B(wire[1].c, req[p])
         /\ Head(wire) = wire[1] /\ 1 \in DOMAIN wire /\ wire \in Seq(Bytes)
<1>1. wire \in Seq(Bytes)
  BY DEF TypeInv, DataTypes
<1>2. Head(wire) = wire[1] /\ 1 \in DOMAIN wire
  <2>1. Head(wire) = wire[1] /\ Len(wire) \in Nat \ {0} /\ DOMAIN wire = 1 .. Len(wire)
    BY <1>1, TailFacts
  <2>2. QED
    BY <2>1
<1>3. wire[1] \in Bytes
  BY <1>1, <1>2, SeqFacts
<1>4. wire[1].c \in {"open", "close", "o", "k", "x"} /\ wire[1].of = req[p]
  BY <1>2, <1>3 DEF Bytes, Owns
<1>5. QED
  BY <1>1, <1>2, <1>3, <1>4, ByteIs

LEMMA EndsApartTail ==
  ASSUME wire \in Seq(Bytes), wire # <<>>, EndsApart(wire)
  PROVE  EndsApart(Tail(wire)) /\ (wire[1].c = "o" => Tail(wire) # <<>>)
<1>1. /\ Len(wire) \in Nat \ {0} /\ Len(Tail(wire)) = Len(wire) - 1 /\ Tail(wire) \in Seq(Bytes)
      /\ \A j \in 1 .. Len(wire) - 1 : Tail(wire)[j] = wire[j + 1]
  BY TailFacts
<1>2. wire[Len(wire)].c # "o"
  BY DEF EndsApart
<1>3. Tail(wire) # <<>> => Len(wire) - 1 \in 1 .. Len(wire) - 1
  <2>1. Tail(wire) \in Seq(Bytes)
    BY <1>1
  <2>2. Tail(wire) # <<>> => Len(Tail(wire)) \in 1 .. Len(Tail(wire))
    BY <2>1, NotEmpty
  <2>3. QED
    BY <1>1, <2>2
<1>4. Tail(wire) # <<>> => Tail(wire)[Len(Tail(wire))] = wire[Len(wire)]
  BY <1>1, <1>3
<1>5. Tail(wire) = <<>> => Len(wire) = 1
  <2>1. Tail(wire) = <<>> => Len(Tail(wire)) = 0
    <3>1. Len(<<>>) = 0
      OBVIOUS
    <3>2. QED
      BY <3>1, Zenon
  <2>2. Len(wire) \in Nat \ {0} /\ Len(Tail(wire)) = Len(wire) - 1
    BY <1>1
  <2>3. QED
    BY <2>1, <2>2
<1>6. QED
  BY <1>2, <1>4, <1>5 DEF EndsApart

(* A byte is read by the call that is alone. *)
LEMMA WholeRead ==
  ASSUME TypeInv, WholeInv, NEW p \in Procs, Read(p), alone[p]
  PROVE  /\ AtModem(p)' => Whole(p)'
         /\ pc'[p] = "idle" /\ out'[p].kind = "text" => out'[p].body = Text(req[p], <<"open", "x", "close">>)
<1>1. AtModem(p) /\ UNCHANGED <<req, alone>> /\ pc[p] \in {"reading", "second"}
  BY DEF Read, ReadByte, ReadSecond, AtModem
<1>2. Owns(wire, req[p]) /\ Framed(wire, rcv[p], pc[p], req[p]) /\ (pc[p] = "second" => wire # <<>>)
  BY <1>1, Zenon DEF WholeInv, Whole
<1>3. wire # <<>> /\ wire' = Tail(wire)
  BY <1>2 DEF Read, ReadByte, ReadSecond
<1>4. /\ wire[1].c \in {"open", "close", "o", "k", "x"} /\ wire[1] = B(wire[1].c, req[p])
      /\ Head(wire) = wire[1] /\ 1 \in DOMAIN wire /\ wire \in Seq(Bytes)
  BY <1>2, <1>3, OwnByte
<1>5. DOMAIN rcv = Procs /\ DOMAIN pc = Procs /\ DOMAIN out = Procs
  BY DEF TypeInv, ProcTypes, DataTypes
<1>6. EndsApart(Tail(wire)) /\ (wire[1].c = "o" => Tail(wire) # <<>>)
  BY <1>3, <1>4, EndsApartTail DEF WholeInv
<1>7. CASE pc'[p] = "idle"
  <2>1. ~AtModem(p)'
    BY <1>7 DEF AtModem
  <2>2. SUFFICES ASSUME out'[p].kind = "text" PROVE out'[p].body = Text(req[p], <<"open", "x", "close">>)
    BY <2>1
  <2>3. wire[1].c = "close" /\ out'[p] = Said(Append(rcv[p], wire[1])) /\ pc[p] = "reading"
    BY <1>3, <1>4, <1>5, <1>7, <2>2 DEF Read, ReadByte, ReadSecond, Returns, OK
  <2>4. rcv[p] = <<B("open", req[p]), B("x", req[p])>>
    BY <1>2, <1>4, <2>3 DEF Framed
  <2>5. \A c \in {"open", "x", "close"} : B(c, req[p]) \in Bytes
    BY DEF B, Bytes, TypeInv, ProcTypes
  <2>6. Append(rcv[p], wire[1]) = <<B("open", req[p]), B("x", req[p]), B("close", req[p])>>
    BY <1>4, <2>3, <2>4, <2>5, AppendThird
  <2>7. out'[p].body = Append(rcv[p], wire[1])
    BY <2>3 DEF Said
  <2>8. QED
    BY <2>6, <2>7, TextOf
<1>8. CASE pc'[p] # "idle"
  <2>1. \/ pc[p] = "reading" /\ wire[1].c = "open" /\ rcv'[p] = <<wire[1]>> /\ pc'[p] = "reading"
        \/ pc[p] = "reading" /\ wire[1].c = "o"
        \/ pc[p] = "reading" /\ wire[1].c \in {"k", "x"} /\ rcv'[p] = Append(rcv[p], wire[1]) /\ pc'[p] = "reading"
        \/ pc[p] = "second" /\ pc'[p] = "reading"
    BY <1>3, <1>4, <1>5, <1>8, Zenon DEF Read, ReadByte, ReadSecond, Returns
  <2>2. Framed(Tail(wire), rcv'[p], pc'[p], req[p]) /\ Owns(Tail(wire), req[p])
    <3>1. req[p] \in Requests
      BY DEF TypeInv, ProcTypes
    <3>2. QED
      BY <3>1, <1>2, <1>3, <1>4, <2>1, FramedTail
  <2>3. pc'[p] = "second" => wire[1].c = "o"
    BY <1>3, <1>4, <1>5 DEF Read, ReadByte, ReadSecond, Returns
  <2>4. QED
    BY <1>1, <1>3, <1>6, <1>8, <2>2, <2>3, Zenon DEF Whole
<1>9. QED
  BY <1>7, <1>8

(* An answer comes in behind the bytes that wait: what is whole stays whole. *)
LEMMA FramedConcat ==
  ASSUME NEW w \in Seq(Bytes), NEW a \in Seq(Bytes), NEW buf, NEW at, NEW r,
         EndsApart(w), Framed(w, buf, at, r), w = <<>> => at = "reading",
         \A j \in DOMAIN a : a[j].c = "close" =>
           j >= 3 /\ a[j - 2].c = "open" /\ a[j - 1].c = "x" /\ (j > 3 => a[j - 3].c # "o")
  PROVE  Framed(w \o a, buf, at, r)
<1> DEFINE u == w \o a
           m == Len(w)
           n == Len(a)
<1>1. /\ m \in Nat /\ n \in Nat /\ DOMAIN u = 1 .. m + n /\ DOMAIN w = 1 .. m /\ DOMAIN a = 1 .. n
      /\ \A j \in 1 .. m : u[j] = w[j]
      /\ \A j \in 1 .. n : u[m + j] = a[j]
  BY Concat, SeqFacts
<1>2. m > 0 => w[m].c # "o"
  BY DEF EndsApart
<1>3. m = 0 => at = "reading"
  OBVIOUS
<1> HIDE DEF u, m, n
<1>4. ASSUME NEW j \in DOMAIN u, u[j].c = "close"
      PROVE  \/ j = 1 /\ at = "reading" /\ buf = <<B("open", r), B("x", r)>>
             \/ j = 2 /\ at = "reading" /\ buf = <<B("open", r)>> /\ u[1].c = "x"
             \/ j = 3 /\ at = "reading" /\ u[1].c = "open" /\ u[2].c = "x"
             \/ j > 3 /\ u[j - 3].c # "o" /\ u[j - 2].c = "open" /\ u[j - 1].c = "x"
  <2>1. CASE j \in 1 .. m
    <3>1. u[j] = w[j] /\ (j > 1 => u[1] = w[1]) /\ (j > 2 => u[2] = w[2] /\ u[j - 1] = w[j - 1] /\ u[j - 2] = w[j - 2])
      BY <1>1, <2>1
    <3>2. j > 3 => u[j - 3] = w[j - 3]
      BY <1>1, <2>1
    <3>3. \/ j = 1 /\ at = "reading" /\ buf = <<B("open", r), B("x", r)>>
          \/ j = 2 /\ at = "reading" /\ buf = <<B("open", r)>> /\ w[1].c = "x"
          \/ j = 3 /\ at = "reading" /\ w[1].c = "open" /\ w[2].c = "x"
          \/ j > 3 /\ w[j - 3].c # "o" /\ w[j - 2].c = "open" /\ w[j - 1].c = "x"
      BY <1>1, <1>4, <2>1, <3>1, Zenon DEF Framed
    <3>4. (j = 2 => j > 1) /\ (j = 3 => j > 1 /\ j > 2) /\ (j > 3 => j > 2)
      BY <2>1
    <3>5. QED
      BY <3>1, <3>2, <3>3, <3>4, Zenon
  <2>2. CASE j \notin 1 .. m
    <3> DEFINE i == j - m
    <3>1. i \in 1 .. n /\ m + i = j
      BY <1>1, <2>2
    <3>2. a[i].c = "close"
      BY <1>1, <1>4, <3>1
    <3>3. i >= 3 /\ a[i - 2].c = "open" /\ a[i - 1].c = "x" /\ (i > 3 => a[i - 3].c # "o")
      <4> HIDE DEF i
      <4> QED BY <1>1, <3>1, <3>2
    <3> HIDE DEF i
    <3>4. u[j - 2].c = "open" /\ u[j - 1].c = "x"
      <4>1. i - 2 \in 1 .. n /\ i - 1 \in 1 .. n /\ m + (i - 2) = j - 2 /\ m + (i - 1) = j - 1
        BY <1>1, <3>1, <3>3
      <4>2. u[m + (i - 2)] = a[i - 2] /\ u[m + (i - 1)] = a[i - 1]
        BY <1>1, <4>1, Zenon
      <4>3. QED
        BY <3>3, <4>1, <4>2
    <3>5. CASE i > 3
      <4>1. i - 3 \in 1 .. n /\ m + (i - 3) = j - 3 /\ j > 3
        <5>1. m \in Nat /\ n \in Nat
          BY <1>1
        <5>2. QED
          BY <3>1, <3>5, <5>1
      <4>2. u[m + (i - 3)] = a[i - 3]
        BY <1>1, <4>1, Zenon
      <4>3. QED
        BY <3>3, <3>4, <3>5, <4>1, <4>2
    <3>6. CASE i = 3 /\ m > 0
      <4>1. m \in 1 .. m /\ j - 3 = m /\ j > 3
        BY <1>1, <3>1, <3>6
      <4>2. u[m] = w[m]
        BY <1>1, <4>1, Zenon
      <4>3. QED
        BY <1>2, <3>4, <3>6, <4>1, <4>2
    <3>7. CASE i = 3 /\ m = 0
      <4>1. j = 3 /\ j - 2 = 1 /\ j - 1 = 2
        BY <3>1, <3>7
      <4>2. QED
        BY <1>3, <3>4, <3>7, <4>1
    <3>8. QED
      BY <1>1, <3>1, <3>3, <3>5, <3>6, <3>7
  <2>3. QED
    BY <2>1, <2>2
<1>5. QED
  BY <1>4, Zenon DEF Framed, u

LEMMA OwnsConcat ==
  ASSUME NEW w \in Seq(Bytes), NEW a \in Seq(Bytes), NEW r, a # <<>>
  PROVE  /\ w \o a # <<>> /\ w \o a \in Seq(Bytes)
         /\ Owns(w, r) /\ Owns(a, r) => Owns(w \o a, r)
         /\ a[Len(a)].c # "o" => EndsApart(w \o a)
<1> DEFINE u == w \o a
           m == Len(w)
           n == Len(a)
<1>1. /\ m \in Nat /\ n \in Nat /\ DOMAIN u = 1 .. m + n /\ DOMAIN w = 1 .. m /\ DOMAIN a = 1 .. n
      /\ \A j \in 1 .. m : u[j] = w[j]
      /\ \A j \in 1 .. n : u[m + j] = a[j]
      /\ u \in Seq(Bytes) /\ Len(u) = m + n
  BY Concat, SeqFacts
<1>2. n \in 1 .. n
  BY NotEmpty
<1>3. u # <<>>
  <2>1. Len(<<>>) = 0
    OBVIOUS
  <2> HIDE DEF u, m, n
  <2>2. QED
    BY <1>1, <1>2, <2>1
<1> HIDE DEF u, m, n
<1>4. ASSUME Owns(w, r), Owns(a, r), NEW j \in DOMAIN u PROVE u[j].of = r
  <2>1. CASE j \in 1 .. m
    BY <1>1, <1>4, <2>1 DEF Owns
  <2>2. CASE j \notin 1 .. m
    <3>1. j - m \in 1 .. n /\ m + (j - m) = j
      BY <1>1, <2>2
    <3>2. u[m + (j - m)] = a[j - m]
      BY <1>1, <3>1, Zenon
    <3>3. QED
      BY <1>1, <1>4, <3>1, <3>2 DEF Owns
  <2>3. QED
    BY <2>1, <2>2
<1>5. u[Len(u)] = a[n]
  BY <1>1, <1>2
<1>6. a[n].c # "o" => EndsApart(u)
  BY <1>5 DEF EndsApart
<1>7. Owns(w, r) /\ Owns(a, r) => Owns(u, r)
  BY <1>4, Zenon DEF Owns
<1>8. QED
  BY <1>1, <1>3, <1>6, <1>7 DEF u, n

LEMMA WholeServer ==
  ASSUME HeaderEndsApart, TypeInv, LinkInv, WholeInv, TextInv, NEW a \in flight, Server(a)
  PROVE  WholeInv' /\ TextInv'
<1>1. UNCHANGED <<pc, req, rcv, out, way, alone>> /\ stored \subseteq stored'
  BY DEF Server, Processes, Refuses
<1>2. TextInv'
  BY <1>1 DEF TextInv, OwnText, SomeOf, Returned
<1>3. a[1] \in Requests /\ wire \in Seq(Bytes)
  BY DEF TypeInv, FlightInv, DataTypes, Attempts
<1>4. wire' = wire \/ \E k \in {"ok", "json", "error"} : wire' = wire \o Answer(a[1], k)
  BY ReplyAssumption DEF Server
<1>5. CASE wire' = wire
  BY <1>1, <1>2, <1>5 DEF WholeInv, WayInv, Whole, EndsApart, AtModem
<1>6. ASSUME NEW k \in {"ok", "json", "error"}, wire' = wire \o Answer(a[1], k) PROVE WholeInv'
  <2> DEFINE t == Answer(a[1], k)
  <2>1. /\ t \in Seq(Bytes) /\ t # <<>> /\ t[Len(t)].c # "o" /\ Owns(t, a[1])
        /\ \A j \in DOMAIN t : t[j].c = "close" =>
             j >= 3 /\ t[j - 2].c = "open" /\ t[j - 1].c = "x" /\ (j > 3 => t[j - 3].c # "o")
    BY <1>3, AnswerShape
  <2>2. wire' = wire \o t
    BY <1>6
  <2> HIDE DEF t
  <2>3. EndsApart(wire')
    BY <1>3, <2>1, <2>2, OwnsConcat
  <2>4. ASSUME NEW p \in Procs, AtModem(p), alone[p] PROVE Whole(p)'
    <3>1. Whole(p) /\ a[1] = req[p] /\ pc[p] \in {"reading", "second"}
      BY <2>4 DEF WholeInv, LinkInv, PeaceInv, Peace, AtModem
    <3>2. Owns(wire', req[p]) /\ wire' # <<>>
      BY <1>3, <2>1, <2>2, <3>1, OwnsConcat DEF Whole
    <3>3. wire = <<>> => pc[p] = "reading"
      BY <3>1 DEF Whole
    <3>4. Framed(wire', rcv[p], pc[p], req[p])
      BY <1>3, <2>1, <2>2, <3>1, <3>3, FramedConcat DEF Whole, WholeInv
    <3>5. QED
      BY <1>1, <3>2, <3>4, Zenon DEF Whole
  <2>5. QED
    BY <1>1, <2>3, <2>4 DEF WholeInv, WayInv, AtModem
<1>7. QED
  BY <1>2, <1>4, <1>5, <1>6

LEMMA WholeWebServer ==
  ASSUME WholeInv, TextInv, NEW r \in web, WebServer(r)
  PROVE  WholeInv' /\ TextInv'
<1>1. UNCHANGED <<pc, req, rcv, out, wire, way, alone>> /\ stored \subseteq stored'
  BY DEF WebServer, Processes, Refuses
<1>2. QED
  BY <1>1 DEF WholeInv, WayInv, TextInv, Whole, OwnText, SomeOf, Returned, AtModem, EndsApart

(* What one recv() gives of a page of status 200 is the beginning of its body. *)
LEMMA TextWeb ==
  ASSUME TypeInv, LinkInv, WholeInv, NEW p \in Procs, Web(p)
  PROVE  ~AtModem(p)' /\ OwnText(p)'
<1>1. ~AtModem(p)' /\ UNCHANGED <<req, way, alone, stored>>
  BY DEF Web, Connect, SendRequest, FirstRecv, WebReturns, AtModem, TypeInv, ProcTypes
<1>2. SUFFICES ASSUME pc'[p] = "idle", out'[p].kind = "text"
               PROVE  way[p] = "wifi" /\ req[p] \in stored /\ SomeOf(p)'
  BY <1>1 DEF OwnText, Returned
<1>3. out'[p] = NULL \/ (FirstRecv(p) /\ out'[p] \in HttpResults(req[p], page[p]))
  BY <1>2 DEF Web, Connect, SendRequest, FirstRecv, WebReturns, TypeInv, ProcTypes, DataTypes
<1>4. FirstRecv(p) /\ out'[p] \in HttpResults(req[p], page[p]) /\ out'[p] # OK
  BY <1>2, <1>3 DEF NULL, OK
<1>5. PICK n \in 0 .. Len(Body[page[p].body]) :
        page[p].status = "200" /\ out'[p] = BodySoFar(req[p], page[p].body, n)
  BY <1>2, <1>4 DEF HttpResults, NULL
<1>6. out'[p].body = Text(req[p], SubSeq(Body[page[p].body], 1, n))
  BY <1>4, <1>5 DEF BodySoFar, Said
<1>7. page[p].body \in {"ok", "json"} /\ req[p] \in stored
  BY <1>5 DEF LinkInv, PageInv, TypeInv, DataTypes, Pages
<1>8. way[p] = "wifi"
  <2>1. pc[p] = "wait" /\ WayInv
    BY <1>4 DEF FirstRecv, WholeInv
  <2>2. QED
    BY <2>1 DEF WayInv
<1>9. QED
  BY <1>1, <1>6, <1>7, <1>8 DEF SomeOf

LEMMA WholeReturn ==
  ASSUME TypeInv, LinkInv, WholeInv, TextInv, NEW p \in Procs, Web(p) \/ Read(p) \/ Timeout(p)
  PROVE  WholeInv' /\ TextInv'
<1>1. UNCHANGED <<req, way, alone, stored>> /\ pc[p] # "idle"
  BY DEF Web, Connect, SendRequest, FirstRecv, Read, ReadByte, ReadSecond, Timeout, TimesOut, server
<1>2. \A q \in Procs \ {p} : UNCHANGED <<pc[q], rcv[q], out[q]>>
  BY DEF Web, Connect, SendRequest, FirstRecv, WebReturns, Read, ReadByte, ReadSecond, Timeout, Returns, TypeInv, ProcTypes, DataTypes
<1>3. wire' = wire \/ (wire # <<>> /\ wire' = Tail(wire) /\ Read(p))
  <2>1. Web(p) \/ Timeout(p) => wire' = wire
    BY DEF Web, Connect, SendRequest, FirstRecv, Timeout
  <2>2. Read(p) => wire' = wire \/ (wire # <<>> /\ wire' = Tail(wire))
    <3>1. ReadByte(p) => wire # <<>> /\ wire' = Tail(wire)
      BY DEF ReadByte
    <3>2. ReadSecond(p) => wire' = wire \/ (wire # <<>> /\ wire' = Tail(wire))
      BY DEF ReadSecond
    <3>3. QED
      BY <3>1, <3>2, Zenon DEF Read
  <2>3. QED
    BY <2>1, <2>2, Zenon
<1>4. EndsApart(wire')
  <2>1. wire \in Seq(Bytes) /\ EndsApart(wire)
    BY DEF TypeInv, DataTypes, WholeInv
  <2>2. QED
    BY <1>3, <2>1, EndsApartTail
<1>5. Read(p) => AtModem(p)
  BY DEF Read, ReadByte, ReadSecond, AtModem
<1>6. ASSUME NEW q \in Procs \ {p} PROVE (AtModem(q)' /\ alone'[q] => Whole(q)') /\ OwnText(q)'
  <2>1. OwnText(q)'
    <3>1. OwnText(q) /\ Returned(q)' = Returned(q)
      BY <1>1, <1>2 DEF TextInv, Returned
    <3>2. UNCHANGED <<req[q], way[q], alone[q], stored, out[q]>>
      BY <1>1, <1>2
    <3>3. QED
      BY <3>1, <3>2, ZenonT(30) DEF OwnText, SomeOf
  <2>2. ASSUME AtModem(q)', alone'[q] PROVE Whole(q)'
    <3>1. AtModem(q) /\ alone[q]
      BY <1>1, <1>2, <2>2 DEF AtModem
    <3>2. Whole(q) /\ ~AtModem(p)
      BY <3>1 DEF WholeInv, LinkInv, PeaceInv, Peace
    <3>3. wire' = wire
      BY <1>3, <1>5, <3>2
    <3>4. QED
      BY <1>1, <1>2, <3>2, <3>3, Zenon DEF Whole
  <2>3. QED
    BY <2>1, <2>2
<1>7. (AtModem(p)' /\ alone'[p] => Whole(p)') /\ OwnText(p)'
  <2>1. CASE Read(p)
    <3>1. way[p] = "modem"
      <4>1. AtModem(p) /\ WayInv
        BY <1>5, <2>1 DEF WholeInv
      <4>2. QED
        BY <4>1 DEF WayInv
    <3>2. QED
      BY <1>1, <2>1, <3>1, WholeRead DEF OwnText, Returned
  <2>2. CASE Web(p)
    BY <1>1, <2>2, TextWeb
  <2>3. CASE Timeout(p)
    <3>1. wire' = <<>> /\ pc[p] = "reading"
      BY <2>3 DEF Timeout, TimesOut
    <3>2. pc'[p] = "reading" \/ (pc'[p] = "idle" /\ out'[p] = NULL)
      <4>1. UNCHANGED pc \/ (pc' = [pc EXCEPT ![p] = "idle"] /\ out' = [out EXCEPT ![p] = NULL])
        BY <2>3 DEF Timeout
      <4>2. QED
        BY <3>1, <4>1 DEF TypeInv, ProcTypes, DataTypes
    <3>3. pc'[p] = "reading" => Whole(p)'
      BY <3>1 DEF Whole, Owns, Framed
    <3>4. QED
      BY <3>2, <3>3 DEF AtModem, OwnText, Returned, NULL
  <2>4. QED
    BY <2>1, <2>2, <2>3
<1>8. WayInv'
  <2>1. AtModem(p)' => AtModem(p)
    BY DEF Web, Connect, SendRequest, FirstRecv, WebReturns, Read, ReadByte, ReadSecond, Timeout, TimesOut,
           Returns, AtModem, TypeInv, ProcTypes
  <2>2. pc'[p] \in {"connect", "send", "wait"} => way[p] = "wifi"
    <3>1. pc'[p] \in {"connect", "send", "wait"} => pc[p] \in {"connect", "send", "wait"}
      BY DEF Web, Connect, SendRequest, FirstRecv, WebReturns, Read, ReadByte, ReadSecond, Timeout, TimesOut,
             Returns, TypeInv, ProcTypes
    <3>2. WayInv
      BY DEF WholeInv
    <3>3. QED
      BY <3>1, <3>2 DEF WayInv
  <2>3. QED
    BY <1>1, <1>2, <2>1, <2>2 DEF WholeInv, WayInv, AtModem
<1>9. QED
  BY <1>4, <1>6, <1>7, <1>8 DEF WholeInv, TextInv

LEMMA WholeStep ==
  HeaderEndsApart /\ TypeInv /\ LinkInv /\ WholeInv /\ TextInv /\ [Next]_vars => WholeInv' /\ TextInv'
<1>1. ASSUME WholeInv, TextInv, SelectLink \/ UNCHANGED vars PROVE WholeInv' /\ TextInv'
  BY <1>1 DEF SelectLink, vars, link, WholeInv, WayInv, TextInv, Whole, OwnText, SomeOf, Returned, AtModem, EndsApart
<1>2. QED
  BY <1>1, WholePost, WholeReturn, WholeServer, WholeWebServer DEF Next, Post

LEMMA WholeInit == Init => WholeInv /\ TextInv
  BY DEF Init, WholeInv, WayInv, TextInv, EndsApart, AtModem, OwnText, Returned

(* The text that a call which was alone returns is its own answer's: over the
   modem the object from brace to brace, when the header of an answer does
   not end in an o; over wifi a beginning of its body, perhaps an empty one. *)
THEOREM BodyIsAnswer == ASSUME HeaderEndsApart PROVE Spec => []BodyIsOwn
<1>1. WholeInv /\ TextInv => BodyIsOwn
  BY DEF TextInv, OwnText, SomeOf, BodyIsOwn, Body
<1>2. HeaderEndsApart
  OBVIOUS
<1>3. TypeInv /\ LinkInv /\ WholeInv /\ TextInv /\ [Next]_vars => WholeInv' /\ TextInv'
  BY <1>2, WholeStep
<1>4. QED
  BY <1>1, <1>3, WholeInit, Types, LinkAlways, PTL DEF Spec
----------------------------------------------------------------------------
(***************************************************************************)
(* The refinement.  A call and its return are those of Link, the server's  *)
(* storing and its refusing of a request are Link's, the rest is hidden.   *)
(***************************************************************************)
Busy == [p \in Procs |-> pc[p] # "idle"]
Got  == [p \in Procs |-> out[p].kind]

LEMMA RefineInit == Init => L!Init
<1> SUFFICES ASSUME Init PROVE L!Init
  OBVIOUS
<1>1. Busy = [p \in Procs |-> FALSE] /\ Got = [p \in Procs |-> "ok"]
  BY DEF Init, OK, Busy, Got
<1>2. QED
  BY <1>1 DEF Init, L!Init, Busy, Got

LEMMA RefinePost ==
  ASSUME TypeInv, NEW p \in Procs, PostWifi(p) \/ PostGprs(p)
  PROVE  L!Next
<1>1. pc[p] = "idle" /\ req[p][2] < MaxCalls /\ req' = [req EXCEPT ![p] = <<p, req[p][2] + 1>>]
  BY DEF PostWifi, PostGprs
<1>2. pc'[p] # "idle" /\ \A q \in Procs \ {p} : pc'[q] = pc[q]
  BY DEF PostWifi, PostGprs, TypeInv, ProcTypes
<1>3. Busy' = [Busy EXCEPT ![p] = TRUE]
  BY <1>2 DEF Busy
<1>4. UNCHANGED <<Got, stored, refused>>
  BY DEF PostWifi, PostGprs, server, Got
<1>5. alone' \in [Procs -> BOOLEAN]
  BY TypePost DEF TypeInv, ProcTypes
<1>6. \A q \in Procs \ {p} : alone'[q] => alone[q]
  <2>1. CASE PostWifi(p)
    BY <2>1 DEF PostWifi, TypeInv, ProcTypes
  <2>2. CASE PostGprs(p)
    BY <2>2, Zenon DEF PostGprs
  <2>3. QED
    BY <2>1, <2>2
<1>7. L!Post(p)
  BY <1>1, <1>3, <1>4, <1>5, <1>6 DEF L!Post, Busy, Got
<1>8. QED
  BY <1>7 DEF L!Next

(* The calls that go on: only a byte is read, or an attempt is made again. *)
LEMMA RefineReturn ==
  ASSUME TypeInv, LinkInv, NEW p \in Procs, Web(p) \/ Read(p) \/ Timeout(p)
  PROVE  L!Next \/ UNCHANGED L!vars
<1>1. UNCHANGED <<req, alone, stored, refused>> /\ pc[p] # "idle"
  BY DEF Web, Connect, SendRequest, FirstRecv, Read, ReadByte, ReadSecond, Timeout, TimesOut, server
<1>3. CASE pc'[p] = "idle"
  <2>1. \A q \in Procs \ {p} : pc'[q] = pc[q] /\ out'[q] = out[q]
    BY DEF Web, Connect, SendRequest, FirstRecv, WebReturns, Read, ReadByte, ReadSecond, Timeout, Returns, TypeInv, ProcTypes, DataTypes
  <2>2. LinkInv'
    BY LinkReturn
  <2>3. PICK answer \in {"null", "ok", "text"} : out'[p].kind = answer
    <3>1. out'[p] \in Outs
      BY TypeWeb, TypeRead, TypeTimeout DEF TypeInv, DataTypes
    <3>2. QED
      BY <3>1 DEF Outs, NULL, OK, Said
  <2>4. Busy' = [Busy EXCEPT ![p] = FALSE]
    BY <1>3, <2>1 DEF Busy
  <2>5. Got' = [Got EXCEPT ![p] = answer]
    BY <2>1, <2>3 DEF Got
  <2>6. alone[p] /\ answer # "null" => req[p] \in stored \cup refused
    BY <1>1, <1>3, <2>2, <2>3 DEF LinkInv, EarnedInv, Earned, Dealt, Returned, TypeInv, MadeInv
  <2>7. L!Return(p, answer)
    BY <1>1, <2>4, <2>5, <2>6 DEF L!Return, Busy, Got
  <2>8. QED
    BY <2>7 DEF L!Next
<1>4. CASE pc'[p] # "idle"
  <2>1. UNCHANGED out
    BY <1>4 DEF Web, Connect, SendRequest, FirstRecv, WebReturns, Read, ReadByte, ReadSecond, Timeout, Returns, TypeInv, ProcTypes
  <2>2. \A q \in Procs : (pc'[q] # "idle") = (pc[q] # "idle")
    BY <1>1, <1>4 DEF Web, Connect, SendRequest, FirstRecv, WebReturns, Read, ReadByte, ReadSecond, Timeout, Returns, TypeInv, ProcTypes
  <2>3. QED
    BY <1>1, <2>1, <2>2 DEF L!vars
<1>5. QED
  BY <1>3, <1>4

(* The server stores a request that was made, or answers it all the same. *)
LEMMA RefineDealt ==
  ASSUME TypeInv, NEW p \in Procs, NEW n \in 1 .. req[p][2], UNCHANGED <<pc, req, alone, out>>,
         \/ Processes(<<p, n>>)
         \/ \E k \in {"ok", "json", "error"} : Refuses(<<p, n>>, k)
         \/ UNCHANGED <<stored, refused>>
  PROVE  L!Next \/ UNCHANGED L!vars
<1>1. UNCHANGED <<Busy, Got>>
  BY DEF Busy, Got
<1>2. n \in 1 .. MaxCalls
  BY CallsAssumption DEF TypeInv, ProcTypes, Requests
<1>3. CASE Processes(<<p, n>>)
  <2>1. L!Serve(p, n)
    BY <1>1, <1>3 DEF Processes, L!Serve, Busy, Got
  <2>2. QED
    BY <1>2, <2>1 DEF L!Next
<1>4. CASE refused' = refused \cup {<<p, n>>} /\ UNCHANGED stored /\ <<p, n>> \notin stored
  <2>1. L!Refuse(p, n)
    BY <1>1, <1>4 DEF L!Refuse, Busy, Got
  <2>2. QED
    BY <1>2, <2>1 DEF L!Next
<1>5. CASE UNCHANGED <<stored, refused>>
  BY <1>1, <1>5 DEF L!vars, Busy, Got
<1>6. QED
  BY <1>3, <1>4, <1>5 DEF Refuses

LEMMA RefineServer ==
  ASSUME TypeInv, NEW a \in flight, Server(a)
  PROVE  L!Next \/ UNCHANGED L!vars
<1>1. PICK p \in Procs : a \in Attempts /\ a[1][2] \in 1 .. req[p][2] /\ a[1] = <<p, a[1][2]>>
  BY DEF TypeInv, FlightInv
<1>2. /\ UNCHANGED <<pc, req, alone, out>>
      /\ \/ Processes(a[1])
         \/ \E k \in {"ok", "json", "error"} : Refuses(a[1], k)
         \/ UNCHANGED <<stored, refused>>
  BY ReplyAssumption DEF Server
<1>3. QED
  BY <1>1, <1>2, RefineDealt

LEMMA RefineWebServer ==
  ASSUME TypeInv, NEW r \in web, WebServer(r)
  PROVE  L!Next \/ UNCHANGED L!vars
<1>1. PICK p \in Procs : r[2] \in 1 .. req[p][2] /\ r = <<p, r[2]>>
  BY DEF TypeInv, WebMade
<1>2. /\ UNCHANGED <<pc, req, alone, out>>
      /\ \/ Processes(r)
         \/ \E k \in {"ok", "json", "error"} : Refuses(r, k)
         \/ UNCHANGED <<stored, refused>>
  BY ReplyAssumption DEF WebServer
<1>3. QED
  BY <1>1, <1>2, RefineDealt

(* With bytes, pages, attempts and timeouts hidden, send_web_post() keeps the promise of
   Link to its callers: every step is one of Link's, or hidden.             *)
THEOREM LinkIsImplemented == Spec => ImplementsLink
<1>1. TypeInv /\ LinkInv /\ [Next]_vars => [L!Next]_(L!vars)
  <2> SUFFICES ASSUME TypeInv, LinkInv, [Next]_vars PROVE L!Next \/ UNCHANGED L!vars
    OBVIOUS
  <2>1. CASE SelectLink \/ UNCHANGED vars
    BY <2>1 DEF SelectLink, vars, link, L!vars
  <2>2. CASE Next
    BY <2>1, <2>2, RefinePost, RefineReturn, RefineServer, RefineWebServer DEF Next, Post
  <2>3. QED
    BY <2>1, <2>2
<1>2. QED
  BY <1>1, RefineInit, Types, LinkAlways, PTL DEF Spec, ImplementsLink, L!Spec
=============================================================================
