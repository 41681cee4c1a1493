----------------------------- MODULE DgusProofs -----------------------------
(***************************************************************************)
(* Proofs about Dgus, for fields of any length, any texts the user types,  *)
(* and any number of keys, lost bytes and power failures.                  *)
(***************************************************************************)
EXTENDS Dgus, SequenceTheorems, WellFoundedInduction, TLAPS

(* The way chosen and the way in use are ways, whatever the file holds. *)
WaysInv ==
  /\ sel \in Ways /\ mode \in Ways
  /\ file \in Ways \cup {"absent", "empty"}
  /\ ModeIsSaved

LEMMA LoadedIsWay ==
  /\ \A f \in Ways \cup {"absent", "empty"} : Loaded(f) \in Ways
  /\ \A w \in Ways : Loaded(w) = w
BY DEF Loaded, Ways

LEMMA WaysInit == Init => WaysInv
  BY LoadedIsWay DEF Init, WaysInv, ModeIsSaved, Ways

(* Of the keys only the one that leaves the page changes the way in use, and its
   handler is over when the file is written.                                *)
LEMMA HandleStep ==
  ASSUME WaysInv, NEW c, Handle(c)
  PROVE  WaysInv'
<1>1. file' = file /\ (UNCHANGED <<pc, sel, mode>> \/ XferSetKey \/ SelectKey("GPRS")
                       \/ SelectKey("WIFI") \/ ReturnKey \/ OkKey)
  BY DEF Handle, XferSetKey, SelectKey, ReturnKey, OkKey, store
<1>2. CASE UNCHANGED <<pc, sel, mode>> \/ XferSetKey
  BY <1>1, <1>2 DEF WaysInv, ModeIsSaved, XferSetKey, store
<1>3. CASE SelectKey("GPRS") \/ SelectKey("WIFI") \/ ReturnKey
  BY <1>1, <1>3 DEF WaysInv, ModeIsSaved, SelectKey, ReturnKey, Ways
<1>4. CASE OkKey
  BY <1>1, <1>4 DEF WaysInv, ModeIsSaved, OkKey, Ask
<1>5. QED
  BY <1>1, <1>2, <1>3, <1>4

LEMMA WaysStep == WaysInv /\ [Next]_vars => WaysInv'
<1> SUFFICES ASSUME WaysInv, [Next]_vars PROVE WaysInv'
  OBVIOUS
<1>1. CASE Loop
  <2>1. Skip(Head(rx)) \/ Keep(Head(rx)) \/ Handle(Head(rx))
    BY <1>1 DEF Loop
  <2>2. CASE Skip(Head(rx)) \/ Keep(Head(rx))
    BY <2>2 DEF Skip, Keep, store, WaysInv, ModeIsSaved
  <2>3. QED
    BY <2>1, <2>2, HandleStep
<1>2. CASE (\E k \in Keys : Touch(k)) \/ Type \/ Answer
  BY <1>2 DEF Touch, Type, Answer, store, WaysInv, ModeIsSaved
<1>3. CASE ReadByte \/ NameRead \/ PasswordRead \/ ReadTimeout
  <2>1. UNCHANGED <<sel, mode, file>> /\ (pc' # "loop" \/ pc' = pc)
    BY <1>3 DEF ReadByte, NameRead, Ask, PasswordRead, ReadTimeout, WifiDone, store
  <2>2. QED
    BY <2>1 DEF WaysInv, ModeIsSaved
<1>4. CASE OpenFile \/ WriteFile
  BY <1>4, LoadedIsWay DEF OpenFile, WriteFile, WaysInv, ModeIsSaved
<1>5. CASE PowerFailure
  BY <1>5, LoadedIsWay DEF PowerFailure, WaysInv, ModeIsSaved, Ways
<1>6. CASE UNCHANGED vars
  BY <1>6 DEF vars, store, WaysInv, ModeIsSaved
<1>7. QED
  BY <1>1, <1>2, <1>3, <1>4, <1>5, <1>6 DEF Next

(* A power failure finds the way in use in the file, except while the page of
   transfer is being left: wherever the failure comes, and however often, the
   program starts with the way that the file stands for.                    *)
THEOREM FileFollowsMode == Spec => []ModeIsSaved
<1>1. WaysInv => ModeIsSaved
  BY DEF WaysInv
<1>2. QED
  BY <1>1, WaysInit, WaysStep, PTL DEF Spec
----------------------------------------------------------------------------
(***************************************************************************)
(* Types.  The handler of a key finds in ptr the four bytes it looks at,   *)
(* whatever the parser has been through.  (That no more keys are heard     *)
(* than were touched, which TypeOK says of amid, is shown at the end.)     *)
(***************************************************************************)
Fields == {"name", "password"}
Texts  == [name : Seq(Byte), password : Seq(Byte)]

ScreenTypes ==
  /\ page \in {"away", "transfer", "done"} /\ text \in Ways /\ field \in Texts
  /\ sel \in Ways /\ mode \in Ways /\ network \in Texts
LineTypes   == rx \in Seq(Byte) /\ asked \in Seq(Fields)
ParserTypes ==
  /\ get \in 0 .. 4 /\ i \in Nat \ {0} /\ key \in Seq(Byte)
  /\ IF i <= 5 THEN Len(key) = i - 1 ELSE key = <<>>
ReaderTypes ==
  /\ pc \in {"loop", "name", "password", "open", "write"}
  /\ n \in 0 .. 2 * Words + 6 /\ out \in Seq(Byte) /\ name \in Seq(Byte)
HistoryTypes ==
  /\ touched \in Seq(Keys) /\ heard \in Seq(Keys)
  /\ touches \in 0 .. MaxTouches /\ faults \in 0 .. MaxFaults /\ failures \in 0 .. MaxFailures
  /\ clear \in BOOLEAN /\ tidy \in BOOLEAN

TypeInv == ScreenTypes /\ LineTypes /\ ParserTypes /\ ReaderTypes /\ HistoryTypes

LEMMA Least ==
  ASSUME NEW S, S \subseteq Nat, S # {}
  PROVE  \E m \in S : \A k \in S : m <= k
<1> DEFINE R == OpToRel(<, Nat)
<1>1. IsWellFoundedOn(R, Nat)
  BY NatLessThanWellFounded
<1>2. \A x, y \in Nat : <<x, y>> \in R <=> x < y
  BY DEF OpToRel
<1> HIDE DEF R
<1>3. PICK m \in S : \A y \in S : ~ (<<y, m>> \in R)
  BY <1>1, WFMin
<1>4. \A k \in S : m <= k
  <2> TAKE k \in S
  <2>1. m \in Nat /\ k \in Nat /\ ~(k < m)
    BY <1>2, <1>3
  <2>2. QED
    BY <2>1
<1>5. QED
  BY <1>4

LEMMA Minimum ==
  ASSUME NEW S, S \subseteq Nat, NEW m \in S, \A k \in S : m <= k
  PROVE  Min(S) = m
<1>1. \A x \in S : (\A y \in S : x =< y) => x = m
  OBVIOUS
<1>2. QED
  BY <1>1 DEF Min

LEMMA SeqFacts ==
  ASSUME NEW S, NEW s \in Seq(S)
  PROVE  Len(s) \in Nat /\ DOMAIN s = 1 .. Len(s) /\ \A j \in DOMAIN s : s[j] \in S
OBVIOUS

LEMMA HeadTail ==
  ASSUME NEW S, NEW s \in Seq(S), s # <<>>
  PROVE  /\ Head(s) \in S /\ Head(s) = s[1] /\ Tail(s) \in Seq(S) /\ Len(Tail(s)) = Len(s) - 1
         /\ Len(s) \in Nat \ {0} /\ \A j \in 1 .. Len(s) - 1 : Tail(s)[j] = s[j + 1]
OBVIOUS

LEMMA Concat ==
  ASSUME NEW S, NEW s \in Seq(S), NEW t \in Seq(S)
  PROVE  /\ s \o t \in Seq(S) /\ Len(s) \in Nat /\ Len(t) \in Nat
         /\ Len(s \o t) = Len(s) + Len(t)
         /\ \A j \in 1 .. Len(s) : (s \o t)[j] = s[j]
         /\ \A j \in 1 .. Len(t) : (s \o t)[Len(s) + j] = t[j]
OBVIOUS

LEMMA AppendFacts ==
  ASSUME NEW S, NEW s \in Seq(S), NEW e \in S
  PROVE  /\ Append(s, e) \in Seq(S) /\ Len(Append(s, e)) = Len(s) + 1
         /\ Append(s, e)[Len(s) + 1] = e /\ \A j \in 1 .. Len(s) : Append(s, e)[j] = s[j]
OBVIOUS

(* The text of an answer, up to its first zero. *)
LEMMA StringBytes ==
  ASSUME NEW S, NEW s \in Seq(S)
  PROVE  String(s) \in Seq(S)
<1> DEFINE z == s \o <<0>>
           I == {j \in 1 .. Len(z) : z[j] = 0}
<1>1. Len(s) \in Nat /\ Len(z) = Len(s) + 1 /\ z[Len(s) + 1] = 0
  OBVIOUS
<1> HIDE DEF z
<1>2. I \subseteq 1 .. Len(s) + 1 /\ I \subseteq Nat /\ I # {}
  BY <1>1
<1> HIDE DEF I
<1>3. PICK m \in I : \A k \in I : m <= k
  BY <1>2, Least
<1>4. Min(I) = m
  BY <1>2, <1>3, Minimum
<1>5. SelectInSeq(z, LAMBDA c : c = 0) = m
  BY <1>2, <1>4 DEF SelectInSeq, I
<1>6. String(s) = SubSeq(s, 1, m - 1)
  BY <1>5 DEF String, z
<1>7. m - 1 \in Int /\ m - 1 <= Len(s)
  BY <1>1, <1>2
<1>8. \A j \in 1 .. m - 1 : s[j] \in S
  BY <1>1, <1>7
<1>9. QED
  BY <1>6, <1>7, <1>8, SubSeqProperties

(* A text that is filled up with zeros is read back. *)
LEMMA StringIs ==
  ASSUME NEW w \in Seq(Nat \ {0}), NEW s \in Seq(Nat), Len(w) <= Len(s),
         \A j \in 1 .. Len(w) : s[j] = w[j],
         \A j \in 1 .. Len(s) : j > Len(w) => s[j] = 0
  PROVE  String(s) = w
<1> DEFINE m == Len(w) + 1
           z == s \o <<0>>
           I == {j \in 1 .. Len(z) : z[j] = 0}
<1>1. Len(w) \in Nat /\ Len(s) \in Nat /\ \A j \in 1 .. Len(w) : w[j] # 0
  OBVIOUS
<1>2. /\ Len(z) = Len(s) + 1 /\ z[Len(s) + 1] = 0
      /\ \A j \in 1 .. Len(s) : z[j] = s[j]
  OBVIOUS
<1> HIDE DEF z
<1>3. m \in I
  <2>1. m \in 1 .. Len(s) \/ m = Len(s) + 1
    BY <1>1
  <2>2. z[m] = 0
    <3>1. m \in 1 .. Len(s) => m > Len(w) /\ z[m] = s[m]
      BY <1>1, <1>2
    <3>2. m \in 1 .. Len(s) => s[m] = 0
      BY <3>1
    <3>3. QED
      BY <1>2, <2>1, <3>1, <3>2
  <2>3. QED
    BY <1>1, <1>2, <2>1, <2>2
<1>4. \A k \in I : m <= k
  <2> SUFFICES ASSUME NEW k \in I, k < m PROVE FALSE
    BY <1>1, <1>2
  <2>1. k \in 1 .. Len(z) /\ z[k] = 0
    OBVIOUS
  <2> HIDE DEF I
  <2>2. k \in 1 .. Len(w) /\ k \in 1 .. Len(s)
    BY <1>1, <1>2, <2>1
  <2>3. QED
    BY <1>1, <1>2, <2>1, <2>2
<1>5. Min(I) = m /\ I # {}
  <2>1. I \subseteq Nat
    OBVIOUS
  <2> HIDE DEF I, m
  <2>2. QED
    BY <1>3, <1>4, <2>1, Minimum
<1>6. SelectInSeq(z, LAMBDA c : c = 0) = m
  BY <1>5 DEF SelectInSeq
<1>7. String(s) = SubSeq(s, 1, Len(w))
  <2>1. m - 1 = Len(w)
    BY <1>1
  <2>2. QED
    BY <1>6, <2>1 DEF String, z
<1>8. /\ SubSeq(s, 1, Len(w)) \in Seq(Nat) /\ Len(SubSeq(s, 1, Len(w))) = Len(w)
      /\ \A j \in 1 .. Len(w) : SubSeq(s, 1, Len(w))[j] = s[j]
  BY <1>1, SubSeqProperties
<1>9. w \in Seq(Nat)
  OBVIOUS
<1>10. QED
  BY <1>7, <1>8, <1>9, SeqEqual

LEMMA TypedBytes ==
  /\ \A w \in Names \cup Passwords : w \in Seq(Byte)
  /\ Blank \in Texts /\ <<>> \in Seq(Byte)
<1>1. \A w \in Names \cup Passwords : w \in Seq(Byte)
  <2> DEFINE T == 1 .. 254
  <2>1. T \subseteq Byte
    BY DEF Byte
  <2>2. \A w \in Names \cup Passwords : w \in Seq(T)
    BY TypedAssumption
  <2> HIDE DEF T
  <2>3. QED
    BY <2>1, <2>2, SeqMonotonic
<1>2. <<>> \in Seq(Byte)
  OBVIOUS
<1>3. QED
  BY <1>1, <1>2 DEF Blank, Texts

(* The frames are of bytes. *)
LEMMA WordBytes ==
  ASSUME NEW w \in Nat, w <= 65000
  PROVE  Hi(w) \in Byte /\ Lo(w) \in Byte
<1>1. w % 256 \in 0 .. 255 /\ w \div 256 \in 0 .. 255
  OBVIOUS
<1>2. QED
  BY <1>1 DEF Hi, Lo, Byte

LEMMA KeyBytes == ASSUME NEW k \in Keys PROVE KeyFrame(k) \in Seq(Byte)
<1>1. k \in Nat /\ k <= 2000 /\ k + 256 \in Nat /\ k + 256 <= 65000
  BY DEF Keys, XferSet, Gprs, Wifi, Ok, Return
<1>2. Hi(k) \in Byte /\ Lo(k) \in Byte
  BY <1>1, WordBytes
<1>3. Hi(k + 256) \in Byte /\ Lo(k + 256) \in Byte
  BY <1>1, WordBytes
<1>4. \h5a \in Byte /\ \ha5 \in Byte /\ \h06 \in Byte /\ \h83 \in Byte /\ \h01 \in Byte
  BY DEF Byte
<1>5. QED
  BY <1>2, <1>3, <1>4 DEF KeyFrame

LEMMA TextBytes ==
  ASSUME field \in Texts, NEW f \in Fields
  PROVE  /\ Text(f) \in Seq(Byte) /\ Len(Text(f)) = 2 * Words
         /\ \A j \in 1 .. 2 * Words : Text(f)[j] = IF j <= Len(field[f]) THEN field[f][j] ELSE \hff
<1>1. field[f] \in Seq(Byte)
  BY DEF Texts, Fields
<1>2. 2 * Words \in Nat
  BY WordsAssumption
<1>3. \A j \in 1 .. 2 * Words : (IF j <= Len(field[f]) THEN field[f][j] ELSE \hff) \in Byte
  <2>1. \hff \in Byte
    BY DEF Byte
  <2>2. Len(field[f]) \in Nat /\ \A j \in 1 .. Len(field[f]) : field[f][j] \in Byte
    BY <1>1, SeqFacts
  <2>3. QED
    BY <1>2, <2>1, <2>2
<1>4. Text(f) \in [1 .. 2 * Words -> Byte]
  BY <1>3 DEF Text
<1>5. Text(f) \in Seq(Byte) /\ Len(Text(f)) = 2 * Words
  BY <1>2, <1>4
<1>6. QED
  BY <1>5 DEF Text

LEMMA FieldBytes ==
  ASSUME field \in Texts, NEW f \in Fields
  PROVE  /\ FieldFrame(f) \in Seq(Byte) /\ Len(FieldFrame(f)) = 7 + 2 * Words
         /\ \A j \in 1 .. 2 * Words : FieldFrame(f)[7 + j] = Text(f)[j]
<1> DEFINE head == <<\h5a, \ha5, 4 + 2 * Words, \h83, Hi(Addr(f)), Lo(Addr(f)), Words>>
<1>1. head \in Seq(Byte) /\ Len(head) = 7
  <2>1. Addr(f) \in Nat /\ Addr(f) <= 65000
    BY DEF Addr
  <2>2. Hi(Addr(f)) \in Byte /\ Lo(Addr(f)) \in Byte
    BY <2>1, WordBytes
  <2>3. \h5a \in Byte /\ \ha5 \in Byte /\ 4 + 2 * Words \in Byte /\ \h83 \in Byte /\ Words \in Byte
    BY WordsAssumption DEF Byte
  <2>4. QED
    BY <2>2, <2>3
<1>2. FieldFrame(f) = head \o Text(f)
  BY DEF FieldFrame
<1>3. Text(f) \in Seq(Byte) /\ Len(Text(f)) = 2 * Words
  BY TextBytes
<1> HIDE DEF head
<1>4. /\ head \o Text(f) \in Seq(Byte) /\ Len(head \o Text(f)) = Len(head) + Len(Text(f))
      /\ \A j \in 1 .. Len(Text(f)) : (head \o Text(f))[Len(head) + j] = Text(f)[j]
  <2>1. head \in Seq(Byte)
    BY <1>1
  <2>2. QED
    BY <2>1, <1>3
<1>5. QED
  BY <1>1, <1>2, <1>3, <1>4

LEMMA RemoveBytes ==
  ASSUME NEW S, NEW s \in Seq(S), NEW j \in DOMAIN s
  PROVE  RemoveAt(s, j) \in Seq(S)
<1>1. Len(s) \in Nat /\ j \in 1 .. Len(s) /\ \A l \in 1 .. Len(s) : s[l] \in S
  OBVIOUS
<1>2. SubSeq(s, 1, j - 1) \in Seq(S)
  <2>1. 1 \in Int /\ j - 1 \in Int /\ \A l \in 1 .. j - 1 : s[l] \in S
    BY <1>1
  <2>2. QED
    BY <2>1, SubSeqProperties
<1>3. SubSeq(s, j + 1, Len(s)) \in Seq(S)
  <2>1. j + 1 \in Int /\ Len(s) \in Int /\ \A l \in j + 1 .. Len(s) : s[l] \in S
    BY <1>1
  <2>2. QED
    BY <2>1, SubSeqProperties
<1>4. QED
  BY <1>2, <1>3, ConcatProperties DEF RemoveAt

LEMMA Emitted ==
  ASSUME rx \in Seq(Byte), faults \in 0 .. MaxFaults, NEW f \in Seq(Byte), Emit(f)
  PROVE  /\ rx' \in Seq(Byte) /\ faults' \in 0 .. MaxFaults
         /\ faults' = faults => rx' = rx \o f
<1> USE BoundsAssumption
<1>1. CASE rx' = rx \o f /\ UNCHANGED faults
  BY <1>1, Concat
<1>2. CASE /\ faults < MaxFaults /\ faults' = faults + 1
           /\ \E j \in DOMAIN f : rx' = rx \o RemoveAt(f, j)
  <2>1. faults' \in 0 .. MaxFaults /\ faults' # faults
    BY <1>2
  <2>2. PICK j \in DOMAIN f : rx' = rx \o RemoveAt(f, j)
    BY <1>2
  <2>3. rx' \in Seq(Byte)
    BY <2>2, RemoveBytes, Concat
  <2>4. QED
    BY <2>1, <2>3
<1>3. QED
  BY <1>1, <1>2 DEF Emit

LEMMA TypeInit == Init => TypeInv
<1> SUFFICES ASSUME Init PROVE TypeInv
  OBVIOUS
<1>1. ScreenTypes
  BY TypedBytes, LoadedIsWay DEF Init, ScreenTypes, Ways
<1>2. LineTypes /\ ParserTypes
  BY TypedBytes DEF Init, LineTypes, ParserTypes
<1>3. ReaderTypes
  BY TypedBytes, WordsAssumption DEF Init, ReaderTypes
<1>4. HistoryTypes
  <2>1. 0 \in 0 .. MaxTouches /\ 0 \in 0 .. MaxFaults /\ 0 \in 0 .. MaxFailures
    BY BoundsAssumption
  <2>2. <<>> \in Seq(Keys)
    OBVIOUS
  <2>3. QED
    BY <2>1, <2>2 DEF Init, HistoryTypes
<1>5. QED
  BY <1>1, <1>2, <1>3, <1>4 DEF TypeInv

LEMMA TypeDisplay ==
  ASSUME TypeInv, (\E k \in Keys : Touch(k)) \/ Type \/ Answer
  PROVE  TypeInv'
<1> USE BoundsAssumption
<1>1. UNCHANGED <<parser, reader, pc, heard, failures, tidy>>
  BY DEF Touch, Type, Answer
<1>2. ParserTypes' /\ ReaderTypes'
  BY <1>1 DEF TypeInv, ParserTypes, ReaderTypes, parser, reader
<1>3. ASSUME NEW k \in Keys, Touch(k) PROVE ScreenTypes' /\ LineTypes' /\ HistoryTypes'
  <2>1. rx' \in Seq(Byte) /\ faults' \in 0 .. MaxFaults
    <3>1. KeyFrame(k) \in Seq(Byte)
      BY KeyBytes
    <3>2. Emit(KeyFrame(k))
      BY <1>3 DEF Touch
    <3>3. QED
      BY <3>1, <3>2, Emitted DEF TypeInv, LineTypes, HistoryTypes
  <2>2. page' \in {"away", "transfer", "done"}
    BY <1>3 DEF Touch, TypeInv, ScreenTypes
  <2>3. UNCHANGED <<text, field, asked, store>>
    BY <1>3 DEF Touch
  <2>4. touched' \in Seq(Keys) /\ touches' \in 0 .. MaxTouches /\ clear' = FALSE
    BY <1>3, SMTT(30) DEF Touch, TypeInv, HistoryTypes
  <2>5. QED
    BY <1>1, <2>1, <2>2, <2>3, <2>4 DEF TypeInv, ScreenTypes, LineTypes, HistoryTypes, store
<1>4. ASSUME Type PROVE ScreenTypes' /\ LineTypes' /\ HistoryTypes'
  <2>1. field' \in Texts
    BY <1>4, TypedBytes DEF Type, Texts
  <2>2. UNCHANGED <<page, text, line, store, touched, touches, faults>> /\ clear' = FALSE
    BY <1>4 DEF Type
  <2>3. QED
    BY <1>1, <2>1, <2>2 DEF TypeInv, ScreenTypes, LineTypes, HistoryTypes, store, line
<1>5. ASSUME Answer PROVE ScreenTypes' /\ LineTypes' /\ HistoryTypes'
  <2>1. asked \in Seq(Fields) /\ asked # <<>> /\ asked' = Tail(asked)
    BY <1>5 DEF Answer, TypeInv, LineTypes
  <2>2. Head(asked) \in Fields /\ asked' \in Seq(Fields)
    BY <2>1, HeadTail
  <2>3. rx' \in Seq(Byte) /\ faults' \in 0 .. MaxFaults
    <3>1. FieldFrame(Head(asked)) \in Seq(Byte)
      BY <2>2, FieldBytes DEF TypeInv, ScreenTypes
    <3>2. Emit(FieldFrame(Head(asked)))
      BY <1>5 DEF Answer
    <3>3. QED
      BY <3>1, <3>2, Emitted DEF TypeInv, LineTypes, HistoryTypes
  <2>4. UNCHANGED <<display, store, touched, touches>> /\ clear' \in BOOLEAN
    <3>1. clear' = (clear /\ faults' = faults) /\ UNCHANGED <<display, store, touched, touches>>
      BY <1>5 DEF Answer
    <3>2. QED
      BY <3>1
  <2>5. QED
    BY <1>1, <2>2, <2>3, <2>4 DEF TypeInv, ScreenTypes, LineTypes, HistoryTypes, store, display
<1>6. QED
  BY <1>2, <1>3, <1>4, <1>5 DEF TypeInv

LEMMA TypeHandler ==
  ASSUME TypeInv, rx' \in Seq(Byte),
         XferSetKey \/ SelectKey("GPRS") \/ SelectKey("WIFI") \/ ReturnKey \/ OkKey
  PROVE  ScreenTypes' /\ LineTypes' /\ ReaderTypes' /\ clear' \in BOOLEAN /\ tidy' \in BOOLEAN
<1> USE DEF TypeInv, ScreenTypes, LineTypes, ReaderTypes, HistoryTypes
<1>1. CASE XferSetKey
  BY <1>1, TypedBytes DEF XferSetKey, store, reader
<1>2. CASE SelectKey("GPRS") \/ SelectKey("WIFI")
  BY <1>2 DEF SelectKey, reader, Ways, OnPage
<1>3. CASE ReturnKey
  BY <1>3 DEF ReturnKey, reader
<1>4. CASE OkKey
  <2>1. UNCHANGED <<text, field, sel, network>> /\ mode' = sel /\ tidy' = TRUE
    BY <1>4 DEF OkKey
  <2>2. page' \in {page, "done"} /\ pc' \in {"name", "open"}
    BY <1>4 DEF OkKey, Ask
  <2>3. asked' \in Seq(Fields)
    <3>1. asked' = asked \/ asked' = Append(asked, "name")
      BY <1>4 DEF OkKey, Ask
    <3>2. "name" \in Fields
      BY DEF Fields
    <3>3. asked \in Seq(Fields)
      OBVIOUS
    <3>4. Append(asked, "name") \in Seq(Fields)
      BY <3>2, <3>3, AppendFacts
    <3>5. QED
      BY <3>1, <3>3, <3>4, Zenon
  <2>4. n' \in {n, 0} /\ out' \in {out, <<>>} /\ name' = name /\ clear' \in BOOLEAN
    BY <1>4 DEF OkKey, Ask, reader
  <2>5. 0 \in 0 .. 2 * Words + 6
    BY WordsAssumption
  <2>6. QED
    BY <2>1, <2>2, <2>3, <2>4, <2>5, TypedBytes
<1>5. QED
  BY <1>1, <1>2, <1>3, <1>4

LEMMA TypeLoop == ASSUME TypeInv, Loop PROVE TypeInv'
<1>1. rx \in Seq(Byte) /\ rx # <<>> /\ rx' = Tail(rx)
  BY DEF Loop, TypeInv, LineTypes
<1>2. Head(rx) \in Byte /\ rx' \in Seq(Byte)
  BY <1>1, HeadTail
<1>3. UNCHANGED <<touched, touches, faults, failures>>
  BY DEF Loop
<1> DEFINE c == Head(rx)
<1> HIDE DEF c
<1>4. CASE Skip(c)
  <2>1. UNCHANGED <<page, text, field, asked, pc, reader, store, heard, clear, tidy>>
    BY <1>4 DEF Skip
  <2>2. ParserTypes'
    <3>1. get' \in 0 .. 4
      BY <1>4 DEF Skip
    <3>2. (i' = 1 /\ key' = <<>>) \/ UNCHANGED <<i, key>>
      BY <1>4 DEF Skip
    <3>3. Len(<<>>) = 0 /\ <<>> \in Seq(Byte)
      OBVIOUS
    <3>4. CASE i' = 1 /\ key' = <<>>
      BY <3>1, <3>3, <3>4 DEF ParserTypes
    <3>5. CASE UNCHANGED <<i, key>>
      BY <3>1, <3>5 DEF TypeInv, ParserTypes
    <3>6. QED
      BY <3>2, <3>4, <3>5
  <2>3. QED
    BY <1>2, <1>3, <2>1, <2>2 DEF TypeInv, ScreenTypes, LineTypes, ReaderTypes, HistoryTypes, store, reader
<1>5. CASE Keep(c)
  <2>1. UNCHANGED <<page, text, field, asked, pc, reader, store, heard, clear, tidy, get>>
    BY <1>5 DEF Keep
  <2>2. ParserTypes'
    <3>1. i' = i + 1 /\ i # 5 /\ key' = IF i < 5 THEN Append(key, c) ELSE key
      BY <1>5 DEF Keep
    <3>2. key \in Seq(Byte) /\ c \in Byte
      BY <1>2 DEF TypeInv, ParserTypes, c
    <3>3. Append(key, c) \in Seq(Byte) /\ Len(Append(key, c)) = Len(key) + 1
      BY <3>2, AppendFacts
    <3>4. i \in Nat \ {0} /\ get' \in 0 .. 4 /\ (IF i <= 5 THEN Len(key) = i - 1 ELSE key = <<>>)
      BY <2>1 DEF TypeInv, ParserTypes
    <3>5. CASE i < 5
      BY <3>1, <3>2, <3>3, <3>4, <3>5 DEF ParserTypes
    <3>6. CASE i > 5
      BY <3>1, <3>2, <3>4, <3>6 DEF ParserTypes
    <3>7. QED
      BY <3>1, <3>4, <3>5, <3>6
  <2>3. QED
    BY <1>2, <1>3, <2>1, <2>2 DEF TypeInv, ScreenTypes, LineTypes, ReaderTypes, HistoryTypes, store, reader
<1>6. CASE Handle(c)
  <2>1. ParserTypes'
    <3>1. get' = 0 /\ i' = 6 /\ key' = <<>>
      BY <1>6 DEF Handle
    <3>2. QED
      BY <3>1, TypedBytes DEF ParserTypes
  <2>2. \/ UNCHANGED <<page, text, field, asked, pc, reader, store, heard, clear, tidy>>
        \/ /\ \E k \in Keys : heard' = Append(heard, k)
           /\ XferSetKey \/ SelectKey("GPRS") \/ SelectKey("WIFI") \/ ReturnKey \/ OkKey
    <3> DEFINE addr == key[1] * 256 + key[2]
               data == key[4] * 256 + c
    <3>1. \/ UNCHANGED <<page, text, field, asked, pc, reader, store, heard, clear, amid, tidy>>
          \/ /\ addr \in Keys /\ heard' = Append(heard, addr)
             /\ \/ addr = XferSet /\ XferSetKey
                \/ addr = Gprs /\ SelectKey("GPRS")
                \/ addr = Wifi /\ SelectKey("WIFI")
                \/ addr = Return /\ ReturnKey
                \/ addr = Ok /\ OkKey
      BY <1>6 DEF Handle
    <3> HIDE DEF addr
    <3>2. QED
      BY <3>1
  <2>3. heard' \in Seq(Keys)
    BY <2>2, AppendFacts DEF TypeInv, HistoryTypes
  <2>4. ScreenTypes' /\ LineTypes' /\ ReaderTypes' /\ clear' \in BOOLEAN /\ tidy' \in BOOLEAN
    <3>1. CASE UNCHANGED <<page, text, field, asked, pc, reader, store, heard, clear, tidy>>
      BY <1>2, <3>1 DEF TypeInv, ScreenTypes, LineTypes, ReaderTypes, HistoryTypes, store, reader
    <3>2. CASE XferSetKey \/ SelectKey("GPRS") \/ SelectKey("WIFI") \/ ReturnKey \/ OkKey
      BY <1>2, <3>2, TypeHandler
    <3>3. QED
      BY <2>2, <3>1, <3>2
  <2>5. QED
    BY <1>3, <2>1, <2>3, <2>4 DEF TypeInv, HistoryTypes
<1>7. QED
  BY <1>4, <1>5, <1>6 DEF Loop, c

LEMMA TypeTaken ==
  ASSUME TypeInv, rx # <<>>
  PROVE  rx \in Seq(Byte) /\ Tail(rx) \in Seq(Byte) /\ Taken(Head(rx)) \in Seq(Byte)
<1>1. rx \in Seq(Byte) /\ out \in Seq(Byte)
  BY DEF TypeInv, LineTypes, ReaderTypes
<1>2. Head(rx) \in Byte /\ Tail(rx) \in Seq(Byte)
  BY <1>1, HeadTail
<1>3. (IF Head(rx) = \hff THEN 0 ELSE Head(rx)) \in Byte
  <2>1. 0 \in Byte
    BY DEF Byte
  <2>2. QED
    BY <1>2, <2>1
<1>4. QED
  BY <1>1, <1>2, <1>3, AppendFacts DEF Taken

LEMMA TypeRead ==
  ASSUME TypeInv, ReadByte \/ NameRead \/ PasswordRead \/ ReadTimeout
  PROVE  TypeInv'
<1>1. 0 \in 0 .. 2 * Words + 6 /\ <<>> \in Seq(Byte)
  BY WordsAssumption, TypedBytes
<1>2. UNCHANGED <<text, field, sel, mode, file, parser, touched, heard, touches, faults, failures, tidy>>
  BY DEF ReadByte, NameRead, PasswordRead, ReadTimeout, display, store, history, WifiDone, Ask
<1>3. ParserTypes'
  BY <1>2 DEF parser, TypeInv, ParserTypes
<1>4. page' \in {page, "done"}
  BY DEF ReadByte, NameRead, PasswordRead, ReadTimeout, display, WifiDone, Ask
<1>5. CASE ReadByte
  <2>1. rx # <<>> /\ rx' = Tail(rx) /\ n # 2 * Words + 6 /\ n' = n + 1 /\ out' = Taken(Head(rx))
    BY <1>5 DEF ReadByte, InProgress, Done
  <2>2. rx' \in Seq(Byte) /\ out' \in Seq(Byte)
    BY <2>1, TypeTaken
  <2>3. n' \in 0 .. 2 * Words + 6
    BY <2>1, WordsAssumption DEF TypeInv, ReaderTypes
  <2>4. UNCHANGED <<asked, pc, name, store, clear>>
    BY <1>5 DEF ReadByte, history
  <2>5. QED
    BY <1>2, <1>3, <1>4, <2>2, <2>3, <2>4 DEF TypeInv, ScreenTypes, LineTypes, ReaderTypes, HistoryTypes, store
<1>6. CASE NameRead
  <2>1. rx # <<>> /\ rx' = Tail(rx) /\ name' = String(Taken(Head(rx)))
    BY <1>6 DEF NameRead, InProgress
  <2>2. rx' \in Seq(Byte) /\ name' \in Seq(Byte)
    BY <2>1, TypeTaken, StringBytes
  <2>3. asked' = Append(asked, "password") /\ pc' = "password" /\ n' = 0 /\ out' = <<>>
    BY <1>6 DEF NameRead, Ask
  <2>4. asked' \in Seq(Fields)
    <3>1. "password" \in Fields
      BY DEF Fields
    <3>2. asked \in Seq(Fields)
      BY DEF TypeInv, LineTypes
    <3>3. QED
      BY <2>3, <3>1, <3>2, AppendFacts
  <2>5. clear' \in BOOLEAN /\ UNCHANGED store
    BY <1>6 DEF NameRead
  <2>6. QED
    BY <1>1, <1>2, <1>3, <1>4, <2>2, <2>3, <2>4, <2>5
    DEF TypeInv, ScreenTypes, LineTypes, ReaderTypes, HistoryTypes, store
<1>7. CASE PasswordRead
  <2>1. rx # <<>> /\ rx' = Tail(rx) /\ UNCHANGED <<asked, clear>>
    BY <1>7 DEF PasswordRead, InProgress, history
  <2>2. rx' \in Seq(Byte)
    BY <2>1, TypeTaken
  <2>3. pc' = "open" /\ n' = 0 /\ out' = <<>> /\ name' = <<>>
    BY <1>7 DEF PasswordRead, WifiDone
  <2>4. network' \in Texts
    <3> DEFINE p == String(Taken(Head(rx)))
    <3>1. p \in Seq(Byte)
      BY <2>1, TypeTaken, StringBytes
    <3>2. network' = network \/ network' = [name |-> name, password |-> p]
      BY <1>7 DEF PasswordRead
    <3> HIDE DEF p
    <3>3. QED
      BY <3>1, <3>2 DEF TypeInv, ScreenTypes, ReaderTypes, Texts
  <2>5. QED
    BY <1>1, <1>2, <1>3, <1>4, <2>1, <2>2, <2>3, <2>4
    DEF TypeInv, ScreenTypes, LineTypes, ReaderTypes, HistoryTypes
<1>8. CASE ReadTimeout
  <2>1. UNCHANGED <<rx, asked, network, clear>>
    BY <1>8 DEF ReadTimeout, line, store, history
  <2>2. pc' = "open" /\ n' = 0 /\ out' = <<>> /\ name' = <<>>
    BY <1>8 DEF ReadTimeout, WifiDone
  <2>3. QED
    BY <1>1, <1>2, <1>3, <1>4, <2>1, <2>2 DEF TypeInv, ScreenTypes, LineTypes, ReaderTypes, HistoryTypes
<1>9. QED
  BY <1>5, <1>6, <1>7, <1>8

LEMMA TypeStep == TypeInv /\ WaysInv /\ [Next]_vars => TypeInv'
<1> SUFFICES ASSUME TypeInv, WaysInv, [Next]_vars PROVE TypeInv'
  OBVIOUS
<1>1. CASE OpenFile \/ WriteFile
  BY <1>1 DEF OpenFile, WriteFile, TypeInv, ScreenTypes, LineTypes, ParserTypes, ReaderTypes, HistoryTypes,
              display, line, parser, reader, history
<1>2. CASE PowerFailure
  <2>1. failures < MaxFailures /\ failures' = failures + 1 /\ UNCHANGED <<network, touches, faults>>
    BY <1>2 DEF PowerFailure
  <2>2. failures' \in 0 .. MaxFailures
    BY <2>1, BoundsAssumption DEF TypeInv, HistoryTypes
  <2>3. mode' \in Ways
    BY <1>2, LoadedIsWay DEF PowerFailure, WaysInv
  <2>4. ScreenTypes' /\ LineTypes'
    BY <1>2, <2>1, <2>3, TypedBytes DEF PowerFailure, TypeInv, ScreenTypes, LineTypes, Ways
  <2>5. ParserTypes' /\ ReaderTypes'
    BY <1>2, TypedBytes, WordsAssumption DEF PowerFailure, ParserTypes, ReaderTypes
  <2>6. HistoryTypes'
    <3>1. <<>> \in Seq(Keys)
      OBVIOUS
    <3>2. touched' = <<>> /\ heard' = <<>> /\ clear' = FALSE /\ tidy' \in BOOLEAN
      BY <1>2 DEF PowerFailure
    <3>3. QED
      BY <2>1, <2>2, <3>1, <3>2 DEF TypeInv, HistoryTypes
  <2>7. QED
    BY <2>4, <2>5, <2>6 DEF TypeInv
<1>3. CASE UNCHANGED vars
  BY <1>3 DEF vars, display, line, parser, reader, store, history,
              TypeInv, ScreenTypes, LineTypes, ParserTypes, ReaderTypes, HistoryTypes
<1>4. QED
  BY <1>1, <1>2, <1>3, TypeDisplay, TypeLoop, TypeRead DEF Next

LEMMA Types == Spec => [](TypeInv /\ WaysInv)
  BY TypeInit, WaysInit, TypeStep, WaysStep, PTL DEF Spec
----------------------------------------------------------------------------
(***************************************************************************)
(* The network is what the user typed.  While nothing but the answer is    *)
(* awaited, either its question is still to be answered, or what has been  *)
(* taken of the frame and what is still on the line make up the frame.     *)
(***************************************************************************)
Fit == \A f \in Fields : field[f] \in Seq(1 .. 254) /\ Len(field[f]) <= 2 * Words

Zeros(f, j) == IF j <= Len(field[f]) THEN field[f][j] ELSE 0

TakenOf(s, m, f) ==
  Len(s) = (IF m < 7 THEN 0 ELSE m - 7) /\ \A j \in 1 .. Len(s) : s[j] = Zeros(f, j)

Arriving(f) ==
  /\ Len(rx) = 7 + 2 * Words - n /\ TakenOf(out, n, f)
  /\ \A j \in 1 .. Len(rx) : rx[j] = FieldFrame(f)[n + j]

Awaited(f) == asked = <<f>> /\ rx = <<>> /\ n = 0 /\ out = <<>>

AnswerInv ==
  clear /\ pc \in Fields =>
    /\ Awaited(pc) \/ (asked = <<>> /\ Arriving(pc))
    /\ (pc = "password" => name = field["name"])

LEMMA FitText ==
  ASSUME Fit, field \in Texts, NEW f \in Fields, NEW j \in 1 .. 2 * Words
  PROVE  (IF Text(f)[j] = \hff THEN 0 ELSE Text(f)[j]) = Zeros(f, j)
<1>1. Text(f)[j] = IF j <= Len(field[f]) THEN field[f][j] ELSE \hff
  BY TextBytes
<1>2. j <= Len(field[f]) => field[f][j] # \hff
  <2> DEFINE T == 1 .. 254
  <2>1. field[f] \in Seq(T) /\ \hff \notin T
    BY DEF Fit
  <2> HIDE DEF T
  <2>2. Len(field[f]) \in Nat /\ \A l \in 1 .. Len(field[f]) : field[f][l] \in T
    BY <2>1, SeqFacts
  <2>3. QED
    BY <2>1, <2>2, WordsAssumption
<1>3. QED
  BY <1>1, <1>2 DEF Zeros

(* One more byte of the answer is taken. *)
LEMMA TakenStep ==
  ASSUME TypeInv, Fit, NEW f \in Fields, Arriving(f), rx # <<>>
  PROVE  /\ TakenOf(Taken(Head(rx)), n + 1, f)
         /\ Len(Tail(rx)) = 7 + 2 * Words - (n + 1)
         /\ \A j \in 1 .. Len(Tail(rx)) : Tail(rx)[j] = FieldFrame(f)[n + 1 + j]
<1>1. rx \in Seq(Byte) /\ out \in Seq(Byte) /\ field \in Texts /\ n \in Nat /\ n <= 2 * Words + 6 /\ Words \in Nat
  BY WordsAssumption DEF TypeInv, LineTypes, ReaderTypes, ScreenTypes
<1>2. /\ Head(rx) \in Byte /\ Head(rx) = rx[1] /\ Tail(rx) \in Seq(Byte) /\ Len(Tail(rx)) = Len(rx) - 1
      /\ Len(rx) \in Nat \ {0} /\ \A j \in 1 .. Len(rx) - 1 : Tail(rx)[j] = rx[j + 1]
  BY <1>1, HeadTail
<1>3. Len(rx) = 7 + 2 * Words - n /\ \A j \in 1 .. Len(rx) : rx[j] = FieldFrame(f)[n + j]
  BY DEF Arriving
<1>4. Len(Tail(rx)) = 7 + 2 * Words - (n + 1)
  BY <1>1, <1>2, <1>3
<1>5. ASSUME NEW j \in 1 .. Len(Tail(rx)) PROVE Tail(rx)[j] = FieldFrame(f)[n + 1 + j]
  <2>1. j + 1 \in 1 .. Len(rx) /\ Tail(rx)[j] = rx[j + 1] /\ n + (j + 1) = n + 1 + j
    BY <1>1, <1>2
  <2>2. QED
    BY <1>3, <2>1
<1>6. CASE n < 7
  <2>1. Taken(Head(rx)) = out
    BY <1>6 DEF Taken
  <2>2. Len(out) = 0 /\ \A j \in 1 .. Len(out) : out[j] = Zeros(f, j)
    BY <1>6 DEF Arriving, TakenOf
  <2>3. (IF n + 1 < 7 THEN 0 ELSE (n + 1) - 7) = 0
    BY <1>1, <1>6
  <2>4. TakenOf(Taken(Head(rx)), n + 1, f)
    <3>1. TakenOf(out, n + 1, f)
      BY <2>2, <2>3, Zenon DEF TakenOf
    <3>2. QED
      BY <2>1, <3>1, Zenon
  <2>5. QED
    BY <1>4, <1>5, <2>4
<1>7. CASE n >= 7
  <2> DEFINE m == n - 6
             c == IF Head(rx) = \hff THEN 0 ELSE Head(rx)
             t == Append(out, c)
  <2>1. m \in 1 .. 2 * Words /\ n + 1 = 7 + m /\ Len(out) = m - 1
    BY <1>1, <1>7 DEF Arriving, TakenOf
  <2>2. Head(rx) = Text(f)[m]
    <3>1. Head(rx) = FieldFrame(f)[n + 1]
      BY <1>2, <1>3
    <3>2. FieldFrame(f)[7 + m] = Text(f)[m]
      BY <1>1, <2>1, FieldBytes
    <3>3. QED
      BY <2>1, <3>1, <3>2
  <2>3. c = Zeros(f, m)
    BY <1>1, <2>1, <2>2, FitText
  <2>4. c \in Byte
    <3>1. 0 \in Byte
      BY DEF Byte
    <3>2. QED
      BY <1>2, <3>1
  <2>5. Taken(Head(rx)) = t
    BY <1>1, <1>7 DEF Taken
  <2> HIDE DEF c, m
  <2>6. /\ Len(t) = Len(out) + 1 /\ t[Len(out) + 1] = c
        /\ \A j \in 1 .. Len(out) : t[j] = out[j]
    BY <1>1, <2>4, AppendFacts
  <2> HIDE DEF t
  <2>7. Len(t) = m /\ m = (n + 1) - 7 /\ ~(n + 1 < 7)
    BY <1>1, <1>7, <2>1, <2>6
  <2>8. \A j \in 1 .. Len(out) : out[j] = Zeros(f, j)
    BY DEF Arriving, TakenOf
  <2>9. \A j \in 1 .. Len(t) : t[j] = Zeros(f, j)
    <3> SUFFICES ASSUME NEW j \in 1 .. Len(t) PROVE t[j] = Zeros(f, j)
      OBVIOUS
    <3>1. j \in 1 .. Len(out) \/ j = m
      BY <2>1, <2>7
    <3>2. QED
      BY <2>1, <2>3, <2>6, <2>8, <3>1
  <2>10. QED
    BY <1>4, <1>5, <2>5, <2>7, <2>9 DEF TakenOf
<1>8. QED
  BY <1>1, <1>4, <1>5, <1>6, <1>7

(* With the last byte the text is the field. *)
LEMMA WholeText ==
  ASSUME TypeInv, Fit, NEW f \in Fields, Arriving(f), rx # <<>>, Done
  PROVE  String(Taken(Head(rx))) = field[f]
<1> DEFINE t == Taken(Head(rx))
           w == field[f]
<1>1. n = 2 * Words + 6 /\ Words \in Nat /\ TakenOf(t, n + 1, f) /\ t \in Seq(Byte)
  BY TakenStep, TypeTaken, WordsAssumption DEF Done
<1>2. w \in Seq(Nat \ {0}) /\ Len(w) <= 2 * Words /\ Len(w) \in Nat
  <2> DEFINE T == 1 .. 254
  <2>1. w \in Seq(T) /\ T \subseteq Nat \ {0} /\ Len(w) <= 2 * Words
    BY DEF Fit
  <2> HIDE DEF T, w
  <2>2. QED
    BY <2>1, SeqMonotonic, SeqFacts
<1>3. t \in Seq(Nat)
  <2>1. Byte \subseteq Nat
    BY DEF Byte
  <2> HIDE DEF t
  <2>2. QED
    BY <1>1, <2>1, SeqMonotonic
<1> HIDE DEF t
<1>4. Len(t) = 2 * Words /\ \A j \in 1 .. Len(t) : t[j] = IF j <= Len(w) THEN w[j] ELSE 0
  BY <1>1 DEF TakenOf, Zeros
<1> HIDE DEF w
<1>5. \A j \in 1 .. Len(w) : t[j] = w[j]
  BY <1>1, <1>2, <1>4
<1>6. \A j \in 1 .. Len(t) : j > Len(w) => t[j] = 0
  BY <1>1, <1>2, <1>4
<1>7. Len(w) <= Len(t)
  BY <1>2, <1>4
<1>8. String(t) = w
  BY <1>2, <1>3, <1>5, <1>6, <1>7, StringIs
<1>9. QED
  BY <1>8 DEF t, w

LEMMA FitBlank == \A f \in Fields : Blank[f] \in Seq(1 .. 254) /\ Len(Blank[f]) <= 2 * Words
<1>1. \A f \in Fields : Blank[f] = <<>>
  BY DEF Blank, Fields
<1>2. <<>> \in Seq(1 .. 254) /\ Len(<<>>) <= 2 * Words
  BY WordsAssumption
<1>3. QED
  BY <1>1, <1>2, Zenon

LEMMA FitInit == Init => Fit /\ AnswerInv
<1>1. Init => field = Blank /\ clear = FALSE
  BY DEF Init
<1>2. QED
  BY <1>1, FitBlank, Zenon DEF Fit, AnswerInv

(* What the fields hold was typed, or nothing. *)
LEMMA FieldStep == [Next]_vars => field' \in {field, Blank} \cup [name : Names, password : Passwords]
<1> SUFFICES ASSUME [Next]_vars PROVE field' = field \/ field' = Blank \/ field' \in [name : Names, password : Passwords]
  OBVIOUS
<1>1. Loop => field' = field \/ field' = Blank
  <2>1. ASSUME NEW c, Skip(c) \/ Keep(c) PROVE field' = field
    BY <2>1 DEF Skip, Keep
  <2>2. ASSUME NEW c, Handle(c) PROVE field' = field \/ field' = Blank
    BY <2>2 DEF Handle, XferSetKey, SelectKey, ReturnKey, OkKey
  <2>3. QED
    BY <2>1, <2>2 DEF Loop
<1>2. (\E k \in Keys : Touch(k)) \/ Answer => field' = field
  BY DEF Touch, Answer, display
<1>3. ReadByte \/ NameRead \/ PasswordRead \/ ReadTimeout => field' = field
  BY DEF ReadByte, NameRead, PasswordRead, ReadTimeout, display
<1>4. OpenFile \/ WriteFile \/ UNCHANGED vars => field' = field
  BY DEF OpenFile, WriteFile, vars, display
<1>5. Type => field' \in [name : Names, password : Passwords]
  BY DEF Type
<1>6. PowerFailure => field' = Blank
  BY DEF PowerFailure
<1>7. QED
  BY <1>1, <1>2, <1>3, <1>4, <1>5, <1>6 DEF Next

LEMMA FitStep == Fit /\ [Next]_vars => Fit'
<1> SUFFICES ASSUME Fit, [Next]_vars PROVE Fit'
  OBVIOUS
<1>1. CASE field' = field
  BY <1>1 DEF Fit
<1>2. CASE field' = Blank
  BY <1>2, FitBlank, Zenon DEF Fit
<1>3. CASE field' \in [name : Names, password : Passwords]
  <2>1. \A f \in Fields : field'[f] \in Names \cup Passwords
    BY <1>3 DEF Fields
  <2>2. QED
    BY <2>1, TypedAssumption, Zenon DEF Fit
<1>4. QED
  BY <1>1, <1>2, <1>3, FieldStep

LEMMA OneQuestion ==
  ASSUME NEW f
  PROVE  /\ <<f>> # <<>> /\ Tail(<<f>>) = <<>> /\ Head(<<f>>) = f /\ Append(<<>>, f) = <<f>>
         /\ Len(<<>>) = 0
OBVIOUS

LEMMA AnswerAnswered == ASSUME TypeInv, AnswerInv, Answer PROVE AnswerInv'
<1> SUFFICES ASSUME clear', pc' \in Fields
             PROVE  /\ Awaited(pc)' \/ (asked' = <<>> /\ Arriving(pc)')
                    /\ (pc' = "password" => name' = field'["name"])
  BY DEF AnswerInv
<1>1. UNCHANGED <<pc, n, out, name, field>>
  BY DEF Answer, reader, display
<1>2. asked # <<>> /\ asked' = Tail(asked) /\ Emit(FieldFrame(Head(asked))) /\ clear /\ faults' = faults
  BY DEF Answer
<1>3. asked = <<pc>> /\ rx = <<>> /\ n = 0 /\ out = <<>> /\ (pc = "password" => name = field["name"])
  BY <1>1, <1>2 DEF AnswerInv, Awaited
<1>4. Head(asked) = pc /\ asked' = <<>>
  BY <1>2, <1>3, OneQuestion
<1> DEFINE frame == FieldFrame(pc)
<1>5. /\ frame \in Seq(Byte) /\ Len(frame) = 7 + 2 * Words
  BY <1>1, FieldBytes DEF TypeInv, ScreenTypes
<1>6. rx' = rx \o frame
  BY <1>2, <1>4, <1>5, Emitted DEF TypeInv, LineTypes, HistoryTypes
<1>7. frame' = frame
  BY <1>1 DEF FieldFrame, Text, Addr
<1> HIDE DEF frame
<1>8. rx' = frame
  BY <1>3, <1>5, <1>6, ConcatEmptySeq
<1>9. Arriving(pc)'
  <2>1. n' = 0 /\ out' = <<>> /\ Len(out') = 0
    BY <1>1, <1>3, OneQuestion
  <2>2. TakenOf(out', n', pc')
    BY <2>1 DEF TakenOf
  <2>3. Len(rx') = 7 + 2 * Words - n'
    BY <1>5, <1>8, <2>1, WordsAssumption
  <2>4. \A j \in 1 .. Len(rx') : rx'[j] = frame'[n' + j]
    BY <1>7, <1>8, <2>1
  <2>5. QED
    BY <1>1, <2>2, <2>3, <2>4 DEF Arriving, frame, TakenOf, Zeros
<1>10. QED
  BY <1>1, <1>3, <1>4, <1>9

LEMMA AnswerLoop == ASSUME TypeInv, Loop PROVE AnswerInv'
<1> SUFFICES ASSUME clear', pc' \in Fields
             PROVE  /\ Awaited(pc)' \/ (asked' = <<>> /\ Arriving(pc)')
                    /\ (pc' = "password" => name' = field'["name"])
  BY DEF AnswerInv
<1>1. pc = "loop" /\ "loop" \notin Fields
  BY DEF Loop, Fields
<1>2. ASSUME NEW c, Skip(c) \/ Keep(c) PROVE pc' = pc
  BY <1>2 DEF Skip, Keep
<1>3. ASSUME NEW c, Handle(c) PROVE pc' = pc \/ OkKey
  BY <1>3 DEF Handle, XferSetKey, SelectKey, ReturnKey
<1>4. OkKey
  BY <1>1, <1>2, <1>3 DEF Loop
<1>5. Ask("name") /\ clear' = (rx' = <<>> /\ asked = <<>>)
  <2>1. "open" \notin Fields
    BY DEF Fields
  <2>2. QED
    BY <1>4, <2>1 DEF OkKey
<1>6. asked' = <<"name">> /\ rx' = <<>> /\ n' = 0 /\ out' = <<>> /\ pc' = "name"
  BY <1>5, OneQuestion DEF Ask
<1>7. QED
  BY <1>6 DEF Awaited

LEMMA AnswerTaken ==
  ASSUME TypeInv, Fit, AnswerInv, rx # <<>>, clear, pc \in Fields
  PROVE  asked = <<>> /\ Arriving(pc) /\ (pc = "password" => name = field["name"])
BY DEF AnswerInv, Awaited

LEMMA AnswerRead ==
  ASSUME TypeInv, Fit, AnswerInv, ReadByte \/ NameRead \/ PasswordRead \/ ReadTimeout
  PROVE  AnswerInv'
<1> SUFFICES ASSUME clear', pc' \in Fields
             PROVE  /\ Awaited(pc)' \/ (asked' = <<>> /\ Arriving(pc)')
                    /\ (pc' = "password" => name' = field'["name"])
  BY DEF AnswerInv
<1>1. CASE ReadByte
  <2>1. UNCHANGED <<asked, pc, name, field, clear>> /\ rx # <<>> /\ rx' = Tail(rx)
        /\ n' = n + 1 /\ out' = Taken(Head(rx))
    BY <1>1 DEF ReadByte, InProgress, display, history
  <2>2. asked = <<>> /\ Arriving(pc) /\ (pc = "password" => name = field["name"])
    BY <2>1, AnswerTaken
  <2>3. /\ TakenOf(out', n', pc) /\ Len(rx') = 7 + 2 * Words - n'
        /\ \A j \in 1 .. Len(rx') : rx'[j] = FieldFrame(pc)[n' + j]
    BY <2>1, <2>2, TakenStep
  <2>4. FieldFrame(pc)' = FieldFrame(pc) /\ TakenOf(out, n, pc)' = TakenOf(out', n', pc)
    BY <2>1 DEF FieldFrame, Text, Addr, TakenOf, Zeros
  <2>5. Arriving(pc)'
    BY <2>3, <2>4, Zenon DEF Arriving
  <2>6. QED
    BY <2>1, <2>2, <2>5
<1>2. CASE NameRead
  <2>1. /\ pc = "name" /\ rx # <<>> /\ rx' = Tail(rx) /\ Done /\ name' = String(Taken(Head(rx)))
        /\ Ask("password") /\ field' = field /\ clear' = (clear /\ rx' = <<>> /\ asked = <<>>)
    BY <1>2 DEF NameRead, InProgress, display
  <2>2. "name" \in Fields /\ clear /\ rx' = <<>> /\ asked = <<>>
    BY <2>1 DEF Fields
  <2>3. name' = field["name"]
    BY <2>1, <2>2, AnswerTaken, WholeText
  <2>4. asked' = <<"password">> /\ n' = 0 /\ out' = <<>> /\ pc' = "password"
    BY <2>1, <2>2, OneQuestion DEF Ask
  <2>5. QED
    BY <2>1, <2>2, <2>3, <2>4 DEF Awaited
<1>3. CASE PasswordRead \/ ReadTimeout
  <2>1. pc' = "open" /\ "open" \notin Fields
    BY <1>3 DEF PasswordRead, ReadTimeout, WifiDone, Fields
  <2>2. QED
    BY <2>1
<1>4. QED
  BY <1>1, <1>2, <1>3

LEMMA AnswerStep == TypeInv /\ Fit /\ AnswerInv /\ [Next]_vars => AnswerInv'
<1> SUFFICES ASSUME TypeInv, Fit, AnswerInv, [Next]_vars PROVE AnswerInv'
  OBVIOUS
<1>1. CASE (\E k \in Keys : Touch(k)) \/ Type \/ PowerFailure
  BY <1>1 DEF Touch, Type, PowerFailure, AnswerInv
<1>2. CASE OpenFile \/ WriteFile
  BY <1>2 DEF OpenFile, WriteFile, AnswerInv, Fields
<1>3. CASE UNCHANGED vars
  <2>1. UNCHANGED <<clear, pc, asked, rx, n, out, name, field>>
    BY <1>3 DEF vars, display, line, reader, history
  <2>2. FieldFrame(pc)' = FieldFrame(pc) /\ TakenOf(out, n, pc)' = TakenOf(out, n, pc)
    BY <2>1 DEF FieldFrame, Text, Addr, TakenOf, Zeros
  <2>3. Arriving(pc)' = Arriving(pc) /\ Awaited(pc)' = Awaited(pc)
    BY <2>1, <2>2 DEF Arriving, Awaited
  <2>4. QED
    BY <2>1, <2>3, Zenon DEF AnswerInv
<1>4. QED
  BY <1>1, <1>2, <1>3, AnswerAnswered, AnswerLoop, AnswerRead DEF Next

(* The wireless network is set to what the user typed, when nothing else was on
   the line while it was read: for fields of any length, and every name and
   password that fits, the bytes of a frame among them.                     *)
THEOREM TypedIsSet == Spec => NetworkIsTyped
<1>1. TypeInv /\ Fit /\ AnswerInv /\ [Next]_vars => (network' # network /\ clear => network' = field)
  <2> SUFFICES ASSUME TypeInv, Fit, AnswerInv, [Next]_vars, network' # network, clear PROVE network' = field
    OBVIOUS
  <2>1. CASE PasswordRead
    <3>1. /\ pc = "password" /\ rx # <<>> /\ Done
          /\ network' \in {network, [name |-> name, password |-> String(Taken(Head(rx)))]}
      BY <2>1 DEF PasswordRead, InProgress
    <3>2. "password" \in Fields
      BY DEF Fields
    <3>3. Arriving("password") /\ name = field["name"]
      BY <3>1, <3>2, AnswerTaken
    <3>4. String(Taken(Head(rx))) = field["password"]
      BY <3>1, <3>2, <3>3, WholeText
    <3>5. network' = [name |-> field["name"], password |-> field["password"]]
      BY <3>1, <3>3, <3>4
    <3>6. QED
      BY <3>5 DEF TypeInv, ScreenTypes, Texts
  <2>2. Loop => network' = network
    <3>1. ASSUME NEW c, Skip(c) \/ Keep(c) PROVE network' = network
      BY <3>1 DEF Skip, Keep, store
    <3>2. ASSUME NEW c, Handle(c) PROVE network' = network
      BY <3>2 DEF Handle, XferSetKey, SelectKey, ReturnKey, OkKey, store
    <3>3. QED
      BY <3>1, <3>2 DEF Loop
  <2>3. (\E k \in Keys : Touch(k)) \/ Type \/ Answer => network' = network
    BY DEF Touch, Type, Answer, store
  <2>4. ReadByte \/ NameRead \/ ReadTimeout => network' = network
    BY DEF ReadByte, NameRead, ReadTimeout, store
  <2>5. OpenFile \/ WriteFile \/ PowerFailure \/ UNCHANGED vars => network' = network
    BY DEF OpenFile, WriteFile, PowerFailure, vars, store
  <2>6. QED
    BY <2>1, <2>2, <2>3, <2>4, <2>5 DEF Next
<1>2. QED
  BY <1>1, Types, FitInit, FitStep, AnswerStep, PTL DEF Spec, NetworkIsTyped
----------------------------------------------------------------------------
(***************************************************************************)
(* What is stored is what the page shows.  While the page is left as it    *)
(* was entered, the way chosen is the one shown on the page, and away from *)
(* it the one in use.                                                      *)
(***************************************************************************)
ShownInv == tidy => sel = (IF OnPage THEN text ELSE mode)

(* The key just acted on decides whether the page is up, but for the keys that
   choose a way, which leave it as it was.                                  *)
LEMMA PageAfter ==
  ASSUME TypeInv, NEW k \in Keys, heard' = Append(heard, k)
  PROVE  /\ k = XferSet => OnPage'
         /\ k \in {Ok, Return} => ~OnPage'
         /\ k \in {Gprs, Wifi} => OnPage' = OnPage
<1>1. /\ heard \in Seq(Keys) /\ Len(heard) \in Nat /\ DOMAIN heard = 1 .. Len(heard)
      /\ heard' \in Seq(Keys) /\ Len(heard') = Len(heard) + 1 /\ DOMAIN heard' = 1 .. Len(heard) + 1
      /\ heard'[Len(heard) + 1] = k /\ \A j \in 1 .. Len(heard) : heard'[j] = heard[j]
  <2>1. heard \in Seq(Keys)
    BY DEF TypeInv, HistoryTypes
  <2>2. QED
    BY <2>1, SeqFacts, AppendFacts
<1> DEFINE m == Len(heard)
<1> HIDE DEF m
<1>2. /\ m \in Nat /\ Len(heard) = m /\ DOMAIN heard = 1 .. m
      /\ Len(heard') = m + 1 /\ DOMAIN heard' = 1 .. m + 1
      /\ heard'[m + 1] = k /\ \A j \in 1 .. m : heard'[j] = heard[j]
  BY <1>1 DEF m
<1>3. OnPage = (\E j \in 1 .. m : heard[j] = XferSet /\ \A l \in j .. m : heard[l] \notin {Ok, Return})
  BY <1>2 DEF OnPage
<1>4. OnPage' = (\E j \in 1 .. m + 1 : heard'[j] = XferSet /\ \A l \in j .. m + 1 : heard'[l] \notin {Ok, Return})
  BY <1>2 DEF OnPage
<1>5. ASSUME k = XferSet PROVE OnPage'
  <2>1. XferSet \notin {Ok, Return}
    BY DEF XferSet, Ok, Return
  <2>2. \A l \in m + 1 .. m + 1 : heard'[l] \notin {Ok, Return}
    BY <1>2, <1>5, <2>1
  <2>3. m + 1 \in 1 .. m + 1
    BY <1>2
  <2>4. QED
    BY <1>2, <1>4, <1>5, <2>2, <2>3
<1>6. ASSUME k \in {Ok, Return} PROVE ~OnPage'
  <2>1. \A j \in 1 .. m + 1 : m + 1 \in j .. m + 1
    BY <1>2
  <2>2. QED
    BY <1>2, <1>4, <1>6, <2>1
<1>7. ASSUME k \in {Gprs, Wifi} PROVE OnPage' = OnPage
  <2>1. k # XferSet /\ k \notin {Ok, Return}
    BY <1>7 DEF Gprs, Wifi, XferSet, Ok, Return
  <2>2. ASSUME OnPage PROVE OnPage'
    <3>1. PICK j \in 1 .. m : heard[j] = XferSet /\ \A l \in j .. m : heard[l] \notin {Ok, Return}
      BY <1>3, <2>2
    <3>2. j \in 1 .. m + 1 /\ heard'[j] = XferSet
      BY <1>2, <3>1
    <3>3. ASSUME NEW l \in j .. m + 1 PROVE heard'[l] \notin {Ok, Return}
      <4>1. l = m + 1 \/ (l \in j .. m /\ l \in 1 .. m)
        BY <1>2, <3>3
      <4>2. QED
        BY <1>2, <2>1, <3>1, <4>1
    <3>4. QED
      BY <1>4, <3>2, <3>3
  <2>3. ASSUME OnPage' PROVE OnPage
    <3>1. PICK j \in 1 .. m + 1 : heard'[j] = XferSet /\ \A l \in j .. m + 1 : heard'[l] \notin {Ok, Return}
      BY <1>4, <2>3
    <3>2. j \in 1 .. m /\ heard[j] = XferSet
      <4>1. j # m + 1
        BY <1>2, <2>1, <3>1
      <4>2. j \in 1 .. m
        BY <1>2, <4>1
      <4>3. QED
        BY <1>2, <3>1, <4>2
    <3>3. ASSUME NEW l \in j .. m PROVE heard[l] \notin {Ok, Return}
      <4>1. l \in j .. m + 1 /\ l \in 1 .. m
        BY <1>2, <3>2
      <4>2. QED
        BY <1>2, <3>1, <4>1
    <3>4. QED
      BY <1>3, <3>2, <3>3
  <2>4. OnPage \in BOOLEAN /\ OnPage' \in BOOLEAN
    BY <1>3, <1>4
  <2>5. QED
    BY <2>2, <2>3, <2>4
<1>8. QED
  BY <1>5, <1>6, <1>7

(* What a key does to the choice. *)
LEMMA KeyHeard ==
  ASSUME NEW c, Handle(c)
  PROVE  \/ UNCHANGED <<tidy, text, sel, mode, heard>>
         \/ \E k \in Keys :
              /\ heard' = Append(heard, k)
              /\ \/ k = XferSet /\ text' = mode /\ tidy' = (tidy /\ ~OnPage) /\ sel' = sel
                 \/ k \in {Gprs, Wifi} /\ text' = sel' /\ tidy' = OnPage
                 \/ k = Return /\ sel' = mode /\ mode' = mode
                 \/ k = Ok /\ mode' = sel /\ sel' = sel
<1> DEFINE addr == key[1] * 256 + key[2]
           data == key[4] * 256 + c
<1>1. CASE addr \in Keys /\ data = addr + 256
  <2>1. /\ heard' = Append(heard, addr)
        /\ \/ addr = XferSet /\ XferSetKey
           \/ addr = Gprs /\ SelectKey("GPRS")
           \/ addr = Wifi /\ SelectKey("WIFI")
           \/ addr = Return /\ ReturnKey
           \/ addr = Ok /\ OkKey
    BY <1>1, Zenon DEF Handle
  <2> HIDE DEF addr
  <2>2. \/ addr = XferSet /\ text' = mode /\ tidy' = (tidy /\ ~OnPage) /\ sel' = sel
        \/ addr \in {Gprs, Wifi} /\ text' = sel' /\ tidy' = OnPage
        \/ addr = Return /\ sel' = mode /\ mode' = mode
        \/ addr = Ok /\ mode' = sel /\ sel' = sel
    BY <2>1 DEF XferSetKey, SelectKey, ReturnKey, OkKey, store
  <2>3. QED
    BY <1>1, <2>1, <2>2
<1>2. CASE ~(addr \in Keys /\ data = addr + 256)
  <2>1. UNCHANGED <<text, store, heard, tidy>>
    BY <1>2, Zenon DEF Handle
  <2>2. QED
    BY <2>1 DEF store
<1>3. QED
  BY <1>1, <1>2

(* Only the key that leaves the page with "ok" is followed by one more such key. *)
LEMMA OnlyOk ==
  ASSUME TypeInv, NEW k \in Keys, Append(heard, k) = Append(heard, Ok)
  PROVE  k = Ok
<1>1. heard \in Seq(Keys) /\ Ok \in Keys
  BY DEF TypeInv, HistoryTypes, Keys
<1>2. Append(heard, k)[Len(heard) + 1] = k /\ Append(heard, Ok)[Len(heard) + 1] = Ok
  BY <1>1, AppendFacts
<1>3. QED
  BY <1>2

LEMMA NotHeard ==
  ASSUME TypeInv
  PROVE  heard # Append(heard, Ok) /\ <<>> # Append(heard, Ok)
<1>1. heard \in Seq(Keys) /\ Ok \in Keys
  BY DEF TypeInv, HistoryTypes, Keys
<1>2. Len(Append(heard, Ok)) = Len(heard) + 1 /\ Len(heard) \in Nat /\ Len(<<>>) = 0
  BY <1>1, AppendFacts, SeqFacts
<1>3. QED
  BY <1>2

LEMMA LoopHears ==
  ASSUME Loop
  PROVE  \/ UNCHANGED <<tidy, text, sel, mode, heard>>
         \/ \E k \in Keys :
              /\ heard' = Append(heard, k)
              /\ \/ k = XferSet /\ text' = mode /\ tidy' = (tidy /\ ~OnPage) /\ sel' = sel
                 \/ k \in {Gprs, Wifi} /\ text' = sel' /\ tidy' = OnPage
                 \/ k = Return /\ sel' = mode /\ mode' = mode
                 \/ k = Ok /\ mode' = sel /\ sel' = sel
<1>1. ASSUME NEW c, Skip(c) \/ Keep(c) PROVE UNCHANGED <<tidy, text, sel, mode, heard>>
  BY <1>1 DEF Skip, Keep, store
<1>2. Skip(Head(rx)) \/ Keep(Head(rx)) \/ Handle(Head(rx))
  BY DEF Loop
<1>3. QED
  BY <1>1, <1>2, KeyHeard

LEMMA ShownLoop ==
  ASSUME TypeInv, ShownInv, Loop
  PROVE  /\ ShownInv'
         /\ heard' = Append(heard, Ok) /\ OnPage /\ tidy => mode' = text
<1>1. heard # Append(heard, Ok)
  BY NotHeard
<1>2. CASE UNCHANGED <<tidy, text, sel, mode, heard>>
  <2>1. OnPage' = OnPage
    BY <1>2 DEF OnPage
  <2>2. QED
    BY <1>1, <1>2, <2>1 DEF ShownInv
<1>3. ASSUME NEW k \in Keys, heard' = Append(heard, k),
             \/ k = XferSet /\ text' = mode /\ tidy' = (tidy /\ ~OnPage) /\ sel' = sel
             \/ k \in {Gprs, Wifi} /\ text' = sel' /\ tidy' = OnPage
             \/ k = Return /\ sel' = mode /\ mode' = mode
             \/ k = Ok /\ mode' = sel /\ sel' = sel
      PROVE  /\ ShownInv'
             /\ heard' = Append(heard, Ok) /\ OnPage /\ tidy => mode' = text
  <2>1. /\ k = XferSet => OnPage'
        /\ k \in {Ok, Return} => ~OnPage'
        /\ k \in {Gprs, Wifi} => OnPage' = OnPage
    BY <1>3, PageAfter
  <2>0. /\ XferSet \notin {Gprs, Wifi, Ok, Return} /\ Gprs \notin {Ok, Return} /\ Wifi \notin {Ok, Return}
        /\ Ok # Return
    BY DEF XferSet, Gprs, Wifi, Ok, Return
  <2>2. ShownInv'
    <3> SUFFICES ASSUME tidy' PROVE sel' = (IF OnPage' THEN text' ELSE mode')
      BY DEF ShownInv
    <3>1. CASE k = XferSet
      <4>1. k = XferSet /\ text' = mode /\ tidy' = (tidy /\ ~OnPage) /\ sel' = sel
        BY <1>3, <2>0, <3>1, Zenon
      <4>2. OnPage' /\ text' = mode /\ sel' = sel /\ tidy /\ ~OnPage
        BY <2>1, <3>1, <4>1, Zenon
      <4>3. sel = mode
        BY <4>2 DEF ShownInv
      <4>4. QED
        BY <4>2, <4>3
    <3>2. CASE k \in {Gprs, Wifi}
      <4>1. text' = sel' /\ tidy' = OnPage
        BY <1>3, <2>0, <3>2, Zenon
      <4>2. OnPage' /\ text' = sel'
        BY <2>1, <3>2, <4>1, Zenon
      <4>3. QED
        BY <4>2
    <3>3. CASE k \in {Ok, Return}
      <4>1. (sel' = mode /\ mode' = mode) \/ (mode' = sel /\ sel' = sel)
        BY <1>3, <2>0, <3>3, Zenon
      <4>2. sel' = mode'
        BY <4>1
      <4>3. ~OnPage' /\ sel' = mode'
        BY <2>1, <3>3, <4>2, Zenon
      <4>4. QED
        BY <4>3
    <3>4. QED
      BY <1>3, <3>1, <3>2, <3>3
  <2>3. ASSUME heard' = Append(heard, Ok), OnPage, tidy PROVE mode' = text
    <3>1. k = Ok
      BY <1>3, <2>3, OnlyOk
    <3>2. mode' = sel
      BY <1>3, <3>1 DEF Ok, XferSet, Gprs, Wifi, Return
    <3>3. QED
      BY <2>3, <3>2 DEF ShownInv
  <2>4. QED
    BY <2>2, <2>3
<1>4. QED
  BY <1>2, <1>3, LoopHears

LEMMA ShownRest ==
  ASSUME TypeInv, ShownInv, [Next]_vars, ~Loop
  PROVE  ShownInv' /\ heard' # Append(heard, Ok)
<1>1. heard # Append(heard, Ok) /\ <<>> # Append(heard, Ok)
  BY NotHeard
<1>2. CASE UNCHANGED <<tidy, text, sel, mode, heard>>
  <2>1. OnPage' = OnPage
    BY <1>2 DEF OnPage
  <2>2. QED
    BY <1>1, <1>2, <2>1 DEF ShownInv
<1>3. CASE PowerFailure
  <2>1. heard' = <<>> /\ (tidy' => sel' = mode')
    BY <1>3 DEF PowerFailure
  <2>2. ~OnPage'
    BY <2>1 DEF OnPage
  <2>3. QED
    BY <1>1, <2>1, <2>2 DEF ShownInv
<1>4. (\E k \in Keys : Touch(k)) \/ Type \/ Answer => UNCHANGED <<tidy, text, sel, mode, heard>>
  BY DEF Touch, Type, Answer, store, display
<1>5. ReadByte \/ NameRead \/ PasswordRead \/ ReadTimeout => UNCHANGED <<tidy, text, sel, mode, heard>>
  BY DEF ReadByte, NameRead, PasswordRead, ReadTimeout, store, display, history
<1>6. OpenFile \/ WriteFile \/ UNCHANGED vars => UNCHANGED <<tidy, text, sel, mode, heard>>
  BY DEF OpenFile, WriteFile, vars, store, display, history
<1>7. QED
  BY <1>2, <1>3, <1>4, <1>5, <1>6 DEF Next

(* Until the user has chosen or left the page, the way chosen is that of the start. *)
FreshInv == Fresh => sel = "GPRS"

LEMMA FreshStep ==
  ASSUME TypeInv, FreshInv, [Next]_vars
  PROVE  FreshInv' /\ (heard' = Append(heard, Ok) /\ Fresh => mode' = "GPRS")
<1>1. CASE UNCHANGED <<sel, heard>> /\ heard # Append(heard, Ok)
  BY <1>1 DEF FreshInv, Fresh
<1>2. ASSUME NEW k \in Keys, heard' = Append(heard, k),
             k = XferSet => sel' = sel,
             k = Ok => mode' = sel
      PROVE  FreshInv' /\ (heard' = Append(heard, Ok) /\ Fresh => mode' = "GPRS")
  <2>1. heard \in Seq(Keys)
    BY DEF TypeInv, HistoryTypes
  <2>2. /\ Len(heard) + 1 \in DOMAIN heard' /\ heard'[Len(heard) + 1] = k
        /\ \A j \in DOMAIN heard : j \in DOMAIN heard' /\ heard'[j] = heard[j]
    BY <1>2, <2>1
  <2>3. Fresh' => Fresh /\ k = XferSet
    BY <2>2 DEF Fresh
  <2>4. heard' = Append(heard, Ok) => k = Ok
    BY <1>2, OnlyOk
  <2>5. QED
    BY <1>2, <2>3, <2>4 DEF FreshInv
<1>3. CASE Loop
  <2>1. CASE UNCHANGED <<tidy, text, sel, mode, heard>>
    BY <1>1, <2>1, NotHeard
  <2>2. ASSUME NEW k \in Keys, heard' = Append(heard, k),
               \/ k = XferSet /\ text' = mode /\ tidy' = (tidy /\ ~OnPage) /\ sel' = sel
               \/ k \in {Gprs, Wifi} /\ text' = sel' /\ tidy' = OnPage
               \/ k = Return /\ sel' = mode /\ mode' = mode
               \/ k = Ok /\ mode' = sel /\ sel' = sel
        PROVE  FreshInv' /\ (heard' = Append(heard, Ok) /\ Fresh => mode' = "GPRS")
    <3>1. XferSet \notin {Gprs, Wifi, Ok, Return} /\ Ok \notin {Gprs, Wifi, Return}
      BY DEF XferSet, Gprs, Wifi, Ok, Return
    <3>2. (k = XferSet => sel' = sel) /\ (k = Ok => mode' = sel)
      BY <2>2, <3>1, Zenon
    <3>3. QED
      BY <1>2, <2>2, <3>2
  <2>3. QED
    BY <1>3, <2>1, <2>2, LoopHears
<1>4. CASE PowerFailure
  <2>1. heard' = <<>> /\ sel' = "GPRS"
    BY <1>4 DEF PowerFailure
  <2>2. heard' # Append(heard, Ok)
    BY <2>1, NotHeard
  <2>3. QED
    BY <2>1, <2>2 DEF FreshInv
<1>5. (\E k \in Keys : Touch(k)) \/ Type \/ Answer => UNCHANGED <<sel, heard>>
  BY DEF Touch, Type, Answer, store, display
<1>6. ReadByte \/ NameRead \/ PasswordRead \/ ReadTimeout => UNCHANGED <<sel, heard>>
  BY DEF ReadByte, NameRead, PasswordRead, ReadTimeout, store, display, history
<1>7. OpenFile \/ WriteFile \/ UNCHANGED vars => UNCHANGED <<sel, heard>>
  BY DEF OpenFile, WriteFile, vars, store, display, history
<1>8. QED
  BY <1>1, <1>3, <1>4, <1>5, <1>6, <1>7, NotHeard DEF Next

(* What is stored when the user says so is the way the page shows, whatever keys
   the line lost, for any number of keys and power failures, while the way
   chosen went with the page when it came up; and until the user has chosen or
   left the page after a start it is GPRS, whatever the page shows.          *)
THEOREM ShownIsStored == Spec => OkStoresShown
<1>1. Init => ShownInv /\ FreshInv
  BY DEF Init, ShownInv, OnPage, FreshInv
<1>2. TypeInv /\ ShownInv /\ FreshInv /\ [Next]_vars => ShownInv' /\ FreshInv'
  BY ShownLoop, ShownRest, FreshStep
<1>3. TypeInv /\ ShownInv /\ FreshInv /\ [Next]_vars =>
        [heard' = Append(heard, Ok) /\ OnPage =>
           /\ tidy  => mode' = text
           /\ Fresh => mode' = "GPRS"]_vars
  BY ShownLoop, ShownRest, FreshStep
<1>4. QED
  BY <1>1, <1>2, <1>3, Types, PTL DEF Spec, OkStoresShown
----------------------------------------------------------------------------
(***************************************************************************)
(* Back in step.  The bytes that have come since the program started are   *)
(* frames of keys and answers, whole or without a byte.                    *)
(***************************************************************************)

(* The bytes of the frame of a key. *)
LEMMA KeyFrameIs ==
  ASSUME NEW k \in Keys
  PROVE  /\ DOMAIN KeyFrame(k) = 1 .. 9 /\ Len(KeyFrame(k)) = 9
         /\ KeyFrame(k)[1] = 90 /\ KeyFrame(k)[2] = 165 /\ KeyFrame(k)[3] = 6 /\ KeyFrame(k)[4] = 131
         /\ KeyFrame(k)[5] \in {5, 6, 7} /\ KeyFrame(k)[6] \in {63, 115, 169, 170, 171}
         /\ KeyFrame(k)[7] = 1 /\ KeyFrame(k)[8] = KeyFrame(k)[5] + 1 /\ KeyFrame(k)[9] = KeyFrame(k)[6]
         /\ k = KeyFrame(k)[5] * 256 + KeyFrame(k)[6]
<1>1. /\ Hi(k) \in {5, 6, 7} /\ Lo(k) \in {63, 115, 169, 170, 171} /\ k = Hi(k) * 256 + Lo(k)
      /\ Hi(k + 256) = Hi(k) + 1
  BY DEF Keys, XferSet, Gprs, Wifi, Ok, Return, Hi, Lo
<1>2. QED
  BY <1>1 DEF KeyFrame

(* The keys of no other bytes than these. *)
LEMMA KeysAre ==
  /\ \A k \in Keys : k \in Nat
  /\ \A k \in Keys, x, y \in Byte : k = x * 256 + y => x \in {5, 6, 7} /\ y \in {63, 115, 169, 170, 171}
<1>1. Keys = {1651, 1449, 1450, 1451, 1855}
  BY DEF Keys, XferSet, Gprs, Wifi, Ok, Return
<1>2. ASSUME NEW k \in Keys, NEW x \in Byte, NEW y \in Byte, k = x * 256 + y
      PROVE  x \in {5, 6, 7} /\ y \in {63, 115, 169, 170, 171}
  <2>0. x \in 0 .. 255 /\ y \in 0 .. 255
    BY DEF Byte
  <2>1. x >= 8 => k >= 2048
    BY <1>2, <2>0
  <2>2. x <= 4 => k <= 1279
    BY <1>2, <2>0
  <2>3. x = 5 \/ x = 6 \/ x = 7
    BY <1>1, <2>0, <2>1, <2>2
  <2>4. QED
    BY <1>1, <1>2, <2>0, <2>3
<1>3. \A k \in Keys : k \in Nat
  BY <1>1
<1>4. QED
  BY <1>2, <1>3

(* What lcd_loop() does with the byte c. *)
Reads(c) == Loop /\ Head(rx) = c

LEMMA ReadByteIs ==
  ASSUME TypeInv, NEW c, Reads(c)
  PROVE  c \in Byte
BY HeadTail DEF Reads, Loop, TypeInv, LineTypes

LEMMA Parsed ==
  ASSUME NEW c, Reads(c)
  PROVE  /\ ~Stored(c) =>
              /\ get' = (CASE get = 0 -> IF c = 90 THEN 1 ELSE 0
                           [] get = 1 -> IF c = 165 THEN 2 ELSE 1
                           [] OTHER   -> IF c = 131 THEN 4 ELSE 3)
              /\ (get' = 4 => i' = 1 /\ key' = <<>>) /\ (get' # 4 => i' = i /\ key' = key)
              /\ UNCHANGED <<heard, asked, pc, amid>>
         /\ Stored(c) /\ i # 5 =>
              /\ get' = get /\ i' = i + 1 /\ key' = (IF i < 5 THEN Append(key, c) ELSE key)
              /\ UNCHANGED <<heard, asked, pc, amid>>
         /\ Stored(c) /\ i = 5 =>
              /\ get' = 0 /\ i' = 6
              /\ LET addr == key[1] * 256 + key[2]
                     data == key[4] * 256 + c
                 IN  IF addr \in Keys /\ data = addr + 256
                       THEN heard' = Append(heard, addr) /\ (OkKey \/ UNCHANGED <<asked, pc, amid>>)
                       ELSE UNCHANGED <<heard, asked, pc, amid>>
<1>1. Skip(c) \/ Keep(c) \/ Handle(c)
  BY DEF Reads, Loop
<1>2. CASE Skip(c)
  BY <1>2 DEF Skip
<1>3. CASE Keep(c)
  BY <1>3 DEF Keep
<1>4. CASE Handle(c)
  <2> DEFINE addr == key[1] * 256 + key[2]
             data == key[4] * 256 + c
  <2>1. Stored(c) /\ i = 5 /\ get' = 0 /\ i' = 6
    BY <1>4 DEF Handle
  <2>2. CASE addr \in Keys /\ data = addr + 256
    <3>1. /\ heard' = Append(heard, addr)
          /\ \/ addr = XferSet /\ XferSetKey
             \/ addr = Gprs /\ SelectKey("GPRS")
             \/ addr = Wifi /\ SelectKey("WIFI")
             \/ addr = Return /\ ReturnKey
             \/ addr = Ok /\ OkKey
      BY <1>4, <2>2, Zenon DEF Handle
    <3> HIDE DEF addr, data
    <3>2. OkKey \/ UNCHANGED <<asked, pc, amid>>
      BY <3>1 DEF XferSetKey, SelectKey, ReturnKey
    <3>3. QED
      BY <2>1, <2>2, <3>1, <3>2 DEF addr, data
  <2>3. CASE ~(addr \in Keys /\ data = addr + 256)
    <3>1. UNCHANGED <<heard, asked, pc, amid>>
      BY <1>4, <2>3, Zenon DEF Handle
    <3> HIDE DEF addr, data
    <3>2. QED
      BY <2>1, <2>3, <3>1 DEF addr, data
  <2>4. QED
    BY <2>2, <2>3
<1>5. QED
  BY <1>1, <1>2, <1>3, <1>4

(* The parser between two frames, within the frame z of a key that it has
   followed, and where it will take no byte for the beginning of a frame.   *)
Idle  == i = 1 \/ i >= 6
Clear == (get \in {0, 1} /\ Idle) \/ (get \in {2, 3} /\ i >= 6)

Collect(m, z) == get = 4 /\ i = m + 1 /\ \A r \in 1 .. m : key[r] = z[4 + r]

Follow(q, z) ==
  \/ q = 0 /\ Clear
  \/ q = 1 /\ ((get = 1 /\ Idle) \/ (get \in {2, 3} /\ i >= 6))
  \/ q = 2 /\ ((get = 2 /\ Idle) \/ (get = 3 /\ i >= 6))
  \/ q = 3 /\ get = 3 /\ Idle
  \/ q \in 4 .. 8 /\ Collect(q - 4, z)

Deaf(s, l, o) == get \in {0, 1} /\ Idle /\ \A q \in o + 1 .. l : s[q] = 165 => get = 0 /\ q = o + 1

(* A byte of the next frame is awaited for a key that it will not make. *)
Off ==
  /\ get = 4 /\ i = 5
  /\ \A c \in {90, 165} : ~(key[1] * 256 + key[2] \in Keys /\ key[4] * 256 + c = key[1] * 256 + key[2] + 256)

LEMMA Collected ==
  ASSUME key \in Seq(Byte), NEW m \in 0 .. 3, Len(key) = m, NEW z, NEW c \in Byte, Collect(m, z), c = z[4 + (m + 1)],
         get' = get, i' = i + 1, key' = Append(key, c)
  PROVE  Collect(m + 1, z)'
<1>1. key'[m + 1] = c /\ \A r \in 1 .. m : key'[r] = key[r]
  BY AppendFacts
<1>2. \A r \in 1 .. m + 1 : r \in 1 .. m \/ r = m + 1
  OBVIOUS
<1>3. \A r \in 1 .. m + 1 : key'[r] = z[4 + r]
  BY <1>1, <1>2 DEF Collect
<1>4. QED
  BY <1>3 DEF Collect

(* The first four bytes of a frame of a key are awaited, the next four stored. *)
Head4 == <<90, 165, 6, 131>>

LEMMA FollowByte ==
  ASSUME TypeInv, NEW s, NEW q \in 0 .. 7, Follow(q, s), NEW c, Reads(c), c = IF q <= 3 THEN Head4[q + 1] ELSE s[q + 1]
  PROVE  Follow(q + 1, s)' /\ UNCHANGED <<heard, asked, pc, amid>>
<1>1. /\ get \in 0 .. 4 /\ i \in Nat \ {0} /\ key \in Seq(Byte)
      /\ IF i <= 5 THEN Len(key) = i - 1 ELSE key = <<>>
  BY DEF TypeInv, ParserTypes
<1>2. /\ c = (IF q <= 3 THEN Head4[q + 1] ELSE s[q + 1]) /\ Follow(q, s) /\ c \in Byte
      /\ Head4[1] = 90 /\ Head4[2] = 165 /\ Head4[3] = 6 /\ Head4[4] = 131
  BY ReadByteIs DEF Head4
<1>3. /\ ~Stored(c) =>
              /\ get' = (CASE get = 0 -> IF c = 90 THEN 1 ELSE 0
                           [] get = 1 -> IF c = 165 THEN 2 ELSE 1
                           [] OTHER   -> IF c = 131 THEN 4 ELSE 3)
              /\ (get' = 4 => i' = 1 /\ key' = <<>>) /\ (get' # 4 => i' = i /\ key' = key)
              /\ UNCHANGED <<heard, asked, pc, amid>>
      /\ Stored(c) /\ i # 5 =>
              /\ get' = get /\ i' = i + 1 /\ key' = (IF i < 5 THEN Append(key, c) ELSE key)
              /\ UNCHANGED <<heard, asked, pc, amid>>
  BY Parsed
<1>4. CASE q = 0
  <2>1. Follow(1, s)' /\ UNCHANGED <<heard, asked, pc, amid>>
    BY <1>1, <1>2, <1>3, <1>4 DEF Follow, Clear, Idle, Stored
  <2>2. QED
    BY <1>4, <2>1
<1>5. CASE q = 1
  <2>1. Follow(2, s)' /\ UNCHANGED <<heard, asked, pc, amid>>
    BY <1>1, <1>2, <1>3, <1>5 DEF Follow, Idle, Stored
  <2>2. QED
    BY <1>5, <2>1
<1>6. CASE q = 2
  <2>1. Follow(3, s)' /\ UNCHANGED <<heard, asked, pc, amid>>
    BY <1>1, <1>2, <1>3, <1>6 DEF Follow, Idle, Stored
  <2>2. QED
    BY <1>6, <2>1
<1>7. CASE q = 3
  <2>1. Follow(4, s)' /\ UNCHANGED <<heard, asked, pc, amid>>
    BY <1>1, <1>2, <1>3, <1>7 DEF Follow, Idle, Stored, Collect
  <2>2. QED
    BY <1>7, <2>1
<1>8. CASE q \in 4 .. 7
  <2> DEFINE m == q - 4
  <2>1. m \in 0 .. 3 /\ Collect(m, s) /\ c = s[4 + (m + 1)]
    <3>1. c = s[q + 1] /\ Collect(q - 4, s)
      BY <1>2, <1>8 DEF Follow
    <3>2. m \in 0 .. 3 /\ q + 1 = 4 + (m + 1)
      BY <1>8
    <3>3. QED
      BY <3>1, <3>2
  <2> HIDE DEF m
  <2>a. get = 4 /\ i = m + 1 /\ i < 5 /\ Len(key) = m /\ key \in Seq(Byte)
    BY <1>1, <2>1 DEF Collect
  <2>b. get' = get /\ i' = i + 1 /\ key' = Append(key, c) /\ UNCHANGED <<heard, asked, pc, amid>>
    BY <1>3, <2>1, <2>a DEF Stored
  <2>2. Collect(m + 1, s)' /\ UNCHANGED <<heard, asked, pc, amid>>
    BY <1>2, <2>1, <2>a, <2>b, Collected
  <2>3. m + 1 = (q + 1) - 4 /\ q + 1 \in 4 .. 8
    BY <1>8 DEF m
  <2>4. QED
    BY <2>2, <2>3 DEF Follow
<1>9. QED
  BY <1>4, <1>5, <1>6, <1>7, <1>8

(* The fifth byte of a key: the key is heard. *)
Hears(k) == get' = 0 /\ i' = 6 /\ heard' = Append(heard, k) /\ (OkKey \/ UNCHANGED <<asked, pc, amid>>)

LEMMA FollowEnd ==
  ASSUME NEW k \in Keys, NEW z, z = KeyFrame(k), i = 5, get \in {3, 4}, \A r \in 1 .. 4 : key[r] = z[4 + r],
         NEW c, Reads(c), c = z[9]
  PROVE  Hears(k)
<1>1. /\ z[8] = z[5] + 1 /\ z[9] = z[6] /\ k = z[5] * 256 + z[6] /\ z[5] \in {5, 6, 7} /\ z[6] \in {63, 115, 169, 170, 171}
  BY KeyFrameIs
<1>2. key[1] = z[5] /\ key[2] = z[6] /\ key[4] = z[8] /\ c = z[9]
  <2>1. 1 \in 1 .. 4 /\ 2 \in 1 .. 4 /\ 4 \in 1 .. 4 /\ 4 + 1 = 5 /\ 4 + 2 = 6 /\ 4 + 4 = 8
    OBVIOUS
  <2>2. QED
    BY <2>1
<1>3. key[1] * 256 + key[2] = k /\ key[4] * 256 + c = k + 256
  <2> DEFINE x == z[5]
             y == z[6]
             a == key[1]
             b == key[2]
             e == key[4]
  <2>0. k = x * 256 + y /\ x \in {5, 6, 7} /\ y \in {63, 115, 169, 170, 171}
    BY <1>1, Zenon
  <2>1. a = x /\ b = y /\ e = x + 1 /\ c = y
    BY <1>1, <1>2, Zenon
  <2> HIDE DEF a, b, e, x, y
  <2>2. a * 256 + b = k /\ e * 256 + c = k + 256
    BY <2>0, <2>1
  <2>3. QED
    BY <2>2 DEF a, b, e
<1>4. Stored(c)
  BY <1>1, <1>2 DEF Stored
<1>5. /\ get' = 0 /\ i' = 6
      /\ IF key[1] * 256 + key[2] \in Keys /\ key[4] * 256 + c = key[1] * 256 + key[2] + 256
           THEN heard' = Append(heard, key[1] * 256 + key[2]) /\ (OkKey \/ UNCHANGED <<asked, pc, amid>>)
           ELSE UNCHANGED <<heard, asked, pc, amid>>
  BY <1>4, Parsed
<1>6. QED
  BY <1>3, <1>5 DEF Hears

(* Nothing begins within a frame that has lost its beginning. *)
LEMMA DeafByte ==
  ASSUME TypeInv, NEW s, NEW l \in Nat, NEW o \in 0 .. l - 1, Deaf(s, l, o), NEW c, Reads(c), c = s[o + 1]
  PROVE  Deaf(s, l, o + 1)' /\ UNCHANGED <<heard, asked, pc, amid>>
<1>1. get \in {0, 1} /\ Idle /\ o + 1 \in o + 1 .. l /\ c = s[o + 1]
  BY DEF Deaf
<1>2. c = 165 => get = 0
  <2> DEFINE q == o + 1
  <2>1. q \in o + 1 .. l /\ c = s[q]
    BY <1>1
  <2>2. s[q] = 165 => get = 0
    <3> HIDE DEF q
    <3>1. QED
      BY <2>1 DEF Deaf
  <2> HIDE DEF q
  <2>3. QED
    BY <2>1, <2>2, Zenon
<1>3. \A q \in (o + 1) + 1 .. l : s[q] # 165
  <2>1. \A q \in (o + 1) + 1 .. l : q \in o + 1 .. l /\ q # o + 1
    OBVIOUS
  <2>2. QED
    BY <2>1 DEF Deaf
<1>4. get' \in {0, 1} /\ i' = i /\ UNCHANGED <<heard, asked, pc, amid>>
  <2>1. ~Stored(c)
    BY <1>1 DEF Stored
  <2>2. QED
    BY <1>1, <1>2, <2>1, Parsed
<1>5. QED
  BY <1>1, <1>3, <1>4 DEF Deaf, Idle

LEMMA OffByte ==
  ASSUME Off, NEW c \in {90, 165}, Reads(c)
  PROVE  get' = 0 /\ i' = 6 /\ UNCHANGED <<heard, asked, pc, amid>>
<1>1. Stored(c) /\ i = 5 /\ ~(key[1] * 256 + key[2] \in Keys /\ key[4] * 256 + c = key[1] * 256 + key[2] + 256)
  BY DEF Stored, Off
<1>2. QED
  BY <1>1, Parsed

(* A byte of a frame is lost that need not be seen, or is not seen to be lost. *)
LEMMA JumpByte ==
  ASSUME TypeInv, NEW k \in Keys, NEW z, z = KeyFrame(k), NEW q \in 0 .. 3, Follow(q, z), NEW c, Reads(c), c = z[q + 2]
  PROVE  /\ UNCHANGED <<heard, asked, pc, amid>>
         /\ \/ q <= 2 /\ Follow(q + 2, z)'
            \/ q <= 1 /\ get' = q /\ Idle'
            \/ q = 3 /\ get' = 3 /\ (i' >= 6 \/ (i' = 2 /\ key'[1] = z[5]))
<1>1. /\ z[1] = 90 /\ z[2] = 165 /\ z[3] = 6 /\ z[4] = 131 /\ z[5] \in {5, 6, 7}
      /\ get \in 0 .. 4 /\ i \in Nat \ {0} /\ key \in Seq(Byte)
      /\ IF i <= 5 THEN Len(key) = i - 1 ELSE key = <<>>
  BY KeyFrameIs DEF TypeInv, ParserTypes
<1>2. c = z[q + 2] /\ Follow(q, z) /\ c \in Byte
  BY ReadByteIs
<1>3. /\ ~Stored(c) =>
              /\ get' = (CASE get = 0 -> IF c = 90 THEN 1 ELSE 0
                           [] get = 1 -> IF c = 165 THEN 2 ELSE 1
                           [] OTHER   -> IF c = 131 THEN 4 ELSE 3)
              /\ (get' = 4 => i' = 1 /\ key' = <<>>) /\ (get' # 4 => i' = i /\ key' = key)
              /\ UNCHANGED <<heard, asked, pc, amid>>
      /\ Stored(c) /\ i # 5 =>
              /\ get' = get /\ i' = i + 1 /\ key' = (IF i < 5 THEN Append(key, c) ELSE key)
              /\ UNCHANGED <<heard, asked, pc, amid>>
  BY Parsed
<1>4. CASE q = 0
  <2>1. UNCHANGED <<heard, asked, pc, amid>> /\ (Follow(2, z)' \/ (get' = 0 /\ Idle'))
    BY <1>1, <1>2, <1>3, <1>4, SMTT(30) DEF Follow, Clear, Idle, Stored
  <2>2. QED
    BY <1>4, <2>1
<1>5. CASE q = 1
  <2>1. UNCHANGED <<heard, asked, pc, amid>> /\ (Follow(3, z)' \/ (get' = 1 /\ Idle'))
    BY <1>1, <1>2, <1>3, <1>5, SMTT(30) DEF Follow, Idle, Stored
  <2>2. QED
    BY <1>5, <2>1
<1>6. CASE q = 2
  <2>1. UNCHANGED <<heard, asked, pc, amid>> /\ Follow(4, z)'
    BY <1>1, <1>2, <1>3, <1>6 DEF Follow, Idle, Stored, Collect
  <2>2. QED
    BY <1>6, <2>1
<1>7. CASE q = 3
  <2>1. get = 3 /\ Stored(c) /\ (i = 1 \/ i >= 6) /\ c = z[5]
    BY <1>1, <1>2, <1>7 DEF Follow, Idle, Stored
  <2>2. get' = 3 /\ i' = i + 1 /\ (i < 5 => key' = Append(key, c)) /\ UNCHANGED <<heard, asked, pc, amid>>
    BY <1>3, <2>1
  <2>3. i = 1 => key'[1] = z[5]
    BY <1>1, <1>2, <2>1, <2>2, AppendFacts
  <2>4. QED
    BY <1>1, <1>7, <2>1, <2>2, <2>3
<1>8. QED
  BY <1>4, <1>5, <1>6, <1>7

(***************************************************************************)
(* A frame of a key on the line: d is the byte of it that is lost, or 10.  *)
(***************************************************************************)
KeyBytesOf(s, l, k, d) ==
  /\ l = (IF d = 10 THEN 9 ELSE 8)
  /\ \A q \in 1 .. l : s[q] = KeyFrame(k)[IF q < d THEN q ELSE q + 1]

(* The parser after o bytes of it that will be a key, or half of one. *)
InKey(s, k, d, o) ==
  \/ (o < d \/ d >= 5) /\ Follow(o, s)
  \/ d <= 3 /\ o >= d /\ Follow(o + 1, KeyFrame(k))
  \/ /\ d = 4 /\ o >= 4 /\ get = 3
     /\ i >= 6 \/ (i = o - 2 /\ \A r \in 1 .. o - 3 : key[r] = KeyFrame(k)[4 + r])

LEMMA KeyBytesAre ==
  ASSUME NEW k \in Keys, NEW d \in 1 .. 10, NEW s, NEW l, KeyBytesOf(s, l, k, d)
  PROVE  /\ l \in {8, 9} /\ s[1] \in {90, 165}
         /\ \A q \in 1 .. l : s[q] = 165 => q <= 2
         /\ \A q \in 1 .. 4 : q < d => s[q] = Head4[q]
         /\ \A q \in 1 .. l : q >= d => s[q] = KeyFrame(k)[q + 1]
<1> DEFINE z == KeyFrame(k)
<1>1. /\ z[1] = 90 /\ z[2] = 165 /\ z[3] = 6 /\ z[4] = 131
      /\ z[5] \in {5, 6, 7} /\ z[6] \in {63, 115, 169, 170, 171}
      /\ z[7] = 1 /\ z[8] = z[5] + 1 /\ z[9] = z[6]
  BY KeyFrameIs
<1> HIDE DEF z
<1>2. \A q \in 1 .. 9 : z[q] = 165 => q = 2
  <2>1. \A q \in 1 .. 9 : q \in {1, 2, 3, 4, 5, 6, 7, 8, 9}
    OBVIOUS
  <2>2. QED
    BY <1>1, <2>1
<1>3. l \in {8, 9} /\ (l = 9 => d = 10) /\ \A q \in 1 .. l : s[q] = z[IF q < d THEN q ELSE q + 1]
  BY DEF KeyBytesOf, z
<1>4. s[1] \in {90, 165}
  <2>1. s[1] = z[1] \/ s[1] = z[2]
    BY <1>3
  <2>2. QED
    BY <1>1, <2>1
<1>5. ASSUME NEW q \in 1 .. l, s[q] = 165 PROVE q <= 2
  <2>1. (IF q < d THEN q ELSE q + 1) \in 1 .. 9
    BY <1>3
  <2>2. z[IF q < d THEN q ELSE q + 1] = 165
    BY <1>3, <1>5
  <2>3. (IF q < d THEN q ELSE q + 1) = 2
    BY <1>2, <2>1, <2>2
  <2>4. QED
    BY <2>3
<1>6. ASSUME NEW q \in 1 .. 4, q < d PROVE s[q] = Head4[q]
  <2>1. q \in 1 .. l /\ s[q] = z[q]
    BY <1>3, <1>6
  <2>2. q = 1 \/ q = 2 \/ q = 3 \/ q = 4
    OBVIOUS
  <2>3. QED
    BY <1>1, <2>1, <2>2 DEF Head4
<1>7. ASSUME NEW q \in 1 .. l, q >= d PROVE s[q] = z[q + 1]
  BY <1>3, <1>7
<1>8. QED
  BY <1>3, <1>4, <1>5, <1>6, <1>7 DEF z

(* A byte that comes in the wrong place makes no key with those around it. *)
LEMMA HalfKey ==
  ASSUME TypeInv', NEW k \in Keys, NEW d \in 5 .. 9, NEW s, NEW l, KeyBytesOf(s, l, k, d), Follow(8, s)'
  PROVE  Off'
<1> DEFINE z == KeyFrame(k)
           a == key'[1]
           b == key'[2]
           e == key'[4]
<1>1. /\ z[5] \in {5, 6, 7} /\ z[6] \in {63, 115, 169, 170, 171}
      /\ z[7] = 1 /\ z[8] = z[5] + 1 /\ z[9] = z[6]
  BY KeyFrameIs
<1> HIDE DEF z
<1>2. get' = 4 /\ i' = 5 /\ a = s[5] /\ b = s[6] /\ e = s[8]
  <2>1. Collect(4, s)'
    BY DEF Follow
  <2>2. get' = 4 /\ i' = 5 /\ \A r \in 1 .. 4 : key'[r] = s[4 + r]
    BY <2>1 DEF Collect
  <2>3. QED
    BY <2>2
<1>3. \A q \in 1 .. 8 : s[q] = z[IF q < d THEN q ELSE q + 1]
  BY DEF KeyBytesOf, z
<1>4. /\ s[5] = (IF d = 5 THEN z[6] ELSE z[5])
      /\ s[6] = (IF d <= 6 THEN z[7] ELSE z[6])
      /\ s[8] = (IF d = 9 THEN z[8] ELSE z[9])
  BY <1>3
<1>5. a \in Byte /\ b \in Byte
  <2>1. key' \in Seq(Byte) /\ Len(key') = 4
    BY <1>2 DEF TypeInv, ParserTypes
  <2>2. \A j \in 1 .. 4 : key'[j] \in Byte
    BY <2>1, SeqFacts, Zenon
  <2>3. 1 \in 1 .. 4 /\ 2 \in 1 .. 4
    OBVIOUS
  <2>4. QED
    BY <2>2, <2>3, Zenon
<1>6. a \in {5, 6, 7, 63, 115, 169, 170, 171} /\ b \in {1, 63, 115, 169, 170, 171}
  BY <1>1, <1>2, <1>4
<1>7. \/ a \in {63, 115, 169, 170, 171} \/ b = 1
      \/ a \in {5, 6, 7} /\ b \in {63, 115, 169, 170, 171} /\ (e \in {63, 115, 169, 170, 171} \/ e = a + 1)
  BY <1>1, <1>2, <1>4
<1> HIDE DEF a, b, e
<1>8. a \in {63, 115, 169, 170, 171} \/ b = 1 => a * 256 + b \notin Keys
  <2>1. a * 256 + b \in Keys => a \in {5, 6, 7} /\ b \in {63, 115, 169, 170, 171}
    <3> SUFFICES ASSUME NEW e1 \in Keys, e1 = a * 256 + b PROVE a \in {5, 6, 7} /\ b \in {63, 115, 169, 170, 171}
      OBVIOUS
    <3>1. QED
      BY <1>5, KeysAre
  <2>2. ~(a \in {5, 6, 7} /\ a \in {63, 115, 169, 170, 171}) /\ ~(b = 1 /\ b \in {63, 115, 169, 170, 171})
    OBVIOUS
  <2>3. QED
    BY <2>1, <2>2, SMTT(30)
<1>9. ASSUME NEW c \in {90, 165}, a \in {5, 6, 7}, b \in {63, 115, 169, 170, 171},
             e \in {63, 115, 169, 170, 171} \/ e = a + 1
      PROVE  e * 256 + c # a * 256 + b + 256
  BY <1>9
<1>10. QED
  BY <1>2, <1>7, <1>8, <1>9 DEF Off, a, b, e

LEMMA KeyStep ==
  ASSUME TypeInv, NEW k \in Keys, NEW d \in 1 .. 10, NEW s, NEW l, KeyBytesOf(s, l, k, d),
         NEW o \in 0 .. l - 2, InKey(s, k, d, o), NEW c, Reads(c), c = s[o + 1]
  PROVE  (InKey(s, k, d, o + 1)' \/ (Deaf(s, l, o + 1)' /\ d # 10)) /\ UNCHANGED <<heard, asked, pc, amid>>
<1> DEFINE z == KeyFrame(k)
<1>1. /\ z[1] = 90 /\ z[2] = 165 /\ z[3] = 6 /\ z[4] = 131
      /\ z[5] \in {5, 6, 7} /\ z[6] \in {63, 115, 169, 170, 171}
      /\ z[7] = 1 /\ z[8] = z[5] + 1 /\ z[9] = z[6]
  BY KeyFrameIs
<1>2. /\ l \in {8, 9} /\ (l = 9 => d = 10)
      /\ \A q \in 1 .. l : s[q] = 165 => q <= 2
      /\ \A q \in 1 .. 4 : q < d => s[q] = Head4[q]
      /\ \A q \in 1 .. l : q >= d => s[q] = z[q + 1]
  <2>1. l = (IF d = 10 THEN 9 ELSE 8)
    BY DEF KeyBytesOf
  <2>2. /\ \A q \in 1 .. l : s[q] = 165 => q <= 2
        /\ \A q \in 1 .. 4 : q < d => s[q] = Head4[q]
        /\ \A q \in 1 .. l : q >= d => s[q] = z[q + 1]
    BY KeyBytesAre
  <2> HIDE DEF z
  <2>3. QED
    BY <2>1, <2>2
<1> HIDE DEF z
<1>3. o \in 0 .. 7 /\ o + 1 \in 1 .. l /\ (o = 7 => d = 10)
  <2>1. l = 8 \/ (l = 9 /\ d = 10)
    BY <1>2
  <2>2. QED
    BY <2>1
<1>4. CASE (o < d \/ d >= 5) /\ Follow(o, s) /\ (o + 1 < d \/ d >= 5)
  <2>1. c = IF o <= 3 THEN Head4[o + 1] ELSE s[o + 1]
    BY <1>2, <1>3, <1>4
  <2>2. Follow(o + 1, s)' /\ UNCHANGED <<heard, asked, pc, amid>>
    BY <1>3, <1>4, <2>1, FollowByte
  <2>3. QED
    BY <1>4, <2>2 DEF InKey
<1>5. CASE Follow(o, s) /\ o + 1 = d /\ d <= 4
  <2>1. c = z[o + 2] /\ o \in 0 .. 3
    BY <1>2, <1>3, <1>5
  <2>2. Follow(o, z)
    BY <1>5, <2>1 DEF Follow
  <2>3. /\ UNCHANGED <<heard, asked, pc, amid>>
        /\ \/ o <= 2 /\ Follow(o + 2, z)'
           \/ o <= 1 /\ get' = o /\ Idle'
           \/ o = 3 /\ get' = 3 /\ (i' >= 6 \/ (i' = 2 /\ key'[1] = z[5]))
    BY <2>1, <2>2, JumpByte DEF z
  <2>4. CASE o <= 2 /\ Follow(o + 2, z)'
    <3>1. d <= 3 /\ o + 1 >= d /\ (o + 1) + 1 = o + 2
      BY <1>5, <2>4
    <3>2. InKey(s, k, d, o + 1)'
      BY <2>4, <3>1 DEF InKey, z
    <3>3. QED
      BY <2>3, <3>2
  <2>5. CASE o <= 1 /\ get' = o /\ Idle'
    <3>1. \A q \in (o + 1) + 1 .. l : s[q] = 165 => get' = 0 /\ q = (o + 1) + 1
      BY <1>2, <2>5
    <3>2. get' \in {0, 1}
      BY <2>1, <2>5
    <3>3. Deaf(s, l, o + 1)'
      BY <2>5, <3>1, <3>2 DEF Deaf
    <3>4. QED
      BY <1>5, <2>3, <3>3
  <2>6. CASE o = 3 /\ get' = 3 /\ (i' >= 6 \/ (i' = 2 /\ key'[1] = z[5]))
    <3>1. i' = 2 /\ key'[1] = z[5] => \A r \in 1 .. (o + 1) - 3 : key'[r] = z[4 + r]
      BY <2>6
    <3>2. InKey(s, k, d, o + 1)'
      BY <1>5, <2>6, <3>1 DEF InKey, z
    <3>3. QED
      BY <2>3, <3>2
  <2>7. QED
    BY <2>3, <2>4, <2>5, <2>6
<1>6. CASE d <= 3 /\ o >= d /\ Follow(o + 1, z)
  <2>1. o \in 1 .. 6 /\ c = z[o + 2]
    BY <1>2, <1>3, <1>6
  <2>2. o + 1 \in 0 .. 7 /\ c = IF o + 1 <= 3 THEN Head4[(o + 1) + 1] ELSE z[(o + 1) + 1]
    <3>1. o + 1 <= 3 => (o = 1 \/ o = 2)
      BY <2>1
    <3>2. QED
      BY <1>1, <2>1, <3>1 DEF Head4
  <2>3. Follow((o + 1) + 1, z)' /\ UNCHANGED <<heard, asked, pc, amid>>
    BY <1>6, <2>2, FollowByte
  <2>4. o + 1 >= d
    BY <1>6, <2>1
  <2>5. QED
    BY <1>6, <2>3, <2>4 DEF InKey, z
<1>7. CASE d = 4 /\ o >= 4 /\ get = 3 /\ (i >= 6 \/ (i = o - 2 /\ \A r \in 1 .. o - 3 : key[r] = z[4 + r]))
  <2>1. o \in 4 .. 6 /\ c = z[o + 2] /\ c # 131
    <3>1. o \in 4 .. 6 /\ c = z[o + 2]
      BY <1>2, <1>3, <1>7
    <3>2. o + 2 = 6 \/ o + 2 = 7 \/ o + 2 = 8
      BY <3>1
    <3>3. z[6] # 131 /\ z[7] # 131 /\ z[8] # 131
      BY <1>1
    <3>a. z[o + 2] # 131
      <4>1. CASE o + 2 = 6
        BY <3>3, <4>1, Zenon
      <4>2. CASE o + 2 = 7
        BY <3>3, <4>2, Zenon
      <4>3. CASE o + 2 = 8
        BY <3>3, <4>3, Zenon
      <4>4. QED
        BY <3>2, <4>1, <4>2, <4>3
    <3>4. QED
      BY <3>1, <3>a, Zenon
  <2>2. Stored(c)
    BY <1>7, <2>1 DEF Stored
  <2>3. i # 5 /\ i \in Nat
    BY <1>7, <2>1 DEF TypeInv, ParserTypes
  <2>4. c \in Byte
    BY ReadByteIs
  <2>5. get' = get /\ i' = i + 1 /\ key' = (IF i < 5 THEN Append(key, c) ELSE key) /\ UNCHANGED <<heard, asked, pc, amid>>
    BY <2>2, <2>3, Parsed
  <2>6. CASE i >= 6
    <3>1. i' >= 6 /\ get' = 3
      BY <1>7, <2>3, <2>5, <2>6
    <3>2. QED
      BY <1>7, <2>1, <2>5, <3>1 DEF InKey
  <2>7. CASE i = o - 2 /\ \A r \in 1 .. o - 3 : key[r] = z[4 + r]
    <3>1. key \in Seq(Byte) /\ Len(key) = o - 3 /\ i < 5
      BY <2>1, <2>7 DEF TypeInv, ParserTypes
    <3>2. key'[(o - 3) + 1] = c /\ \A r \in 1 .. o - 3 : key'[r] = key[r]
      BY <2>4, <2>5, <3>1, AppendFacts
    <3>3. \A r \in 1 .. (o + 1) - 3 : key'[r] = z[4 + r]
      <4> TAKE r \in 1 .. (o + 1) - 3
      <4>1. r \in 1 .. o - 3 \/ (r = (o - 3) + 1 /\ 4 + r = o + 2)
        BY <2>1
      <4>2. QED
        BY <2>1, <2>7, <3>2, <4>1
    <3>4. i' = (o + 1) - 2
      BY <2>1, <2>5, <2>7
    <3>5. d = 4 /\ o + 1 >= 4 /\ get' = 3
      BY <1>7, <2>1, <2>5
    <3>6. InKey(s, k, d, o + 1)'
      BY <3>3, <3>4, <3>5 DEF InKey, z
    <3>7. QED
      BY <2>5, <3>6
  <2>8. QED
    BY <1>7, <2>6, <2>7
<1>8. QED
  <2>1. o < d => o + 1 < d \/ o + 1 = d
    BY <1>3
  <2>2. d >= 5 \/ d <= 4
    OBVIOUS
  <2>3. QED
    BY <1>4, <1>5, <1>6, <1>7, <2>1, <2>2 DEF InKey, z

LEMMA KeyEnd ==
  ASSUME TypeInv, TypeInv', NEW k \in Keys, NEW d \in 1 .. 10, NEW s, NEW l, KeyBytesOf(s, l, k, d),
         NEW o, o = l - 1, InKey(s, k, d, o), NEW c, Reads(c), c = s[o + 1]
  PROVE  Hears(k) \/ (UNCHANGED <<heard, asked, pc, amid>> /\ d # 10 /\ (Clear' \/ Off'))
<1> DEFINE z == KeyFrame(k)
<1>1. z[9] \in {63, 115, 169, 170, 171}
  BY KeyFrameIs
<1>2. /\ l = (IF d = 10 THEN 9 ELSE 8)
      /\ \A q \in 1 .. l : s[q] = z[IF q < d THEN q ELSE q + 1]
  BY DEF KeyBytesOf
<1> HIDE DEF z
<1>3. c = s[l] /\ o = IF d = 10 THEN 8 ELSE 7
  BY <1>2
<1>4. CASE d = 10
  <2>1. Follow(8, s)
    BY <1>3, <1>4 DEF InKey
  <2>2. get = 4 /\ i = 5 /\ \A r \in 1 .. 4 : key[r] = s[4 + r]
    BY <2>1 DEF Follow, Collect
  <2>3. \A r \in 1 .. 4 : s[4 + r] = z[4 + r]
    BY <1>2, <1>4
  <2>4. c = z[9]
    BY <1>2, <1>3, <1>4
  <2>5. QED
    BY <2>2, <2>3, <2>4, FollowEnd DEF z
<1>5. CASE d \in 5 .. 9
  <2>0. o = 7 /\ ~(d <= 3) /\ d # 4
    BY <1>3, <1>5
  <2>1. Follow(7, s)
    BY <2>0 DEF InKey
  <2>2. c = s[7 + 1]
    BY <1>2, <1>3, <1>5
  <2>3. Follow(7 + 1, s)' /\ UNCHANGED <<heard, asked, pc, amid>>
    BY <2>1, <2>2, FollowByte
  <2>4. Off'
    BY <1>5, <2>3, HalfKey
  <2>5. QED
    BY <1>5, <2>3, <2>4
<1>6. CASE d <= 3
  <2>1. Follow(8, z)
    BY <1>3, <1>6 DEF InKey, z
  <2>2. get = 4 /\ i = 5 /\ \A r \in 1 .. 4 : key[r] = z[4 + r]
    BY <2>1 DEF Follow, Collect
  <2>3. c = z[9]
    BY <1>2, <1>3, <1>6
  <2>4. QED
    BY <2>2, <2>3, FollowEnd DEF z
<1>7. CASE d = 4
  <2>1. get = 3 /\ (i >= 6 \/ (i = 5 /\ \A r \in 1 .. 4 : key[r] = z[4 + r]))
    BY <1>3, <1>7 DEF InKey, z
  <2>2. c = z[9]
    BY <1>2, <1>3, <1>7
  <2>3. CASE i >= 6
    <3>1. Stored(c) /\ i # 5
      BY <1>1, <2>1, <2>2, <2>3 DEF Stored
    <3>2. i \in Nat
      BY DEF TypeInv, ParserTypes
    <3>3. get' = get /\ i' = i + 1 /\ UNCHANGED <<heard, asked, pc, amid>>
      BY <3>1, Parsed
    <3>4. Clear'
      BY <2>1, <2>3, <3>2, <3>3 DEF Clear
    <3>5. QED
      BY <1>7, <3>3, <3>4
  <2>4. CASE i = 5 /\ \A r \in 1 .. 4 : key[r] = z[4 + r]
    BY <2>1, <2>2, <2>4, FollowEnd DEF z
  <2>5. QED
    BY <2>1, <2>3, <2>4
<1>8. QED
  BY <1>4, <1>5, <1>6, <1>7

(***************************************************************************)
(* An answer on the line, whole or without a byte.  Before the byte that   *)
(* begins a key nothing else can; the two bytes after it are of no key.    *)
(***************************************************************************)
AnswerBytes(s, l, d) ==
  /\ l \in Nat /\ l >= 8 /\ s[1] \in {90, 165}
  /\ \A q \in 1 .. l : s[q] \in Byte
  /\ \A q \in 1 .. l : s[q] = 165 => q <= 2
  /\ \A q \in 1 .. l : s[q] = 131 => /\ q \in {3, 4} /\ q + 4 <= l /\ (d = 10 => q + 5 <= l)
                                     /\ s[q + 1] * 256 + s[q + 2] \notin Keys

(* The parser after o bytes of it, in which it has seen the beginning of a key. *)
InAnswer(s, o) ==
  \/ o = 1 /\ get = 1 /\ i >= 6 /\ s[1] = 90
  \/ get \in {2, 3} /\ i >= 6
  \/ \E v \in {3, 4} : /\ s[v] = 131 /\ o >= v /\ get = 4 /\ i = o - v + 1 /\ i <= 5
                       /\ \A r \in 1 .. o - v : key[r] = s[v + r]

LEMMA AnswerByte ==
  ASSUME TypeInv, NEW d, NEW s, NEW l, AnswerBytes(s, l, d), NEW o \in 0 .. l - 1,
         IF o = 0 THEN Clear /\ i >= 6 ELSE InAnswer(s, o), NEW c, Reads(c), c = s[o + 1]
  PROVE  (InAnswer(s, o + 1)' \/ Deaf(s, l, o + 1)') /\ UNCHANGED <<heard, asked, pc, amid>>
<1>1. /\ get \in 0 .. 4 /\ i \in Nat \ {0} /\ key \in Seq(Byte)
      /\ IF i <= 5 THEN Len(key) = i - 1 ELSE key = <<>>
  BY DEF TypeInv, ParserTypes
<1>2. /\ l \in Nat /\ o + 1 \in 1 .. l
      /\ s[o + 1] = 165 => o + 1 <= 2
      /\ s[o + 1] = 131 => o + 1 \in {3, 4}
      /\ o = 0 => c \in {90, 165}
      /\ \A q \in (o + 1) + 1 .. l : s[q] = 165 => q = 2 /\ o = 0
  <2>1. l \in Nat /\ o + 1 \in 1 .. l
    BY DEF AnswerBytes
  <2>2. /\ s[o + 1] = 165 => o + 1 <= 2
        /\ s[o + 1] = 131 => o + 1 \in {3, 4}
        /\ o = 0 => s[o + 1] \in {90, 165}
    BY <2>1 DEF AnswerBytes
  <2>3. ASSUME NEW q \in (o + 1) + 1 .. l, s[q] = 165 PROVE q = 2 /\ o = 0
    <3>1. q \in 1 .. l
      BY <2>1
    <3>2. q <= 2
      BY <2>3, <3>1 DEF AnswerBytes
    <3>3. QED
      BY <2>1, <3>2
  <2>4. QED
    BY <2>1, <2>2, <2>3
<1>3. /\ ~Stored(c) =>
              /\ get' = (CASE get = 0 -> IF c = 90 THEN 1 ELSE 0
                           [] get = 1 -> IF c = 165 THEN 2 ELSE 1
                           [] OTHER   -> IF c = 131 THEN 4 ELSE 3)
              /\ (get' = 4 => i' = 1 /\ key' = <<>>) /\ (get' # 4 => i' = i /\ key' = key)
              /\ UNCHANGED <<heard, asked, pc, amid>>
      /\ Stored(c) /\ i # 5 =>
              /\ get' = get /\ i' = i + 1 /\ key' = (IF i < 5 THEN Append(key, c) ELSE key)
              /\ UNCHANGED <<heard, asked, pc, amid>>
  BY Parsed
<1>4. ASSUME get' \in {0, 1}, i' >= 6, o = 0 => get' = 0
      PROVE  Deaf(s, l, o + 1)'
  <2>1. \A q \in (o + 1) + 1 .. l : s[q] = 165 => get' = 0 /\ q = (o + 1) + 1
    BY <1>2, <1>4
  <2>2. QED
    BY <1>4, <2>1 DEF Deaf, Idle
<1>5. CASE get = 4
  <2>1. o # 0
    BY <1>5 DEF Clear
  <2>2. PICK v \in {3, 4} : /\ s[v] = 131 /\ o >= v /\ i = o - v + 1 /\ i <= 5
                            /\ \A r \in 1 .. o - v : key[r] = s[v + r]
    BY <1>5, <2>1 DEF InAnswer
  <2>3. Stored(c)
    BY <1>5 DEF Stored
  <2>4. CASE i < 5
    <3>1. get' = 4 /\ i' = i + 1 /\ key' = Append(key, c) /\ UNCHANGED <<heard, asked, pc, amid>>
      BY <1>3, <1>5, <2>3, <2>4
    <3>2. Len(key) = o - v /\ c \in Byte
      BY <1>1, <2>2, <2>4, ReadByteIs
    <3>3. key'[(o - v) + 1] = c /\ \A r \in 1 .. o - v : key'[r] = key[r]
      BY <1>1, <3>1, <3>2, AppendFacts
    <3>4. \A r \in 1 .. (o + 1) - v : key'[r] = s[v + r]
      <4> TAKE r \in 1 .. (o + 1) - v
      <4>1. r \in 1 .. o - v \/ (r = (o - v) + 1 /\ v + r = o + 1)
        BY <2>2
      <4>2. QED
        BY <2>2, <3>3, <4>1
    <3>5. o + 1 >= v /\ i' = (o + 1) - v + 1 /\ i' <= 5
      BY <1>1, <2>2, <2>4, <3>1
    <3>6. InAnswer(s, o + 1)'
      <4>1. \E u \in {3, 4} : /\ s[u] = 131 /\ o + 1 >= u /\ get' = 4 /\ i' = (o + 1) - u + 1 /\ i' <= 5
                              /\ \A r \in 1 .. (o + 1) - u : key'[r] = s[u + r]
        BY <2>2, <3>1, <3>4, <3>5, Zenon
      <4>2. QED
        BY <4>1 DEF InAnswer
    <3>7. QED
      BY <3>1, <3>6
  <2>5. CASE i = 5
    <3>1. o = v + 4 /\ v + 1 \in 1 .. l /\ key[1] = s[v + 1] /\ key[2] = s[v + 2]
      <4>1. o = v + 4 /\ 1 \in 1 .. o - v /\ 2 \in 1 .. o - v
        BY <2>2, <2>5
      <4>2. QED
        BY <1>2, <2>2, <4>1
    <3>2. key[1] * 256 + key[2] \notin Keys
      <4>1. v \in 1 .. l
        BY <1>2, <3>1
      <4>2. s[v + 1] * 256 + s[v + 2] \notin Keys
        BY <2>2, <4>1 DEF AnswerBytes
      <4>3. QED
        BY <3>1, <4>2, Zenon
    <3>3. get' = 0 /\ i' = 6 /\ UNCHANGED <<heard, asked, pc, amid>>
      BY <2>3, <2>5, <3>2, Parsed
    <3>4. QED
      BY <1>4, <3>3
  <2>6. QED
    BY <1>1, <2>2, <2>4, <2>5
<1>6. CASE get \in {2, 3} /\ i >= 6
  <2>1. CASE Stored(c)
    <3>1. get' = get /\ i' >= 6 /\ UNCHANGED <<heard, asked, pc, amid>>
      BY <1>1, <1>3, <1>6, <2>1
    <3>2. QED
      BY <1>6, <3>1 DEF InAnswer
  <2>2. CASE ~Stored(c) /\ c # 131
    <3>1. get' = 3 /\ i' >= 6 /\ UNCHANGED <<heard, asked, pc, amid>>
      BY <1>1, <1>3, <1>6, <2>2
    <3>2. QED
      BY <3>1 DEF InAnswer
  <2>3. CASE ~Stored(c) /\ c = 131
    <3>1. get' = 4 /\ i' = 1 /\ UNCHANGED <<heard, asked, pc, amid>>
      BY <1>1, <1>3, <1>6, <2>3
    <3> DEFINE v == o + 1
    <3>2. v \in {3, 4} /\ s[v] = 131 /\ i' = (o + 1) - v + 1 /\ \A r \in 1 .. (o + 1) - v : FALSE
      BY <1>2, <2>3, <3>1
    <3> HIDE DEF v
    <3>3. o + 1 >= v
      BY DEF v
    <3>4. InAnswer(s, o + 1)'
      BY <3>1, <3>2, <3>3 DEF InAnswer
    <3>5. QED
      BY <3>1, <3>4
  <2>4. QED
    BY <2>1, <2>2, <2>3
<1>7. CASE get \in {0, 1} /\ i >= 6
  <2>1. ~Stored(c)
    BY <1>7 DEF Stored
  <2>2. i' = i /\ i' >= 6 /\ UNCHANGED <<heard, asked, pc, amid>>
    BY <1>3, <1>7, <2>1
  <2>3. CASE o = 0
    <3>1. c \in {90, 165}
      BY <1>2, <2>3
    <3>2. CASE c = 90
      <4>1. get' = 1
        BY <1>3, <1>7, <2>1, <3>2
      <4>2. QED
        BY <2>2, <2>3, <3>2, <4>1 DEF InAnswer
    <3>3. CASE c = 165 /\ get = 0
      <4>1. get' = 0
        BY <1>3, <2>1, <3>3
      <4>2. QED
        BY <1>4, <2>2, <4>1
    <3>4. CASE c = 165 /\ get = 1
      <4>1. get' = 2
        BY <1>3, <2>1, <3>4
      <4>2. QED
        BY <2>2, <4>1 DEF InAnswer
    <3>5. QED
      BY <1>7, <3>1, <3>2, <3>3, <3>4
  <2>4. CASE o # 0
    <3>1. get = 1 /\ o = 1
      BY <1>7, <2>4 DEF InAnswer
    <3>2. CASE c = 165
      <4>1. get' = 2
        BY <1>3, <2>1, <3>1, <3>2
      <4>2. QED
        BY <2>2, <4>1 DEF InAnswer
    <3>3. CASE c # 165
      <4>1. get' = 1
        BY <1>3, <2>1, <3>1, <3>3
      <4>2. QED
        BY <1>4, <2>2, <3>1, <4>1
    <3>4. QED
      BY <3>2, <3>3
  <2>5. QED
    BY <2>3, <2>4
<1>8. QED
  BY <1>5, <1>6, <1>7 DEF Clear, InAnswer

(* At its end. *)
LEMMA AnswerOver ==
  ASSUME NEW d, NEW s, NEW l, AnswerBytes(s, l, d), InAnswer(s, l)'
  PROVE  Clear' \/ (Off' /\ d # 10)
<1>1. l \in Nat /\ l >= 8
  BY DEF AnswerBytes
<1>2. CASE get' \in {2, 3} /\ i' >= 6
  BY <1>2 DEF Clear
<1>3. CASE \E v \in {3, 4} : /\ s[v] = 131 /\ l >= v /\ get' = 4 /\ i' = l - v + 1 /\ i' <= 5
                             /\ \A r \in 1 .. l - v : key'[r] = s[v + r]
  <2>1. PICK v \in {3, 4} : /\ s[v] = 131 /\ get' = 4 /\ i' = l - v + 1 /\ i' <= 5
                            /\ \A r \in 1 .. l - v : key'[r] = s[v + r]
    BY <1>3
  <2>2. v \in 1 .. l
    BY <1>1
  <2>3. v + 4 <= l /\ (d = 10 => v + 5 <= l) /\ s[v + 1] * 256 + s[v + 2] \notin Keys
    BY <2>1, <2>2 DEF AnswerBytes
  <2>4. l = v + 4 /\ 1 \in 1 .. l - v /\ 2 \in 1 .. l - v
    BY <1>1, <2>1, <2>3
  <2>5. key'[1] = s[v + 1] /\ key'[2] = s[v + 2]
    BY <2>1, <2>4
  <2>6. key'[1] * 256 + key'[2] \notin Keys
    BY <2>3, <2>5, Zenon
  <2>7. i' = 5 /\ d # 10
    BY <2>1, <2>3, <2>4
  <2>8. QED
    BY <2>1, <2>6, <2>7 DEF Off
<1>4. QED
  BY <1>1, <1>2, <1>3 DEF InAnswer

(***************************************************************************)
(* The frames that have come since the program started: a mark stands      *)
(* after each, with the bytes up to there, the keys touched, and what the  *)
(* bytes lost and the answers read may have cost of them.                  *)
(***************************************************************************)
Frame(x, y) ==
  /\ y.lost \in 1 .. 10
  /\ \/ y.keys = x.keys + 1 /\ y.key \in Keys /\ KeyBytesOf(y.bytes, y.end - x.end, y.key, y.lost)
     \/ y.keys = x.keys /\ AnswerBytes(y.bytes, y.end - x.end, y.lost)
  /\ y.cost >= x.cost + IF y.lost = 10 THEN 0 ELSE 1 + y.keys - x.keys

IsMark(x) == x.end \in Nat /\ x.keys \in Nat /\ x.cost \in Nat

(* With e more, no more keys are missed than the cost. *)
Enough(x, e) == x.keys + e <= Len(heard) + x.cost

Ready(x) == (Clear /\ Enough(x, 0)) \/ (Off /\ Enough(x, 1))

Within(x, y, o) ==
  \/ /\ Enough(x, 0)
     /\ \/ y.keys = x.keys + 1 /\ InKey(y.bytes, y.key, y.lost, o)
        \/ y.keys = x.keys /\ InAnswer(y.bytes, o)
  \/ Deaf(y.bytes, y.end - x.end, o) /\ Enough(y, 0)

LEMMA FrameIs ==
  ASSUME NEW x, NEW y, IsMark(x), IsMark(y), Frame(x, y)
  PROVE  /\ y.end - x.end \in Nat /\ y.end - x.end >= 8 /\ y.bytes[1] \in {90, 165}
         /\ \A q \in 1 .. y.end - x.end : y.bytes[q] = 165 => q <= 2
         /\ y.cost >= x.cost /\ (y.lost # 10 => y.cost >= x.cost + 1 + (y.keys - x.keys))
         /\ y.keys \in {x.keys, x.keys + 1}
<1> DEFINE l == y.end - x.end
<1>1. x.cost \in Nat /\ y.cost \in Nat /\ x.keys \in Nat /\ y.keys \in Nat /\ y.keys \in {x.keys, x.keys + 1}
  BY DEF IsMark, Frame
<1>2. l \in Nat /\ l >= 8 /\ y.bytes[1] \in {90, 165} /\ \A q \in 1 .. l : y.bytes[q] = 165 => q <= 2
  <2>1. CASE y.key \in Keys /\ KeyBytesOf(y.bytes, l, y.key, y.lost)
    <3>1. y.lost \in 1 .. 10
      BY DEF Frame
    <3> HIDE DEF l
    <3>2. QED
      BY <2>1, <3>1, KeyBytesAre
  <2>2. CASE AnswerBytes(y.bytes, l, y.lost)
    <3> HIDE DEF l
    <3>1. QED
      BY <2>2 DEF AnswerBytes
  <2>3. QED
    BY <2>1, <2>2 DEF Frame
<1>3. y.cost >= x.cost + IF y.lost = 10 THEN 0 ELSE 1 + y.keys - x.keys
  BY DEF Frame
<1>4. QED
  BY <1>1, <1>2, <1>3

LEMMA FrameByte ==
  ASSUME TypeInv, TypeInv', NEW x, NEW y, IsMark(x), IsMark(y), Frame(x, y),
         NEW o \in 0 .. y.end - x.end - 1, IF o = 0 THEN Ready(x) ELSE Within(x, y, o),
         y.keys = x.keys => get = 4 \/ i >= 6,
         NEW c, Reads(c), c = y.bytes[o + 1]
  PROVE  /\ o + 1 < y.end - x.end => Within(x, y, o + 1)' /\ UNCHANGED <<heard, asked, pc, amid>>
         /\ o + 1 = y.end - x.end =>
              /\ Ready(y)'
              /\ UNCHANGED <<heard, asked, pc, amid>> \/ (y.keys = x.keys + 1 /\ Hears(y.key))
<1> DEFINE l == y.end - x.end
           s == y.bytes
           k == y.key
           d == y.lost
<1>1. /\ l \in Nat /\ l >= 8 /\ s[1] \in {90, 165}
      /\ \A q \in 1 .. l : s[q] = 165 => q <= 2
      /\ y.cost >= x.cost /\ (d # 10 => y.cost >= x.cost + 1 + (y.keys - x.keys))
      /\ y.keys \in {x.keys, x.keys + 1}
  BY FrameIs
<1>2. o \in 0 .. l - 1 /\ c = s[o + 1] /\ d \in 1 .. 10
  BY DEF Frame
<1>3. x.keys \in Nat /\ y.keys \in Nat /\ x.cost \in Nat /\ y.cost \in Nat
  BY DEF IsMark
<1>4. Len(heard) \in Nat /\ \A e : Len(Append(heard, e)) = Len(heard) + 1
  <2>1. heard \in Seq(Keys)
    BY DEF TypeInv, HistoryTypes
  <2>2. QED
    BY <2>1
<1>5. heard' = heard => \A e : Enough(x, e)' = Enough(x, e) /\ Enough(y, e)' = Enough(y, e)
  BY DEF Enough
<1> DEFINE h == Len(heard)
<1>6. /\ Enough(x, 0) /\ d # 10 => Enough(y, 0) /\ Enough(y, 1)
      /\ Enough(x, 0) /\ y.keys = x.keys => Enough(y, 0)
      /\ Enough(x, 0) /\ heard' = Append(heard, k) => Enough(y, 0)'
      /\ Enough(x, 1) => Enough(y, 0)
  <2>1. h \in Nat
    BY <1>4
  <2>2. /\ Enough(x, 0) <=> x.keys <= h + x.cost
        /\ Enough(x, 1) <=> x.keys + 1 <= h + x.cost
        /\ Enough(y, 0) <=> y.keys <= h + y.cost
        /\ Enough(y, 1) <=> y.keys + 1 <= h + y.cost
        /\ heard' = Append(heard, k) => (Enough(y, 0)' <=> y.keys <= h + 1 + y.cost)
    BY <1>3, <1>4, SMTT(30) DEF Enough
  <2> DEFINE a == x.keys
             b == y.keys
             u == x.cost
             v == y.cost
  <2>3. {a, b, u, v, h} \subseteq Nat /\ v >= u /\ (d # 10 => v >= u + 1 + (b - a)) /\ b \in {a, a + 1}
    BY <1>1, <1>3, <2>1
  <2> HIDE DEF h, a, b, u, v
  <2>4. /\ a <= h + u /\ d # 10 => b <= h + v /\ b + 1 <= h + v
        /\ a <= h + u /\ b = a => b <= h + v
        /\ a <= h + u => b <= h + 1 + v
        /\ a + 1 <= h + u => b <= h + v
    <3> HIDE DEF d
    <3>1. QED
      BY <2>3
  <2>5. QED
    BY <2>2, <2>4 DEF a, b, u, v
<1>7. Within(x, y, o) <=> \/ /\ Enough(x, 0)
                             /\ \/ y.keys = x.keys + 1 /\ InKey(s, k, d, o)
                                \/ y.keys = x.keys /\ InAnswer(s, o)
                          \/ Deaf(s, l, o) /\ Enough(y, 0)
  BY DEF Within
<1>8. Within(x, y, o + 1)' <=> \/ /\ Enough(x, 0)'
                                  /\ \/ y.keys = x.keys + 1 /\ InKey(s, k, d, o + 1)'
                                     \/ y.keys = x.keys /\ InAnswer(s, o + 1)'
                               \/ Deaf(s, l, o + 1)' /\ Enough(y, 0)'
  BY DEF Within
<1>9. /\ y.keys = x.keys + 1 => k \in Keys /\ KeyBytesOf(s, l, k, d)
      /\ y.keys = x.keys => AnswerBytes(s, l, d)
  BY <1>3 DEF Frame
<1>10. SUFFICES /\ o + 1 < l => Within(x, y, o + 1)' /\ UNCHANGED <<heard, asked, pc, amid>>
                /\ o + 1 = l => /\ Ready(y)'
                                /\ UNCHANGED <<heard, asked, pc, amid>> \/ (y.keys = x.keys + 1 /\ Hears(k))
  OBVIOUS
<1> HIDE DEF l, s, k, d
<1>11. CASE o = 0 /\ Off /\ Enough(x, 1)
  <2>1. get' = 0 /\ i' = 6 /\ UNCHANGED <<heard, asked, pc, amid>>
    BY <1>1, <1>2, <1>11, OffByte
  <2>2. Deaf(s, l, o + 1)'
    <3>1. \A q \in (o + 1) + 1 .. l : s[q] = 165 => get' = 0 /\ q = (o + 1) + 1
      BY <1>1, <1>11, <2>1
    <3>2. QED
      BY <2>1, <3>1 DEF Deaf, Idle
  <2>3. o + 1 # l
    BY <1>1, <1>11
  <2>4. QED
    BY <1>5, <1>6, <1>8, <1>11, <2>1, <2>2, <2>3
<1>12. CASE o # 0 /\ Deaf(s, l, o) /\ Enough(y, 0)
  <2>1. Deaf(s, l, o + 1)' /\ UNCHANGED <<heard, asked, pc, amid>>
    BY <1>1, <1>2, <1>12, DeafByte
  <2>2. Clear'
    BY <2>1 DEF Deaf, Clear, Idle
  <2>3. Enough(y, 0)'
    BY <1>5, <1>12, <2>1
  <2>4. QED
    BY <1>8, <2>1, <2>2, <2>3 DEF Ready
<1>13. CASE y.keys = x.keys + 1 /\ Enough(x, 0) /\ InKey(s, k, d, o)
  <2>1. k \in Keys /\ KeyBytesOf(s, l, k, d)
    BY <1>9, <1>13
  <2>2. CASE o + 1 < l
    <3>1. o \in 0 .. l - 2
      BY <1>1, <1>2, <2>2
    <3>2. (InKey(s, k, d, o + 1)' \/ (Deaf(s, l, o + 1)' /\ d # 10)) /\ UNCHANGED <<heard, asked, pc, amid>>
      BY <1>2, <1>13, <2>1, <3>1, KeyStep
    <3>3. QED
      BY <1>5, <1>6, <1>8, <1>13, <2>2, <3>2
  <2>3. CASE o + 1 = l
    <3>1. o = l - 1
      BY <1>1, <1>2, <2>3
    <3>2. Hears(k) \/ (UNCHANGED <<heard, asked, pc, amid>> /\ d # 10 /\ (Clear' \/ Off'))
      BY <1>2, <1>13, <2>1, <3>1, KeyEnd
    <3>3. CASE Hears(k)
      <4>1. Clear' /\ heard' = Append(heard, k)
        BY <3>3 DEF Hears, Clear, Idle
      <4>2. QED
        BY <1>6, <1>13, <2>3, <3>3, <4>1 DEF Ready
    <3>4. CASE UNCHANGED <<heard, asked, pc, amid>> /\ d # 10 /\ (Clear' \/ Off')
      BY <1>5, <1>6, <1>13, <2>3, <3>4 DEF Ready
    <3>5. QED
      BY <3>2, <3>3, <3>4
  <2>4. QED
    BY <1>1, <1>2, <2>2, <2>3
<1>14. CASE y.keys = x.keys /\ Enough(x, 0) /\ (IF o = 0 THEN Clear ELSE InAnswer(s, o))
  <2>1. AnswerBytes(s, l, d)
    BY <1>9, <1>14
  <2>2. IF o = 0 THEN Clear /\ i >= 6 ELSE InAnswer(s, o)
    BY <1>14 DEF Clear
  <2>3. (InAnswer(s, o + 1)' \/ Deaf(s, l, o + 1)') /\ UNCHANGED <<heard, asked, pc, amid>>
    BY <1>2, <2>1, <2>2, AnswerByte
  <2>4. Enough(x, 0)' /\ Enough(y, 0)'
    BY <1>5, <1>6, <1>14, <2>3
  <2>5. CASE o + 1 < l
    BY <1>8, <1>14, <2>3, <2>4, <2>5
  <2>6. CASE o + 1 = l /\ InAnswer(s, o + 1)'
    <3>1. Clear' \/ (Off' /\ d # 10)
      BY <2>1, <2>6, AnswerOver
    <3>2. d # 10 => Enough(y, 1)'
      BY <1>5, <1>6, <1>14, <2>3
    <3>3. QED
      BY <2>3, <2>4, <2>6, <3>1, <3>2 DEF Ready
  <2>7. CASE o + 1 = l /\ Deaf(s, l, o + 1)'
    <3>1. Clear'
      BY <2>7 DEF Deaf, Clear, Idle
    <3>2. QED
      BY <2>3, <2>4, <2>7, <3>1 DEF Ready
  <2>8. QED
    BY <1>1, <1>2, <2>3, <2>5, <2>6, <2>7
<1>15. QED
  <2>1. CASE o = 0
    <3>1. Clear => InKey(s, k, d, o)
      BY <1>2, <2>1 DEF InKey, Follow
    <3>2. QED
      BY <1>1, <1>11, <1>13, <1>14, <2>1, <3>1 DEF Ready
  <2>2. CASE o # 0
    BY <1>7, <1>12, <1>13, <1>14, <2>2
  <2>3. QED
    BY <2>1, <2>2

(***************************************************************************)
(* What the line makes of a frame.                                         *)
(***************************************************************************)
(* The frame f without its byte d, or whole. *)
Without(f, d, s, l) ==
  /\ l = (IF d = Len(f) + 1 THEN Len(f) ELSE Len(f) - 1)
  /\ \A q \in 1 .. l : s[q] = f[IF q < d THEN q ELSE q + 1]

(* After the bytes that wait come these. *)
Adds(s, l) ==
  /\ Len(rx') = Len(rx) + l
  /\ \A q \in 1 .. Len(rx) : rx'[q] = rx[q]
  /\ \A q \in 1 .. l : rx'[Len(rx) + q] = s[q]

LEMMA Removed ==
  ASSUME NEW S, NEW f \in Seq(S), NEW d \in 1 .. Len(f)
  PROVE  /\ RemoveAt(f, d) \in Seq(S) /\ Len(RemoveAt(f, d)) = Len(f) - 1
         /\ \A q \in 1 .. Len(f) - 1 : RemoveAt(f, d)[q] = f[IF q < d THEN q ELSE q + 1]
<1> DEFINE a == SubSeq(f, 1, d - 1)
           b == SubSeq(f, d + 1, Len(f))
<1>1. Len(f) \in Nat /\ d \in 1 .. Len(f) /\ \A q \in 1 .. Len(f) : f[q] \in S
  OBVIOUS
<1>2. a \in Seq(S) /\ Len(a) = d - 1 /\ \A q \in 1 .. d - 1 : a[q] = f[q]
  <2>1. 1 \in Int /\ d - 1 \in Int /\ \A q \in 1 .. d - 1 : f[q] \in S
    BY <1>1
  <2>2. /\ SubSeq(f, 1, d - 1) \in Seq(S)
        /\ Len(SubSeq(f, 1, d - 1)) = IF 1 <= d - 1 THEN d - 1 - 1 + 1 ELSE 0
        /\ \A q \in 1 .. d - 1 - 1 + 1 : SubSeq(f, 1, d - 1)[q] = f[1 + q - 1]
    BY <2>1, SubSeqProperties
  <2>3. QED
    BY <1>1, <2>2
<1>3. b \in Seq(S) /\ Len(b) = Len(f) - d /\ \A q \in 1 .. Len(f) - d : b[q] = f[d + q]
  <2>1. d + 1 \in Int /\ Len(f) \in Int /\ \A q \in d + 1 .. Len(f) : f[q] \in S
    BY <1>1
  <2>2. /\ SubSeq(f, d + 1, Len(f)) \in Seq(S)
        /\ Len(SubSeq(f, d + 1, Len(f))) = IF d + 1 <= Len(f) THEN Len(f) - (d + 1) + 1 ELSE 0
        /\ \A q \in 1 .. Len(f) - (d + 1) + 1 : SubSeq(f, d + 1, Len(f))[q] = f[d + 1 + q - 1]
    BY <2>1, SubSeqProperties
  <2>3. QED
    BY <1>1, <2>2
<1>4. RemoveAt(f, d) = a \o b
  BY DEF RemoveAt
<1> HIDE DEF a, b
<1>5. /\ a \o b \in Seq(S) /\ Len(a \o b) = Len(a) + Len(b)
      /\ \A q \in 1 .. Len(a) : (a \o b)[q] = a[q]
      /\ \A q \in 1 .. Len(b) : (a \o b)[Len(a) + q] = b[q]
  <2>1. a \in Seq(S) /\ b \in Seq(S)
    BY <1>2, <1>3
  <2>2. QED
    BY <2>1
<1>6. ASSUME NEW q \in 1 .. Len(f) - 1
      PROVE  (a \o b)[q] = f[IF q < d THEN q ELSE q + 1]
  <2>1. CASE q < d
    <3>1. q \in 1 .. Len(a) /\ q \in 1 .. d - 1
      BY <1>1, <1>2, <2>1
    <3>2. (a \o b)[q] = f[q]
      BY <1>2, <1>5, <3>1, Zenon
    <3>3. QED
      BY <2>1, <3>2
  <2>2. CASE q >= d
    <3> DEFINE r == q - (d - 1)
    <3>1. r \in 1 .. Len(f) - d /\ Len(a) + r = q /\ d + r = q + 1
      BY <1>1, <1>2, <2>2
    <3> HIDE DEF r
    <3>2. (a \o b)[q] = b[r] /\ b[r] = f[q + 1]
      <4>1. r \in 1 .. Len(b)
        BY <1>3, <3>1
      <4>2. (a \o b)[Len(a) + r] = b[r] /\ b[r] = f[d + r]
        BY <1>3, <1>5, <3>1, <4>1, Zenon
      <4>3. QED
        BY <3>1, <4>2
    <3>3. QED
      BY <2>2, <3>2
  <2>3. q \in Nat /\ d \in Nat
    BY <1>1
  <2>4. q < d \/ q >= d
    BY <2>3
  <2>5. QED
    BY <2>1, <2>2, <2>4, Zenon
<1>7. QED
  BY <1>1, <1>2, <1>3, <1>4, <1>5, <1>6

LEMMA EmittedBytes ==
  ASSUME rx \in Seq(Byte), faults \in Nat, NEW f \in Seq(Byte), Emit(f)
  PROVE  \E d \in 1 .. Len(f) + 1 : \E s, l :
           Without(f, d, s, l) /\ Adds(s, l) /\ faults' = faults + (IF d = Len(f) + 1 THEN 0 ELSE 1)
<1>1. CASE rx' = rx \o f /\ UNCHANGED faults
  <2> DEFINE d == Len(f) + 1
             l == Len(f)
  <2>1. Len(f) \in Nat /\ d \in 1 .. Len(f) + 1
    OBVIOUS
  <2>2. Without(f, d, f, l)
    BY <2>1 DEF Without
  <2>3. Adds(f, l)
    BY <1>1, Concat DEF Adds
  <2>4. faults' = faults + (IF d = Len(f) + 1 THEN 0 ELSE 1)
    BY <1>1
  <2>5. QED
    BY <2>1, <2>2, <2>3, <2>4
<1>2. CASE faults' = faults + 1 /\ \E j \in DOMAIN f : rx' = rx \o RemoveAt(f, j)
  <2>1. PICK d \in 1 .. Len(f) : rx' = rx \o RemoveAt(f, d)
    <3>1. DOMAIN f = 1 .. Len(f)
      BY SeqFacts
    <3>2. QED
      BY <1>2, <3>1
  <2> DEFINE s == RemoveAt(f, d)
             l == Len(f) - 1
  <2>2. s \in Seq(Byte) /\ Len(s) = l /\ \A q \in 1 .. l : s[q] = f[IF q < d THEN q ELSE q + 1]
    BY Removed
  <2>3. Len(f) \in Nat /\ d \in 1 .. Len(f) + 1 /\ d # Len(f) + 1
    OBVIOUS
  <2> HIDE DEF s
  <2>4. Without(f, d, s, l)
    BY <2>2, <2>3 DEF Without
  <2>5. Adds(s, l)
    <3>1. rx' = rx \o s
      BY <2>1 DEF s
    <3>2. /\ Len(rx \o s) = Len(rx) + Len(s)
          /\ \A j \in 1 .. Len(rx) : (rx \o s)[j] = rx[j]
          /\ \A j \in 1 .. Len(s) : (rx \o s)[Len(rx) + j] = s[j]
      <4>1. rx \in Seq(Byte) /\ s \in Seq(Byte)
        BY <2>2
      <4>2. QED
        BY <4>1
    <3>3. QED
      BY <2>2, <3>1, <3>2 DEF Adds
  <2>6. faults' = faults + (IF d = Len(f) + 1 THEN 0 ELSE 1)
    BY <1>2, <2>3
  <2>7. QED
    BY <2>3, <2>4, <2>5, <2>6
<1>3. QED
  BY <1>1, <1>2 DEF Emit

LEMMA KeyWithout ==
  ASSUME NEW k \in Keys, NEW d, NEW s, NEW l, Without(KeyFrame(k), d, s, l)
  PROVE  KeyBytesOf(s, l, k, d)
<1>1. Len(KeyFrame(k)) = 9
  BY KeyFrameIs
<1>2. (d = Len(KeyFrame(k)) + 1) <=> (d = 10)
  BY <1>1
<1>3. QED
  BY <1>1, <1>2 DEF Without, KeyBytesOf

(* The texts are of seven bits a byte. *)
TextsAreAscii == \A w \in Names \cup Passwords : w \in Seq(1 .. 127)
Plain == \A f \in Fields : field[f] \in Seq(1 .. 127)

LEMMA FieldFrameIs ==
  ASSUME TypeInv, Plain, NEW f \in Fields, NEW z, z = FieldFrame(f)
  PROVE  /\ Len(z) = 7 + 2 * Words /\ z[1] = 90 /\ z[2] = 165 /\ z[3] = 4 + 2 * Words /\ z[4] = 131
         /\ z[5] = 5 /\ z[6] \in {129, 149} /\ z[7] = Words
         /\ \A q \in 8 .. 7 + 2 * Words : z[q] \in 1 .. 127 \/ z[q] = 255
<1> DEFINE head == <<\h5a, \ha5, 4 + 2 * Words, \h83, Hi(Addr(f)), Lo(Addr(f)), Words>>
<1>1. field \in Texts
  BY DEF TypeInv, ScreenTypes
<1>2. /\ z \in Seq(Byte) /\ Len(z) = 7 + 2 * Words
      /\ \A j \in 1 .. 2 * Words : z[7 + j] = Text(f)[j]
  BY <1>1, FieldBytes
<1>3. Hi(Addr(f)) = 5 /\ Lo(Addr(f)) \in {129, 149}
  BY DEF Hi, Lo, Addr
<1>4. \A j \in 1 .. 2 * Words : Text(f)[j] \in 1 .. 127 \/ Text(f)[j] = 255
  <2>1. \A j \in 1 .. 2 * Words : Text(f)[j] = IF j <= Len(field[f]) THEN field[f][j] ELSE 255
    BY <1>1, TextBytes
  <2> DEFINE T == 1 .. 127
  <2>2. field[f] \in Seq(T)
    BY DEF Plain
  <2> HIDE DEF T
  <2>3. Len(field[f]) \in Nat /\ \A j \in 1 .. Len(field[f]) : field[f][j] \in T
    BY <2>2, SeqFacts
  <2>4. ASSUME NEW j \in 1 .. 2 * Words PROVE Text(f)[j] \in T \/ Text(f)[j] = 255
    BY <2>1, <2>3, WordsAssumption
  <2>5. QED
    BY <2>4 DEF T
<1>5. \A q \in 8 .. 7 + 2 * Words : z[q] \in 1 .. 127 \/ z[q] = 255
  <2> TAKE q \in 8 .. 7 + 2 * Words
  <2> DEFINE j == q - 7
  <2>1. j \in 1 .. 2 * Words /\ 7 + j = q
    BY WordsAssumption
  <2> HIDE DEF j
  <2>2. z[q] = Text(f)[j]
    BY <1>2, <2>1
  <2>3. QED
    BY <1>4, <2>1, <2>2
<1>6. \A q \in 1 .. 7 : z[q] = head[q]
  <2>1. z = head \o Text(f)
    BY DEF FieldFrame
  <2>2. Len(head) = 7 /\ head \in Seq(Nat)
    BY <1>3, WordsAssumption
  <2>3. Text(f) \in Seq(Byte) /\ Byte \subseteq Nat
    BY <1>1, TextBytes DEF Byte
  <2>4. Text(f) \in Seq(Nat)
    BY <2>3, SeqMonotonic
  <2> HIDE DEF head
  <2> DEFINE t == Text(f)
  <2>a. head \in Seq(Nat) /\ t \in Seq(Nat)
    BY <2>2, <2>4
  <2> HIDE DEF t
  <2>b. \A q \in 1 .. Len(head) : (head \o t)[q] = head[q]
    BY <2>a
  <2>5. \A q \in 1 .. Len(head) : (head \o Text(f))[q] = head[q]
    BY <2>b DEF t
  <2>6. QED
    BY <2>1, <2>2, <2>5
<1>7. z[1] = 90 /\ z[2] = 165 /\ z[3] = 4 + 2 * Words /\ z[4] = 131 /\ z[5] = 5 /\ z[6] \in {129, 149} /\ z[7] = Words
  <2>1. /\ head[1] = 90 /\ head[2] = 165 /\ head[3] = 4 + 2 * Words /\ head[4] = 131
        /\ head[5] = 5 /\ head[6] \in {129, 149} /\ head[7] = Words
    BY <1>3
  <2> HIDE DEF head
  <2>2. QED
    BY <1>6, <2>1
<1>8. QED
  BY <1>2, <1>5, <1>7

LEMMA AnswerWithout ==
  ASSUME TypeInv, Plain, NEW f \in Fields, NEW d \in Nat \ {0}, NEW s, NEW l, Without(FieldFrame(f), d, s, l), d <= 8 + 2 * Words
  PROVE  AnswerBytes(s, l, IF d = 8 + 2 * Words THEN 10 ELSE 1)
<1> DEFINE z == FieldFrame(f)
<1>1. /\ Len(z) = 7 + 2 * Words /\ z[1] = 90 /\ z[2] = 165 /\ z[3] = 4 + 2 * Words /\ z[4] = 131
      /\ z[5] = 5 /\ z[6] \in {129, 149} /\ z[7] = Words
      /\ \A q \in 8 .. 7 + 2 * Words : z[q] \in 1 .. 127 \/ z[q] = 255
  BY FieldFrameIs
<1>2. z \in Seq(Byte)
  BY FieldBytes DEF TypeInv, ScreenTypes
<1>3. Words \in 1 .. 125
  BY WordsAssumption
<1>4. l = (IF d = Len(z) + 1 THEN Len(z) ELSE Len(z) - 1) /\ \A q \in 1 .. l : s[q] = z[IF q < d THEN q ELSE q + 1]
  BY DEF Without
<1>5. \A q \in 1 .. 7 + 2 * Words : z[q] \in Byte
  BY <1>1, <1>2
<1> HIDE DEF z
<1>6. l = (IF d = 8 + 2 * Words THEN 7 + 2 * Words ELSE 6 + 2 * Words) /\ l \in Nat /\ l >= 8
  BY <1>1, <1>3, <1>4
<1>7. \A q \in 1 .. l : (IF q < d THEN q ELSE q + 1) \in 1 .. 7 + 2 * Words
  BY <1>3, <1>6
<1>8. \A q \in 1 .. 7 + 2 * Words : (z[q] = 165 => q = 2) /\ (z[q] = 131 => q = 4)
  <2> TAKE q \in 1 .. 7 + 2 * Words
  <2>1. q \in {1, 2, 3, 4, 5, 6, 7} \/ q \in 8 .. 7 + 2 * Words
    BY <1>3
  <2>2. 4 + 2 * Words # 165 /\ 4 + 2 * Words # 131
    BY <1>3
  <2>3. CASE q \in {1, 2, 3, 4, 5, 6, 7}
    <3>1. z[6] # 165 /\ z[6] # 131 /\ z[7] # 165 /\ z[7] # 131 /\ z[3] # 165 /\ z[3] # 131
      BY <1>1, <1>3, <2>2
    <3>2. q = 1 \/ q = 2 \/ q = 3 \/ q = 4 \/ q = 5 \/ q = 6 \/ q = 7
      BY <2>3
    <3>3. z[1] = 90 /\ z[2] = 165 /\ z[4] = 131 /\ z[5] = 5
      BY <1>1
    <3>4. QED
      BY <3>1, <3>2, <3>3
  <2>4. CASE q \in 8 .. 7 + 2 * Words
    <3>1. z[q] \in 1 .. 127 \/ z[q] = 255
      BY <1>1, <2>4
    <3>2. z[q] # 165 /\ z[q] # 131
      BY <3>1
    <3>3. QED
      BY <3>2
  <2>5. QED
    BY <2>1, <2>3, <2>4
<1>9. s[1] \in {90, 165}
  <2>1. s[1] = z[1] \/ s[1] = z[2]
    BY <1>4, <1>6
  <2>2. QED
    BY <1>1, <2>1
<1>10. \A q \in 1 .. l : s[q] \in Byte
  BY <1>4, <1>5, <1>7
<1>11. ASSUME NEW q \in 1 .. l, s[q] = 165 PROVE q <= 2
  <2>1. (IF q < d THEN q ELSE q + 1) = 2
    BY <1>4, <1>7, <1>8, <1>11, SMTT(30)
  <2>2. QED
    BY <2>1
<1>12. ASSUME NEW q \in 1 .. l, s[q] = 131
       PROVE  /\ q \in {3, 4} /\ q + 4 <= l /\ (d = 8 + 2 * Words => q + 5 <= l)
              /\ s[q + 1] * 256 + s[q + 2] \notin Keys
  <2>1. (IF q < d THEN q ELSE q + 1) = 4
    BY <1>4, <1>7, <1>8, <1>12, SMTT(30)
  <2>2. (q = 4 /\ d > 4) \/ (q = 3 /\ d <= 3)
    BY <2>1
  <2>3. q + 1 \in 1 .. l /\ q + 2 \in 1 .. l /\ q + 4 <= l /\ (d = 8 + 2 * Words => q + 5 <= l)
    BY <1>3, <1>6, <2>2
  <2>4. /\ s[q + 1] \in {z[5], z[6]} /\ s[q + 2] \in {z[6], z[7]}
    <3>1. s[q + 1] = z[IF q + 1 < d THEN q + 1 ELSE q + 2] /\ s[q + 2] = z[IF q + 2 < d THEN q + 2 ELSE q + 3]
      BY <1>4, <2>3
    <3>2. QED
      BY <2>2, <3>1
  <2>5. s[q + 1] * 256 + s[q + 2] \notin Keys
    <3> DEFINE x == s[q + 1]
               y == s[q + 2]
    <3>1. x \in {5, 129, 149} /\ y \in 0 .. 149
      <4>1. z[5] = 5 /\ z[6] \in {129, 149} /\ z[7] \in 1 .. 125
        BY <1>1, <1>3
      <4>2. QED
        BY <2>4, <4>1
    <3> HIDE DEF x, y
    <3>2. x * 256 + y < 1449 \/ x * 256 + y > 1855
      BY <3>1
    <3>3. x * 256 + y \notin Keys
      <4>1. Keys = {1651, 1449, 1450, 1451, 1855}
        BY DEF Keys, XferSet, Gprs, Wifi, Ok, Return
      <4>2. QED
        BY <3>1, <3>2, <4>1
    <3>4. QED
      BY <3>3 DEF x, y
  <2>6. QED
    BY <2>2, <2>3, <2>5
<1>13. QED
  BY <1>6, <1>9, <1>10, <1>11, <1>12 DEF AnswerBytes

(***************************************************************************)
(* The frames on the line.  Of m frames f have been taken, and b bytes: b  *)
(* is where a mark stands, or within the next frame.                       *)
(***************************************************************************)
Ordered(m, w, f) ==
  \A j, k \in f .. m : j <= k => w[j].end <= w[k].end /\ w[j].keys <= w[k].keys

Framed(m, w, f) ==
  \A j \in f .. m - 1 :
    /\ Frame(w[j], w[j + 1])
    /\ w[j + 1].keys = w[j].keys + 1 => touched[w[j + 1].keys] = w[j + 1].key

OnLine(m, w, f, b) ==
  /\ w[m].end = b + Len(rx)
  /\ \A j \in f .. m - 1, q \in 1 .. w[m].end :
       q <= w[j + 1].end - w[j].end /\ w[j].end + q > b => rx[w[j].end + q - b] = w[j + 1].bytes[q]

Marked(m, w, f, b) ==
  /\ m \in Nat /\ b \in Nat /\ f \in 0 .. m
  /\ \A j \in 0 .. m : IsMark(w[j])
  /\ w[f].end <= b /\ (f < m => b < w[f + 1].end)
  /\ Ordered(m, w, f) /\ Framed(m, w, f) /\ OnLine(m, w, f, b)
  /\ w[m].keys = Len(touched)

(* The byte that comes is of the frame f + 1. *)
LEMMA NextByte ==
  ASSUME TypeInv, NEW m, NEW w, NEW f, NEW b, Marked(m, w, f, b), rx # <<>>
  PROVE  /\ f < m /\ f + 1 \in 0 .. m /\ IsMark(w[f]) /\ IsMark(w[f + 1]) /\ Frame(w[f], w[f + 1])
         /\ b - w[f].end \in 0 .. w[f + 1].end - w[f].end - 1
         /\ Head(rx) = w[f + 1].bytes[b - w[f].end + 1]
<1>1. /\ m \in Nat /\ b \in Nat /\ f \in 0 .. m /\ w[f].end <= b /\ (f < m => b < w[f + 1].end)
      /\ w[m].end = b + Len(rx)
  BY DEF Marked, OnLine
<1>2. rx[1] = Head(rx) /\ Len(rx) \in Nat \ {0}
  BY HeadTail DEF TypeInv, LineTypes
<1>3. f < m /\ f + 1 \in 0 .. m /\ f \in f .. m - 1
  <2>1. f # m
    BY <1>1, <1>2 DEF Marked, IsMark
  <2>2. QED
    BY <1>1, <2>1
<1>4. IsMark(w[f]) /\ IsMark(w[f + 1]) /\ IsMark(w[m]) /\ Frame(w[f], w[f + 1])
  BY <1>1, <1>3 DEF Marked, Framed
<1> DEFINE e == w[f].end
           g == w[f + 1].end
           o == b - e
<1>5. e \in Nat /\ g \in Nat /\ w[m].end \in Nat
  BY <1>4 DEF IsMark
<1>6. g <= w[m].end
  BY <1>1, <1>3 DEF Marked, Ordered
<1>7. \A q \in 1 .. w[m].end : q <= g - e /\ e + q > b => rx[e + q - b] = w[f + 1].bytes[q]
  BY <1>3 DEF Marked, OnLine
<1>8. e <= b /\ b < g
  BY <1>1, <1>3
<1> HIDE DEF e, g
<1>9. o \in 0 .. g - e - 1 /\ o + 1 \in 1 .. w[m].end /\ o + 1 <= g - e /\ e + (o + 1) > b /\ e + (o + 1) - b = 1
  BY <1>1, <1>5, <1>6, <1>8
<1>10. rx[1] = w[f + 1].bytes[o + 1]
  BY <1>7, <1>9
<1>11. QED
  BY <1>2, <1>3, <1>4, <1>9, <1>10 DEF e, g

LEMMA TakeByte ==
  ASSUME TypeInv, NEW m, NEW w, NEW f, NEW b, Marked(m, w, f, b), rx # <<>>, rx' = Tail(rx), touched' = touched,
         NEW g, g = IF b + 1 = w[f + 1].end THEN f + 1 ELSE f
  PROVE  Marked(m, w, g, b + 1)'
<1>1. /\ m \in Nat /\ b \in Nat /\ f \in 0 .. m /\ w[f].end <= b /\ (f < m => b < w[f + 1].end)
      /\ \A j \in 0 .. m : IsMark(w[j])
      /\ Ordered(m, w, f) /\ Framed(m, w, f) /\ OnLine(m, w, f, b)
      /\ w[m].end = b + Len(rx) /\ w[m].keys = Len(touched)
  BY DEF Marked, OnLine
<1>2. f < m /\ f + 1 \in 0 .. m
  BY NextByte
<1>3. g \in 0 .. m /\ \A j \in g .. m : j \in f .. m
  BY <1>1, <1>2
<1>4. \A j \in 0 .. m : w[j].end \in Nat
  BY <1>1 DEF IsMark
<1>5. w[g].end <= b + 1 /\ (g < m => b + 1 < w[g + 1].end)
  <2>1. CASE b + 1 = w[f + 1].end
    <3>1. g = f + 1
      BY <2>1
    <3>2. g < m => w[g + 1].end > b + 1
      <4> SUFFICES ASSUME g < m PROVE w[g + 1].end > b + 1
        OBVIOUS
      <4>1. g \in f .. m - 1 /\ g + 1 \in 0 .. m /\ g \in 0 .. m
        BY <1>1, <1>2, <3>1
      <4>2. Frame(w[g], w[g + 1]) /\ IsMark(w[g]) /\ IsMark(w[g + 1])
        BY <1>1, <4>1 DEF Framed
      <4>3. w[g + 1].end - w[g].end >= 8
        BY <4>2, FrameIs
      <4>4. w[g].end \in Nat /\ w[g + 1].end \in Nat /\ w[g].end = b + 1
        BY <1>4, <2>1, <3>1, <4>1
      <4>5. QED
        BY <4>3, <4>4
    <3>3. QED
      BY <1>1, <2>1, <3>1, <3>2
  <2>2. CASE b + 1 # w[f + 1].end
    <3>1. g = f
      BY <2>2
    <3>2. w[f].end \in Nat /\ w[f + 1].end \in Nat
      BY <1>1, <1>2, <1>4
    <3>3. QED
      BY <1>1, <1>2, <2>2, <3>1, <3>2, SMTT(30)
  <2>3. QED
    BY <2>1, <2>2
<1>6. Ordered(m, w, g)
  BY <1>1, <1>3 DEF Ordered
<1>7. Framed(m, w, g)'
  <2>1. \A j \in g .. m - 1 : j \in f .. m - 1
    BY <1>1, <1>2, <1>3
  <2>2. QED
    BY <1>1, <2>1 DEF Framed
<1>8. OnLine(m, w, g, b + 1)'
  <2>1. Len(rx) \in Nat \ {0} /\ Len(Tail(rx)) = Len(rx) - 1 /\ \A j \in 1 .. Len(rx) - 1 : Tail(rx)[j] = rx[j + 1]
    BY HeadTail DEF TypeInv, LineTypes
  <2>2. w[m].end = b + 1 + Len(rx')
    BY <1>1, <2>1
  <2>3. ASSUME NEW j \in g .. m - 1, NEW q \in 1 .. w[m].end, q <= w[j + 1].end - w[j].end, w[j].end + q > b + 1
        PROVE  rx'[w[j].end + q - (b + 1)] = w[j + 1].bytes[q]
    <3>1. j \in f .. m - 1 /\ j + 1 \in f .. m /\ j \in 0 .. m /\ j + 1 \in 0 .. m /\ m \in f .. m /\ j + 1 <= m
      <4>1. j \in g .. m /\ j + 1 \in g .. m /\ m \in Nat /\ f \in Nat
        BY <1>1, <1>3
      <4>2. j \in f .. m /\ j + 1 \in f .. m
        BY <1>3, <4>1
      <4>3. QED
        BY <1>2, <4>1, <4>2
    <3> DEFINE e == w[j].end
               z == w[j + 1].end
    <3>2. e \in Nat /\ z \in Nat /\ w[m].end \in Nat
      BY <1>1, <1>4, <3>1
    <3>3. z <= w[m].end
      BY <1>1, <3>1 DEF Ordered
    <3>4. e + q > b /\ q <= z - e => rx[e + q - b] = w[j + 1].bytes[q]
      BY <1>1, <3>1 DEF OnLine
    <3>5. q <= z - e /\ e + q > b + 1
      BY <2>3
    <3> HIDE DEF e, z
    <3> DEFINE r == e + q - (b + 1)
    <3>6. r \in 1 .. Len(rx) - 1 /\ r + 1 = e + q - b /\ e + q > b
      BY <1>1, <2>1, <3>2, <3>3, <3>5
    <3> HIDE DEF r
    <3>7. Tail(rx)[r] = rx[e + q - b]
      BY <2>1, <3>6
    <3>8. QED
      BY <3>4, <3>5, <3>6, <3>7 DEF r, e
  <2>4. QED
    BY <2>2, <2>3 DEF OnLine
<1>9. QED
  BY <1>1, <1>3, <1>5, <1>6, <1>7, <1>8 DEF Marked, Ordered

(* One more frame comes. *)
LEMMA FrameComes ==
  ASSUME TypeInv, NEW m, NEW w, NEW f, NEW b, Marked(m, w, f, b),
         NEW y, IsMark(y), Frame(w[m], y), Adds(y.bytes, y.end - w[m].end),
         IF y.keys = w[m].keys THEN touched' = touched ELSE touched' = Append(touched, y.key) /\ y.key \in Keys,
         NEW v, \A j \in 0 .. m + 1 : v[j] = IF j = m + 1 THEN y ELSE w[j]
  PROVE  Marked(m + 1, v, f, b)'
<1>1. /\ m \in Nat /\ b \in Nat /\ f \in 0 .. m /\ w[f].end <= b /\ (f < m => b < w[f + 1].end)
      /\ \A j \in 0 .. m : IsMark(w[j])
      /\ Ordered(m, w, f) /\ Framed(m, w, f) /\ OnLine(m, w, f, b)
      /\ w[m].end = b + Len(rx) /\ w[m].keys = Len(touched)
  BY DEF Marked, OnLine
<1>2. v[m + 1] = y /\ \A j \in 0 .. m : v[j] = w[j]
  BY <1>1
<1>3. \A j \in 0 .. m + 1 : IsMark(v[j])
  <2>1. \A j \in 0 .. m + 1 : j \in 0 .. m \/ j = m + 1
    BY <1>1
  <2>2. QED
    BY <1>1, <1>2, <2>1
<1> DEFINE l == y.end - w[m].end
<1>4. /\ IsMark(w[m]) /\ w[m].end \in Nat /\ w[m].keys \in Nat /\ y.end \in Nat /\ l \in Nat /\ l >= 8
      /\ y.keys \in {w[m].keys, w[m].keys + 1}
  <2>1. IsMark(w[m])
    BY <1>1
  <2>2. QED
    BY <2>1, FrameIs DEF IsMark
<1>5. /\ Len(rx) \in Nat /\ Len(rx') = Len(rx) + l
      /\ \A q \in 1 .. Len(rx) : rx'[q] = rx[q]
      /\ \A q \in 1 .. l : rx'[Len(rx) + q] = y.bytes[q]
  BY DEF Adds, TypeInv, LineTypes
<1>6. /\ Len(touched') = y.keys
      /\ \A q \in 1 .. Len(touched) : touched'[q] = touched[q]
      /\ y.keys = w[m].keys + 1 => touched'[y.keys] = y.key
  <2>1. touched \in Seq(Keys) /\ Len(touched) \in Nat
    BY DEF TypeInv, HistoryTypes
  <2>2. CASE y.keys = w[m].keys
    BY <1>1, <1>4, <2>1, <2>2
  <2>3. CASE y.keys # w[m].keys
    <3>1. touched' = Append(touched, y.key) /\ y.key \in Keys /\ y.keys = Len(touched) + 1
      BY <1>1, <1>4, <2>3
    <3>2. /\ Len(Append(touched, y.key)) = Len(touched) + 1
          /\ Append(touched, y.key)[Len(touched) + 1] = y.key
          /\ \A q \in 1 .. Len(touched) : Append(touched, y.key)[q] = touched[q]
      BY <2>1, <3>1, AppendFacts
    <3>3. QED
      BY <3>1, <3>2
  <2>4. QED
    BY <2>2, <2>3
<1>7. v[f].end <= b /\ (f < m + 1 => b < v[f + 1].end)
  <2>1. CASE f = m
    <3>1. b < y.end
      BY <1>1, <1>4, <1>5, SMTT(30)
    <3>2. QED
      BY <1>1, <1>2, <2>1, <3>1
  <2>2. CASE f < m
    <3>1. f + 1 \in 0 .. m
      BY <1>1, <2>2
    <3>2. QED
      BY <1>1, <1>2, <2>2, <3>1
  <2>3. QED
    BY <1>1, <2>1, <2>2
<1>8. Ordered(m + 1, v, f)
  <2> SUFFICES ASSUME NEW j \in f .. m + 1, NEW k \in f .. m + 1, j <= k
               PROVE  v[j].end <= v[k].end /\ v[j].keys <= v[k].keys
    BY DEF Ordered
  <2>1. CASE k \in f .. m
    <3>1. j \in f .. m /\ j \in 0 .. m /\ k \in 0 .. m
      BY <1>1, <2>1
    <3>2. QED
      BY <1>1, <1>2, <2>1, <3>1 DEF Ordered
  <2>2. CASE j = m + 1
    <3>1. k = m + 1
      BY <1>1, <2>2
    <3>2. QED
      BY <1>2, <1>3, <1>1, <2>2, <3>1 DEF IsMark
  <2>3. CASE j \in f .. m /\ k = m + 1
    <3>1. j \in 0 .. m /\ m \in f .. m /\ j <= m
      BY <1>1, <2>3
    <3>2. v[j] = w[j] /\ v[k] = y /\ w[j].end <= w[m].end /\ w[j].keys <= w[m].keys /\ IsMark(w[j])
      BY <1>1, <1>2, <2>3, <3>1 DEF Ordered
    <3>3. w[j].end \in Nat /\ w[j].keys \in Nat /\ y.keys \in Nat
      BY <3>2 DEF IsMark
    <3> DEFINE e == w[j].end
               z == w[m].end
               a == y.end
    <3>4. e \in Nat /\ z \in Nat /\ a \in Nat /\ a - z \in Nat /\ e <= z
      BY <1>4, <3>2, <3>3
    <3>5. e <= a
      <4> HIDE DEF e, z, a
      <4>1. QED
        BY <3>4
    <3>6. w[j].keys <= y.keys
      <4> DEFINE p == w[j].keys
                 q == w[m].keys
                 u == y.keys
      <4>1. p \in Nat /\ q \in Nat /\ u \in {q, q + 1} /\ p <= q
        BY <1>4, <3>2, <3>3
      <4> HIDE DEF p, q, u
      <4>2. p <= u
        BY <4>1
      <4>3. QED
        BY <4>2 DEF p, u
    <3>7. QED
      BY <3>2, <3>5, <3>6, Zenon
  <2>4. QED
    <3>0. m \in Nat /\ f \in Nat
      BY <1>1
    <3>1. (j \in f .. m \/ j = m + 1) /\ (k \in f .. m \/ k = m + 1)
      BY <3>0
    <3>2. QED
      BY <2>1, <2>2, <2>3, <3>1
<1>9. Framed(m + 1, v, f)'
  <2> SUFFICES ASSUME NEW j \in f .. m
               PROVE  /\ Frame(v[j], v[j + 1])
                      /\ v[j + 1].keys = v[j].keys + 1 => touched'[v[j + 1].keys] = v[j + 1].key
    <3>1. (m + 1) - 1 = m
      BY <1>1
    <3>2. QED
      BY <3>1 DEF Framed
  <2>1. CASE j = m
    <3>1. m \in 0 .. m /\ j + 1 = m + 1
      BY <1>1, <2>1
    <3>2. v[j] = w[m] /\ v[j + 1] = y
      BY <1>2, <2>1, <3>1
    <3>3. QED
      BY <1>6, <3>2, Zenon
  <2>2. CASE j \in f .. m - 1
    <3>1. j \in 0 .. m /\ j + 1 \in 0 .. m /\ j + 1 \in f .. m /\ m \in f .. m /\ j + 1 <= m
      BY <1>1, <2>2
    <3>2. v[j] = w[j] /\ v[j + 1] = w[j + 1]
      BY <1>2, <3>1
    <3>3. Frame(w[j], w[j + 1]) /\ (w[j + 1].keys = w[j].keys + 1 => touched[w[j + 1].keys] = w[j + 1].key)
      BY <1>1, <2>2 DEF Framed
    <3>4. w[j + 1].keys <= Len(touched) /\ w[j].keys \in Nat /\ w[j + 1].keys \in Nat
      BY <1>1, <3>1 DEF Ordered, IsMark
    <3>5. w[j + 1].keys = w[j].keys + 1 => w[j + 1].keys \in 1 .. Len(touched)
      BY <1>1, <1>4, <3>4
    <3>6. QED
      BY <1>6, <3>2, <3>3, <3>5
  <2>3. QED
    BY <1>1, <2>1, <2>2
<1>10. OnLine(m + 1, v, f, b)'
  <2>1. v[m + 1].end = b + Len(rx')
    <3> DEFINE z == w[m].end
               a == y.end
               n0 == Len(rx)
    <3>1. z \in Nat /\ a \in Nat /\ b \in Nat /\ n0 \in Nat /\ z = b + n0 /\ Len(rx') = n0 + (a - z)
      BY <1>1, <1>4, <1>5
    <3> HIDE DEF z, a, n0
    <3>2. a = b + Len(rx')
      BY <3>1
    <3>3. QED
      BY <1>2, <3>2 DEF a
  <2>2. ASSUME NEW j \in f .. m, NEW q \in 1 .. y.end, q <= v[j + 1].end - v[j].end, v[j].end + q > b
        PROVE  rx'[v[j].end + q - b] = v[j + 1].bytes[q]
    <3>1. CASE j = m
      <4>1. v[j] = w[m] /\ v[j + 1] = y /\ q \in 1 .. l
        BY <1>1, <1>2, <1>4, <2>2, <3>1, SMTT(30)
      <4>2. w[m].end + q - b = Len(rx) + q
        BY <1>1, <1>5
      <4>3. QED
        BY <1>5, <4>1, <4>2
    <3>2. CASE j \in f .. m - 1
      <4>1. j \in 0 .. m /\ j + 1 \in 0 .. m /\ j + 1 \in f .. m /\ m \in f .. m /\ j + 1 <= m
        BY <1>1, <3>2
      <4>2. v[j] = w[j] /\ v[j + 1] = w[j + 1]
        BY <1>2, <4>1
      <4> DEFINE e == w[j].end
                 z == w[j + 1].end
      <4>3. e \in Nat /\ z \in Nat /\ z <= w[m].end
        BY <1>1, <4>1 DEF Ordered, IsMark
      <4>4. q <= z - e /\ e + q > b
        BY <2>2, <4>2
      <4>5. \A p \in 1 .. w[m].end : p <= z - e /\ e + p > b => rx[e + p - b] = w[j + 1].bytes[p]
        BY <1>1, <3>2 DEF OnLine
      <4> HIDE DEF e, z
      <4>6. q \in 1 .. w[m].end /\ e + q - b \in 1 .. Len(rx)
        <5> DEFINE c == w[m].end
                   a == y.end
                   n0 == Len(rx)
        <5>1. /\ c \in Nat /\ a \in Nat /\ b \in Nat /\ n0 \in Nat /\ c = b + n0 /\ e \in Nat /\ z \in Nat /\ z <= c
              /\ q \in 1 .. a /\ q <= z - e /\ e + q > b
          BY <1>1, <1>4, <1>5, <4>3, <4>4
        <5> HIDE DEF c, a, n0
        <5>2. q \in 1 .. c /\ e + q - b \in 1 .. n0
          BY <5>1, SMTT(30)
        <5>3. QED
          BY <5>2 DEF c, n0
      <4>7. rx'[e + q - b] = w[j + 1].bytes[q]
        BY <1>5, <4>4, <4>5, <4>6
      <4>8. QED
        BY <4>2, <4>7 DEF e
    <3>3. QED
      BY <1>1, <3>1, <3>2
  <2>3. QED
    <3>1. (m + 1) - 1 = m /\ v[m + 1].end = y.end
      BY <1>1, <1>2
    <3>2. QED
      BY <2>1, <2>2, <3>1 DEF OnLine
<1>11. QED
  <2>1. m + 1 \in Nat /\ f \in 0 .. m + 1
    BY <1>1
  <2>2. v[m + 1].keys = Len(touched')
    BY <1>2, <1>6
  <2>3. QED
    BY <1>1, <1>3, <1>7, <1>8, <1>9, <1>10, <2>1, <2>2 DEF Marked, Ordered

(* Of the keys on the line, all may be lost from now on. *)
Given(m, w, f) == \A j \in f .. m - 1 : w[j + 1].cost >= w[j].cost + (w[j + 1].keys - w[j].keys)

LEMMA KeysGiven ==
  ASSUME NEW m, NEW w, NEW f, NEW b, Marked(m, w, f, b)', NEW v,
         \A j \in 0 .. m : /\ v[j].end = w[j].end /\ v[j].keys = w[j].keys /\ v[j].key = w[j].key
                           /\ v[j].lost = w[j].lost /\ v[j].bytes = w[j].bytes
                           /\ v[j].cost = w[j].cost + (IF j < f THEN 0 ELSE w[j].keys - w[f].keys)
  PROVE  Marked(m, v, f, b)' /\ Given(m, v, f)
<1>1. /\ m \in Nat /\ b \in Nat /\ f \in 0 .. m /\ w[f].end <= b /\ (f < m => b < w[f + 1].end)
      /\ \A j \in 0 .. m : IsMark(w[j])
      /\ Ordered(m, w, f) /\ Framed(m, w, f)' /\ OnLine(m, w, f, b)' /\ w[m].keys = Len(touched')
  BY DEF Marked, Ordered
<1>2. \A j \in f .. m : j \in 0 .. m /\ w[f].keys <= w[j].keys
  <2>1. \A j \in f .. m : j \in 0 .. m /\ f \in f .. m /\ f <= j
    BY <1>1
  <2>2. QED
    BY <1>1, <2>1 DEF Ordered
<1>3. \A j \in 0 .. m : IsMark(v[j])
  <2> TAKE j \in 0 .. m
  <2>1. IsMark(w[j]) /\ IsMark(w[f])
    BY <1>1
  <2>2. j < f \/ w[f].keys <= w[j].keys
    BY <1>1, <1>2
  <2> DEFINE a == w[j].keys
             z == w[f].keys
             u == w[j].cost
  <2>3. a \in Nat /\ z \in Nat /\ u \in Nat /\ (j < f \/ z <= a)
    BY <2>1, <2>2 DEF IsMark
  <2>4. v[j].cost = u + (IF j < f THEN 0 ELSE a - z)
    OBVIOUS
  <2>5. v[j].cost \in Nat
    <3> HIDE DEF a, z, u
    <3>1. QED
      BY <2>3, <2>4
  <2>6. QED
    BY <2>1, <2>5 DEF IsMark
<1>4. ASSUME NEW j \in f .. m - 1
      PROVE  Frame(v[j], v[j + 1]) /\ v[j + 1].cost >= v[j].cost + (v[j + 1].keys - v[j].keys)
  <2>1. j \in f .. m /\ j + 1 \in f .. m /\ j \in 0 .. m /\ j + 1 \in 0 .. m /\ ~(j < f) /\ ~(j + 1 < f)
    BY <1>1
  <2>2. IsMark(w[j]) /\ IsMark(w[j + 1]) /\ IsMark(w[f]) /\ Frame(w[j], w[j + 1])
    BY <1>1, <2>1 DEF Framed
  <2> DEFINE x == w[j]
             y == w[j + 1]
             p == v[j]
             q == v[j + 1]
             z == w[f].keys
  <2>3. /\ p.end = x.end /\ p.keys = x.keys /\ p.cost = x.cost + (x.keys - z)
        /\ q.end = y.end /\ q.keys = y.keys /\ q.cost = y.cost + (y.keys - z)
        /\ q.key = y.key /\ q.lost = y.lost /\ q.bytes = y.bytes
    BY <2>1
  <2>4. /\ x.cost \in Nat /\ y.cost \in Nat /\ x.keys \in Nat /\ y.keys \in Nat /\ z \in Nat
        /\ y.cost >= x.cost /\ (y.lost # 10 => y.cost >= x.cost + 1 + (y.keys - x.keys))
        /\ y.keys \in {x.keys, x.keys + 1}
    BY <2>2, FrameIs DEF IsMark
  <2> HIDE DEF x, y, p, q, z
  <2>5. q.cost >= p.cost + (q.keys - p.keys) /\ q.cost >= p.cost + IF q.lost = 10 THEN 0 ELSE 1 + q.keys - p.keys
    <3> DEFINE a == x.keys
               c == y.keys
               u == x.cost
               t == y.cost
    <3>1. /\ {a, c, u, t, z} \subseteq Nat /\ t >= u /\ (y.lost # 10 => t >= u + 1 + (c - a)) /\ c \in {a, a + 1}
      BY <2>4
    <3> HIDE DEF a, c, u, t
    <3>2. t + (c - z) >= u + (a - z) + (c - a) /\ t + (c - z) >= u + (a - z) + IF y.lost = 10 THEN 0 ELSE 1 + c - a
      BY <3>1
    <3>3. QED
      BY <2>3, <3>2 DEF a, c, u, t
  <2>6. Frame(p, q)
    <3>1. Frame(x, y)
      BY <2>2 DEF x, y
    <3>2. QED
      BY <2>3, <2>5, <3>1 DEF Frame
  <2>7. QED
    BY <2>5, <2>6 DEF p, q
<1>5. Framed(m, v, f)'
  <2> SUFFICES ASSUME NEW j \in f .. m - 1
               PROVE  /\ Frame(v[j], v[j + 1])
                      /\ v[j + 1].keys = v[j].keys + 1 => touched'[v[j + 1].keys] = v[j + 1].key
    BY DEF Framed
  <2>1. j \in 0 .. m /\ j + 1 \in 0 .. m
    BY <1>1
  <2>2. w[j + 1].keys = w[j].keys + 1 => touched'[w[j + 1].keys] = w[j + 1].key
    BY <1>1 DEF Framed
  <2>3. QED
    BY <1>4, <2>1, <2>2
<1>6. OnLine(m, v, f, b)'
  <2>1. m \in 0 .. m /\ v[m].end = w[m].end
    BY <1>1
  <2>2. ASSUME NEW j \in f .. m - 1
        PROVE  v[j].end = w[j].end /\ v[j + 1].end = w[j + 1].end /\ v[j + 1].bytes = w[j + 1].bytes
    <3>1. j \in 0 .. m /\ j + 1 \in 0 .. m
      BY <1>1
    <3>2. QED
      BY <3>1
  <2>3. w[m].end = b + Len(rx')
    BY <1>1 DEF OnLine
  <2>4. ASSUME NEW j \in f .. m - 1, NEW q \in 1 .. v[m].end, q <= v[j + 1].end - v[j].end, v[j].end + q > b
        PROVE  rx'[v[j].end + q - b] = v[j + 1].bytes[q]
    <3>1. v[j].end = w[j].end /\ v[j + 1].end = w[j + 1].end /\ v[j + 1].bytes = w[j + 1].bytes
      BY <2>2
    <3>2. q \in 1 .. w[m].end /\ q <= w[j + 1].end - w[j].end /\ w[j].end + q > b
      BY <2>1, <2>4, <3>1
    <3>3. rx'[w[j].end + q - b] = w[j + 1].bytes[q]
      BY <1>1, <3>2 DEF OnLine
    <3>4. QED
      BY <3>1, <3>3
  <2>5. QED
    BY <2>1, <2>3, <2>4 DEF OnLine
<1>7. v[f].end <= b /\ (f < m => b < v[f + 1].end) /\ v[m].keys = Len(touched')
  <2>1. f \in 0 .. m /\ m \in 0 .. m /\ (f < m => f + 1 \in 0 .. m)
    BY <1>1
  <2>2. QED
    BY <1>1, <2>1
<1>8. Ordered(m, v, f)
  BY <1>1, <1>2 DEF Ordered
<1>9. QED
  BY <1>1, <1>3, <1>4, <1>5, <1>6, <1>7, <1>8 DEF Marked, Given, Ordered

(* A byte that is read for an answer is not seen by the parser. *)
LEMMA ByteRead ==
  ASSUME NEW x, NEW y, IsMark(x), IsMark(y), Frame(x, y), y.cost >= x.cost + (y.keys - x.keys), heard \in Seq(Keys),
         NEW o \in 0 .. y.end - x.end - 1, IF o = 0 THEN Ready(x) ELSE Within(x, y, o),
         get = 0, i = 6, UNCHANGED <<get, i, key, heard>>
  PROVE  /\ o + 1 < y.end - x.end => Within(x, y, o + 1)'
         /\ o + 1 = y.end - x.end => Ready(y)'
<1> DEFINE l == y.end - x.end
<1>1. l \in Nat /\ \A q \in 1 .. l : y.bytes[q] = 165 => q <= 2
  BY FrameIs
<1>2. Enough(y, 0)'
  <2>1. Enough(x, 0) \/ Enough(y, 0)
    BY DEF Ready, Within, Off
  <2>2. Enough(x, 0) => Enough(y, 0)
    <3> DEFINE a == x.keys
               c == y.keys
               u == x.cost
               t == y.cost
               h == Len(heard)
    <3>1. /\ {a, c, u, t, h} \subseteq Nat /\ t >= u + (c - a)
          /\ Enough(x, 0) <=> a + 0 <= h + u
          /\ Enough(y, 0) <=> c + 0 <= h + t
      BY DEF IsMark, Enough
    <3> HIDE DEF a, c, u, t, h
    <3>2. QED
      BY <3>1
  <2>3. Enough(y, 0)' <=> Enough(y, 0)
    BY DEF Enough
  <2>4. QED
    BY <2>1, <2>2, <2>3
<1> HIDE DEF l
<1>3. Clear' /\ Deaf(y.bytes, l, o + 1)'
  <2>1. get' = 0 /\ i' = 6
    OBVIOUS
  <2>2. o \in 0 .. l - 1
    BY DEF l
  <2>3. \A q \in (o + 1) + 1 .. l : y.bytes[q] = 165 => get' = 0 /\ q = (o + 1) + 1
    BY <1>1, <2>1, <2>2
  <2>4. QED
    BY <2>1, <2>3 DEF Clear, Deaf, Idle
<1>4. QED
  BY <1>2, <1>3 DEF Within, Ready, l

(***************************************************************************)
(* The invariant.  Where the parser is in the frames on the line, what the *)
(* frames may have cost, and which of the keys touched were heard.         *)
(***************************************************************************)
HeardAs(at, h) ==
  /\ Len(heard) <= h /\ at \in [1 .. Len(heard) -> 1 .. h]
  /\ \A j \in 1 .. Len(heard) : heard[j] = touched[at[j]] /\ \A k \in 1 .. j - 1 : at[k] < at[j]

Position(m, w, f, b) ==
  IF b = w[f].end THEN Ready(w[f]) ELSE Within(w[f], w[f + 1], b - w[f].end)

(* Since the program started no byte was stored: no answer is to come. *)
KeysOnly(m, w, f) == asked = <<>> /\ pc = "loop" /\ \A j \in f .. m - 1 : w[j + 1].keys # w[j].keys

Parsing(m, w, f, b) ==
  /\ Position(m, w, f, b)
  /\ w[m].cost <= 2 * (faults + amid)
  /\ InRead => Given(m, w, f)
  /\ get = 4 \/ i >= 6 \/ KeysOnly(m, w, f)
  /\ \E at : HeardAs(at, w[f].keys)

StreamInv ==
  /\ amid \in Nat /\ (pc # "loop" => get = 0 /\ i = 6)
  /\ \E m, w, f, b : Marked(m, w, f, b) /\ Parsing(m, w, f, b)

Started ==
  /\ rx = <<>> /\ asked = <<>> /\ touched = <<>> /\ heard = <<>> /\ get = 0 /\ i = 1 /\ pc = "loop"
  /\ amid = 0 /\ faults \in Nat

LEMMA StreamStarts == Started => StreamInv
<1> SUFFICES ASSUME Started PROVE StreamInv
  OBVIOUS
<1> DEFINE x == [end |-> 0, keys |-> 0, cost |-> 0]
           w == [j \in {0} |-> x]
<1>1. w[0] = x /\ x.end = 0 /\ x.keys = 0 /\ x.cost = 0 /\ \A j \in 0 .. 0 : j = 0
  OBVIOUS
<1> HIDE DEF x, w
<1>2. Len(rx) = 0 /\ Len(touched) = 0 /\ Len(heard) = 0
  BY DEF Started
<1>3. Marked(0, w, 0, 0)
  <2>1. Ordered(0, w, 0)
    BY <1>1 DEF Ordered
  <2>2. Framed(0, w, 0) /\ OnLine(0, w, 0, 0)
    <3>1. \A j \in 0 .. 0 - 1 : FALSE
      OBVIOUS
    <3>2. QED
      BY <1>1, <1>2, <3>1 DEF Framed, OnLine
  <2>3. \A j \in 0 .. 0 : IsMark(w[j])
    BY <1>1 DEF IsMark
  <2>4. QED
    BY <1>1, <1>2, <2>1, <2>2, <2>3 DEF Marked
<1>4. Parsing(0, w, 0, 0)
  <2>1. Position(0, w, 0, 0)
    <3>1. Clear /\ Enough(w[0], 0)
      BY <1>1, <1>2 DEF Started, Clear, Idle, Enough
    <3>2. QED
      BY <1>1, <3>1 DEF Position, Ready
  <2>2. w[0].cost <= 2 * (faults + amid)
    BY <1>1 DEF Started
  <2>3. ~InRead /\ KeysOnly(0, w, 0)
    BY DEF Started, InRead, KeysOnly
  <2>4. HeardAs([j \in 1 .. 0 |-> 0], w[0].keys)
    BY <1>1, <1>2 DEF HeardAs
  <2>5. QED
    BY <2>1, <2>2, <2>3, <2>4 DEF Parsing
<1>5. QED
  BY <1>3, <1>4 DEF StreamInv, Started

(* Other steps. *)
LEMMA StreamKept ==
  ASSUME StreamInv, UNCHANGED <<rx, asked, touched, heard, get, i, key, faults, amid>>,
         pc' # "loop" => pc # "loop", InRead' => InRead, pc = "loop" => pc' = "loop"
  PROVE  StreamInv'
<1>1. PICK m, w, f, b : Marked(m, w, f, b) /\ Parsing(m, w, f, b)
  BY DEF StreamInv
<1>2. Marked(m, w, f, b)'
  <2>1. Framed(m, w, f)' <=> Framed(m, w, f)
    BY DEF Framed
  <2>2. OnLine(m, w, f, b)' <=> OnLine(m, w, f, b)
    BY DEF OnLine
  <2>3. QED
    BY <1>1, <2>1, <2>2 DEF Marked, Ordered
<1>3. Parsing(m, w, f, b)'
  <2>1. Position(m, w, f, b)' <=> Position(m, w, f, b)
    BY DEF Position, Ready, Within, Clear, Off, Idle, Enough, InKey, InAnswer, Deaf, Follow, Collect
  <2>2. (get' = 4 \/ i' >= 6 \/ KeysOnly(m, w, f)')
    BY <1>1 DEF Parsing, KeysOnly
  <2>3. ASSUME NEW at PROVE HeardAs(at, w[f].keys)' <=> HeardAs(at, w[f].keys)
    BY DEF HeardAs
  <2>4. QED
    BY <1>1, <2>1, <2>2, <2>3 DEF Parsing, Given
<1>4. QED
  BY <1>2, <1>3 DEF StreamInv

(* The display sends a frame. *)
LEMMA StreamGrows ==
  ASSUME TypeInv, NEW m, NEW w, NEW f, NEW b, Marked(m, w, f, b), Parsing(m, w, f, b),
         NEW y, IsMark(y), Frame(w[m], y), Adds(y.bytes, y.end - w[m].end),
         IF y.keys = w[m].keys THEN touched' = touched ELSE touched' = Append(touched, y.key) /\ y.key \in Keys,
         UNCHANGED <<get, i, key, heard, pc>>,
         y.cost <= 2 * (faults' + amid'), InRead => y.cost >= w[m].cost + (y.keys - w[m].keys),
         get = 4 \/ i >= 6 \/ (asked' = asked /\ y.keys # w[m].keys)
  PROVE  \E v : Marked(m + 1, v, f, b)' /\ Parsing(m + 1, v, f, b)'
<1> DEFINE v == [j \in 0 .. m + 1 |-> IF j = m + 1 THEN y ELSE w[j]]
<1>1. \A j \in 0 .. m + 1 : v[j] = IF j = m + 1 THEN y ELSE w[j]
  OBVIOUS
<1> HIDE DEF v
<1>2. Marked(m + 1, v, f, b)'
  BY <1>1, FrameComes
<1>3. /\ m \in Nat /\ b \in Nat /\ f \in 0 .. m /\ w[f].end <= b
      /\ \A j \in 0 .. m : IsMark(w[j])
      /\ Ordered(m, w, f) /\ w[m].end = b + Len(rx) /\ w[m].keys = Len(touched)
  BY DEF Marked, OnLine
<1>4. v[m + 1] = y /\ \A j \in 0 .. m : v[j] = w[j]
  <2>1. m \in Nat
    BY <1>3
  <2>2. m + 1 \in 0 .. m + 1 /\ \A j \in 0 .. m : j \in 0 .. m + 1 /\ j # m + 1
    BY <2>1
  <2>3. QED
    BY <1>1, <2>2
<1>5. Position(m + 1, v, f, b)'
  <2>1. v[f] = w[f] /\ IsMark(w[f]) /\ IsMark(w[m])
    BY <1>3, <1>4
  <2>2. b # w[f].end => v[f + 1] = w[f + 1]
    <3> SUFFICES ASSUME f = m PROVE b = w[f].end
      BY <1>3, <1>4
    <3>1. w[f].end \in Nat /\ Len(rx) \in Nat /\ w[f].end = b + Len(rx)
      BY <1>3, <2>1 DEF IsMark, TypeInv, LineTypes
    <3>2. QED
      BY <1>3, <3>1
  <2>3. Position(m, w, f, b)
    BY DEF Parsing
  <2>4. Ready(w[f])' <=> Ready(w[f])
    BY DEF Ready, Clear, Off, Idle, Enough
  <2>5. Within(w[f], w[f + 1], b - w[f].end)' <=> Within(w[f], w[f + 1], b - w[f].end)
    BY DEF Within, Clear, Idle, Enough, InKey, InAnswer, Deaf, Follow, Collect
  <2>6. QED
    BY <2>1, <2>2, <2>3, <2>4, <2>5 DEF Position
<1>6. InRead' => Given(m + 1, v, f)
  <2> SUFFICES ASSUME InRead, NEW j \in f .. m
               PROVE  v[j + 1].cost >= v[j].cost + (v[j + 1].keys - v[j].keys)
    <3>1. (m + 1) - 1 = m
      BY <1>3
    <3>2. QED
      BY <3>1 DEF Given, InRead
  <2>1. CASE j = m
    <3>1. m \in 0 .. m /\ j + 1 = m + 1
      BY <1>3, <2>1
    <3>2. v[j] = w[m] /\ v[j + 1] = y
      BY <1>4, <2>1, <3>1
    <3>3. QED
      BY <3>2
  <2>2. CASE j \in f .. m - 1
    <3>1. j \in 0 .. m /\ j + 1 \in 0 .. m
      BY <1>3, <2>2
    <3>2. QED
      BY <1>4, <2>2, <3>1 DEF Parsing, Given
  <2>3. QED
    BY <1>3, <2>1, <2>2
<1>7. get' = 4 \/ i' >= 6 \/ KeysOnly(m + 1, v, f)'
  <2> SUFFICES ASSUME ~(get = 4 \/ i >= 6) PROVE KeysOnly(m + 1, v, f)'
    OBVIOUS
  <2>1. KeysOnly(m, w, f) /\ asked' = asked /\ y.keys # w[m].keys
    BY DEF Parsing
  <2>2. ASSUME NEW j \in f .. m PROVE v[j + 1].keys # v[j].keys
    <3>1. CASE j = m
      <4>1. m \in 0 .. m /\ j + 1 = m + 1
        BY <1>3, <3>1
      <4>2. v[j] = w[m] /\ v[j + 1] = y
        BY <1>4, <3>1, <4>1
      <4>3. QED
        BY <2>1, <4>2
    <3>2. CASE j \in f .. m - 1
      <4>1. j \in 0 .. m /\ j + 1 \in 0 .. m
        BY <1>3, <3>2
      <4>2. QED
        BY <1>4, <2>1, <3>2, <4>1 DEF KeysOnly
    <3>3. QED
      BY <1>3, <3>1, <3>2
  <2>3. (m + 1) - 1 = m
    BY <1>3
  <2>4. QED
    BY <2>1, <2>2, <2>3 DEF KeysOnly
<1>8. \E at : HeardAs(at, v[f].keys)'
  <2>1. PICK at : HeardAs(at, w[f].keys)
    BY DEF Parsing
  <2>2. v[f] = w[f] /\ w[f].keys \in Nat /\ w[f].keys <= Len(touched)
    <3>1. f \in 0 .. m /\ m \in f .. m /\ f \in f .. m /\ f <= m
      BY <1>3
    <3>2. QED
      BY <1>3, <1>4, <3>1 DEF Ordered, IsMark
  <2>3. touched \in Seq(Keys) /\ Len(touched) \in Nat
    BY DEF TypeInv, HistoryTypes
  <2>4. \A q \in 1 .. Len(touched) : touched'[q] = touched[q]
    <3>1. CASE touched' = touched
      BY <3>1
    <3>2. CASE touched' = Append(touched, y.key) /\ y.key \in Keys
      BY <2>3, <3>2, AppendFacts
    <3>3. QED
      BY <3>1, <3>2
  <2>5. HeardAs(at, w[f].keys)'
    <3>1. \A j \in 1 .. Len(heard) : touched'[at[j]] = touched[at[j]]
      <4>1. \A j \in 1 .. Len(heard) : at[j] \in 1 .. w[f].keys
        BY <2>1 DEF HeardAs
      <4>2. QED
        BY <2>2, <2>3, <2>4, <4>1, SMTT(30)
    <3>2. QED
      BY <2>1, <3>1 DEF HeardAs
  <2>6. QED
    BY <2>2, <2>5
<1>9. v[m + 1].cost <= 2 * (faults' + amid')
  BY <1>4
<1>10. QED
  BY <1>2, <1>5, <1>6, <1>7, <1>8, <1>9 DEF Parsing

LEMMA StreamTouch ==
  ASSUME TypeInv, StreamInv, NEW k \in Keys, Touch(k)
  PROVE  StreamInv'
<1>1. PICK m, w, f, b : Marked(m, w, f, b) /\ Parsing(m, w, f, b)
  BY DEF StreamInv
<1>2. /\ Emit(KeyFrame(k)) /\ touched' = Append(touched, k)
      /\ amid' = (IF InRead \/ asked # <<>> THEN amid + 1 ELSE amid)
      /\ UNCHANGED <<asked, parser, pc, heard>>
  BY DEF Touch
<1>3. amid \in Nat /\ amid' \in {amid, amid + 1} /\ (InRead => amid' = amid + 1) /\ faults \in Nat
  BY <1>2, BoundsAssumption DEF StreamInv, TypeInv, HistoryTypes
<1>a. PICK a \in {0, 1} : (InRead => a = 1) /\ amid' = amid + a
  <2>1. CASE InRead \/ asked # <<>>
    BY <1>2, <2>1
  <2>2. CASE ~(InRead \/ asked # <<>>)
    <3>1. amid' = amid + 0 /\ ~InRead
      BY <1>2, <1>3, <2>2
    <3>2. QED
      BY <3>1, Zenon
  <2>3. QED
    BY <2>1, <2>2
<1>4. PICK d, s, l :
           d \in 1 .. 10 /\ KeyBytesOf(s, l, k, d) /\ Adds(s, l) /\ faults' = faults + (IF d = 10 THEN 0 ELSE 1)
  <2>1. KeyFrame(k) \in Seq(Byte) /\ rx \in Seq(Byte) /\ Len(KeyFrame(k)) + 1 = 10
    <3>1. KeyFrame(k) \in Seq(Byte)
      BY KeyBytes
    <3>2. Len(KeyFrame(k)) = 9
      BY KeyFrameIs
    <3>3. rx \in Seq(Byte)
      BY DEF TypeInv, LineTypes
    <3>4. QED
      BY <3>1, <3>2, <3>3
  <2>2. PICK d, s, l :
           d \in 1 .. Len(KeyFrame(k)) + 1 /\ Without(KeyFrame(k), d, s, l) /\ Adds(s, l)
           /\ faults' = faults + (IF d = Len(KeyFrame(k)) + 1 THEN 0 ELSE 1)
    BY <1>2, <1>3, <2>1, EmittedBytes
  <2>3. KeyBytesOf(s, l, k, d)
    BY <2>2, KeyWithout
  <2>4. QED
    BY <2>1, <2>2, <2>3
<1>5. IsMark(w[m]) /\ w[m].keys = Len(touched) /\ w[m].cost <= 2 * (faults + amid) /\ m \in Nat
  BY <1>1 DEF Marked, Parsing
<1> DEFINE more == IF d = 10 THEN a ELSE 2
           y == [end |-> w[m].end + l, keys |-> w[m].keys + 1, cost |-> w[m].cost + more,
                 key |-> k, lost |-> d, bytes |-> s]
<1>6. /\ y.end = w[m].end + l /\ y.keys = w[m].keys + 1 /\ y.cost = w[m].cost + more
      /\ y.key = k /\ y.lost = d /\ y.bytes = s
  OBVIOUS
<1>7. l \in Nat /\ more \in {0, 1, 2} /\ (d # 10 => more = 2) /\ (d = 10 => more = a) /\ (InRead => more >= 1)
  <2>1. l \in Nat
    BY <1>4 DEF KeyBytesOf
  <2>2. CASE d = 10
    BY <1>a, <2>1, <2>2
  <2>3. CASE d # 10
    BY <2>1, <2>3
  <2>4. QED
    BY <2>2, <2>3
<1> HIDE DEF y, more
<1>8. w[m].end \in Nat /\ w[m].keys \in Nat /\ w[m].cost \in Nat
  BY <1>5 DEF IsMark
<1>9. IsMark(y) /\ y.end - w[m].end = l
  BY <1>6, <1>7, <1>8 DEF IsMark
<1>10. Frame(w[m], y)
  <2>1. y.cost >= w[m].cost + IF y.lost = 10 THEN 0 ELSE 1 + y.keys - w[m].keys
    BY <1>6, <1>7, <1>8
  <2>2. QED
    BY <1>4, <1>6, <1>9, <2>1 DEF Frame
<1>11. y.cost <= 2 * (faults' + amid')
  <2> DEFINE u == w[m].cost
             c == y.cost
             h == IF d = 10 THEN 0 ELSE 1
  <2>1. u \in Nat /\ u <= 2 * (faults + amid) /\ c = u + more
    BY <1>5, <1>6, <1>8
  <2>2. more <= 2 * (h + a) /\ h \in {0, 1}
    BY <1>7, <1>a
  <2>3. faults' = faults + h
    BY <1>4
  <2> HIDE DEF u, c, h
  <2>4. c <= 2 * ((faults + h) + (amid + a))
    BY <1>3, <1>7, <1>a, <2>1, <2>2
  <2>5. QED
    BY <1>a, <2>3, <2>4, Zenon DEF c
<1>12. InRead => y.cost >= w[m].cost + (y.keys - w[m].keys)
  BY <1>6, <1>7, <1>8
<1>13. y.keys # w[m].keys
  BY <1>6, <1>8
<1>14. \E v : Marked(m + 1, v, f, b)' /\ Parsing(m + 1, v, f, b)'
  <2>1. Adds(y.bytes, y.end - w[m].end) /\ touched' = Append(touched, y.key) /\ y.key \in Keys
    BY <1>2, <1>4, <1>6, <1>9
  <2>2. UNCHANGED <<get, i, key, heard, pc>> /\ asked' = asked
    BY <1>2 DEF parser
  <2>3. QED
    BY <1>1, <1>9, <1>10, <1>11, <1>12, <1>13, <2>1, <2>2, StreamGrows
<1>15. amid' \in Nat /\ (pc' # "loop" => get' = 0 /\ i' = 6)
  BY <1>2, <1>3 DEF StreamInv, parser
<1>16. QED
  BY <1>14, <1>15 DEF StreamInv

LEMMA StreamAnswer ==
  ASSUME TypeInv, Plain, StreamInv, Answer
  PROVE  StreamInv'
<1>1. PICK m, w, f, b : Marked(m, w, f, b) /\ Parsing(m, w, f, b)
  BY DEF StreamInv
<1> DEFINE e == Head(asked)
<1>2. asked # <<>> /\ Emit(FieldFrame(e)) /\ UNCHANGED <<parser, pc, heard, touched, amid>>
  BY DEF Answer
<1>3. e \in Fields /\ faults \in Nat /\ amid \in Nat /\ rx \in Seq(Byte)
  BY <1>2, HeadTail, BoundsAssumption DEF StreamInv, TypeInv, HistoryTypes, LineTypes
<1> HIDE DEF e
<1>4. PICK d, s, l :
           /\ d \in Nat \ {0} /\ Without(FieldFrame(e), d, s, l) /\ Adds(s, l) /\ d <= 8 + 2 * Words
           /\ faults' = faults + (IF d = 8 + 2 * Words THEN 0 ELSE 1)
  <2>1. FieldFrame(e) \in Seq(Byte) /\ Len(FieldFrame(e)) + 1 = 8 + 2 * Words
    BY <1>3, FieldBytes, WordsAssumption DEF TypeInv, ScreenTypes
  <2>2. PICK d, s, l :
           d \in 1 .. Len(FieldFrame(e)) + 1 /\ Without(FieldFrame(e), d, s, l) /\ Adds(s, l)
           /\ faults' = faults + (IF d = Len(FieldFrame(e)) + 1 THEN 0 ELSE 1)
    BY <1>2, <1>3, <2>1, EmittedBytes
  <2>3. d \in 1 .. 8 + 2 * Words
    BY <2>1, <2>2
  <2>4. d \in Nat \ {0} /\ d <= 8 + 2 * Words
    BY <2>3, WordsAssumption
  <2>5. QED
    BY <2>1, <2>2, <2>4
<1> DEFINE q == IF d = 8 + 2 * Words THEN 10 ELSE 1
<1>5. AnswerBytes(s, l, q)
  BY <1>3, <1>4, AnswerWithout
<1>6. IsMark(w[m]) /\ w[m].cost <= 2 * (faults + amid)
  BY <1>1 DEF Marked, Parsing
<1> DEFINE more == IF q = 10 THEN 0 ELSE 1
           y == [end |-> w[m].end + l, keys |-> w[m].keys, cost |-> w[m].cost + more,
                 key |-> 0, lost |-> q, bytes |-> s]
<1>7. /\ y.end = w[m].end + l /\ y.keys = w[m].keys /\ y.cost = w[m].cost + more
      /\ y.lost = q /\ y.bytes = s
  OBVIOUS
<1>8. /\ l \in Nat /\ q \in 1 .. 10 /\ more \in {0, 1} /\ (q # 10 => more = 1) /\ faults' = faults + more
  <2>1. l \in Nat
    BY <1>5 DEF AnswerBytes
  <2>2. QED
    BY <1>3, <1>4, <2>1
<1> HIDE DEF y, more, q
<1>9. w[m].end \in Nat /\ w[m].keys \in Nat /\ w[m].cost \in Nat
  BY <1>6 DEF IsMark
<1>10. IsMark(y) /\ y.end - w[m].end = l
  BY <1>7, <1>8, <1>9 DEF IsMark
<1>11. Frame(w[m], y)
  <2>1. y.cost >= w[m].cost + IF y.lost = 10 THEN 0 ELSE 1 + y.keys - w[m].keys
    BY <1>7, <1>8, <1>9
  <2>2. QED
    BY <1>5, <1>7, <1>8, <1>10, <2>1 DEF Frame
<1>12. y.cost <= 2 * (faults' + amid')
  <2> DEFINE u == w[m].cost
  <2>1. u \in Nat /\ u <= 2 * (faults + amid) /\ y.cost = u + more /\ amid' = amid
    BY <1>2, <1>6, <1>7, <1>9
  <2> HIDE DEF u
  <2>2. QED
    BY <1>3, <1>8, <2>1
<1>13. y.cost >= w[m].cost + (y.keys - w[m].keys)
  BY <1>7, <1>8, <1>9
<1>14. get = 4 \/ i >= 6
  BY <1>1, <1>2 DEF Parsing, KeysOnly
<1>15. \E v : Marked(m + 1, v, f, b)' /\ Parsing(m + 1, v, f, b)'
  <2>1. Adds(y.bytes, y.end - w[m].end) /\ touched' = touched
    BY <1>2, <1>4, <1>7, <1>10
  <2>2. UNCHANGED <<get, i, key, heard, pc>>
    BY <1>2 DEF parser
  <2>3. QED
    BY <1>1, <1>7, <1>10, <1>11, <1>12, <1>13, <1>14, <2>1, <2>2, StreamGrows
<1>16. amid' \in Nat /\ (pc' # "loop" => get' = 0 /\ i' = 6)
  BY <1>2, <1>3 DEF StreamInv, parser
<1>17. QED
  BY <1>15, <1>16 DEF StreamInv
(* A byte is taken: of its frame, or the last of it. *)
LEMMA PositionNext ==
  ASSUME NEW m, NEW w, NEW f \in Nat, NEW b \in Nat, w[f].end \in Nat, w[f + 1].end \in Nat,
         b - w[f].end \in 0 .. w[f + 1].end - w[f].end - 1,
         (b - w[f].end) + 1 < w[f + 1].end - w[f].end => Within(w[f], w[f + 1], (b - w[f].end) + 1)',
         (b - w[f].end) + 1 = w[f + 1].end - w[f].end => Ready(w[f + 1])',
         NEW g, g = IF b + 1 = w[f + 1].end THEN f + 1 ELSE f
  PROVE  Position(m, w, g, b + 1)'
<1> DEFINE e == w[f].end
           z == w[f + 1].end
           o == b - e
<1>1. e \in Nat /\ z \in Nat /\ o \in 0 .. z - e - 1
  OBVIOUS
<1>2. /\ o + 1 < z - e => Within(w[f], w[f + 1], o + 1)'
      /\ o + 1 = z - e => Ready(w[f + 1])'
  OBVIOUS
<1>3. g = IF b + 1 = z THEN f + 1 ELSE f
  OBVIOUS
<1>4. /\ b + 1 = z => o + 1 = z - e
      /\ b + 1 # z => o + 1 < z - e /\ b + 1 # e /\ b + 1 - e = o + 1
  <2> HIDE DEF e, z
  <2>1. QED
    BY <1>1
<1>5. CASE b + 1 = z
  <2>1. g = f + 1 /\ Ready(w[f + 1])' /\ b + 1 = w[g].end
    BY <1>2, <1>3, <1>4, <1>5
  <2>2. QED
    BY <2>1 DEF Position
<1>6. CASE b + 1 # z
  <2>1. g = f /\ Within(w[f], w[f + 1], o + 1)' /\ b + 1 # w[f].end /\ b + 1 - w[f].end = o + 1
    BY <1>2, <1>3, <1>4, <1>6
  <2> HIDE DEF o, e, z
  <2>2. QED
    BY <2>1 DEF Position
<1>7. QED
  BY <1>5, <1>6

LEMMA HeardMore ==
  ASSUME NEW at, NEW h \in Nat, NEW z \in Nat, HeardAs(at, h), h <= z, heard' = heard, touched' = touched, heard \in Seq(Keys)
  PROVE  HeardAs(at, z)'
<1>1. Len(heard) \in Nat /\ Len(heard) <= h /\ at \in [1 .. Len(heard) -> 1 .. h]
      /\ \A j \in 1 .. Len(heard) : heard[j] = touched[at[j]] /\ \A k \in 1 .. j - 1 : at[k] < at[j]
  BY DEF HeardAs
<1> DEFINE l == Len(heard)
<1>2. l <= z /\ at \in [1 .. l -> 1 .. z]
  <2>1. l \in Nat /\ l <= h /\ at \in [1 .. l -> 1 .. h]
    BY <1>1
  <2> HIDE DEF l
  <2>2. 1 .. h \subseteq 1 .. z /\ l <= z
    BY <2>1
  <2>3. QED
    BY <2>1, <2>2
<1>3. QED
  BY <1>1, <1>2 DEF HeardAs

LEMMA HeardNext ==
  ASSUME NEW at, NEW h \in Nat, HeardAs(at, h), heard \in Seq(Keys), NEW k \in Keys, touched[h + 1] = k,
         heard' = Append(heard, k), touched' = touched
  PROVE  \E to : HeardAs(to, h + 1)'
<1>1. Len(heard) \in Nat /\ Len(heard) <= h /\ at \in [1 .. Len(heard) -> 1 .. h]
      /\ \A j \in 1 .. Len(heard) : heard[j] = touched[at[j]] /\ \A q \in 1 .. j - 1 : at[q] < at[j]
  BY DEF HeardAs
<1>2. /\ Len(heard') = Len(heard) + 1 /\ heard'[Len(heard) + 1] = k
      /\ \A j \in 1 .. Len(heard) : heard'[j] = heard[j]
  BY AppendFacts
<1>3. PICK l \in Nat :
        /\ l <= h /\ Len(heard') = l + 1 /\ heard'[l + 1] = k
        /\ \A j \in 1 .. l : at[j] \in 1 .. h /\ heard'[j] = touched[at[j]]
        /\ \A j \in 1 .. l : \A q \in 1 .. j - 1 : at[q] < at[j]
  BY <1>1, <1>2, SMTT(30)
<1> DEFINE to == [j \in 1 .. l + 1 |-> IF j = l + 1 THEN h + 1 ELSE at[j]]
<1>4. \A j \in 1 .. l + 1 : j \in 1 .. l \/ j = l + 1
  BY <1>3
<1>5. to[l + 1] = h + 1 /\ \A j \in 1 .. l : to[j] = at[j]
  <2>1. l + 1 \in 1 .. l + 1 /\ \A j \in 1 .. l : j \in 1 .. l + 1 /\ j # l + 1
    BY <1>3
  <2>2. QED
    BY <2>1
<1>6. to \in [1 .. l + 1 -> 1 .. h + 1]
  <2>1. \A j \in 1 .. l + 1 : (IF j = l + 1 THEN h + 1 ELSE at[j]) \in 1 .. h + 1
    <3>1. h + 1 \in 1 .. h + 1 /\ \A q \in 1 .. h : q \in 1 .. h + 1
      OBVIOUS
    <3>2. QED
      BY <1>3, <1>4, <3>1
  <2>2. QED
    BY <2>1
<1> HIDE DEF to
<1>7. \A j \in 1 .. l + 1 : heard'[j] = touched'[to[j]]
  BY <1>3, <1>4, <1>5
<1>8. ASSUME NEW j \in 1 .. l + 1, NEW q \in 1 .. j - 1 PROVE to[q] < to[j]
  <2>1. q \in 1 .. l
    BY <1>3
  <2>2. CASE j \in 1 .. l
    BY <1>3, <1>5, <2>1, <2>2
  <2>3. CASE j = l + 1
    <3>1. at[q] \in 1 .. h
      BY <1>3, <2>1
    <3>2. to[q] = at[q] /\ to[j] = h + 1
      BY <1>5, <2>1, <2>3
    <3>3. QED
      BY <3>1, <3>2
  <2>4. QED
    BY <1>4, <2>2, <2>3
<1>9. l + 1 <= h + 1
  BY <1>3
<1>10. HeardAs(to, h + 1)'
  BY <1>3, <1>6, <1>7, <1>8, <1>9 DEF HeardAs
<1>11. QED
  BY <1>10

(* A byte is taken for an answer. *)
LEMMA StreamRead ==
  ASSUME TypeInv, StreamInv, ReadByte \/ NameRead \/ PasswordRead
  PROVE  StreamInv'
<1>1. PICK m, w, f, b : Marked(m, w, f, b) /\ Parsing(m, w, f, b)
  BY DEF StreamInv
<1>2. /\ InRead /\ pc # "loop" /\ rx # <<>> /\ rx' = Tail(rx)
      /\ UNCHANGED <<get, i, key, heard, touched, faults, amid>>
  <2>1. CASE ReadByte
    BY <2>1 DEF ReadByte, InProgress, InRead, parser, history
  <2>2. CASE NameRead
    BY <2>2 DEF NameRead, InProgress, InRead, parser
  <2>3. CASE PasswordRead
    BY <2>3 DEF PasswordRead, InProgress, InRead, parser, history
  <2>4. QED
    BY <2>1, <2>2, <2>3
<1>3. get = 0 /\ i = 6 /\ amid \in Nat /\ Given(m, w, f)
  BY <1>1, <1>2 DEF StreamInv, Parsing
<1>4. heard \in Seq(Keys)
  BY DEF TypeInv, HistoryTypes
<1>5. /\ f < m /\ f + 1 \in 0 .. m /\ IsMark(w[f]) /\ IsMark(w[f + 1]) /\ Frame(w[f], w[f + 1])
      /\ b - w[f].end \in 0 .. w[f + 1].end - w[f].end - 1
  BY <1>1, <1>2, NextByte
<1>6. m \in Nat /\ f \in Nat /\ b \in Nat /\ f \in f .. m - 1 /\ w[f].end <= b
  <2>1. m \in Nat /\ b \in Nat /\ f \in 0 .. m /\ w[f].end <= b
    BY <1>1 DEF Marked
  <2>2. QED
    BY <1>5, <2>1
<1>7. w[f].end \in Nat /\ w[f + 1].end \in Nat /\ w[f].keys \in Nat /\ w[f + 1].keys \in Nat
  BY <1>5 DEF IsMark
<1>8. w[f + 1].cost >= w[f].cost + (w[f + 1].keys - w[f].keys)
  BY <1>3, <1>6 DEF Given
<1> DEFINE x == w[f]
           y == w[f + 1]
           o == b - x.end
<1>9. IF o = 0 THEN Ready(x) ELSE Within(x, y, o)
  <2>1. IF b = w[f].end THEN Ready(w[f]) ELSE Within(w[f], w[f + 1], b - w[f].end)
    BY <1>1 DEF Parsing, Position
  <2>2. b = w[f].end <=> o = 0
    BY <1>6, <1>7
  <2>3. QED
    BY <2>1, <2>2, Zenon DEF o
<1>10. /\ o + 1 < y.end - x.end => Within(x, y, o + 1)'
       /\ o + 1 = y.end - x.end => Ready(y)'
  <2> HIDE DEF o, x, y
  <2>1. IsMark(x) /\ IsMark(y) /\ Frame(x, y) /\ y.cost >= x.cost + (y.keys - x.keys) /\ o \in 0 .. y.end - x.end - 1
    BY <1>5, <1>8 DEF o, x, y
  <2>2. QED
    BY <1>2, <1>3, <1>4, <1>9, <2>1, ByteRead
<1> DEFINE g == IF b + 1 = w[f + 1].end THEN f + 1 ELSE f
<1>11. Position(m, w, g, b + 1)'
  BY <1>5, <1>6, <1>7, <1>10, PositionNext
<1>12. Marked(m, w, g, b + 1)'
  BY <1>1, <1>2, TakeByte
<1>13. g \in {f, f + 1} /\ \A j \in g .. m - 1 : j \in f .. m - 1
  BY <1>6
<1>14. w[g].keys \in Nat /\ w[f].keys <= w[g].keys
  <2>1. w[f + 1].keys \in {w[f].keys, w[f].keys + 1}
    BY <1>5, FrameIs
  <2>2. QED
    BY <1>7, <1>13, <2>1
<1>15. \E at : HeardAs(at, w[g].keys)'
  BY <1>1, <1>2, <1>4, <1>7, <1>14, HeardMore DEF Parsing
<1> HIDE DEF g
<1>16. Given(m, w, g)
  BY <1>3, <1>13 DEF Given
<1>17. w[m].cost <= 2 * (faults' + amid')
  BY <1>1, <1>2 DEF Parsing
<1>18. Parsing(m, w, g, b + 1)'
  BY <1>2, <1>3, <1>11, <1>15, <1>16, <1>17 DEF Parsing, Given
<1>19. QED
  BY <1>2, <1>3, <1>12, <1>18 DEF StreamInv
(* The parser takes a byte. *)
LEMMA StreamLoop ==
  ASSUME TypeInv, TypeInv', StreamInv, Loop
  PROVE  StreamInv'
<1> DEFINE c == Head(rx)
<1>1. PICK m, w, f, b : Marked(m, w, f, b) /\ Parsing(m, w, f, b)
  BY DEF StreamInv
<1>2. Reads(c) /\ pc = "loop" /\ rx # <<>> /\ rx' = Tail(rx) /\ touched' = touched /\ faults' = faults /\ amid \in Nat
  BY DEF Reads, Loop, StreamInv
<1>3. heard \in Seq(Keys) /\ touched \in Seq(Keys) /\ faults \in Nat
  BY BoundsAssumption DEF TypeInv, HistoryTypes
<1>4. /\ f < m /\ f + 1 \in 0 .. m /\ IsMark(w[f]) /\ IsMark(w[f + 1]) /\ Frame(w[f], w[f + 1])
      /\ b - w[f].end \in 0 .. w[f + 1].end - w[f].end - 1
      /\ c = w[f + 1].bytes[b - w[f].end + 1]
  BY <1>1, <1>2, NextByte
<1> HIDE DEF c
<1>5. /\ m \in Nat /\ f \in Nat /\ b \in Nat /\ f \in f .. m - 1 /\ w[f].end <= b
      /\ Framed(m, w, f) /\ Ordered(m, w, f) /\ w[m].keys = Len(touched) /\ \A j \in 0 .. m : IsMark(w[j])
  <2>1. m \in Nat /\ b \in Nat /\ f \in 0 .. m
    BY <1>1 DEF Marked
  <2>2. QED
    BY <1>1, <1>4, <2>1 DEF Marked
<1>6. w[f].end \in Nat /\ w[f + 1].end \in Nat /\ w[f].keys \in Nat /\ w[f + 1].keys \in Nat /\ w[f + 1].keys \in {w[f].keys, w[f].keys + 1}
  BY <1>4, FrameIs DEF IsMark
<1>7. w[f + 1].keys = w[f].keys => get = 4 \/ i >= 6
  BY <1>1, <1>5 DEF Parsing, KeysOnly
<1> DEFINE x == w[f]
           y == w[f + 1]
           o == b - x.end
<1>8. IF o = 0 THEN Ready(x) ELSE Within(x, y, o)
  <2>1. IF b = w[f].end THEN Ready(w[f]) ELSE Within(w[f], w[f + 1], b - w[f].end)
    BY <1>1 DEF Parsing, Position
  <2>2. b = w[f].end <=> o = 0
    BY <1>5, <1>6
  <2>3. QED
    BY <2>1, <2>2, Zenon DEF o
<1>9. /\ o + 1 < y.end - x.end => Within(x, y, o + 1)' /\ UNCHANGED <<heard, asked, pc, amid>>
      /\ o + 1 = y.end - x.end =>
           /\ Ready(y)'
           /\ UNCHANGED <<heard, asked, pc, amid>> \/ (y.keys = x.keys + 1 /\ Hears(y.key))
  <2> HIDE DEF o, x, y
  <2>1. /\ IsMark(x) /\ IsMark(y) /\ Frame(x, y) /\ o \in 0 .. y.end - x.end - 1 /\ c = y.bytes[o + 1]
        /\ (y.keys = x.keys => get = 4 \/ i >= 6)
    BY <1>4, <1>7 DEF o, x, y
  <2>2. QED
    BY <1>2, <1>8, <2>1, FrameByte
<1> DEFINE g == IF b + 1 = w[f + 1].end THEN f + 1 ELSE f
<1>10. Position(m, w, g, b + 1)'
  BY <1>4, <1>5, <1>6, <1>9, PositionNext
<1>11. Marked(m, w, g, b + 1)'
  BY <1>1, <1>2, TakeByte
<1>12. g \in {f, f + 1} /\ g \in 0 .. m /\ \A j \in g .. m - 1 : j \in f .. m - 1
  BY <1>4, <1>5
<1>13. w[g].keys \in Nat /\ w[f].keys <= w[g].keys
  BY <1>6, <1>12
<1>14. UNCHANGED <<heard, asked, pc, amid>>
       \/ (g = f + 1 /\ b + 1 = w[g].end /\ w[g].keys = w[f].keys + 1 /\ Hears(w[g].key))
  <2>1. CASE b + 1 = w[f + 1].end
    <3>1. g = f + 1
      BY <2>1
    <3>2. o + 1 = y.end - x.end
      <4> DEFINE e == w[f].end
                 z == w[f + 1].end
      <4>1. e \in Nat /\ z \in Nat /\ b \in Nat /\ b + 1 = z
        BY <1>5, <1>6, <2>1
      <4> HIDE DEF e, z
      <4>2. (b - e) + 1 = z - e
        BY <4>1
      <4>3. QED
        BY <4>2 DEF e, z
    <3>3. QED
      BY <1>9, <2>1, <3>1, <3>2, Zenon
  <2>2. CASE b + 1 # w[f + 1].end
    <3>1. o + 1 < y.end - x.end
      <4> DEFINE e == w[f].end
                 z == w[f + 1].end
      <4>1. e \in Nat /\ z \in Nat /\ b - e \in 0 .. z - e - 1 /\ b + 1 # z /\ b \in Nat
        BY <1>4, <1>5, <1>6, <2>2
      <4> HIDE DEF e, z
      <4>2. (b - e) + 1 < z - e
        BY <4>1
      <4>3. QED
        BY <4>2 DEF e, z
    <3>2. QED
      BY <1>9, <3>1, Zenon
  <2>3. QED
    BY <2>1, <2>2
<1> HIDE DEF g, x, y, o
<1>15. get = 4 \/ i >= 6 => get' = 4 \/ i' >= 6
  <2>1. get \in 0 .. 4 /\ i \in Nat
    BY DEF TypeInv, ParserTypes
  <2>2. /\ ~Stored(c) => /\ get' = 4 \/ i' = i
                         /\ get # 4
        /\ Stored(c) /\ i # 5 => get' = get /\ i' = i + 1
        /\ Stored(c) /\ i = 5 => i' = 6
    BY <1>2, Parsed DEF Stored
  <2>3. QED
    BY <2>1, <2>2
<1>16. w[m].cost <= 2 * (faults + amid)
  BY <1>1 DEF Parsing
<1>17. CASE UNCHANGED <<heard, asked, pc, amid>>
  <2>1. \E at : HeardAs(at, w[g].keys)'
    BY <1>1, <1>2, <1>3, <1>6, <1>13, <1>17, HeardMore DEF Parsing
  <2>2. get' = 4 \/ i' >= 6 \/ KeysOnly(m, w, g)'
    BY <1>1, <1>12, <1>15, <1>17 DEF Parsing, KeysOnly
  <2>3. ~InRead'
    BY <1>2, <1>17 DEF InRead
  <2>4. Parsing(m, w, g, b + 1)'
    BY <1>2, <1>10, <1>16, <1>17, <2>1, <2>2, <2>3 DEF Parsing
  <2>5. QED
    BY <1>2, <1>11, <1>17, <2>4 DEF StreamInv
<1>18. CASE g = f + 1 /\ b + 1 = w[g].end /\ w[g].keys = w[f].keys + 1 /\ Hears(w[g].key)
  <2> DEFINE k == w[g].key
  <2>1. get' = 0 /\ i' = 6 /\ heard' = Append(heard, k) /\ (OkKey \/ UNCHANGED <<asked, pc, amid>>)
    BY <1>18 DEF Hears
  <2>2. k \in Keys /\ touched[w[f].keys + 1] = k
    <3>1. Frame(w[f], w[f + 1]) /\ (w[f + 1].keys = w[f].keys + 1 => touched[w[f + 1].keys] = w[f + 1].key)
      BY <1>5 DEF Framed
    <3>2. w[f].keys + 1 # w[f].keys
      BY <1>6
    <3>3. QED
      BY <1>18, <3>1, <3>2 DEF Frame
  <2> HIDE DEF k
  <2>3. \E at : HeardAs(at, w[g].keys)'
    <3>1. PICK at : HeardAs(at, w[f].keys)
      BY <1>1 DEF Parsing
    <3>2. \E to : HeardAs(to, w[f].keys + 1)'
      BY <1>2, <1>3, <1>6, <2>1, <2>2, <3>1, HeardNext
    <3>3. QED
      BY <1>18, <3>2
  <2>4. CASE pc' # "name"
    <3>1. amid' = amid /\ ~InRead'
      <4>1. CASE OkKey
        BY <2>4, <4>1 DEF OkKey, Ask, InRead
      <4>2. CASE UNCHANGED <<asked, pc, amid>>
        BY <1>2, <4>2 DEF InRead
      <4>3. QED
        BY <2>1, <4>1, <4>2
    <3>2. Parsing(m, w, g, b + 1)'
      BY <1>2, <1>10, <1>16, <2>1, <2>3, <3>1 DEF Parsing
    <3>3. QED
      BY <1>2, <1>11, <2>1, <3>1, <3>2 DEF StreamInv
  <2>5. CASE pc' = "name"
    <3>1. amid' = amid + Len(touched) - Len(heard')
      <4>1. OkKey
        BY <1>2, <2>1, <2>5
      <4>2. QED
        BY <2>5, <4>1 DEF OkKey
    <3> DEFINE v == [j \in 0 .. m |-> [end |-> w[j].end, keys |-> w[j].keys, key |-> w[j].key, lost |-> w[j].lost,
                                       bytes |-> w[j].bytes,
                                       cost |-> w[j].cost + (IF j < g THEN 0 ELSE w[j].keys - w[g].keys)]]
    <3>2. \A j \in 0 .. m : /\ v[j].end = w[j].end /\ v[j].keys = w[j].keys /\ v[j].key = w[j].key
                            /\ v[j].lost = w[j].lost /\ v[j].bytes = w[j].bytes
                            /\ v[j].cost = w[j].cost + (IF j < g THEN 0 ELSE w[j].keys - w[g].keys)
      OBVIOUS
    <3> HIDE DEF v
    <3>3. Marked(m, v, g, b + 1)' /\ Given(m, v, g)
      BY <1>11, <3>2, KeysGiven
    <3>4. w[g].cost \in Nat /\ w[m].cost \in Nat /\ w[m].keys \in Nat /\ m \in 0 .. m /\ w[g].keys <= w[m].keys
      <4>1. IsMark(w[g]) /\ IsMark(w[m]) /\ m \in 0 .. m
        BY <1>5, <1>12
      <4>2. g \in f .. m /\ m \in f .. m /\ g <= m
        BY <1>5, <1>12
      <4>3. QED
        BY <1>5, <4>1, <4>2 DEF IsMark, Ordered
    <3>5. v[g].end = w[g].end /\ v[g].keys = w[g].keys /\ v[g].cost = w[g].cost
      <4>1. v[g].end = w[g].end /\ v[g].keys = w[g].keys /\ v[g].cost = w[g].cost + (IF g < g THEN 0 ELSE w[g].keys - w[g].keys)
        BY <1>12, <3>2
      <4> DEFINE u == w[g].cost
                 h == w[g].keys
      <4>2. u \in Nat /\ h \in Nat /\ v[g].cost = u + (IF g < g THEN 0 ELSE h - h) /\ g \in Nat
        BY <1>5, <1>12, <1>13, <3>4, <4>1
      <4> HIDE DEF u, h
      <4>3. ~(g < g) /\ u + (h - h) = u
        BY <4>2
      <4>4. v[g].cost = u
        BY <4>2, <4>3
      <4>5. QED
        BY <4>1, <4>4 DEF u
    <3>6. Position(m, v, g, b + 1)'
      <4>1. Ready(w[g])'
        BY <1>10, <1>18 DEF Position
      <4>2. Ready(v[g])'
        BY <3>5, <4>1 DEF Ready, Enough
      <4>3. QED
        BY <1>18, <3>5, <4>2 DEF Position
    <3>7. amid' \in Nat /\ v[m].cost <= 2 * (faults' + amid')
      <4>1. PICK at : HeardAs(at, w[g].keys)'
        BY <2>3
      <4>2. Len(heard') \in Nat /\ Len(touched) \in Nat /\ Len(heard') <= w[g].keys
        BY <1>3, <4>1 DEF HeardAs, TypeInv, HistoryTypes
      <4>3. v[m].cost = w[m].cost + (w[m].keys - w[g].keys)
        <5>1. ~(m < g)
          BY <1>5, <1>12
        <5>2. QED
          BY <3>2, <3>4, <5>1
      <4> DEFINE u == w[m].cost
                 a == w[m].keys
                 h == w[g].keys
                 p == Len(heard')
                 q == Len(touched)
                 d == v[m].cost
      <4>4. /\ {u, a, h, p, q} \subseteq Nat /\ a = q /\ h <= a /\ p <= h /\ d = u + (a - h) /\ u <= 2 * (faults + amid)
            /\ amid' = amid + q - p
        BY <1>5, <1>13, <1>16, <3>1, <3>4, <4>2, <4>3
      <4> HIDE DEF u, a, h, p, q, d
      <4>5. amid + q - p \in Nat /\ d <= 2 * (faults + (amid + q - p))
        <5>1. q - p \in Nat /\ a - h <= q - p
          BY <4>4
        <5> DEFINE e == q - p
                   z == a - h
        <5>2. e \in Nat /\ z \in Nat /\ z <= e /\ d = u + z /\ amid + q - p = amid + e
          <6>1. e \in Nat /\ z \in Nat /\ z <= e /\ d = u + z
            BY <4>4, <5>1
          <6>2. amid + q - p = amid + e
            BY <1>2, <4>4
          <6>3. QED
            BY <6>1, <6>2, Zenon
        <5> HIDE DEF e, z
        <5>3. amid + e \in Nat /\ d <= 2 * (faults + (amid + e))
          <6>1. u \in Nat /\ u <= 2 * (faults + amid) /\ amid \in Nat /\ faults \in Nat
            BY <1>2, <1>3, <4>4
          <6>2. e \in Nat /\ z <= e /\ z \in Nat /\ d = u + z
            BY <5>2
          <6>3. QED
            BY <6>1, <6>2
        <5>4. QED
          BY <5>2, <5>3
      <4>6. QED
        BY <1>2, <4>4, <4>5, Zenon DEF d
    <3>8. Parsing(m, v, g, b + 1)'
      BY <2>1, <2>3, <3>3, <3>5, <3>6, <3>7 DEF Parsing, Given
    <3>9. QED
      BY <2>1, <3>3, <3>7, <3>8 DEF StreamInv
  <2>6. QED
    BY <2>4, <2>5
<1>19. QED
  BY <1>14, <1>17, <1>18
LEMMA StreamStep ==
  ASSUME TypeInv, TypeInv', Plain, StreamInv, [Next]_vars
  PROVE  StreamInv'
<1>1. CASE Type
  BY <1>1, StreamKept DEF Type, line, parser, InRead
<1>2. CASE ReadTimeout
  <2>1. UNCHANGED <<rx, asked, touched, heard, get, i, key, faults, amid>> /\ pc # "loop" /\ ~InRead'
    BY <1>2 DEF ReadTimeout, WifiDone, InRead, line, parser, history
  <2>2. QED
    BY <2>1, StreamKept
<1>3. CASE OpenFile
  BY <1>3, StreamKept DEF OpenFile, line, parser, history, InRead
<1>4. CASE WriteFile
  BY <1>4, StreamKept DEF WriteFile, line, parser, history, InRead
<1>5. CASE UNCHANGED vars
  BY <1>5, StreamKept DEF vars, line, parser, history, InRead
<1>6. CASE PowerFailure
  <2>1. faults \in Nat
    BY BoundsAssumption DEF TypeInv, HistoryTypes
  <2>2. Started'
    BY <1>6, <2>1 DEF PowerFailure, Started
  <2>3. QED
    BY <2>2, StreamStarts, PTL
<1>7. CASE Loop
  BY <1>7, StreamLoop
<1>8. CASE Answer
  BY <1>8, StreamAnswer
<1>9. CASE ReadByte \/ NameRead \/ PasswordRead
  BY <1>9, StreamRead
<1>10. ASSUME NEW k \in Keys, Touch(k) PROVE StreamInv'
  BY <1>10, StreamTouch
<1>11. QED
  BY <1>1, <1>2, <1>3, <1>4, <1>5, <1>6, <1>7, <1>8, <1>9, <1>10 DEF Next

LEMMA PlainBlank == \A f \in Fields : Blank[f] \in Seq(1 .. 127)
<1>1. \A f \in Fields : Blank[f] = <<>>
  BY DEF Blank, Fields
<1>2. <<>> \in Seq(1 .. 127)
  OBVIOUS
<1>3. QED
  BY <1>1, <1>2, Zenon

LEMMA PlainStep == ASSUME TextsAreAscii, Plain, [Next]_vars PROVE Plain'
<1>1. CASE field' = field
  BY <1>1 DEF Plain
<1>2. CASE field' = Blank
  BY <1>2, PlainBlank, Zenon DEF Plain
<1>3. CASE field' \in [name : Names, password : Passwords]
  <2>1. \A f \in Fields : field'[f] \in Names \cup Passwords
    BY <1>3 DEF Fields
  <2>2. QED
    BY <2>1, Zenon DEF TextsAreAscii, Plain
<1>4. QED
  BY <1>1, <1>2, <1>3, FieldStep

(* When nothing is on the line, every frame has been taken. *)
LEMMA StreamQuiet ==
  ASSUME TypeInv, StreamInv
  PROVE  BackInStep
<1> SUFFICES ASSUME Quiet
             PROVE  /\ Len(touched) - Len(heard) <= 2 * (faults + amid)
                    /\ \E at \in [DOMAIN heard -> DOMAIN touched] :
                         \A j \in DOMAIN heard :
                           heard[j] = touched[at[j]] /\ \A k \in 1 .. j - 1 : at[k] < at[j]
  BY DEF BackInStep
<1>1. PICK m, w, f, b : Marked(m, w, f, b) /\ Parsing(m, w, f, b)
  BY DEF StreamInv
<1>2. /\ heard \in Seq(Keys) /\ touched \in Seq(Keys) /\ faults \in Nat /\ amid \in Nat
      /\ Len(heard) \in Nat /\ Len(touched) \in Nat /\ DOMAIN heard = 1 .. Len(heard) /\ DOMAIN touched = 1 .. Len(touched)
  BY BoundsAssumption DEF TypeInv, HistoryTypes, StreamInv
<1>3. /\ m \in Nat /\ b \in Nat /\ f \in 0 .. m /\ (f < m => b < w[f + 1].end)
      /\ Ordered(m, w, f) /\ w[m].keys = Len(touched) /\ IsMark(w[m])
  BY <1>1 DEF Marked
<1>4. w[m].end = b
  <2>1. w[m].end = b + Len(rx) /\ Len(rx) = 0
    BY <1>1 DEF Marked, OnLine, Quiet
  <2>2. QED
    BY <1>3, <2>1
<1>5. f = m
  <2> SUFFICES ASSUME f < m PROVE FALSE
    BY <1>3
  <2>1. f + 1 \in f .. m /\ m \in f .. m /\ f + 1 <= m /\ f + 1 \in 0 .. m
    BY <1>3
  <2>2. w[f + 1].end <= w[m].end /\ IsMark(w[f + 1])
    BY <1>1, <1>3, <2>1 DEF Ordered, Marked
  <2>3. QED
    BY <1>3, <1>4, <2>2 DEF IsMark
<1>6. Ready(w[m])
  BY <1>1, <1>4, <1>5 DEF Parsing, Position
<1>7. w[m].keys <= Len(heard) + w[m].cost
  <2>1. Enough(w[m], 0) \/ Enough(w[m], 1)
    BY <1>6 DEF Ready
  <2>2. w[m].keys + 0 <= Len(heard) + w[m].cost \/ w[m].keys + 1 <= Len(heard) + w[m].cost
    BY <2>1 DEF Enough
  <2> DEFINE a == w[m].keys
             u == w[m].cost
             p == Len(heard)
  <2>3. a \in Nat /\ u \in Nat /\ p \in Nat /\ (a + 0 <= p + u \/ a + 1 <= p + u)
    BY <1>2, <1>3, <2>2 DEF IsMark
  <2> HIDE DEF a, u, p
  <2>4. a <= p + u
    BY <2>3
  <2>5. QED
    BY <2>4 DEF a, u, p
<1>8. Len(touched) - Len(heard) <= 2 * (faults + amid)
  <2> DEFINE a == Len(touched)
             u == w[m].cost
             p == Len(heard)
  <2>1. u <= 2 * (faults + amid) /\ a \in Nat /\ u \in Nat /\ p \in Nat /\ a <= p + u
    BY <1>1, <1>2, <1>3, <1>7 DEF Parsing, IsMark
  <2> HIDE DEF a, u, p
  <2>2. a - p <= 2 * (faults + amid)
    BY <1>2, <2>1
  <2>3. QED
    BY <2>2 DEF a, p
<1>9. PICK at : HeardAs(at, Len(touched))
  BY <1>1, <1>3, <1>5 DEF Parsing
<1>10. QED
  BY <1>2, <1>8, <1>9 DEF HeardAs

LEMMA Streams == ASSUME TextsAreAscii PROVE Spec => [](TypeInv /\ WaysInv /\ StreamInv)
<1>1. Init => Plain /\ StreamInv
  <2>1. Init => field = Blank /\ Started
    BY DEF Init, Started
  <2>2. QED
    BY <2>1, PlainBlank, StreamStarts, Zenon DEF Plain
<1>2. TypeInv /\ TypeInv' /\ Plain /\ StreamInv /\ [Next]_vars => Plain' /\ StreamInv'
  BY PlainStep, StreamStep
<1>3. QED
  BY <1>1, <1>2, Types, PTL DEF Spec

(* When the line is quiet again the parser is in step: each byte lost, and each
   key that came while an answer was read, has cost two keys at most, and what
   was heard is what the user touched, in that order, for any number of keys,
   bytes lost, questions and power failures.  The names and passwords are in
   ASCII: other bytes could be those of a key.                              *)
THEOREM ParserComesBack ==
  ASSUME TextsAreAscii
  PROVE  Spec => []BackInStep
<1>1. TypeInv /\ StreamInv => BackInStep
  BY StreamQuiet
<1>2. QED
  BY <1>1, Streams, PTL

(* Every variable holds what its declaration says; amid is a number because no
   key is heard that was not touched.                                       *)
THEOREM TypeCorrect ==
  ASSUME TextsAreAscii
  PROVE  Spec => []TypeOK
<1>1. TypeInv /\ WaysInv /\ StreamInv => TypeOK
  <2> SUFFICES ASSUME TypeInv, WaysInv, StreamInv PROVE TypeOK
    OBVIOUS
  <2>1. Len(key) <= 4
    BY DEF TypeInv, ParserTypes
  <2>2. QED
    BY <2>1 DEF TypeOK, TypeInv, ScreenTypes, LineTypes, ParserTypes, ReaderTypes, HistoryTypes,
                StreamInv, WaysInv, Fields, Texts
<1>2. QED
  BY <1>1, Streams, PTL
=============================================================================
