-------------------------------- MODULE Link --------------------------------
(***************************************************************************)
(* What send_web_post() promises its callers, without modem, bytes or      *)
(* attempts: a call is made, the server may store its request or refuse it *)
(* with a page that reads like an answer, and the call returns.  A call    *)
(* that had the way to the server to itself gives an answer only if the    *)
(* server has done one or the other with its own request; one that had not *)
(* may give the answer of another.  NULL says nothing of the server.       *)
(***************************************************************************)
EXTENDS Naturals

CONSTANTS
  Procs,     \* the processes that call
  MaxCalls   \* bound on the calls of one process

VARIABLES
  busy,    \* is the process in a call?
  req,     \* the request of its current or last call: process and number
  alone,   \* has that call had the way to the server to itself?
  got,     \* what its last call gave: "null", "ok" or "text"
  stored,  \* the requests the server has stored
  refused  \* those it has only refused, with a page that reads like an answer

vars == <<busy, req, alone, got, stored, refused>>

Init ==
  /\ busy = [p \in Procs |-> FALSE]
  /\ req  = [p \in Procs |-> <<p, 0>>]
  /\ alone = [p \in Procs |-> TRUE]
  /\ got  = [p \in Procs |-> "ok"]
  /\ stored = {} /\ refused = {}

(* A new call may end the peace of the calls that are under way. *)
Post(p) ==
  /\ ~busy[p] /\ req[p][2] < MaxCalls
  /\ busy' = [busy EXCEPT ![p] = TRUE]
  /\ req'  = [req EXCEPT ![p] = <<p, req[p][2] + 1>>]
  /\ alone' \in [Procs -> BOOLEAN]
  /\ \A q \in Procs \ {p} : alone'[q] => alone[q]
  /\ UNCHANGED <<got, stored, refused>>

(* The server stores a request that was made, now or long ago. *)
Serve(p, n) ==
  /\ n \in 1 .. req[p][2]
  /\ stored' = stored \cup {<<p, n>>}
  /\ refused' = refused \ {<<p, n>>}
  /\ UNCHANGED <<busy, req, alone, got>>

(* It answers such a request, and has not stored it. *)
Refuse(p, n) ==
  /\ n \in 1 .. req[p][2] /\ <<p, n>> \notin stored
  /\ refused' = refused \cup {<<p, n>>}
  /\ UNCHANGED <<busy, req, alone, got, stored>>

Return(p, answer) ==
  /\ busy[p]
  /\ busy' = [busy EXCEPT ![p] = FALSE]
  /\ got'  = [got EXCEPT ![p] = answer]
  /\ alone[p] /\ answer # "null" => req[p] \in stored \cup refused
  /\ UNCHANGED <<req, alone, stored, refused>>

Next ==
  \E p \in Procs : \/ Post(p)
                   \/ \E n \in 1 .. MaxCalls : Serve(p, n) \/ Refuse(p, n)
                   \/ \E answer \in {"null", "ok", "text"} : Return(p, answer)

Spec == Init /\ [][Next]_vars
============================================================================
