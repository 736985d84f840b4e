------------------------- MODULE FreshnessContract -------------------------
(***************************************************************************)
(* What the timetable service promises its clients, without Redis, queries *)
(* or service methods: a request is answered, if at all, with results that *)
(* are each no older than their shelf life, no older than the request when *)
(* the answer does not say isCache, and never with a remembered absence.   *)
(***************************************************************************)
EXTENDS Integers, Sequences

CONSTANTS
  Requests,    \* slots for concurrent requests
  Endpoints,   \* the sequences of calls a request may ask for
  Tables,      \* what the answers are computed from
  MaxVersion,  \* bound: how often a table may be edited
  Shelf(_)     \* the shelf life of a call's result

VARIABLES
  now,     \* the clock
  cur,     \* cur[t]: the version of table t in force
  born,    \* born[t][v]: when version v of t came into force
  client   \* client[r]: what the client of request r sees

vars == <<now, cur, born, client>>

NoClient == [state |-> "idle", calls |-> << >>, started |-> 0,
             items |-> << >>, status |-> "none"]

InForce(t, v, i) ==
  v = cur[t] \/ (v < cur[t] /\ born[t][v + 1] >= i)

(* The oldest instant the i-th result of an answer may describe.           *)
Limit(c, i) ==
  IF c.items[i].null \/ \A j \in DOMAIN c.items : ~c.items[j].isCache
  THEN c.started
  ELSE c.started - Shelf(c.calls[i])

Acceptable(c) ==
  /\ c.status \in {"ok", "notFound"} => Len(c.items) = Len(c.calls)
  /\ \A i \in DOMAIN c.items : \A x \in c.items[i].seen :
       InForce(x[1], x[2], Limit(c, i))

Init ==
  /\ now = 0
  /\ cur = [t \in Tables |-> 0]
  /\ born = [t \in Tables |-> [v \in 0..MaxVersion |-> 0]]
  /\ client = [r \in Requests |-> NoClient]

Ask(r, e) ==
  /\ client[r].state # "open"
  /\ client' = [client EXCEPT ![r] =
       [NoClient EXCEPT !.state = "open", !.calls = e, !.started = now]]
  /\ UNCHANGED <<now, cur, born>>

(* The answer: any acceptable results, or an error.                        *)
Reply(r) ==
  /\ client[r].state = "open"
  /\ LET a == client'[r]
     IN  /\ a.status \in {"ok", "notFound", "error"}
         /\ client' = [client EXCEPT ![r] =
              [@ EXCEPT !.state = "answered", !.items = a.items,
                        !.status = a.status]]
         /\ Acceptable(a)
  /\ UNCHANGED <<now, cur, born>>

(* The service restarts: every connection is gone.                         *)
Disconnect ==
  /\ client' = [r \in Requests |-> NoClient]
  /\ UNCHANGED <<now, cur, born>>

Edit(t) ==
  /\ cur[t] < MaxVersion
  /\ cur' = [cur EXCEPT ![t] = @ + 1]
  /\ born' = [born EXCEPT ![t][cur[t] + 1] = now]
  /\ UNCHANGED <<now, client>>

Tick ==
  /\ now' = now + 1
  /\ UNCHANGED <<cur, born, client>>

Next ==
  \/ \E r \in Requests : Reply(r)
  \/ \E r \in Requests, e \in Endpoints : Ask(r, e)
  \/ Disconnect
  \/ \E t \in Tables : Edit(t)
  \/ Tick

Spec == Init /\ [][Next]_vars
=============================================================================
