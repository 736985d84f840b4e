----------------------- MODULE ScheduleCacheContract -----------------------
(***************************************************************************)
(* ScheduleCache implements FreshnessContract: a request is open while its *)
(* handler runs, and its client sees results only once it is answered.     *)
(***************************************************************************)
EXTENDS ScheduleCache

ClientView(q) ==
  [state   |-> CASE q.pc = "idle" -> "idle"
                 [] q.pc = "done" -> "answered"
                 [] OTHER         -> "open",
   calls   |-> q.calls,
   started |-> q.started,
   items   |-> IF q.pc = "done" THEN q.items ELSE << >>,
   status  |-> q.status]

Contract == INSTANCE FreshnessContract
              WITH client <- [r \in Requests |-> ClientView(req[r])]

(* Every behaviour of ScheduleService's reads through Redis and SQL Server *)
(* is one the contract allows: all that happens between a request and its  *)
(* answer (GET, queries, SET, their failures) is invisible to the client.  *)
ServiceKeepsContract == Contract!Spec
=============================================================================
