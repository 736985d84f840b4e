--------------------------- MODULE ScheduleCache ---------------------------
(***************************************************************************)
(* The read-through cache of ScheduleService: what happens between an HTTP *)
(* request for a timetable, a catalogue or a count and its answer, when    *)
(* several requests interleave at their awaits, the SQL Server tables are  *)
(* edited behind the service's back, and Redis keys expire, disappear or   *)
(* cannot be reached.                                                      *)
(*                                                                         *)
(* Data are abstracted to provenance: a table's contents are a version     *)
(* number, a result is the set of <<table, version>> pairs it was computed *)
(* from, and `rows' says for which subjects a version's rows exist.        *)
(***************************************************************************)
EXTENDS Integers, Sequences

CONSTANTS
  Requests,    \* slots for concurrent HTTP requests
  Endpoints,   \* the requests clients make: the service calls of a handler
  Edited,      \* the tables that are edited while the service runs
  Lasting,     \* the calls whose rows no edit takes away
  Arguments,   \* what is asked for: a group, an ID, a kind of count
  Numerals,    \* the arguments Number() accepts
  TtlShort,    \* 60 * 5, in clock ticks
  TtlLong,     \* 60 * 10, in clock ticks
  MaxRequest,  \* the longest a request stays open, in clock ticks
  MaxVersion,  \* bound: how often a table may be edited
  Horizon      \* bound: how far the clock runs

Tables ==
  {"raspzv", "examen", "prep", "GetRaspGrWeek", "audi", "semesters"}
Versions == 0..MaxVersion
Readings == Tables \X Versions

Ops == {"byGroup", "byGroupAsWeek", "byTeacher", "byAudience", "groups",
        "teachers", "audiences", "count", "allAudiences", "semesters"}

(* A call of a ScheduleService method; also the Redis key it uses, which   *)
(* names the method, idSchedule and the lower-cased argument.              *)
Calls == [op : Ops, sid : Int, arg : Arguments]

ASSUME BoundsAssumption ==
  /\ TtlShort \in Nat \ {0} /\ TtlLong \in Nat \ {0} /\ MaxRequest \in Nat
  /\ MaxVersion \in Nat /\ Horizon \in Nat /\ Edited \subseteq Tables
ASSUME EndpointsAssumption ==
  /\ {"", "names"} \subseteq Arguments
  /\ \A e \in Endpoints : e \in Seq(Calls) /\ e # << >>

VARIABLES
  now,    \* the clock
  cur,    \* cur[t]: the version of table t in force
  born,   \* born[t][v]: when version v of table t came into force
  rows,   \* rows[t][v]: the calls that version v of table t has rows for
  redis,  \* redis[k]: what Redis stores under key k
  req     \* req[r]: the local state of request r

db == <<cur, born, rows>>
vars == <<now, cur, born, rows, redis, req>>

-----------------------------------------------------------------------------
(* The methods of ScheduleService, as far as caching can tell them apart:  *)
(*   reads    the tables queried, in order, on a cache miss                *)
(*   decide   after how many queries an empty result makes it return null  *)
(*   ttl      the EX of its SET                                            *)
(*   isCache  the isCache member of the JSON it stores: a hit spreads that *)
(*            JSON after `isCache: true', but JSON.stringify has dropped   *)
(*            an undefined member                                          *)

Method(reads, decide, ttl) ==
  [reads |-> reads, decide |-> decide, ttl |-> ttl, isCache |-> "undefined"]

(* Lessons, and the exams too unless a schedule is asked for: any non-zero *)
(* idSchedule, a negative one included, leaves the exams out.              *)
Timetable(c) == IF c.sid = 0 THEN <<"raspzv", "examen">> ELSE <<"raspzv">>

getByGroup(c) == Method(Timetable(c), Len(Timetable(c)), TtlShort)

getByAudience(c) == Method(Timetable(c), Len(Timetable(c)), TtlShort)

(* The teacher's name is read last, once there is something to return.     *)
getByTeacher(c) ==
  Method(Append(Timetable(c), "prep"), Len(Timetable(c)), TtlShort)

(* A name, or a request without a schedule, is resolved by one query; then *)
(* the 6 days Monday..Saturday are queried with and without lectures. An   *)
(* ID given with a schedule is not looked up: only ID 0 is refused.        *)
WeekQueries == [i \in 1..12 |-> "GetRaspGrWeek"]
Resolves(c) == c.arg \notin Numerals \/ c.sid = 0
Never == 99
getByGroupAsWeek(c) ==
  CASE Resolves(c) -> Method(<<"raspzv">> \o WeekQueries, 1, TtlShort)
    [] ~Resolves(c) /\ c.arg = "0" -> Method(<< >>, 0, TtlShort)
    [] OTHER -> Method(WeekQueries, Never, TtlShort)

getGroups(c) == Method(<<"raspzv">>, 1, TtlLong)

getTeachersBySchedule(c) == Method(<<"raspzv">>, 1, TtlShort)

getAudiencesBySchedule(c) == Method(<<"raspzv">>, 1, TtlShort)

(* getCount issues no query of its own: it calls the method that lists     *)
(* what it counts, through that method's own cache.                        *)
getCount(c) == Method(<< >>, Never, TtlLong)
Inner(c) ==
  CASE c.arg \in {"group", "institute"} ->
         [op |-> "groups", sid |-> c.sid, arg |-> "names"]
    [] c.arg = "audiences" -> [op |-> "audiences", sid |-> c.sid, arg |-> ""]
    [] OTHER               -> [op |-> "teachers", sid |-> c.sid, arg |-> ""]

(* The two methods that are not cached.                                    *)
getAudiences(c) == Method(<<"audi">>, Never, 0)
getScheduleSemesters(c) == Method(<<"semesters">>, Never, 0)
Cached(c) == c.op \notin {"allAudiences", "semesters"}

MethodOf(c) ==
  CASE c.op = "byGroup"       -> getByGroup(c)
    [] c.op = "byGroupAsWeek" -> getByGroupAsWeek(c)
    [] c.op = "byTeacher"     -> getByTeacher(c)
    [] c.op = "byAudience"    -> getByAudience(c)
    [] c.op = "groups"        -> getGroups(c)
    [] c.op = "teachers"      -> getTeachersBySchedule(c)
    [] c.op = "audiences"     -> getAudiencesBySchedule(c)
    [] c.op = "count"         -> getCount(c)
    [] c.op = "allAudiences"  -> getAudiences(c)
    [] c.op = "semesters"     -> getScheduleSemesters(c)

UnflaggedHitMutant(c) == FALSE               \* a hit answered as a miss is
HitFlag(c) == MethodOf(c).isCache # "false"

(* The controller turns a null of these into 404; a null of getGroups is   *)
(* an empty 200, and a null inside getCount is a count of null.            *)
NullIs404(c) == c.op \notin {"groups", "count"}

Called == UNION {{e[i] : i \in DOMAIN e} : e \in Endpoints}
Keys == {c \in Called : Cached(c)}
          \cup {Inner(c) : c \in {d \in Called : d.op = "count"}}

-----------------------------------------------------------------------------
(* The local state of a request: `at' indexes the handler's service calls, *)
(* `inner' says that getCount is inside the method it counts with, `step'  *)
(* counts that method's queries, `seen' and `flag' are what its result was *)
(* computed from and its isCache, `items' the results already returned.    *)

Idle == [pc |-> "idle", calls |-> << >>, at |-> 1, inner |-> FALSE,
         step |-> 0, seen |-> {}, flag |-> FALSE, items |-> << >>,
         started |-> 0, status |-> "none"]

Busy(r) == req[r].pc \in {"get", "query", "set"}

Callee(q) == IF q.inner THEN Inner(q.calls[q.at]) ELSE q.calls[q.at]

NoEntry == [seen |-> {}, exp |-> 0]

(* A SET that forgets its EX.                                              *)
ForeverMutant(q) ==
  [redis EXCEPT ![Callee(q)] = [seen |-> q.seen, exp |-> Horizon + 1]]

(* An expiry that lies in the past.                                        *)
PastMutant(q) == [redis EXCEPT ![Callee(q)] =
                    [seen |-> q.seen, exp |-> now - MethodOf(Callee(q)).ttl]]

(* SET key JSON EX ttl.                                                    *)
Stored(q) == [redis EXCEPT ![Callee(q)] =
                [seen |-> q.seen, exp |-> now + MethodOf(Callee(q)).ttl]]

Empty(c, seen) == \A x \in seen : c \notin rows[x[1]][x[2]]

(* Entering the next service call: each works on local variables.          *)
Enter(q) ==
  [q EXCEPT !.pc = IF Cached(q.calls[q.at]) THEN "get" ELSE "query",
            !.inner = FALSE, !.step = 0, !.seen = {}, !.flag = FALSE]

(* The handler has its results, or failed: the request is answered.        *)
Answered(q, status) ==
  [q EXCEPT !.pc = "done", !.inner = FALSE, !.step = 0, !.seen = {},
            !.flag = FALSE, !.status = status]

(* getCount without its early return for a missing list.                   *)
CountNullMutant(q, null) ==
  LET result == [null |-> null, isCache |-> q.flag, seen |-> q.seen]
      got    == [q EXCEPT !.items = Append(@, result)]
  IN  IF q.inner
      THEN [q EXCEPT !.pc = "set", !.inner = FALSE, !.step = 0]
      ELSE IF q.at < Len(q.calls)
           THEN Enter([got EXCEPT !.at = @ + 1])
           ELSE Answered(got, IF null /\ NullIs404(q.calls[q.at])
                              THEN "notFound" ELSE "ok")

(* getCount that does not pass on the isCache of the list it counted.      *)
CountFlagMutant(q, null) ==
  LET result == [null |-> null, isCache |-> q.flag, seen |-> q.seen]
      got    == [q EXCEPT !.items = Append(@, result)]
  IN  IF q.inner /\ ~null
      THEN [q EXCEPT !.pc = "set", !.inner = FALSE, !.step = 0, !.flag = FALSE]
      ELSE IF q.at < Len(q.calls)
           THEN Enter([got EXCEPT !.at = @ + 1])
           ELSE Answered(got, IF null /\ NullIs404(q.calls[q.at])
                              THEN "notFound" ELSE "ok")

(* A method returns, null or data, to its caller: data inside getCount is  *)
(* counted and stored; anything else is a result of the handler's call.    *)
Return(q, null) ==
  LET result == [null |-> null, isCache |-> q.flag, seen |-> q.seen]
      got    == [q EXCEPT !.items = Append(@, result)]
  IN  IF q.inner /\ ~null
      THEN [q EXCEPT !.pc = "set", !.inner = FALSE, !.step = 0]
      ELSE IF q.at < Len(q.calls)
           THEN Enter([got EXCEPT !.at = @ + 1])
           ELSE Answered(got, IF null /\ NullIs404(q.calls[q.at])
                              THEN "notFound" ELSE "ok")

(* An empty result is stored and returned like any other.                  *)
NegativeCacheMutant(q) ==
  IF q.step < Len(MethodOf(Callee(q)).reads) THEN [q EXCEPT !.pc = "query"]
  ELSE IF Cached(Callee(q)) THEN [q EXCEPT !.pc = "set", !.step = 0]
  ELSE Return(q, FALSE)

(* Between two queries: give up, query again, store the result or return.  *)
Proceed(q) ==
  LET m == MethodOf(Callee(q))
  IN  IF q.step = m.decide /\ Empty(Callee(q), q.seen) THEN Return(q, TRUE)
      ELSE IF q.step < Len(m.reads) THEN [q EXCEPT !.pc = "query"]
      ELSE IF Cached(Callee(q)) THEN [q EXCEPT !.pc = "set", !.step = 0]
      ELSE Return(q, FALSE)

(* A miss that waits for another request to fill the key.                  *)
WaitMutant(q) == q

(* Nothing usable in Redis: getCount calls the method it counts with.      *)
Missed(q) ==
  IF Callee(q).op = "count" THEN [q EXCEPT !.inner = TRUE] ELSE Proceed(q)

-----------------------------------------------------------------------------
(* Whether a call finds anything depends on these two tables alone.        *)
Deciders == {"raspzv", "examen"}
ReadsOf(c) == {MethodOf(c).reads[i] : i \in DOMAIN MethodOf(c).reads}
Readers(t) == {c \in Keys : t \in ReadsOf(c)}
RowsOf(t) ==
  IF t \in Deciders THEN {R \in SUBSET Readers(t) : Lasting \cap Readers(t) \subseteq R}
                    ELSE {{}}

Init ==
  /\ now = 0
  /\ cur = [t \in Tables |-> 0]
  /\ born = [t \in Tables |-> [v \in Versions |-> 0]]
  /\ \E lessons \in RowsOf("raspzv"), exams \in RowsOf("examen") :
        rows = [t \in Tables |-> [v \in Versions |->
                  CASE v = 0 /\ t = "raspzv" -> lessons
                    [] v = 0 /\ t = "examen" -> exams
                    [] OTHER -> {}]]
  /\ redis = [k \in Keys |-> NoEntry]
  /\ req = [r \in Requests |-> Idle]

(* A client's request reaches its handler.                                 *)
Start(r, e) ==
  /\ ~Busy(r)
  /\ req' = [req EXCEPT ![r] =
               Enter([Idle EXCEPT !.calls = e, !.started = now])]
  /\ UNCHANGED <<now, db, redis>>

(* A hit that takes a part from Redis and queries the rest anew.           *)
LiveExamsMutant(r) ==
  /\ req[r].pc = "get"
  /\ redis[Callee(req[r])] # NoEntry
  /\ LET q == req[r]
     IN  req' = [req EXCEPT ![r] =
           [q EXCEPT !.seen = redis[Callee(q)].seen, !.flag = TRUE,
                     !.pc = "query", !.step = 1]]
  /\ UNCHANGED <<now, db, redis>>

(* await redis.get(cacheKey) finds the key.                                *)
GetHit(r) ==
  /\ req[r].pc = "get"
  /\ redis[Callee(req[r])] # NoEntry
  /\ LET q == req[r]
     IN  req' = [req EXCEPT ![r] =
           Return([q EXCEPT !.seen = redis[Callee(q)].seen,
                            !.flag = HitFlag(Callee(q))], FALSE)]
  /\ UNCHANGED <<now, db, redis>>

GetMiss(r) ==
  /\ req[r].pc = "get"
  /\ redis[Callee(req[r])] = NoEntry
  /\ req' = [req EXCEPT ![r] = Missed(@)]
  /\ UNCHANGED <<now, db, redis>>

(* redis.get rejects: logged, and the method goes on as after a miss.      *)
GetFail(r) ==
  /\ req[r].pc = "get"
  /\ req' = [req EXCEPT ![r] = Missed(@)]
  /\ UNCHANGED <<now, db, redis>>

(* One awaited query, answered from the version in force.                  *)
Query(r) ==
  /\ req[r].pc = "query"
  /\ LET q == req[r]
         t == MethodOf(Callee(q)).reads[q.step + 1]
     IN  req' = [req EXCEPT ![r] =
           Proceed([q EXCEPT !.step = @ + 1,
                             !.seen = @ \cup {<<t, cur[t]>>}])]
  /\ UNCHANGED <<now, db, redis>>

(* A failed query taken for an empty result.                               *)
SwallowMutant(r) ==
  /\ req[r].pc = "query"
  /\ req' = [req EXCEPT ![r] = Proceed([@ EXCEPT !.step = @ + 1])]
  /\ UNCHANGED <<now, db, redis>>

(* A query rejects: nothing catches it, the client gets a 500.             *)
QueryFail(r) ==
  /\ req[r].pc = "query"
  /\ req' = [req EXCEPT ![r] = Answered(@, "error")]
  /\ UNCHANGED <<now, db, redis>>

(* await redis.set(...) resolves.                                          *)
SetOk(r) ==
  /\ req[r].pc = "set"
  /\ redis' = Stored(req[r])
  /\ req' = [req EXCEPT ![r] = Return(@, FALSE)]
  /\ UNCHANGED <<now, db>>

(* redis.set rejects, before or after Redis applied it: nothing catches it.*)
SetFail(r) ==
  /\ req[r].pc = "set"
  /\ redis' \in {redis, Stored(req[r])}
  /\ req' = [req EXCEPT ![r] = Answered(@, "error")]
  /\ UNCHANGED <<now, db>>

(* The connection drops after Redis applied the SET: the client library    *)
(* reconnects and sends the command again.                                 *)
SetResend(r) ==
  /\ req[r].pc = "set"
  /\ redis' = Stored(req[r])
  /\ UNCHANGED <<now, db, req>>

(* The process is killed and started again: Redis keeps its keys.          *)
Crash ==
  /\ \E r \in Requests : Busy(r)
  /\ req' = [r \in Requests |-> Idle]
  /\ UNCHANGED <<now, db, redis>>

(* The environment: the university's systems edit a table, a key is evicted*)
(* (or Redis restarts empty, key by key), and time passes. No request      *)
(* outlives MaxRequest: the drivers' own timeouts see to it.               *)
DbWrite(t) ==
  /\ cur[t] < MaxVersion
  /\ cur' = [cur EXCEPT ![t] = @ + 1]
  /\ born' = [born EXCEPT ![t][cur[t] + 1] = now]
  /\ \E R \in RowsOf(t) : rows' = [rows EXCEPT ![t][cur[t] + 1] = R]
  /\ UNCHANGED <<now, redis, req>>

Evict(k) ==
  /\ redis[k] # NoEntry
  /\ redis' = [redis EXCEPT ![k] = NoEntry]
  /\ UNCHANGED <<now, db, req>>

(* Keys whose EX has passed are gone.                                      *)
Tick ==
  /\ now < Horizon
  /\ \A r \in Requests : Busy(r) => now - req[r].started < MaxRequest
  /\ now' = now + 1
  /\ redis' = [k \in Keys |->
                 IF redis[k].exp <= now + 1 THEN NoEntry ELSE redis[k]]
  /\ UNCHANGED <<db, req>>

(* What ends a request's await: the reply, or the driver's error.          *)
Respond(r) ==
  \/ GetHit(r) \/ GetMiss(r) \/ GetFail(r)
  \/ Query(r) \/ QueryFail(r)
  \/ SetOk(r) \/ SetFail(r)

Next ==
  \/ \E r \in Requests : Respond(r)
  \/ \E r \in Requests : SetResend(r)
  \/ \E r \in Requests, e \in Endpoints : Start(r, e)
  \/ Crash
  \/ \E t \in Edited : DbWrite(t)
  \/ \E k \in Keys : Evict(k)
  \/ Tick

Spec == Init /\ [][Next]_vars

(* Every await of a request ends: each command and query is replied to or  *)
(* rejected by its driver. Nothing else is assumed to happen.              *)
FairSpec == Spec /\ \A r \in Requests : WF_vars(Respond(r))

-----------------------------------------------------------------------------
(* Properties.                                                             *)

Results == [null : BOOLEAN, isCache : BOOLEAN, seen : SUBSET Readings]

(* The states of the model have the shape the code's variables have.       *)
TypeOK ==
  /\ now \in 0..Horizon
  /\ cur \in [Tables -> Versions]
  /\ born \in [Tables -> [Versions -> 0..Horizon]]
  /\ rows \in [Tables -> [Versions -> SUBSET Keys]]
  /\ redis \in [Keys -> [seen : SUBSET Readings, exp : Nat]]
  /\ req \in [Requests ->
       [pc : {"idle", "get", "query", "set", "done"}, calls : Seq(Calls),
        at : Nat, inner : BOOLEAN, step : Nat, seen : SUBSET Readings,
        flag : BOOLEAN, items : Seq(Results), started : 0..Horizon,
        status : {"none", "ok", "notFound", "error"}]]

(* Version v of table t was in force at instant i or later.                *)
InForce(t, v, i) ==
  v = cur[t] \/ (v < cur[t] /\ born[t][v + 1] >= i)

AllInForce(seen, i) == \A x \in seen : InForce(x[1], x[2], i)

(* How old what a call returns may be when the request starts: what its    *)
(* key may hold, and for a count also what the counted list's key may hold.*)
(* A key set in tick n is last seen in tick n + ttl - 1.                   *)
Age(c) == IF Cached(c) THEN MethodOf(c).ttl + MaxRequest - 1 ELSE 0
Shelf(c) == IF c.op = "count" THEN Age(c) + Age(Inner(c)) ELSE Age(c)

(* Whatever the interleaving of reads, edits, SETs repeated or reordered,  *)
(* outages and restarts, a result was still in force one shelf life before *)
(* its request started: the EX of the SETs of schedule.service.ts bounds   *)
(* staleness, the count page's included, which adds up two caches.         *)
BoundedStaleness ==
  \A r \in Requests : \A i \in DOMAIN req[r].items :
    AllInForce(req[r].items[i].seen,
               req[r].started - Shelf(req[r].calls[i]))

(* The page's isCache taken from its first part only.                      *)
FirstIsCacheMutant(r) == req[r].items # << >> /\ req[r].items[1].isCache

PageIsCache(r) == \E i \in DOMAIN req[r].items : req[r].items[i].isCache

(* isCache tells the truth: an answer that does not set it was computed    *)
(* from data in force during the request, the count page included, whose   *)
(* isCache is the disjunction of its four (schedule.controller.ts).        *)
FreshUnlessFlagged ==
  \A r \in Requests :
    req[r].status = "ok" /\ ~PageIsCache(r) =>
      \A i \in DOMAIN req[r].items :
        AllInForce(req[r].items[i].seen, req[r].started)

Lister(c) == IF c.op = "count" THEN Inner(c) ELSE c
Decides(c) == MethodOf(Lister(c)).decide # Never

(* Absence is never cached: a null (a 404, an empty list, a null count) is *)
(* what the tables said during this very request, and data are returned    *)
(* only where the tables read had rows, however long ago they were read.   *)
NullIsFresh ==
  \A r \in Requests : \A i \in DOMAIN req[r].items :
    LET item == req[r].items[i]
        c    == Lister(req[r].calls[i])
    IN  /\ item.null => /\ Empty(c, item.seen)
                        /\ AllInForce(item.seen, req[r].started)
        /\ ~item.null /\ Decides(c) => ~Empty(c, item.seen)

(* No timetable is returned or cached in part: data come from every table  *)
(* the method reads, whatever failed on the way, and every Redis entry too.*)
NothingPartial ==
  /\ \A r \in Requests : \A i \in DOMAIN req[r].items :
       LET c == Lister(req[r].calls[i]) IN
       ~req[r].items[i].null =>
         {x[1] : x \in req[r].items[i].seen} = ReadsOf(c)
  /\ \A k \in Keys : redis[k] # NoEntry =>
         {x[1] : x \in redis[k].seen} = ReadsOf(Lister(k))

(* The queries of one method are not one transaction, so a result may mix  *)
(* two versions of the timetable; but never versions further apart than a  *)
(* request lasts, even when the mixture is served from the cache.          *)
BoundedSkew ==
  \A r \in Requests : \A i \in DOMAIN req[r].items :
    \A x, y \in req[r].items[i].seen :
      InForce(x[1], x[2], born[y[1]][y[2]] - MaxRequest)

(* No request hangs: with Redis or the database down it still ends, in an  *)
(* error if need be (each await of the handler settles).                   *)
EveryRequestEnds == \A r \in Requests : Busy(r) ~> ~Busy(r)
=============================================================================
