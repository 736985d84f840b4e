------------------------ MODULE ScheduleCacheProofs ------------------------
(***************************************************************************)
(* Proofs about ScheduleCache, for any requests, endpoints, TTLs and       *)
(* bounds: type correctness; that answers are no older than the shelf life *)
(* of what they return, and no older than the request when they do not say *)
(* isCache; that they are whole, their absences current, and no versions   *)
(* mixed that are further apart than a request lasts; and that             *)
(* ScheduleCache implements FreshnessContract.                             *)
(***************************************************************************)
EXTENDS ScheduleCacheContract, TLAPS

-----------------------------------------------------------------------------
(* Type correctness. The type invariant needs Shape: which service call a  *)
(* request is in, and that it never queries past the method's last table.  *)

Requested ==
  [pc : {"idle", "get", "query", "set", "done"}, calls : Seq(Calls),
   at : Nat, inner : BOOLEAN, step : Nat, seen : SUBSET Readings,
   flag : BOOLEAN, items : Seq(Results), started : 0..Horizon,
   status : {"none", "ok", "notFound", "error"}]

MethodType == [reads : Seq(Tables), decide : Nat, ttl : Nat,
               isCache : {"undefined"}]

(* A request that is being served is in one of the calls of its endpoint,  *)
(* has the results of the calls before it, and is inside another method    *)
(* only if that call is getCount.                                          *)
InCall(q) ==
  /\ q.calls \in Endpoints
  /\ q.at \in 1..Len(q.calls)
  /\ q.inner => q.calls[q.at].op = "count"
  /\ Len(q.items) = q.at - 1

(* What a request awaits is there to be asked for: a key of Redis, or one  *)
(* more table.                                                             *)
Awaits(q) ==
  /\ q.pc \in {"get", "set"} => Cached(Callee(q))
  /\ q.pc = "query" => q.step < Len(MethodOf(Callee(q)).reads)

Shape(q) ==
  q.pc \in {"get", "query", "set"} => InCall(q) /\ Awaits(q)

TypeInv == TypeOK /\ \A r \in Requests : Shape(req[r])

-----------------------------------------------------------------------------
(* Each method's description has the shape of a description: its tables    *)
(* are tables, its EX a number of ticks (schedule.service.ts).             *)
LEMMA MethodTyped ==
  ASSUME NEW c \in Calls PROVE MethodOf(c) \in MethodType
<1>1. TtlShort \in Nat /\ TtlLong \in Nat
  BY BoundsAssumption
<1>2. /\ Timetable(c) \in Seq(Tables) /\ Len(Timetable(c)) \in Nat
      /\ Append(Timetable(c), "prep") \in Seq(Tables)
  <2>1. <<"raspzv", "examen">> \in Seq(Tables) /\ <<"raspzv">> \in Seq(Tables)
    BY DEF Tables
  <2>2. Timetable(c) \in Seq(Tables)
    BY <2>1 DEF Timetable
  <2>3. "prep" \in Tables
    BY DEF Tables
  <2> QED
    BY <2>2, <2>3
<1>3. WeekQueries \in Seq(Tables) /\ <<"raspzv">> \in Seq(Tables)
  BY DEF WeekQueries, Tables
<1>4. (<<"raspzv">> \o WeekQueries) \in Seq(Tables)
  BY <1>3
<1>5. getByGroupAsWeek(c) \in MethodType
  BY <1>1, <1>3, <1>4 DEF getByGroupAsWeek, Method, MethodType, Never
<1>6. /\ getByGroup(c) \in MethodType /\ getByAudience(c) \in MethodType
      /\ getByTeacher(c) \in MethodType
  BY <1>1, <1>2
  DEF getByGroup, getByAudience, getByTeacher, Method, MethodType
<1>7. /\ getGroups(c) \in MethodType /\ getTeachersBySchedule(c) \in MethodType
      /\ getAudiencesBySchedule(c) \in MethodType /\ getCount(c) \in MethodType
      /\ getAudiences(c) \in MethodType
      /\ getScheduleSemesters(c) \in MethodType
  BY <1>1
  DEF getGroups, getTeachersBySchedule, getAudiencesBySchedule, getCount,
      getAudiences, getScheduleSemesters, Method, MethodType, Tables, Never
<1>8. c.op \in Ops
  BY DEF Calls
<1> QED
  BY <1>5, <1>6, <1>7, <1>8 DEF MethodOf, Ops

(* What getCount calls is never getCount itself, and always cached.        *)
LEMMA InnerTyped ==
  ASSUME NEW c \in Calls
  PROVE  /\ Inner(c) \in Calls
         /\ Inner(c).op \in {"groups", "audiences", "teachers"}
         /\ Cached(Inner(c))
<1> DEFINE call(op, arg) == [op |-> op, sid |-> c.sid, arg |-> arg]
<1>1. \/ Inner(c) = call("groups", "names")
      \/ Inner(c) = call("audiences", "")
      \/ Inner(c) = call("teachers", "")
  BY DEF Inner
<1>2. c.sid \in Int
  BY DEF Calls
<1>3. ASSUME NEW op \in {"groups", "audiences", "teachers"},
             NEW arg \in Arguments
      PROVE  call(op, arg) \in Calls /\ call(op, arg).op = op
  <2>1. op \in Ops
    BY DEF Ops
  <2> QED
    BY <1>2, <2>1 DEF Calls
<1>4. "" \in Arguments /\ "names" \in Arguments
  BY EndpointsAssumption
<1> QED
  BY <1>1, <1>3, <1>4 DEF Cached

(* The method a served request is in is one of those Keys is made of.      *)
LEMMA CalleeTyped ==
  ASSUME NEW q \in Requested, InCall(q)
  PROVE  /\ q.calls \in Seq(Calls)
         /\ q.calls[q.at] \in Calls
         /\ Callee(q) \in Calls
         /\ Cached(Callee(q)) => Callee(q) \in Keys
<1>1. q.calls \in Seq(Calls) /\ q.at \in 1..Len(q.calls) /\ q.inner \in BOOLEAN
  BY DEF Requested, InCall
<1>2. q.calls[q.at] \in Calls
  BY <1>1
<1>3. q.calls[q.at] \in Called
  <2>1. q.calls \in Endpoints /\ q.at \in DOMAIN q.calls
    BY <1>1 DEF InCall
  <2> QED
    BY <2>1 DEF Called
<1>4. Callee(q) \in Calls
  BY <1>1, <1>2, InnerTyped DEF Callee
<1>5. ASSUME Cached(Callee(q)) PROVE Callee(q) \in Keys
  <2>1. CASE q.inner
    <3>1. q.calls[q.at].op = "count"
      BY <2>1 DEF InCall
    <3> QED
      BY <1>3, <2>1, <3>1 DEF Callee, Keys
  <2>2. CASE ~q.inner
    BY <1>3, <1>5, <2>2 DEF Callee, Keys
  <2> QED
    BY <2>1, <2>2
<1> QED
  BY <1>1, <1>2, <1>4, <1>5

(* The state a handler starts a service call in.                           *)
LEMMA EnterTyped ==
  ASSUME NEW q \in Requested,
         q.calls \in Endpoints, q.at \in 1..Len(q.calls),
         Len(q.items) = q.at - 1
  PROVE  Enter(q) \in Requested /\ InCall(Enter(q)) /\ Awaits(Enter(q))
<1> DEFINE e == Enter(q)
           c == q.calls[q.at]
<1>1. e \in Requested
  BY DEF Enter, Requested
<1>2. /\ e.calls = q.calls /\ e.at = q.at /\ e.inner = FALSE
      /\ e.items = q.items /\ e.step = 0
      /\ e.pc = IF Cached(c) THEN "get" ELSE "query"
  BY DEF Enter, Requested
<1>3. InCall(e)
  BY <1>2 DEF InCall
<1>4. Callee(e) = c /\ c \in Calls
  BY <1>1, <1>2, <1>3, CalleeTyped DEF Callee
<1>5. ~Cached(c) => Len(MethodOf(c).reads) = 1
  BY <1>4 DEF Cached, MethodOf, getAudiences, getScheduleSemesters, Method
<1> HIDE DEF e, c
<1>6. Awaits(e)
  <2>1. CASE Cached(c)
    <3>1. e.pc = "get"
      BY <1>2, <2>1
    <3> QED
      BY <1>4, <2>1, <3>1 DEF Awaits
  <2>2. CASE ~Cached(c)
    <3>1. e.pc = "query" /\ e.step = 0
      BY <1>2, <2>2
    <3>2. Len(MethodOf(Callee(e)).reads) = 1
      BY <1>4, <1>5, <2>2
    <3> QED
      BY <3>1, <3>2 DEF Awaits
  <2> QED
    BY <2>1, <2>2
<1> QED
  BY <1>1, <1>3, <1>6 DEF e

(* A method returning to its caller, whatever it returns.                  *)
LEMMA ReturnTyped ==
  ASSUME NEW q \in Requested, InCall(q), NEW null \in BOOLEAN
  PROVE  Return(q, null) \in Requested /\ Shape(Return(q, null))
<1> DEFINE result == [null |-> null, isCache |-> q.flag, seen |-> q.seen]
           got    == [q EXCEPT !.items = Append(@, result)]
           next   == [got EXCEPT !.at = @ + 1]
           set    == [q EXCEPT !.pc = "set", !.inner = FALSE, !.step = 0]
<1>1. result \in Results
  BY DEF Results, Requested
<1>2. /\ got \in Requested /\ got.calls = q.calls /\ got.at = q.at
      /\ got.items = Append(q.items, result)
  <2>1. Append(q.items, result) \in Seq(Results)
    BY <1>1 DEF Requested
  <2> HIDE DEF result
  <2> QED
    BY <2>1 DEF Requested
<1>3. CASE q.inner /\ ~null
  <2>1. Return(q, null) = set
    BY <1>3 DEF Return
  <2>2. /\ set \in Requested /\ set.calls = q.calls /\ set.at = q.at
        /\ set.inner = FALSE /\ set.items = q.items /\ set.pc = "set"
    BY DEF Requested
  <2>3. InCall(set)
    BY <2>2 DEF InCall
  <2>4. Callee(set).op = "count"
    BY <1>3, <2>2 DEF Callee, InCall
  <2>5. Awaits(set)
    BY <2>2, <2>4 DEF Awaits, Cached
  <2> QED
    BY <2>1, <2>2, <2>3, <2>5 DEF Shape
<1>4. CASE ~(q.inner /\ ~null) /\ q.at < Len(q.calls)
  <2>1. Return(q, null) = Enter(next)
    BY <1>4, <1>2 DEF Return
  <2>2. /\ next \in Requested /\ next.calls = q.calls /\ next.at = q.at + 1
        /\ next.items = Append(q.items, result)
    <3> HIDE DEF got, result
    <3>1. got.at \in Nat /\ got.at + 1 \in Nat
      BY <1>2 DEF Requested
    <3> QED
      BY <1>2, <3>1 DEF Requested
  <2>3. Len(next.items) = next.at - 1
    BY <1>1, <2>2 DEF Requested, InCall
  <2>4. next.calls \in Endpoints /\ next.at \in 1..Len(next.calls)
    BY <1>4, <2>2, CalleeTyped DEF InCall
  <2> QED
    BY <2>1, <2>2, <2>3, <2>4, EnterTyped DEF Shape
<1>5. CASE ~(q.inner /\ ~null) /\ ~(q.at < Len(q.calls))
  <2>1. \E status \in {"ok", "notFound"} :
          Return(q, null) = Answered(got, status)
    BY <1>5 DEF Return
  <2>2. ASSUME NEW status \in {"ok", "notFound"}
        PROVE  /\ Answered(got, status) \in Requested
               /\ Answered(got, status).pc = "done"
    BY <1>2 DEF Answered, Requested
  <2> QED
    BY <2>1, <2>2 DEF Shape
<1> QED
  BY <1>3, <1>4, <1>5

(* Between two queries of a method.                                        *)
LEMMA ProceedTyped ==
  ASSUME NEW q \in Requested, InCall(q)
  PROVE  Proceed(q) \in Requested /\ Shape(Proceed(q))
<1> DEFINE m == MethodOf(Callee(q))
           p == Proceed(q)
<1>1. Return(q, TRUE) \in Requested /\ Shape(Return(q, TRUE))
  BY ReturnTyped
<1>2. Return(q, FALSE) \in Requested /\ Shape(Return(q, FALSE))
  BY ReturnTyped
<1>3. ASSUME p = [q EXCEPT !.pc = "query"], q.step < Len(m.reads)
      PROVE  p \in Requested /\ Shape(p)
  <2>1. /\ p \in Requested /\ p.pc = "query" /\ p.step = q.step
        /\ p.calls = q.calls /\ p.at = q.at /\ p.inner = q.inner
        /\ p.items = q.items
    BY <1>3 DEF Requested
  <2>2. Callee(p) = Callee(q)
    BY <2>1 DEF Callee
  <2> QED
    BY <1>3, <2>1, <2>2 DEF Shape, InCall, Awaits
<1>4. ASSUME p = [q EXCEPT !.pc = "set", !.step = 0], Cached(Callee(q))
      PROVE  p \in Requested /\ Shape(p)
  <2>1. /\ p \in Requested /\ p.pc = "set"
        /\ p.calls = q.calls /\ p.at = q.at /\ p.inner = q.inner
        /\ p.items = q.items
    <3> DEFINE s == [q EXCEPT !.pc = "set", !.step = 0]
    <3>1. /\ s \in Requested /\ s.pc = "set"
          /\ s.calls = q.calls /\ s.at = q.at /\ s.inner = q.inner
          /\ s.items = q.items
      BY DEF Requested
    <3> QED
      BY <1>4, <3>1
  <2>2. Callee(p) = Callee(q)
    BY <2>1 DEF Callee
  <2> QED
    BY <1>4, <2>1, <2>2 DEF Shape, InCall, Awaits
<1> QED
  BY <1>1, <1>2, <1>3, <1>4 DEF Proceed

(* After a GET that gave nothing.                                          *)
LEMMA MissedTyped ==
  ASSUME NEW q \in Requested, InCall(q), q.pc = "get"
  PROVE  Missed(q) \in Requested /\ Shape(Missed(q))
<1> DEFINE n == [q EXCEPT !.inner = TRUE]
<1>1. CASE Callee(q).op = "count"
  <2>1. /\ n \in Requested /\ n.pc = "get" /\ n.inner = TRUE
        /\ n.calls = q.calls /\ n.at = q.at /\ n.items = q.items
    BY DEF Requested
  <2>2. Callee(q) = q.calls[q.at]
    BY <1>1, CalleeTyped, InnerTyped DEF Callee
  <2>3. Callee(n) = Inner(q.calls[q.at]) /\ Cached(Callee(n))
    BY <2>1, CalleeTyped, InnerTyped DEF Callee
  <2>4. Shape(n)
    BY <1>1, <2>1, <2>2, <2>3 DEF Shape, InCall, Awaits
  <2> QED
    BY <1>1, <2>1, <2>4 DEF Missed
<1>2. CASE Callee(q).op # "count"
  BY <1>2, ProceedTyped DEF Missed
<1> QED
  BY <1>1, <1>2

-----------------------------------------------------------------------------
EntryType == [seen : SUBSET Readings, exp : Nat]

(* A request that is being served and what it may look up.                 *)
LEMMA ServedTyped ==
  ASSUME TypeInv, NEW r \in Requests
  PROVE  /\ req[r] \in Requested
         /\ Busy(r) => InCall(req[r]) /\ Awaits(req[r])
         /\ req[r].pc \in {"get", "set"} => Callee(req[r]) \in Keys
<1>1. req[r] \in Requested /\ Shape(req[r])
  BY DEF TypeInv, TypeOK, Requested
<1> QED
  BY <1>1, CalleeTyped DEF Shape, Busy, Awaits

(* What a SET leaves in Redis is an entry.                                 *)
LEMMA StoredTyped ==
  ASSUME TypeInv, NEW r \in Requests, req[r].pc = "set"
  PROVE  Stored(req[r]) \in [Keys -> EntryType]
<1> DEFINE q == req[r]
           k == Callee(q)
<1>1. q \in Requested /\ k \in Keys /\ InCall(q)
  BY ServedTyped DEF Busy
<1>2. MethodOf(k).ttl \in Nat
  BY <1>1, CalleeTyped, MethodTyped DEF MethodType
<1>3. q.seen \in SUBSET Readings /\ now \in Nat /\ redis \in [Keys -> EntryType]
  BY <1>1, BoundsAssumption DEF Requested, TypeInv, TypeOK, EntryType
<1>4. [seen |-> q.seen, exp |-> now + MethodOf(k).ttl] \in EntryType
  BY <1>2, <1>3 DEF EntryType
<1> QED
  BY <1>3, <1>4 DEF Stored

(* A step of one request keeps the type invariant if its new local state   *)
(* is well formed.                                                         *)
LEMMA RequestStep ==
  ASSUME TypeInv, NEW r \in Requests,
         NEW q \in Requested, Shape(q),
         req' = [req EXCEPT ![r] = q],
         redis' \in [Keys -> EntryType],
         UNCHANGED <<now, db>>
  PROVE  TypeInv'
<1>1. req \in [Requests -> Requested]
  BY DEF TypeInv, TypeOK, Requested
<1>2. req' \in [Requests -> Requested]
  BY <1>1
<1>3. \A p \in Requests : Shape(req'[p])
  BY <1>1 DEF TypeInv
<1>4. TypeOK'
  BY <1>2 DEF TypeInv, TypeOK, db, EntryType, Requested
<1> QED
  BY <1>3, <1>4 DEF TypeInv

(* Versions of a table have rows for keys only.                            *)
LEMMA RowsTyped ==
  ASSUME NEW t, NEW R \in RowsOf(t) PROVE R \in SUBSET Keys
BY DEF RowsOf, Readers

(* A request slot before its first request.                                *)
LEMMA IdleTyped ==
  /\ Idle \in Requested /\ Shape(Idle)
  /\ \A e \in Endpoints, i \in 0..Horizon :
       LET q == [Idle EXCEPT !.calls = e, !.started = i]
       IN  /\ q \in Requested /\ q.calls = e /\ q.at = 1 /\ q.items = << >>
           /\ 1 \in 1..Len(e)
<1>1. 0 \in 0..Horizon /\ << >> \in Seq(Calls) /\ << >> \in Seq(Results)
  BY BoundsAssumption
<1>2. Idle \in Requested /\ Shape(Idle)
  BY <1>1 DEF Idle, Requested, Shape
<1>3. ASSUME NEW e \in Endpoints, NEW i \in 0..Horizon
      PROVE  LET q == [Idle EXCEPT !.calls = e, !.started = i]
             IN  /\ q \in Requested /\ q.calls = e /\ q.at = 1
                 /\ q.items = << >> /\ 1 \in 1..Len(e)
  <2>1. e \in Seq(Calls) /\ e # << >>
    BY EndpointsAssumption
  <2>2. 1 \in 1..Len(e)
    BY <2>1
  <2> QED
    BY <1>1, <2>1, <2>2 DEF Idle, Requested
<1> QED
  BY <1>2, <1>3

(* A service that has just started.                                        *)
LEMMA InitTyped == Init => TypeInv
<1> SUFFICES ASSUME Init PROVE TypeInv
  OBVIOUS
<1>1. now \in 0..Horizon /\ 0 \in Versions
  BY BoundsAssumption DEF Init, Versions
<1>2. /\ cur \in [Tables -> Versions]
      /\ born \in [Tables -> [Versions -> 0..Horizon]]
  BY <1>1 DEF Init
<1>3. rows \in [Tables -> [Versions -> SUBSET Keys]]
  <2>1. PICK lessons \in RowsOf("raspzv"), exams \in RowsOf("examen") :
          rows = [t \in Tables |-> [v \in Versions |->
                    CASE v = 0 /\ t = "raspzv" -> lessons
                      [] v = 0 /\ t = "examen" -> exams
                      [] OTHER -> {}]]
    BY DEF Init
  <2>2. lessons \in SUBSET Keys /\ exams \in SUBSET Keys
    BY RowsTyped
  <2> QED
    BY <2>1, <2>2
<1>4. redis \in [Keys -> EntryType]
  BY DEF Init, NoEntry, EntryType
<1>5. req \in [Requests -> Requested] /\ \A r \in Requests : Shape(req[r])
  BY IdleTyped DEF Init
<1> QED
  BY <1>1, <1>2, <1>3, <1>4, <1>5
  DEF TypeInv, TypeOK, EntryType, Requested

(* No step of a request, of the environment or of a restart breaks it.     *)
LEMMA NextTyped == TypeInv /\ [Next]_vars => TypeInv'
<1> SUFFICES ASSUME TypeInv, [Next]_vars PROVE TypeInv'
  OBVIOUS
<1> USE DEF EntryType
<1>1. redis \in [Keys -> EntryType] /\ now \in 0..Horizon
  BY DEF TypeInv, TypeOK
<1>2. ASSUME NEW r \in Requests, NEW e \in Endpoints, Start(r, e) PROVE TypeInv'
  <2> DEFINE q == [Idle EXCEPT !.calls = e, !.started = now]
  <2>1. Enter(q) \in Requested /\ Shape(Enter(q))
    <3>1. /\ q \in Requested /\ q.calls = e /\ q.at = 1 /\ q.items = << >>
          /\ 1 \in 1..Len(e)
      BY <1>1, IdleTyped
    <3> HIDE DEF q
    <3> QED
      BY <3>1, EnterTyped DEF Shape
  <2> HIDE DEF q
  <2>2. req' = [req EXCEPT ![r] = Enter(q)] /\ UNCHANGED <<now, db, redis>>
    BY <1>2 DEF Start, q
  <2> QED
    BY <1>1, <2>1, <2>2, RequestStep
<1>3. ASSUME NEW r \in Requests, GetHit(r) PROVE TypeInv'
  <2> DEFINE q == req[r]
             h == [q EXCEPT !.seen = redis[Callee(q)].seen,
                            !.flag = HitFlag(Callee(q))]
  <2>1. q \in Requested /\ InCall(q) /\ Callee(q) \in Keys
    BY <1>3, ServedTyped DEF GetHit, Busy
  <2>2. redis[Callee(q)].seen \in SUBSET Readings /\ HitFlag(Callee(q)) \in BOOLEAN
    BY <1>1, <2>1 DEF HitFlag
  <2>3. /\ h \in Requested /\ h.calls = q.calls /\ h.at = q.at
        /\ h.inner = q.inner /\ h.items = q.items
    BY <2>1, <2>2 DEF Requested
  <2>4. req' = [req EXCEPT ![r] = Return(h, FALSE)] /\ UNCHANGED <<now, db, redis>>
    BY <1>3 DEF GetHit
  <2> HIDE DEF q, h
  <2>5. InCall(h)
    BY <2>1, <2>3 DEF InCall
  <2>6. Return(h, FALSE) \in Requested /\ Shape(Return(h, FALSE))
    BY <2>3, <2>5, ReturnTyped
  <2> QED
    BY <1>1, <2>4, <2>6, RequestStep
<1>4. ASSUME NEW r \in Requests, GetMiss(r) \/ GetFail(r) PROVE TypeInv'
  <2>1. req' = [req EXCEPT ![r] = Missed(req[r])] /\ UNCHANGED <<now, db, redis>>
    BY <1>4 DEF GetMiss, GetFail
  <2>2. req[r] \in Requested /\ InCall(req[r]) /\ req[r].pc = "get"
    BY <1>4, ServedTyped DEF GetMiss, GetFail, Busy
  <2>3. Missed(req[r]) \in Requested /\ Shape(Missed(req[r]))
    BY <2>2, MissedTyped
  <2> QED
    BY <1>1, <2>1, <2>3, RequestStep
<1>5. ASSUME NEW r \in Requests, Query(r) PROVE TypeInv'
  <2> DEFINE q == req[r]
             t == MethodOf(Callee(q)).reads[q.step + 1]
             x == <<t, cur[t]>>
             n == [q EXCEPT !.step = @ + 1, !.seen = @ \cup {x}]
  <2>1. /\ q \in Requested /\ InCall(q) /\ Callee(q) \in Calls
        /\ q.step < Len(MethodOf(Callee(q)).reads)
    BY <1>5, ServedTyped, CalleeTyped DEF Query, Busy, Awaits
  <2>2. t \in Tables
    <3>1. MethodOf(Callee(q)).reads \in Seq(Tables)
      BY <2>1, MethodTyped DEF MethodType
    <3> QED
      BY <2>1, <3>1 DEF Requested
  <2>3. x \in Readings
    BY <2>2 DEF TypeInv, TypeOK, Readings
  <2>4. req' = [req EXCEPT ![r] = Proceed(n)] /\ UNCHANGED <<now, db, redis>>
    BY <1>5 DEF Query
  <2> HIDE DEF t, x
  <2>5. /\ n \in Requested /\ n.calls = q.calls /\ n.at = q.at
        /\ n.inner = q.inner /\ n.items = q.items
    <3> HIDE DEF q
    <3>1. q.step + 1 \in Nat /\ q.seen \cup {x} \in SUBSET Readings
      BY <2>1, <2>3 DEF Requested
    <3> QED
      BY <2>1, <3>1 DEF Requested
  <2> HIDE DEF q, n
  <2>6. InCall(n)
    BY <2>1, <2>5 DEF InCall
  <2>7. Proceed(n) \in Requested /\ Shape(Proceed(n))
    BY <2>5, <2>6, ProceedTyped
  <2> QED
    BY <1>1, <2>4, <2>7, RequestStep
<1>6. ASSUME NEW r \in Requests PROVE
        Answered(req[r], "error") \in Requested /\ Shape(Answered(req[r], "error"))
  BY ServedTyped DEF Answered, Requested, Shape
<1>7. ASSUME NEW r \in Requests, QueryFail(r) PROVE TypeInv'
  <2>1. /\ req' = [req EXCEPT ![r] = Answered(req[r], "error")]
        /\ UNCHANGED <<now, db, redis>>
    BY <1>7 DEF QueryFail
  <2> QED
    BY <1>1, <1>6, <2>1, RequestStep
<1>8. ASSUME NEW r \in Requests, SetOk(r) PROVE TypeInv'
  <2>1. /\ req' = [req EXCEPT ![r] = Return(req[r], FALSE)]
        /\ redis' = Stored(req[r]) /\ UNCHANGED <<now, db>>
    BY <1>8 DEF SetOk
  <2>2. req[r] \in Requested /\ InCall(req[r]) /\ req[r].pc = "set"
    BY <1>8, ServedTyped DEF SetOk, Busy
  <2>3. Return(req[r], FALSE) \in Requested /\ Shape(Return(req[r], FALSE))
    BY <2>2, ReturnTyped
  <2> QED
    BY <2>1, <2>2, <2>3, StoredTyped, RequestStep
<1>9. ASSUME NEW r \in Requests, SetFail(r) PROVE TypeInv'
  <2>1. /\ req' = [req EXCEPT ![r] = Answered(req[r], "error")]
        /\ redis' \in {redis, Stored(req[r])} /\ UNCHANGED <<now, db>>
        /\ req[r].pc = "set"
    BY <1>9 DEF SetFail
  <2> QED
    BY <1>1, <1>6, <2>1, StoredTyped, RequestStep
<1>10. ASSUME NEW r \in Requests, SetResend(r) PROVE TypeInv'
  <2>1. redis' \in [Keys -> EntryType] /\ UNCHANGED <<now, db, req>>
    BY <1>10, StoredTyped DEF SetResend
  <2> QED
    BY <2>1 DEF TypeInv, TypeOK, db
<1>11. ASSUME Crash PROVE TypeInv'
  <2>1. req' \in [Requests -> Requested] /\ \A r \in Requests : Shape(req'[r])
    BY <1>11, IdleTyped DEF Crash
  <2> QED
    BY <1>11, <2>1 DEF Crash, TypeInv, TypeOK, db, Requested
<1>12. ASSUME NEW t \in Edited, DbWrite(t) PROVE TypeInv'
  <2>1. t \in Tables /\ cur[t] + 1 \in Versions /\ cur \in [Tables -> Versions]
    BY <1>12, BoundsAssumption DEF DbWrite, TypeInv, TypeOK, Versions
  <2>2. cur' \in [Tables -> Versions]
    BY <1>12, <2>1 DEF DbWrite
  <2>3. born' \in [Tables -> [Versions -> 0..Horizon]]
    BY <1>1, <1>12, <2>1 DEF DbWrite, TypeInv, TypeOK
  <2>4. rows' \in [Tables -> [Versions -> SUBSET Keys]]
    BY <1>12, <2>1, RowsTyped DEF DbWrite, TypeInv, TypeOK
  <2> QED
    BY <1>12, <2>2, <2>3, <2>4 DEF DbWrite, TypeInv, TypeOK
<1>13. NoEntry \in EntryType
  BY DEF NoEntry
<1>14. ASSUME NEW k \in Keys, Evict(k) PROVE TypeInv'
  <2>1. redis' \in [Keys -> EntryType] /\ UNCHANGED <<now, db, req>>
    BY <1>1, <1>13, <1>14 DEF Evict
  <2> QED
    BY <2>1 DEF TypeInv, TypeOK, db
<1>15. ASSUME Tick PROVE TypeInv'
  <2>1. redis' \in [Keys -> EntryType] /\ UNCHANGED <<db, req>>
    BY <1>1, <1>13, <1>15 DEF Tick
  <2>2. now' \in 0..Horizon
    BY <1>1, <1>15, BoundsAssumption DEF Tick
  <2> QED
    BY <2>1, <2>2 DEF TypeInv, TypeOK, db
<1>16. ASSUME UNCHANGED vars PROVE TypeInv'
  BY <1>16 DEF vars, db, TypeInv, TypeOK
<1> QED
  BY <1>2, <1>3, <1>4, <1>5, <1>7, <1>8, <1>9, <1>10, <1>11, <1>12, <1>14,
     <1>15, <1>16
  DEF Next, Respond

(* The handlers of schedule.controller.ts and the methods of               *)
(* schedule.service.ts never leave the states the types allow, and never   *)
(* query a table or a key their method does not have.                      *)
THEOREM TypeCorrect == Spec => []TypeOK
<1>1. Init => TypeInv
  BY InitTyped
<1>2. TypeInv /\ [Next]_vars => TypeInv'
  BY NextTyped
<1>3. TypeInv => TypeOK
  BY DEF TypeInv
<1> QED
  BY <1>1, <1>2, <1>3, PTL DEF Spec

-----------------------------------------------------------------------------
(* Age. BoundedStaleness is not inductive: a result's age comes from the   *)
(* age of the Redis entry it was read from, and that from the age of what  *)
(* the request that wrote the entry held. FreshInv bounds all three.       *)

(* The results a request already has.                                      *)
AgedItems(q) ==
  /\ q.started <= now
  /\ Len(q.items) <= Len(q.calls)
  /\ \A i \in DOMAIN q.items :
       /\ AllInForce(q.items[i].seen, q.started - Shelf(q.calls[i]))
       /\ ~q.items[i].isCache => AllInForce(q.items[i].seen, q.started)

(* What a request has read so far: from the tables, or, on its way to      *)
(* getCount's own SET, from the entry of the list it counted.              *)
Aged(q) ==
  /\ now - q.started <= MaxRequest
  /\ q.flag => /\ q.pc = "set" /\ ~q.inner /\ q.calls[q.at].op = "count"
               /\ AllInForce(q.seen, q.started - Age(Inner(q.calls[q.at])))
  /\ ~q.flag => AllInForce(q.seen, q.started)

Fresh(q) ==
  /\ AgedItems(q)
  /\ q.pc \in {"get", "query", "set"} => Aged(q)

(* What Redis holds, reckoned back from when it expires.                   *)
AgedEntry(k) ==
  /\ redis[k] = NoEntry \/ now < redis[k].exp
  /\ redis[k].exp - Shelf(k) - 1 <= now
  /\ AllInForce(redis[k].seen, redis[k].exp - Shelf(k) - 1)

FreshInv ==
  /\ TypeInv
  /\ \A r \in Requests : Fresh(req[r])
  /\ \A k \in Keys : AgedEntry(k)

-----------------------------------------------------------------------------
(* Shelf lives are numbers of ticks, and a count's covers its list's.      *)
LEMMA ShelfTyped ==
  ASSUME NEW c \in Calls
  PROVE  /\ Age(c) \in Nat /\ Shelf(c) \in Nat
         /\ MethodOf(c).ttl \in Nat
         /\ Cached(c) => Age(c) = MethodOf(c).ttl + MaxRequest - 1
                         /\ MethodOf(c).ttl > 0
         /\ c.op # "count" => Shelf(c) = Age(c)
         /\ c.op = "count" => /\ Age(Inner(c)) \in Nat
                              /\ Shelf(c) = Age(c) + Age(Inner(c))
<1>1. ASSUME NEW d \in Calls
      PROVE  /\ MethodOf(d).ttl \in Nat /\ Age(d) \in Nat
             /\ Cached(d) => Age(d) = MethodOf(d).ttl + MaxRequest - 1
                             /\ MethodOf(d).ttl > 0
  <2>1. MethodOf(d).ttl \in Nat
    BY MethodTyped DEF MethodType
  <2>2. Cached(d) => MethodOf(d).ttl \in {TtlShort, TtlLong}
    <3>1. getByGroupAsWeek(d).ttl = TtlShort
      BY DEF getByGroupAsWeek, Method
    <3> QED
      BY <3>1
      DEF Cached, MethodOf, getByGroup, getByAudience, getByTeacher, getGroups,
          getTeachersBySchedule, getAudiencesBySchedule, getCount, Method,
          Calls, Ops
  <2>3. Cached(d) => MethodOf(d).ttl > 0
    BY <2>2, BoundsAssumption
  <2> QED
    BY <2>1, <2>3, BoundsAssumption DEF Age
<1> QED
  BY <1>1, InnerTyped DEF Shelf

(* Keys are calls.                                                         *)
LEMMA KeysTyped == Keys \subseteq Calls
<1>1. Called \subseteq Calls
  <2>1. ASSUME NEW e \in Endpoints, NEW i \in DOMAIN e PROVE e[i] \in Calls
    <3>1. e \in Seq(Calls)
      BY EndpointsAssumption
    <3> QED
      BY <3>1
  <2> QED
    BY <2>1 DEF Called
<1> QED
  BY <1>1, InnerTyped DEF Keys

(* What was in force at an instant or later was so at any earlier instant. *)
LEMMA InForceEarlier ==
  ASSUME TypeOK, NEW seen \in SUBSET Readings,
         NEW i \in Int, NEW j \in Int, j <= i, AllInForce(seen, i)
  PROVE  AllInForce(seen, j)
<1>1. ASSUME NEW x \in seen, InForce(x[1], x[2], i)
      PROVE  InForce(x[1], x[2], j)
  <2>1. x[1] \in Tables /\ x[2] \in Versions /\ cur[x[1]] \in Versions
    BY DEF Readings, TypeOK
  <2>2. x[2] < cur[x[1]] => born[x[1]][x[2] + 1] \in Int
    <3>1. MaxVersion \in Nat /\ Horizon \in Nat
      BY BoundsAssumption
    <3>2. born[x[1]] \in [Versions -> 0..Horizon]
      BY <2>1 DEF TypeOK
    <3>3. x[2] < cur[x[1]] => x[2] + 1 \in Versions
      BY <2>1, <3>1 DEF Versions
    <3> QED
      BY <3>1, <3>2, <3>3
  <2> QED
    BY <1>1, <2>2 DEF InForce
<1> QED
  BY <1>1 DEF AllInForce

(* A version just read is in force.                                        *)
LEMMA InForceNow ==
  ASSUME NEW seen, NEW t, NEW i, AllInForce(seen, i)
  PROVE  AllInForce(seen \cup {<<t, cur[t]>>}, i)
BY DEF AllInForce, InForce

-----------------------------------------------------------------------------
(* Entering a service call forgets what the last one read.                 *)
LEMMA EnterFresh ==
  ASSUME NEW q \in Requested, AgedItems(q), now - q.started <= MaxRequest
  PROVE  Fresh(Enter(q))
<1> DEFINE e == Enter(q)
<1>1. /\ e.started = q.started /\ e.items = q.items /\ e.calls = q.calls
      /\ e.seen = {} /\ e.flag = FALSE
  BY DEF Enter, Requested
<1> HIDE DEF e
<1> QED
  BY <1>1 DEF Fresh, AgedItems, Aged, AllInForce, e

(* A method returning what it may return: not older than its shelf life,   *)
(* nor than the request unless it says isCache.                            *)
LEMMA ReturnFresh ==
  ASSUME TypeOK, NEW q \in Requested, InCall(q), AgedItems(q),
         now - q.started <= MaxRequest, NEW null \in BOOLEAN,
         AllInForce(q.seen, q.started - Shelf(Callee(q))),
         ~q.flag => AllInForce(q.seen, q.started)
  PROVE  Fresh(Return(q, null))
<1> DEFINE result == [null |-> null, isCache |-> q.flag, seen |-> q.seen]
           got    == [q EXCEPT !.items = Append(@, result)]
           next   == [got EXCEPT !.at = @ + 1]
           set    == [q EXCEPT !.pc = "set", !.inner = FALSE, !.step = 0]
           c      == q.calls[q.at]
<1>1. /\ c \in Calls /\ Callee(q) \in Calls
      /\ q.seen \in SUBSET Readings /\ q.started \in Int
      /\ q.inner \in BOOLEAN /\ q.flag \in BOOLEAN /\ q.at \in Nat
  BY CalleeTyped, BoundsAssumption DEF Requested
<1>2. CASE q.inner /\ ~null
  <2>1. /\ set.pc = "set" /\ set.inner = FALSE /\ set.calls = q.calls
        /\ set.at = q.at /\ set.items = q.items /\ set.seen = q.seen
        /\ set.flag = q.flag /\ set.started = q.started
    BY DEF Requested
  <2>2. c.op = "count" /\ Callee(q) = Inner(c) /\ Inner(c).op # "count"
    BY <1>1, <1>2, InnerTyped DEF InCall, Callee
  <2>3. AllInForce(q.seen, q.started - Age(Inner(c)))
    BY <1>1, <2>2, ShelfTyped
  <2> HIDE DEF set
  <2>4. Aged(set)
    BY <2>1, <2>2, <2>3 DEF Aged
  <2>5. AgedItems(set)
    BY <2>1 DEF AgedItems
  <2>6. Return(q, null) = set
    BY <1>2 DEF Return, set
  <2> QED
    BY <2>4, <2>5, <2>6 DEF Fresh
<1>3. AllInForce(q.seen, q.started - Shelf(c))
  <2>1. CASE ~q.inner
    BY <2>1 DEF Callee
  <2>2. CASE q.inner
    <3>1. c.op = "count" /\ Callee(q) = Inner(c) /\ Inner(c).op # "count"
      BY <1>1, <2>2, InnerTyped DEF InCall, Callee
    <3>2. /\ Shelf(Callee(q)) = Age(Inner(c)) /\ Age(Inner(c)) \in Nat
          /\ Shelf(c) = Age(c) + Age(Inner(c)) /\ Age(c) \in Nat
      BY <1>1, <3>1, ShelfTyped
    <3>3. q.started - Shelf(c) <= q.started - Shelf(Callee(q))
      BY <1>1, <3>2
    <3> QED
      BY <1>1, <3>2, <3>3, InForceEarlier
  <2> QED
    BY <1>1, <2>1, <2>2
<1>4. /\ got \in Requested /\ got.calls = q.calls /\ got.at = q.at
      /\ got.items = Append(q.items, result) /\ got.started = q.started
  <2>1. Append(q.items, result) \in Seq(Results)
    BY DEF Requested, Results
  <2> HIDE DEF result
  <2> QED
    BY <2>1 DEF Requested
<1>5. AgedItems(got)
  <2>1. ASSUME NEW i \in DOMAIN got.items
        PROVE  /\ AllInForce(got.items[i].seen, q.started - Shelf(q.calls[i]))
               /\ ~got.items[i].isCache =>
                    AllInForce(got.items[i].seen, q.started)
    <3>1. q.items \in Seq(Results) /\ Len(q.items) = q.at - 1
      BY DEF Requested, InCall
    <3>2. CASE i = q.at
      <4>1. got.items[i] = result
        BY <1>1, <1>4, <3>1, <3>2
      <4> QED
        BY <1>3, <3>2, <4>1
    <3>3. CASE i # q.at
      <4>1. i \in DOMAIN q.items /\ got.items[i] = q.items[i]
        <5> HIDE DEF result, got
        <5> QED
          BY <1>1, <1>4, <2>1, <3>1, <3>3
      <4> QED
        BY <4>1 DEF AgedItems
    <3> QED
      BY <3>2, <3>3
  <2>2. Len(got.items) <= Len(got.calls)
    <3>1. Len(got.items) = Len(q.items) + 1
      BY <1>4 DEF Requested
    <3> HIDE DEF got
    <3> QED
      BY <1>1, <1>4, <3>1 DEF InCall
  <2> HIDE DEF got
  <2> QED
    BY <1>4, <2>1, <2>2 DEF AgedItems
<1>6. CASE ~(q.inner /\ ~null) /\ q.at < Len(q.calls)
  <2>1. Return(q, null) = Enter(next)
    BY <1>4, <1>6 DEF Return
  <2>2. /\ next \in Requested /\ next.started = q.started
        /\ next.items = got.items /\ next.calls = got.calls
    <3> HIDE DEF got
    <3>1. got.at \in Nat /\ got.at + 1 \in Nat
      BY <1>1, <1>4
    <3> QED
      BY <1>4, <3>1 DEF Requested
  <2> HIDE DEF got, next
  <2>3. AgedItems(next)
    BY <1>4, <1>5, <2>2 DEF AgedItems
  <2> QED
    BY <2>1, <2>2, <2>3, EnterFresh
<1>7. CASE ~(q.inner /\ ~null) /\ ~(q.at < Len(q.calls))
  <2>1. \E status \in {"ok", "notFound"} :
          Return(q, null) = Answered(got, status)
    BY <1>7 DEF Return
  <2> HIDE DEF got
  <2>2. ASSUME NEW status \in {"ok", "notFound"}
        PROVE  Fresh(Answered(got, status))
    <3> DEFINE a == Answered(got, status)
    <3>1. /\ a.pc = "done" /\ a.items = got.items
          /\ a.calls = got.calls /\ a.started = got.started
      BY <1>4 DEF Answered, Requested
    <3> HIDE DEF a
    <3>2. Fresh(a)
      BY <1>5, <3>1 DEF Fresh, AgedItems
    <3> QED
      BY <3>2 DEF a
  <2> QED
    BY <2>1, <2>2
<1> QED
  BY <1>2, <1>6, <1>7

(* A method that has read nothing but the tables goes on with its work.    *)
LEMMA ProceedFresh ==
  ASSUME TypeOK, NEW q \in Requested, InCall(q), AgedItems(q),
         now - q.started <= MaxRequest, ~q.flag,
         AllInForce(q.seen, q.started)
  PROVE  Fresh(Proceed(q))
<1> DEFINE p == Proceed(q)
<1>1. /\ Callee(q) \in Calls /\ q.seen \in SUBSET Readings
      /\ q.started \in Int /\ Shelf(Callee(q)) \in Nat
  BY CalleeTyped, ShelfTyped, BoundsAssumption DEF Requested
<1>2. AllInForce(q.seen, q.started - Shelf(Callee(q)))
  <2>1. q.started - Shelf(Callee(q)) <= q.started
    BY <1>1
  <2> QED
    BY <1>1, <2>1, InForceEarlier
<1>3. Fresh(Return(q, TRUE)) /\ Fresh(Return(q, FALSE))
  BY <1>2, ReturnFresh
<1>4. ASSUME NEW s \in Requested, s.calls = q.calls, s.at = q.at,
             s.items = q.items, s.seen = q.seen, s.flag = q.flag,
             s.started = q.started
      PROVE  Fresh(s)
  BY <1>4 DEF Fresh, AgedItems, Aged
<1>5. Fresh([q EXCEPT !.pc = "query"]) /\ Fresh([q EXCEPT !.pc = "set", !.step = 0])
  <2> DEFINE a == [q EXCEPT !.pc = "query"]
             b == [q EXCEPT !.pc = "set", !.step = 0]
  <2>1. /\ a \in Requested /\ a.calls = q.calls /\ a.at = q.at
        /\ a.items = q.items /\ a.seen = q.seen /\ a.flag = q.flag
        /\ a.started = q.started
    BY DEF Requested
  <2>2. /\ b \in Requested /\ b.calls = q.calls /\ b.at = q.at
        /\ b.items = q.items /\ b.seen = q.seen /\ b.flag = q.flag
        /\ b.started = q.started
    BY DEF Requested
  <2> QED
    BY <1>4, <2>1, <2>2
<1> QED
  BY <1>3, <1>5 DEF Proceed

(* So does one whose key was not there, in getCount or below it.           *)
LEMMA MissedFresh ==
  ASSUME TypeOK, NEW q \in Requested, InCall(q), AgedItems(q),
         now - q.started <= MaxRequest, ~q.flag,
         AllInForce(q.seen, q.started)
  PROVE  Fresh(Missed(q))
<1> DEFINE n == [q EXCEPT !.inner = TRUE]
<1>1. /\ n.items = q.items /\ n.calls = q.calls /\ n.seen = q.seen
      /\ n.flag = q.flag /\ n.started = q.started
  BY DEF Requested
<1>2. Fresh(n)
  <2> HIDE DEF n
  <2> QED
    BY <1>1 DEF Fresh, AgedItems, Aged
<1> QED
  BY <1>2, ProceedFresh DEF Missed

-----------------------------------------------------------------------------
(* The requests other than the one that steps, and their clock, are as     *)
(* they were.                                                              *)
LEMMA FreshStep ==
  ASSUME FreshInv, TypeInv', NEW r \in Requests, NEW q, Fresh(q),
         req' = [req EXCEPT ![r] = q],
         \A k \in Keys : AgedEntry(k)',
         UNCHANGED <<now, db>>
  PROVE  FreshInv'
<1>1. ASSUME NEW p \in Requests PROVE Fresh(req[p])'
  <2>1. req'[p] = IF p = r THEN q ELSE req[p]
    BY DEF FreshInv, TypeInv, TypeOK
  <2>2. Fresh(req'[p])
    BY <2>1 DEF FreshInv
  <2>3. UNCHANGED <<now, cur, born>>
    BY DEF db
  <2> QED
    BY <2>2, <2>3 DEF Fresh, AgedItems, Aged, AllInForce, InForce
<1> QED
  BY <1>1 DEF FreshInv

(* What the step of a request may take for granted.                        *)
LEMMA ServedFresh ==
  ASSUME FreshInv, NEW r \in Requests, Busy(r)
  PROVE  /\ TypeOK /\ req[r] \in Requested /\ InCall(req[r])
         /\ AgedItems(req[r]) /\ Aged(req[r])
         /\ req[r].seen \in SUBSET Readings /\ req[r].started \in Int
         /\ req[r].flag \in BOOLEAN
         /\ Callee(req[r]) \in Calls
         /\ req[r].pc \in {"get", "set"} =>
              Callee(req[r]) \in Keys /\ Cached(Callee(req[r]))
<1>1. TypeInv /\ Fresh(req[r]) /\ TypeOK
  BY DEF FreshInv, TypeInv
<1>2. req[r] \in Requested /\ InCall(req[r]) /\ Awaits(req[r])
  BY <1>1, ServedTyped
<1> QED
  BY <1>1, <1>2, CalleeTyped, BoundsAssumption
  DEF Fresh, Busy, Awaits, Requested

(* What awaits its SET is no older than its shelf life, less the time its  *)
(* own entry will live.                                                    *)
LEMMA SetFresh ==
  ASSUME FreshInv, NEW r \in Requests, req[r].pc = "set"
  PROVE  /\ AllInForce(req[r].seen, req[r].started - Shelf(Callee(req[r]))
                                      + Age(Callee(req[r])))
         /\ AllInForce(req[r].seen, req[r].started - Shelf(Callee(req[r])))
         /\ ~req[r].flag => AllInForce(req[r].seen, req[r].started)
<1> DEFINE q == req[r]
           k == Callee(q)
<1>1. /\ TypeOK /\ k \in Calls /\ q.seen \in SUBSET Readings
      /\ q.started \in Int /\ Aged(q) /\ q.flag \in BOOLEAN
  BY ServedFresh DEF Busy
<1>2. Age(k) \in Nat /\ Shelf(k) \in Nat
  BY <1>1, ShelfTyped
<1>3. AllInForce(q.seen, q.started - Shelf(k) + Age(k))
  <2>1. CASE q.flag
    <3>1. /\ k = q.calls[q.at] /\ k.op = "count"
          /\ AllInForce(q.seen, q.started - Age(Inner(k)))
      BY <1>1, <2>1 DEF Aged, Callee
    <3>2. Shelf(k) = Age(k) + Age(Inner(k)) /\ Age(Inner(k)) \in Nat
      BY <1>1, <3>1, ShelfTyped
    <3>3. q.started - Shelf(k) + Age(k) = q.started - Age(Inner(k))
      BY <1>1, <1>2, <3>2
    <3> QED
      BY <3>1, <3>3
  <2>2. CASE ~q.flag
    <3>1. AllInForce(q.seen, q.started)
      BY <1>1, <2>2 DEF Aged
    <3>2. Age(k) <= Shelf(k)
      BY <1>1, <1>2, ShelfTyped
    <3>3. q.started - Shelf(k) + Age(k) <= q.started
      BY <1>1, <1>2, <3>2
    <3> QED
      BY <1>1, <1>2, <3>1, <3>3, InForceEarlier
  <2> QED
    BY <1>1, <2>1, <2>2
<1>4. AllInForce(q.seen, q.started - Shelf(k))
  <2>1. q.started - Shelf(k) <= q.started - Shelf(k) + Age(k)
    BY <1>1, <1>2
  <2> QED
    BY <1>1, <1>2, <1>3, <2>1, InForceEarlier
<1> QED
  BY <1>1, <1>3, <1>4 DEF Aged

(* A SET leaves entries that are young enough, in the key it writes too.   *)
LEMMA StoredFresh ==
  ASSUME FreshInv, NEW r \in Requests, req[r].pc = "set",
         redis' = Stored(req[r]), UNCHANGED <<now, db>>
  PROVE  \A k \in Keys : AgedEntry(k)'
<1> DEFINE q == req[r]
           c == Callee(q)
           e == [seen |-> q.seen, exp |-> now + MethodOf(c).ttl]
<1>1. /\ TypeOK /\ c \in Calls /\ c \in Keys /\ Cached(c)
      /\ q.seen \in SUBSET Readings /\ q.started \in Int /\ now \in Int
      /\ now - q.started <= MaxRequest
  BY ServedFresh, BoundsAssumption DEF Busy, Aged, TypeOK
<1>2. /\ MethodOf(c).ttl \in Nat /\ MethodOf(c).ttl > 0
      /\ Age(c) = MethodOf(c).ttl + MaxRequest - 1
      /\ Shelf(c) \in Nat /\ Age(c) \in Nat
  BY <1>1, ShelfTyped
<1>3. AllInForce(e.seen, e.exp - Shelf(c) - 1)
  <2>1. AllInForce(q.seen, q.started - Shelf(c) + Age(c))
    BY SetFresh
  <2>2. e.exp - Shelf(c) - 1 <= q.started - Shelf(c) + Age(c)
    BY <1>1, <1>2, BoundsAssumption
  <2>3. /\ e.exp - Shelf(c) - 1 \in Int
        /\ q.started - Shelf(c) + Age(c) \in Int
    BY <1>1, <1>2
  <2> QED
    BY <1>1, <2>1, <2>2, <2>3, InForceEarlier
<1>4. now < e.exp
  BY <1>1, <1>2
<1>7. e.exp - Shelf(c) - 1 <= now
  <2>1. Age(c) <= Shelf(c)
    BY <1>1, <1>2, ShelfTyped
  <2> QED
    BY <1>1, <1>2, <2>1, BoundsAssumption
<1>5. ASSUME NEW k \in Keys
      PROVE  /\ redis'[k] = NoEntry \/ now < redis'[k].exp
             /\ redis'[k].exp - Shelf(k) - 1 <= now
             /\ AllInForce(redis'[k].seen, redis'[k].exp - Shelf(k) - 1)
  <2>1. redis'[k] = IF k = c THEN e ELSE redis[k]
    BY <1>1 DEF Stored, TypeOK
  <2> HIDE DEF e
  <2> QED
    BY <1>3, <1>4, <1>7, <2>1 DEF FreshInv, AgedEntry
<1>6. UNCHANGED <<now, cur, born>>
  BY DEF db
<1> QED
  BY <1>5, <1>6 DEF AgedEntry, AllInForce, InForce

-----------------------------------------------------------------------------
(* A service that has just started has nothing stale.                      *)
LEMMA InitFresh == Init => FreshInv
<1> SUFFICES ASSUME Init PROVE FreshInv
  OBVIOUS
<1>1. TypeInv
  BY InitTyped
<1>2. ASSUME NEW r \in Requests PROVE Fresh(req[r])
  BY DEF Init, Idle, Fresh, AgedItems
<1>3. ASSUME NEW k \in Keys PROVE AgedEntry(k)
  <2>1. Shelf(k) \in Nat
    BY KeysTyped, ShelfTyped
  <2> QED
    BY <2>1 DEF Init, NoEntry, AgedEntry, AllInForce
<1> QED
  BY <1>1, <1>2, <1>3 DEF FreshInv

(* An edit makes versions past, but none before the present instant.       *)
LEMMA EditFresh ==
  ASSUME FreshInv, NEW t \in Edited, DbWrite(t),
         NEW seen \in SUBSET Readings, NEW i \in Int, i <= now,
         AllInForce(seen, i)
  PROVE  AllInForce(seen, i)'
<1>1. /\ t \in Tables /\ cur \in [Tables -> Versions]
      /\ born \in [Tables -> [Versions -> 0..Horizon]]
      /\ cur' = [cur EXCEPT ![t] = @ + 1]
      /\ born' = [born EXCEPT ![t][cur[t] + 1] = now]
      /\ now \in 0..Horizon
      /\ cur[t] < MaxVersion
  BY BoundsAssumption DEF FreshInv, TypeInv, TypeOK, DbWrite
<1>2. ASSUME NEW x \in seen PROVE InForce(x[1], x[2], i)'
  <2>1. x[1] \in Tables /\ x[2] \in Versions /\ InForce(x[1], x[2], i)
    BY DEF Readings, AllInForce
  <2>2. CASE x[1] # t
    <3>1. cur'[x[1]] = cur[x[1]] /\ born'[x[1]] = born[x[1]]
      BY <1>1, <2>1, <2>2
    <3> QED
      BY <2>1, <3>1 DEF InForce
  <2>3. CASE x[1] = t /\ x[2] = cur[t]
    <3>1. cur'[t] = cur[t] + 1 /\ cur[t] + 1 \in Versions /\ cur[t] \in Nat
      BY <1>1, BoundsAssumption DEF Versions
    <3>2. born'[t][cur[t] + 1] = now
      BY <1>1, <3>1
    <3> QED
      BY <2>3, <3>1, <3>2 DEF InForce
  <2>4. CASE x[1] = t /\ x[2] # cur[t]
    <3>1. x[2] < cur[t] /\ born[t][x[2] + 1] >= i
      BY <2>1, <2>4 DEF InForce
    <3>2. /\ cur'[t] = cur[t] + 1 /\ cur[t] \in Nat /\ x[2] \in Nat
          /\ x[2] + 1 \in Versions /\ cur[t] + 1 \in Versions
      <4>1. cur'[t] = cur[t] + 1 /\ cur[t] \in 0..MaxVersion /\ x[2] \in 0..MaxVersion
        BY <1>1, <2>1 DEF Versions
      <4>2. cur[t] + 1 \in 0..MaxVersion /\ x[2] + 1 \in 0..MaxVersion
        <5>1. MaxVersion \in Nat
          BY BoundsAssumption
        <5>2. x[2] < cur[t] /\ cur[t] < MaxVersion
          BY <1>1, <3>1
        <5> QED
          BY <4>1, <5>1, <5>2
      <4> QED
        BY <4>1, <4>2 DEF Versions
    <3>3. born'[t][x[2] + 1] = born[t][x[2] + 1]
      BY <1>1, <3>1, <3>2
    <3> QED
      BY <2>4, <3>1, <3>2, <3>3 DEF InForce
  <2> QED
    BY <2>2, <2>3, <2>4
<1> QED
  BY <1>2 DEF AllInForce

(* No step of a request, an edit, an expiry or a restart lets anything     *)
(* grow older than its shelf life.                                         *)
LEMMA NextFresh == FreshInv /\ [Next]_vars => FreshInv'
<1> SUFFICES ASSUME FreshInv, [Next]_vars PROVE FreshInv'
  OBVIOUS
<1>1. TypeInv' /\ TypeInv /\ TypeOK
  BY NextTyped DEF FreshInv, TypeInv
<1>2. ASSUME UNCHANGED <<now, db, redis>>
      PROVE  \A k \in Keys : AgedEntry(k)'
  BY <1>2 DEF FreshInv, AgedEntry, AllInForce, InForce, db
<1>3. ASSUME NEW r \in Requests, NEW e \in Endpoints, Start(r, e) PROVE FreshInv'
  <2> DEFINE q == [Idle EXCEPT !.calls = e, !.started = now]
  <2>1. /\ q \in Requested /\ q.items = << >> /\ q.started = now
    <3>1. now \in 0..Horizon
      BY <1>1 DEF TypeOK
    <3>2. q \in Requested /\ q.items = << >>
      BY <3>1, IdleTyped
    <3>3. q.started = now
      BY DEF Idle
    <3> QED
      BY <3>2, <3>3
  <2>2. req' = [req EXCEPT ![r] = Enter(q)] /\ UNCHANGED <<now, db, redis>>
    BY <1>3 DEF Start
  <2> HIDE DEF q
  <2>3. AgedItems(q) /\ now - q.started <= MaxRequest
    BY <1>1, <2>1, BoundsAssumption DEF AgedItems, TypeOK
  <2>4. Fresh(Enter(q))
    BY <2>1, <2>3, EnterFresh
  <2> QED
    BY <1>1, <1>2, <2>2, <2>4, FreshStep
<1>4. ASSUME NEW r \in Requests, GetHit(r) PROVE FreshInv'
  <2> DEFINE q == req[r]
             c == Callee(q)
             h == [q EXCEPT !.seen = redis[c].seen, !.flag = HitFlag(c)]
  <2>1. /\ q \in Requested /\ InCall(q) /\ AgedItems(q) /\ Aged(q)
        /\ c \in Keys /\ c \in Calls /\ Cached(c) /\ q.started \in Int
        /\ q.pc = "get"
    BY <1>4, ServedFresh DEF GetHit, Busy
  <2>2. HitFlag(c) = TRUE
    <3>1. MethodOf(c).isCache = "undefined"
      BY <2>1, MethodTyped DEF MethodType
    <3> QED
      BY <3>1 DEF HitFlag
  <2>3. redis[c] \in EntryType /\ redis[c] # NoEntry /\ AgedEntry(c)
    BY <1>1, <1>4, <2>1 DEF GetHit, TypeOK, EntryType, FreshInv
  <2>4. AllInForce(redis[c].seen, q.started - Shelf(c))
    <3>1. AllInForce(redis[c].seen, redis[c].exp - Shelf(c) - 1)
      BY <2>3 DEF AgedEntry
    <3>2. /\ redis[c].seen \in SUBSET Readings /\ redis[c].exp \in Int
          /\ Shelf(c) \in Nat /\ now \in Int
      BY <1>1, <2>1, <2>3, ShelfTyped, BoundsAssumption
      DEF EntryType, TypeOK
    <3>3. q.started <= now /\ now < redis[c].exp
      BY <2>1, <2>3 DEF AgedItems, AgedEntry
    <3>4. q.started - Shelf(c) <= redis[c].exp - Shelf(c) - 1
      BY <2>1, <3>2, <3>3
    <3> QED
      BY <1>1, <2>1, <3>1, <3>2, <3>4, InForceEarlier
  <2>5. /\ h \in Requested /\ h.calls = q.calls /\ h.at = q.at
        /\ h.inner = q.inner /\ h.items = q.items /\ h.started = q.started
        /\ h.seen = redis[c].seen /\ h.flag = TRUE
    <3>1. redis[c].seen \in SUBSET Readings
      BY <2>3 DEF EntryType
    <3> HIDE DEF q, c
    <3> QED
      BY <2>1, <2>2, <3>1 DEF Requested
  <2>6. req' = [req EXCEPT ![r] = Return(h, FALSE)] /\ UNCHANGED <<now, db, redis>>
    BY <1>4 DEF GetHit
  <2> HIDE DEF q, h
  <2>7. /\ InCall(h) /\ AgedItems(h) /\ now - h.started <= MaxRequest
        /\ Callee(h) = Callee(q)
    BY <2>1, <2>5 DEF InCall, AgedItems, Aged, Callee
  <2>8. Fresh(Return(h, FALSE))
    BY <1>1, <2>4, <2>5, <2>7, ReturnFresh
  <2> QED
    BY <1>1, <1>2, <2>6, <2>8, FreshStep
<1>5. ASSUME NEW r \in Requests, GetMiss(r) \/ GetFail(r) PROVE FreshInv'
  <2>1. req' = [req EXCEPT ![r] = Missed(req[r])] /\ UNCHANGED <<now, db, redis>>
    BY <1>5 DEF GetMiss, GetFail
  <2>2. /\ req[r] \in Requested /\ InCall(req[r]) /\ AgedItems(req[r])
        /\ Aged(req[r]) /\ req[r].pc = "get"
    BY <1>5, ServedFresh DEF GetMiss, GetFail, Busy
  <2>3. Fresh(Missed(req[r]))
    BY <1>1, <2>2, MissedFresh DEF Aged
  <2> QED
    BY <1>1, <1>2, <2>1, <2>3, FreshStep
<1>6. ASSUME NEW r \in Requests, Query(r) PROVE FreshInv'
  <2> DEFINE q == req[r]
             t == MethodOf(Callee(q)).reads[q.step + 1]
             x == <<t, cur[t]>>
             n == [q EXCEPT !.step = @ + 1, !.seen = @ \cup {x}]
  <2>1. /\ q \in Requested /\ InCall(q) /\ AgedItems(q) /\ Aged(q)
        /\ Callee(q) \in Calls /\ q.pc = "query"
        /\ q.step < Len(MethodOf(Callee(q)).reads)
    BY <1>1, <1>6, ServedFresh, ServedTyped DEF Query, Busy, Awaits
  <2>2. x \in Readings
    <3>1. MethodOf(Callee(q)).reads \in Seq(Tables)
      BY <2>1, MethodTyped DEF MethodType
    <3>2. t \in Tables
      BY <2>1, <3>1 DEF Requested
    <3> QED
      BY <1>1, <3>2 DEF TypeOK, Readings
  <2>3. ~q.flag /\ AllInForce(q.seen, q.started)
    BY <2>1 DEF Aged
  <2>4. AllInForce(q.seen \cup {x}, q.started)
    BY <2>3, InForceNow
  <2>5. req' = [req EXCEPT ![r] = Proceed(n)] /\ UNCHANGED <<now, db, redis>>
    BY <1>6 DEF Query
  <2> HIDE DEF t, x
  <2>6. /\ n \in Requested /\ n.calls = q.calls /\ n.at = q.at
        /\ n.inner = q.inner /\ n.items = q.items /\ n.started = q.started
        /\ n.seen = q.seen \cup {x} /\ n.flag = q.flag
    <3> HIDE DEF q
    <3>1. q.step + 1 \in Nat /\ q.seen \cup {x} \in SUBSET Readings
      BY <2>1, <2>2 DEF Requested
    <3> QED
      BY <2>1, <3>1 DEF Requested
  <2> HIDE DEF q, n
  <2>7. InCall(n) /\ AgedItems(n) /\ now - n.started <= MaxRequest
    BY <2>1, <2>6 DEF InCall, AgedItems, Aged
  <2>8. Fresh(Proceed(n))
    BY <1>1, <2>3, <2>4, <2>6, <2>7, ProceedFresh
  <2> QED
    BY <1>1, <1>2, <2>5, <2>8, FreshStep
<1>7. ASSUME NEW r \in Requests, Busy(r) PROVE Fresh(Answered(req[r], "error"))
  <2> DEFINE a == Answered(req[r], "error")
  <2>1. req[r] \in Requested /\ AgedItems(req[r])
    BY <1>7, ServedFresh
  <2>2. /\ a.pc = "done" /\ a.items = req[r].items
        /\ a.calls = req[r].calls /\ a.started = req[r].started
    BY <2>1 DEF Answered, Requested
  <2> HIDE DEF a
  <2>3. Fresh(a)
    BY <2>1, <2>2 DEF Fresh, AgedItems
  <2> QED
    BY <2>3 DEF a
<1>8. ASSUME NEW r \in Requests, QueryFail(r) PROVE FreshInv'
  <2>1. /\ req' = [req EXCEPT ![r] = Answered(req[r], "error")]
        /\ UNCHANGED <<now, db, redis>> /\ Busy(r)
    BY <1>8 DEF QueryFail, Busy
  <2> QED
    BY <1>1, <1>2, <1>7, <2>1, FreshStep
<1>9. ASSUME NEW r \in Requests, SetOk(r) PROVE FreshInv'
  <2>1. /\ req' = [req EXCEPT ![r] = Return(req[r], FALSE)]
        /\ redis' = Stored(req[r]) /\ UNCHANGED <<now, db>>
        /\ req[r].pc = "set" /\ Busy(r)
    BY <1>9 DEF SetOk, Busy
  <2>2. /\ req[r] \in Requested /\ InCall(req[r]) /\ AgedItems(req[r])
        /\ now - req[r].started <= MaxRequest
    BY <2>1, ServedFresh DEF Aged
  <2>3. Fresh(Return(req[r], FALSE))
    BY <1>1, <2>1, <2>2, SetFresh, ReturnFresh
  <2> QED
    BY <1>1, <2>1, <2>3, StoredFresh, FreshStep
<1>10. ASSUME NEW r \in Requests, SetFail(r) PROVE FreshInv'
  <2>1. /\ req' = [req EXCEPT ![r] = Answered(req[r], "error")]
        /\ redis' \in {redis, Stored(req[r])} /\ UNCHANGED <<now, db>>
        /\ req[r].pc = "set" /\ Busy(r)
    BY <1>10 DEF SetFail, Busy
  <2>2. \A k \in Keys : AgedEntry(k)'
    BY <1>2, <2>1, StoredFresh
  <2> QED
    BY <1>1, <1>7, <2>1, <2>2, FreshStep
<1>11. ASSUME NEW r \in Requests, SetResend(r) PROVE FreshInv'
  <2>1. \A k \in Keys : AgedEntry(k)'
    BY <1>11, StoredFresh DEF SetResend
  <2>2. UNCHANGED <<now, cur, born, req>>
    BY <1>11 DEF SetResend, db
  <2> QED
    BY <1>1, <2>1, <2>2
    DEF FreshInv, Fresh, AgedItems, Aged, AllInForce, InForce
<1>12. ASSUME Crash PROVE FreshInv'
  <2>1. /\ \A r \in Requests : req'[r] = Idle
        /\ UNCHANGED <<now, db, redis>>
    BY <1>12 DEF Crash
  <2>2. ASSUME NEW r \in Requests PROVE Fresh(req[r])'
    <3>1. now' \in Nat
      BY <1>1, <2>1, BoundsAssumption DEF TypeOK
    <3> QED
      BY <2>1, <3>1 DEF Idle, Fresh, AgedItems
  <2> QED
    BY <1>1, <1>2, <2>1, <2>2 DEF FreshInv
<1>13. ASSUME NEW t \in Edited, DbWrite(t) PROVE FreshInv'
  <2>1. UNCHANGED <<now, redis, req>>
    BY <1>13 DEF DbWrite
  <2>2. \A s \in SUBSET Readings, j \in Int :
          j <= now /\ AllInForce(s, j) => AllInForce(s, j)'
    BY <1>13, EditFresh
  <2>3. ASSUME NEW r \in Requests PROVE Fresh(req[r])'
    <3>1. /\ req[r] \in Requested /\ Fresh(req[r])
          /\ req[r].started \in Int /\ now \in Int /\ req[r].started <= now
          /\ req[r].items \in Seq(Results) /\ req[r].seen \in SUBSET Readings
      BY <1>1, ServedTyped, BoundsAssumption
      DEF FreshInv, Fresh, AgedItems, Requested, TypeOK
    <3>2. ASSUME NEW i \in DOMAIN req[r].items
          PROVE  /\ AllInForce(req[r].items[i].seen,
                               req[r].started - Shelf(req[r].calls[i]))'
                 /\ ~req[r].items[i].isCache =>
                      AllInForce(req[r].items[i].seen, req[r].started)'
      <4>1. req[r].items[i].seen \in SUBSET Readings
        <5>1. req[r].items[i] \in Results
          BY <3>1
        <5> QED
          BY <5>1 DEF Results
      <4>2. req[r].calls[i] \in Calls
        BY <3>1 DEF Requested, Fresh, AgedItems
      <4>3. /\ req[r].started - Shelf(req[r].calls[i]) \in Int
            /\ req[r].started - Shelf(req[r].calls[i]) <= now
        BY <3>1, <4>2, ShelfTyped
      <4> QED
        BY <2>1, <2>2, <3>1, <4>1, <4>3
        DEF Fresh, AgedItems, AllInForce, InForce
    <3>3. AgedItems(req[r])'
      BY <2>1, <3>1, <3>2 DEF Fresh, AgedItems
    <3>4. ASSUME Busy(r) PROVE Aged(req[r])'
      <4>1. Aged(req[r]) /\ InCall(req[r])
        BY <3>1, <3>4, ServedFresh
      <4>2. CASE req[r].flag
        <5>1. /\ req[r].calls[req[r].at] \in Calls
              /\ req[r].calls[req[r].at].op = "count"
              /\ AllInForce(req[r].seen,
                   req[r].started - Age(Inner(req[r].calls[req[r].at])))
          BY <3>1, <4>1, <4>2, CalleeTyped DEF Aged
        <5>2. Age(Inner(req[r].calls[req[r].at])) \in Nat
          BY <5>1, ShelfTyped
        <5> DEFINE j == req[r].started - Age(Inner(req[r].calls[req[r].at]))
        <5>3. j \in Int /\ j <= now
          BY <3>1, <5>2
        <5>4. AllInForce(req[r].seen, j)'
          BY <2>1, <2>2, <3>1, <5>1, <5>3 DEF AllInForce, InForce
        <5> QED
          BY <2>1, <4>1, <4>2, <5>4 DEF Aged
      <4>3. CASE ~req[r].flag
        <5>1. AllInForce(req[r].seen, req[r].started)'
          BY <2>1, <2>2, <3>1, <4>1, <4>3 DEF Aged, AllInForce, InForce
        <5> QED
          BY <2>1, <4>1, <4>3, <5>1 DEF Aged
      <4> QED
        BY <4>2, <4>3
    <3> QED
      BY <2>1, <3>3, <3>4 DEF Fresh, Busy
  <2>4. ASSUME NEW k \in Keys PROVE AgedEntry(k)'
    <3>1. /\ redis[k] \in EntryType /\ AgedEntry(k) /\ Shelf(k) \in Nat
      BY <1>1, KeysTyped, ShelfTyped DEF TypeOK, EntryType, FreshInv
    <3> DEFINE j == redis[k].exp - Shelf(k) - 1
    <3>2. j \in Int /\ j <= now /\ redis[k].seen \in SUBSET Readings
      BY <3>1 DEF AgedEntry, EntryType
    <3>3. AllInForce(redis[k].seen, j)'
      BY <2>1, <2>2, <3>1, <3>2 DEF AgedEntry, AllInForce, InForce
    <3> QED
      BY <2>1, <3>1, <3>3 DEF AgedEntry
  <2> QED
    BY <1>1, <2>3, <2>4 DEF FreshInv
<1>14. ASSUME NEW k \in Keys, Evict(k) PROVE FreshInv'
  <2>1. UNCHANGED <<now, cur, born, req>> /\ redis' = [redis EXCEPT ![k] = NoEntry]
    BY <1>14 DEF Evict, db
  <2>2. ASSUME NEW l \in Keys PROVE AgedEntry(l)'
    <3>1. redis'[l] = IF l = k THEN NoEntry ELSE redis[l]
      BY <1>1, <2>1 DEF TypeOK
    <3>2. Shelf(l) \in Nat /\ now \in Nat
      BY <1>1, KeysTyped, ShelfTyped, BoundsAssumption DEF TypeOK
    <3> QED
      BY <2>1, <3>1, <3>2
      DEF FreshInv, NoEntry, AgedEntry, AllInForce, InForce
  <2> QED
    BY <1>1, <2>1, <2>2
    DEF FreshInv, Fresh, AgedItems, Aged, AllInForce, InForce
<1>15. ASSUME Tick PROVE FreshInv'
  <2>1. /\ UNCHANGED <<cur, born, req>> /\ now' = now + 1 /\ now \in Nat
        /\ \A r \in Requests : Busy(r) => now - req[r].started < MaxRequest
    BY <1>1, <1>15, BoundsAssumption DEF Tick, db, TypeOK
  <2>2. ASSUME NEW r \in Requests PROVE Fresh(req[r])'
    <3>1. req[r].started \in Int /\ Fresh(req[r])
      BY <1>1, ServedTyped, BoundsAssumption DEF Requested, FreshInv
    <3>2. AgedItems(req[r])'
      BY <2>1, <3>1 DEF Fresh, AgedItems, AllInForce, InForce
    <3>3. Busy(r) => Aged(req[r])'
      <4>1. Busy(r) => now' - req[r].started <= MaxRequest
        BY <2>1, <3>1, BoundsAssumption
      <4> QED
        BY <2>1, <3>1, <4>1 DEF Fresh, Busy, Aged, AllInForce, InForce
    <3> QED
      BY <2>1, <3>2, <3>3 DEF Fresh, Busy
  <2>3. ASSUME NEW k \in Keys PROVE AgedEntry(k)'
    <3>1. redis'[k] = IF redis[k].exp <= now + 1 THEN NoEntry ELSE redis[k]
      BY <1>15 DEF Tick
    <3>2. Shelf(k) \in Nat /\ redis[k].exp \in Nat /\ AgedEntry(k)
      BY <1>1, KeysTyped, ShelfTyped DEF TypeOK, FreshInv
    <3>3. CASE redis[k].exp <= now + 1
      BY <2>1, <3>1, <3>2, <3>3 DEF NoEntry, AgedEntry, AllInForce
    <3>4. CASE ~(redis[k].exp <= now + 1)
      BY <2>1, <3>1, <3>2, <3>4 DEF AgedEntry, AllInForce, InForce
    <3> QED
      BY <3>3, <3>4
  <2> QED
    BY <1>1, <2>2, <2>3 DEF FreshInv
<1>16. ASSUME UNCHANGED vars PROVE FreshInv'
  BY <1>1, <1>16
  DEF vars, db, FreshInv, Fresh, AgedItems, Aged, AgedEntry, AllInForce, InForce
<1> QED
  BY <1>3, <1>4, <1>5, <1>6, <1>8, <1>9, <1>10, <1>11, <1>12, <1>13, <1>14,
     <1>15, <1>16
  DEF Next, Respond

-----------------------------------------------------------------------------
(* So nothing ever does.                                                   *)
LEMMA FreshAlways == Spec => []FreshInv
BY InitFresh, NextFresh, PTL DEF Spec

(* No answer of the service is older than its shelf life, however requests,*)
(* edits, outages and restarts interleave: EX bounds what clients see, and *)
(* the count page, cached on top of cached lists, is bounded by both.      *)
THEOREM StalenessBounded == Spec => []BoundedStaleness
<1>1. FreshInv => BoundedStaleness
  BY DEF FreshInv, Fresh, AgedItems, BoundedStaleness
<1> QED
  BY <1>1, FreshAlways, PTL

(* An answer without isCache, the count page's included, was computed from *)
(* tables as they were while the request was being served.                 *)
THEOREM UnflaggedIsFresh == Spec => []FreshUnlessFlagged
<1>1. FreshInv => FreshUnlessFlagged
  BY DEF FreshInv, Fresh, AgedItems, FreshUnlessFlagged, PageIsCache
<1> QED
  BY <1>1, FreshAlways, PTL

-----------------------------------------------------------------------------
(* Wholeness. WholeInv says of a request which tables it has read when,    *)
(* and builds on FreshInv, which says how old they are.                    *)

Tabs(seen) == {x[1] : x \in seen}
First(c, n) == {MethodOf(c).reads[i] : i \in 1..n}

(* What a method that lists or assembles, c, may return and store.         *)
Whole(c, seen) ==
  Tabs(seen) = ReadsOf(c) /\ (MethodOf(c).decide # Never => ~Empty(c, seen))

(* Versions no further apart than a request lasts.                         *)
Close(seen) ==
  \A x, y \in seen : InForce(x[1], x[2], born[y[1]][y[2]] - MaxRequest)

WholeItem(c, item) ==
  /\ item.null => ~item.isCache /\ Empty(Lister(c), item.seen)
  /\ ~item.null => Whole(Lister(c), item.seen)
  /\ Close(item.seen)

WholeItems(q) == \A i \in DOMAIN q.items : WholeItem(q.calls[i], q.items[i])

(* A method that queries has read its first tables, and has not given up.  *)
Underway(q) ==
  /\ Close(q.seen)
  /\ q.pc \in {"get", "query"} => Tabs(q.seen) = First(Callee(q), q.step)
  /\ q.pc = "get" => q.step = 0
  /\ q.pc = "query" =>
       (MethodOf(Callee(q)).decide <= q.step => ~Empty(Callee(q), q.seen))
  /\ q.pc = "set" => Whole(Lister(Callee(q)), q.seen)

WholeReq(q) ==
  WholeItems(q) /\ (q.pc \in {"get", "query", "set"} => Underway(q))

WholeEntry(k) ==
  redis[k] # NoEntry => Whole(Lister(k), redis[k].seen) /\ Close(redis[k].seen)

BornPast == \A t \in Tables, v \in Versions : born[t][v] <= now

WholeInv ==
  /\ FreshInv
  /\ BornPast
  /\ \A r \in Requests : WholeReq(req[r])
  /\ \A k \in Keys : WholeEntry(k)

-----------------------------------------------------------------------------
(* A method that can return null does so after one of its queries.         *)
LEMMA MethodDecides ==
  ASSUME NEW c \in Calls
  PROVE  /\ MethodOf(c).decide \in Nat /\ MethodOf(c).reads \in Seq(Tables)
         /\ MethodOf(c).decide = Never \/ MethodOf(c).decide <= Len(MethodOf(c).reads)
         /\ c.op = "count" => MethodOf(c).reads = << >>
         /\ ~Cached(c) => MethodOf(c).decide = Never
         /\ Never > 0
<1>1. MethodOf(c).decide \in Nat /\ MethodOf(c).reads \in Seq(Tables)
  BY MethodTyped DEF MethodType
<1>2. Never > 0
  BY DEF Never
<1>3. c.op = "count" => MethodOf(c).reads = << >>
  BY DEF MethodOf, getCount, Method
<1>4. ~Cached(c) => MethodOf(c).decide = Never
  BY DEF Cached, MethodOf, getAudiences, getScheduleSemesters, Method
<1>5. MethodOf(c).decide = Never \/ MethodOf(c).decide <= Len(MethodOf(c).reads)
  <2>1. Len(Timetable(c)) \in Nat /\ Timetable(c) \in Seq(Tables)
    <3>1. <<"raspzv", "examen">> \in Seq(Tables) /\ <<"raspzv">> \in Seq(Tables)
      BY DEF Tables
    <3>2. Timetable(c) \in Seq(Tables)
      BY <3>1 DEF Timetable
    <3> QED
      BY <3>2
  <2>2. Len(Append(Timetable(c), "prep")) = Len(Timetable(c)) + 1
    BY <2>1
  <2>3. /\ Len(<<"raspzv">> \o WeekQueries) >= 1
        /\ Len(<<"raspzv">>) = 1 /\ Len(<< >>) = 0
    <3>1. WeekQueries \in Seq(Tables) /\ <<"raspzv">> \in Seq(Tables)
      BY DEF WeekQueries, Tables
    <3>2. Len(<<"raspzv">> \o WeekQueries) = 1 + Len(WeekQueries)
      BY <3>1
    <3> QED
      BY <3>1, <3>2
  <2>4. /\ getByGroup(c).decide <= Len(getByGroup(c).reads)
        /\ getByAudience(c).decide <= Len(getByAudience(c).reads)
        /\ getByTeacher(c).decide <= Len(getByTeacher(c).reads)
    BY <2>1, <2>2 DEF getByGroup, getByAudience, getByTeacher, Method
  <2>5. getByGroupAsWeek(c).decide = Never
        \/ getByGroupAsWeek(c).decide <= Len(getByGroupAsWeek(c).reads)
    <3>1. CASE Resolves(c)
      <4>1. getByGroupAsWeek(c) = Method(<<"raspzv">> \o WeekQueries, 1, TtlShort)
        BY <3>1 DEF getByGroupAsWeek
      <4> QED
        BY <2>3, <4>1 DEF Method
    <3>2. CASE ~Resolves(c) /\ c.arg = "0"
      <4>1. getByGroupAsWeek(c) = Method(<< >>, 0, TtlShort)
        BY <3>2 DEF getByGroupAsWeek
      <4> QED
        BY <2>3, <4>1 DEF Method
    <3>3. CASE ~Resolves(c) /\ c.arg # "0"
      <4>1. getByGroupAsWeek(c) = Method(WeekQueries, Never, TtlShort)
        BY <3>3 DEF getByGroupAsWeek
      <4> QED
        BY <4>1 DEF Method
    <3> QED
      BY <3>1, <3>2, <3>3
  <2>6. /\ getGroups(c).decide <= Len(getGroups(c).reads)
        /\ getTeachersBySchedule(c).decide <= Len(getTeachersBySchedule(c).reads)
        /\ getAudiencesBySchedule(c).decide <= Len(getAudiencesBySchedule(c).reads)
    BY <2>3 DEF getGroups, getTeachersBySchedule, getAudiencesBySchedule, Method
  <2>7. /\ getCount(c).decide = Never /\ getAudiences(c).decide = Never
        /\ getScheduleSemesters(c).decide = Never
    BY DEF getCount, getAudiences, getScheduleSemesters, Method
  <2>8. c.op \in Ops
    BY DEF Calls
  <2> HIDE DEF Never
  <2> QED
    BY <2>4, <2>5, <2>6, <2>7, <2>8 DEF MethodOf, Ops
<1> QED
  BY <1>1, <1>2, <1>3, <1>4, <1>5

(* Whose rows a call returns or counts.                                    *)
LEMMA ListerTyped ==
  ASSUME NEW c \in Calls
  PROVE  /\ Lister(c) \in Calls /\ Lister(c).op # "count"
         /\ c.op # "count" => Lister(c) = c
         /\ Lister(Lister(c)) = Lister(c)
BY InnerTyped DEF Lister

(* Inside getCount the method it counts with lists for it.                 *)
LEMMA ListerCallee ==
  ASSUME NEW q \in Requested, InCall(q)
  PROVE  Lister(Callee(q)) = Lister(q.calls[q.at])
<1>1. q.calls[q.at] \in Calls /\ q.inner \in BOOLEAN
  BY CalleeTyped DEF Requested
<1>2. CASE q.inner
  <2>1. Callee(q) = Inner(q.calls[q.at]) /\ q.calls[q.at].op = "count"
    BY <1>2 DEF Callee, InCall
  <2> QED
    BY <1>1, <2>1, InnerTyped DEF Lister
<1>3. CASE ~q.inner
  BY <1>3 DEF Callee
<1> QED
  BY <1>1, <1>2, <1>3

(* What one request reads in its time is close together.                   *)
LEMMA ReadsClose ==
  ASSUME TypeOK, BornPast, NEW seen \in SUBSET Readings, NEW i \in Int,
         AllInForce(seen, i), now - i <= MaxRequest
  PROVE  Close(seen)
<1>1. ASSUME NEW x \in seen, NEW y \in seen
      PROVE  InForce(x[1], x[2], born[y[1]][y[2]] - MaxRequest)
  <2>1. /\ y[1] \in Tables /\ y[2] \in Versions /\ x \in Readings
        /\ now \in Int /\ MaxRequest \in Int
    BY BoundsAssumption DEF Readings, TypeOK
  <2>2. born[y[1]][y[2]] \in Int /\ born[y[1]][y[2]] <= now
    BY <2>1, BoundsAssumption DEF TypeOK, BornPast
  <2>3. born[y[1]][y[2]] - MaxRequest \in Int /\ born[y[1]][y[2]] - MaxRequest <= i
    BY <2>1, <2>2
  <2>4. AllInForce({x}, i) /\ {x} \in SUBSET Readings
    BY <2>1 DEF AllInForce
  <2>5. AllInForce({x}, born[y[1]][y[2]] - MaxRequest)
    BY <2>3, <2>4, InForceEarlier
  <2> QED
    BY <2>5 DEF AllInForce
<1> QED
  BY <1>1 DEF Close

-----------------------------------------------------------------------------
(* Entering a service call forgets what the last one read.                 *)
LEMMA EnterWhole ==
  ASSUME NEW q \in Requested, q.calls \in Endpoints,
         q.at \in 1..Len(q.calls), Len(q.items) = q.at - 1, WholeItems(q)
  PROVE  WholeReq(Enter(q))
<1> DEFINE e == Enter(q)
           c == q.calls[q.at]
<1>1. /\ e \in Requested /\ e.items = q.items /\ e.calls = q.calls
      /\ e.seen = {} /\ e.step = 0 /\ e.at = q.at /\ e.inner = FALSE
      /\ e.pc = IF Cached(c) THEN "get" ELSE "query"
  <2>1. e \in Requested
    BY EnterTyped
  <2> QED
    BY <2>1 DEF Enter, Requested
<1>2. InCall(e) /\ Callee(e) = c /\ c \in Calls
  BY <1>1, EnterTyped, CalleeTyped DEF Callee
<1> HIDE DEF e
<1>3. Tabs(e.seen) = First(Callee(e), e.step) /\ Close(e.seen)
  BY <1>1 DEF Tabs, First, Close
<1>4. e.pc = "query" => ~(MethodOf(Callee(e)).decide <= e.step)
  <2>1. 0 \in Int /\ MethodOf(c).decide \in Nat
    BY <1>2, MethodDecides
  <2> QED
    BY <1>1, <1>2, <2>1, MethodDecides
<1>5. Underway(e)
  BY <1>1, <1>3, <1>4 DEF Underway
<1>6. WholeItems(e)
  BY <1>1 DEF WholeItems
<1> QED
  BY <1>5, <1>6 DEF WholeReq, e

(* A method returns what is whole, or nothing where there is nothing.      *)
LEMMA ReturnWhole ==
  ASSUME NEW q \in Requested, InCall(q), WholeItems(q), NEW null \in BOOLEAN,
         Close(q.seen),
         null => ~q.flag /\ Empty(Lister(Callee(q)), q.seen),
         ~null => Whole(Lister(Callee(q)), q.seen)
  PROVE  WholeReq(Return(q, null))
<1> DEFINE result == [null |-> null, isCache |-> q.flag, seen |-> q.seen]
           got    == [q EXCEPT !.items = Append(@, result)]
           next   == [got EXCEPT !.at = @ + 1]
           set    == [q EXCEPT !.pc = "set", !.inner = FALSE, !.step = 0]
           c      == q.calls[q.at]
<1>1. /\ c \in Calls /\ Lister(Callee(q)) = Lister(c)
      /\ q.inner \in BOOLEAN /\ q.flag \in BOOLEAN /\ q.at \in Nat
      /\ q.at \in 1..Len(q.calls) /\ q.calls \in Endpoints
      /\ q.calls \in Seq(Calls) /\ Len(q.items) = q.at - 1
      /\ q.items \in Seq(Results)
  BY CalleeTyped, ListerCallee DEF Requested, InCall
<1>2. CASE q.inner /\ ~null
  <2>1. /\ set.pc = "set" /\ set.inner = FALSE /\ set.calls = q.calls
        /\ set.at = q.at /\ set.items = q.items /\ set.seen = q.seen
    BY DEF Requested
  <2> HIDE DEF set
  <2>2. Callee(set) = c
    BY <2>1 DEF Callee
  <2>3. Underway(set)
    BY <1>1, <1>2, <2>1, <2>2 DEF Underway
  <2>4. WholeItems(set)
    BY <2>1 DEF WholeItems
  <2>5. Return(q, null) = set
    BY <1>2 DEF Return, set
  <2> QED
    BY <2>3, <2>4, <2>5 DEF WholeReq
<1>3. WholeItem(c, result)
  BY <1>1 DEF WholeItem
<1>4. /\ got \in Requested /\ got.calls = q.calls /\ got.at = q.at
      /\ got.items = Append(q.items, result) /\ Len(got.items) = q.at
  <2>1. Append(q.items, result) \in Seq(Results)
        /\ Len(Append(q.items, result)) = q.at
    <3>1. result \in Results
      BY DEF Requested, Results
    <3> HIDE DEF result
    <3> QED
      BY <1>1, <3>1
  <2> HIDE DEF result
  <2> QED
    BY <2>1 DEF Requested
<1>5. WholeItems(got)
  <2>1. ASSUME NEW i \in DOMAIN got.items
        PROVE  WholeItem(got.calls[i], got.items[i])
    <3>1. CASE i = q.at
      <4>1. got.items[i] = result
        <5> HIDE DEF result, got
        <5> QED
          BY <1>1, <1>4, <3>1
      <4> QED
        BY <1>3, <1>4, <3>1, <4>1
    <3>2. CASE i # q.at
      <4>1. i \in DOMAIN q.items /\ got.items[i] = q.items[i]
        <5> HIDE DEF result, got
        <5> QED
          BY <1>1, <1>4, <2>1, <3>2
      <4> QED
        BY <1>4, <4>1 DEF WholeItems
    <3> QED
      BY <3>1, <3>2
  <2> HIDE DEF got
  <2> QED
    BY <2>1 DEF WholeItems
<1>6. CASE ~(q.inner /\ ~null) /\ q.at < Len(q.calls)
  <2>1. Return(q, null) = Enter(next)
    BY <1>4, <1>6 DEF Return
  <2> HIDE DEF got
  <2>2. /\ next \in Requested /\ next.items = got.items
        /\ next.calls = got.calls /\ next.at = q.at + 1
    <3>1. got.at \in Nat /\ got.at + 1 \in Nat
      BY <1>1, <1>4
    <3> QED
      BY <1>4, <3>1 DEF Requested
  <2> HIDE DEF next
  <2>3. WholeItems(next)
    BY <1>5, <2>2 DEF WholeItems
  <2>4. next.at \in 1..Len(next.calls) /\ Len(next.items) = next.at - 1
    BY <1>1, <1>4, <1>6, <2>2
  <2> QED
    BY <1>1, <1>4, <2>1, <2>2, <2>3, <2>4, EnterWhole
<1>7. CASE ~(q.inner /\ ~null) /\ ~(q.at < Len(q.calls))
  <2>1. \E status \in {"ok", "notFound"} :
          Return(q, null) = Answered(got, status)
    BY <1>7 DEF Return
  <2> HIDE DEF got
  <2>2. ASSUME NEW status \in {"ok", "notFound"}
        PROVE  WholeReq(Answered(got, status))
    <3> DEFINE a == Answered(got, status)
    <3>1. a.pc = "done" /\ a.items = got.items /\ a.calls = got.calls
      BY <1>4 DEF Answered, Requested
    <3> HIDE DEF a
    <3>2. WholeReq(a)
      BY <1>5, <3>1 DEF WholeReq, WholeItems
    <3> QED
      BY <3>2 DEF a
  <2> QED
    BY <2>1, <2>2
<1> QED
  BY <1>2, <1>6, <1>7

(* A method between two queries: it gives up, goes on, stores or returns.  *)
LEMMA ProceedWhole ==
  ASSUME NEW q \in Requested, InCall(q), WholeItems(q), Close(q.seen), ~q.flag,
         Callee(q).op # "count",
         q.step <= Len(MethodOf(Callee(q)).reads),
         Tabs(q.seen) = First(Callee(q), q.step),
         MethodOf(Callee(q)).decide < q.step => ~Empty(Callee(q), q.seen)
  PROVE  WholeReq(Proceed(q))
<1> DEFINE c == Callee(q)
           m == MethodOf(c)
           a == [q EXCEPT !.pc = "query"]
           b == [q EXCEPT !.pc = "set", !.step = 0]
<1>1. /\ c \in Calls /\ Lister(c) = c /\ q.step \in Nat
      /\ m.decide \in Nat /\ m.reads \in Seq(Tables) /\ Len(m.reads) \in Nat
      /\ m.decide = Never \/ m.decide <= Len(m.reads)
  <2>1. c \in Calls /\ q.step \in Nat
    BY CalleeTyped DEF Requested
  <2>2. m.reads \in Seq(Tables)
    BY <2>1, MethodDecides
  <2>3. Len(m.reads) \in Nat
    BY <2>2
  <2> QED
    BY <2>1, <2>2, <2>3, MethodDecides, ListerTyped
<1>2. CASE q.step = m.decide /\ Empty(c, q.seen)
  <2>1. Proceed(q) = Return(q, TRUE)
    BY <1>2 DEF Proceed
  <2> QED
    BY <1>1, <1>2, <2>1, ReturnWhole
<1>3. ASSUME ~(q.step = m.decide /\ Empty(c, q.seen))
      PROVE  m.decide <= q.step => ~Empty(c, q.seen)
  BY <1>1, <1>3
<1>4. CASE ~(q.step = m.decide /\ Empty(c, q.seen)) /\ q.step < Len(m.reads)
  <2>1. Proceed(q) = a
    BY <1>4 DEF Proceed
  <2>2. /\ a.pc = "query" /\ a.items = q.items /\ a.calls = q.calls
        /\ a.seen = q.seen /\ a.step = q.step /\ a.at = q.at /\ a.inner = q.inner
    BY DEF Requested
  <2> HIDE DEF a
  <2>3. Callee(a) = c
    BY <2>2 DEF Callee
  <2>4. Underway(a)
    BY <1>3, <1>4, <2>2, <2>3 DEF Underway
  <2> QED
    BY <2>1, <2>2, <2>4 DEF WholeReq, WholeItems
<1>5. ASSUME ~(q.step = m.decide /\ Empty(c, q.seen)), ~(q.step < Len(m.reads))
      PROVE  Whole(Lister(c), q.seen)
  <2>1. q.step = Len(m.reads)
    BY <1>1, <1>5
  <2>2. First(c, q.step) = ReadsOf(c)
    <3>1. DOMAIN m.reads = 1..q.step
      BY <1>1, <2>1
    <3> QED
      BY <3>1 DEF First, ReadsOf
  <2>3. m.decide # Never => ~Empty(c, q.seen)
    BY <1>1, <1>3, <1>5, <2>1
  <2> QED
    BY <1>1, <2>2, <2>3 DEF Whole
<1>6. CASE /\ ~(q.step = m.decide /\ Empty(c, q.seen)) /\ ~(q.step < Len(m.reads))
           /\ Cached(c)
  <2>1. Proceed(q) = b
    BY <1>6 DEF Proceed
  <2>2. /\ b.pc = "set" /\ b.items = q.items /\ b.calls = q.calls
        /\ b.seen = q.seen /\ b.at = q.at /\ b.inner = q.inner
    BY DEF Requested
  <2> HIDE DEF b
  <2>3. Callee(b) = c
    BY <2>2 DEF Callee
  <2>4. Underway(b)
    BY <1>5, <1>6, <2>2, <2>3 DEF Underway
  <2> QED
    BY <2>1, <2>2, <2>4 DEF WholeReq, WholeItems
<1>7. CASE /\ ~(q.step = m.decide /\ Empty(c, q.seen)) /\ ~(q.step < Len(m.reads))
           /\ ~Cached(c)
  <2>1. Proceed(q) = Return(q, FALSE)
    BY <1>7 DEF Proceed
  <2> QED
    BY <1>5, <1>7, <2>1, ReturnWhole
<1> QED
  BY <1>2, <1>4, <1>6, <1>7

(* Nothing in Redis: getCount goes into the method it counts with.         *)
LEMMA MissedWhole ==
  ASSUME NEW q \in Requested, InCall(q), q.pc = "get", WholeItems(q),
         Underway(q), ~q.flag
  PROVE  WholeReq(Missed(q))
<1> DEFINE n == [q EXCEPT !.inner = TRUE]
<1>1. /\ q.step = 0 /\ Close(q.seen) /\ Tabs(q.seen) = First(Callee(q), 0)
      /\ Callee(q) \in Calls
  BY CalleeTyped DEF Underway
<1>2. CASE Callee(q).op = "count"
  <2>1. /\ n.items = q.items /\ n.calls = q.calls /\ n.seen = q.seen
        /\ n.pc = "get" /\ n.step = 0
    BY <1>1 DEF Requested
  <2>2. Missed(q) = n
    BY <1>2 DEF Missed
  <2> HIDE DEF n
  <2>3. Tabs(n.seen) = First(Callee(n), n.step)
    BY <1>1, <2>1 DEF First
  <2>4. Underway(n)
    BY <1>1, <2>1, <2>3 DEF Underway
  <2> QED
    BY <2>1, <2>2, <2>4 DEF WholeReq, WholeItems
<1>3. CASE Callee(q).op # "count"
  <2>1. /\ MethodOf(Callee(q)).decide \in Nat
        /\ Len(MethodOf(Callee(q)).reads) \in Nat
    <3>1. MethodOf(Callee(q)).reads \in Seq(Tables)
      BY <1>1, MethodDecides
    <3> QED
      BY <1>1, <3>1, MethodDecides
  <2>2. ~(MethodOf(Callee(q)).decide < q.step)
        /\ q.step <= Len(MethodOf(Callee(q)).reads)
    BY <1>1, <2>1
  <2>3. Missed(q) = Proceed(q)
    BY <1>3 DEF Missed
  <2> QED
    BY <1>1, <1>3, <2>2, <2>3, ProceedWhole
<1> QED
  BY <1>2, <1>3

-----------------------------------------------------------------------------
(* While the tables stay as they are, so does what was said of a result.   *)
LEMMA WholeStep ==
  ASSUME WholeInv, FreshInv', NEW r \in Requests, NEW q, WholeReq(q),
         req' = [req EXCEPT ![r] = q],
         \A k \in Keys : WholeEntry(k)',
         UNCHANGED <<now, db>>
  PROVE  WholeInv'
<1>1. ASSUME NEW p \in Requests PROVE WholeReq(req[p])'
  <2>1. req'[p] = IF p = r THEN q ELSE req[p]
    BY DEF WholeInv, FreshInv, TypeInv, TypeOK
  <2>2. WholeReq(req'[p])
    BY <2>1 DEF WholeInv
  <2>3. UNCHANGED <<cur, born, rows>>
    BY DEF db
  <2> QED
    BY <2>2, <2>3
    DEF WholeReq, WholeItems, WholeItem, Underway, Whole, Close, Empty, InForce
<1>2. BornPast'
  BY DEF WholeInv, BornPast, db
<1> QED
  BY <1>1, <1>2 DEF WholeInv

(* What a SET leaves in Redis is whole.                                    *)
LEMMA StoredWhole ==
  ASSUME WholeInv, NEW r \in Requests, req[r].pc = "set",
         redis' = Stored(req[r]), UNCHANGED <<now, db>>
  PROVE  \A k \in Keys : WholeEntry(k)'
<1> DEFINE q == req[r]
           c == Callee(q)
           e == [seen |-> q.seen, exp |-> now + MethodOf(c).ttl]
<1>1. Whole(Lister(c), q.seen) /\ Close(q.seen)
  BY DEF WholeInv, WholeReq, Underway
<1>2. ASSUME NEW k \in Keys
      PROVE  redis'[k] # NoEntry =>
               Whole(Lister(k), redis'[k].seen) /\ Close(redis'[k].seen)
  <2>1. redis'[k] = IF k = c THEN e ELSE redis[k]
    BY DEF Stored, WholeInv, FreshInv, TypeInv, TypeOK
  <2>2. e.seen = q.seen
    OBVIOUS
  <2> HIDE DEF e
  <2> QED
    BY <1>1, <2>1, <2>2 DEF WholeInv, WholeEntry
<1>3. UNCHANGED <<cur, born, rows>>
  BY DEF db
<1> QED
  BY <1>2, <1>3 DEF WholeEntry, Whole, Close, Empty, InForce

(* A service that has just started has nothing in part.                    *)
LEMMA InitWhole == Init => WholeInv
<1> SUFFICES ASSUME Init PROVE WholeInv
  OBVIOUS
<1>1. FreshInv
  BY InitFresh
<1>2. BornPast
  BY DEF Init, BornPast
<1>3. ASSUME NEW r \in Requests PROVE WholeReq(req[r])
  BY DEF Init, Idle, WholeReq, WholeItems
<1>4. ASSUME NEW k \in Keys PROVE WholeEntry(k)
  BY DEF Init, WholeEntry
<1> QED
  BY <1>1, <1>2, <1>3, <1>4 DEF WholeInv

(* An edit leaves the rows and the birth of the versions there are alone.  *)
LEMMA EditWhole ==
  ASSUME WholeInv, NEW t \in Edited, DbWrite(t),
         NEW seen \in SUBSET Readings, NEW i \in Int, AllInForce(seen, i)
  PROVE  /\ Close(seen) => Close(seen)'
         /\ \A c : Empty(c, seen) <=> Empty(c, seen)'
<1>1. /\ FreshInv /\ t \in Tables /\ cur \in [Tables -> Versions]
      /\ born \in [Tables -> [Versions -> 0..Horizon]]
      /\ rows \in [Tables -> [Versions -> SUBSET Keys]]
      /\ cur' = [cur EXCEPT ![t] = @ + 1]
      /\ born' = [born EXCEPT ![t][cur[t] + 1] = now]
      /\ \E R \in RowsOf(t) : rows' = [rows EXCEPT ![t][cur[t] + 1] = R]
  BY BoundsAssumption DEF WholeInv, FreshInv, TypeInv, TypeOK, DbWrite
<1>2. ASSUME NEW x \in seen
      PROVE  /\ x[1] \in Tables /\ x[2] \in Versions
             /\ born'[x[1]][x[2]] = born[x[1]][x[2]]
             /\ rows'[x[1]][x[2]] = rows[x[1]][x[2]]
  <2>1. x[1] \in Tables /\ x[2] \in Versions /\ x[2] <= cur[x[1]]
    <3>1. x[1] \in Tables /\ x[2] \in Versions /\ InForce(x[1], x[2], i)
      BY DEF Readings, AllInForce
    <3>2. cur[x[1]] \in Versions
      BY <1>1, <3>1, Zenon
    <3>3. x[2] \in Int /\ cur[x[1]] \in Int
      BY <3>1, <3>2 DEF Versions
    <3> QED
      BY <3>1, <3>3 DEF InForce
  <2>2. x[1] = t => x[2] # cur[t] + 1
    BY <1>1, <2>1, BoundsAssumption DEF Versions
  <2> QED
    BY <1>1, <2>1, <2>2
<1>3. \A c : Empty(c, seen) <=> Empty(c, seen)'
  BY <1>2 DEF Empty
<1>4. ASSUME Close(seen), NEW x \in seen, NEW y \in seen
      PROVE  InForce(x[1], x[2], born[y[1]][y[2]] - MaxRequest)'
  <2>1. /\ born[y[1]][y[2]] - MaxRequest \in Int
        /\ born[y[1]][y[2]] - MaxRequest <= now
    <3>1. born[y[1]][y[2]] \in Int /\ born[y[1]][y[2]] <= now
      BY <1>1, <1>2, BoundsAssumption DEF WholeInv, BornPast
    <3>2. now \in Int /\ MaxRequest \in Nat
      BY BoundsAssumption DEF WholeInv, FreshInv, TypeInv, TypeOK
    <3> QED
      BY <3>1, <3>2
  <2>2. PICK j \in Int : j = born[y[1]][y[2]] - MaxRequest /\ j <= now
    BY <2>1
  <2>3. AllInForce({x}, j) /\ {x} \in SUBSET Readings
    BY <1>4, <2>2 DEF Close, AllInForce
  <2>4. AllInForce({x}, j)'
    BY <1>1, <2>2, <2>3, EditFresh
  <2>5. InForce(x[1], x[2], j)'
    BY <2>4 DEF AllInForce
  <2> QED
    BY <1>2, <2>2, <2>5 DEF InForce
<1> QED
  BY <1>3, <1>4 DEF Close

(* No step returns or caches anything that is not whole.                   *)
LEMMA NextWhole == WholeInv /\ [Next]_vars => WholeInv'
<1> SUFFICES ASSUME WholeInv, [Next]_vars PROVE WholeInv'
  OBVIOUS
<1>1. /\ FreshInv /\ TypeInv /\ TypeOK /\ BornPast
      /\ FreshInv' /\ TypeInv' /\ TypeOK'
      /\ \A r \in Requests : WholeReq(req[r])
      /\ \A k \in Keys : WholeEntry(k)
  BY NextFresh DEF WholeInv, FreshInv, TypeInv
<1>2. ASSUME UNCHANGED <<now, db, redis>>
      PROVE  \A k \in Keys : WholeEntry(k)'
  BY <1>1, <1>2 DEF WholeEntry, Whole, Close, Empty, InForce, db
<1>3. ASSUME NEW r \in Requests, NEW e \in Endpoints, Start(r, e) PROVE WholeInv'
  <2> DEFINE q == [Idle EXCEPT !.calls = e, !.started = now]
  <2>1. /\ q \in Requested /\ q.items = << >> /\ q.calls = e /\ q.at = 1
        /\ 1 \in 1..Len(e)
    <3>1. now \in 0..Horizon
      BY <1>1 DEF TypeOK
    <3> QED
      BY <3>1, IdleTyped
  <2>2. req' = [req EXCEPT ![r] = Enter(q)] /\ UNCHANGED <<now, db, redis>>
    BY <1>3 DEF Start
  <2> HIDE DEF q
  <2>3. WholeItems(q) /\ Len(q.items) = q.at - 1
    BY <2>1 DEF WholeItems
  <2>4. WholeReq(Enter(q))
    BY <2>1, <2>3, EnterWhole
  <2> QED
    BY <1>1, <1>2, <2>2, <2>4, WholeStep
<1>4. ASSUME NEW r \in Requests, GetHit(r) PROVE WholeInv'
  <2> DEFINE q == req[r]
             c == Callee(q)
             h == [q EXCEPT !.seen = redis[c].seen, !.flag = HitFlag(c)]
  <2>1. /\ q \in Requested /\ InCall(q) /\ WholeItems(q) /\ c \in Keys
        /\ q.pc = "get"
    BY <1>1, <1>4, ServedFresh DEF GetHit, Busy, WholeReq
  <2>2. /\ redis[c].seen \in SUBSET Readings
        /\ Whole(Lister(c), redis[c].seen) /\ Close(redis[c].seen)
    BY <1>1, <1>4, <2>1 DEF GetHit, TypeOK, WholeEntry
  <2>3. /\ h \in Requested /\ h.calls = q.calls /\ h.at = q.at
        /\ h.inner = q.inner /\ h.items = q.items /\ h.seen = redis[c].seen
    <3>1. HitFlag(c) \in BOOLEAN
      BY DEF HitFlag
    <3> HIDE DEF q, c
    <3> QED
      BY <2>1, <2>2, <3>1 DEF Requested
  <2>4. req' = [req EXCEPT ![r] = Return(h, FALSE)] /\ UNCHANGED <<now, db, redis>>
    BY <1>4 DEF GetHit
  <2> HIDE DEF q, h
  <2>5. InCall(h) /\ WholeItems(h) /\ Callee(h) = Callee(q)
    BY <2>1, <2>3 DEF InCall, WholeItems, Callee
  <2>6. WholeReq(Return(h, FALSE))
    BY <2>2, <2>3, <2>5, ReturnWhole
  <2> QED
    BY <1>1, <1>2, <2>4, <2>6, WholeStep
<1>5. ASSUME NEW r \in Requests, GetMiss(r) \/ GetFail(r) PROVE WholeInv'
  <2>1. req' = [req EXCEPT ![r] = Missed(req[r])] /\ UNCHANGED <<now, db, redis>>
    BY <1>5 DEF GetMiss, GetFail
  <2>2. /\ req[r] \in Requested /\ InCall(req[r]) /\ Aged(req[r])
        /\ req[r].pc = "get" /\ WholeItems(req[r]) /\ Underway(req[r])
    BY <1>1, <1>5, ServedFresh DEF GetMiss, GetFail, Busy, WholeReq
  <2>3. ~req[r].flag
    BY <2>2 DEF Aged
  <2>4. WholeReq(Missed(req[r]))
    BY <2>2, <2>3, MissedWhole
  <2> QED
    BY <1>1, <1>2, <2>1, <2>4, WholeStep
<1>6. ASSUME NEW r \in Requests, Query(r) PROVE WholeInv'
  <2> DEFINE q == req[r]
             c == Callee(q)
             t == MethodOf(c).reads[q.step + 1]
             x == <<t, cur[t]>>
             n == [q EXCEPT !.step = @ + 1, !.seen = @ \cup {x}]
  <2>1. /\ q \in Requested /\ InCall(q) /\ Aged(q) /\ q.started \in Int
        /\ c \in Calls /\ q.pc = "query" /\ q.step \in Nat
        /\ q.step < Len(MethodOf(c).reads)
        /\ WholeItems(q) /\ Underway(q)
    <3>1. /\ q \in Requested /\ InCall(q) /\ Aged(q) /\ c \in Calls
          /\ q.started \in Int /\ q.pc = "query"
      BY <1>6, <1>1, ServedFresh DEF Query, Busy
    <3>2. q.step < Len(MethodOf(c).reads)
      BY <1>1, <1>6, ServedTyped DEF Query, Busy, Awaits
    <3>3. q.step \in Nat
      BY <3>1 DEF Requested
    <3> QED
      BY <1>1, <3>1, <3>2, <3>3 DEF WholeReq
  <2>2. /\ MethodOf(c).reads \in Seq(Tables) /\ Len(MethodOf(c).reads) \in Nat
        /\ MethodOf(c).decide \in Nat
    <3>1. MethodOf(c).reads \in Seq(Tables) /\ MethodOf(c).decide \in Nat
      BY <2>1, MethodDecides
    <3> QED
      BY <3>1
  <2>3. x \in Readings /\ x[1] = t
    <3>1. t \in Tables
      BY <2>1, <2>2
    <3> QED
      BY <1>1, <3>1 DEF TypeOK, Readings
  <2>4. ~q.flag /\ AllInForce(q.seen, q.started) /\ now - q.started <= MaxRequest
    BY <2>1 DEF Aged
  <2>5. AllInForce(q.seen \cup {x}, q.started)
    BY <2>4, InForceNow
  <2>6. Tabs(q.seen \cup {x}) = First(c, q.step + 1)
    <3>1. Tabs(q.seen) = First(c, q.step)
      BY <2>1 DEF Underway
    <3>2. Tabs(q.seen \cup {x}) = Tabs(q.seen) \cup {t}
      BY <2>3 DEF Tabs
    <3>3. 1..(q.step + 1) = 1..q.step \cup {q.step + 1}
      BY <2>1
    <3>4. First(c, q.step + 1) = First(c, q.step) \cup {t}
      <4> DEFINE f == MethodOf(c).reads
      <4>1. {f[i] : i \in 1..(q.step + 1)} = {f[i] : i \in 1..q.step} \cup {f[q.step + 1]}
        <5> HIDE DEF f, q, c
        <5> QED
          BY <3>3
      <4> QED
        BY <4>1 DEF First
    <3> QED
      BY <3>1, <3>2, <3>4
  <2>7. c.op # "count"
    <3>1. c.op = "count" => Len(MethodOf(c).reads) = 0
      BY <2>1, MethodDecides
    <3> QED
      BY <2>1, <2>2, <3>1
  <2>8. MethodOf(c).decide < q.step + 1 => ~Empty(c, q.seen \cup {x})
    <3>1. MethodOf(c).decide < q.step + 1 => MethodOf(c).decide <= q.step
      BY <2>1, <2>2
    <3>2. MethodOf(c).decide <= q.step => ~Empty(c, q.seen)
      BY <2>1 DEF Underway
    <3>3. ~Empty(c, q.seen) => ~Empty(c, q.seen \cup {x})
      BY DEF Empty
    <3> QED
      BY <3>1, <3>2, <3>3
  <2>9. req' = [req EXCEPT ![r] = Proceed(n)] /\ UNCHANGED <<now, db, redis>>
    BY <1>6 DEF Query
  <2>10. Close(q.seen \cup {x}) /\ q.seen \cup {x} \in SUBSET Readings
    <3>1. q.seen \cup {x} \in SUBSET Readings
      BY <2>1, <2>3 DEF Requested
    <3> HIDE DEF q, x
    <3> QED
      BY <1>1, <2>1, <2>4, <2>5, <3>1, ReadsClose
  <2> HIDE DEF t, x
  <2>11. /\ n \in Requested /\ n.calls = q.calls /\ n.at = q.at
         /\ n.inner = q.inner /\ n.items = q.items /\ n.flag = q.flag
         /\ n.seen = q.seen \cup {x} /\ n.step = q.step + 1
    <3> HIDE DEF q
    <3>1. q.step + 1 \in Nat
      BY <2>1
    <3> QED
      BY <2>1, <2>10, <3>1 DEF Requested
  <2> HIDE DEF q, n
  <2>12. InCall(n) /\ WholeItems(n) /\ Callee(n) = c
    BY <2>1, <2>11 DEF InCall, WholeItems, Callee
  <2> HIDE DEF c
  <2>13. n.step <= Len(MethodOf(c).reads)
    BY <2>1, <2>2, <2>11
  <2>14. WholeReq(Proceed(n))
    BY <2>4, <2>6, <2>7, <2>8, <2>10, <2>11, <2>12, <2>13, ProceedWhole
  <2> QED
    BY <1>1, <1>2, <2>9, <2>14, WholeStep
<1>7. ASSUME NEW r \in Requests, Busy(r) PROVE WholeReq(Answered(req[r], "error"))
  <2> DEFINE a == Answered(req[r], "error")
  <2>1. req[r] \in Requested /\ WholeItems(req[r])
    BY <1>1, <1>7, ServedFresh DEF WholeReq
  <2>2. a.pc = "done" /\ a.items = req[r].items /\ a.calls = req[r].calls
    BY <2>1 DEF Answered, Requested
  <2> HIDE DEF a
  <2>3. WholeReq(a)
    BY <2>1, <2>2 DEF WholeReq, WholeItems
  <2> QED
    BY <2>3 DEF a
<1>8. ASSUME NEW r \in Requests, QueryFail(r) PROVE WholeInv'
  <2>1. /\ req' = [req EXCEPT ![r] = Answered(req[r], "error")]
        /\ UNCHANGED <<now, db, redis>> /\ Busy(r)
    BY <1>8 DEF QueryFail, Busy
  <2> QED
    BY <1>1, <1>2, <1>7, <2>1, WholeStep
<1>9. ASSUME NEW r \in Requests, SetOk(r) PROVE WholeInv'
  <2>1. /\ req' = [req EXCEPT ![r] = Return(req[r], FALSE)]
        /\ redis' = Stored(req[r]) /\ UNCHANGED <<now, db>>
        /\ req[r].pc = "set" /\ Busy(r)
    BY <1>9 DEF SetOk, Busy
  <2>2. /\ req[r] \in Requested /\ InCall(req[r]) /\ WholeItems(req[r])
        /\ Close(req[r].seen) /\ Whole(Lister(Callee(req[r])), req[r].seen)
    BY <1>1, <2>1, ServedFresh DEF WholeReq, Underway
  <2>3. WholeReq(Return(req[r], FALSE))
    BY <2>2, ReturnWhole
  <2> QED
    BY <1>1, <2>1, <2>3, StoredWhole, WholeStep
<1>10. ASSUME NEW r \in Requests, SetFail(r) PROVE WholeInv'
  <2>1. /\ req' = [req EXCEPT ![r] = Answered(req[r], "error")]
        /\ redis' \in {redis, Stored(req[r])} /\ UNCHANGED <<now, db>>
        /\ req[r].pc = "set" /\ Busy(r)
    BY <1>10 DEF SetFail, Busy
  <2>2. \A k \in Keys : WholeEntry(k)'
    BY <1>2, <2>1, StoredWhole
  <2> QED
    BY <1>1, <1>7, <2>1, <2>2, WholeStep
<1>11. ASSUME NEW r \in Requests, SetResend(r) PROVE WholeInv'
  <2>1. \A k \in Keys : WholeEntry(k)'
    BY <1>11, StoredWhole DEF SetResend
  <2>2. UNCHANGED <<now, cur, born, rows, req>>
    BY <1>11 DEF SetResend, db
  <2> QED
    BY <1>1, <2>1, <2>2
    DEF WholeInv, BornPast, WholeReq, WholeItems, WholeItem, Underway, Whole,
        Close, Empty, InForce
<1>12. ASSUME Crash PROVE WholeInv'
  <2>1. (\A r \in Requests : req'[r] = Idle) /\ UNCHANGED <<now, db, redis>>
    BY <1>12 DEF Crash
  <2>2. ASSUME NEW r \in Requests PROVE WholeReq(req[r])'
    BY <2>1 DEF Idle, WholeReq, WholeItems
  <2>3. BornPast'
    BY <1>1, <2>1 DEF BornPast, db
  <2> QED
    BY <1>1, <1>2, <2>1, <2>2, <2>3 DEF WholeInv
<1>13. ASSUME NEW t \in Edited, DbWrite(t) PROVE WholeInv'
  <2>1. UNCHANGED <<now, redis, req>>
    BY <1>13 DEF DbWrite
  <2>2. \A s \in SUBSET Readings, i \in Int : AllInForce(s, i) =>
          /\ Close(s) => Close(s)'
          /\ \A c : Empty(c, s) <=> Empty(c, s)'
    BY <1>13, EditWhole
  <2>3. BornPast'
    <3>1. /\ born \in [Tables -> [Versions -> 0..Horizon]] /\ now \in Int
          /\ born' = [born EXCEPT ![t][cur[t] + 1] = now] /\ now' = now
      BY <1>1, <1>13, BoundsAssumption DEF TypeOK, DbWrite
    <3> QED
      BY <1>1, <3>1 DEF BornPast
  <2>4. ASSUME NEW r \in Requests PROVE WholeReq(req[r])'
    <3>1. /\ req[r] \in Requested /\ Fresh(req[r]) /\ WholeReq(req[r])
          /\ req[r].started \in Int
      BY <1>1, ServedTyped, BoundsAssumption DEF FreshInv, Requested
    <3>2. ASSUME NEW i \in DOMAIN req[r].items
          PROVE  WholeItem(req[r].calls[i], req[r].items[i])'
      <4>1. req[r].items[i].seen \in SUBSET Readings
        <5>1. req[r].items \in Seq(Results)
          BY <3>1 DEF Requested
        <5>2. req[r].items[i] \in Results
          BY <5>1
        <5> QED
          BY <5>2 DEF Results
      <4>2. /\ req[r].started - Shelf(req[r].calls[i]) \in Int
            /\ AllInForce(req[r].items[i].seen,
                          req[r].started - Shelf(req[r].calls[i]))
        <5>1. req[r].calls[i] \in Calls
          BY <3>1 DEF Requested, Fresh, AgedItems
        <5> QED
          BY <3>1, <5>1, ShelfTyped DEF Fresh, AgedItems
      <4>3. WholeItem(req[r].calls[i], req[r].items[i])
        BY <3>1 DEF WholeReq, WholeItems
      <4>4. /\ Close(req[r].items[i].seen) => Close(req[r].items[i].seen)'
            /\ \A c : Empty(c, req[r].items[i].seen)
                        <=> Empty(c, req[r].items[i].seen)'
        <5>1. PICK s \in SUBSET Readings : s = req[r].items[i].seen
          BY <4>1
        <5>2. /\ Close(s) => Close(s)'
              /\ \A c : Empty(c, s) <=> Empty(c, s)'
          BY <2>2, <4>2, <5>1
        <5>3. s = req'[r].items[i].seen
          BY <2>1, <5>1
        <5> QED
          BY <5>1, <5>2, <5>3 DEF Close, Empty
      <4> QED
        BY <2>1, <4>3, <4>4 DEF WholeItem, Whole
    <3>3. ASSUME Busy(r) PROVE Underway(req[r])'
      <4>1. Aged(req[r]) /\ req[r].seen \in SUBSET Readings /\ InCall(req[r])
        BY <1>1, <3>3, ServedFresh
      <4>2. \E i \in Int : AllInForce(req[r].seen, i)
        <5>1. req[r].flag \/ ~req[r].flag
          OBVIOUS
        <5>2. req[r].flag => /\ Age(Inner(req[r].calls[req[r].at])) \in Nat
                             /\ AllInForce(req[r].seen, req[r].started
                                  - Age(Inner(req[r].calls[req[r].at])))
          BY <3>1, <4>1, CalleeTyped, ShelfTyped DEF Aged
        <5> QED
          BY <3>1, <4>1, <5>1, <5>2 DEF Aged
      <4>3. Underway(req[r])
        BY <3>1, <3>3 DEF WholeReq, Busy
      <4>4. /\ Close(req[r].seen) => Close(req[r].seen)'
            /\ \A c : Empty(c, req[r].seen) <=> Empty(c, req[r].seen)'
        BY <2>1, <2>2, <4>1, <4>2 DEF Close, Empty, InForce
      <4> QED
        BY <2>1, <4>3, <4>4 DEF Underway, Whole
    <3> QED
      BY <2>1, <3>2, <3>3 DEF WholeReq, WholeItems, Busy
  <2>5. ASSUME NEW k \in Keys PROVE WholeEntry(k)'
    <3>1. /\ redis[k].seen \in SUBSET Readings /\ WholeEntry(k)
          /\ redis[k].exp - Shelf(k) - 1 \in Int
          /\ AllInForce(redis[k].seen, redis[k].exp - Shelf(k) - 1)
      <4>1. redis[k].seen \in SUBSET Readings /\ redis[k].exp \in Nat
        BY <1>1 DEF TypeOK
      <4>2. Shelf(k) \in Nat
        BY KeysTyped, ShelfTyped
      <4> QED
        BY <1>1, <4>1, <4>2 DEF FreshInv, AgedEntry
    <3>2. /\ Close(redis[k].seen) => Close(redis[k].seen)'
          /\ \A c : Empty(c, redis[k].seen) <=> Empty(c, redis[k].seen)'
      <4>1. PICK s \in SUBSET Readings : s = redis[k].seen
        BY <3>1
      <4>2. /\ Close(s) => Close(s)'
            /\ \A c : Empty(c, s) <=> Empty(c, s)'
        BY <2>2, <3>1, <4>1
      <4>3. s = redis'[k].seen
        BY <2>1, <4>1
      <4> QED
        BY <4>1, <4>2, <4>3 DEF Close, Empty
    <3> QED
      BY <2>1, <3>1, <3>2 DEF WholeEntry, Whole
  <2> QED
    BY <1>1, <2>3, <2>4, <2>5 DEF WholeInv
<1>14. ASSUME NEW k \in Keys, Evict(k) PROVE WholeInv'
  <2>1. /\ UNCHANGED <<now, cur, born, rows, req>>
        /\ redis' = [redis EXCEPT ![k] = NoEntry]
    BY <1>14 DEF Evict, db
  <2>2. ASSUME NEW l \in Keys PROVE WholeEntry(l)'
    <3>1. redis'[l] = IF l = k THEN NoEntry ELSE redis[l]
      BY <1>1, <2>1 DEF TypeOK
    <3> QED
      BY <1>1, <2>1, <3>1 DEF WholeEntry, Whole, Close, Empty, InForce
  <2> QED
    BY <1>1, <2>1, <2>2
    DEF WholeInv, BornPast, WholeReq, WholeItems, WholeItem, Underway, Whole,
        Close, Empty, InForce
<1>15. ASSUME Tick PROVE WholeInv'
  <2>1. UNCHANGED <<cur, born, rows, req>> /\ now' = now + 1
    BY <1>15 DEF Tick, db
  <2>2. ASSUME NEW k \in Keys PROVE WholeEntry(k)'
    <3>1. redis'[k] \in {NoEntry, redis[k]}
      BY <1>15 DEF Tick
    <3> QED
      BY <1>1, <2>1, <3>1 DEF WholeEntry, Whole, Close, Empty, InForce
  <2>3. BornPast'
    <3>1. /\ born \in [Tables -> [Versions -> 0..Horizon]] /\ now \in Int
          /\ 0..Horizon \subseteq Int
      BY <1>1, BoundsAssumption DEF TypeOK
    <3> QED
      BY <1>1, <2>1, <3>1 DEF BornPast
  <2> QED
    BY <1>1, <2>1, <2>2, <2>3
    DEF WholeInv, WholeReq, WholeItems, WholeItem, Underway, Whole, Close,
        Empty, InForce
<1>16. ASSUME UNCHANGED vars PROVE WholeInv'
  BY <1>1, <1>16
  DEF vars, db, WholeInv, BornPast, WholeReq, WholeItems, WholeItem, Underway,
      WholeEntry, Whole, Close, Empty, InForce
<1> QED
  BY <1>3, <1>4, <1>5, <1>6, <1>8, <1>9, <1>10, <1>11, <1>12, <1>13, <1>14,
     <1>15, <1>16
  DEF Next, Respond

-----------------------------------------------------------------------------
(* So nothing ever is returned or cached in part.                          *)
LEMMA WholeAlways == Spec => []WholeInv
BY InitWhole, NextWhole, PTL DEF Spec

(* Whatever fails between two queries or a query and the SET, data that    *)
(* are returned, and every entry of Redis, come from every table their     *)
(* method reads.                                                           *)
THEOREM NeverPartial == Spec => []NothingPartial
<1>1. WholeInv => NothingPartial
  BY DEF WholeInv, WholeReq, WholeItems, WholeItem, WholeEntry, Whole, Tabs,
         NothingPartial
<1> QED
  BY <1>1, WholeAlways, PTL

(* A null, the 404s and the count of null included, is never taken from    *)
(* Redis: the tables said so during this very request; and data are only   *)
(* returned where the tables that were read had rows.                      *)
THEOREM AbsenceIsCurrent == Spec => []NullIsFresh
<1>1. ASSUME WholeInv, NEW r \in Requests, NEW i \in DOMAIN req[r].items
      PROVE  /\ req[r].items[i].null =>
                  /\ Empty(Lister(req[r].calls[i]), req[r].items[i].seen)
                  /\ AllInForce(req[r].items[i].seen, req[r].started)
             /\ ~req[r].items[i].null /\ Decides(req[r].calls[i]) =>
                  ~Empty(Lister(req[r].calls[i]), req[r].items[i].seen)
  <2>1. WholeItem(req[r].calls[i], req[r].items[i])
    BY <1>1 DEF WholeInv, WholeReq, WholeItems
  <2>2. ~req[r].items[i].isCache =>
          AllInForce(req[r].items[i].seen, req[r].started)
    BY <1>1 DEF WholeInv, FreshInv, Fresh, AgedItems
  <2> QED
    BY <2>1, <2>2 DEF WholeItem, Whole, Decides
<1>2. ASSUME WholeInv, NEW r \in Requests, NEW i \in DOMAIN req[r].items
      PROVE  Decides(Lister(req[r].calls[i])) <=> Decides(req[r].calls[i])
  <2>1. req[r].calls[i] \in Calls
    <3>1. req[r] \in Requested /\ AgedItems(req[r])
      BY <1>2, ServedTyped DEF WholeInv, FreshInv, Fresh
    <3> QED
      BY <3>1 DEF Requested, AgedItems
  <2> QED
    BY <2>1, ListerTyped DEF Decides
<1>3. WholeInv => NullIsFresh
  BY <1>1, <1>2 DEF NullIsFresh
<1> QED
  BY <1>3, WholeAlways, PTL

(* The queries of one method may see two versions of the tables, but none  *)
(* further apart than a request lasts, from Redis no less than from SQL    *)
(* Server.                                                                 *)
THEOREM SkewBounded == Spec => []BoundedSkew
<1>1. WholeInv => BoundedSkew
  BY DEF WholeInv, WholeReq, WholeItems, WholeItem, Close, BoundedSkew
<1> QED
  BY <1>1, WholeAlways, PTL

-----------------------------------------------------------------------------
(* Refinement. WholeInv says what may be in an answer. What is left: that  *)
(* a request is answered once, by the step that ends its last call, and    *)
(* that every step before it is hidden from the client.                    *)

Open == {"get", "query", "set"}

(* What a step makes of an open request q, seen from outside: nothing new, *)
(* or an answer that is complete unless it is an error.                    *)
Serves(q, p) ==
  /\ p.calls = q.calls /\ p.started = q.started
  /\ \/ p.pc \in Open /\ p.status = q.status
     \/ /\ p.pc = "done" /\ p.status \in {"ok", "notFound", "error"}
        /\ p.status # "error" => Len(p.items) = Len(p.calls)

(* A request that is open has not been answered.                           *)
Unanswered(q) == q.pc \in Open => q.status = "none"

MapInv == WholeInv /\ \A r \in Requests : Unanswered(req[r])

-----------------------------------------------------------------------------
(* A method that returns ends its call, or the request.                    *)
LEMMA ReturnServes ==
  ASSUME NEW q \in Requested, InCall(q), NEW null \in BOOLEAN
  PROVE  Serves(q, Return(q, null))
<1> DEFINE result == [null |-> null, isCache |-> q.flag, seen |-> q.seen]
           got    == [q EXCEPT !.items = Append(@, result)]
           next   == [got EXCEPT !.at = @ + 1]
           set    == [q EXCEPT !.pc = "set", !.inner = FALSE, !.step = 0]
<1>1. CASE q.inner /\ ~null
  <2>1. /\ set.pc = "set" /\ set.calls = q.calls /\ set.started = q.started
        /\ set.status = q.status
    BY DEF Requested
  <2>2. Return(q, null) = set
    BY <1>1 DEF Return, set
  <2> QED
    BY <2>1, <2>2 DEF Serves, Open
<1>2. /\ got.calls = q.calls /\ got.started = q.started /\ got.at = q.at
      /\ got.status = q.status /\ got \in Requested
      /\ Len(got.items) = q.at
  <2>1. Append(q.items, result) \in Seq(Results)
        /\ Len(Append(q.items, result)) = q.at
    <3>1. result \in Results /\ q.items \in Seq(Results) /\ q.at \in Nat
          /\ Len(q.items) = q.at - 1
      BY DEF Requested, Results, InCall
    <3> HIDE DEF result
    <3> QED
      BY <3>1
  <2> HIDE DEF result
  <2> QED
    BY <2>1 DEF Requested
<1>3. CASE ~(q.inner /\ ~null) /\ q.at < Len(q.calls)
  <2>1. Return(q, null) = Enter(next)
    BY <1>2, <1>3 DEF Return
  <2> HIDE DEF got
  <2>2. /\ Enter(next).pc \in Open /\ Enter(next).calls = got.calls
        /\ Enter(next).started = got.started /\ Enter(next).status = got.status
    BY <1>2 DEF Enter, Open, Requested
  <2> QED
    BY <1>2, <2>1, <2>2 DEF Serves
<1>4. CASE ~(q.inner /\ ~null) /\ ~(q.at < Len(q.calls))
  <2>1. \E status \in {"ok", "notFound"} :
          Return(q, null) = Answered(got, status)
    BY <1>4 DEF Return
  <2> HIDE DEF got
  <2>2. \A status \in {"ok", "notFound"} :
          LET a == Answered(got, status)
          IN  /\ a.pc = "done" /\ a.calls = got.calls /\ a.items = got.items
              /\ a.started = got.started /\ a.status = status
    BY <1>2 DEF Answered, Requested
  <2>3. q.at = Len(q.calls)
    <3>1. q.at \in 1..Len(q.calls) /\ q.calls \in Seq(Calls)
      BY CalleeTyped DEF InCall
    <3>2. Len(q.calls) \in Nat
      BY <3>1
    <3> QED
      BY <1>4, <3>1, <3>2
  <2> QED
    BY <1>2, <2>1, <2>2, <2>3 DEF Serves
<1> QED
  BY <1>1, <1>3, <1>4

(* Between two queries nothing is to be seen unless the method returns.    *)
LEMMA ProceedServes ==
  ASSUME NEW q \in Requested, InCall(q)
  PROVE  Serves(q, Proceed(q))
<1> DEFINE a == [q EXCEPT !.pc = "query"]
           b == [q EXCEPT !.pc = "set", !.step = 0]
<1>1. Serves(q, Return(q, TRUE)) /\ Serves(q, Return(q, FALSE))
  BY ReturnServes
<1>2. Serves(q, a) /\ Serves(q, b)
  BY DEF Serves, Open, Requested
<1> QED
  BY <1>1, <1>2 DEF Proceed

(* Nor after a miss.                                                       *)
LEMMA MissedServes ==
  ASSUME NEW q \in Requested, InCall(q), q.pc = "get"
  PROVE  Serves(q, Missed(q))
<1>1. Serves(q, [q EXCEPT !.inner = TRUE])
  BY DEF Serves, Open, Requested
<1> QED
  BY <1>1, ProceedServes DEF Missed

(* Every reply or error that a request was waiting for serves it.          *)
LEMMA RespondServes ==
  ASSUME TypeInv, NEW r \in Requests, Respond(r)
  PROVE  /\ Busy(r) /\ UNCHANGED <<now, db>>
         /\ \E p : req' = [req EXCEPT ![r] = p] /\ Serves(req[r], p)
<1>1. Busy(r) /\ UNCHANGED <<now, db>>
  BY DEF Respond, GetHit, GetMiss, GetFail, Query, QueryFail, SetOk, SetFail,
         Busy
<1> DEFINE q == req[r]
<1>2. q \in Requested /\ InCall(q)
  BY <1>1, ServedTyped
<1>3. CASE GetHit(r)
  <2> DEFINE h == [q EXCEPT !.seen = redis[Callee(q)].seen,
                            !.flag = HitFlag(Callee(q))]
  <2>1. redis[Callee(q)].seen \in SUBSET Readings
    <3>1. Callee(q) \in Keys
      BY <1>3, ServedTyped DEF GetHit
    <3> QED
      BY <3>1 DEF TypeInv, TypeOK
  <2>2. /\ h \in Requested /\ h.calls = q.calls /\ h.at = q.at
        /\ h.inner = q.inner /\ h.items = q.items
        /\ h.started = q.started /\ h.status = q.status
    <3>1. HitFlag(Callee(q)) \in BOOLEAN
      BY DEF HitFlag
    <3> HIDE DEF q
    <3> QED
      BY <1>2, <2>1, <3>1 DEF Requested
  <2>3. req' = [req EXCEPT ![r] = Return(h, FALSE)]
    BY <1>3 DEF GetHit
  <2> HIDE DEF q, h
  <2>4. InCall(h)
    BY <1>2, <2>2 DEF InCall
  <2>5. Serves(h, Return(h, FALSE))
    BY <2>2, <2>4, ReturnServes
  <2>6. Serves(q, Return(h, FALSE))
    BY <2>2, <2>5 DEF Serves
  <2> QED
    BY <1>1, <2>3, <2>6 DEF q
<1>4. CASE GetMiss(r) \/ GetFail(r)
  <2>1. req' = [req EXCEPT ![r] = Missed(req[r])] /\ q.pc = "get"
    BY <1>4 DEF GetMiss, GetFail
  <2> QED
    BY <1>1, <1>2, <2>1, MissedServes
<1>5. CASE Query(r)
  <2> DEFINE t == MethodOf(Callee(q)).reads[q.step + 1]
             n == [q EXCEPT !.step = @ + 1, !.seen = @ \cup {<<t, cur[t]>>}]
  <2>1. <<t, cur[t]>> \in Readings
    <3>1. /\ Callee(q) \in Calls /\ q.step \in Nat
          /\ q.step < Len(MethodOf(Callee(q)).reads)
      BY <1>1, <1>2, <1>5, CalleeTyped, ServedTyped
      DEF Query, Awaits, Requested
    <3>2. MethodOf(Callee(q)).reads \in Seq(Tables)
      BY <3>1, MethodTyped DEF MethodType
    <3>3. t \in Tables
      BY <3>1, <3>2
    <3> QED
      BY <3>3 DEF TypeInv, TypeOK, Readings
  <2>2. req' = [req EXCEPT ![r] = Proceed(n)]
    BY <1>5 DEF Query
  <2> HIDE DEF t
  <2>3. /\ n \in Requested /\ n.calls = q.calls /\ n.at = q.at
        /\ n.inner = q.inner /\ n.items = q.items
        /\ n.started = q.started /\ n.status = q.status
    <3> HIDE DEF q
    <3>1. q.step + 1 \in Nat /\ q.seen \cup {<<t, cur[t]>>} \in SUBSET Readings
      BY <1>2, <2>1 DEF Requested
    <3> QED
      BY <1>2, <3>1 DEF Requested
  <2> HIDE DEF q, n
  <2>4. InCall(n)
    BY <1>2, <2>3 DEF InCall
  <2>5. Serves(n, Proceed(n))
    BY <2>3, <2>4, ProceedServes
  <2>6. Serves(q, Proceed(n))
    BY <2>3, <2>5 DEF Serves
  <2> QED
    BY <1>1, <2>2, <2>6 DEF q
<1>6. CASE SetOk(r)
  <2>1. req' = [req EXCEPT ![r] = Return(req[r], FALSE)]
    BY <1>6 DEF SetOk
  <2> QED
    BY <1>1, <1>2, <2>1, ReturnServes
<1>7. CASE QueryFail(r) \/ SetFail(r)
  <2>1. req' = [req EXCEPT ![r] = Answered(req[r], "error")]
    BY <1>7 DEF QueryFail, SetFail
  <2>2. Serves(q, Answered(q, "error"))
    BY <1>2 DEF Serves, Answered, Requested
  <2> QED
    BY <1>1, <2>1, <2>2
<1> QED
  BY <1>3, <1>4, <1>5, <1>6, <1>7 DEF Respond

-----------------------------------------------------------------------------
(* What a client sees, and when it changes.                                *)
client == [r \in Requests |-> ClientView(req[r])]

(* The shape of what a client sees.                                        *)
ClientType ==
  [state : {"idle", "open", "answered"}, calls : Seq(Calls),
   started : 0..Horizon, items : Seq(Results),
   status : {"none", "ok", "notFound", "error"}]

LEMMA ViewTyped ==
  /\ \A q \in Requested : ClientView(q) \in ClientType
  /\ Contract!NoClient \in ClientType
<1>1. << >> \in Seq(Calls) /\ << >> \in Seq(Results) /\ 0 \in 0..Horizon
  BY BoundsAssumption
<1> QED
  BY <1>1 DEF ClientView, ClientType, Requested, Contract!NoClient

(* The request with a step is the only one whose client may see it.        *)
LEMMA ViewStep ==
  ASSUME TypeOK, NEW r \in Requests, NEW p, req' = [req EXCEPT ![r] = p]
  PROVE  client' = [client EXCEPT ![r] = ClientView(p)]
<1>1. \A s \in Requests : req'[s] = IF s = r THEN p ELSE req[s]
  BY DEF TypeOK
<1>2. client' = [s \in Requests |-> ClientView(req'[s])]
  BY DEF client, ClientView
<1>3. client' = [s \in Requests |->
                   IF s = r THEN ClientView(p) ELSE ClientView(req[s])]
  BY <1>1, <1>2
<1> QED
  BY <1>3 DEF client

(* What FreshInv and WholeInv say of an answer makes it acceptable.        *)
LEMMA AnswerAcceptable ==
  ASSUME NEW q, q.pc = "done", AgedItems(q),
         \A i \in DOMAIN q.items : q.items[i].null => ~q.items[i].isCache,
         q.status # "error" => Len(q.items) = Len(q.calls)
  PROVE  Contract!Acceptable(ClientView(q))
<1> DEFINE c == ClientView(q)
<1>1. /\ c.items = q.items /\ c.calls = q.calls /\ c.started = q.started
      /\ c.status = q.status
  BY DEF ClientView
<1> HIDE DEF c
<1>3. ASSUME NEW i \in DOMAIN c.items, NEW x \in c.items[i].seen
      PROVE  Contract!InForce(x[1], x[2], Contract!Limit(c, i))
  <2>1. /\ AllInForce(q.items[i].seen, q.started - Shelf(q.calls[i]))
        /\ ~q.items[i].isCache => AllInForce(q.items[i].seen, q.started)
        /\ q.items[i].null => ~q.items[i].isCache
    BY <1>1 DEF AgedItems
  <2>2. CASE c.items[i].null \/ \A j \in DOMAIN c.items : ~c.items[j].isCache
    <3>1. Contract!Limit(c, i) = q.started
      BY <1>1, <2>2 DEF Contract!Limit
    <3>2. InForce(x[1], x[2], q.started)
      BY <1>1, <2>1, <2>2 DEF AllInForce
    <3> QED
      BY <3>1, <3>2 DEF InForce, Contract!InForce
  <2>3. CASE ~(c.items[i].null \/ \A j \in DOMAIN c.items : ~c.items[j].isCache)
    <3>1. Contract!Limit(c, i) = q.started - Shelf(q.calls[i])
      BY <1>1, <2>3 DEF Contract!Limit
    <3>2. InForce(x[1], x[2], q.started - Shelf(q.calls[i]))
      BY <1>1, <2>1 DEF AllInForce
    <3> QED
      BY <3>1, <3>2 DEF InForce, Contract!InForce
  <2> QED
    BY <2>2, <2>3
<1>4. c.status \in {"ok", "notFound"} => Len(c.items) = Len(c.calls)
  BY <1>1
<1> QED
  BY <1>3, <1>4 DEF Contract!Acceptable, c

-----------------------------------------------------------------------------
(* A service that starts has no clients.                                   *)
LEMMA InitMaps == Init => MapInv /\ Contract!Init
<1> SUFFICES ASSUME Init PROVE MapInv /\ Contract!Init
  OBVIOUS
<1>1. MapInv
  BY InitWhole DEF Init, Idle, Unanswered, Open, MapInv
<1>2. [r \in Requests |-> ClientView(req[r])] = [r \in Requests |-> Contract!NoClient]
  BY DEF Init, Idle, ClientView, Contract!NoClient
<1>3. Contract!Init
  BY <1>2 DEF Init, Versions, Contract!Init
<1> QED
  BY <1>1, <1>3

(* Nobody is told anything but by an answer.                               *)
LEMMA RespondMaps ==
  ASSUME MapInv, WholeInv', NEW r \in Requests, Respond(r)
  PROVE  /\ \A s \in Requests : Unanswered(req'[s])
         /\ Contract!Reply(r) \/ UNCHANGED <<now, cur, born, client>>
<1>1. /\ TypeInv /\ TypeOK /\ WholeInv
      /\ \A s \in Requests : Unanswered(req[s])
  BY DEF MapInv, WholeInv, FreshInv, TypeInv
<1>2. /\ Busy(r) /\ UNCHANGED <<now, cur, born>>
      /\ \E p : req' = [req EXCEPT ![r] = p] /\ Serves(req[r], p)
  BY <1>1, RespondServes DEF db
<1>3. PICK p : req' = [req EXCEPT ![r] = p] /\ Serves(req[r], p)
  BY <1>2
<1>4. \A s \in Requests : req'[s] = IF s = r THEN p ELSE req[s]
  BY <1>1, <1>3 DEF TypeOK
<1>5. req[r].status = "none" /\ req[r].pc \in Open
  BY <1>1, <1>2 DEF Unanswered, Busy, Open
<1>6. ASSUME NEW s \in Requests PROVE Unanswered(req'[s])
  <2>1. p.pc \in Open => p.status = "none"
    BY <1>3, <1>5 DEF Serves, Open
  <2> QED
    BY <1>1, <1>4, <2>1 DEF Unanswered
<1>7. client' = [client EXCEPT ![r] = ClientView(p)]
  BY <1>1, <1>3, ViewStep
<1>8. /\ client[r] = ClientView(req[r]) /\ client[r].state = "open"
      /\ client[r].items = << >>
  BY <1>5 DEF client, ClientView, Open
<1>9. CASE p.pc \in Open
  <2>1. ClientView(p) = ClientView(req[r])
    BY <1>3, <1>5, <1>9 DEF ClientView, Serves, Open
  <2>2. client' = client
    BY <1>7, <1>8, <2>1 DEF client
  <2> QED
    BY <1>2, <1>6, <2>2
<1>10. CASE p.pc \notin Open
  <2>1. /\ p.pc = "done" /\ p.status \in {"ok", "notFound", "error"}
        /\ p.status # "error" => Len(p.items) = Len(p.calls)
        /\ p.calls = req[r].calls /\ p.started = req[r].started
    BY <1>3, <1>10 DEF Serves
  <2>2. client'[r] = ClientView(p) /\ req'[r] = p
    BY <1>4, <1>7 DEF client
  <2>3. Contract!Acceptable(ClientView(p))
    <3>1. AgedItems(req[r])' /\ WholeItems(req[r])'
      BY DEF WholeInv, FreshInv, Fresh, WholeReq
    <3>2. AgedItems(p)
      BY <1>2, <2>2, <3>1 DEF AgedItems, AllInForce, InForce
    <3>3. \A i \in DOMAIN p.items : p.items[i].null => ~p.items[i].isCache
      BY <2>2, <3>1 DEF WholeItems, WholeItem
    <3> QED
      BY <2>1, <3>2, <3>3, AnswerAcceptable
  <2>4. ClientView(p) = [client[r] EXCEPT !.state = "answered",
                           !.items = ClientView(p).items,
                           !.status = ClientView(p).status]
    <3>1. req[r] \in Requested /\ p \in Requested
      BY <1>1, <2>2 DEF WholeInv, FreshInv, TypeInv, TypeOK, Requested
    <3>2. /\ client[r] \in ClientType /\ ClientView(p) \in ClientType
          /\ client[r].calls = req[r].calls
          /\ client[r].started = req[r].started
      BY <1>8, <3>1, ViewTyped DEF ClientView
    <3>3. /\ ClientView(p).state = "answered" /\ ClientView(p).calls = p.calls
          /\ ClientView(p).started = p.started
      BY <2>1 DEF ClientView
    <3> QED
      BY <2>1, <3>2, <3>3 DEF ClientType
  <2>5. ClientView(p).status = p.status
    BY DEF ClientView
  <2>6. client' = [client EXCEPT ![r] = [@ EXCEPT !.state = "answered",
                                           !.items = client'[r].items,
                                           !.status = client'[r].status]]
    BY <1>7, <2>2, <2>4
  <2>7. Contract!Reply(r)
    BY <1>2, <1>8, <2>1, <2>2, <2>3, <2>5, <2>6 DEF Contract!Reply, client
  <2> QED
    BY <1>6, <2>7
<1> QED
  BY <1>9, <1>10

(* Each step of the service is one of the contract's, or none.             *)
LEMMA NextMaps ==
  ASSUME MapInv, [Next]_vars
  PROVE  MapInv' /\ (Contract!Next \/ UNCHANGED <<now, cur, born, client>>)
<1>1. /\ WholeInv /\ WholeInv' /\ TypeInv /\ TypeOK
      /\ \A s \in Requests : Unanswered(req[s])
  BY NextWhole DEF MapInv, WholeInv, FreshInv, TypeInv
<1>2. ASSUME \A s \in Requests : Unanswered(req'[s]) PROVE MapInv'
  BY <1>1, <1>2 DEF MapInv, Unanswered
<1>3. ASSUME UNCHANGED req PROVE MapInv' /\ UNCHANGED client
  BY <1>1, <1>2, <1>3 DEF client, ClientView
<1>4. CASE \E r \in Requests : Respond(r)
  <2>1. PICK r \in Requests : Respond(r)
    BY <1>4
  <2>2. /\ \A s \in Requests : Unanswered(req'[s])
        /\ Contract!Reply(r) \/ UNCHANGED <<now, cur, born, client>>
    BY <1>1, <2>1, RespondMaps DEF MapInv
  <2> QED
    BY <1>2, <2>2 DEF Contract!Next
<1>5. CASE \E r \in Requests : SetResend(r)
  BY <1>3, <1>5 DEF SetResend, db
<1>6. CASE \E r \in Requests, e \in Endpoints : Start(r, e)
  <2>1. PICK r \in Requests, e \in Endpoints : Start(r, e)
    BY <1>6
  <2> DEFINE q == Enter([Idle EXCEPT !.calls = e, !.started = now])
  <2>2. /\ req' = [req EXCEPT ![r] = q] /\ UNCHANGED <<now, cur, born>>
        /\ req[r].pc \in {"idle", "done"}
    BY <1>1, <2>1 DEF Start, db, Busy, TypeOK
  <2>3. /\ q.pc \in Open /\ q.calls = e /\ q.started = now
        /\ q.status = "none"
    BY DEF Enter, Idle, Open
  <2> HIDE DEF q
  <2>4. ClientView(q) = [Contract!NoClient EXCEPT !.state = "open",
                           !.calls = e, !.started = now]
    <3>1. /\ ClientView(q).state = "open" /\ ClientView(q).calls = e
          /\ ClientView(q).started = now /\ ClientView(q).items = << >>
          /\ ClientView(q).status = "none"
      BY <2>3 DEF ClientView, Open
    <3>2. q \in Requested
      BY <1>1, <2>2 DEF WholeInv, FreshInv, TypeInv, TypeOK, Requested
    <3>3. ClientView(q) \in ClientType /\ Contract!NoClient \in ClientType
      BY <3>2, ViewTyped
    <3>4. /\ Contract!NoClient.items = << >> /\ Contract!NoClient.status = "none"
      BY DEF Contract!NoClient
    <3> QED
      BY <3>1, <3>3, <3>4 DEF ClientType
  <2>5. client' = [client EXCEPT ![r] = ClientView(q)]
    BY <1>1, <2>2, ViewStep
  <2>6. client[r].state # "open"
    BY <2>2 DEF client, ClientView
  <2>7. Contract!Ask(r, e)
    BY <2>2, <2>4, <2>5, <2>6 DEF Contract!Ask, client
  <2>8. ASSUME NEW s \in Requests PROVE Unanswered(req'[s])
    BY <1>1, <2>2, <2>3 DEF Unanswered, TypeOK
  <2> QED
    BY <1>2, <2>1, <2>7, <2>8 DEF Contract!Next
<1>7. CASE Crash
  <2>1. (\A s \in Requests : req'[s] = Idle) /\ UNCHANGED <<now, cur, born>>
    BY <1>7 DEF Crash, db
  <2>2. client' = [s \in Requests |-> Contract!NoClient]
    BY <2>1 DEF client, Idle, ClientView, Contract!NoClient
  <2>3. Contract!Disconnect
    BY <2>1, <2>2 DEF Contract!Disconnect, client
  <2>4. \A s \in Requests : Unanswered(req'[s])
    BY <2>1 DEF Unanswered, Idle
  <2> QED
    BY <1>2, <2>3, <2>4 DEF Contract!Next
<1>8. CASE \E t \in Edited : DbWrite(t)
  <2>1. PICK t \in Edited : DbWrite(t)
    BY <1>8
  <2>2. MapInv' /\ client' = client
    BY <1>3, <2>1 DEF DbWrite
  <2>3. t \in Tables /\ Contract!Edit(t)
    BY <2>1, <2>2, BoundsAssumption DEF DbWrite, Contract!Edit, client
  <2> QED
    BY <2>2, <2>3 DEF Contract!Next
<1>9. CASE \E k \in Keys : Evict(k)
  BY <1>3, <1>9 DEF Evict, db
<1>10. CASE Tick
  <2>1. MapInv' /\ client' = client
    BY <1>3, <1>10 DEF Tick
  <2>2. Contract!Tick
    BY <1>10, <2>1 DEF Tick, db, Contract!Tick, client
  <2> QED
    BY <2>1, <2>2 DEF Contract!Next
<1>11. CASE UNCHANGED vars
  BY <1>3, <1>11 DEF vars, db
<1> QED
  BY <1>4, <1>5, <1>6, <1>7, <1>8, <1>9, <1>10, <1>11 DEF Next

-----------------------------------------------------------------------------
(* ScheduleService keeps FreshnessContract: all that its clients can see,  *)
(* through Redis and SQL Server, their failures, edits and restarts, is    *)
(* what a service would do that has none of them and answers each request  *)
(* in one step with results that are fresh enough.                         *)
THEOREM ServiceRefines == Spec => ServiceKeepsContract
<1>1. Init => MapInv /\ Contract!Init
  BY InitMaps
<1>2. MapInv /\ [Next]_vars => MapInv' /\ [Contract!Next]_(Contract!vars)
  BY NextMaps DEF Contract!vars, client
<1> QED
  BY <1>1, <1>2, PTL DEF Spec, ServiceKeepsContract, Contract!Spec
=============================================================================
