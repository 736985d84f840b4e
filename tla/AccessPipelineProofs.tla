------------------------ MODULE AccessPipelineProofs ------------------------
(***************************************************************************)
(* Proofs about AccessPipeline, for any requests, handlers, tokens, scopes *)
(* and any number of changes of grants. What a request may end with follows*)
(* from what is known of it while it is served (Known).                    *)
(***************************************************************************)
EXTENDS AccessPipeline, TLAPS

Requested ==
  [pc : {"free", "check", "throttle", "handler", "done", "hung"},
   h : Handlers \cup {None}, token : Tokens \cup {None},
   held : SUBSET Grants, answer : Answers \cup {Waiting},
   said403 : BOOLEAN, oAuth : Grants,
   status : {"none", "handled", "throttled", "403", "408", "500", "rpc",
             "invalid"}]

(* A token with all scopes of the handler, at some time of the request.    *)
Entitled(q) == \E g \in q.held : g # None /\ q.h.scopes \subseteq g

(* An answer on its way was true when it was given; who has passed the     *)
(* guard is entitled, and if a token was sent, oAuth is what it held.      *)
Known(q) ==
  /\ q.pc \notin {"done", "hung"} => q.status = "none"
  /\ q.answer.kind = "payload" => q.answer.scopes \in q.held
  /\ q.answer.kind \in {"empty", "null"} => None \in q.held
  /\ q.pc = "check" => q.h \in Handlers /\ q.token \in Tokens /\ q.oAuth = None
  /\ q.pc \in {"throttle", "handler"} =>
       /\ q.h \in Handlers /\ q.answer = Waiting
       /\ q.h.needAuth => Entitled(q)
       /\ q.token # None => q.oAuth # None /\ q.oAuth \in q.held

(* What a 403 may be for.                                                  *)
Caused(q) ==
  \/ q.token = None /\ q.h.needAuth
  \/ \E g \in q.held : g = None \/ ~(q.h.scopes \subseteq g)
  \/ q.said403

(* The four safety properties, of one request.                             *)
Justified(q) ==
  /\ Passed(q) /\ q.h.needAuth => Entitled(q)
  /\ q.status = "403" => Caused(q)
  /\ q.pc = "done" /\ q.token = None /\ ~q.h.needAuth =>
       q.status \in {"handled", "throttled"}
  /\ q.status = "throttled" =>
       q.token = None \/ \E g \in q.held : g = None \/ NoLimit \notin g

Sound(q) == q \in Requested /\ Known(q) /\ Justified(q)

(* The history of a request under check knows its token's grants of now.   *)
UpToDate(r) == req[r].pc = "check" => granted[req[r].token] \in req[r].held

AccessInv ==
  /\ granted \in [Tokens -> Grants] /\ regrants \in 0..MaxRegrants
  /\ hits \in [Handlers -> Nat] /\ blocked \in [Handlers -> BOOLEAN]
  /\ req \in [Requests -> Requested]
  /\ \A r \in Requests : Sound(req[r]) /\ UpToDate(r)

-----------------------------------------------------------------------------
(* A free slot is sound.                                                   *)
LEMMA FreeSound == Sound(Free) /\ Free.pc = "free"
BY DEF Sound, Requested, Known, Justified, Passed, Free, Waiting, Answers, Grants

(* A request nobody answers claims nothing.                                *)
LEMMA UnansweredSound == Sound(Unanswered) /\ Unanswered.pc = "hung"
BY DEF Sound, Requested, Known, Justified, Passed, Unanswered, Free, Waiting,
       Answers, Grants

Statuses == {"handled", "403", "408", "throttled", "500", "rpc", "invalid"}

(* What the filter makes of the exceptions of the guard is a status.       *)
LEMMA StatusTyped ==
  ASSUME NEW e \in {"Forbidden", "RequestTimeout", "TypeError"} \cup Errors
  PROVE  StatusOf(e) \in {"403", "408", "500", "rpc", "invalid"}
         /\ (StatusOf(e) = "403" => e \in {"Forbidden", "coded403"})
BY DEF StatusOf, getStatus, Errors

(* Ending a request is sound if its status is justified.                   *)
LEMMA DoneSound ==
  ASSUME NEW q \in Requested, NEW s \in Statuses,
         q.answer = Waiting,
         s \in {"handled", "throttled"} /\ q.h.needAuth => Entitled(q),
         s = "403" => Caused(q),
         q.token = None /\ ~q.h.needAuth => s \in {"handled", "throttled"},
         s = "throttled" => q.token = None \/ \E g \in q.held : g = None \/ NoLimit \notin g
  PROVE  Sound(Done(q, s)) /\ Done(q, s).pc # "check"
<1>1. CASE s = "invalid"
  BY <1>1, UnansweredSound DEF Done
<1>2. CASE s # "invalid"
  <2> DEFINE d == [q EXCEPT !.pc = "done", !.oAuth = None, !.status = s]
  <2>1. Done(q, s) = d
    BY <1>2 DEF Done
  <2>2. /\ d.pc = "done" /\ d.status = s /\ d.h = q.h /\ d.token = q.token
        /\ d.held = q.held /\ d.answer = Waiting /\ d.said403 = q.said403
    BY DEF Requested
  <2>3. d \in Requested
    BY DEF Requested, Grants, Statuses
  <2>4. Known(d)
    BY <2>2 DEF Known, Waiting
  <2>5. Justified(d)
    BY <2>2 DEF Justified, Passed, Entitled, Caused
  <2> QED
    BY <2>1, <2>2, <2>3, <2>4, <2>5 DEF Sound
<1> QED
  BY <1>1, <1>2

(* canActivate's catch: only a request without a token goes on, and only   *)
(* where no login is demanded.                                             *)
LEMMA RefusedSound ==
  ASSUME NEW q \in Requested, q.pc \in {"free", "check"}, q.status = "none",
         q.answer = Waiting, q.h \in Handlers,
         NEW e \in {"Forbidden", "NotFound", "RequestTimeout", "TypeError"} \cup Errors,
         e = "NotFound" <=> q.token = None,
         e = "Forbidden" => None \in q.held,
         e = "coded403" => q.said403
  PROVE  Sound(Refused(q, e)) /\ Refused(q, e).pc # "check"
<1>1. CASE e = "NotFound" /\ ~q.h.needAuth
  <2> DEFINE d == [q EXCEPT !.pc = "throttle"]
  <2>1. Refused(q, e) = d
    BY <1>1 DEF Refused, allowNoAuth
  <2>2. /\ d.pc = "throttle" /\ d.status = "none" /\ d.h = q.h
        /\ d.token = None /\ d.held = q.held /\ d.answer = Waiting
    BY <1>1 DEF Requested
  <2>3. d \in Requested
    BY DEF Requested
  <2>4. Known(d) /\ Justified(d)
    BY <1>1, <2>2 DEF Known, Justified, Passed, Waiting
  <2> QED
    BY <2>1, <2>2, <2>3, <2>4 DEF Sound
<1>2. CASE e = "NotFound" /\ q.h.needAuth
  <2>1. StatusOf("Forbidden") = "403"
    BY DEF StatusOf, Errors
  <2>2. Refused(q, e) = Done(q, StatusOf("Forbidden"))
    BY <1>2 DEF Refused
  <2> QED
    BY <1>2, <2>1, <2>2, DoneSound DEF Statuses, Caused
<1>3. CASE e # "NotFound"
  <2>1. Refused(q, e) = Done(q, StatusOf(e))
    BY <1>3 DEF Refused
  <2>2. e \in {"Forbidden", "RequestTimeout", "TypeError"} \cup Errors
    BY <1>3
  <2>3. /\ StatusOf(e) \in Statuses /\ StatusOf(e) \notin {"handled", "throttled"}
        /\ StatusOf(e) = "403" => Caused(q)
    BY <2>2, StatusTyped DEF Statuses, Caused
  <2>4. q.token # None
    BY <1>3
  <2> QED
    BY <2>1, <2>3, <2>4, DoneSound
<1> QED
  BY <1>1, <1>2, <1>3

(* The rest of canActivate, with scopes that the token held.               *)
LEMMA AcceptedSound ==
  ASSUME NEW q \in Requested, q.pc = "check", q.status = "none",
         q.answer = Waiting, q.h \in Handlers, q.token \in Tokens,
         NEW scopes \in SUBSET Scopes, scopes \in q.held
  PROVE  Sound(Accepted(q, scopes)) /\ Accepted(q, scopes).pc # "check"
<1>1. scopes # None /\ q.token # None
  BY ScopesAssumption
<1>2. CASE q.h.scopes \subseteq scopes
  <2> DEFINE d == [q EXCEPT !.pc = "throttle", !.oAuth = scopes]
  <2>1. Accepted(q, scopes) = d
    BY <1>2 DEF Accepted
  <2>2. /\ d.pc = "throttle" /\ d.status = "none" /\ d.h = q.h
        /\ d.token = q.token /\ d.held = q.held /\ d.answer = Waiting
        /\ d.oAuth = scopes
    BY DEF Requested
  <2>3. d \in Requested
    BY DEF Requested, Grants
  <2>4. Entitled(d)
    BY <1>1, <1>2, <2>2 DEF Entitled
  <2>5. Known(d) /\ Justified(d)
    BY <1>1, <2>2, <2>4 DEF Known, Justified, Passed, Waiting
  <2> QED
    BY <2>1, <2>2, <2>3, <2>5 DEF Sound
<1>3. CASE ~(q.h.scopes \subseteq scopes)
  <2>1. Accepted(q, scopes) = Done(q, "403")
    BY <1>3 DEF Accepted
  <2> QED
    BY <1>1, <1>3, <2>1, DoneSound DEF Statuses, Caused
<1> QED
  BY <1>2, <1>3

-----------------------------------------------------------------------------
(* Initially every slot is free.                                           *)
LEMMA InitAccess == Init => AccessInv
<1> SUFFICES ASSUME Init PROVE AccessInv
  OBVIOUS
<1>1. \A r \in Requests : Sound(req[r]) /\ UpToDate(r)
  BY FreeSound DEF Init, UpToDate
<1>2. req \in [Requests -> Requested]
  BY FreeSound DEF Init, Sound
<1> QED
  BY <1>1, <1>2, BoundAssumption DEF Init, AccessInv

(* A step that replaces one request by a sound one that is not under check *)
(* and leaves the grants alone.                                            *)
LEMMA OneRequest ==
  ASSUME AccessInv, NEW r \in Requests, NEW q, Sound(q), q.pc # "check",
         req' = [req EXCEPT ![r] = q], UNCHANGED granted
  PROVE  /\ req' \in [Requests -> Requested]
         /\ \A s \in Requests : Sound(req'[s]) /\ UpToDate(s)'
<1>1. req \in [Requests -> Requested]
  BY DEF AccessInv
<1>2. \A s \in Requests : req'[s] = IF s = r THEN q ELSE req[s]
  BY <1>1
<1>3. \A s \in Requests : Sound(req'[s]) /\ UpToDate(s)'
  BY <1>2 DEF AccessInv, UpToDate
<1>4. req' \in [Requests -> Requested]
  BY <1>1 DEF Sound
<1> QED
  BY <1>3, <1>4

(* Each action of AccessPipeline preserves the invariant.                  *)
LEMMA StepAccess == AccessInv /\ [Next]_vars => AccessInv'
<1> SUFFICES ASSUME AccessInv, [Next]_vars PROVE AccessInv'
  OBVIOUS
<1> USE DEF AccessInv
<1>1. ASSUME NEW r \in Requests, NEW h \in Handlers,
             NEW t \in Tokens \cup {None}, Arrive(r, h, t)
      PROVE  AccessInv'
  <2> DEFINE q == [Free EXCEPT !.h = h, !.token = t]
             n == IF t = None THEN Refused(q, "NotFound")
                  ELSE [q EXCEPT !.pc = "check", !.held = {granted[t]}]
  <2>1. /\ q \in Requested /\ q.pc = "free" /\ q.status = "none"
        /\ q.answer = Waiting /\ q.h = h /\ q.token = t /\ q.oAuth = None
    BY FreeSound DEF Sound, Requested, Free
  <2>2. req' = [req EXCEPT ![r] = n] /\ UNCHANGED <<granted, regrants, hits, blocked>>
    BY <1>1 DEF Arrive
  <2>3. CASE t = None
    <3>1. Sound(n) /\ n.pc # "check"
      BY <2>1, <2>3, RefusedSound
    <3> QED
      BY <2>2, <3>1, OneRequest
  <2>4. CASE t # None
    <3>1. n = [q EXCEPT !.pc = "check", !.held = {granted[t]}]
      BY <2>4
    <3>2. /\ n.pc = "check" /\ n.status = "none" /\ n.answer = Waiting
          /\ n.h = h /\ n.token = t /\ n.oAuth = None /\ n.held = {granted[t]}
      BY <2>1, <3>1 DEF Requested
    <3>3. {granted[t]} \in SUBSET Grants /\ n \in Requested
      <4>1. {granted[t]} \in SUBSET Grants
        BY <2>4
      <4> DEFINE S == SUBSET Grants
      <4> HIDE DEF q, n, S
      <4>2. {granted[t]} \in S
        BY <4>1 DEF S
      <4> QED
        BY <2>1, <3>1, <4>2 DEF Requested, S
    <3>4. Known(n) /\ Justified(n)
      BY <2>4, <3>2 DEF Known, Justified, Passed, Waiting
    <3>5. \A s \in Requests : req'[s] = IF s = r THEN n ELSE req[s]
      BY <2>2
    <3>6. \A s \in Requests : Sound(req'[s]) /\ UpToDate(s)'
      BY <2>2, <3>2, <3>3, <3>4, <3>5 DEF Sound, UpToDate
    <3>7. req' \in [Requests -> Requested]
      BY <2>2, <3>3
    <3> QED
      BY <2>2, <3>6, <3>7
  <2> QED
    BY <2>3, <2>4
<1>2. ASSUME NEW r \in Requests, Decide(r) PROVE AccessInv'
  <2>1. PICK a \in Answers :
          /\ a.kind = "payload" => a.scopes = granted[req[r].token]
          /\ a.kind \in {"empty", "null"} => granted[req[r].token] = None
          /\ req' = [req EXCEPT ![r].answer = a]
    BY <1>2 DEF Decide
  <2>2. req[r].pc = "check" /\ UNCHANGED <<granted, regrants, hits, blocked>>
    BY <1>2 DEF Decide
  <2>3. req[r] \in Requested /\ Known(req[r]) /\ granted[req[r].token] \in req[r].held
    BY <2>2 DEF Sound, UpToDate
  <2> DEFINE n == [req[r] EXCEPT !.answer = a]
  <2>4. /\ n.pc = "check" /\ n.status = req[r].status /\ n.answer = a
        /\ n.h = req[r].h /\ n.token = req[r].token /\ n.oAuth = req[r].oAuth
        /\ n.held = req[r].held
    BY <2>2, <2>3 DEF Requested
  <2>5. n \in Requested
    BY <2>3 DEF Requested
  <2>6. Known(n) /\ Justified(n)
    BY <2>1, <2>2, <2>3, <2>4 DEF Known, Justified, Passed
  <2>7. \A s \in Requests : req'[s] = IF s = r THEN n ELSE req[s]
    BY <2>1
  <2>8. \A s \in Requests : Sound(req'[s]) /\ UpToDate(s)'
    BY <2>2, <2>3, <2>4, <2>5, <2>6, <2>7 DEF Sound, UpToDate
  <2>9. req' \in [Requests -> Requested]
    BY <2>1, <2>5
  <2> QED
    BY <2>2, <2>8, <2>9
<1>3. ASSUME NEW r \in Requests, CheckAccessToken(r) PROVE AccessInv'
  <2> DEFINE answer == req[r].answer
             q == [req[r] EXCEPT !.answer = Waiting,
                                 !.said403 = (answer.kind = "coded403")]
             n == IF answer.kind = "payload" THEN Accepted(q, answer.scopes)
                  ELSE Refused(q, Thrown(answer))
  <2>1. /\ req[r].pc = "check" /\ answer # Waiting
        /\ req' = [req EXCEPT ![r] = n] /\ UNCHANGED <<granted, regrants, hits, blocked>>
    BY <1>3 DEF CheckAccessToken
  <2>2. req[r] \in Requested /\ Known(req[r])
    BY DEF Sound
  <2>3. answer \in Answers
    BY <2>1, <2>2 DEF Requested
  <2>4. /\ q.pc = "check" /\ q.status = "none" /\ q.answer = Waiting
        /\ q.h \in Handlers /\ q.token \in Tokens /\ q.held = req[r].held
        /\ q.said403 = (answer.kind = "coded403") /\ q \in Requested
    BY <2>1, <2>2, <2>3 DEF Known, Requested
  <2>5. CASE answer.kind = "payload"
    <3>1. answer.scopes \in SUBSET Scopes /\ answer.scopes \in q.held
      BY <2>2, <2>3, <2>4, <2>5 DEF Answers, Known
    <3>2. Sound(n) /\ n.pc # "check"
      BY <2>4, <2>5, <3>1, AcceptedSound
    <3> QED
      BY <2>1, <3>2, OneRequest
  <2>6. CASE answer.kind # "payload"
    <3>1. answer.kind \in {"empty", "null"} \cup Errors
      BY <2>3, <2>6 DEF Answers
    <3>2. /\ Thrown(answer) \in {"Forbidden", "TypeError"} \cup Errors
          /\ Thrown(answer) = "Forbidden" => answer.kind = "empty"
          /\ Thrown(answer) = "coded403" => answer.kind = "coded403"
      BY <3>1 DEF Thrown, Errors
    <3>3. Thrown(answer) # "NotFound" /\ q.token # None
      BY <2>4, <3>2, ScopesAssumption DEF Errors
    <3>4. Thrown(answer) = "Forbidden" => None \in q.held
      BY <2>2, <2>4, <3>2 DEF Known
    <3>5. Sound(n) /\ n.pc # "check"
      BY <2>4, <2>6, <3>2, <3>3, <3>4, RefusedSound
    <3> QED
      BY <2>1, <3>5, OneRequest
  <2> QED
    BY <2>5, <2>6
<1>4. ASSUME NEW r \in Requests, CheckTimeout(r) PROVE AccessInv'
  <2> DEFINE q == [req[r] EXCEPT !.answer = Waiting]
             n == Refused(q, "RequestTimeout")
  <2>1. /\ req[r].pc = "check" /\ req' = [req EXCEPT ![r] = n]
        /\ UNCHANGED <<granted, regrants, hits, blocked>>
    BY <1>4 DEF CheckTimeout
  <2>2. req[r] \in Requested /\ Known(req[r])
    BY DEF Sound
  <2>3. /\ q.pc = "check" /\ q.status = "none" /\ q.answer = Waiting
        /\ q.h \in Handlers /\ q.token # None /\ q \in Requested
    BY <2>1, <2>2, ScopesAssumption DEF Known, Requested
  <2>4. Sound(n) /\ n.pc # "check"
    BY <2>3, RefusedSound
  <2> QED
    BY <2>1, <2>4, OneRequest
<1>5. ASSUME NEW r \in Requests, Throttle(r) PROVE AccessInv'
  <2> DEFINE q == req[r]
             over == ~shouldSkip(q) /\ (blocked[q.h] \/ hits[q.h] + 1 > q.h.limit)
             n == IF over THEN Done(q, "throttled") ELSE [q EXCEPT !.pc = "handler"]
  <2>1. /\ q.pc = "throttle" /\ req' = [req EXCEPT ![r] = n]
        /\ hits' = [hits EXCEPT ![q.h] =
             IF shouldSkip(q) \/ blocked[q.h] THEN @ ELSE @ + 1]
        /\ blocked' = [blocked EXCEPT ![q.h] = @ \/ over]
        /\ UNCHANGED <<granted, regrants>>
    BY <1>5 DEF Throttle
  <2>2. /\ q \in Requested /\ q.h \in Handlers /\ q.status = "none"
        /\ q.answer = Waiting
        /\ q.h.needAuth => Entitled(q)
        /\ q.token # None => q.oAuth # None /\ q.oAuth \in q.held
    BY <2>1 DEF Sound, Known, Requested
  <2>3. hits' \in [Handlers -> Nat]
    BY <2>1, <2>2
  <2>4. blocked' \in [Handlers -> BOOLEAN]
    BY <2>1, <2>2
  <2>5. CASE over
    <3>1. q.token = None \/ \E g \in q.held : g = None \/ NoLimit \notin g
      BY <2>2, <2>5 DEF shouldSkip
    <3>2. Sound(n) /\ n.pc # "check"
      BY <2>2, <2>5, <3>1, DoneSound DEF Statuses
    <3> QED
      BY <2>1, <2>3, <2>4, <3>2, OneRequest
  <2>6. CASE ~over
    <3>1. n = [q EXCEPT !.pc = "handler"]
      BY <2>6
    <3>2. /\ n.pc = "handler" /\ n.status = "none" /\ n.h = q.h
          /\ n.token = q.token /\ n.held = q.held /\ n.answer = q.answer
          /\ n.oAuth = q.oAuth /\ n \in Requested
      BY <2>2, <3>1 DEF Requested
    <3>3. Known(n) /\ Justified(n)
      BY <2>2, <3>2 DEF Sound, Known, Justified, Passed, Entitled
    <3>4. Sound(n) /\ n.pc # "check"
      BY <3>2, <3>3 DEF Sound
    <3> QED
      BY <2>1, <2>3, <2>4, <3>4, OneRequest
  <2> QED
    BY <2>5, <2>6
<1>6. ASSUME NEW r \in Requests, Handle(r) PROVE AccessInv'
  <2> DEFINE n == Done(req[r], "handled")
  <2>1. /\ req[r].pc = "handler" /\ req' = [req EXCEPT ![r] = n]
        /\ UNCHANGED <<granted, regrants, hits, blocked>>
    BY <1>6 DEF Handle
  <2>2. /\ req[r] \in Requested /\ req[r].answer = Waiting
        /\ req[r].h.needAuth => Entitled(req[r])
    BY <2>1 DEF Sound, Known
  <2>3. Sound(n) /\ n.pc # "check"
    BY <2>2, DoneSound DEF Statuses
  <2> QED
    BY <2>1, <2>3, OneRequest
<1>7. ASSUME NEW t \in Tokens, Regrant(t) PROVE AccessInv'
  <2>1. PICK g \in Grants \ {granted[t]} :
          /\ granted' = [granted EXCEPT ![t] = g]
          /\ req' = [r \in Requests |->
               IF InFlight(r) /\ req[r].token = t
               THEN [req[r] EXCEPT !.held = @ \cup {g}] ELSE req[r]]
    BY <1>7 DEF Regrant
  <2>2. /\ regrants < MaxRegrants /\ regrants' = regrants + 1
        /\ UNCHANGED <<hits, blocked>>
    BY <1>7 DEF Regrant
  <2>3. regrants' \in 0..MaxRegrants /\ granted' \in [Tokens -> Grants]
    BY <2>1, <2>2, BoundAssumption
  <2>4. ASSUME NEW r \in Requests PROVE Sound(req'[r]) /\ UpToDate(r)'
    <3>1. Sound(req[r]) /\ UpToDate(r) /\ req[r] \in Requested
      BY DEF Sound
    <3>2. CASE InFlight(r) /\ req[r].token = t
      <4> DEFINE n == [req[r] EXCEPT !.held = @ \cup {g}]
      <4>1. req'[r] = n
        BY <2>1, <3>2
      <4>2. /\ n.pc = req[r].pc /\ n.status = req[r].status /\ n.h = req[r].h
            /\ n.token = t /\ n.held = req[r].held \cup {g}
            /\ n.answer = req[r].answer /\ n.oAuth = req[r].oAuth
            /\ n.said403 = req[r].said403
        BY <3>1, <3>2 DEF Requested
      <4>3. n \in Requested
        BY <3>1 DEF Requested
      <4>4. Known(n) /\ Justified(n)
        BY <3>1, <3>2, <4>2 DEF Sound, Known, Justified, Passed, Entitled, Caused
      <4>5. n.pc = "check" => granted'[n.token] \in n.held
        BY <2>1, <4>2
      <4> QED
        BY <4>1, <4>3, <4>4, <4>5 DEF Sound, UpToDate
    <3>3. CASE ~(InFlight(r) /\ req[r].token = t)
      <4>1. req'[r] = req[r]
        BY <2>1, <3>3
      <4>2. req[r].pc = "check" => req[r].token \in Tokens /\ req[r].token # t
        BY <3>1, <3>3 DEF InFlight, Sound, Known
      <4>3. req[r].pc = "check" => granted'[req[r].token] = granted[req[r].token]
        BY <2>1, <4>2
      <4> QED
        BY <3>1, <4>1, <4>3 DEF UpToDate
    <3> QED
      BY <3>2, <3>3
  <2>5. req' \in [Requests -> Requested]
    BY <2>1, <2>4 DEF Sound
  <2> QED
    BY <2>2, <2>3, <2>4, <2>5
<1>8. ASSUME NEW h \in Handlers, Forget(h) PROVE AccessInv'
  <2>1. /\ hits[h] > 0 /\ hits' = [hits EXCEPT ![h] = @ - 1]
        /\ UNCHANGED <<granted, regrants, blocked, req>>
    BY <1>8 DEF Forget
  <2>2. hits' \in [Handlers -> Nat]
    BY <2>1
  <2> QED
    BY <2>1, <2>2 DEF UpToDate
<1>9. ASSUME NEW h \in Handlers, Unblock(h) PROVE AccessInv'
  BY <1>9 DEF Unblock, UpToDate
<1>10. CASE UNCHANGED vars
  BY <1>10 DEF vars, UpToDate
<1> QED
  BY <1>1, <1>2, <1>3, <1>4, <1>5, <1>6, <1>7, <1>8, <1>9, <1>10 DEF Next, Serve

(* The guards, the throttler and the filter keep the invariant.            *)
LEMMA AccessAlways == Spec => []AccessInv
BY InitAccess, StepAccess, PTL DEF Spec

-----------------------------------------------------------------------------
(* The records of requests and of the throttler keep their types; no       *)
(* request ends with the 404 of a missing token (canActivate's catch).     *)
THEOREM AccessTypeCorrect == Spec => []TypeOK
<1>1. AccessInv => TypeOK
  BY DEF AccessInv, TypeOK, Requested
<1> QED
  BY <1>1, AccessAlways, PTL

(* However checks, revocations and timeouts interleave, a handler that     *)
(* demands a login is reached only with all its scopes (canActivate).      *)
THEOREM OnlyGrantedPass == Spec => []OnlyGranted
<1>1. AccessInv => OnlyGranted
  BY DEF AccessInv, OnlyGranted, Sound, Justified, Entitled
<1> QED
  BY <1>1, AccessAlways, PTL

(* A late OAuth server, or one that fails in any way but with a code 403 of*)
(* its own, is never answered as a wrong token (mutatorClientProxy,        *)
(* HttpRpcException, canActivate's catch).                                 *)
THEOREM RefusalsHaveCause == Spec => []RefusedForCause
<1>1. AccessInv => RefusedForCause
  BY DEF AccessInv, RefusedForCause, Sound, Justified, Caused
<1> QED
  BY <1>1, AccessAlways, PTL

(* Open handlers need no OAuth server (canActivate with allowNoAuth).      *)
THEOREM OpenStaysOpen == Spec => []OpenWithoutToken
<1>1. AccessInv => OpenWithoutToken
  BY DEF AccessInv, OpenWithoutToken, Sound, Justified
<1> QED
  BY <1>1, AccessAlways, PTL

(* schedule:nolimit skips the throttler (shouldSkip), which relies on the  *)
(* token guard to run first and to have put the payload into oAuth.        *)
THEOREM NoLimitPasses == Spec => []NoLimitNotThrottled
<1>1. AccessInv => NoLimitNotThrottled
  BY DEF AccessInv, NoLimitNotThrottled, Sound, Justified
<1> QED
  BY <1>1, AccessAlways, PTL
=============================================================================
