--------------------------- MODULE AccessPipeline ---------------------------
(***************************************************************************)
(* What a request goes through before its handler: OAuth2AccessTokenGuard, *)
(* which has the token checked by the OAuth server over TCP, and           *)
(* ThrottlerBehindProxyGuard; and what HttpAndRpcExceptionFilter makes of  *)
(* the errors. Requests interleave at their awaits, while tokens are       *)
(* granted and revoked, the OAuth server fails or answers after the 4 s    *)
(* are over, and the throttler's records expire.                           *)
(*                                                                         *)
(* No handler is marked OnlyDev, so OnlyDevGuard lets everything pass; and *)
(* uptime, the one handler without a throttle, is left out. The throttler  *)
(* counts by client address: the requests here come from one.              *)
(***************************************************************************)
EXTENDS Integers, FiniteSets

CONSTANTS
  Requests,  \* slots for concurrent requests
  Handlers,  \* handlers: [needAuth, scopes, limit]
  Tokens,    \* access tokens that clients send
  Scopes,    \* scopes a token may have
  NoLimit,   \* the scope 'schedule:nolimit'
  None,      \* no token, no payload, an unknown token
  MaxRegrants  \* bound: changes of grants in a run

allowNoAuth == TRUE

(* Every handler with OAuth2RequiredScope has NeedAuth as well: without it *)
(* a request that sends no token is not asked for scopes.                  *)
ASSUME HandlersAssumption ==
  \A h \in Handlers :
    /\ h \in [needAuth : BOOLEAN, scopes : SUBSET Scopes, limit : Nat \ {0}]
    /\ h.scopes # {} => h.needAuth
ASSUME BoundAssumption == MaxRegrants \in Nat
ASSUME ScopesAssumption ==
  /\ NoLimit \in Scopes /\ None \notin Tokens /\ None \notin Handlers
  /\ \A s \in SUBSET Scopes : None # s

VARIABLES
  granted,  \* granted[t]: the scopes of t, None if the server does not know it
  regrants, \* how often grants have changed, for the bound
  hits,     \* hits[h]: the requests the throttler still counts for h
  blocked,  \* blocked[h]: the throttler turns all requests for h away
  req       \* req[r]: the state of request r

vars == <<granted, regrants, hits, blocked, req>>

Grants == {None} \cup SUBSET Scopes

(* What the RPC emits: the payload of a token, nothing, null, or an error: *)
(* an Error of the transport or an object without a code, or an object with*)
(* a code that is an HTTP status, 403 or another, or with one that is not. *)
Errors == {"error", "coded403", "coded", "miscoded"}
Answers == [kind : {"payload"}, scopes : SUBSET Scopes]
             \cup [kind : {"empty", "null"} \cup Errors, scopes : {{}}]
Waiting == [kind |-> "waiting", scopes |-> {}]

(* `held', the token's grants since the request came, and `said403', that  *)
(* the check ended with an error of that code, are history.                *)
Free == [pc |-> "free", h |-> None, token |-> None, held |-> {},
         answer |-> Waiting, said403 |-> FALSE, oAuth |-> None, status |-> "none"]

InFlight(r) == req[r].pc \notin {"free", "done"}

-----------------------------------------------------------------------------
(* The token check: passport's strategy, the RPC and mutatorClientProxy.   *)

(* The error of a check. The `in' operator of mutatorClientProxy throws on *)
(* null; an RPC that completes without a value is null to the strategy.    *)
Thrown(answer) ==
  CASE answer.kind = "empty"  -> "Forbidden"
    [] answer.kind = "null"   -> "TypeError"
    [] answer.kind \in Errors -> answer.kind

(* Node refuses a status that is none: the filter itself throws, which     *)
(* main.ts only logs. Nobody answers, and what the request was is lost.    *)
Unanswered == [Free EXCEPT !.pc = "hung", !.status = "invalid"]

(* The end of a request: the filter replies.                               *)
Done(q, status) ==
  IF status = "invalid" THEN Unanswered
  ELSE [q EXCEPT !.pc = "done", !.oAuth = None, !.status = status]

(* The status of an HttpRpcException: 500 for an error without a code; its *)
(* own code otherwise, "rpc" if it is a status that no property speaks of. *)
(* The constructor's 500 for a code out of range is undone by getStatus,   *)
(* which returns the code as it is.                                        *)
getStatus(error) ==
  CASE error = "error"    -> "500"
    [] error = "coded403" -> "403"
    [] error = "coded"    -> "rpc"
    [] error = "miscoded" -> "invalid"

(* A timeout that looks like a wrong token.                                *)
TimeoutMutant(exception) ==
  CASE exception \in Errors -> getStatus(exception)
    [] exception = "TypeError" -> "500"
    [] OTHER -> "403"

(* HttpAndRpcExceptionFilter.                                              *)
StatusOf(exception) ==
  CASE exception = "Forbidden"      -> "403"
    [] exception = "NotFound"       -> "404"
    [] exception = "RequestTimeout" -> "408"
    [] exception = "TypeError"      -> "500"
    [] exception \in Errors         -> getStatus(exception)

(* The exception for a missing token leaks.                                *)
LeakMutant(q, exception) ==
  IF q.h.needAuth \/ ~allowNoAuth \/ exception # "NotFound"
  THEN Done(q, StatusOf(exception))
  ELSE [q EXCEPT !.pc = "throttle"]

(* needAuth is not looked at.                                              *)
ForgivingMutant(q, exception) ==
  IF exception # "NotFound" THEN Done(q, StatusOf(exception))
  ELSE [q EXCEPT !.pc = "throttle"]

(* Only handlers that are marked public are open.                          *)
ClosedMutant(q, exception) ==
  Done(q, StatusOf(IF exception = "NotFound" THEN "Forbidden" ELSE exception))

(* canActivate's catch: a missing token is forgiven where no login is      *)
(* demanded, and is a 403 elsewhere; any other error is thrown on.         *)
Refused(q, exception) ==
  IF q.h.needAuth \/ ~allowNoAuth \/ exception # "NotFound"
  THEN Done(q, StatusOf(IF exception = "NotFound" THEN "Forbidden" ELSE exception))
  ELSE [q EXCEPT !.pc = "throttle"]

(* The rest of canActivate: every scope of the handler.                    *)
Accepted(q, scopes) ==
  IF q.h.scopes \subseteq scopes
  THEN [q EXCEPT !.pc = "throttle", !.oAuth = scopes]
  ELSE Done(q, "403")

-----------------------------------------------------------------------------
Init ==
  /\ granted \in [Tokens -> Grants] /\ regrants = 0
  /\ hits = [h \in Handlers |-> 0]
  /\ blocked = [h \in Handlers |-> FALSE]
  /\ req = [r \in Requests |-> Free]

(* A request arrives; without a token there is nothing to ask. A client may*)
(* give up one that is never answered.                                     *)
Arrive(r, h, t) ==
  /\ ~InFlight(r) \/ req[r].pc = "hung"
  /\ LET q == [Free EXCEPT !.h = h, !.token = t]
     IN  req' = [req EXCEPT ![r] =
           IF t = None THEN Refused(q, "NotFound")
           ELSE [q EXCEPT !.pc = "check", !.held = {granted[t]}]]
  /\ UNCHANGED <<granted, regrants, hits, blocked>>

(* The OAuth server decides on the token; its answer is on the way. It     *)
(* may fail for any token, and refuse an unknown one in several forms.     *)
Decide(r) ==
  /\ req[r].pc = "check" /\ req[r].answer = Waiting
  /\ \E a \in Answers :
       /\ a.kind = "payload" => a.scopes = granted[req[r].token]
       /\ a.kind \in {"empty", "null"} => granted[req[r].token] = None
       /\ req' = [req EXCEPT ![r].answer = a]
  /\ UNCHANGED <<granted, regrants, hits, blocked>>

(* The answer arrives in time.                                             *)
CheckAccessToken(r) ==
  /\ req[r].pc = "check" /\ req[r].answer # Waiting
  /\ LET answer == req[r].answer
         q == [req[r] EXCEPT !.answer = Waiting,
                             !.said403 = (answer.kind = "coded403")]
     IN  req' = [req EXCEPT ![r] =
           IF answer.kind = "payload" THEN Accepted(q, answer.scopes)
           ELSE Refused(q, Thrown(answer))]
  /\ UNCHANGED <<granted, regrants, hits, blocked>>

(* A timeout counted from the server's decision.                           *)
PatientMutant(r) ==
  /\ req[r].pc = "check" /\ req[r].answer # Waiting
  /\ req' = [req EXCEPT ![r] =
       Refused([@ EXCEPT !.answer = Waiting], "RequestTimeout")]
  /\ UNCHANGED <<granted, regrants, hits, blocked>>

(* The 4 s are over, with the answer on its way or not.                    *)
CheckTimeout(r) ==
  /\ req[r].pc = "check"
  /\ req' = [req EXCEPT ![r] =
       Refused([@ EXCEPT !.answer = Waiting], "RequestTimeout")]
  /\ UNCHANGED <<granted, regrants, hits, blocked>>

(* The scope of the handler in place of the client's.                      *)
HandlerScopeMutant(q) == NoLimit \in q.h.scopes

shouldSkip(q) == q.oAuth # None /\ NoLimit \in q.oAuth

(* ThrottlerGuard: a hit above the limit blocks the handler's record; the  *)
(* request is throttled, with a 429.                                       *)
Throttle(r) ==
  /\ req[r].pc = "throttle"
  /\ LET q == req[r]
         over == ~shouldSkip(q) /\ (blocked[q.h] \/ hits[q.h] + 1 > q.h.limit)
     IN  /\ req' = [req EXCEPT ![r] =
              IF over THEN Done(q, "throttled") ELSE [q EXCEPT !.pc = "handler"]]
         /\ hits' = [hits EXCEPT ![q.h] =
              IF shouldSkip(q) \/ blocked[q.h] THEN @ ELSE @ + 1]
         /\ blocked' = [blocked EXCEPT ![q.h] = @ \/ over]
  /\ UNCHANGED <<granted, regrants>>

(* The handler runs; what it answers is the concern of ScheduleCache.      *)
Handle(r) ==
  /\ req[r].pc = "handler"
  /\ req' = [req EXCEPT ![r] = Done(@, "handled")]
  /\ UNCHANGED <<granted, regrants, hits, blocked>>

(* The OAuth server grants a token other scopes, or forgets it.            *)
Regrant(t) ==
  /\ regrants < MaxRegrants /\ regrants' = regrants + 1
  /\ \E g \in Grants \ {granted[t]} :
       /\ granted' = [granted EXCEPT ![t] = g]
       /\ req' = [r \in Requests |->
            IF InFlight(r) /\ req[r].token = t
            THEN [req[r] EXCEPT !.held = @ \cup {g}] ELSE req[r]]
  /\ UNCHANGED <<hits, blocked>>

(* ThrottlerStorage: a hit is as old as its ttl; a block is over.          *)
Forget(h) ==
  /\ hits[h] > 0 /\ ~blocked[h]
  /\ hits' = [hits EXCEPT ![h] = @ - 1]
  /\ UNCHANGED <<granted, regrants, blocked, req>>

Unblock(h) ==
  /\ blocked[h]
  /\ blocked' = [blocked EXCEPT ![h] = FALSE]
  /\ hits' = [hits EXCEPT ![h] = 0]
  /\ UNCHANGED <<granted, regrants, req>>

Serve(r) ==
  CheckAccessToken(r) \/ CheckTimeout(r) \/ Throttle(r) \/ Handle(r)

Next ==
  \/ \E r \in Requests : Serve(r)
  \/ \E r \in Requests : Decide(r)
  \/ \E r \in Requests, h \in Handlers, t \in Tokens \cup {None} : Arrive(r, h, t)
  \/ \E t \in Tokens : Regrant(t)
  \/ \E h \in Handlers : Forget(h) \/ Unblock(h)

Spec == Init /\ [][Next]_vars

(* Timers fire and guards go on; nothing is assumed of the OAuth server.   *)
FairSpec == Spec /\ \A r \in Requests : WF_vars(Serve(r))

-----------------------------------------------------------------------------
(* Properties.                                                             *)

(* Types. A missing token never shows as the 404 that NotFoundException is.*)
TypeOK ==
  /\ granted \in [Tokens -> Grants] /\ regrants \in 0..MaxRegrants
  /\ hits \in [Handlers -> Nat] /\ blocked \in [Handlers -> BOOLEAN]
  /\ req \in [Requests ->
       [pc : {"free", "check", "throttle", "handler", "done", "hung"},
        h : Handlers \cup {None}, token : Tokens \cup {None},
        held : SUBSET Grants, answer : Answers \cup {Waiting},
        said403 : BOOLEAN, oAuth : Grants,
        status : {"none", "handled", "throttled", "403", "408", "500", "rpc",
                  "invalid"}]]

Passed(q) == q.pc \in {"throttle", "handler"} \/ q.status \in {"handled", "throttled"}

(* Whom the guard lets pass at a handler that demands a login had a token  *)
(* with all of its scopes at some time during the request, however checks, *)
(* revocations and timeouts interleave.                                    *)
OnlyGranted ==
  \A r \in Requests :
    Passed(req[r]) /\ req[r].h.needAuth =>
      \E g \in req[r].held : g # None /\ req[r].h.scopes \subseteq g

(* A 403 is the client's fault or the OAuth server's own word: there was no*)
(* token, or one that at some time during the request was unknown or lacked*)
(* a scope; or the check ended with an error whose code is 403, which is   *)
(* passed on whatever the token holds. A delay, a failure of the transport *)
(* or an error with another code or none never looks like a wrong token.   *)
RefusedForCause ==
  \A r \in Requests :
    req[r].status = "403" =>
      \/ req[r].token = None /\ req[r].h.needAuth
      \/ \E g \in req[r].held : g = None \/ ~(req[r].h.scopes \subseteq g)
      \/ req[r].said403

(* The open part of the service does not depend on the OAuth server: where *)
(* no login is demanded, a request without a token is only ever throttled. *)
OpenWithoutToken ==
  \A r \in Requests :
    req[r].pc = "done" /\ req[r].token = None /\ ~req[r].h.needAuth =>
      req[r].status \in {"handled", "throttled"}

(* A client whose token has schedule:nolimit all the time is not throttled,*)
(* even while others have the handler blocked.                             *)
NoLimitNotThrottled ==
  \A r \in Requests :
    req[r].status = "throttled" =>
      req[r].token = None \/ \E g \in req[r].held : g = None \/ NoLimit \notin g

(* Every request gets an answer, even if the OAuth server never does, and  *)
(* whatever it answers but an error with a code that is no HTTP status.    *)
EveryAccessEnds ==
  \A r \in Requests :
    [](req[r].answer.kind # "miscoded") => (InFlight(r) ~> ~InFlight(r))

(* http-rpc-exception.ts, lines 26-29: a code below 100 or above 600 counts*)
(* as a 500, so that an RPC's error is answered whatever its code is.      *)
AnyCodeIsAnswered == \A r \in Requests : req[r].pc # "hung"

(* access-token.strategy.ts, lines 21-23: a check without a result is      *)
(* answered by ForbiddenException('Wrong access_token').                   *)
NoResultIs403 ==
  [][\A r \in Requests :
       req[r].answer.kind \in {"empty", "null"} /\ CheckAccessToken(r) =>
         req'[r].status = "403"]_vars
=============================================================================
