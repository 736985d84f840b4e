# Verification of the YSTUty schedule service

TLA+ models of the schedule service (NestJS, Redis, SQL Server): what is
modelled, what TLC checks on small instances, and what TLAPS proves for every
value of the constants. Paths are relative to the repository, which is under
`src/`; most of the logic is in `src/src/models/schedule/schedule.service.ts`,
called `service` below, and `schedule.controller.ts`, called `controller`.

## The system

The service answers read-only HTTP requests for university timetables. The
tables are edited by other systems; the service never writes to them and is
not told of edits. Everything it returns goes through a cache in Redis.

| Component | State | Operations | Interacts with |
| --- | --- | --- | --- |
| Read-through cache (`service` 61-816) | keys in Redis with an EX of 5 or 10 minutes; local variables of each request | ten methods: `getCount`, `getGroups`, `getByGroup`, `getByGroupAsWeek`, `getByTeacher`, `getByAudience`, `getTeachersBySchedule`, `getAudiencesBySchedule`, `getAudiences`, `getScheduleSemesters` | Redis (ioredis), SQL Server (TypeORM); `getCount` calls three of the others |
| HTTP handlers (`controller`) | none | one handler per method; `GET count` calls `getCount` four times in a row | the service |
| Timetable assembly (`createWeek`, `injectExams`) | weeks, days and lessons under construction | place a row, merge a row, inject an exam | called between the queries and the SET |
| Lists and counts (`getGroups`, `getTeachersBySchedule`, `getAudiencesBySchedule`, `getCount`) | an object of groups by institute, a map from ID to name | a round of the loop for each row of the query; sort; count | called between the query and the SET; the counts use the lists |
| Semester weeks (`common/util/scheduler.util.ts`) | none | `getWeekNumber`, `getWeekOffsetByYear` | called by `injectExams` |
| Calendar export (`models/calendar`) | none | iCal of a group or a teacher: one event per lesson, all day or at its hours; 404 of a null | `getByGroup`, `getByTeacher` |
| Access pipeline (`common/guard`, `models/oauth-server`, `common/pipe`) | hit counters of the throttler | token guard, throttler, development-only guard | the OAuth server by TCP RPC with a 4 s timeout |
| Error conversion (`common/exception`, `common/filter`) | none | exception to status code and body; an RPC's own code is passed on | every handler |
| Bootstrap, app module and controller, entities, DTOs, environment | none | wiring, `uptime`, `getMyGroup` | |

Node runs one callback at a time, so requests interleave at their `await`s and
nowhere else: `redis.get`, each query, `redis.set`. What is hard:

* **staleness**: an answer may be as old as its key, a late SET may replace
  newer data, and a count is cached on top of a list that is itself cached;
* **truthfulness**: `isCache` is assembled from several places (literals, a
  spread of the stored JSON, the flag of an inner call, a disjunction of four);
* **absence**: a null must not be remembered, and a failed query must not look
  like an empty one;
* **torn reads**: the two to thirteen queries of a method are no transaction;
* **failure**: the GET is in a `try`, the SET is not, no await has a timeout,
  a restart leaves the keys of the old process behind;
* **order**: rows of one hour come in any order and are merged by comparison
  with the lessons made so far; exams come last and in any order;
* **times**: the ends of lessons are computed from constants, not read from the
  bells; lunch is a pair without a number; an exam's end is made up;
* **calendar edges**: the ISO week at New Year, the first weeks of semesters,
  Sundays;
* **access**: a token check may fail, time out or be answered late while the
  token's grants change, and a public handler forgives exactly one error.

A component is correct when: answers have a bounded age; an answer that does
not say `isCache` is current; absence is current; nothing partial is returned
or stored; a mixture of versions spans no more than one request; every request
ends; every row and exam is shown once, where and when it takes place, with its
group, until its last pair is over and with a parity that is true; weeks are
numbered consecutively within a semester; the calendar has an event for each
lesson and exam; the two forms of the list of groups agree, and the counts
count what the rows name; a handler is reached only by whom its scopes allow,
and a refusal has its cause in the token, or in a 403 of the OAuth server's own.

## Modules

| Module | What it is |
| --- | --- |
| `ScheduleCache` | The cache, the service methods and the handlers, step by step; its properties |
| `FreshnessContract` | What a client is promised, without Redis, queries or methods |
| `ScheduleCacheContract` | The refinement mapping from the first to the second |
| `ScheduleCacheMC` | Instances for TLC: the endpoints of each run |
| `ScheduleCacheProofs` | Proofs of its types, of bounded staleness and the truth of `isCache`, that absence is current and nothing partial, of the bounded skew, and that it implements `FreshnessContract` |
| `SemesterWeek` | The week arithmetic, walked through day by day |
| `SemesterWeekProofs` | Proofs that the weeks are ISO's and follow one another, in every year |
| `WeekTimetable` | `createWeek` and `injectExams`, one loop iteration a step |
| `CalendarEvents` | The iCal events of a finished timetable; EXTENDS `WeekTimetable` |
| `WeekTimetableMC` | Instances of both for TLC, with weeks and days taken from `SemesterWeek` |
| `WeekTimetableProofs` | Proofs of where rows and exams are put: a day is shown in the weeks its rows say and no row is lost, and parities are true |
| `WeekTimetableContents` | Proofs of what is put there: which rows are one lesson, its groups, its end, the types of days |
| `CalendarProofs` | Proofs about the calendar's events, on top of the two |
| `GroupLists`, `GroupListsMC` | The lists and their counts, one row a step; an instance for TLC |
| `GroupListsProofs` | Proofs that the forms agree and that lectures and counts are true |
| `SequenceLemmas` | What those proofs need to know of flattening, sorting and least numbers |
| `AccessPipeline`, `AccessPipelineMC` | Token guard, RPC to the OAuth server, throttler and error statuses; instances for TLC |
| `AccessPipelineProofs` | Proofs of its types and safety properties |

Definitions named `...Mutant` stand next to the definition they vary. They are
the bug each property is tested against (a SET without EX, a swallowed error,
a flag not passed on) and no specification uses them.

### ScheduleCache

The data are abstracted to provenance. A table's contents are a version number,
`born[t][v]` is when version `v` came into force, and a result is the set
`seen` of `<<table, version>>` pairs it was computed from. `rows[t][v]` says for
which calls version `v` has rows, so that the early returns of empty results
are decided by the data. Which method reads which tables, in which order, after
which query it gives up, and with which EX it stores its result is in the
definitions named after the methods (`getByGroup(c)`, ...). Keys are the calls
themselves: in the code a key names the method, `idSchedule` and the
lower-cased argument.

| Code | Model |
| --- | --- |
| local variables of a request between awaits | `req[r]`: `pc` is the await it is in, `at` the service call of its handler, `inner` whether `getCount` is in the method it counts with, `step` the next query |
| `await redis.get` resolves with a value, with nothing, rejects (caught, logged, goes on) | `GetHit`, `GetMiss`, `GetFail` |
| `await qb.getMany()` and the like resolve, reject | `Query`, `QueryFail` |
| `await redis.set` resolves, rejects (not caught: 500) | `SetOk`, `SetFail`; a rejected SET may have been applied |
| `return`, early returns, the controller's 404 and next call | `Return`, `Proceed`, `Missed`, `Enter`, `Answered` |
| ioredis sends an unanswered SET again after reconnecting | `SetResend` |
| the process dies and is started again | `Crash`: requests are gone, keys stay |
| edits of the tables, eviction, expiry and time | `DbWrite`, `Evict`, `Tick` |

Assumptions about the outside: SQL Server answers a query from one version of
each table; a request is over within `MaxRequest` ticks, which the source does
not state itself (it sets no timeout; the drivers' defaults end every await);
redis expires a key on time; a table may hold rows for any subset of what is
asked of it. `allowCaching` is the constant `true` of `service:42`.

### SemesterWeek

There is no state in the code; the variable is a date that advances one day a
step, so that properties relate neighbouring days. JavaScript's `Date` is
external; the server's own time zone is used for both arguments and results,
as in the code.

### WeekTimetable

One row of `raspzv` or one exam is handled per step; rows are chosen when the
loop reaches them, in the order of `ORDER BY datz, nned, npar`, with ties in
any order. Each row brings its own week number: `Weeks[d]` are the numbers that
rows of all the published schedules may have for a date. `lesson` stands for the
name and `isDistant` together, `typed` for whether the row's type or its text
yields a type, `info` for what its text says besides.

| Code | Model |
| --- | --- |
| a round of `createWeek` (`service:849-1053`): find or push the week, the day, the lesson | `createWeek(row)`: `WithWeek`, `WithDay`, `WithLesson` |
| the comparison that merges a row (`service:900-910`) | `Merges`, `SameSlot`; the `null` of a column and the `undefined` of a stored lesson are different values |
| `number`, `durationMinutes`, `endAt`, `timeRange` | `Number`, `DurationMinutes`; `end` and `until` of `Lesson` |
| the name of a lesson without one and without a type, if its text says anything (`service:998-1013`) | `NameOf` |
| `parityOnWeek`, with `-1 % 2 === -1` in JavaScript | `parityOnWeek`, `IsOdd` |
| a round of `injectExams` (`service:1065-1141`) | `injectExams(exam)`: `WeekOfDay`, `OneDayExam`, `WithExam` |

Assumed of the data: a training has one slot, and the rows of a stream agree on
slot, hours, name, type and text; every row has a text to match (`createWeek` throws at
`service:960` otherwise); pairs follow one another within the day and raspzv has
no third one, which is the lunch that `Number` counts out. The bells are not in
the repository; the examples of `lesson.dto.ts` (08:30-10:00, 12:20-15:30) agree
with those of `WeekTimetableMC`. Hours are whole pairs, on days that are not
shortened. Nothing is assumed of the week numbers: a date that two schedules
number differently is shown in two weeks, each with the lessons of its own rows.
Left out: which flags and types are matched by the regular expressions, titles,
the second teacher and room, and the columns an exam copies.

### CalendarEvents

A function of the timetable, since the calendar is made when the assembly is
over; properties are stated of every prefix, which is a timetable as well.

| Code | Model |
| --- | --- |
| the two `flatMap`s over weeks and days | `AllLessons` |
| `createLessonEvent`, with its `allDay` | `createLessonEvent` |
| `generateCalenadrForGroup`, `generateCalenadrForTeacher` | `generateCalendar` |
| the handlers' 404 | `NotFound` |

### GroupLists

Both forms of the list of groups are built of the same rows, so that they can be
compared. `rowsByFaculty` is a JavaScript object: `Object.values` lists its
integer keys in ascending order and the key `null` after them, which is what
`items` does. `Sorted` leaves open which of two equal entries is first, and is
a choice among orderings, so that proofs can speak of it. The lists of teachers and of rooms are the same loop,
`getPersonsBySchedule`, over different columns. Names are their ranks in the
collation.

### AccessPipeline

A request is a record: its handler, its token, where it is (`check`,
`throttle`, `handler`, `done`), what the guard has put into `oAuth`, and its
status. `held` and `said403` are history: what the token was granted at any time
during the request, because a check is answered from one of these moments and no
later one can be demanded of it, and whether its check was answered with an error
whose own code is 403.

| Code | Model |
| --- | --- |
| `OAuth2AccessTokenGuard.canActivate` up to its await; without a token passport fails and `handleRequest` throws `NotFoundException` | `Arrive` |
| the OAuth server decides; its reply, or an error without a code, with the code 403, with another, or with one that is no HTTP status, is on the way | `Decide` |
| the reply arrives: `mutatorClientProxy`, `validate`, the rest of `canActivate` | `CheckAccessToken`, with `Thrown`, `Refused`, `Accepted` |
| `rxjs.timeout(4e3)`, before the decision or with the reply on its way | `CheckTimeout` |
| `ThrottlerGuard` with this repository's `shouldSkip` | `Throttle` |
| `HttpAndRpcExceptionFilter`, `HttpRpcException.getStatus` | `StatusOf`, `getStatus`, `Done`; the code an RPC's error carries is passed on, `403` as itself and any other status as `rpc`; `throttled` is the 429 |
| the filter's own error, which `main.ts:190-195` only logs | `Unanswered`: the request is `hung` |
| OAuth server and the throttler's timers | `Regrant`, `Forget`, `Unblock` |

Scopes of handler and class are one set. `HandlersAssumption` says of the
handlers what their decorators do: each with `OAuth2RequiredScope` has
`NeedAuth` as well, without which a request that sends no token would not be
asked for scopes. The requests come from one client
address, so that they share the throttler's records. Left out: `OnlyDevGuard`
(no handler is marked), `SkipThrottle` of `uptime`, response headers and
bodies, and what a handler does (`ScheduleCache`).

## Runs

| Run | Instance | Shows |
| --- | --- | --- |
| `group_timetable` | 2 requests, lessons and exams edited once each, TTL 1, 3 ticks | all safety properties of a two-table method under concurrency |
| `count_page` | 1 request: two counts of different lists, or a teacher's timetable; 2 ticks | `isCache` and nulls of the count page; `ScheduleCache` implements `FreshnessContract` |
| `count_over_list` | 2 requests, count and list of groups, TTL 2, 5 ticks | lifetimes of nested caches add up; the inner `isCache` survives |
| `group_week` | 1 request, by name, ID and ID 0 (13 queries) or for a list of one query; fairness | the long method: staleness, nulls, partial failures, versions mixed by edits between its queries; every request ends |
| `week_numbers` | every day of 1996-2030 | ISO weeks; away from New Year, consecutive numbers that start with 1 in the week of 1 September and with 0 in that of 1 February |
| `week_numbers_doc` | 2024-2026 | **violation**: see Findings |
| `timetable` | 31 December 2024, 1 and 12 January 2025 (a Sunday), the exams' weeks as `SemesterWeek` numbers them, 1 January in two weeks by its rows; 3 rows of up to 6 kinds, 2 exams | assembly loses, doubles and misplaces nothing, lessons end when they do, and so does the calendar made of it |
| `timetable_doc` | two rows without a room | **violation**: see Findings |
| `lists` | 3 institutes, one of them null, 2 names, 2 IDs, 2 schedules; 3 teachers, one nameless; 3 rows | the forms of the list of groups agree; lectures and counts are true |
| `access` | 2 requests, 1 token, 2 scopes, a login handler and an open one, 1 change of the token's grants, errors of the check with and without a code of their own | who passes, who is refused and why, who is throttled; every access ends |
| `access_doc` | the same | **violation**: see Findings |
| `access_code_doc` | the same | **violation**: see Findings |

Why the bounds suffice. One edit of each table separates "old" from "new", and
every property compares a version with an instant. `Horizon` lets a key written
in the last tick of its request be read in its last tick and be used once more
on top: `BoundedStaleness` is tight in `count_over_list`, where five ticks
reach the sum of both lifetimes. The count page has four counts; two, of
different lists, are as many as one can be cached and the other not, and the
proofs hold for any number. Two requests are enough for a late SET to replace a
newer one; a third only repeats the role of either. The proofs remove these
bounds for the theorems below. 1996-2030 holds every combination of leap year
and weekday of New Year. Three rows hold a head, a member of its stream and a
look-alike between or around them; the kinds of rows have one, two and three
pairs, before, around and after lunch and the fifth pair, with and without a
stream, a teacher, a room, a name and a group. The dates are neighbours in one
week that the rows and the arithmetic number differently, one of them numbered
18 and 19 by rows of two schedules, and a Sunday of the next. Rows without a name
come with a type and without, so that one that keeps a null name can be met by
another. Three rows of a list hold a group twice and another, or a group of two
institutes, in any order. One change of grants separates the token a check saw
from the one the request came with; two requests are enough for one to have the
throttler block the other, as the limits are 1. Deadlock is checked in the
cache and access runs; `week_numbers`, `timetable` and `lists` end by design.

The stored results' `seen` is a set: how often a table was read is not
distinguished, which matters for no property here.

**Fairness.** Two runs need it. `access`: `WF` of `Serve(r)`, the timer of the
check, the guards and the handler; nothing is assumed of the OAuth server, so
that only the timeout ends a check that is never answered. `EveryAccessEnds`
leaves out a check answered with a code that is no status, which is the finding
`access_code_doc`. `group_week`: `WF` of `Respond(r)`, that is, an await that
can settle does. ioredis rejects or resends commands, and tedious ends a query
by its request timeout. Nothing is assumed of clients, edits, time or restarts,
and a restart ends a request as well. One request suffices for
`EveryRequestEnds`: requests share Redis alone and none waits for another, and
what another may do to the keys (`SetResend`, `Evict`, `Tick`) happens in the
run.

**Refinement.** In the mapping a request is open while its handler runs, and
results become visible when it is answered. GET, queries, SET and expiry are
stutters of the contract, `Respond` of the last step is its `Reply`, which
must be acceptable: complete, no older than the shelf life, current if
null or not flagged.

## Proofs

**The cache** (`ScheduleCacheProofs`). From the assumptions `BoundsAssumption` and `EndpointsAssumption`
only, for any number of requests, endpoints, edits, lifetimes and ticks:

* `TypeCorrect`: `Spec => []TypeOK`. `TypeOK` is not
  inductive: a request in its query state could be past the last query, or in a
  call that is no key. `Shape` adds that every busy request has a current call,
  that it awaits Redis only in a cached call, and a query only if there is one
  left. There is one lemma for each function that produces a local state
  (`Enter`, `Return`, `Proceed`, `Missed`) and one step per action.
* `StalenessBounded` and `UnflaggedIsFresh`: `Spec => []BoundedStaleness` and `Spec => []FreshUnlessFlagged`, both from one
  invariant. It says of every Redis entry that what it was computed from was in
  force one shelf life before the entry expires, of a running request that what
  it has read was in force when it started (or, if the data came from the cache
  of a counted list, one shelf life before, and then flagged), and of its
  results that they are within their shelf life and flagged if they are older
  than the request. The shelf life of an entry depends on `MaxRequest`: a SET
  happens up to that long after the first query, and the two meet in the step
  `SetOk`. Edits keep it because a version that ends now was in force until now
  (`EditFresh`); ticks, because a request cannot outlast `MaxRequest` and a key
  cannot outlast its EX.
* `AbsenceIsCurrent`, `NeverPartial`, `SkewBounded`:
  `Spec => []NullIsFresh`, `Spec => []NothingPartial` and `Spec =>
  []BoundedSkew`. `WholeInv` adds to the invariant above what a request has
  read and not yet returned: the tables read so far are the first ones of its
  method, none of them made it give up (`Underway`), and all of it was in force
  within `MaxRequest`. It says the same of every Redis entry, complete: a SET
  stores what queries have read, and a later GET hands it on unchecked.
* `ServiceRefines`: `Spec => ServiceKeepsContract`.
  The invariant is `WholeInv` and that no open request has been answered. Each
  action is mapped to the contract's `Ask`, `Reply`, `Edit`, `Tick` or
  `Disconnect`, or to a stutter; that an answer is acceptable to `Reply` is the
  three theorems on age, absence and completeness, by the step and not only
  afterwards. `Serves` collects what one step of a handler may do to the
  client's view.

**The assembly.** `WeekTimetableProofs`, for any dates, bells, rows, exams and
numbering of weeks that the five assumptions allow: `DaysShown`
(`[]DaysAsNumbered`), `NoRowLost` (`[]EveryRowShown`) and `ParityIsTrue`
(`[]ParityHolds`). `TableInv` says of the nested lists that they have their
shapes, that numbers of weeks, and dates within a week, are unique (`Once`), that
each day was opened in this week by a row of its date and this number, or by an
exam where there are no rows, and that every row and exam has its day
(`Opened`), that every lesson was made of a row or an exam and stands in the week
of its row (`MadeOf`), that every row is shown (`Shown`), and that there are only
lessons of rows until the first exam (`RowsOnly`): a row looks for its day in its
own week only, and would open it a second time if an exam had put it elsewhere. All
a round does is in one relation, `Adds`: nothing is lost, and one lesson, one
day and one week may be new. `RowAdds` and `ExamAdds` prove it of the rounds,
and each part of `TableInv` is kept by whatever `Adds` allows.

`WeekTimetableContents` goes on from there. A round of either loop touches one
place, (week, day, lesson), and `RowRound` and `ExamRound` say what it leaves
there; `ContentsInv` holds of all other places because nothing moves. It has one
conjunct for each question:

* `TableTyped` (`[]TypeOK`), from `TableInv` alone;
* `Joins`, for `StreamsJoined` (`[]StreamJoined`): a member of a stream whose
  head is shown finds the head's lesson when it is placed;
* `NamedOnce`, for `TogetherIsOne` (`[]TaughtTogether`): two lessons of a day
  that compare equal were both made by rows, and the second would have been
  merged, unless the stored name was the text of a row without a name;
* `Counted`, for `GroupsNamed` (`[]EveryGroupNamed`): as often as rows and exams
  name a group for an hour, lessons do. Both sides are sizes of sets that a
  round makes larger by one or leaves alone, the same for both;
* `Timed` and `Numbered`, for `EndsAgree` (`[]EndsWithLastPair`) and `DaysTold`
  (`[]DayTypesDiffer`): start, ends, hours and number of a lesson are those
  computed for its slot, and a day's type is that of its date.

Two of these have a hypothesis on the data beyond the assumptions, which
`WeekTimetableMC` has TLC evaluate for the instance of the runs: `EndsAgree`
needs `BellsOfPairs`, that the bells are the ones that the constants of
`createWeek` were written for (90 minutes, breaks of 10, 40 after the second
pair and 20 after the fifth); `DaysTold` needs `WeeksOfDays`, that a number of a
week is not given to two calendar weeks, as it would be in rows of more than
one semester. What the last pair of three ends with is shown by counting the
pairs between, through the least pair of which it would fail.

**The calendar.** `CalendarProofs`: `EventsForAll` (`[]EventForEach`) and
`OnlyExamsAllDay` (`[]AllDayIffExam`). `Tells` is a bijection between the
positions of `AllLessons` and the places of the timetable; it exists because
flattening lists every element of every part exactly once (`Flattened`), for
weeks of days and then for days of lessons. Both properties are then about
lessons of the timetable. `CalendarInv` says that each date has as many
lessons of exams as exams, and that no training has two lessons of rows in one
day of a week (`Single`), because `getMany` makes one of equal rows. So each
lesson of a row has a row of its own, and there are no more of them than rows
(`NoMoreThanRows`), whatever the merging left. `OnlyExamsAllDay` needs `BellsOfPairs` as well, and
`EveningFree`, that no pair ends within an hour of midnight: the code takes for
an exam whatever ends on another day than it started.

**Lists and counts.** `GroupListsProofs`: `LecturesTold` (`[]LectureIfAny`),
`FormsAreOne` (`[]FormsAgree`) and `CountsTrue` (`[]CountsAreTrue`). `ListInv`
says of the object built so far that it has an entry for each institute of the
rows, that the short entry has the names of its rows, and that the long one has
each of them once, with lectures if and only if a row of that name has; of the
map that it is the names of the persons in the rows. What is returned is sorted:
`CanBeSorted` shows, by the number of lesser elements of each, that a finite set
can be, so that `Sorted` lists it (`SortedList`). The counts follow from
bijections of what is listed with the sets that the properties count.

**Semester weeks.** `SemesterWeekProofs`: `WeekIsIso` (`[]IsoWeek`) and
`WeeksInOrder` (`WeekByWeek`, an action property), for any first and last year.
The code looks for the week's Thursday and counts Mondays from 4 January; both
are brought to the number of Mondays since day 0, where the first week of a year
is `FirstWeek(y)` and the weeks of a year are those from it to the next
year's. The two Mondays on which the numbers start again are found by the same
count (`OpensByNumber`). That the day after a date is a date, or 1 January, is the only invariant
needed.

**Access.** `AccessPipelineProofs`, for any handlers, tokens, scopes and
requests: `AccessTypeCorrect`, `OnlyGrantedPass`, `RefusalsHaveCause`,
`OpenStaysOpen` and `NoLimitPasses`. `AccessInv` adds to the types that what a
request waits for or holds was granted to its token at some time during it
(`Known`), that who has passed was entitled and each status has its reason
(`Justified`; a 403 is `Caused` by what was granted or by the check's own error),
and that what is granted now is part of the history of every
request under check (`UpToDate`).

**Model-checked only.** `EveryRequestEnds` and `EveryAccessEnds`: liveness under
fairness is out of this prover's reach. Every safety property of the passing
runs, and the refinement, is a theorem. Induction over data, by theorems that
take an operator as their parameter, is out of its reach too; where lengths and
counts are arbitrary, the proofs take the least counterexample instead
(`Least`), which only needs that `<` is well-founded on the naturals. The
provers have no definitions of `SortSeq`, `:>` and `@@`, which is why `GroupLists`
writes its functions out.

The proofs corrected the model in one place: `TaughtTogether` had been stated
too strongly. A row without a name is shown with the name in its text, and a
later row that has this text for its name is merged into it, while one without a
name is not; the property now leaves out names under which a row without one
is shown.

## Findings

* **January's exams** (`week_numbers_doc`). If 31 December is in ISO week 1,
  as in 2018, 2019, 2024 and 2025, `getWeekOffsetByYear` takes week 1 for the
  last week of the old year. All exams of that January get week numbers from
  -32 on instead of the next ones after December's, and `injectExams` puts
  them into weeks of their own. The numbers are documented as the number of
  the week in the semester.
* **Pairs without a room** (`timetable_doc`). The comparison that unites pairs
  "not united in a stream" never matches where the teacher or the room is
  missing, because the stored lesson has `undefined` and the row `null`. The
  property holds for rows that have both (`TaughtTogether`).
* **A null from the OAuth server** (`access_doc`). The strategy answers a check
  without a result with a 403, and `mutatorClientProxy` means to let null
  through, but its `'error' in e` throws on null first: the client gets a 500.
* **An RPC's code that is no status** (`access_code_doc`). The constructor of
  `HttpRpcException` replaces a code outside 100..600 by 500, but its
  `getStatus` returns the error's own code as it is. Node refuses such a
  status, the filter throws, `main.ts:190-195` logs it, and the request is
  never answered.

Also met while modelling, not claimed by any text of the repository: the SET's
error is not caught although the GET's is, so an outage of Redis between the
two turns a complete answer into a 500 (`SetFail`); a negative `idSchedule`
selects the published schedule but leaves out the exams; any unknown ID given
with a schedule is answered by `getByGroupAsWeek` with twelve empty lists; a
merged row without a group pushes a null into `groups`, and a merged row's
second teacher and room are dropped. A row without a name but with a type keeps
a null name; later rows without a name, of the same hour, teacher and room, are
merged into it in a teacher's or a room's timetable (`service:907`), and what
their texts say is lost (`EveryRowShown` promises no more). A row of a stream
that comes before the stream's head stays a lesson of its own in a group's
timetable (`StreamJoined` is of heads that came first). If the check of a token
fails in the OAuth server with a code of 403, the client is refused with this 403
like one whose token lacks the scope, although the failure says nothing of the
token (`http-rpc-exception.ts:35-40`); `RefusedForCause` counts it as a cause
of its own. A group found by its ID has no exams
(`service:327`), and is cached so; an exam with two teachers appears twice.
Lessons of three pairs from the first or fourth pair on end earlier than their
last pair (the code says "need fix", `service:925`); lessons whose name is the
text of their row never unite; one row without a text fails the whole timetable. A Sunday has the
type -1 (`service:889`, `service:1125`) where `WeekNumberType` says 6, and
`getByGroupAsWeek` never asks for one; `TypeOK` says what the code stores, not
what the enumeration declares. The two forms of the list of groups have the
institutes in the same order, but not the groups in them: the short form is
sorted by name, the long one as the rows came. The institutes' `ORDER BY idfac DESC` is undone by the integer keys of the
object. The lists of teachers and rooms count rows that their timetables leave
out (`childz = 0`). In a teacher's calendar the singular and the plural of the
word for groups are swapped.

## Plan

Done: the cache with its contract, the week arithmetic, the assembly with times
and parity, the calendar, the lists and counts, and the access pipeline with RPC
codes; proofs of all their safety properties. Left, in this order:

1. Shortened days and lessons that are no whole number of pairs.
2. The second teacher and room of a row.
3. Whether an exam is found for a group that is given by its ID, in the model of
   the rows rather than as a remark.

Not modelled and not planned: bootstrap and environment (configuration run
once), validation and serialisation pipes (library conversions), entities
beyond their columns, containers and scripts.
