--------------------------- MODULE ScheduleCacheMC ---------------------------
(***************************************************************************)
(* Instances of ScheduleCache for TLC: the endpoints each run exercises.   *)
(***************************************************************************)
EXTENDS ScheduleCacheContract, TLC

CONSTANTS r1, r2

Call(op, sid, arg) == [op |-> op, sid |-> sid, arg |-> arg]

AllArguments ==
  {"", "names", "group", "institute", "teachers", "audiences", "17", "0"}

RequestSymmetry == Permutations(Requests)

(* GET /schedule/group/:name, the calendar of a group                      *)
GroupEndpoints == {<<Call("byGroup", 0, "group")>>}

(* GET /schedule/group_week/:name, and /:id?idschedule; all audiences      *)
WeekEndpoints ==
  {<<Call("byGroupAsWeek", 0, "group")>>, <<Call("byGroupAsWeek", 1, "17")>>,
   <<Call("byGroupAsWeek", 1, "0")>>, <<Call("allAudiences", 0, "")>>}

(* One count of GET /schedule/count, and the endpoint that returns the     *)
(* list it is taken from.                                                  *)
ListAndCount ==
  {<<Call("count", 0, "group")>>, <<Call("groups", 0, "names")>>}

(* GET /schedule/count, cut to two of its counts, of different lists; the  *)
(* timetable of a teacher, who is looked up last.                          *)
PageEndpoints ==
  {<<Call("count", 0, "institute"), Call("count", 0, "teachers")>>,
   <<Call("byTeacher", 0, "17")>>}

None == {}
=============================================================================
