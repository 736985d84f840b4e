----------------------------- MODULE GroupLists -----------------------------
(***************************************************************************)
(* The lists of ScheduleService, made of rows that name a group, a teacher *)
(* or a room many times: getGroups in its two forms (`additional' or not), *)
(* the teachers and the rooms of a schedule, and the counts of getCount.   *)
(* One row of a query is handled a step; both forms of the list of groups  *)
(* are built of the same rows. Names are their ranks in the collation. The *)
(* course of a group, the deprecated second copy of its ID and the name of *)
(* its institute go with the row or with the ID, and are left out.         *)
(***************************************************************************)
EXTENDS Integers, SequencesExt

CONSTANTS
  Institutes,  \* values of idfac, Null included: fullfac is a left join
  Names,       \* names of groups
  GroupIds,    \* IDs of groups: one name may have several
  Semesters,   \* names of the schedules that are published
  PersonName,  \* PersonName[p]: name of teacher (or room) p, Null if none
  Null,        \* a column without a value
  MaxRows      \* bound: the rows of one query

Persons == DOMAIN PersonName

ASSUME ListsAssumption ==
  /\ Institutes \subseteq Nat \cup {Null} /\ Names \subseteq Nat
  /\ Null \notin Nat /\ Null \notin Persons /\ MaxRows \in Nat
  /\ \A p \in Persons : PersonName[p] \in Nat \cup {Null}

VARIABLES
  list,             \* what is listed: "groups", or "persons" for either
  rows,             \* the rows dealt with so far: a history variable
  rowsByFaculty,    \* rowsByFaculty[additional]: the groups by institute
  defaultNamerasp,  \* the deprecated name of the whole list
  map               \* ID to name, of teachers or of rooms

vars == <<list, rows, rowsByFaculty, defaultNamerasp, map>>

GroupRow ==
  [idfac : Institutes, name : Names, groupId : GroupIds, lecture : BOOLEAN,
   namerasp : Semesters]

(* prep and prep2, or audi and audi2.                                      *)
PersonRow == [first : Persons \cup {Null}, second : Persons \cup {Null}]

-----------------------------------------------------------------------------
(* getGroups                                                               *)

(* ORDER BY idfac DESC, fl_lek DESC, then by columns that are left out or  *)
(* tell groups apart by more than the name. NULL is SQL Server's least.    *)
InOrder(row) ==
  rows # << >> =>
    LET last == Last(rows)
    IN  IF row.idfac = last.idfac THEN row.lecture => last.lecture
        ELSE IF Null \in {row.idfac, last.idfac} THEN row.idfac = Null
        ELSE row.idfac < last.idfac

Group(row) ==
  [name |-> row.name, groupId |-> row.groupId, hasLecture |-> FALSE,
   scheduleName |-> row.namerasp]

(* Pushed, unless it was found at n.                                       *)
Found(groups, n, row) == IF n = 0 THEN Append(groups, Group(row)) ELSE groups

Told(groups, n, lecture) ==
  [groups EXCEPT ![n].hasLecture = @ \/ lecture]

(* Its namesake of another schedule is taken for another group.            *)
PerScheduleMutant(groups, row) ==
  LET n == SelectInSeq(groups, LAMBDA e : /\ e.name = row.name
                                          /\ e.scheduleName = row.namerasp)
      all == Found(groups, n, row)
  IN  Told(all, IF n = 0 THEN Len(all) ELSE n, row.lecture)

(* What the last row says instead of what any row says.                    *)
LastRowMutant(groups, row) ==
  LET n == SelectInSeq(groups, LAMBDA e : e.name = row.name)
      all == Found(groups, n, row)
  IN  [all EXCEPT ![IF n = 0 THEN Len(all) ELSE n].hasLecture = row.lecture]

(* The detailed form: find the group by its name, or push it.              *)
WithGroup(groups, row) ==
  LET n == SelectInSeq(groups, LAMBDA e : e.name = row.name)
      all == Found(groups, n, row)
  IN  Told(all, IF n = 0 THEN Len(all) ELSE n, row.lecture)

(* The institute's list, a new one if it has none yet, with the row added. *)
WithRow(object, row, additional) ==
  LET groups == IF row.idfac \in DOMAIN object THEN object[row.idfac] ELSE << >>
      more == IF additional THEN WithGroup(groups, row)
              ELSE Append(groups, row.name)
  IN  [f \in DOMAIN object \cup {row.idfac} |->
         IF f = row.idfac THEN more ELSE object[f]]

getGroups(row) ==
  /\ list = "groups"
  /\ Len(rows) < MaxRows
  /\ InOrder(row)
  /\ rows' = Append(rows, row)
  /\ rowsByFaculty' = [additional \in BOOLEAN |->
                         WithRow(rowsByFaculty[additional], row, additional)]
  /\ defaultNamerasp' = row.namerasp
  /\ UNCHANGED <<list, map>>

(* The names as they come, once for every row.                             *)
AsTheyComeMutant(names) == SortSeq(names, <)

(* A set as a sequence in order; which is first of equals is left open.    *)
Sorted(set, Leq(_, _)) ==
  CHOOSE s \in [1..Cardinality(set) -> set] :
    \A i, j \in 1..Cardinality(set) : i < j => s[i] # s[j] /\ Leq(s[i], s[j])

(* [...new Set(names)].sort(...)                                           *)
SortedNames(names) == Sorted(ToSet(names), <=)

(* Object.values: keys that are integers come in ascending order, whatever *)
(* the ORDER BY of the query, and the key "null" comes after them.         *)
KeyOrder(a, b) == b = Null \/ (a # Null /\ a <= b)

items(additional) ==
  LET object == rowsByFaculty[additional]
      keys == Sorted(DOMAIN object, KeyOrder)
  IN  [k \in DOMAIN keys |->
        [id |-> keys[k],
         groups |-> IF additional THEN object[keys[k]]
                    ELSE SortedNames(object[keys[k]])]]

-----------------------------------------------------------------------------
(* getTeachersBySchedule and getAudiencesBySchedule                        *)

(* map.set for the first and for the second, if they have a name.          *)
WithPersons(entries, row) ==
  LET named == {p \in {row.first, row.second} \ {Null} : PersonName[p] # Null}
  IN  [p \in DOMAIN entries \cup named |->
         IF p \in named THEN PersonName[p] ELSE entries[p]]

getPersonsBySchedule(row) ==
  /\ list = "persons"
  /\ Len(rows) < MaxRows
  /\ row \notin ToSet(rows)
  /\ rows' = Append(rows, row)
  /\ map' = WithPersons(map, row)
  /\ UNCHANGED <<list, rowsByFaculty, defaultNamerasp>>

(* [...map.entries()], sorted by name.                                     *)
personItems ==
  Sorted({[id |-> p, name |-> map[p]] : p \in DOMAIN map},
         LAMBDA a, b : a.name <= b.name)

-----------------------------------------------------------------------------
(* getCount                                                                *)

(* Institutes and groups are counted in the form without details; a list   *)
(* that is empty is null, and so is its count.                             *)
getCount(type) ==
  LET n == CASE type = "institute" -> Len(items(FALSE))
             [] type = "group" ->
                  Len(FlattenSeq([k \in DOMAIN items(FALSE) |->
                                    items(FALSE)[k].groups]))
             [] OTHER -> Len(personItems)
  IN  IF n = 0 THEN Null ELSE n

-----------------------------------------------------------------------------
Init ==
  /\ list \in {"groups", "persons"}
  /\ rows = << >>
  /\ rowsByFaculty = [additional \in BOOLEAN |-> << >>]
  /\ defaultNamerasp = Null
  /\ map = << >>

Next ==
  \/ \E row \in GroupRow : getGroups(row)
  \/ \E row \in PersonRow : getPersonsBySchedule(row)

Spec == Init /\ [][Next]_vars

-----------------------------------------------------------------------------
(* Properties.                                                             *)

Number(set) == IF set = {} THEN Null ELSE Cardinality(set)

(* The two forms of the list of groups, made by different code, show the   *)
(* same institutes in the same order and in each of them the same groups,  *)
(* those of the rows, once each: also if a group has rows of several       *)
(* schedules, with and without lectures, or under several IDs (getGroups). *)
(* The short form is in the order of the names.                            *)
FormsAgree ==
  list = "groups" =>
    LET full == items(TRUE)
        short == items(FALSE)
    IN  /\ [k \in DOMAIN full |-> full[k].id] = [k \in DOMAIN short |-> short[k].id]
        /\ \A k \in DOMAIN full :
             LET names == [i \in DOMAIN full[k].groups |-> full[k].groups[i].name]
                 sorted == short[k].groups
             IN  /\ ToSet(names) = {row.name : row \in {e \in ToSet(rows) :
                                                         e.idfac = full[k].id}}
                 /\ ToSet(sorted) = ToSet(names)
                 /\ \A i, j \in DOMAIN names : i < j => names[i] # names[j]
                 /\ \A i, j \in DOMAIN sorted : i < j => sorted[i] < sorted[j]

(* A group has lectures if any of its rows in the institute says so, not   *)
(* only the row it was pushed for or the last one.                         *)
LectureIfAny ==
  list = "groups" =>
    \A k \in DOMAIN items(TRUE) : \A i \in DOMAIN items(TRUE)[k].groups :
      LET group == items(TRUE)[k].groups[i]
      IN  group.hasLecture <=>
            \E row \in ToSet(rows) : /\ row.idfac = items(TRUE)[k].id
                                     /\ row.name = group.name /\ row.lecture

(* The counts of the count page are numbers of different things, although  *)
(* the rows repeat them; nothing to count is null, never 0.                *)
CountsAreTrue ==
  IF list = "groups"
  THEN /\ getCount("institute") = Number({row.idfac : row \in ToSet(rows)})
       /\ getCount("group") = Number({<<row.idfac, row.name>> : row \in ToSet(rows)})
  ELSE getCount("teachers") =
         Number({p \in Persons : /\ PersonName[p] # Null
                                 /\ \E row \in ToSet(rows) :
                                      p \in {row.first, row.second}})
=============================================================================
