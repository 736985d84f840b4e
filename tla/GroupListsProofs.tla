-------------------------- MODULE GroupListsProofs --------------------------
(***************************************************************************)
(* Proofs about GroupLists, for any rows, institutes, names and persons.   *)
(* The properties are about the lists that are returned; ListInv says what *)
(* the objects they are made of hold after each row.                       *)
(***************************************************************************)
EXTENDS GroupLists, SequenceLemmas

GroupType ==
  [name : Names, groupId : GroupIds, hasLecture : BOOLEAN,
   scheduleName : Semesters]

(* The rows so far of institute f.                                         *)
RowsOf(f) == {row \in ToSet(rows) : row.idfac = f}

(* What the rows R of an institute are in the short and in the long form.  *)
NamesListed(names, R) ==
  names \in Seq(Names) /\ ToSet(names) = {row.name : row \in R}

GroupsListed(groups, R) ==
  /\ groups \in Seq(GroupType)
  /\ \A i, j \in DOMAIN groups : groups[i].name = groups[j].name => i = j
  /\ \A i \in DOMAIN groups : \E row \in R : row.name = groups[i].name
  /\ \A row \in R : \E i \in DOMAIN groups : row.name = groups[i].name
  /\ \A i \in DOMAIN groups :
       groups[i].hasLecture <=>
         \E row \in R : row.name = groups[i].name /\ row.lecture

GroupsInv ==
  /\ rows \in Seq(GroupRow) /\ DOMAIN rowsByFaculty = BOOLEAN
  /\ \A b \in BOOLEAN :
       DOMAIN rowsByFaculty[b] = {row.idfac : row \in ToSet(rows)}
  /\ \A f \in {row.idfac : row \in ToSet(rows)} :
       /\ NamesListed(rowsByFaculty[FALSE][f], RowsOf(f))
       /\ GroupsListed(rowsByFaculty[TRUE][f], RowsOf(f))

(* The persons that have a name, of those the rows name.                   *)
Named ==
  {p \in Persons : /\ PersonName[p] # Null
                   /\ \E row \in ToSet(rows) : p \in {row.first, row.second}}

PersonsInv ==
  /\ rows \in Seq(PersonRow)
  /\ map = [p \in Named |-> PersonName[p]] /\ IsFiniteSet(Named)

ListInv ==
  /\ list \in {"groups", "persons"}
  /\ list = "groups" => GroupsInv
  /\ list = "persons" => PersonsInv

-----------------------------------------------------------------------------
(* The object of getGroups                                                 *)

(* find: the first group of that name, or none.                            *)
Place(groups, x) == SelectInSeq(groups, LAMBDA e : e.name = x)

LEMMA PlaceFound ==
  ASSUME NEW S, NEW groups \in Seq(S), NEW x
  PROVE  \/ Place(groups, x) = 0 /\ \A i \in DOMAIN groups : groups[i].name # x
         \/ Place(groups, x) \in DOMAIN groups /\ groups[Place(groups, x)].name = x
<1> DEFINE I == {i \in 1..Len(groups) : groups[i].name = x}
<1>1. Place(groups, x) = IF I # {} THEN Min(I) ELSE 0
  BY DEF Place, SelectInSeq
<1>2. DOMAIN groups = 1..Len(groups) /\ I \in SUBSET Nat
  OBVIOUS
<1>3. CASE I = {}
  BY <1>1, <1>2, <1>3
<1>4. CASE I # {}
  <2> HIDE DEF I
  <2>1. \E i \in I : \A j \in I : i <= j
    BY <1>2, <1>4, Least
  <2>2. Min(I) \in I
    BY <2>1 DEF Min
  <2> QED
    BY <1>1, <1>2, <1>4, <2>2 DEF I
<1> QED
  BY <1>3, <1>4

LEMMA WithGroupIs ==
  ASSUME NEW groups, NEW row
  PROVE  LET n == Place(groups, row.name)
             all == Found(groups, n, row)
         IN  WithGroup(groups, row) =
               Told(all, IF n = 0 THEN Len(all) ELSE n, row.lecture)
BY DEF WithGroup, Place

LEMMA ToldIs ==
  ASSUME NEW groups \in Seq(GroupType), NEW n \in DOMAIN groups, NEW l \in BOOLEAN
  PROVE  LET told == Told(groups, n, l)
         IN  /\ told \in Seq(GroupType) /\ DOMAIN told = DOMAIN groups
             /\ told[n].hasLecture = (groups[n].hasLecture \/ l)
             /\ \A i \in DOMAIN groups :
                  /\ told[i].name = groups[i].name
                  /\ i # n => told[i].hasLecture = groups[i].hasLecture
<1>1. \A i \in DOMAIN groups : groups[i] \in GroupType
  OBVIOUS
<1> DEFINE g == [groups[n] EXCEPT !.hasLecture = @ \/ l]
<1>2. /\ g \in GroupType /\ g.name = groups[n].name
      /\ g.hasLecture = (groups[n].hasLecture \/ l)
  BY <1>1 DEF GroupType
<1>3. Told(groups, n, l) = [groups EXCEPT ![n] = g]
  BY DEF Told
<1> HIDE DEF g
<1> QED
  BY <1>2, <1>3

LEMMA NameAdded ==
  ASSUME NEW names, NEW R, NamesListed(names, R), NEW row \in GroupRow
  PROVE  NamesListed(Append(names, row.name), R \cup {row})
<1>1. row.name \in Names
  BY DEF GroupRow
<1>2. names \in Seq(Names) /\ ToSet(names) = {r.name : r \in R}
  BY DEF NamesListed
<1>3. /\ Append(names, row.name) \in Seq(Names)
      /\ ToSet(Append(names, row.name)) = ToSet(names) \cup {row.name}
  BY <1>1, <1>2, OneAppended
<1> QED
  BY <1>2, <1>3 DEF NamesListed

(* A row more about a group that is listed.                                *)
LEMMA GroupToldOf ==
  ASSUME NEW groups, NEW R, GroupsListed(groups, R), NEW row \in GroupRow,
         NEW n \in DOMAIN groups, groups[n].name = row.name
  PROVE  GroupsListed(Told(groups, n, row.lecture), R \cup {row})
<1> DEFINE told == Told(groups, n, row.lecture)
<1>1. row.lecture \in BOOLEAN /\ groups \in Seq(GroupType)
  BY DEF GroupRow, GroupsListed
<1>2. /\ told \in Seq(GroupType) /\ DOMAIN told = DOMAIN groups
      /\ told[n].hasLecture = (groups[n].hasLecture \/ row.lecture)
      /\ \A i \in DOMAIN groups :
           /\ told[i].name = groups[i].name
           /\ i # n => told[i].hasLecture = groups[i].hasLecture
  BY <1>1, ToldIs
<1> HIDE DEF told
<1>3. ASSUME NEW i \in DOMAIN groups
      PROVE  told[i].hasLecture <=>
               \E r \in R \cup {row} : r.name = told[i].name /\ r.lecture
  <2>1. groups[i].hasLecture <=> \E r \in R : r.name = groups[i].name /\ r.lecture
    BY DEF GroupsListed
  <2>2. row.name = groups[i].name <=> i = n
    BY DEF GroupsListed
  <2>3. CASE i = n
    BY <1>2, <2>1, <2>2, <2>3
  <2>4. CASE i # n
    BY <1>2, <2>1, <2>2, <2>4
  <2> QED
    BY <2>3, <2>4
<1>4. \A i \in DOMAIN told : \E r \in R \cup {row} : r.name = told[i].name
  BY <1>2 DEF GroupsListed
<1>5. \A r \in R \cup {row} : \E i \in DOMAIN told : r.name = told[i].name
  BY <1>2 DEF GroupsListed
<1>6. \A i, j \in DOMAIN told : told[i].name = told[j].name => i = j
  BY <1>2 DEF GroupsListed
<1> QED
  BY <1>2, <1>3, <1>4, <1>5, <1>6 DEF GroupsListed, told

(* A group that is not listed yet is pushed, and says nothing of lectures. *)
LEMMA GroupAdded ==
  ASSUME NEW groups, NEW R, GroupsListed(groups, R), NEW row \in GroupRow
  PROVE  GroupsListed(WithGroup(groups, row), R \cup {row})
<1> DEFINE n == Place(groups, row.name)
           pushed == Append(groups, Group(row))
           k == Len(groups) + 1
<1>1. groups \in Seq(GroupType)
  BY DEF GroupsListed
<1>2. \/ n = 0 /\ \A i \in DOMAIN groups : groups[i].name # row.name
      \/ n \in DOMAIN groups /\ groups[n].name = row.name
  BY <1>1, PlaceFound
<1>3. 0 \notin DOMAIN groups
  BY <1>1
<1>4. WithGroup(groups, row) =
        Told(Found(groups, n, row),
             IF n = 0 THEN Len(Found(groups, n, row)) ELSE n, row.lecture)
  BY WithGroupIs
<1> HIDE DEF n
<1>5. CASE n # 0
  <2>1. WithGroup(groups, row) = Told(groups, n, row.lecture)
    BY <1>4, <1>5 DEF Found
  <2> QED
    BY <1>2, <1>5, <2>1, GroupToldOf
<1>6. CASE n = 0
  <2>1. Group(row) \in GroupType /\ Group(row).name = row.name
        /\ ~Group(row).hasLecture
    BY DEF Group, GroupType, GroupRow
  <2>2. /\ pushed \in Seq(GroupType) /\ DOMAIN pushed = DOMAIN groups \cup {k}
        /\ k \notin DOMAIN groups /\ pushed[k] = Group(row)
        /\ \A i \in DOMAIN groups : pushed[i] = groups[i]
    BY <1>1, <2>1, OneAppended
  <2>3. Len(pushed) = k
    BY <1>1
  <2>4. WithGroup(groups, row) = Told(pushed, k, row.lecture)
    BY <1>4, <1>6, <2>3 DEF Found
  <2> HIDE DEF pushed, k
  <2>5. /\ row.lecture \in BOOLEAN /\ k \in DOMAIN pushed
        /\ \A i \in DOMAIN groups : groups[i].name # row.name
    BY <1>2, <1>3, <1>6, <2>2 DEF GroupRow
  <2> DEFINE told == Told(pushed, k, row.lecture)
  <2>6. /\ told \in Seq(GroupType) /\ DOMAIN told = DOMAIN pushed
        /\ told[k].hasLecture = (pushed[k].hasLecture \/ row.lecture)
        /\ \A i \in DOMAIN pushed :
             /\ told[i].name = pushed[i].name
             /\ i # k => told[i].hasLecture = pushed[i].hasLecture
    BY <2>2, <2>5, ToldIs
  <2> HIDE DEF told
  <2>7. /\ told[k].name = row.name /\ told[k].hasLecture = row.lecture
        /\ \A i \in DOMAIN groups : /\ told[i].name = groups[i].name
                                    /\ told[i].hasLecture = groups[i].hasLecture
        /\ DOMAIN told = DOMAIN groups \cup {k}
    BY <2>1, <2>2, <2>5, <2>6
  <2>8. \A r \in R : r.name # row.name
    BY <2>5 DEF GroupsListed
  <2>9. ASSUME NEW i \in DOMAIN told
        PROVE  told[i].hasLecture <=>
                 \E r \in R \cup {row} : r.name = told[i].name /\ r.lecture
    <3>1. CASE i = k
      BY <2>7, <2>8, <3>1
    <3>2. CASE i \in DOMAIN groups
      <4>1. groups[i].hasLecture <=>
              \E r \in R : r.name = groups[i].name /\ r.lecture
        BY <3>2 DEF GroupsListed
      <4>2. row.name # groups[i].name
        BY <2>5, <3>2
      <4> QED
        BY <2>7, <3>2, <4>1, <4>2
    <3> QED
      BY <2>7, <3>1, <3>2
  <2>10. \A i \in DOMAIN told : \E r \in R \cup {row} : r.name = told[i].name
    BY <2>7 DEF GroupsListed
  <2>11. \A r \in R \cup {row} : \E i \in DOMAIN told : r.name = told[i].name
    BY <2>7 DEF GroupsListed
  <2>12. \A i, j \in DOMAIN told : told[i].name = told[j].name => i = j
    BY <2>5, <2>7 DEF GroupsListed
  <2> QED
    BY <2>4, <2>6, <2>9, <2>10, <2>11, <2>12 DEF GroupsListed, told
<1> QED
  BY <1>5, <1>6

-----------------------------------------------------------------------------
(* The invariant                                                           *)

LEMMA ListInit == Init => ListInv
<1> SUFFICES ASSUME Init PROVE ListInv
  OBVIOUS
<1>1. rows = << >> /\ ToSet(<< >>) = {}
  BY DEF Init, ToSet
<1>2. GroupsInv
  <2>1. /\ DOMAIN rowsByFaculty = BOOLEAN
        /\ \A b \in BOOLEAN : DOMAIN rowsByFaculty[b] = {}
    BY DEF Init
  <2>2. rows \in Seq(GroupRow) /\ {row.idfac : row \in ToSet(rows)} = {}
    BY <1>1
  <2> QED
    BY <2>1, <2>2 DEF GroupsInv
<1>3. PersonsInv
  <2>1. Named = {} /\ map = << >>
    BY <1>1 DEF Named, Init
  <2>2. << >> = [p \in {} |-> PersonName[p]]
    OBVIOUS
  <2> QED
    BY <1>1, <2>1, <2>2, FS_EmptySet DEF PersonsInv
<1> QED
  BY <1>2, <1>3 DEF ListInv, Init

(* What a row adds to the object of either form: to one list, a new one if *)
(* the institute has none yet.                                             *)
Adds(object, all, row, b) ==
  LET f == row.idfac
      old == IF f \in DOMAIN object THEN object[f] ELSE << >>
  IN  /\ DOMAIN all = DOMAIN object \cup {f}
      /\ all[f] = IF b THEN WithGroup(old, row) ELSE Append(old, row.name)
      /\ \A e \in DOMAIN object : e # f => all[e] = object[e]

LEMMA ObjectAdded ==
  ASSUME NEW object, NEW row, NEW b \in BOOLEAN
  PROVE  Adds(object, WithRow(object, row, b), row, b)
BY DEF WithRow, Adds

LEMMA ListByGroup ==
  ASSUME ListInv, NEW row \in GroupRow, getGroups(row)
  PROVE  ListInv'
<1> DEFINE f == row.idfac
           R(e) == {r \in ToSet(rows) : r.idfac = e}
<1>1. /\ list = "groups" /\ list' = list /\ rows' = Append(rows, row)
      /\ rowsByFaculty' = [b \in BOOLEAN |-> WithRow(rowsByFaculty[b], row, b)]
  BY DEF getGroups
<1>2. GroupsInv
  BY <1>1 DEF ListInv
<1>3. rows' \in Seq(GroupRow) /\ ToSet(rows') = ToSet(rows) \cup {row}
  BY <1>1, <1>2, OneAppended DEF GroupsInv
<1>4. \A e : RowsOf(e)' = IF e = f THEN RowsOf(e) \cup {row} ELSE RowsOf(e)
  BY <1>3 DEF RowsOf
<1>5. {r.idfac : r \in ToSet(rows)}' = {r.idfac : r \in ToSet(rows)} \cup {f}
  BY <1>3
<1> DEFINE S == {r.idfac : r \in ToSet(rows)}
<1>6. ASSUME NEW b \in BOOLEAN
      PROVE  /\ rowsByFaculty'[b] = WithRow(rowsByFaculty[b], row, b)
             /\ DOMAIN rowsByFaculty[b] = S
             /\ DOMAIN rowsByFaculty'[b] = S \cup {f}
             /\ Adds(rowsByFaculty[b], rowsByFaculty'[b], row, b)
  <2>1. rowsByFaculty'[b] = WithRow(rowsByFaculty[b], row, b)
    BY <1>1
  <2>2. DOMAIN rowsByFaculty[b] = S
    BY <1>2 DEF GroupsInv
  <2>3. Adds(rowsByFaculty[b], rowsByFaculty'[b], row, b)
    BY <2>1, ObjectAdded
  <2> QED
    BY <2>1, <2>2, <2>3 DEF Adds
<1>7. f \notin S => RowsOf(f) = {}
  BY DEF RowsOf
<1> HIDE DEF S
<1>8. ASSUME NEW e \in S \cup {f}
      PROVE  /\ NamesListed(rowsByFaculty'[FALSE][e], RowsOf(e)')
             /\ GroupsListed(rowsByFaculty'[TRUE][e], RowsOf(e)')
  <2>1. e \in S => /\ NamesListed(rowsByFaculty[FALSE][e], RowsOf(e))
                   /\ GroupsListed(rowsByFaculty[TRUE][e], RowsOf(e))
    BY <1>2 DEF GroupsInv, S
  <2>2. CASE e # f
    <3>1. /\ rowsByFaculty'[FALSE][e] = rowsByFaculty[FALSE][e]
          /\ rowsByFaculty'[TRUE][e] = rowsByFaculty[TRUE][e]
      BY <1>6, <2>2 DEF Adds
    <3> QED
      BY <1>4, <2>1, <2>2, <3>1
  <2>3. CASE e = f
    <3> DEFINE names == IF f \in S THEN rowsByFaculty[FALSE][f] ELSE << >>
               groups == IF f \in S THEN rowsByFaculty[TRUE][f] ELSE << >>
    <3>1. /\ rowsByFaculty'[FALSE][f] = Append(names, row.name)
          /\ rowsByFaculty'[TRUE][f] = WithGroup(groups, row)
      BY <1>6 DEF Adds
    <3>2. NamesListed(names, RowsOf(f)) /\ GroupsListed(groups, RowsOf(f))
      <4>1. CASE f \in S
        BY <2>1, <2>3, <4>1
      <4>2. CASE f \notin S
        <5>1. NamesListed(<< >>, {}) /\ GroupsListed(<< >>, {})
          BY DEF NamesListed, GroupsListed, ToSet
        <5> QED
          BY <1>7, <4>2, <5>1
      <4> QED
        BY <4>1, <4>2
    <3> HIDE DEF names, groups
    <3>3. /\ NamesListed(Append(names, row.name), RowsOf(f) \cup {row})
          /\ GroupsListed(WithGroup(groups, row), RowsOf(f) \cup {row})
      BY <3>2, NameAdded, GroupAdded
    <3> QED
      BY <1>4, <2>3, <3>1, <3>3
  <2> QED
    BY <2>2, <2>3
<1>9. GroupsInv'
  <2>1. DOMAIN rowsByFaculty' = BOOLEAN
    BY <1>1
  <2> QED
    BY <1>3, <1>5, <1>6, <1>8, <2>1 DEF GroupsInv, S
<1> QED
  BY <1>1, <1>9 DEF ListInv

LEMMA ListByPersons ==
  ASSUME ListInv, NEW row \in PersonRow, getPersonsBySchedule(row)
  PROVE  ListInv'
<1>1. /\ list = "persons" /\ list' = list /\ rows' = Append(rows, row)
      /\ map' = WithPersons(map, row)
  BY DEF getPersonsBySchedule
<1>2. PersonsInv
  BY <1>1 DEF ListInv
<1>3. rows' \in Seq(PersonRow) /\ ToSet(rows') = ToSet(rows) \cup {row}
  BY <1>1, <1>2, OneAppended DEF PersonsInv
<1> DEFINE more == {p \in {row.first, row.second} \ {Null} : PersonName[p] # Null}
<1>4. more \subseteq Persons
  BY DEF PersonRow
<1>5. Named' = Named \cup more
  BY <1>3, <1>4, ListsAssumption DEF Named
<1>6. map' = [p \in Named' |-> PersonName[p]]
  <2>1. map = [p \in Named |-> PersonName[p]]
    BY <1>2 DEF PersonsInv
  <2>2. map' = [p \in DOMAIN map \cup more |->
                  IF p \in more THEN PersonName[p] ELSE map[p]]
    BY <1>1 DEF WithPersons
  <2> HIDE DEF more
  <2> QED
    BY <1>5, <2>1, <2>2
<1>7. IsFiniteSet(Named')
  <2>1. IsFiniteSet({row.first, row.second})
    <3>1. {row.first, row.second} = ({} \cup {row.first}) \cup {row.second}
      OBVIOUS
    <3>2. IsFiniteSet({} \cup {row.first})
      BY FS_EmptySet, FS_AddElement
    <3> QED
      BY <3>1, <3>2, FS_AddElement
  <2>2. more \in SUBSET {row.first, row.second}
    OBVIOUS
  <2> HIDE DEF more
  <2>3. IsFiniteSet(more) /\ IsFiniteSet(Named)
    BY <1>2, <2>1, <2>2, FS_Subset DEF PersonsInv
  <2> QED
    BY <1>5, <2>3, FS_Union
<1>8. PersonsInv'
  BY <1>3, <1>6, <1>7 DEF PersonsInv
<1> QED
  BY <1>1, <1>8 DEF ListInv

LEMMA ListHolds == Spec => []ListInv
<1>1. ListInv /\ [Next]_vars => ListInv'
  <2> SUFFICES ASSUME ListInv, [Next]_vars PROVE ListInv'
    OBVIOUS
  <2>1. ASSUME NEW row \in GroupRow, getGroups(row) PROVE ListInv'
    BY <2>1, ListByGroup
  <2>2. ASSUME NEW row \in PersonRow, getPersonsBySchedule(row) PROVE ListInv'
    BY <2>2, ListByPersons
  <2>3. CASE UNCHANGED vars
    BY <2>3 DEF vars, ListInv, GroupsInv, PersonsInv, RowsOf, Named
  <2> QED
    BY <2>1, <2>2, <2>3 DEF Next
<1> QED
  BY <1>1, ListInit, PTL DEF Spec

-----------------------------------------------------------------------------
(* Sorted lists                                                            *)

LEMMA KeysSorted ==
  ASSUME NEW S \in SUBSET Institutes, IsFiniteSet(S)
  PROVE  Enumerates(Sorted(S, KeyOrder), S)
<1> DEFINE R == {p \in S \X S : KeyOrder(p[1], p[2])}
           n == Cardinality(S)
           s == Sorted(S, KeyOrder)
<1>1. Ordered(S, R)
  <2>1. \A a, b \in S : <<a, b>> \in R <=> KeyOrder(a, b)
    OBVIOUS
  <2>2. \A a \in S : a = Null \/ a \in Int
    BY ListsAssumption
  <2> HIDE DEF R
  <2>3. \A a, b \in S : KeyOrder(a, b) \/ KeyOrder(b, a)
    BY <2>2 DEF KeyOrder
  <2>4. \A a, b, c \in S : KeyOrder(a, b) /\ KeyOrder(b, c) => KeyOrder(a, c)
    BY <2>2 DEF KeyOrder
  <2> QED
    BY <2>1, <2>3, <2>4 DEF Ordered
<1>2. PICK t : Sorts(t, S, R)
  BY <1>1, CanBeSorted
<1>3. /\ t \in [1..n -> S]
      /\ \A i, j \in 1..n : i < j => t[i] # t[j] /\ KeyOrder(t[i], t[j])
  BY <1>2 DEF Sorts
<1>4. /\ s \in [1..n -> S]
      /\ \A i, j \in 1..n : i < j => s[i] # s[j] /\ KeyOrder(s[i], s[j])
  BY <1>3 DEF Sorted
<1> HIDE DEF s
<1>5. Sorts(s, S, R)
  BY <1>4 DEF Sorts
<1> HIDE DEF R
<1>6. Enumerates(s, S)
  BY <1>5, SortedList
<1> QED
  BY <1>6 DEF s

LEMMA NamesSorted ==
  ASSUME NEW S \in SUBSET Nat, IsFiniteSet(S)
  PROVE  LET s == Sorted(S, <=)
         IN  /\ Enumerates(s, S)
             /\ \A i, j \in DOMAIN s : i < j => s[i] < s[j]
<1> DEFINE R == {p \in S \X S : p[1] <= p[2]}
           n == Cardinality(S)
           s == Sorted(S, <=)
<1>1. Ordered(S, R)
  <2>1. \A a, b \in S : <<a, b>> \in R <=> a <= b
    OBVIOUS
  <2> HIDE DEF R
  <2> QED
    BY <2>1 DEF Ordered
<1>2. PICK t : Sorts(t, S, R)
  BY <1>1, CanBeSorted
<1>3. /\ t \in [1..n -> S]
      /\ \A i, j \in 1..n : i < j => t[i] # t[j] /\ t[i] <= t[j]
  BY <1>2 DEF Sorts
<1>4. /\ s \in [1..n -> S]
      /\ \A i, j \in 1..n : i < j => s[i] # s[j] /\ s[i] <= s[j]
  BY <1>3 DEF Sorted
<1> HIDE DEF s
<1>5. Sorts(s, S, R)
  BY <1>4 DEF Sorts
<1> HIDE DEF R
<1>6. Enumerates(s, S)
  BY <1>5, SortedList
<1>7. ASSUME NEW i \in DOMAIN s, NEW j \in DOMAIN s, i < j PROVE s[i] < s[j]
  <2>1. s[i] # s[j] /\ s[i] <= s[j]
    BY <1>4, <1>7
  <2>2. s[i] \in Nat /\ s[j] \in Nat
    BY <1>4
  <2> QED
    BY <2>1, <2>2
<1> QED
  BY <1>6, <1>7 DEF s

(* By name, so that it takes one place each even if two have one name.     *)
LEMMA PersonsSorted ==
  ASSUME NEW S, IsFiniteSet(S), \A e \in S : e.name \in Nat
  PROVE  Enumerates(Sorted(S, LAMBDA a, b : a.name <= b.name), S)
<1> DEFINE R == {p \in S \X S : p[1].name <= p[2].name}
           n == Cardinality(S)
           s == Sorted(S, LAMBDA a, b : a.name <= b.name)
<1>1. Ordered(S, R)
  <2>1. \A a, b \in S : <<a, b>> \in R <=> a.name <= b.name
    OBVIOUS
  <2> HIDE DEF R
  <2> QED
    BY <2>1 DEF Ordered
<1>2. PICK t : Sorts(t, S, R)
  BY <1>1, CanBeSorted
<1>3. /\ t \in [1..n -> S]
      /\ \A i, j \in 1..n : i < j => t[i] # t[j] /\ t[i].name <= t[j].name
  BY <1>2 DEF Sorts
<1>4. /\ s \in [1..n -> S]
      /\ \A i, j \in 1..n : i < j => s[i] # s[j] /\ s[i].name <= s[j].name
  BY <1>3 DEF Sorted
<1> HIDE DEF s
<1>5. Sorts(s, S, R)
  BY <1>4 DEF Sorts
<1> HIDE DEF R
<1>6. Enumerates(s, S)
  BY <1>5, SortedList
<1> QED
  BY <1>6 DEF s

-----------------------------------------------------------------------------
(* The lists that are returned                                             *)

IdsOf(rs) == {row.idfac : row \in ToSet(rs)}
Keys == Sorted(IdsOf(rows), KeyOrder)

(* Both forms have the institutes of the rows, each once and in one order. *)
LEMMA ItemsListed ==
  ASSUME GroupsInv, NEW b \in BOOLEAN
  PROVE  /\ IsFiniteSet(IdsOf(rows)) /\ Enumerates(Keys, IdsOf(rows))
         /\ DOMAIN items(b) = DOMAIN Keys
         /\ \A k \in DOMAIN Keys :
              /\ Keys[k] \in IdsOf(rows) /\ items(b)[k].id = Keys[k]
              /\ items(b)[k].groups = IF b THEN rowsByFaculty[b][Keys[k]]
                                      ELSE SortedNames(rowsByFaculty[b][Keys[k]])
<1>1. rows \in Seq(GroupRow) /\ DOMAIN rowsByFaculty[b] = IdsOf(rows)
  BY DEF GroupsInv, IdsOf
<1>2. IsFiniteSet(ToSet(rows))
  BY <1>1, ListFinite
<1>3. IsFiniteSet(IdsOf(rows)) /\ IdsOf(rows) \in SUBSET Institutes
  <2> DEFINE T == ToSet(rows)
             f == [row \in T |-> row.idfac]
  <2>1. f \in Surjection(T, IdsOf(rows))
    <3>1. f \in [T -> IdsOf(rows)] /\ \A e \in IdsOf(rows) : \E row \in T : f[row] = e
      BY DEF IdsOf
    <3> HIDE DEF f, T
    <3> QED
      BY <3>1, Fun_IsSurj
  <2> HIDE DEF f
  <2>2. IsFiniteSet(IdsOf(rows))
    BY <1>2, <2>1, FS_Surjection
  <2>3. \A row \in ToSet(rows) : row \in GroupRow
    BY <1>1 DEF ToSet
  <2> QED
    BY <2>2, <2>3 DEF IdsOf, GroupRow
<1>4. Enumerates(Keys, IdsOf(rows))
  BY <1>3, KeysSorted DEF Keys
<1>5. \A k \in DOMAIN Keys : Keys[k] \in IdsOf(rows)
  BY <1>4 DEF Enumerates
<1>6. items(b) = [k \in DOMAIN Keys |->
                    [id |-> Keys[k],
                     groups |-> IF b THEN rowsByFaculty[b][Keys[k]]
                                ELSE SortedNames(rowsByFaculty[b][Keys[k]])]]
  BY <1>1 DEF items, Keys
<1> QED
  BY <1>3, <1>4, <1>5, <1>6

(* The names of an institute are those of its rows.                        *)
LEMMA ShortListed ==
  ASSUME GroupsInv, NEW f \in IdsOf(rows)
  PROVE  LET s == SortedNames(rowsByFaculty[FALSE][f])
         IN  /\ Enumerates(s, {row.name : row \in RowsOf(f)})
             /\ {row.name : row \in RowsOf(f)} \in SUBSET Names
             /\ \A i, j \in DOMAIN s : i < j => s[i] < s[j]
<1> DEFINE names == rowsByFaculty[FALSE][f]
           S == {row.name : row \in RowsOf(f)}
<1>1. names \in Seq(Names) /\ ToSet(names) = S
  BY DEF GroupsInv, NamesListed, IdsOf
<1>2. IsFiniteSet(S)
  BY <1>1, ListFinite
<1>3. SortedNames(names) = Sorted(S, <=)
  BY <1>1 DEF SortedNames
<1> HIDE DEF S, names
<1>4. S \in SUBSET Names
  BY <1>1 DEF ToSet
<1>5. S \in SUBSET Nat
  BY <1>4, ListsAssumption
<1>6. LET s == Sorted(S, <=)
      IN  Enumerates(s, S) /\ \A i, j \in DOMAIN s : i < j => s[i] < s[j]
  BY <1>2, <1>5, NamesSorted
<1> QED
  BY <1>3, <1>4, <1>6 DEF S, names

(* A group has lectures if any of its rows in the institute says so, in    *)
(* whatever order the rows of an institute come (getGroups).               *)
THEOREM LecturesTold == Spec => []LectureIfAny
<1>1. ListInv => LectureIfAny
  <2> SUFFICES ASSUME ListInv, list = "groups",
                      NEW k \in DOMAIN items(TRUE),
                      NEW i \in DOMAIN items(TRUE)[k].groups
               PROVE  LET group == items(TRUE)[k].groups[i]
                      IN  group.hasLecture <=>
                            \E row \in ToSet(rows) :
                              /\ row.idfac = items(TRUE)[k].id
                              /\ row.name = group.name /\ row.lecture
    BY DEF LectureIfAny
  <2>1. GroupsInv
    BY DEF ListInv
  <2> DEFINE f == Keys[k]
  <2>2. /\ f \in IdsOf(rows) /\ items(TRUE)[k].id = f
        /\ items(TRUE)[k].groups = rowsByFaculty[TRUE][f]
    BY <2>1, ItemsListed
  <2> HIDE DEF f
  <2>3. GroupsListed(rowsByFaculty[TRUE][f], RowsOf(f))
    BY <2>1, <2>2 DEF GroupsInv, IdsOf
  <2> DEFINE group == rowsByFaculty[TRUE][f][i]
  <2>4. group.hasLecture <=>
          \E row \in RowsOf(f) : row.name = group.name /\ row.lecture
    BY <2>2, <2>3 DEF GroupsListed
  <2> HIDE DEF group
  <2>5. group.hasLecture <=>
          \E row \in ToSet(rows) :
            row.idfac = f /\ row.name = group.name /\ row.lecture
    BY <2>4 DEF RowsOf
  <2> QED
    BY <2>2, <2>5 DEF group
<1> QED
  BY <1>1, ListHolds, PTL

(* Whichever form is asked for, and so whichever code made it, the client  *)
(* is shown the same institutes and groups (getGroups).                    *)
THEOREM FormsAreOne == Spec => []FormsAgree
<1>1. ListInv => FormsAgree
  <2> SUFFICES ASSUME ListInv, list = "groups" PROVE FormsAgree
    BY DEF FormsAgree
  <2> DEFINE full == items(TRUE)
             short == items(FALSE)
  <2>1. GroupsInv
    BY DEF ListInv
  <2>2. /\ DOMAIN full = DOMAIN Keys /\ DOMAIN short = DOMAIN Keys
        /\ \A k \in DOMAIN Keys :
             /\ Keys[k] \in IdsOf(rows) /\ full[k].id = Keys[k] /\ short[k].id = Keys[k]
             /\ full[k].groups = rowsByFaculty[TRUE][Keys[k]]
             /\ short[k].groups = SortedNames(rowsByFaculty[FALSE][Keys[k]])
    BY <2>1, ItemsListed
  <2> HIDE DEF full, short
  <2>3. ASSUME NEW k \in DOMAIN full
        PROVE  LET names == [i \in DOMAIN full[k].groups |-> full[k].groups[i].name]
                   sorted == short[k].groups
               IN  /\ ToSet(names) = {row.name : row \in {e \in ToSet(rows) :
                                                           e.idfac = full[k].id}}
                   /\ ToSet(sorted) = ToSet(names)
                   /\ \A i, j \in DOMAIN names : i < j => names[i] # names[j]
                   /\ \A i, j \in DOMAIN sorted : i < j => sorted[i] < sorted[j]
    <3> DEFINE f == Keys[k]
               groups == rowsByFaculty[TRUE][f]
               sorted == SortedNames(rowsByFaculty[FALSE][f])
               names == [i \in DOMAIN groups |-> groups[i].name]
               S == {row.name : row \in RowsOf(f)}
    <3>1. /\ f \in IdsOf(rows) /\ full[k].id = f
          /\ full[k].groups = groups /\ short[k].groups = sorted
      BY <2>2
    <3> HIDE DEF f
    <3>2. GroupsListed(groups, RowsOf(f))
      BY <2>1, <3>1 DEF GroupsInv, IdsOf
    <3>3. Enumerates(sorted, S) /\ \A i, j \in DOMAIN sorted : i < j => sorted[i] < sorted[j]
      BY <2>1, <3>1, ShortListed
    <3>4. \A i, j \in DOMAIN groups : groups[i].name = groups[j].name => i = j
      BY <3>2 DEF GroupsListed
    <3>5. groups \in Seq(GroupType)
      BY <3>2 DEF GroupsListed
    <3> HIDE DEF groups, sorted
    <3>6. /\ \A i \in DOMAIN groups : groups[i].name \in S
          /\ \A x \in S : \E i \in DOMAIN groups : groups[i].name = x
      <4>1. \A i \in DOMAIN groups : \E row \in RowsOf(f) : row.name = groups[i].name
        BY <3>2 DEF GroupsListed
      <4>2. \A row \in RowsOf(f) : \E i \in DOMAIN groups : row.name = groups[i].name
        BY <3>2 DEF GroupsListed
      <4> QED
        BY <4>1, <4>2
    <3>7. S = {row.name : row \in {e \in ToSet(rows) : e.idfac = full[k].id}}
      BY <3>1 DEF RowsOf
    <3> HIDE DEF S
    <3>8. ToSet(names) = S
      BY <3>6 DEF ToSet
    <3>9. ToSet(sorted) = S
      BY <3>3 DEF ToSet, Enumerates
    <3>10. \A i, j \in DOMAIN names : i < j => names[i] # names[j]
      <4>1. DOMAIN groups \subseteq Nat
        BY <3>5
      <4> QED
        BY <3>4, <4>1
    <3> QED
      BY <3>1, <3>3, <3>7, <3>8, <3>9, <3>10
  <2>4. [k \in DOMAIN full |-> full[k].id] = [k \in DOMAIN short |-> short[k].id]
    BY <2>2
  <2> QED
    BY <2>3, <2>4 DEF FormsAgree, full, short
<1> QED
  BY <1>1, ListHolds, PTL

-----------------------------------------------------------------------------
(* The counts                                                              *)

Counted(n) == IF n = 0 THEN Null ELSE n

LEMMA NumberIs ==
  ASSUME NEW S, IsFiniteSet(S) PROVE Counted(Cardinality(S)) = Number(S)
<1>1. Cardinality(S) = 0 <=> S = {}
  BY FS_EmptySet
<1> QED
  BY <1>1 DEF Counted, Number

LEMMA InstitutesCounted ==
  ASSUME GroupsInv
  PROVE  getCount("institute") = Number(IdsOf(rows))
<1> DEFINE all == items(FALSE)
           n == Cardinality(IdsOf(rows))
<1>1. IsFiniteSet(IdsOf(rows)) /\ Enumerates(Keys, IdsOf(rows)) /\ DOMAIN all = DOMAIN Keys
  BY ItemsListed
<1>2. getCount("institute") = Counted(Len(all))
  BY DEF getCount, Counted
<1>3. Len(all) = n
  <2>1. DOMAIN Keys = 1..n /\ n \in Nat
    BY <1>1 DEF Enumerates
  <2>2. all = [k \in DOMAIN all |-> all[k]]
    BY DEF items
  <2> HIDE DEF all, n
  <2> QED
    BY <1>1, <2>1, <2>2
<1> QED
  BY <1>1, <1>2, <1>3, NumberIs

NamesPerId == [k \in DOMAIN items(FALSE) |-> items(FALSE)[k].groups]
PairsOf(rs) == {<<row.idfac, row.name>> : row \in ToSet(rs)}

(* What is flattened for the count of groups lists, institute by           *)
(* institute, the names that the rows have there, each once.               *)
LEMMA NamesPerIdListed ==
  ASSUME GroupsInv
  PROVE  /\ NamesPerId \in Seq(Seq(Names))
         /\ DOMAIN NamesPerId = DOMAIN Keys /\ DOMAIN Keys = 1..Len(NamesPerId)
         /\ Enumerates(Keys, IdsOf(rows))
         /\ \A k \in DOMAIN Keys :
              Enumerates(NamesPerId[k], {row.name : row \in RowsOf(Keys[k])})
<1>1. /\ Enumerates(Keys, IdsOf(rows)) /\ DOMAIN items(FALSE) = DOMAIN Keys
      /\ \A k \in DOMAIN Keys :
           /\ Keys[k] \in IdsOf(rows)
           /\ items(FALSE)[k].groups = SortedNames(rowsByFaculty[FALSE][Keys[k]])
  BY ItemsListed
<1>2. ASSUME NEW k \in DOMAIN Keys
      PROVE  /\ NamesPerId[k] \in Seq(Names)
             /\ Enumerates(NamesPerId[k], {row.name : row \in RowsOf(Keys[k])})
  <2> DEFINE S == {row.name : row \in RowsOf(Keys[k])}
  <2>1. NamesPerId[k] = SortedNames(rowsByFaculty[FALSE][Keys[k]])
    BY <1>1 DEF NamesPerId
  <2>2. Enumerates(NamesPerId[k], S) /\ S \in SUBSET Names
    BY <1>1, <2>1, ShortListed
  <2> HIDE DEF S
  <2>3. NamesPerId[k] \in Seq(Names)
    BY <2>2 DEF Enumerates
  <2> QED
    BY <2>2, <2>3 DEF S
<1>3. DOMAIN NamesPerId = DOMAIN Keys /\ NamesPerId = [k \in DOMAIN Keys |-> NamesPerId[k]]
  BY <1>1 DEF NamesPerId
<1>4. DOMAIN Keys = 1..Cardinality(IdsOf(rows)) /\ Cardinality(IdsOf(rows)) \in Nat
  BY <1>1 DEF Enumerates
<1>5. NamesPerId \in [1..Cardinality(IdsOf(rows)) -> Seq(Names)]
  BY <1>2, <1>3, <1>4
<1>6. NamesPerId \in Seq(Seq(Names)) /\ Len(NamesPerId) = Cardinality(IdsOf(rows))
  BY <1>4, <1>5
<1> QED
  BY <1>1, <1>2, <1>3, <1>4, <1>6

LEMMA GroupsCounted ==
  ASSUME GroupsInv
  PROVE  getCount("group") = Number(PairsOf(rows))
<1> DEFINE flat == FlattenSeq(NamesPerId)
           P == PairsOf(rows)
           n == Len(flat)
<1>1. getCount("group") = Counted(n)
  BY DEF getCount, Counted, NamesPerId
<1>2. flat \in Seq(Names)
  BY NamesPerIdListed, Flattened
<1>3. PICK f : Lists(flat, NamesPerId, Len(NamesPerId), f)
  BY NamesPerIdListed, Flattened
<1> HIDE DEF flat
<1>4. n \in Nat
  BY <1>2
<1> HIDE DEF n
<1>5. /\ DOMAIN NamesPerId = DOMAIN Keys /\ DOMAIN Keys = 1..Len(NamesPerId)
      /\ \A k, l \in DOMAIN Keys : Keys[k] = Keys[l] => k = l
      /\ \A e \in IdsOf(rows) : \E k \in DOMAIN Keys : Keys[k] = e
  BY NamesPerIdListed DEF Enumerates
<1>6. ASSUME NEW k \in DOMAIN Keys
      PROVE  /\ \A i \in DOMAIN NamesPerId[k] :
                  \E row \in RowsOf(Keys[k]) : row.name = NamesPerId[k][i]
             /\ \A row \in RowsOf(Keys[k]) :
                  \E i \in DOMAIN NamesPerId[k] : NamesPerId[k][i] = row.name
             /\ \A i, j \in DOMAIN NamesPerId[k] :
                  NamesPerId[k][i] = NamesPerId[k][j] => i = j
  <2> DEFINE S == {row.name : row \in RowsOf(Keys[k])}
  <2>1. Enumerates(NamesPerId[k], S)
    BY NamesPerIdListed
  <2>2. /\ \A i \in DOMAIN NamesPerId[k] : NamesPerId[k][i] \in S
        /\ \A x \in S : \E i \in DOMAIN NamesPerId[k] : NamesPerId[k][i] = x
        /\ \A i, j \in DOMAIN NamesPerId[k] :
             NamesPerId[k][i] = NamesPerId[k][j] => i = j
    <3> HIDE DEF S
    <3> QED
      BY <2>1 DEF Enumerates
  <2> QED
    BY <2>2
<1>7. /\ \A x \in 1..n : /\ f[x] \in Nat \X Nat /\ f[x][1] \in DOMAIN Keys
                         /\ f[x][2] \in DOMAIN NamesPerId[f[x][1]]
                         /\ flat[x] = NamesPerId[f[x][1]][f[x][2]]
      /\ \A x, y \in 1..n : f[x] = f[y] => x = y
      /\ \A k \in DOMAIN Keys : \A i \in DOMAIN NamesPerId[k] :
           \E x \in 1..n : f[x] = <<k, i>>
  BY <1>3, <1>5 DEF Lists, n
<1> DEFINE h == [x \in 1..n |-> <<Keys[f[x][1]], flat[x]>>]
<1>8. ASSUME NEW x \in 1..n PROVE h[x] \in P
  <2>1. PICK row \in RowsOf(Keys[f[x][1]]) : row.name = flat[x]
    BY <1>6, <1>7
  <2>2. row \in ToSet(rows) /\ row.idfac = Keys[f[x][1]]
    BY DEF RowsOf
  <2> QED
    BY <2>1, <2>2 DEF PairsOf
<1>9. ASSUME NEW x \in 1..n, NEW y \in 1..n, h[x] = h[y] PROVE x = y
  <2>1. Keys[f[x][1]] = Keys[f[y][1]] /\ flat[x] = flat[y]
    BY <1>9
  <2>2. f[x][1] = f[y][1]
    BY <1>5, <1>7, <2>1
  <2>3. f[x][2] = f[y][2]
    BY <1>6, <1>7, <2>1, <2>2
  <2>4. f[x] = f[y]
    BY <1>7, <2>2, <2>3
  <2> QED
    BY <1>7, <2>4
<1>10. ASSUME NEW e \in P PROVE \E x \in 1..n : h[x] = e
  <2>1. PICK row \in ToSet(rows) : e = <<row.idfac, row.name>>
    BY DEF PairsOf
  <2>2. row.idfac \in IdsOf(rows)
    BY DEF IdsOf
  <2>3. PICK k \in DOMAIN Keys : Keys[k] = row.idfac
    BY <1>5, <2>2
  <2>4. row \in RowsOf(Keys[k])
    BY <2>3 DEF RowsOf
  <2>5. PICK i \in DOMAIN NamesPerId[k] : NamesPerId[k][i] = row.name
    BY <1>6, <2>4
  <2>6. PICK x \in 1..n : f[x] = <<k, i>>
    BY <1>7, <2>5
  <2>7. flat[x] = row.name /\ Keys[f[x][1]] = row.idfac
    BY <1>7, <2>3, <2>5, <2>6
  <2> QED
    BY <2>1, <2>7
<1>11. h \in [1..n -> P]
  BY <1>8
<1> HIDE DEF h, P
<1>12. h \in Bijection(1..n, P)
  <2>1. h \in Injection(1..n, P)
    BY <1>9, <1>11, Fun_IsInj
  <2>2. h \in Surjection(1..n, P)
    BY <1>10, <1>11, Fun_IsSurj
  <2> QED
    BY <2>1, <2>2 DEF Bijection
<1>13. IsFiniteSet(1..n) /\ Cardinality(1..n) = n
  BY <1>4, FS_Interval
<1>14. ExistsBijection(1..n, P)
  BY <1>12 DEF ExistsBijection
<1>15. IsFiniteSet(P) /\ Cardinality(P) = n
  BY <1>13, <1>14, FS_Bijection
<1> QED
  BY <1>1, <1>15, NumberIs DEF P

LEMMA PersonsCounted ==
  ASSUME PersonsInv
  PROVE  getCount("teachers") = Number(Named)
<1> DEFINE entry(p) == [id |-> p, name |-> PersonName[p]]
           S == {entry(p) : p \in Named}
           h == [p \in Named |-> entry(p)]
<1>1. map = [p \in Named |-> PersonName[p]] /\ IsFiniteSet(Named)
  BY DEF PersonsInv
<1>2. S = {[id |-> p, name |-> map[p]] : p \in DOMAIN map}
  BY <1>1
<1>3. getCount("teachers") = Counted(Len(personItems))
  BY DEF getCount, Counted
<1>4. personItems = Sorted(S, LAMBDA a, b : a.name <= b.name)
  BY <1>2 DEF personItems
<1>5. \A e \in S : e.name \in Nat
  BY ListsAssumption DEF Named
<1>6. h \in Bijection(Named, S)
  <2>1. h \in [Named -> S] /\ \A e \in S : \E p \in Named : h[p] = e
    OBVIOUS
  <2>2. \A p, q \in Named : h[p] = h[q] => p = q
    <3> SUFFICES ASSUME NEW p \in Named, NEW q \in Named, h[p] = h[q] PROVE p = q
      OBVIOUS
    <3>1. h[p].id = p /\ h[q].id = q
      OBVIOUS
    <3> QED
      BY <3>1
  <2> HIDE DEF h, S
  <2>3. h \in Injection(Named, S)
    BY <2>1, <2>2, Fun_IsInj
  <2>4. h \in Surjection(Named, S)
    BY <2>1, Fun_IsSurj
  <2> QED
    BY <2>3, <2>4 DEF Bijection
<1> HIDE DEF h, S
<1>7. IsFiniteSet(S) /\ Cardinality(S) = Cardinality(Named)
  <2>1. ExistsBijection(Named, S)
    BY <1>6 DEF ExistsBijection
  <2> QED
    BY <1>1, <2>1, FS_Bijection
<1>8. Enumerates(personItems, S)
  BY <1>4, <1>5, <1>7, PersonsSorted
<1>9. Len(personItems) = Cardinality(Named)
  BY <1>7, <1>8 DEF Enumerates
<1> QED
  BY <1>1, <1>3, <1>9, NumberIs

(* The numbers of the count page are those of different things in the      *)
(* rows, and nothing to count is null, never 0 (getCount).                 *)
THEOREM CountsTrue == Spec => []CountsAreTrue
<1>1. ListInv => CountsAreTrue
  <2> SUFFICES ASSUME ListInv PROVE CountsAreTrue
    OBVIOUS
  <2>1. CASE list = "groups"
    <3>1. GroupsInv
      BY <2>1 DEF ListInv
    <3> QED
      BY <2>1, <3>1, InstitutesCounted, GroupsCounted
         DEF CountsAreTrue, IdsOf, PairsOf
  <2>2. CASE list # "groups"
    <3>1. PersonsInv
      BY <2>2 DEF ListInv
    <3> QED
      BY <2>2, <3>1, PersonsCounted DEF CountsAreTrue, Named
  <2> QED
    BY <2>1, <2>2
<1> QED
  BY <1>1, ListHolds, PTL
=============================================================================
