--------------------------- MODULE SequenceLemmas ---------------------------
(***************************************************************************)
(* What the proofs about timetables, calendars and lists need to know of   *)
(* sequences: what FlattenSeq lists, and that a finite set can be sorted.  *)
(* FlattenSeq is a recursive function, so that what holds of every length  *)
(* is shown by the least length of which it would not hold.                *)
(***************************************************************************)
EXTENDS Integers, SequencesExt, FiniteSetTheorems, FunctionTheorems, TLAPS

(* A set of numbers that is not empty has a least one.                     *)
LEMMA Least ==
  ASSUME NEW I \in SUBSET Nat, I # {}
  PROVE  \E x \in I : \A y \in I : x <= y
<1> DEFINE Less == {p \in Nat \X Nat : p[1] < p[2]}
<1>1. IsWellFoundedOn(Less, Nat)
  BY NatLessThanWellFounded DEF OpToRel
<1>2. PICK x \in I : \A y \in I : <<y, x>> \notin Less
  <2> HIDE DEF Less
  <2> QED
    BY <1>1, WFMin, Zenon
<1>3. ASSUME NEW y \in I PROVE x <= y
  <2>1. <<y, x>> \in Nat \X Nat /\ <<y, x>> \notin Less /\ x \in Nat /\ y \in Nat
    BY <1>2
  <2>2. ~(y < x)
    BY <2>1
  <2> QED
    BY <2>1, <2>2
<1> QED
  BY <1>3

-----------------------------------------------------------------------------
(* Flattening                                                              *)

(* f tells where the elements of s come from: each of those of the first n *)
(* of seqs is there, and is there once.                                    *)
Lists(s, seqs, n, f) ==
  /\ f \in [1..Len(s) -> Nat \X Nat]
  /\ \A k \in 1..Len(s) :
       /\ f[k][1] \in 1..n /\ f[k][2] \in DOMAIN seqs[f[k][1]]
       /\ s[k] = seqs[f[k][1]][f[k][2]]
  /\ \A k, l \in 1..Len(s) : f[k] = f[l] => k = l
  /\ \A i \in 1..n : \A m \in DOMAIN seqs[i] : \E k \in 1..Len(s) : f[k] = <<i, m>>

(* One more sequence at the end.                                           *)
LEMMA ListsMore ==
  ASSUME NEW S, NEW seqs \in Seq(Seq(S)), NEW n \in Nat, n + 1 <= Len(seqs),
         NEW s \in Seq(S), NEW f, Lists(s, seqs, n, f)
  PROVE  /\ s \o seqs[n + 1] \in Seq(S)
         /\ \E g : Lists(s \o seqs[n + 1], seqs, n + 1, g)
<1> DEFINE t == seqs[n + 1]
           r == s \o t
           g == [k \in 1..Len(r) |->
                   IF k <= Len(s) THEN f[k] ELSE <<n + 1, k - Len(s)>>]
<1>1. t \in Seq(S)
  OBVIOUS
<1> HIDE DEF t
<1>2. /\ r \in Seq(S) /\ Len(r) = Len(s) + Len(t) /\ Len(s) \in Nat /\ Len(t) \in Nat
      /\ \A k \in 1..Len(r) :
           r[k] = IF k <= Len(s) THEN s[k] ELSE t[k - Len(s)]
      /\ DOMAIN t = 1..Len(t)
  BY <1>1
<1> HIDE DEF r
<1>3. ASSUME NEW k \in 1..Len(s)
      PROVE  /\ k \in 1..Len(r) /\ g[k] = f[k] /\ f[k] \in Nat \X Nat
             /\ f[k][1] \in 1..n
  <2>1. k \in 1..Len(r) /\ k <= Len(s)
    BY <1>2
  <2>2. f[k] \in Nat \X Nat /\ f[k][1] \in 1..n
    BY DEF Lists
  <2> QED
    BY <2>1, <2>2
<1>4. \A k \in 1..Len(r) :
        k \in 1..Len(s) \/ (k - Len(s) \in 1..Len(t) /\ g[k] = <<n + 1, k - Len(s)>>
                            /\ ~(k <= Len(s)))
  BY <1>2
<1>5. \A m \in 1..Len(t) :
        m + Len(s) \in 1..Len(r) /\ g[m + Len(s)] = <<n + 1, m>>
  BY <1>2
<1>6. g \in [1..Len(r) -> Nat \X Nat]
  <2>1. ASSUME NEW k \in 1..Len(r) PROVE g[k] \in Nat \X Nat
    <3>1. CASE k \in 1..Len(s)
      BY <1>3, <3>1
    <3>2. CASE k - Len(s) \in 1..Len(t) /\ g[k] = <<n + 1, k - Len(s)>>
      <4>1. n + 1 \in Nat /\ k - Len(s) \in Nat
        BY <3>2
      <4> HIDE DEF g
      <4> QED
        BY <3>2, <4>1
    <3> QED
      BY <1>4, <3>1, <3>2
  <2> QED
    BY <2>1
<1> HIDE DEF g
<1>7. ASSUME NEW k \in 1..Len(r)
      PROVE  /\ g[k][1] \in 1..(n + 1) /\ g[k][2] \in DOMAIN seqs[g[k][1]]
             /\ r[k] = seqs[g[k][1]][g[k][2]]
  <2>1. CASE k \in 1..Len(s)
    <3>1. g[k] = f[k] /\ r[k] = s[k] /\ f[k][1] \in 1..n
      BY <1>2, <1>3, <2>1
    <3>2. f[k][2] \in DOMAIN seqs[f[k][1]] /\ s[k] = seqs[f[k][1]][f[k][2]]
      BY <2>1 DEF Lists
    <3>3. f[k][1] \in 1..(n + 1)
      BY <3>1
    <3> QED
      BY <3>1, <3>2, <3>3
  <2>2. CASE /\ k - Len(s) \in 1..Len(t) /\ g[k] = <<n + 1, k - Len(s)>>
             /\ ~(k <= Len(s))
    <3>1. g[k][1] = n + 1 /\ g[k][2] = k - Len(s) /\ r[k] = t[k - Len(s)]
      BY <1>2, <2>2
    <3>2. k - Len(s) \in DOMAIN t /\ n + 1 \in 1..(n + 1)
      BY <1>2, <2>2
    <3> QED
      BY <3>1, <3>2 DEF t
  <2> QED
    BY <1>4, <2>1, <2>2
<1>8. ASSUME NEW k \in 1..Len(r), NEW l \in 1..Len(r), g[k] = g[l]
      PROVE  k = l
  <2>1. CASE k \in 1..Len(s) /\ l \in 1..Len(s)
    BY <1>3, <1>8, <2>1 DEF Lists
  <2>2. CASE k \notin 1..Len(s) /\ l \notin 1..Len(s)
    <3>1. <<n + 1, k - Len(s)>> = <<n + 1, l - Len(s)>>
      BY <1>4, <1>8, <2>2
    <3> QED
      BY <1>2, <3>1
  <2>3. CASE k \in 1..Len(s) /\ l \notin 1..Len(s)
    <3>1. g[k][1] \in 1..n
      BY <1>3, <2>3
    <3>2. g[l] = <<n + 1, l - Len(s)>>
      BY <1>4, <2>3
    <3>3. g[l][1] = n + 1
      BY <3>2
    <3> QED
      BY <1>8, <3>1, <3>3
  <2>4. CASE k \notin 1..Len(s) /\ l \in 1..Len(s)
    <3>1. g[l][1] \in 1..n
      BY <1>3, <2>4
    <3>2. g[k] = <<n + 1, k - Len(s)>>
      BY <1>4, <2>4
    <3>3. g[k][1] = n + 1
      BY <3>2
    <3> QED
      BY <1>8, <3>1, <3>3
  <2> QED
    BY <2>1, <2>2, <2>3, <2>4
<1>9. ASSUME NEW i \in 1..(n + 1), NEW m \in DOMAIN seqs[i]
      PROVE  \E k \in 1..Len(r) : g[k] = <<i, m>>
  <2>1. CASE i \in 1..n
    <3>1. PICK k \in 1..Len(s) : f[k] = <<i, m>>
      BY <2>1 DEF Lists
    <3> QED
      BY <1>3, <3>1
  <2>2. CASE i = n + 1
    <3>1. m \in 1..Len(t)
      BY <1>2, <2>2 DEF t
    <3> QED
      BY <1>5, <2>2, <3>1
  <2> QED
    BY <2>1, <2>2
<1>10. Lists(r, seqs, n + 1, g)
  BY <1>6, <1>7, <1>8, <1>9 DEF Lists
<1> QED
  BY <1>2, <1>10 DEF r, t

LEMMA ListsNone ==
  ASSUME NEW seqs PROVE \E f : Lists(<< >>, seqs, 0, f)
<1> DEFINE f == [k \in 1..0 |-> <<0, 0>>]
<1>1. Len(<< >>) = 0 /\ 1..0 = {}
  OBVIOUS
<1>2. Lists(<< >>, seqs, 0, f)
  BY <1>1 DEF Lists
<1> QED
  BY <1>2

(* The function that FlattenSeq is defined with is there.                  *)
Flattens(seqs, n, g) ==
  g = [i \in 1..n |-> IF i = 1 THEN seqs[i] ELSE g[i - 1] \o seqs[i]]

LEMMA FlattenExists ==
  ASSUME NEW seqs, NEW n \in Nat
  PROVE  \E g : Flattens(seqs, n, g)
<1> DEFINE Bad == {m \in Nat : ~\E g : Flattens(seqs, m, g)}
<1> SUFFICES ASSUME Bad # {} PROVE FALSE
  OBVIOUS
<1>1. PICK b \in Bad : \A m \in Bad : b <= m
  <2>1. Bad \in SUBSET Nat
    OBVIOUS
  <2> HIDE DEF Bad
  <2> QED
    BY <2>1, Least
<1>2. b \in Nat /\ ~\E g : Flattens(seqs, b, g)
  OBVIOUS
<1>3. CASE b = 0
  <2> DEFINE g == [i \in 1..0 |-> 0]
  <2>1. 1..0 = {}
    OBVIOUS
  <2>2. Flattens(seqs, 0, g)
    BY <2>1 DEF Flattens
  <2> QED
    BY <1>2, <1>3, <2>2
<1>4. CASE b # 0
  <2> DEFINE a == b - 1
  <2>1. a \in Nat /\ a < b /\ b = a + 1
    BY <1>2, <1>4
  <2>2. a \notin Bad
    BY <1>1, <1>2, <2>1
  <2>3. PICK h : Flattens(seqs, a, h)
    BY <2>1, <2>2
  <2> HIDE DEF a
  <2> DEFINE g == [i \in 1..b |->
                     IF i = 1 THEN seqs[i]
                     ELSE IF i = b THEN h[a] \o seqs[b] ELSE h[i]]
  <2>4. \A i \in 1..a : h[i] = IF i = 1 THEN seqs[i] ELSE h[i - 1] \o seqs[i]
    BY <2>3 DEF Flattens
  <2>5. \A i \in 1..a : i \in 1..b /\ g[i] = h[i]
    BY <2>1, <2>4
  <2>6. ASSUME NEW i \in 1..b
        PROVE  g[i] = IF i = 1 THEN seqs[i] ELSE g[i - 1] \o seqs[i]
    <3>1. CASE i = 1
      BY <3>1
    <3>2. CASE i # 1 /\ i = b
      <4>1. i - 1 \in 1..a /\ i - 1 = a
        BY <2>1, <3>2
      <4> QED
        BY <2>5, <3>2, <4>1
    <3>3. CASE i # 1 /\ i # b
      <4>1. i \in 1..a /\ i - 1 \in 1..a
        BY <2>1, <3>3
      <4> QED
        BY <2>4, <2>5, <3>3, <4>1
    <3> QED
      BY <3>1, <3>2, <3>3
  <2>7. g = [i \in 1..b |-> g[i]]
    OBVIOUS
  <2> HIDE DEF g
  <2>8. Flattens(seqs, b, g)
    BY <2>6, <2>7 DEF Flattens
  <2> QED
    BY <1>2, <2>8
<1> QED
  BY <1>3, <1>4

(* FlattenSeq lists all elements of all sequences, each once.              *)
LEMMA Flattened ==
  ASSUME NEW S, NEW seqs \in Seq(Seq(S))
  PROVE  /\ FlattenSeq(seqs) \in Seq(S)
         /\ \E f : Lists(FlattenSeq(seqs), seqs, Len(seqs), f)
<1> DEFINE n == Len(seqs)
           g == CHOOSE h : Flattens(seqs, n, h)
<1>1. n \in Nat
  OBVIOUS
<1>2. CASE n = 0
  <2>1. FlattenSeq(seqs) = << >>
    BY <1>2 DEF FlattenSeq
  <2> QED
    BY <1>2, <2>1, ListsNone
<1>3. CASE n # 0
  <2>1. FlattenSeq(seqs) = g[n]
    BY <1>3 DEF FlattenSeq, Flattens
  <2>2. Flattens(seqs, n, g)
    BY <1>1, FlattenExists
  <2> HIDE DEF g
  <2>3. \A i \in 1..n : g[i] = IF i = 1 THEN seqs[i] ELSE g[i - 1] \o seqs[i]
    BY <2>2 DEF Flattens
  <2> DEFINE Bad == {i \in 1..n : ~(g[i] \in Seq(S) /\ \E f : Lists(g[i], seqs, i, f))}
  <2>4. Bad = {}
    <3> SUFFICES ASSUME Bad # {} PROVE FALSE
      OBVIOUS
    <3>1. PICK b \in Bad : \A m \in Bad : b <= m
      <4>1. Bad \in SUBSET Nat
        OBVIOUS
      <4> HIDE DEF Bad
      <4> QED
        BY <4>1, Least
    <3>2. b \in 1..n /\ ~(g[b] \in Seq(S) /\ \E f : Lists(g[b], seqs, b, f))
      OBVIOUS
    <3>3. CASE b = 1
      <4>1. g[b] = << >> \o seqs[0 + 1]
        <5>1. seqs[1] \in Seq(S)
          BY <1>1, <3>2, <3>3
        <5>2. g[b] = seqs[1]
          BY <2>3, <3>2, <3>3
        <5> QED
          BY <5>1, <5>2
      <4>2. << >> \in Seq(S) /\ 0 \in Nat /\ 0 + 1 <= Len(seqs)
        BY <1>1, <3>2, <3>3
      <4>3. PICK f : Lists(<< >>, seqs, 0, f)
        BY ListsNone
      <4>4. /\ << >> \o seqs[0 + 1] \in Seq(S)
            /\ \E h : Lists(<< >> \o seqs[0 + 1], seqs, 0 + 1, h)
        BY <4>2, <4>3, ListsMore
      <4>5. 0 + 1 = b
        BY <3>3
      <4> QED
        BY <3>2, <4>1, <4>4, <4>5
    <3>4. CASE b # 1
      <4> DEFINE a == b - 1
      <4>1. a \in 1..n /\ a \in Nat /\ a < b /\ a + 1 = b /\ a + 1 <= Len(seqs)
        BY <1>1, <3>2, <3>4
      <4>2. a \notin Bad
        <5> HIDE DEF a, Bad
        <5>1. a \in Bad => b <= a
          BY <3>1
        <5> QED
          BY <3>2, <4>1, <5>1
      <4>3. g[a] \in Seq(S) /\ \E f : Lists(g[a], seqs, a, f)
        BY <4>1, <4>2
      <4>4. g[b] = g[a] \o seqs[a + 1]
        BY <2>3, <3>2, <3>4, <4>1
      <4> HIDE DEF a
      <4>5. /\ g[a] \o seqs[a + 1] \in Seq(S)
            /\ \E h : Lists(g[a] \o seqs[a + 1], seqs, a + 1, h)
        BY <4>1, <4>3, ListsMore
      <4> QED
        BY <3>2, <4>1, <4>4, <4>5
    <3> QED
      BY <3>3, <3>4
  <2>5. n \in 1..n /\ n \notin Bad
    BY <1>1, <1>3, <2>4
  <2> QED
    BY <2>1, <2>5
<1> QED
  BY <1>2, <1>3

-----------------------------------------------------------------------------
(* Sorting                                                                 *)

(* R is a total order of S, in which different elements may be equal.      *)
Ordered(S, R) ==
  /\ \A a, b \in S : <<a, b>> \in R \/ <<b, a>> \in R
  /\ \A a, b, c \in S : <<a, b>> \in R /\ <<b, c>> \in R => <<a, c>> \in R

Sorts(s, S, R) ==
  /\ s \in [1..Cardinality(S) -> S]
  /\ \A i, j \in 1..Cardinality(S) : i < j => s[i] # s[j] /\ <<s[i], s[j]>> \in R

(* A finite set can be sorted: an element comes at the place after those   *)
(* before it, and of equals the one with the smaller number g comes first. *)
LEMMA CanBeSorted ==
  ASSUME NEW S, IsFiniteSet(S), NEW R, Ordered(S, R)
  PROVE  \E s : Sorts(s, S, R)
<1> DEFINE n == Cardinality(S)
<1>1. n \in Nat /\ ExistsBijection(1..n, S)
  BY FS_CardinalityType
<1> HIDE DEF n
<1>2. PICK g : /\ g \in [S -> 1..n]
               /\ \A a, b \in S : g[a] = g[b] => a = b
  <2>1. ExistsBijection(S, 1..n)
    BY <1>1, Fun_ExistsBijSymmetric
  <2>2. PICK g : g \in Bijection(S, 1..n)
    BY <2>1 DEF ExistsBijection
  <2> QED
    BY <2>2 DEF Bijection, Injection, IsInjective
<1> DEFINE before(b, a) == <<b, a>> \in R /\ (<<a, b>> \in R => g[b] < g[a])
           low(a) == {b \in S : before(b, a)}
           f == [a \in S |-> Cardinality(low(a)) + 1]
<1>3. ASSUME NEW a \in S, NEW b \in S, a # b PROVE before(a, b) \/ before(b, a)
  <2>1. g[a] \in Nat /\ g[b] \in Nat /\ g[a] # g[b]
    BY <1>2, <1>3
  <2>2. g[a] < g[b] \/ g[b] < g[a]
    BY <2>1
  <2> QED
    BY <2>2 DEF Ordered
<1>4. ASSUME NEW a \in S, NEW b \in S, NEW c \in S, before(a, b), before(b, c)
      PROVE  before(a, c)
  <2>1. g[a] \in Nat /\ g[b] \in Nat /\ g[c] \in Nat
    BY <1>2
  <2>2. <<a, c>> \in R
    BY <1>4 DEF Ordered
  <2>3. ASSUME <<c, a>> \in R PROVE g[a] < g[c]
    <3>1. <<b, a>> \in R /\ <<c, b>> \in R
      BY <1>4, <2>3 DEF Ordered
    <3>2. g[a] < g[b] /\ g[b] < g[c]
      BY <1>4, <3>1
    <3> QED
      BY <2>1, <3>2
  <2> QED
    BY <2>2, <2>3
<1>5. ASSUME NEW a \in S PROVE ~before(a, a)
  BY <1>2
<1> HIDE DEF before
<1>6. ASSUME NEW a \in S
      PROVE  /\ IsFiniteSet(low(a)) /\ Cardinality(low(a)) \in Nat /\ a \notin low(a)
             /\ low(a) \in SUBSET S
  <2>1. low(a) \in SUBSET S /\ a \notin low(a)
    BY <1>5
  <2> HIDE DEF low
  <2> QED
    BY <2>1, FS_Subset, FS_CardinalityType
<1>7. ASSUME NEW a \in S, NEW b \in S, before(b, a) PROVE f[b] < f[a]
  <2>1. low(b) \cup {b} \in SUBSET low(a)
    BY <1>4, <1>7
  <2> HIDE DEF low
  <2>2. Cardinality(low(b) \cup {b}) = Cardinality(low(b)) + 1
    BY <1>6, FS_AddElement
  <2>3. Cardinality(low(b) \cup {b}) <= Cardinality(low(a))
    BY <1>6, <2>1, FS_Subset
  <2>4. Cardinality(low(b)) \in Nat /\ Cardinality(low(a)) \in Nat
    BY <1>6
  <2> QED
    BY <2>2, <2>3, <2>4
<1>8. ASSUME NEW a \in S PROVE f[a] \in 1..n
  <2>1. low(a) \in SUBSET (S \ {a})
    BY <1>6
  <2> HIDE DEF low
  <2>2. IsFiniteSet(S \ {a}) /\ Cardinality(S \ {a}) = n - 1
    BY FS_RemoveElement DEF n
  <2>3. Cardinality(low(a)) <= n - 1
    BY <2>1, <2>2, FS_Subset
  <2>4. Cardinality(low(a)) \in Nat
    BY <1>6
  <2> QED
    BY <1>1, <2>3, <2>4
<1>9. f \in [S -> 1..n]
  BY <1>8
<1> HIDE DEF f, low
<1>10. ASSUME NEW a \in S, NEW b \in S, f[a] = f[b] PROVE a = b
  <2>1. f[a] \in Nat /\ f[b] \in Nat /\ ~(f[a] < f[b]) /\ ~(f[b] < f[a])
    BY <1>8, <1>10
  <2> QED
    BY <1>3, <1>7, <2>1
<1>11. f \in Injection(S, 1..n)
  BY <1>9, <1>10, Fun_IsInj
<1>12. IsFiniteSet(1..n) /\ Cardinality(1..n) = n
  BY <1>1, FS_Interval
<1>13. \A k \in 1..n : \E a \in S : f[a] = k
  <2>1. f \in Surjection(S, 1..n)
    BY <1>11, <1>12, FS_Injection DEF n
  <2> QED
    BY <2>1, Fun_SurjectionProperties
<1> DEFINE s == [k \in 1..n |-> CHOOSE a \in S : f[a] = k]
<1>14. \A k \in 1..n : s[k] \in S /\ f[s[k]] = k
  BY <1>13
<1>15. s \in [1..n -> S]
  BY <1>14
<1> HIDE DEF s
<1>16. ASSUME NEW i \in 1..n, NEW j \in 1..n, i < j
       PROVE  s[i] # s[j] /\ <<s[i], s[j]>> \in R
  <2>1. s[i] # s[j]
    BY <1>14, <1>16
  <2>2. ~before(s[j], s[i])
    <3>1. before(s[j], s[i]) => j < i
      BY <1>7, <1>14
    <3> QED
      BY <1>16, <3>1
  <2>3. before(s[i], s[j])
    BY <1>3, <1>14, <2>1, <2>2
  <2> QED
    BY <2>1, <2>3 DEF before
<1> QED
  BY <1>15, <1>16 DEF Sorts, n

(* It is then a list of the elements of the set, each once.                *)
Enumerates(s, S) ==
  /\ s \in Seq(S) /\ Len(s) = Cardinality(S) /\ Cardinality(S) \in Nat
  /\ \A i, j \in DOMAIN s : s[i] = s[j] => i = j
  /\ \A x \in S : \E i \in DOMAIN s : s[i] = x

LEMMA SortedList ==
  ASSUME NEW S, IsFiniteSet(S), NEW R, NEW s, Sorts(s, S, R)
  PROVE  Enumerates(s, S)
<1> DEFINE n == Cardinality(S)
<1>1. n \in Nat
  BY FS_CardinalityType
<1>2. s \in [1..n -> S] /\ \A i, j \in 1..n : i < j => s[i] # s[j]
  BY DEF Sorts
<1> HIDE DEF n
<1>3. ASSUME NEW i \in 1..n, NEW j \in 1..n, s[i] = s[j] PROVE i = j
  <2>1. ~(i < j) /\ ~(j < i)
    BY <1>2, <1>3
  <2> QED
    BY <1>1, <2>1
<1>4. s \in Injection(1..n, S)
  BY <1>2, <1>3, Fun_IsInj
<1>5. IsFiniteSet(1..n) /\ Cardinality(1..n) = n
  BY <1>1, FS_Interval
<1>6. s \in Surjection(1..n, S)
  BY <1>4, <1>5, FS_Injection DEF n
<1>7. \A x \in S : \E i \in 1..n : s[i] = x
  BY <1>6 DEF Surjection
<1>8. s \in Seq(S) /\ Len(s) = n /\ DOMAIN s = 1..n
  BY <1>1, <1>2
<1> QED
  BY <1>1, <1>3, <1>7, <1>8 DEF Enumerates, n

(* The elements of a sequence are finitely many.                           *)
LEMMA ListFinite ==
  ASSUME NEW S, NEW s \in Seq(S) PROVE IsFiniteSet(ToSet(s))
<1>1. s \in Surjection(1..Len(s), ToSet(s))
  <2>1. s \in [1..Len(s) -> ToSet(s)]
    BY DEF ToSet
  <2>2. \A x \in ToSet(s) : \E i \in 1..Len(s) : s[i] = x
    BY DEF ToSet
  <2> QED
    BY <2>1, <2>2, Fun_IsSurj
<1>2. IsFiniteSet(1..Len(s))
  <2>1. Len(s) \in Nat
    OBVIOUS
  <2> QED
    BY <2>1, FS_Interval
<1> QED
  BY <1>1, <1>2, FS_Surjection

(* One more element at the end.                                            *)
LEMMA OneAppended ==
  ASSUME NEW S, NEW s \in Seq(S), NEW e \in S
  PROVE  /\ Append(s, e) \in Seq(S) /\ ToSet(Append(s, e)) = ToSet(s) \cup {e}
         /\ DOMAIN Append(s, e) = DOMAIN s \cup {Len(s) + 1}
         /\ Len(s) + 1 \notin DOMAIN s /\ Append(s, e)[Len(s) + 1] = e
         /\ \A i \in DOMAIN s : Append(s, e)[i] = s[i]
<1> DEFINE t == Append(s, e)
           n == Len(s) + 1
<1>1. /\ t \in Seq(S) /\ DOMAIN t = DOMAIN s \cup {n} /\ n \notin DOMAIN s
      /\ t[n] = e /\ \A i \in DOMAIN s : t[i] = s[i]
  OBVIOUS
<1> HIDE DEF t, n
<1>2. ToSet(t) = ToSet(s) \cup {e}
  BY <1>1 DEF ToSet
<1> QED
  BY <1>1, <1>2 DEF t, n
=============================================================================
