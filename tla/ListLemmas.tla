----------------------------- MODULE ListLemmas -----------------------------
(* Induction over numbers and lists, and what Pruned does to a list. *)
EXTENDS Pruning, SequencesExt, SequenceTheorems, WellFoundedInduction, TLAPS

\* A set of numbers that is not empty has a least one.
LEMMA Least ==
    ASSUME NEW T, T \subseteq Nat, T # {}
    PROVE  \E x \in T : \A y \in T : x <= y
<1>1. IsWellFoundedOn(OpToRel(<, Nat), Nat)
  BY NatLessThanWellFounded
<1>2. PICK x \in T : \A y \in T : <<y, x>> \notin OpToRel(<, Nat)
  BY <1>1, WFMin
<1>3. \A y \in T : ~(y < x)
  BY <1>2 DEF OpToRel
<1> QED
  BY <1>3

\* A set of numbers up to n that is not empty has a greatest one.
LEMMA Greatest ==
    ASSUME NEW n \in Nat, NEW T, T \subseteq 0..n, T # {}
    PROVE  \E x \in T : \A y \in T : x >= y
<1> DEFINE U == {n - x : x \in T}
<1>1. U \subseteq Nat /\ U # {}
  <2>1. \A x \in T : n - x \in Nat
    OBVIOUS
  <2> QED
    BY <2>1
<1>2. PICK u \in U : \A v \in U : u <= v
  BY <1>1, Least
<1>3. PICK x \in T : u = n - x
  BY <1>2
<1>4. \A y \in T : n - y \in U
  OBVIOUS
<1>5. \A y \in T : n - x <= n - y
  BY <1>2, <1>3, <1>4
<1> QED
  BY <1>5

\* Induction: a set that has 0 and, with each number, the next has them all.
LEMMA NumberInduction ==
    ASSUME NEW T, 0 \in T, \A n \in Nat : n \in T => n + 1 \in T
    PROVE  Nat \subseteq T
<1> SUFFICES ASSUME Nat \ T # {} PROVE FALSE
  OBVIOUS
<1>1. PICK x \in Nat \ T : \A y \in Nat \ T : x <= y
  BY Least
<1>2. x - 1 \in Nat /\ x - 1 \in T
  BY <1>1
<1> QED
  BY <1>1, <1>2

\* Induction: the same of lists, the empty one and with each list those that
\* have one entry more.
LEMMA ListInduction ==
    ASSUME NEW S, NEW T, <<>> \in T,
           \A s \in Seq(S), x \in S : s \in T => Append(s, x) \in T
    PROVE  Seq(S) \subseteq T
<1> DEFINE N == {n \in Nat : \A s \in Seq(S) : Len(s) = n => s \in T}
<1>1. 0 \in N
  BY EmptySeq
<1>2. ASSUME NEW n \in Nat, n \in N PROVE n + 1 \in N
  <2> SUFFICES ASSUME NEW s \in Seq(S), Len(s) = n + 1 PROVE s \in T
    OBVIOUS
  <2>1. s # <<>>
    OBVIOUS
  <2>2. PICK t \in Seq(S), x \in S : s = Append(t, x)
    BY <2>1, SequenceEmptyOrAppend
  <2>3. Len(t) = n
    BY <2>2, AppendProperties
  <2> QED
    BY <1>2, <2>2, <2>3
<1> HIDE DEF N
<1>3. Nat \subseteq N
  BY <1>1, <1>2, NumberInduction
<1> QED
  BY <1>3, LenProperties DEF N

-----------------------------------------------------------------------------
(* Pruned lists *)

\* One step of Pruned, on what it has kept so far.
Kept1(kept, list, drop, i) ==
    IF i = 0 THEN <<>>
    ELSE IF list[i] \in drop THEN kept[i - 1] ELSE Append(kept[i - 1], list[i])

IsKept(kept, list, drop, n) == kept = [i \in 0..n |-> Kept1(kept, list, drop, i)]

\* The function by which Pruned is defined exists.
LEMMA KeptExists ==
    ASSUME NEW list, NEW drop
    PROVE  \A n \in Nat : \E kept : IsKept(kept, list, drop, n)
<1> DEFINE N == {n \in Nat : \E kept : IsKept(kept, list, drop, n)}
<1>1. 0 \in N
  <2>1. IsKept([i \in 0..0 |-> <<>>], list, drop, 0)
    BY DEF IsKept, Kept1
  <2> QED
    BY <2>1
<1>2. ASSUME NEW n \in Nat, n \in N PROVE n + 1 \in N
  <2>1. PICK kept : IsKept(kept, list, drop, n)
    BY <1>2
  <2> DEFINE more == [i \in 0..(n + 1) |-> IF i <= n THEN kept[i] ELSE Kept1(kept, list, drop, i)]
  <2>2. \A i \in 0..n : kept[i] = Kept1(kept, list, drop, i)
    BY <2>1 DEF IsKept
  <2>3. \A i \in 0..(n + 1) : Kept1(more, list, drop, i) = Kept1(kept, list, drop, i)
    BY DEF Kept1
  <2>4. IsKept(more, list, drop, n + 1)
    BY <2>2, <2>3 DEF IsKept
  <2> QED
    BY <2>4
<1> HIDE DEF N
<1>3. Nat \subseteq N
  BY <1>1, <1>2, NumberInduction
<1> QED
  BY <1>3 DEF N

\* Such a function at one place, by its step.
LEMMA KeptAt ==
    ASSUME NEW list, NEW drop, NEW n \in Nat, NEW kept, IsKept(kept, list, drop, n),
           NEW i \in 0..n
    PROVE  kept[i] = Kept1(kept, list, drop, i)
<1> DEFINE F == [j \in 0..n |-> Kept1(kept, list, drop, j)]
<1>1. F[i] = Kept1(kept, list, drop, i)
  OBVIOUS
<1>2. kept = F
  BY DEF IsKept
<1> HIDE DEF F
<1> QED
  BY <1>1, <1>2

\* Two lists agree up to place m.
SameTo(s, t, m) == \A i \in 1..m : s[i] = t[i]

\* Two such functions agree as far as the lists do.
LEMMA KeptUnique ==
    ASSUME NEW s, NEW t, NEW drop, NEW m \in Nat, NEW n \in Nat, m <= n,
           SameTo(s, t, m),
           NEW a, IsKept(a, s, drop, m), NEW b, IsKept(b, t, drop, n)
    PROVE  a[m] = b[m]
<1> DEFINE N == {i \in Nat : i <= m => a[i] = b[i]}
<1>1. \A i \in 0..m : a[i] = Kept1(a, s, drop, i) /\ b[i] = Kept1(b, t, drop, i)
  <2>1. \A i \in 0..m : i \in 0..n
    OBVIOUS
  <2> QED
    BY <2>1, KeptAt
<1>2. 0 \in N
  BY <1>1 DEF Kept1
<1>3. ASSUME NEW i \in Nat, i \in N PROVE i + 1 \in N
  BY <1>1, <1>3 DEF Kept1, SameTo
<1> HIDE DEF N
<1>4. Nat \subseteq N
  BY <1>2, <1>3, NumberInduction
<1> QED
  BY <1>4 DEF N

\* Pruned by its function.
LEMMA PrunedIs ==
    ASSUME NEW list, Len(list) \in Nat, NEW drop
    PROVE  \E kept : IsKept(kept, list, drop, Len(list)) /\ Pruned(list, drop) = kept[Len(list)]
<1> DEFINE kept == CHOOSE kept : IsKept(kept, list, drop, Len(list))
<1>1. IsKept(kept, list, drop, Len(list))
  BY KeptExists
<1>2. Pruned(list, drop) = kept[Len(list)]
  BY DEF Pruned, IsKept, Kept1
<1> QED
  BY <1>1, <1>2

\* Nothing is left of an empty list.
LEMMA PrunedEmpty ==
    ASSUME NEW drop
    PROVE  Pruned(<<>>, drop) = <<>>
<1>1. PICK kept : IsKept(kept, <<>>, drop, 0) /\ Pruned(<<>>, drop) = kept[0]
  BY PrunedIs
<1> QED
  BY <1>1 DEF IsKept, Kept1

\* One more entry goes to the end, unless it is dropped.
LEMMA PrunedAppend ==
    ASSUME NEW S, NEW s \in Seq(S), NEW x \in S, NEW drop
    PROVE  Pruned(Append(s, x), drop) =
             IF x \in drop THEN Pruned(s, drop) ELSE Append(Pruned(s, drop), x)
<1> DEFINE t == Append(s, x)
           n == Len(s)
<1>1. n \in Nat /\ t \in Seq(S) /\ Len(t) = n + 1 /\ t[n + 1] = x /\ \A i \in 1..n : s[i] = t[i]
  BY AppendProperties, LenProperties
<1> HIDE DEF t
<1>2. PICK a : IsKept(a, s, drop, n) /\ Pruned(s, drop) = a[n]
  BY <1>1, PrunedIs
<1>3. PICK b : IsKept(b, t, drop, n + 1) /\ Pruned(t, drop) = b[n + 1]
  BY <1>1, PrunedIs
<1>4. a[n] = b[n]
  <2>1. n \in Nat /\ n + 1 \in Nat /\ n <= n + 1
    BY <1>1
  <2>2. SameTo(s, t, n)
    BY <1>1 DEF SameTo
  <2>3. IsKept(a, s, drop, n) /\ IsKept(b, t, drop, n + 1)
    BY <1>2, <1>3
  <2> HIDE DEF n
  <2> QED
    BY <2>1, <2>2, <2>3, KeptUnique
<1>5. b[n + 1] = Kept1(b, t, drop, n + 1)
  BY <1>1, <1>3, KeptAt
<1>6. b[n + 1] = IF x \in drop THEN b[n] ELSE Append(b[n], x)
  BY <1>1, <1>5 DEF Kept1
<1> QED
  BY <1>2, <1>3, <1>4, <1>6 DEF t

\* What is left is a list of the same kind, of the entries that are not dropped.
LEMMA PrunedType ==
    ASSUME NEW S, NEW list \in Seq(S), NEW drop
    PROVE  Pruned(list, drop) \in Seq(S)
<1> DEFINE T == {s \in Seq(S) : Pruned(s, drop) \in Seq(S)}
<1>1. <<>> \in T
  BY PrunedEmpty, EmptySeq
<1>2. ASSUME NEW s \in Seq(S), NEW x \in S, s \in T PROVE Append(s, x) \in T
  <2>1. Pruned(s, drop) \in Seq(S) /\ Append(Pruned(s, drop), x) \in Seq(S)
    BY <1>2, AppendProperties
  <2>2. Pruned(Append(s, x), drop) \in {Pruned(s, drop), Append(Pruned(s, drop), x)}
    BY PrunedAppend
  <2> QED
    BY <2>1, <2>2, AppendProperties
<1> HIDE DEF T
<1>3. Seq(S) \subseteq T
  BY <1>1, <1>2, ListInduction
<1> QED
  BY <1>3 DEF T

\* Entry e is in the list, as Contains has it, of a list with one more entry.
LEMMA ContainsAppend ==
    ASSUME NEW S, NEW s \in Seq(S), NEW x \in S, NEW e
    PROVE  Contains(Append(s, x), e) <=> Contains(s, e) \/ x = e
<1>1. Append(s, x) \in Seq(S) /\ Len(Append(s, x)) = Len(s) + 1 /\ Append(s, x)[Len(s) + 1] = x
      /\ \A i \in 1..Len(s) : Append(s, x)[i] = s[i]
  BY AppendProperties
<1>2. Len(s) \in Nat
  OBVIOUS
<1> HIDE <1>2
<1> QED
  BY <1>1, <1>2 DEF Contains

\* What is left has the entries there were, without the dropped ones.
LEMMA PrunedContains ==
    ASSUME NEW S, NEW list \in Seq(S), NEW drop, NEW e
    PROVE  Contains(Pruned(list, drop), e) <=> Contains(list, e) /\ e \notin drop
<1> DEFINE T == {s \in Seq(S) : Contains(Pruned(s, drop), e) <=> Contains(s, e) /\ e \notin drop}
<1>1. <<>> \in T
  BY PrunedEmpty, EmptySeq DEF Contains
<1>2. ASSUME NEW s \in Seq(S), NEW x \in S, s \in T PROVE Append(s, x) \in T
  <2>1. Append(s, x) \in Seq(S) /\ Pruned(s, drop) \in Seq(S)
    BY AppendProperties, PrunedType
  <2>2. Contains(Append(s, x), e) <=> Contains(s, e) \/ x = e
    BY ContainsAppend
  <2>3. Contains(Append(Pruned(s, drop), x), e) <=> Contains(Pruned(s, drop), e) \/ x = e
    BY <2>1, ContainsAppend
  <2>4. CASE x \in drop
    <3>1. Pruned(Append(s, x), drop) = Pruned(s, drop)
      BY <2>4, PrunedAppend
    <3> QED
      BY <1>2, <2>1, <2>2, <2>4, <3>1
  <2>5. CASE x \notin drop
    <3>1. Pruned(Append(s, x), drop) = Append(Pruned(s, drop), x)
      BY <2>5, PrunedAppend
    <3> QED
      BY <1>2, <2>1, <2>2, <2>3, <2>5, <3>1
  <2> QED
    BY <2>4, <2>5
<1> HIDE DEF T
<1>3. Seq(S) \subseteq T
  BY <1>1, <1>2, ListInduction
<1> QED
  BY <1>3 DEF T

\* A list without such entries stays as it is.
LEMMA PrunedSame ==
    ASSUME NEW S, NEW list \in Seq(S), NEW drop, \A e \in drop : ~Contains(list, e)
    PROVE  Pruned(list, drop) = list
<1> DEFINE T == {s \in Seq(S) : (\A e \in drop : ~Contains(s, e)) => Pruned(s, drop) = s}
<1>1. <<>> \in T
  BY PrunedEmpty, EmptySeq
<1>2. ASSUME NEW s \in Seq(S), NEW x \in S, s \in T PROVE Append(s, x) \in T
  BY <1>2, ContainsAppend, PrunedAppend, AppendProperties
<1> HIDE DEF T
<1>3. Seq(S) \subseteq T
  BY <1>1, <1>2, ListInduction
<1> QED
  BY <1>3 DEF T

-----------------------------------------------------------------------------
(* Lists of lists *)

\* One step of FlattenSeq, on what it has put together so far.
Joined1(joined, lists, i) == IF i = 1 THEN lists[i] ELSE joined[i - 1] \o lists[i]

IsJoined(joined, lists, n) == joined = [i \in 1..n |-> Joined1(joined, lists, i)]

\* The function by which FlattenSeq is defined exists.
LEMMA JoinedExists ==
    ASSUME NEW lists
    PROVE  \A n \in Nat : \E joined : IsJoined(joined, lists, n)
<1> DEFINE N == {n \in Nat : \E joined : IsJoined(joined, lists, n)}
<1>1. 0 \in N
  <2>1. IsJoined([i \in 1..0 |-> <<>>], lists, 0)
    BY DEF IsJoined, Joined1
  <2> QED
    BY <2>1
<1>2. ASSUME NEW n \in Nat, n \in N PROVE n + 1 \in N
  <2>1. PICK joined : IsJoined(joined, lists, n)
    BY <1>2
  <2> DEFINE more == [i \in 1..(n + 1) |-> IF i <= n THEN joined[i] ELSE Joined1(joined, lists, i)]
  <2>2. \A i \in 1..n : joined[i] = Joined1(joined, lists, i)
    BY <2>1 DEF IsJoined
  <2>3. \A i \in 1..(n + 1) : Joined1(more, lists, i) = Joined1(joined, lists, i)
    BY DEF Joined1
  <2>4. IsJoined(more, lists, n + 1)
    BY <2>2, <2>3 DEF IsJoined
  <2> QED
    BY <2>4
<1> HIDE DEF N
<1>3. Nat \subseteq N
  BY <1>1, <1>2, NumberInduction
<1> QED
  BY <1>3 DEF N

\* Such a function at one place, by its step.
LEMMA JoinedAt ==
    ASSUME NEW lists, NEW n \in Nat, NEW joined, IsJoined(joined, lists, n), NEW i \in 1..n
    PROVE  joined[i] = Joined1(joined, lists, i)
<1> DEFINE F == [j \in 1..n |-> Joined1(joined, lists, j)]
<1>1. F[i] = Joined1(joined, lists, i)
  OBVIOUS
<1>2. joined = F
  BY DEF IsJoined
<1> HIDE DEF F
<1> QED
  BY <1>1, <1>2

\* Two such functions agree as far as the lists do.
LEMMA JoinedUnique ==
    ASSUME NEW s, NEW t, NEW m \in Nat, NEW n \in Nat, m <= n, m >= 1,
           SameTo(s, t, m),
           NEW a, IsJoined(a, s, m), NEW b, IsJoined(b, t, n)
    PROVE  a[m] = b[m]
<1> DEFINE N == {i \in Nat : 1 <= i /\ i <= m => a[i] = b[i]}
<1>1. \A i \in 1..m : a[i] = Joined1(a, s, i) /\ b[i] = Joined1(b, t, i)
  <2>1. \A i \in 1..m : i \in 1..n
    OBVIOUS
  <2> QED
    BY <2>1, JoinedAt
<1>2. 0 \in N
  OBVIOUS
<1>3. ASSUME NEW i \in Nat, i \in N PROVE i + 1 \in N
  BY <1>1, <1>3 DEF Joined1, SameTo
<1> HIDE DEF N
<1>4. Nat \subseteq N
  BY <1>2, <1>3, NumberInduction
<1> QED
  BY <1>4 DEF N

\* FlattenSeq by its function.
LEMMA FlattenIs ==
    ASSUME NEW lists, Len(lists) \in Nat, Len(lists) # 0
    PROVE  \E joined : /\ IsJoined(joined, lists, Len(lists))
                       /\ FlattenSeq(lists) = joined[Len(lists)]
<1> DEFINE joined == CHOOSE joined : IsJoined(joined, lists, Len(lists))
<1>1. IsJoined(joined, lists, Len(lists))
  BY JoinedExists
<1>2. FlattenSeq(lists) = joined[Len(lists)]
  BY DEF FlattenSeq, IsJoined, Joined1
<1> QED
  BY <1>1, <1>2

\* No lists make an empty one.
LEMMA FlattenEmpty == FlattenSeq(<<>>) = <<>>
BY DEF FlattenSeq

\* FlattenSeq of one list more is what there was with that list behind it.
LEMMA FlattenAppend ==
    ASSUME NEW S, NEW lists \in Seq(Seq(S)), NEW list \in Seq(S)
    PROVE  FlattenSeq(Append(lists, list)) = FlattenSeq(lists) \o list
<1> DEFINE t == Append(lists, list)
           n == Len(lists)
<1>1. n \in Nat /\ t \in Seq(Seq(S)) /\ Len(t) = n + 1 /\ t[n + 1] = list
      /\ \A i \in 1..n : lists[i] = t[i]
  BY AppendProperties, LenProperties
<1> HIDE DEF t
<1>2. PICK b : IsJoined(b, t, n + 1) /\ FlattenSeq(t) = b[n + 1]
  BY <1>1, FlattenIs
<1>3. b[n + 1] = Joined1(b, t, n + 1)
  BY <1>1, <1>2, JoinedAt
<1>4. CASE n = 0
  <2>1. lists = <<>>
    BY <1>4, EmptySeq
  <2>2. b[n + 1] = list
    BY <1>1, <1>3, <1>4 DEF Joined1
  <2>3. <<>> \o list = list
    BY ConcatEmptySeq
  <2> QED
    BY <1>2, <2>1, <2>2, <2>3, FlattenEmpty DEF t
<1>5. CASE n # 0
  <2>1. PICK a : IsJoined(a, lists, n) /\ FlattenSeq(lists) = a[n]
    BY <1>1, <1>5, FlattenIs
  <2>2. a[n] = b[n]
    <3>1. n + 1 \in Nat /\ n <= n + 1 /\ n >= 1
      BY <1>1, <1>5
    <3>2. SameTo(lists, t, n)
      BY <1>1 DEF SameTo
    <3>3. n \in Nat /\ IsJoined(a, lists, n) /\ IsJoined(b, t, n + 1)
      BY <1>1, <1>2, <2>1
    <3> HIDE DEF n
    <3> QED
      BY <3>1, <3>2, <3>3, JoinedUnique
  <2>3. b[n + 1] = b[n] \o list
    BY <1>1, <1>3, <1>5 DEF Joined1
  <2> QED
    BY <1>2, <2>1, <2>2, <2>3 DEF t
<1> QED
  BY <1>4, <1>5

\* Lists of a kind make a list of that kind.
LEMMA FlattenType ==
    ASSUME NEW S, NEW lists \in Seq(Seq(S))
    PROVE  FlattenSeq(lists) \in Seq(S)
<1> DEFINE T == {s \in Seq(Seq(S)) : FlattenSeq(s) \in Seq(S)}
<1>1. <<>> \in T
  BY FlattenEmpty, EmptySeq
<1>2. ASSUME NEW s \in Seq(Seq(S)), NEW x \in Seq(S), s \in T PROVE Append(s, x) \in T
  BY <1>2, FlattenAppend, AppendProperties, ConcatProperties
<1> HIDE DEF T
<1>3. Seq(Seq(S)) \subseteq T
  BY <1>1, <1>2, ListInduction
<1> QED
  BY <1>3 DEF T

\* Entry e is in a list or in the one behind it.
LEMMA ContainsConcat ==
    ASSUME NEW S, NEW s \in Seq(S), NEW t \in Seq(S), NEW e
    PROVE  Contains(s \o t, e) <=> Contains(s, e) \/ Contains(t, e)
<1>1. s \o t \in Seq(S) /\ Len(s \o t) = Len(s) + Len(t) /\ Len(s) \in Nat /\ Len(t) \in Nat
  OBVIOUS
<1>2. \A i \in 1..Len(s) : (s \o t)[i] = s[i]
  OBVIOUS
<1>3. \A i \in 1..Len(t) : i + Len(s) \in 1..Len(s \o t) /\ (s \o t)[i + Len(s)] = t[i]
  OBVIOUS
<1>4. \A i \in 1..Len(s \o t) : i \notin 1..Len(s) => i - Len(s) \in 1..Len(t) /\ (s \o t)[i] = t[i - Len(s)]
  OBVIOUS
<1>5. \A i \in 1..Len(s) : i \in 1..Len(s \o t)
  BY <1>1
<1> QED
  BY <1>2, <1>3, <1>4, <1>5 DEF Contains

\* Entry e is in one of the lists.
LEMMA FlattenContains ==
    ASSUME NEW S, NEW lists \in Seq(Seq(S)), NEW e
    PROVE  Contains(FlattenSeq(lists), e) <=> \E i \in 1..Len(lists) : Contains(lists[i], e)
<1> DEFINE In(s) == \E i \in 1..Len(s) : Contains(s[i], e)
           T == {s \in Seq(Seq(S)) : Contains(FlattenSeq(s), e) <=> In(s)}
<1>1. <<>> \in T
  BY FlattenEmpty, EmptySeq DEF Contains
<1>2. ASSUME NEW s \in Seq(Seq(S)), NEW x \in Seq(S), s \in T PROVE Append(s, x) \in T
  <2>1. Append(s, x) \in Seq(Seq(S)) /\ FlattenSeq(s) \in Seq(S)
    BY AppendProperties, FlattenType
  <2>2. Contains(FlattenSeq(s) \o x, e) <=> Contains(FlattenSeq(s), e) \/ Contains(x, e)
    BY <2>1, ContainsConcat
  <2>3. In(Append(s, x)) <=> In(s) \/ Contains(x, e)
    <3> HIDE DEF T
    <3>1. Len(Append(s, x)) = Len(s) + 1 /\ Append(s, x)[Len(s) + 1] = x /\ Len(s) \in Nat
          /\ \A i \in 1..Len(s) : Append(s, x)[i] = s[i]
      BY AppendProperties
    <3>2. \A i \in 1..Len(s) : i \in 1..(Len(s) + 1)
      BY <3>1
    <3>3. Len(s) + 1 \in 1..(Len(s) + 1)
      BY <3>1
    <3>4. \A i \in 1..(Len(s) + 1) : i \in 1..Len(s) \/ i = Len(s) + 1
      BY <3>1
    <3> QED
      BY <3>1, <3>2, <3>3, <3>4
  <2> HIDE DEF In
  <2> QED
    BY <1>2, <2>1, <2>2, <2>3, FlattenAppend
<1> HIDE DEF T
<1>3. Seq(Seq(S)) \subseteq T
  BY <1>1, <1>2, ListInduction
<1> QED
  BY <1>3 DEF T
=============================================================================
