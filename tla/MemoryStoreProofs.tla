------------------------- MODULE MemoryStoreProofs -------------------------
(***************************************************************************)
(* What one file of the memory store keeps, for any retention, any number  *)
(* of records and of writers that die.                                     *)
(***************************************************************************)
EXTENDS MemoryStore, FiniteSetTheorems, SequenceTheorems, TLAPS

-----------------------------------------------------------------------------
(* Ranks: how many of a set of positions lie below, or above, one of them *)

\* Two injections between finite sets of the same size are onto.
LEMMA OntoRanks ==
  ASSUME NEW S, IsFiniteSet(S), NEW r \in [S -> 0..Cardinality(S) - 1],
         \A i, j \in S : r[i] = r[j] => i = j
  PROVE  \A m \in 0..Cardinality(S) - 1 : \E i \in S : r[i] = m
<1> DEFINE n == Cardinality(S)
           T == 0..n - 1
<1>1. n \in Nat
  BY FS_CardinalityType
<1>2. IsFiniteSet(T) /\ Cardinality(T) = n
  BY <1>1, FS_Interval
<1>3. r \in Injection(S, T)
  BY DEF Injection, IsInjective
<1>4. r \in Surjection(S, T)
  BY <1>2, <1>3, FS_Injection
<1> QED BY <1>4 DEF Surjection

\* The ranks in a finite set of positions, from below.
LEMMA Below ==
  ASSUME NEW S \in SUBSET Nat, IsFiniteSet(S)
  PROVE  /\ \A i \in S : Cardinality({j \in S : j < i}) \in 0..Cardinality(S) - 1
         /\ \A i, k \in S : k < i => Cardinality({j \in S : j < k}) < Cardinality({j \in S : j < i})
<1>1. \A i : IsFiniteSet({j \in S : j < i}) /\ Cardinality({j \in S : j < i}) \in Nat
  BY FS_Subset, FS_CardinalityType
<1>2. ASSUME NEW i \in S PROVE Cardinality({j \in S : j < i}) < Cardinality(S)
  <2>1. {j \in S : j < i} \in SUBSET S /\ {j \in S : j < i} # S
    OBVIOUS
  <2>2. /\ Cardinality({j \in S : j < i}) <= Cardinality(S) /\ Cardinality({j \in S : j < i}) # Cardinality(S)
        /\ Cardinality(S) \in Nat
    BY <2>1, FS_Subset, FS_CardinalityType
  <2> QED BY <1>1, <2>2
<1>3. ASSUME NEW i \in S, NEW k \in S, k < i
      PROVE  Cardinality({j \in S : j < k}) < Cardinality({j \in S : j < i})
  <2> DEFINE A == {j \in S : j < k}
             B == {j \in S : j < i}
  <2>0. i \in Nat /\ k \in Nat /\ \A j \in S : j \in Nat /\ (j < k => j < i)
    BY <1>3
  <2>1. A \in SUBSET B /\ k \in B /\ k \notin A
    <3>1. A \subseteq B
      BY <2>0
    <3>2. k \in B
      BY <1>3
    <3>3. ~(k < k)
      BY <2>0
    <3> QED BY <3>1, <3>2, <3>3
  <2>2. IsFiniteSet(B) /\ Cardinality(A) \in Nat /\ Cardinality(B) \in Nat
    BY <1>1
  <2> HIDE DEF A, B
  <2>3. Cardinality(A) <= Cardinality(B) /\ Cardinality(A) # Cardinality(B)
    BY <2>1, <2>2, FS_Subset
  <2> QED BY <2>2, <2>3 DEF A, B
<1>4. Cardinality(S) \in Nat
  BY FS_CardinalityType
<1> QED BY <1>1, <1>2, <1>3, <1>4

\* The same from above.
LEMMA Above ==
  ASSUME NEW S \in SUBSET Nat, IsFiniteSet(S)
  PROVE  /\ \A i \in S : Cardinality({j \in S : j > i}) \in 0..Cardinality(S) - 1
         /\ \A i, k \in S : k > i => Cardinality({j \in S : j > k}) < Cardinality({j \in S : j > i})
<1>1. \A i : IsFiniteSet({j \in S : j > i}) /\ Cardinality({j \in S : j > i}) \in Nat
  BY FS_Subset, FS_CardinalityType
<1>2. ASSUME NEW i \in S PROVE Cardinality({j \in S : j > i}) < Cardinality(S)
  <2>1. {j \in S : j > i} \in SUBSET S /\ {j \in S : j > i} # S
    OBVIOUS
  <2>2. /\ Cardinality({j \in S : j > i}) <= Cardinality(S) /\ Cardinality({j \in S : j > i}) # Cardinality(S)
        /\ Cardinality(S) \in Nat
    BY <2>1, FS_Subset, FS_CardinalityType
  <2> QED BY <1>1, <2>2
<1>3. ASSUME NEW i \in S, NEW k \in S, k > i
      PROVE  Cardinality({j \in S : j > k}) < Cardinality({j \in S : j > i})
  <2> DEFINE A == {j \in S : j > k}
             B == {j \in S : j > i}
  <2>0. i \in Nat /\ k \in Nat /\ \A j \in S : j \in Nat /\ (j > k => j > i)
    BY <1>3
  <2>1. A \in SUBSET B /\ k \in B /\ k \notin A
    <3>1. A \subseteq B
      BY <2>0
    <3>2. k \in B
      BY <1>3
    <3>3. ~(k > k)
      BY <2>0
    <3> QED BY <3>1, <3>2, <3>3
  <2>2. IsFiniteSet(B) /\ Cardinality(A) \in Nat /\ Cardinality(B) \in Nat
    BY <1>1
  <2> HIDE DEF A, B
  <2>3. Cardinality(A) <= Cardinality(B) /\ Cardinality(A) # Cardinality(B)
    BY <2>1, <2>2, FS_Subset
  <2> QED BY <2>2, <2>3 DEF A, B
<1>4. Cardinality(S) \in Nat
  BY FS_CardinalityType
<1> QED BY <1>1, <1>2, <1>3, <1>4

\* Position lists a finite set of positions in their order.
LEMMA Positions ==
  ASSUME NEW S \in SUBSET Nat, IsFiniteSet(S)
  PROVE  /\ \A k \in 1..Cardinality(S) : Position(S, k) \in S
         /\ \A i \in S : \E k \in 1..Cardinality(S) : Position(S, k) = i
         /\ \A k, l \in 1..Cardinality(S) : k < l => Position(S, k) < Position(S, l)
<1> DEFINE r == [i \in S |-> Cardinality({j \in S : j < i})]
<1>1. r \in [S -> 0..Cardinality(S) - 1] /\ \A i, k \in S : k < i => r[k] < r[i]
  BY Below
<1>2. Cardinality(S) \in Nat
  BY FS_CardinalityType
<1>3. \A i, k \in S : r[i] = r[k] => i = k
  BY <1>1, <1>2
<1>4. \A k : Position(S, k) = CHOOSE i \in S : r[i] = k - 1
  BY DEF Position
<1> HIDE DEF r
<1>5. \A m \in 0..Cardinality(S) - 1 : \E i \in S : r[i] = m
  BY <1>1, <1>3, OntoRanks
<1>6. \A k \in 1..Cardinality(S) : Position(S, k) \in S /\ r[Position(S, k)] = k - 1
  <2> SUFFICES ASSUME NEW k \in 1..Cardinality(S) PROVE Position(S, k) \in S /\ r[Position(S, k)] = k - 1
    OBVIOUS
  <2>1. k - 1 \in 0..Cardinality(S) - 1
    BY <1>2
  <2>2. \E i \in S : r[i] = k - 1
    BY <1>5, <2>1
  <2> QED BY <1>4, <2>2
<1>7. ASSUME NEW i \in S PROVE \E k \in 1..Cardinality(S) : Position(S, k) = i
  <2>1. r[i] + 1 \in 1..Cardinality(S) /\ r[i] \in Nat /\ (r[i] + 1) - 1 = r[i]
    BY <1>1, <1>2
  <2>2. Position(S, r[i] + 1) = i
    BY <1>3, <1>6, <2>1
  <2> QED BY <2>1, <2>2
<1>8. ASSUME NEW k \in 1..Cardinality(S), NEW l \in 1..Cardinality(S), k < l PROVE Position(S, k) < Position(S, l)
  <2> DEFINE i == Position(S, k)
             m == Position(S, l)
  <2>1. i \in S /\ m \in S /\ r[i] = k - 1 /\ r[m] = l - 1
    BY <1>6
  <2> HIDE DEF i, m
  <2>2. r[i] \in Nat /\ r[m] \in Nat /\ r[i] < r[m] /\ i \in Nat /\ m \in Nat
    BY <1>2, <1>8, <2>1
  <2>3. ~(m < i) /\ m # i
    BY <1>1, <2>1, <2>2
  <2>4. i < m
    BY <2>2, <2>3
  <2> QED BY <2>4 DEF i, m
<1> QED BY <1>6, <1>7, <1>8

-----------------------------------------------------------------------------
(* The newest positions of a set *)

\* There are no more of them than are wanted.
LEMMA NewestAreFew ==
  ASSUME NEW S \in SUBSET Nat, IsFiniteSet(S), NEW n \in Nat
  PROVE  /\ Newest(S, n) \subseteq S /\ IsFiniteSet(Newest(S, n))
         /\ Cardinality(Newest(S, n)) <= n
<1> DEFINE W == Newest(S, n)
           r == [i \in W |-> Cardinality({j \in S : j > i})]
<1>1. W \in SUBSET S
  BY DEF Newest
<1>2. \A i \in W : r[i] \in 0..Cardinality(S) - 1 /\ r[i] < n
  BY <1>1, Above DEF Newest
<1>3. \A i, k \in W : k > i => r[k] < r[i]
  BY <1>1, Above
<1>4. Cardinality(S) \in Nat
  BY FS_CardinalityType
<1>5. r \in [W -> 0..n - 1]
  BY <1>2, <1>4
<1> HIDE DEF r
<1>6. \A i, k \in W : r[i] = r[k] => i = k
  <2> SUFFICES ASSUME NEW i \in W, NEW k \in W, r[i] = r[k] PROVE i = k
    OBVIOUS
  <2>1. i \in Nat /\ k \in Nat /\ r[i] \in 0..n - 1
    BY <1>1, <1>5
  <2>2. ~(k > i) /\ ~(i > k)
    BY <1>3, <2>1
  <2> QED BY <2>1, <2>2
<1>7. r \in Injection(W, 0..n - 1)
  BY <1>5, <1>6 DEF Injection, IsInjective
<1>8. IsFiniteSet(0..n - 1) /\ Cardinality(0..n - 1) = n
  BY FS_Interval
<1> QED BY <1>1, <1>7, <1>8, FS_Injection

\* Among the positions from some point on, as many as are wanted are newest if there are as many.
LEMMA NewestAreThere ==
  ASSUME NEW S \in SUBSET Nat, IsFiniteSet(S), NEW n \in Nat, NEW U \in SUBSET S,
         \A i \in U, j \in S : j > i => j \in U, Cardinality(U) >= n
  PROVE  Cardinality(Newest(S, n) \cap U) >= n
<1> DEFINE W == Newest(S, n) \cap U
           r == [i \in U |-> Cardinality({j \in U : j > i})]
           g == [i \in W |-> r[i]]
<1>1. IsFiniteSet(U) /\ IsFiniteSet(W) /\ Cardinality(U) \in Nat /\ Cardinality(W) \in Nat
  BY FS_Subset, FS_CardinalityType
<1>2. r \in [U -> 0..Cardinality(U) - 1] /\ \A i, k \in U : k > i => r[k] < r[i]
  BY <1>1, Above
<1>3. \A i \in U : i \in Newest(S, n) <=> r[i] < n
  <2> SUFFICES ASSUME NEW i \in U PROVE i \in Newest(S, n) <=> r[i] < n
    OBVIOUS
  <2>1. {j \in S : j > i} = {j \in U : j > i}
    OBVIOUS
  <2> QED BY <2>1 DEF Newest
<1> HIDE DEF r
<1>4. \A i, k \in U : r[i] = r[k] => i = k
  <2> SUFFICES ASSUME NEW i \in U, NEW k \in U, r[i] = r[k] PROVE i = k
    OBVIOUS
  <2>1. i \in Nat /\ k \in Nat /\ r[i] \in 0..Cardinality(U) - 1
    BY <1>2
  <2>2. ~(k > i) /\ ~(i > k)
    BY <1>1, <1>2, <2>1
  <2> QED BY <2>1, <2>2
<1>5. \A m \in 0..Cardinality(U) - 1 : \E i \in U : r[i] = m
  BY <1>1, <1>2, <1>4, OntoRanks
<1>6. g \in Surjection(W, 0..n - 1)
  <2>1. \A i \in W : r[i] \in Nat /\ r[i] < n
    <3> SUFFICES ASSUME NEW i \in W PROVE r[i] \in Nat /\ r[i] < n
      OBVIOUS
    <3>1. i \in U /\ i \in Newest(S, n)
      OBVIOUS
    <3>2. r[i] \in 0..Cardinality(U) - 1
      BY <1>2, <3>1
    <3> QED BY <1>3, <3>1, <3>2
  <2>3. g \in [W -> 0..n - 1]
    BY <2>1
  <2>2. ASSUME NEW m \in 0..n - 1 PROVE \E i \in W : g[i] = m
    <3>1. m \in 0..Cardinality(U) - 1
      BY <1>1
    <3>2. PICK i \in U : r[i] = m
      BY <1>5, <3>1
    <3> QED BY <1>3, <3>2
  <2> QED BY <2>2, <2>3 DEF Surjection
<1>7. Cardinality(0..n - 1) = n
  BY FS_Interval
<1>8. Cardinality(0..n - 1) <= Cardinality(W)
  BY <1>1, <1>6, FS_Surjection
<1> QED BY <1>1, <1>7, <1>8

-----------------------------------------------------------------------------
(* Files *)

\* The positions of a file, and any of them, are a finite set of numbers.
LEMMA Indices ==
  ASSUME NEW f \in File
  PROVE  /\ DOMAIN f.rows \in SUBSET Nat /\ IsFiniteSet(DOMAIN f.rows) /\ DOMAIN f.rows = 1..Len(f.rows)
         /\ Len(f.rows) \in Nat /\ \A i \in DOMAIN f.rows : f.rows[i] \in Row
         /\ GoodIdx(f) \in SUBSET DOMAIN f.rows /\ PinnedIdx(f) \in SUBSET GoodIdx(f)
         /\ \A idx \in SUBSET DOMAIN f.rows : idx \in SUBSET Nat /\ IsFiniteSet(idx) /\ Cardinality(idx) \in Nat
<1>1. f.rows \in Seq(Row)
  BY DEF File
<1>2. DOMAIN f.rows = 1..Len(f.rows) /\ Len(f.rows) \in Nat /\ \A i \in DOMAIN f.rows : f.rows[i] \in Row
  BY <1>1
<1>3. IsFiniteSet(DOMAIN f.rows)
  BY <1>2, FS_Interval
<1>4. \A idx \in SUBSET DOMAIN f.rows : idx \in SUBSET Nat /\ IsFiniteSet(idx) /\ Cardinality(idx) \in Nat
  BY <1>2, <1>3, FS_Subset, FS_CardinalityType
<1>5. GoodIdx(f) \in SUBSET DOMAIN f.rows /\ PinnedIdx(f) \in SUBSET GoodIdx(f)
  BY DEF GoodIdx, PinnedIdx
<1> QED BY <1>2, <1>3, <1>4, <1>5

\* The rows at some positions are the rows at those positions, in their order.
LEMMA RowsAtThem ==
  ASSUME NEW f \in File, NEW idx \in SUBSET DOMAIN f.rows
  PROVE  /\ RowsAt(f, idx) \in Seq(Row)
         /\ DOMAIN RowsAt(f, idx) = 1..Cardinality(idx) /\ Len(RowsAt(f, idx)) = Cardinality(idx)
         /\ \A k \in 1..Cardinality(idx) : Position(idx, k) \in idx /\ RowsAt(f, idx)[k] = f.rows[Position(idx, k)]
         /\ \A i \in idx : \E k \in 1..Cardinality(idx) : RowsAt(f, idx)[k] = f.rows[i]
<1>1. idx \in SUBSET Nat /\ IsFiniteSet(idx) /\ Cardinality(idx) \in Nat /\ \A i \in idx : f.rows[i] \in Row
  BY Indices
<1>2. \A k \in 1..Cardinality(idx) : Position(idx, k) \in idx
  BY <1>1, Positions
<1>3. \A i \in idx : \E k \in 1..Cardinality(idx) : Position(idx, k) = i
  BY <1>1, Positions
<1>4. /\ DOMAIN RowsAt(f, idx) = 1..Cardinality(idx)
      /\ \A k \in 1..Cardinality(idx) : RowsAt(f, idx)[k] = f.rows[Position(idx, k)]
  BY DEF RowsAt
<1>5. RowsAt(f, idx) \in [1..Cardinality(idx) -> Row]
  BY <1>1, <1>2 DEF RowsAt
<1>6. RowsAt(f, idx) \in Seq(Row) /\ Len(RowsAt(f, idx)) = Cardinality(idx)
  BY <1>1, <1>5
<1>7. \A i \in idx : \E k \in 1..Cardinality(idx) : RowsAt(f, idx)[k] = f.rows[i]
  BY <1>3, <1>4
<1> QED BY <1>2, <1>4, <1>6, <1>7

\* A row that shares its line keeps its id, and its text unless it was a fragment.
LEMMA LinesJoin ==
  ASSUME NEW s \in Seq(Row), NEW m \in Nat
  PROVE  LET t == [s EXCEPT ![m] = OneLine(@)]
         IN  /\ t \in Seq(Row) /\ Len(t) = Len(s) /\ DOMAIN t = DOMAIN s
             /\ \A k \in DOMAIN s : t[k].id = s[k].id /\ (s[k].text # "fragment" => t[k].text # "fragment")
<1> DEFINE t == [s EXCEPT ![m] = OneLine(@)]
<1>1. \A r \in Row : OneLine(r) \in Row /\ OneLine(r).id = r.id /\ (r.text # "fragment" => OneLine(r).text # "fragment")
  BY DEF OneLine, Row
<1>2. DOMAIN t = 1..Len(s) /\ Len(s) \in Nat
  OBVIOUS
<1>3. \A k \in 1..Len(s) : s[k] \in Row /\ t[k] = IF k = m THEN OneLine(s[k]) ELSE s[k]
  OBVIOUS
<1> HIDE DEF t
<1>4. \A k \in 1..Len(s) : t[k] \in Row /\ t[k].id = s[k].id /\ (s[k].text # "fragment" => t[k].text # "fragment")
  BY <1>1, <1>3
<1>5. t \in [1..Len(s) -> Row]
  <2>1. t = [k \in 1..Len(s) |-> t[k]]
    BY DEF t
  <2> QED BY <1>4, <2>1
<1>6. t \in Seq(Row) /\ Len(t) = Len(s)
  BY <1>2, <1>5
<1>7. DOMAIN t = DOMAIN s
  BY <1>2
<1> QED BY <1>2, <1>4, <1>6, <1>7 DEF t

\* Appending loses no complete row of the file, and none of what is appended.
LEMMA GluedKeeps ==
  ASSUME NEW f \in File, NEW rows \in Seq(Row)
  PROVE  /\ Glued(f, rows) \in File
         /\ Ids(Complete(f)) \subseteq Ids(Complete(Glued(f, rows)))
         /\ \A k \in DOMAIN rows : rows[k].text # "fragment" => rows[k].id \in Ids(Complete(Glued(f, rows)))
<1> DEFINE Keeps(a, b) == /\ a \in Seq(Row) /\ b \in Seq(Row)
                          /\ Len(a) = Len(f.rows) /\ DOMAIN b = DOMAIN rows
                          /\ \A k \in DOMAIN f.rows : a[k].id = f.rows[k].id /\ (f.rows[k].text # "fragment" => a[k].text # "fragment")
                          /\ \A k \in DOMAIN rows : b[k].id = rows[k].id /\ (rows[k].text # "fragment" => b[k].text # "fragment")
<1>1. f.rows \in Seq(Row) /\ Len(f.rows) \in Nat
  BY Indices DEF File
<1>2. PICK a, b : Keeps(a, b) /\ Glued(f, rows) = [rows |-> a \o b, cut |-> FALSE]
  <2>1. CASE f.cut /\ rows # <<>>
    <3> DEFINE a == [f.rows EXCEPT ![Len(f.rows)] = OneLine(@)]
               b == [rows EXCEPT ![1] = OneLine(@)]
    <3>1. Keeps(a, b)
      BY <1>1, LinesJoin
    <3>2. Glued(f, rows) = [rows |-> a \o b, cut |-> FALSE]
      BY <2>1 DEF Glued
    <3> HIDE DEF Keeps, a, b
    <3> QED BY <3>1, <3>2
  <2>2. CASE ~(f.cut /\ rows # <<>>)
    <3>1. Glued(f, rows) = [rows |-> f.rows \o rows, cut |-> FALSE]
      BY <2>2 DEF Glued
    <3>2. Keeps(f.rows, rows)
      BY <1>1
    <3> HIDE DEF Keeps
    <3> QED BY <3>1, <3>2
  <2> QED BY <2>1, <2>2
<1>3. /\ a \o b \in Seq(Row) /\ DOMAIN (a \o b) = 1..(Len(a) + Len(b)) /\ Len(b) \in Nat
      /\ \A k \in 1..Len(a) : (a \o b)[k] = a[k]
      /\ \A k \in 1..Len(b) : (a \o b)[Len(a) + k] = b[k]
  <2>1. a \in Seq(Row) /\ b \in Seq(Row)
    BY <1>2
  <2> HIDE DEF Keeps
  <2> QED BY <2>1
<1>4. Glued(f, rows) \in File
  BY <1>2, <1>3 DEF File
<1>5. ASSUME NEW k \in DOMAIN f.rows, f.rows[k].text # "fragment" PROVE f.rows[k].id \in Ids(Complete(Glued(f, rows)))
  <2>1. k \in 1..Len(a) /\ k \in DOMAIN (a \o b) /\ (a \o b)[k] = a[k]
    BY <1>1, <1>2, <1>3
  <2>2. a[k].id = f.rows[k].id /\ a[k].text # "fragment"
    BY <1>2, <1>5
  <2> QED BY <1>2, <2>1, <2>2 DEF Ids, Complete, Range
<1>6. ASSUME NEW k \in DOMAIN rows, rows[k].text # "fragment" PROVE rows[k].id \in Ids(Complete(Glued(f, rows)))
  <2>1. k \in 1..Len(b) /\ Len(a) + k \in DOMAIN (a \o b) /\ (a \o b)[Len(a) + k] = b[k]
    BY <1>1, <1>2, <1>3
  <2>2. b[k].id = rows[k].id /\ b[k].text # "fragment"
    BY <1>2, <1>6
  <2> QED BY <1>2, <2>1, <2>2 DEF Ids, Complete, Range
<1> QED BY <1>4, <1>5, <1>6 DEF Ids, Complete, Range

\* What is put aside of the file: the corrupt rows, enclosed, and the archived ones.
LEMMA PutAsideRows ==
  ASSUME NEW f \in File
  PROVE  /\ BadLines(f) \in Seq(Row)
         /\ \A i \in Bad(f) : \E k \in DOMAIN BadLines(f) : BadLines(f)[k].id = f.rows[i].id /\ BadLines(f)[k].text # "fragment"
         /\ RowsAt(f, Archived(f)) \in Seq(Row)
         /\ \A i \in Archived(f) : \E k \in DOMAIN RowsAt(f, Archived(f)) :
              RowsAt(f, Archived(f))[k].id = f.rows[i].id /\ RowsAt(f, Archived(f))[k].text # "fragment"
<1>1. Bad(f) \in SUBSET DOMAIN f.rows /\ Archived(f) \in SUBSET DOMAIN f.rows /\ Archived(f) \in SUBSET GoodIdx(f)
  BY Indices DEF Bad, Archived
<1> DEFINE b == RowsAt(f, Bad(f))
           a == RowsAt(f, Archived(f))
<1>2. b \in Seq(Row) /\ a \in Seq(Row)
  BY <1>1, RowsAtThem
<1>3. \A i \in Bad(f) : \E k \in DOMAIN b : b[k] = f.rows[i]
  BY <1>1, RowsAtThem
<1>4. \A i \in Archived(f) : \E k \in DOMAIN a : a[k] = f.rows[i]
  BY <1>1, RowsAtThem
<1>5. BadLines(f) = [k \in DOMAIN b |-> [b[k] EXCEPT !.text = "whole"]]
  BY DEF BadLines, Enclosed
<1> HIDE DEF a, b
<1>6. \A r \in Row : [r EXCEPT !.text = "whole"] \in Row /\ [r EXCEPT !.text = "whole"].id = r.id
                     /\ [r EXCEPT !.text = "whole"].text = "whole"
  BY DEF Row
<1>7. DOMAIN b = 1..Len(b) /\ Len(b) \in Nat /\ \A k \in DOMAIN b : b[k] \in Row
  BY <1>2
<1>8. BadLines(f) \in [1..Len(b) -> Row]
  BY <1>5, <1>6, <1>7
<1>9. BadLines(f) \in Seq(Row)
  BY <1>7, <1>8
<1>10. \A i \in Bad(f) : \E k \in DOMAIN BadLines(f) : BadLines(f)[k].id = f.rows[i].id /\ BadLines(f)[k].text # "fragment"
  <2> SUFFICES ASSUME NEW i \in Bad(f)
               PROVE  \E k \in DOMAIN BadLines(f) : BadLines(f)[k].id = f.rows[i].id /\ BadLines(f)[k].text # "fragment"
    OBVIOUS
  <2>1. PICK k \in DOMAIN b : b[k] = f.rows[i]
    BY <1>3
  <2>2. k \in DOMAIN BadLines(f) /\ BadLines(f)[k] = [b[k] EXCEPT !.text = "whole"] /\ b[k] \in Row
    BY <1>5, <1>7
  <2>3. BadLines(f)[k].id = b[k].id /\ BadLines(f)[k].text = "whole"
    BY <1>6, <2>2
  <2> QED BY <2>1, <2>2, <2>3
<1>11. \A i \in Archived(f) : f.rows[i].text # "fragment"
  BY <1>1 DEF GoodIdx, IsGood
<1> QED BY <1>2, <1>4, <1>9, <1>10, <1>11 DEF a

\* What an append that is cut short has written are rows.
LEMMA CutRowsAreRows ==
  ASSUME NEW rows \in Seq(Row)
  PROVE  CutRows(rows) \subseteq Seq(Row)
<1> DEFINE c(k, w) == SubSeq(rows, 1, k - 1) \o <<[rows[k] EXCEPT !.text = w]>>
<1>0. CutRows(rows) = {c(k, w) : k \in DOMAIN rows, w \in {"whole", "fragment"}}
  BY DEF CutRows
<1> SUFFICES ASSUME NEW k \in DOMAIN rows, NEW w \in {"whole", "fragment"} PROVE c(k, w) \in Seq(Row)
  <2> HIDE DEF c
  <2> QED BY <1>0
<1>1. rows[k] \in Row /\ k \in 1..Len(rows) /\ Len(rows) \in Nat
  OBVIOUS
<1>2. [rows[k] EXCEPT !.text = w] \in Row
  BY <1>1 DEF Row
<1>3. SubSeq(rows, 1, k - 1) \in Seq(Row)
  BY <1>1, SubSeqProperties
<1> QED BY <1>2, <1>3

\* ... of one row, that row with what its text has become.
LEMMA CutRow ==
  ASSUME NEW r \in Row, NEW written \in CutRows(<<r>>)
  PROVE  \E w \in {"whole", "fragment"} : written = <<[r EXCEPT !.text = w]>>
<1> DEFINE c(k, w) == SubSeq(<<r>>, 1, k - 1) \o <<[<<r>>[k] EXCEPT !.text = w]>>
<1>0. CutRows(<<r>>) = {c(k, w) : k \in DOMAIN <<r>>, w \in {"whole", "fragment"}}
  BY DEF CutRows
<1>1. PICK k \in DOMAIN <<r>>, w \in {"whole", "fragment"} : written = c(k, w)
  <2> HIDE DEF c
  <2> QED BY <1>0
<1>2. k = 1 /\ written = c(1, w)
  BY <1>1
<1>3. SubSeq(<<r>>, 1, 1 - 1) = <<>> /\ <<r>>[1] = r
  OBVIOUS
<1>4. written = <<>> \o <<[r EXCEPT !.text = w]>>
  BY <1>2, <1>3
<1> DEFINE q == [r EXCEPT !.text = w]
<1>5. q \in Row
  BY DEF Row
<1> HIDE DEF q
<1>6. <<>> \o <<q>> = <<q>>
  BY <1>5
<1> QED BY <1>4, <1>6 DEF q

\* To lose the final newline changes no row.
LEMMA CutIsAFile == ASSUME NEW f \in File PROVE Cut(f) \in File /\ Cut(f).rows = f.rows /\ Complete(Cut(f)) = Complete(f)
BY DEF Cut, File, Complete

-----------------------------------------------------------------------------
(* Steps that leave the log alone *)

\* A step that leaves the log and the archive what they hold needs only to put aside what it owes.
LEMMA LogStays ==
  ASSUME StoreInv, TypeOK', UNCHANGED <<log, appended, next>>,
         pc' \in {"append", "identity, append"} => next <= MaxRecords,
         Ids(Complete(archive)) \subseteq Ids(Complete(archive')),
         PutAside'
  PROVE  StoreInv'
<1>1. InOrder'
  BY DEF StoreInv, InOrder
<1>2. NewestSurvive' /\ PinnedSurvive'
  BY DEF StoreInv, NewestSurvive, PinnedSurvive
<1> QED BY <1>1, <1>2 DEF StoreInv

LEMMA BeginKeeps ==
  ASSUME StoreInv, BeginAppend \/ BeginCompact \/ WriteIdentity \/ WriteMeta
  PROVE  StoreInv'
<1> USE DEF StoreInv
<1>1. UNCHANGED <<log, archive, quarantine, appended, next, crashes>>
  BY DEF BeginAppend, BeginCompact, Begin, WriteIdentity, WriteMeta, files
<1>2. TypeOK'
  <2> USE <1>1 DEF TypeOK, Place, Compacting
  <2>1. CASE BeginAppend \/ BeginCompact
    BY <2>1 DEF BeginAppend, BeginCompact, Begin, files
  <2>2. CASE WriteIdentity
    BY <2>2 DEF WriteIdentity
  <2>3. CASE WriteMeta
    BY <2>3 DEF WriteMeta, Counts, Missing
  <2> QED BY <2>1, <2>2, <2>3
<1>3. PutAside'
  BY <1>1 DEF PutAside, BeginAppend, BeginCompact, Begin, WriteIdentity, WriteMeta
<1>4. pc' \in {"append", "identity, append"} => next <= MaxRecords
  BY DEF InOrder, BeginAppend, BeginCompact, Begin, WriteIdentity, WriteMeta
<1> QED BY <1>1, <1>2, <1>3, <1>4, LogStays

LEMMA QuarantineKeeps == ASSUME StoreInv, QuarantineBad PROVE StoreInv'
<1> USE DEF StoreInv
<1>1. log \in File /\ quarantine \in File
  BY DEF TypeOK
<1>2. quarantine' \in File /\ \A i \in Bad(log) : log.rows[i].id \in Ids(Complete(quarantine'))
  BY <1>1, PutAsideRows, GluedKeeps DEF QuarantineBad
<1>3. UNCHANGED <<log, archive, appended, next>> /\ pc' = "archive"
  BY DEF QuarantineBad
<1>4. TypeOK'
  BY <1>2 DEF TypeOK, QuarantineBad, Place, Compacting
<1>5. PutAside'
  BY <1>2, <1>3 DEF PutAside
<1> QED BY <1>3, <1>4, <1>5, LogStays

LEMMA ArchiveKeeps == ASSUME StoreInv, ArchiveOld PROVE StoreInv'
<1> USE DEF StoreInv
<1>1. log \in File /\ archive \in File
  BY DEF TypeOK
<1>2. /\ archive' \in File /\ Ids(Complete(archive)) \subseteq Ids(Complete(archive'))
      /\ \A i \in Archived(log) : log.rows[i].id \in Ids(Complete(archive'))
  BY <1>1, PutAsideRows, GluedKeeps DEF ArchiveOld
<1>3. UNCHANGED <<log, quarantine, appended, next>> /\ pc = "archive" /\ pc' = "replace"
  BY DEF ArchiveOld
<1>4. TypeOK'
  BY <1>2 DEF TypeOK, ArchiveOld, Place, Compacting
<1>5. PutAside'
  BY <1>2, <1>3 DEF PutAside
<1> QED BY <1>2, <1>3, <1>4, <1>5, LogStays

-----------------------------------------------------------------------------
(* Steps that append to the log *)

\* There are finitely many good rows.
LEMMA GoodIsFinite ==
  ASSUME NEW f \in File
  PROVE  \A T \in SUBSET Good(f) : IsFiniteSet(T) /\ Cardinality(T) \in Nat
<1>1. IsFiniteSet(GoodIdx(f))
  BY Indices
<1>2. IsFiniteSet(Good(f))
  <2> DEFINE g == [i \in GoodIdx(f) |-> f.rows[i]]
  <2>1. g \in Surjection(GoodIdx(f), Good(f))
    BY DEF Surjection, Good
  <2> QED BY <1>1, <2>1, FS_Surjection
<1> QED BY <1>2, FS_Subset, FS_CardinalityType

\* The new row comes last; the others stay, and what was good stays good.
LEMMA LogGrows ==
  ASSUME log \in File, NEW r \in Row, log' \in File, log'.rows = log.rows \o <<r>>
  PROVE  /\ DOMAIN log'.rows = DOMAIN log.rows \cup {Len(log.rows) + 1}
         /\ log'.rows[Len(log.rows) + 1] = r /\ Len(log'.rows) = Len(log.rows) + 1
         /\ \A i \in DOMAIN log.rows : log'.rows[i] = log.rows[i] /\ i < Len(log.rows) + 1
         /\ GoodIdx(log) \subseteq GoodIdx(log')
         /\ Good(log) \subseteq Good(log')
<1>1. log.rows \in Seq(Row) /\ Len(log.rows) \in Nat /\ DOMAIN log.rows = 1..Len(log.rows)
  BY Indices DEF File
<1>2. /\ DOMAIN log'.rows = DOMAIN log.rows \cup {Len(log.rows) + 1}
      /\ log'.rows[Len(log.rows) + 1] = r /\ Len(log'.rows) = Len(log.rows) + 1
      /\ \A i \in DOMAIN log.rows : log'.rows[i] = log.rows[i] /\ i < Len(log.rows) + 1
  BY <1>1
<1>3. GoodIdx(log) \subseteq GoodIdx(log')
  BY <1>1, <1>2 DEF GoodIdx, IsGood, Truncated
<1>4. Good(log) \subseteq Good(log')
  BY <1>2, <1>3, Indices DEF Good
<1> QED BY <1>2, <1>3, <1>4

LEMMA IdsAreNumbers == \A r \in Row : r.id \in Nat
<1>1. MaxRecords \in Nat
  BY MemoryStoreAssumption
<1>2. \A r \in Row : r.id \in 1..MaxRecords
  BY DEF Row
<1> QED BY <1>1, <1>2

\* A row is appended whole, or cut.
Grows(r) ==
  /\ r.id = next /\ r.text # "glued" /\ next' = next + 1
  /\ log'.rows = log.rows \o <<r>> /\ archive' = archive
  /\ pc' \notin {"append", "identity, append", "archive", "replace"}
  /\ \/ appended' = appended
     \/ appended' = appended \cup {[id |-> next, pinned |-> r.pinned]} /\ r.text = "whole" /\ ~log'.cut

\* A record that was appended is good; one that was cut was never counted as appended.
LEMMA GrowthKeeps ==
  ASSUME StoreInv, TypeOK', NEW r \in Row, Grows(r)
  PROVE  StoreInv'
<1>g. r.id = next /\ r.text # "glued" /\ next' = next + 1
  BY DEF Grows
<1>h. log'.rows = log.rows \o <<r>> /\ archive' = archive /\ pc' \notin {"append", "identity, append", "archive", "replace"}
  BY DEF Grows
<1> DEFINE a0 == [id |-> next, pinned |-> r.pinned]
           n == Len(log.rows) + 1
<1>0. log \in File /\ log' \in File /\ next \in Nat
  BY DEF StoreInv, TypeOK
<1>1. log \in File /\ log' \in File /\ next \in Nat /\ n \in Nat
  <2>1. Len(log.rows) \in Nat
    BY <1>0, Indices
  <2>2. n \in Nat
    BY <2>1
  <2> QED BY <1>0, <2>2
<1>2. /\ DOMAIN log'.rows = DOMAIN log.rows \cup {n} /\ log'.rows[n] = r /\ Len(log'.rows) = n
      /\ \A i \in DOMAIN log.rows : log'.rows[i] = log.rows[i] /\ i < n /\ i \in Nat
      /\ Good(log) \subseteq Good(log')
  BY <1>1, <1>h, LogGrows, Indices
<1>3. \A a \in appended' : a \in appended \/ (a = a0 /\ r.text = "whole" /\ ~log'.cut)
  BY DEF Grows
<1>4. \A a \in appended : a.id \in Nat /\ a.id < next
  BY DEF StoreInv, TypeOK, InOrder
<1>5. \A i \in DOMAIN log.rows : log.rows[i].id \in Nat /\ log.rows[i].id < next
  <2>1. \A i \in DOMAIN log.rows : log.rows[i].id \in Nat
    BY <1>1, Indices, IdsAreNumbers
  <2> QED BY <2>1 DEF StoreInv, InOrder
<1> HIDE DEF n
<1>6. InOrder'
  <2>1. \A i, j \in DOMAIN log'.rows : i < j => log'.rows[i].id < log'.rows[j].id
    <3> SUFFICES ASSUME NEW i \in DOMAIN log'.rows, NEW j \in DOMAIN log'.rows, i < j
                 PROVE  log'.rows[i].id < log'.rows[j].id
      OBVIOUS
    <3>1. i \in DOMAIN log.rows
      <4> SUFFICES i # n
        BY <1>2
      <4>1. j \in Nat /\ (j < n \/ j = n)
        BY <1>1, <1>2
      <4> QED BY <1>1, <4>1
    <3>2. CASE j = n
      BY <1>g, <1>2, <1>5, <3>1, <3>2
    <3>3. CASE j \in DOMAIN log.rows
      BY <1>2, <3>1, <3>3 DEF StoreInv, InOrder
    <3> QED BY <1>2, <3>2, <3>3
  <2>2. \A i \in DOMAIN log'.rows : log'.rows[i].id < next' /\ log'.rows[i].text # "glued"
    <3> SUFFICES ASSUME NEW i \in DOMAIN log'.rows PROVE log'.rows[i].id < next' /\ log'.rows[i].text # "glued"
      OBVIOUS
    <3>1. CASE i = n
      BY <1>g, <1>1, <1>2, <3>1
    <3>2. CASE i \in DOMAIN log.rows
      <4>1. log.rows[i].id < next /\ log.rows[i].id \in Nat /\ log.rows[i].text # "glued"
        BY <1>5, <3>2 DEF StoreInv, InOrder
      <4> QED BY <1>g, <1>1, <1>2, <3>2, <4>1
    <3> QED BY <1>2, <3>1, <3>2
  <2>3. ASSUME NEW a \in appended'
        PROVE  a.id < next' /\ \A i \in DOMAIN log'.rows : log'.rows[i].id = a.id => log'.rows[i].pinned = a.pinned
    <3>1. CASE a = a0
      <4>1. a.id < next'
        BY <1>g, <1>1, <3>1
      <4>2. \A i \in DOMAIN log.rows : log'.rows[i].id # a.id
        BY <1>g, <1>1, <1>2, <1>5, <3>1
      <4>3. log'.rows[n].pinned = a.pinned
        BY <1>2, <3>1
      <4> QED BY <1>2, <4>1, <4>2, <4>3
    <3>2. CASE a \in appended
      <4>1. a.id < next' /\ a.id # next
        BY <1>g, <1>1, <1>4, <3>2
      <4>2. \A i \in DOMAIN log.rows : log'.rows[i].id = a.id => log'.rows[i].pinned = a.pinned
        BY <1>2, <3>2 DEF StoreInv, InOrder
      <4>3. log'.rows[n].id # a.id
        BY <1>g, <1>2, <4>1
      <4> QED BY <1>2, <4>1, <4>2, <4>3
    <3> QED BY <1>3, <3>1, <3>2
  <2> QED BY <1>h, <2>1, <2>2, <2>3 DEF InOrder
<1>7. r.text = "whole" /\ ~log'.cut => r \in Good(log')
  BY <1>2 DEF Good, GoodIdx, IsGood, Truncated
<1>8. NewestSurvive'
  <2> SUFFICES ASSUME NEW a \in appended', ~a.pinned
               PROVE  \/ a.id \in Ids(Good(log'))
                      \/ Cardinality({q \in Good(log') : ~q.pinned /\ q.id > a.id}) >= Retain
    BY DEF NewestSurvive
  <2>1. CASE a = a0 /\ r.text = "whole" /\ ~log'.cut
    BY <1>g, <1>7, <2>1 DEF Ids
  <2>2. CASE a \in appended /\ a.id \in Ids(Good(log))
    BY <1>2, <2>2 DEF Ids
  <2>3. CASE a \in appended /\ Cardinality({q \in Good(log) : ~q.pinned /\ q.id > a.id}) >= Retain
    <3> DEFINE A == {q \in Good(log) : ~q.pinned /\ q.id > a.id}
               B == {q \in Good(log') : ~q.pinned /\ q.id > a.id}
    <3>1. A \in SUBSET B
      BY <1>2
    <3>2. IsFiniteSet(B) /\ Cardinality(B) \in Nat /\ Cardinality(A) \in Nat
      BY <1>1, GoodIsFinite
    <3> HIDE DEF A, B
    <3>3. Cardinality(A) <= Cardinality(B)
      BY <3>1, <3>2, FS_Subset
    <3>4. Cardinality(A) >= Retain
      BY <2>3 DEF A
    <3>6. Retain \in Nat
      BY MemoryStoreAssumption
    <3>5. Cardinality(B) >= Retain
      BY <3>2, <3>3, <3>4, <3>6
    <3> QED BY <3>5 DEF B
  <2> QED BY <1>3, <2>1, <2>2, <2>3 DEF StoreInv, NewestSurvive
<1>9. PinnedSurvive'
  <2> SUFFICES ASSUME NEW a \in appended', a.pinned PROVE a.id \in Ids(Good(log')) \cup Ids(Complete(archive'))
    BY DEF PinnedSurvive
  <2>1. CASE a = a0 /\ r.text = "whole" /\ ~log'.cut
    BY <1>g, <1>7, <2>1 DEF Ids
  <2>2. CASE a \in appended
    BY <1>h, <1>2, <2>2 DEF Ids, StoreInv, PinnedSurvive
  <2> QED BY <1>3, <2>1, <2>2
<1>10. PutAside'
  BY <1>h DEF PutAside
<1> QED BY <1>6, <1>8, <1>9, <1>10 DEF StoreInv

LEMMA AppendKeeps == ASSUME StoreInv, AppendRecord PROVE StoreInv'
<1>1. PICK pinned \in BOOLEAN :
        LET row == [id |-> next, pinned |-> pinned, text |-> "whole"]
            c == [ReadMeta EXCEPT !.lines = @ + 1, !.pinned = @ + (IF pinned THEN 1 ELSE 0)]
        IN  /\ log' = AppendTo(log, <<row>>)
            /\ counts' = c
            /\ pc' = IF Over(c) THEN "quarantine" ELSE "meta"
            /\ appended' = appended \cup {[id |-> next, pinned |-> pinned]}
  BY DEF AppendRecord
<1> DEFINE row == [id |-> next, pinned |-> pinned, text |-> "whole"]
<1>2. log \in File /\ next \in 1..MaxRecords /\ next \in Nat
  BY MemoryStoreAssumption DEF StoreInv, TypeOK, InOrder, AppendRecord
<1>3. row \in Row /\ row.id = next /\ row.text = "whole" /\ row.pinned = pinned
  BY <1>2 DEF Row
<1>4. log' = [rows |-> log.rows \o <<row>>, cut |-> FALSE]
  BY <1>1 DEF AppendTo, Completed
<1>5. log' \in File
  BY <1>2, <1>3, <1>4 DEF File
<1>6. ReadMeta \in Counts
  BY <1>2, Indices DEF ReadMeta, StoreInv, TypeOK, Counts
<1>7. counts' \in Counts
  <2> DEFINE m == ReadMeta
  <2>1. m.lines \in Nat /\ m.pinned \in Nat /\ m.there \in BOOLEAN
        /\ m = [lines |-> m.lines, pinned |-> m.pinned, there |-> m.there]
    BY <1>6 DEF Counts
  <2>2. counts' = [m EXCEPT !.lines = @ + 1, !.pinned = @ + (IF pinned THEN 1 ELSE 0)]
    BY <1>1
  <2> HIDE DEF m
  <2>3. counts' = [lines |-> m.lines + 1, pinned |-> m.pinned + (IF pinned THEN 1 ELSE 0), there |-> m.there]
    BY <2>1, <2>2
  <2>4. m.lines + 1 \in Nat /\ m.pinned + (IF pinned THEN 1 ELSE 0) \in Nat
    BY <2>1
  <2> QED BY <2>1, <2>3, <2>4 DEF Counts
<1>8. pc' \in {"quarantine", "meta"} /\ appended' = appended \cup {[id |-> next, pinned |-> pinned]}
      /\ next' = next + 1 /\ UNCHANGED <<meta, archive, quarantine, identity, crashes>>
  BY <1>1 DEF AppendRecord
<1>9. TypeOK'
  <2>1. appended' \subseteq [id : Nat, pinned : BOOLEAN]
    BY <1>2, <1>8 DEF StoreInv, TypeOK
  <2>2. next' \in Nat \ {0}
    BY <1>2, <1>8
  <2> QED BY <1>5, <1>7, <1>8, <2>1, <2>2 DEF StoreInv, TypeOK, Place, Compacting
<1>10. Grows(row)
  BY <1>3, <1>4, <1>8 DEF Grows
<1> HIDE DEF row
<1> QED BY <1>3, <1>9, <1>10, GrowthKeeps

-----------------------------------------------------------------------------
(* Death of the writer *)

\* A cut append to another file loses no complete row of it.
LEMMA CutKeeps ==
  ASSUME NEW f \in File, NEW rows \in Seq(Row), NEW written \in CutRows(rows)
  PROVE  /\ Cut(Glued(f, written)) \in File
         /\ Ids(Complete(f)) \subseteq Ids(Complete(Cut(Glued(f, written))))
<1>1. written \in Seq(Row)
  BY CutRowsAreRows
<1>2. Glued(f, written) \in File /\ Ids(Complete(f)) \subseteq Ids(Complete(Glued(f, written)))
  BY <1>1, GluedKeeps
<1> QED BY <1>2, CutIsAFile

\* A cut append to the log leaves its row, or a fragment of it.
LEMMA CutOnes ==
  ASSUME StoreInv, CutLog
  PROVE  \E r \in Row : /\ r.id = next /\ r.text # "glued" /\ log' \in File /\ log'.rows = log.rows \o <<r>>
                        /\ next' = next + 1 /\ next \in Nat /\ UNCHANGED <<archive, quarantine, identity>>
<1>0. PICK pinned \in BOOLEAN :
        \E written \in CutRows(<<[id |-> next, pinned |-> pinned, text |-> "whole"]>>) : log' = Cut(AppendTo(log, written))
  BY DEF CutLog
<1>1. PICK written \in CutRows(<<[id |-> next, pinned |-> pinned, text |-> "whole"]>>) :
        log' = Cut(AppendTo(log, written))
  BY <1>0
<1> DEFINE row == [id |-> next, pinned |-> pinned, text |-> "whole"]
<1>2. next \in 1..MaxRecords /\ next \in Nat
  BY MemoryStoreAssumption DEF CutLog, StoreInv, TypeOK, InOrder
<1>3. row \in Row
  BY <1>2 DEF Row
<1>4. PICK w \in {"whole", "fragment"} : written = <<[row EXCEPT !.text = w]>>
  BY <1>1, <1>3, CutRow
<1> DEFINE r == [row EXCEPT !.text = w]
<1>5. r \in Row /\ r.id = next /\ r.text # "glued"
  BY <1>3 DEF Row
<1>6. next' = next + 1 /\ UNCHANGED <<archive, quarantine, identity>>
  BY DEF CutLog
<1>7. log' = Cut([rows |-> log.rows \o <<r>>, cut |-> FALSE])
  BY <1>1, <1>4 DEF AppendTo, Completed
<1> HIDE DEF r
<1>8. [rows |-> log.rows \o <<r>>, cut |-> FALSE] \in File
  BY <1>5 DEF StoreInv, TypeOK, File
<1>9. log' \in File /\ log'.rows = log.rows \o <<r>>
  BY <1>7, <1>8, CutIsAFile
<1> QED BY <1>2, <1>5, <1>6, <1>9

LEMMA CrashKeeps == ASSUME StoreInv, Crash PROVE StoreInv'
<1>0. pc' = "idle" /\ counts' = Missing /\ UNCHANGED <<meta, appended>>
  BY DEF Crash
<1>1. crashes' \in Nat
  BY DEF Crash, StoreInv, TypeOK
<1>2. Missing \in Counts
  BY DEF Missing, Counts
<1>3. TypeOK
  BY DEF StoreInv
<1>4. ASSUME log' \in File, archive' \in File, quarantine' \in File, identity' \in {"absent", "torn", "ok"},
             next' \in Nat \ {0}
      PROVE  TypeOK'
  BY <1>0, <1>1, <1>2, <1>3, <1>4 DEF TypeOK, Place
<1>5. ASSUME UNCHANGED <<log, next>>, archive' \in File, quarantine' \in File, identity' \in {"absent", "torn", "ok"},
             Ids(Complete(archive)) \subseteq Ids(Complete(archive'))
      PROVE  StoreInv'
  <2>1. TypeOK'
    BY <1>3, <1>4, <1>5 DEF TypeOK
  <2>2. PutAside'
    BY <1>0 DEF PutAside
  <2> QED BY <1>0, <1>5, <2>1, <2>2, LogStays
<1>6. CASE UNCHANGED <<log, archive, quarantine, identity, next>>
  BY <1>3, <1>5, <1>6 DEF TypeOK
<1>7. CASE CutLog
  <2>1. PICK r \in Row : /\ r.id = next /\ r.text # "glued" /\ log' \in File /\ log'.rows = log.rows \o <<r>>
                         /\ next' = next + 1 /\ next \in Nat /\ UNCHANGED <<archive, quarantine, identity>>
    BY <1>7, CutOnes
  <2>2. TypeOK'
    <3>1. next' \in Nat \ {0}
      BY <2>1
    <3> QED BY <1>3, <1>4, <2>1, <3>1 DEF TypeOK
  <2>3. Grows(r)
    BY <1>0, <2>1 DEF Grows
  <2> QED BY <2>2, <2>3, GrowthKeeps
<1>8. CASE CutAside
  <2> USE <1>3, <1>8 DEF TypeOK
  <2>1. log \in File /\ UNCHANGED <<log, next>>
    BY DEF CutAside
  <2>2. CASE pc = "archive" /\ (\E written \in CutRows(RowsAt(log, Archived(log))) : archive' = Cut(Glued(archive, written)))
             /\ UNCHANGED <<quarantine, identity>>
    <3>1. archive' \in File /\ Ids(Complete(archive)) \subseteq Ids(Complete(archive'))
      BY <2>1, <2>2, PutAsideRows, CutKeeps
    <3> QED BY <1>5, <2>1, <2>2, <3>1
  <2>3. CASE pc = "quarantine" /\ (\E written \in CutRows(BadLines(log)) : quarantine' = Cut(Glued(quarantine, written)))
             /\ UNCHANGED <<archive, identity>>
    <3>1. quarantine' \in File
      BY <2>1, <2>3, PutAsideRows, CutKeeps
    <3> QED BY <1>5, <2>1, <2>3, <3>1
  <2>4. CASE identity' = "torn" /\ UNCHANGED <<archive, quarantine>>
    BY <1>5, <2>1, <2>4
  <2> QED BY <2>2, <2>3, <2>4 DEF CutAside
<1> QED BY <1>6, <1>7, <1>8 DEF Crash

-----------------------------------------------------------------------------
(* The replacement of the log *)

\* A file of some of the rows that parse holds exactly those, in their order, and all of them parse.
LEMMA RowsReplaced ==
  ASSUME NEW f \in File, NEW idx \in SUBSET GoodIdx(f), NEW g, g = [rows |-> RowsAt(f, idx), cut |-> FALSE]
  PROVE  /\ g \in File /\ DOMAIN g.rows = 1..Cardinality(idx)
         /\ \A k \in DOMAIN g.rows : \E i \in idx : g.rows[k] = f.rows[i]
         /\ \A k, l \in DOMAIN g.rows : k < l => \E i, j \in idx : i < j /\ g.rows[k] = f.rows[i] /\ g.rows[l] = f.rows[j]
         /\ \A i \in idx : f.rows[i] \in Good(g)
         /\ GoodIdx(g) = DOMAIN g.rows
<1>1. idx \in SUBSET DOMAIN f.rows /\ idx \in SUBSET Nat /\ IsFiniteSet(idx)
  BY Indices
<1>2. /\ g.rows \in Seq(Row) /\ DOMAIN g.rows = 1..Cardinality(idx)
      /\ \A k \in 1..Cardinality(idx) : Position(idx, k) \in idx /\ g.rows[k] = f.rows[Position(idx, k)]
      /\ \A i \in idx : \E k \in 1..Cardinality(idx) : g.rows[k] = f.rows[i]
  BY <1>1, RowsAtThem
<1>3. g \in File /\ ~g.cut
  BY <1>2 DEF File
<1>4. \A k, l \in DOMAIN g.rows : k < l => \E i, j \in idx : i < j /\ g.rows[k] = f.rows[i] /\ g.rows[l] = f.rows[j]
  <2> SUFFICES ASSUME NEW k \in DOMAIN g.rows, NEW l \in DOMAIN g.rows, k < l
               PROVE  \E i, j \in idx : i < j /\ g.rows[k] = f.rows[i] /\ g.rows[l] = f.rows[j]
    OBVIOUS
  <2>1. k \in 1..Cardinality(idx) /\ l \in 1..Cardinality(idx)
    BY <1>2
  <2>2. Position(idx, k) < Position(idx, l)
    BY <1>1, <2>1, Positions
  <2> QED BY <1>2, <2>1, <2>2
<1>5. \A k \in DOMAIN g.rows : g.rows[k].text = "whole"
  BY <1>2 DEF GoodIdx, IsGood
<1>6. GoodIdx(g) = DOMAIN g.rows
  BY <1>3, <1>5 DEF GoodIdx, IsGood, Truncated
<1>7. \A i \in idx : f.rows[i] \in Good(g)
  BY <1>2, <1>6 DEF Good
<1>8. \A k \in DOMAIN g.rows : \E i \in idx : g.rows[k] = f.rows[i]
  BY <1>2
<1>9. g \in File /\ DOMAIN g.rows = 1..Cardinality(idx)
  BY <1>2, <1>3
<1> QED BY <1>4, <1>6, <1>7, <1>8, <1>9

\* What is kept parses, and counts pinned and unpinned rows apart.
LEMMA KeptOnes ==
  ASSUME NEW f \in File
  PROVE  /\ Kept(f) \in SUBSET GoodIdx(f)
         /\ PinnedKept(f) \in SUBSET PinnedIdx(f)
         /\ Newest(GoodIdx(f) \ PinnedIdx(f), Retain) \in SUBSET (GoodIdx(f) \ PinnedIdx(f))
         /\ Kept(f) = PinnedKept(f) \cup Newest(GoodIdx(f) \ PinnedIdx(f), Retain)
BY DEF Kept, PinnedKept, NewestRest, Newest, PinnedIdx

\* Rows with one id are one row.
LEMMA OneRowPerId ==
  ASSUME log \in File, InOrder
  PROVE  \A i, j \in DOMAIN log.rows : /\ log.rows[i].id \in Nat
                                       /\ log.rows[i].id = log.rows[j].id => i = j
                                       /\ log.rows[i].id > log.rows[j].id => i > j
<1> SUFFICES ASSUME NEW i \in DOMAIN log.rows, NEW j \in DOMAIN log.rows
             PROVE  /\ log.rows[i].id \in Nat
                    /\ log.rows[i].id = log.rows[j].id => i = j
                    /\ log.rows[i].id > log.rows[j].id => i > j
  OBVIOUS
<1>1. i \in Nat /\ j \in Nat /\ log.rows[i].id \in Nat /\ log.rows[j].id \in Nat
  BY Indices, IdsAreNumbers
<1>2. (i < j => log.rows[i].id < log.rows[j].id) /\ (j < i => log.rows[j].id < log.rows[i].id)
  BY DEF InOrder
<1> QED BY <1>1, <1>2

\* As many unpinned rows newer than a record as are to be kept: as many are left.
LEMMA AsManyAreLeft ==
  ASSUME log \in File, InOrder, Replace, NEW id,
         NEW U \in SUBSET (GoodIdx(log) \ PinnedIdx(log)),
         \A i \in U : log.rows[i].id > id,
         \A i \in U, j \in GoodIdx(log) \ PinnedIdx(log) : j > i => j \in U,
         Cardinality(U) >= Retain
  PROVE  Cardinality({q \in Good(log') : ~q.pinned /\ q.id > id}) >= Retain
<1> DEFINE S == GoodIdx(log) \ PinnedIdx(log)
           W == Newest(S, Retain) \cap U
           T == {q \in Good(log') : ~q.pinned /\ q.id > id}
           g == [i \in W |-> log.rows[i]]
<1>1. S \in SUBSET DOMAIN log.rows /\ S \in SUBSET Nat /\ IsFiniteSet(S) /\ W \in SUBSET DOMAIN log.rows
  BY Indices
<1>2. Retain \in Nat
  BY MemoryStoreAssumption
<1>3. Cardinality(W) >= Retain
  <2> HIDE DEF S
  <2>1. U \in SUBSET S
    BY DEF S
  <2>2. \A i \in U, j \in S : j > i => j \in U
    BY DEF S
  <2> QED BY <1>1, <1>2, <2>1, <2>2, NewestAreThere
<1>4. log' \in File /\ \A i \in Kept(log) : log.rows[i] \in Good(log')
  BY KeptOnes, RowsReplaced DEF Replace
<1>5. g \in Injection(W, T)
  <2>1. ASSUME NEW i \in W PROVE log.rows[i] \in T
    <3>1. i \in Kept(log) /\ i \in GoodIdx(log) /\ i \notin PinnedIdx(log) /\ log.rows[i].id > id
      BY KeptOnes
    <3>2. ~log.rows[i].pinned
      BY <3>1 DEF PinnedIdx
    <3> QED BY <1>4, <3>1, <3>2
  <2>2. \A i, j \in W : g[i] = g[j] => i = j
    BY <1>1, OneRowPerId
  <2> QED BY <2>1, <2>2 DEF Injection, IsInjective
<1>6. IsFiniteSet(T) /\ Cardinality(T) \in Nat /\ IsFiniteSet(W) /\ Cardinality(W) \in Nat
  <2>1. T \in SUBSET Good(log')
    OBVIOUS
  <2>2. IsFiniteSet(T) /\ Cardinality(T) \in Nat
    BY <1>4, <2>1, GoodIsFinite
  <2> QED BY <1>1, <2>2, Indices
<1> HIDE DEF T, W, g
<1>7. Cardinality(W) <= Cardinality(T)
  BY <1>5, <1>6, FS_Injection
<1>8. Cardinality(T) >= Retain
  BY <1>2, <1>3, <1>6, <1>7
<1> QED BY <1>8 DEF T

LEMMA ReplaceKeeps == ASSUME StoreInv, Replace PROVE StoreInv'
<1>0. TypeOK /\ InOrder /\ log \in File
  BY DEF StoreInv, TypeOK
<1>1. /\ pc = "replace" /\ pc' = "meta" /\ counts' = ExactCounts(log)
      /\ log' = [rows |-> RowsAt(log, Kept(log)), cut |-> FALSE]
      /\ UNCHANGED <<meta, archive, quarantine, identity, appended, next, crashes>>
  BY DEF Replace
<1>2. /\ log' \in File
      /\ \A k \in DOMAIN log'.rows : \E i \in Kept(log) : log'.rows[k] = log.rows[i]
      /\ \A k, l \in DOMAIN log'.rows : k < l => \E i, j \in Kept(log) : i < j /\ log'.rows[k] = log.rows[i] /\ log'.rows[l] = log.rows[j]
      /\ \A i \in Kept(log) : log.rows[i] \in Good(log')
  <2>1. Kept(log) \in SUBSET GoodIdx(log)
    BY <1>0, KeptOnes
  <2> QED BY <1>0, <1>1, <2>1, RowsReplaced
<1>3. Kept(log) \in SUBSET DOMAIN log.rows
  BY <1>0, KeptOnes, Indices
<1>4. TypeOK'
  <2>1. PinnedKept(log) \in SUBSET DOMAIN log.rows
    BY <1>0, KeptOnes, Indices
  <2>2. Cardinality(Kept(log)) \in Nat /\ Cardinality(PinnedKept(log)) \in Nat
    BY <1>0, <1>3, <2>1, Indices
  <2>3. counts' \in Counts
    BY <1>1, <2>2 DEF ExactCounts, Counts
  <2> QED BY <1>0, <1>1, <1>2, <2>3 DEF TypeOK, Place, Compacting
<1>5. InOrder'
  <2>1. \A k, l \in DOMAIN log'.rows : k < l => log'.rows[k].id < log'.rows[l].id
    BY <1>0, <1>2, <1>3 DEF InOrder
  <2>2. \A k \in DOMAIN log'.rows : log'.rows[k].id < next' /\ log'.rows[k].text # "glued"
    BY <1>0, <1>1, <1>2, <1>3 DEF InOrder
  <2>3. \A a \in appended' : a.id < next' /\ \A k \in DOMAIN log'.rows : log'.rows[k].id = a.id => log'.rows[k].pinned = a.pinned
    BY <1>0, <1>1, <1>2, <1>3 DEF InOrder
  <2> QED BY <1>1, <2>1, <2>2, <2>3 DEF InOrder
<1>6. PutAside'
  BY <1>1 DEF PutAside
<1>7. NewestSurvive'
  <2> SUFFICES ASSUME NEW a \in appended, ~a.pinned, a.id \notin Ids(Good(log'))
               PROVE  Cardinality({q \in Good(log') : ~q.pinned /\ q.id > a.id}) >= Retain
    BY <1>1 DEF NewestSurvive
  <2> DEFINE S == GoodIdx(log) \ PinnedIdx(log)
             U == {i \in S : log.rows[i].id > a.id}
             T == {q \in Good(log) : ~q.pinned /\ q.id > a.id}
  <2>0. Retain \in Nat /\ a.id \in Nat
    BY <1>0, MemoryStoreAssumption DEF TypeOK
  <2>1. S \in SUBSET DOMAIN log.rows /\ S \in SUBSET Nat /\ IsFiniteSet(S)
    BY <1>0, Indices
  <2>2. U \in SUBSET S /\ IsFiniteSet(U) /\ Cardinality(U) \in Nat
    BY <1>0, <2>1, Indices
  <2>3. \A i \in U, j \in S : j > i => j \in U
    <3> SUFFICES ASSUME NEW i \in U, NEW j \in S, j > i PROVE log.rows[j].id > a.id
      OBVIOUS
    <3>1. i \in Nat /\ j \in Nat /\ log.rows[i].id \in Nat /\ log.rows[j].id \in Nat /\ log.rows[i].id > a.id
      BY <1>0, <2>1, OneRowPerId
    <3>2. log.rows[i].id < log.rows[j].id
      BY <1>0, <2>1, <3>1 DEF InOrder
    <3> QED BY <2>0, <3>1, <3>2
  <2>4. Cardinality(U) >= Retain
    <3>1. CASE Cardinality(T) >= Retain
      <4> DEFINE g == [i \in U |-> log.rows[i]]
      <4>1. \A i \in U : log.rows[i] \in T
        BY DEF Good, PinnedIdx
      <4>2. ASSUME NEW q \in T PROVE \E i \in U : g[i] = q
        <5>1. PICK i \in GoodIdx(log) : log.rows[i] = q
          BY DEF Good
        <5>2. i \in U
          BY <5>1 DEF PinnedIdx
        <5> QED BY <5>1, <5>2
      <4>3. g \in Surjection(U, T)
        BY <4>1, <4>2 DEF Surjection
      <4>4. Cardinality(T) \in Nat
        <5>1. T \in SUBSET Good(log)
          OBVIOUS
        <5> QED BY <1>0, <5>1, GoodIsFinite
      <4> HIDE DEF U, T, g
      <4>5. Cardinality(T) <= Cardinality(U)
        BY <2>2, <4>3, FS_Surjection
      <4> QED BY <2>0, <2>2, <3>1, <4>4, <4>5
    <3>2. CASE a.id \in Ids(Good(log))
      <4>1. PICK i \in GoodIdx(log) : log.rows[i].id = a.id
        BY <3>2 DEF Ids, Good
      <4>2. i \in DOMAIN log.rows
        BY DEF GoodIdx
      <4>3. ~log.rows[i].pinned
        BY <1>0, <4>1, <4>2 DEF InOrder
      <4>4. i \in S
        BY <4>3 DEF PinnedIdx
      <4>5. i \notin Newest(S, Retain)
        BY <1>0, <1>2, <4>1, KeptOnes DEF Ids
      <4>6. U = {j \in S : j > i}
        <5>1. ASSUME NEW j \in S PROVE log.rows[j].id > a.id <=> j > i
          <6>1. i \in Nat /\ j \in Nat /\ j \in DOMAIN log.rows
            BY <2>1, <4>4
          <6>2. log.rows[i].id \in Nat /\ log.rows[j].id \in Nat
            BY <1>0, <4>2, <6>1, OneRowPerId
          <6>3. j > i => log.rows[i].id < log.rows[j].id
            BY <1>0, <4>2, <6>1 DEF InOrder
          <6>4. log.rows[j].id > log.rows[i].id => j > i
            BY <1>0, <4>2, <6>1, OneRowPerId
          <6> QED BY <4>1, <6>2, <6>3, <6>4
        <5> QED BY <5>1
      <4>7. ~(Cardinality(U) < Retain)
        BY <4>4, <4>5, <4>6 DEF Newest
      <4> HIDE DEF U
      <4> QED BY <2>0, <2>2, <4>7
    <3> QED BY <3>1, <3>2 DEF StoreInv, NewestSurvive
  <2>5. \A i \in U : log.rows[i].id > a.id
    OBVIOUS
  <2> HIDE DEF U
  <2> QED BY <1>0, <2>2, <2>3, <2>4, <2>5, AsManyAreLeft
<1>8. PinnedSurvive'
  <2> SUFFICES ASSUME NEW a \in appended, a.pinned
               PROVE  a.id \in Ids(Good(log')) \cup Ids(Complete(archive))
    BY <1>1 DEF PinnedSurvive
  <2>1. CASE a.id \in Ids(Complete(archive))
    BY <2>1
  <2>2. CASE a.id \in Ids(Good(log))
    <3>1. PICK i \in GoodIdx(log) : log.rows[i].id = a.id
      BY <2>2 DEF Ids, Good
    <3>2. i \in DOMAIN log.rows
      BY DEF GoodIdx
    <3>3. log.rows[i].pinned
      BY <1>0, <3>1, <3>2 DEF InOrder
    <3>4. i \in PinnedIdx(log)
      BY <3>3 DEF PinnedIdx
    <3>5. CASE i \in PinnedKept(log)
      BY <1>0, <1>2, <3>1, <3>5, KeptOnes DEF Ids
    <3>6. CASE i \in Archived(log)
      BY <1>1, <3>1, <3>6 DEF StoreInv, PutAside
    <3> QED BY <3>4, <3>5, <3>6 DEF Archived
  <2> QED BY <2>1, <2>2 DEF StoreInv, PinnedSurvive
<1> QED BY <1>4, <1>5, <1>6, <1>7, <1>8 DEF StoreInv

-----------------------------------------------------------------------------
(* Nothing is lost *)

LEMMA StoreInit == Init => StoreInv
<1> SUFFICES ASSUME Init PROVE StoreInv
  OBVIOUS
<1>1. EmptyFile \in File /\ EmptyFile.rows = <<>> /\ DOMAIN EmptyFile.rows = {} /\ Missing \in Counts
  BY DEF EmptyFile, File, Missing, Counts
<1>2. TypeOK
  BY <1>1 DEF Init, TypeOK, Place
<1>3. InOrder /\ PutAside
  BY <1>1 DEF Init, InOrder, PutAside
<1>4. NewestSurvive /\ PinnedSurvive
  BY DEF Init, NewestSurvive, PinnedSurvive
<1> QED BY <1>2, <1>3, <1>4 DEF StoreInv

LEMMA StoreStutters == ASSUME StoreInv, UNCHANGED vars PROVE StoreInv'
<1>1. TypeOK'
  BY DEF vars, files, StoreInv, TypeOK
<1>2. PutAside'
  BY DEF vars, files, StoreInv, PutAside
<1> QED BY <1>1, <1>2, LogStays DEF vars, files, StoreInv, InOrder

LEMMA StoreNext == StoreInv /\ [Next]_vars => StoreInv'
<1> SUFFICES ASSUME StoreInv, [Next]_vars PROVE StoreInv'
  OBVIOUS
<1>1. CASE BeginAppend \/ BeginCompact \/ WriteIdentity \/ WriteMeta
  BY <1>1, BeginKeeps
<1>2. CASE AppendRecord
  BY <1>2, AppendKeeps
<1>3. CASE QuarantineBad
  BY <1>3, QuarantineKeeps
<1>4. CASE ArchiveOld
  BY <1>4, ArchiveKeeps
<1>5. CASE Replace
  BY <1>5, ReplaceKeeps
<1>6. CASE Crash
  BY <1>6, CrashKeeps
<1>7. CASE UNCHANGED vars
  BY <1>7, StoreStutters
<1> QED BY <1>1, <1>2, <1>3, <1>4, <1>5, <1>6, <1>7 DEF Next

\* The inductive invariant holds throughout every run.
THEOREM StoreInvariance == Spec => []StoreInv
BY StoreInit, StoreNext, PTL DEF Spec

\* Retention and the deaths of writers cost no record that is among the newest (appendLine,
\* compactLocked): it is in the file, or as many newer ones as are kept are.
THEOREM TheNewestSurvive == Spec => []NewestSurvive
<1>1. StoreInv => NewestSurvive
  BY DEF StoreInv
<1> QED BY <1>1, StoreInvariance, PTL

\* A proven repair is in the file or in the archive, whenever its writers died (compactLocked
\* archives before it replaces).
THEOREM ThePinnedSurvive == Spec => []PinnedSurvive
<1>1. StoreInv => PinnedSurvive
  BY DEF StoreInv
<1> QED BY <1>1, StoreInvariance, PTL

\* No step takes a corrupt row out of the file before the quarantine holds it (compactLocked).
THEOREM TheCorruptIsQuarantined == Spec => CorruptIsQuarantined
<1> DEFINE Stays(i) == \/ \E j \in DOMAIN log'.rows : log'.rows[j].id = log.rows[i].id
                       \/ log.rows[i].id \in Ids(Complete(quarantine))
<1>1. ASSUME StoreInv, StoreInv', [Next]_vars PROVE [\A i \in Bad(log) : Stays(i)]_vars
  <2>1. Bad(log) \subseteq DOMAIN log.rows
    BY DEF Bad
  <2>2. log \in File /\ log' \in File
    BY <1>1 DEF StoreInv, TypeOK
  <2>3. CASE UNCHANGED log
    BY <2>1, <2>3
  <2>4. CASE Replace
    BY <1>1, <2>4 DEF Replace, StoreInv, PutAside
  <2>5. ASSUME NEW r, log'.rows = log.rows \o <<r>> PROVE \A i \in Bad(log) : Stays(i)
    <3>1. log.rows \in Seq(Row) /\ DOMAIN log.rows = 1..Len(log.rows) /\ Len(log.rows) \in Nat
      BY <2>2, Indices DEF File
    <3>2. \A i \in DOMAIN log.rows : i \in DOMAIN log'.rows /\ log'.rows[i] = log.rows[i]
      BY <2>5, <3>1
    <3> QED BY <2>1, <3>2
  <2>6. CASE AppendRecord
    <3>1. PICK pinned \in BOOLEAN : log' = AppendTo(log, <<[id |-> next, pinned |-> pinned, text |-> "whole"]>>)
      BY <2>6 DEF AppendRecord
    <3>2. log'.rows = log.rows \o <<[id |-> next, pinned |-> pinned, text |-> "whole"]>>
      BY <3>1 DEF AppendTo, Completed
    <3> QED BY <2>5, <3>2
  <2>7. CASE CutLog
    <3>1. \E r : log'.rows = log.rows \o <<r>>
      BY <1>1, <2>7, CutOnes
    <3> QED BY <2>5, <3>1
  <2>8. CASE BeginAppend \/ BeginCompact \/ WriteIdentity \/ WriteMeta \/ QuarantineBad \/ ArchiveOld \/ CutAside
    BY <2>3, <2>8 DEF BeginAppend, BeginCompact, Begin, WriteIdentity, WriteMeta, QuarantineBad, ArchiveOld, CutAside, files
  <2>9. CASE Crash
    BY <2>3, <2>7, <2>8, <2>9 DEF Crash
  <2>10. CASE UNCHANGED vars
    BY <2>10
  <2> QED BY <1>1, <2>4, <2>6, <2>8, <2>9, <2>10 DEF Next
<1> QED BY <1>1, StoreInvariance, PTL DEF Spec, CorruptIsQuarantined

-----------------------------------------------------------------------------
(* How far the file outgrows its retention *)

\* Unpinned rows and good pinned ones are different rows.
LEMMA PlainOnes ==
  ASSUME NEW f \in File
  PROVE  /\ Plain(f) \in SUBSET DOMAIN f.rows /\ IsFiniteSet(Plain(f)) /\ Cardinality(Plain(f)) \in Nat
         /\ Len(f.rows) \in Nat /\ Cardinality(PinnedIdx(f)) \in Nat
         /\ Cardinality(Plain(f)) + Cardinality(PinnedIdx(f)) <= Len(f.rows)
<1> DEFINE D == DOMAIN f.rows
<1>1. Plain(f) \in SUBSET D /\ PinnedIdx(f) \in SUBSET D /\ Plain(f) \cap PinnedIdx(f) = {}
  BY Indices DEF Plain, PinnedIdx
<1>2. D = 1..Len(f.rows) /\ Len(f.rows) \in Nat /\ IsFiniteSet(D)
  BY Indices
<1>3. Cardinality(D) = Len(f.rows)
  BY <1>2, FS_Interval
<1>4. /\ IsFiniteSet(Plain(f)) /\ Cardinality(Plain(f)) \in Nat
      /\ IsFiniteSet(PinnedIdx(f)) /\ Cardinality(PinnedIdx(f)) \in Nat
  BY <1>1, Indices
<1>5. /\ IsFiniteSet(Plain(f) \cup PinnedIdx(f))
      /\ Cardinality(Plain(f) \cup PinnedIdx(f)) = Cardinality(Plain(f)) + Cardinality(PinnedIdx(f)) - Cardinality({})
  BY <1>1, <1>4, FS_Union
<1>6. Cardinality(Plain(f) \cup PinnedIdx(f)) <= Cardinality(D)
  BY <1>1, <1>2, FS_Subset
<1>7. Cardinality({}) = 0
  BY FS_EmptySet
<1> QED BY <1>1, <1>2, <1>3, <1>4, <1>5, <1>6, <1>7

\* An appended row adds itself.
LEMMA PlainGrows ==
  ASSUME log \in File, NEW r \in Row, log' \in File, log'.rows = log.rows \o <<r>>
  PROVE  PlainRows' = PlainRows + (IF r.pinned THEN 0 ELSE 1)
<1> DEFINE n == Len(log.rows) + 1
<1>1. /\ DOMAIN log'.rows = DOMAIN log.rows \cup {n} /\ log'.rows[n] = r
      /\ \A i \in DOMAIN log.rows : log'.rows[i] = log.rows[i] /\ i < n
  BY LogGrows
<1>2. n \notin DOMAIN log.rows
  <2>1. n \in Nat
    <3>1. Len(log.rows) \in Nat
      BY Indices
    <3> QED BY <3>1
  <2> HIDE DEF n
  <2> QED BY <1>1, <2>1
<1> HIDE DEF n
<1>3. Plain(log') = Plain(log) \cup (IF r.pinned THEN {} ELSE {n})
  BY <1>1, <1>2 DEF Plain
<1>4. n \notin Plain(log) /\ IsFiniteSet(Plain(log)) /\ Cardinality(Plain(log)) \in Nat
  BY <1>2, PlainOnes
<1>5. PlainRows = Cardinality(Plain(log)) /\ PlainRows' = Cardinality(Plain(log'))
  BY DEF PlainRows
<1>6. CASE r.pinned
  BY <1>3, <1>4, <1>5, <1>6
<1>7. CASE ~r.pinned
  <2>1. Cardinality(Plain(log) \cup {n}) = Cardinality(Plain(log)) + 1
    BY <1>4, FS_AddElement
  <2> QED BY <1>3, <1>4, <1>5, <1>7, <2>1
<1> QED BY <1>6, <1>7

\* The replacement leaves no more unpinned rows than the retention, nor than there were, and its
\* counts are exact.
LEMMA PlainReplaced ==
  ASSUME log \in File, Replace
  PROVE  /\ PlainRows' <= PlainRows
         /\ PlainRows' <= counts'.lines - counts'.pinned
         /\ counts'.lines - counts'.pinned <= Retain
         /\ counts'.there
<1> DEFINE S == GoodIdx(log) \ PinnedIdx(log)
           R == Newest(S, Retain)
           P == PinnedKept(log)
           K == Kept(log)
           c == Cardinality(K)
<1>1. S \in SUBSET DOMAIN log.rows /\ S \in SUBSET Nat /\ IsFiniteSet(S) /\ K \in SUBSET DOMAIN log.rows
  BY KeptOnes, Indices
<1>2. Retain \in Nat
  BY MemoryStoreAssumption
<1>3. R \in SUBSET S /\ IsFiniteSet(R) /\ Cardinality(R) <= Retain
  <2> HIDE DEF S
  <2> QED BY <1>1, <1>2, NewestAreFew
<1>4. K = P \cup R /\ P \cap R = {} /\ P \in SUBSET DOMAIN log.rows /\ P \in SUBSET PinnedIdx(log)
  BY KeptOnes, Indices
<1>5. Cardinality(K) \in Nat /\ Cardinality(P) \in Nat /\ Cardinality(R) \in Nat /\ IsFiniteSet(P)
  BY <1>1, <1>3, <1>4, Indices
<1>6. Cardinality(K) = Cardinality(P) + Cardinality(R)
  <2>1. Cardinality(P \cup R) = Cardinality(P) + Cardinality(R) - Cardinality(P \cap R)
    BY <1>3, <1>5, FS_Union
  <2>2. Cardinality(P \cap R) = 0
    BY <1>4, FS_EmptySet
  <2> HIDE DEF P, R, K
  <2> QED BY <1>4, <1>5, <2>1, <2>2
<1>7. counts' = [lines |-> Cardinality(K), pinned |-> Cardinality(P), there |-> TRUE]
  BY DEF Replace, ExactCounts
<1>8. Cardinality(Plain(log')) <= Cardinality(R)
  <2>1. log' = [rows |-> RowsAt(log, K), cut |-> FALSE]
    BY DEF Replace
  <2>2. /\ DOMAIN log'.rows = 1..Cardinality(K)
        /\ \A k \in 1..Cardinality(K) : Position(K, k) \in K /\ log'.rows[k] = log.rows[Position(K, k)]
    BY <1>1, <2>1, RowsAtThem
  <2>3. log' \in File
    BY <2>1, KeptOnes, RowsReplaced
  <2> DEFINE g == [k \in Plain(log') |-> Position(K, k)]
  <2>4. Plain(log') \in SUBSET (1..Cardinality(K)) /\ IsFiniteSet(Plain(log'))
    BY <2>2, <2>3, PlainOnes
  <2>5. \A k \in Plain(log') : Position(K, k) \in R
    <3> SUFFICES ASSUME NEW k \in Plain(log') PROVE Position(K, k) \in R
      OBVIOUS
    <3>1. Position(K, k) \in K /\ log'.rows[k] = log.rows[Position(K, k)]
      BY <2>2, <2>4
    <3>2. ~log'.rows[k].pinned
      BY DEF Plain
    <3>3. Position(K, k) \notin PinnedIdx(log)
      BY <3>1, <3>2 DEF PinnedIdx
    <3> HIDE DEF P, K, R
    <3> QED BY <1>4, <3>1, <3>3
  <2>6. \A k, l \in Plain(log') : g[k] = g[l] => k = l
    <3> SUFFICES ASSUME NEW k \in Plain(log'), NEW l \in Plain(log'), Position(K, k) = Position(K, l) PROVE k = l
      OBVIOUS
    <3>1. K \in SUBSET Nat /\ IsFiniteSet(K)
      BY <1>1, Indices
    <3>2. \A i, j \in 1..Cardinality(K) : i < j => Position(K, i) < Position(K, j)
      BY <3>1, Positions
    <3>3. k \in 1..Cardinality(K) /\ l \in 1..Cardinality(K)
      BY <2>4
    <3>4. Position(K, k) \in Nat
      BY <2>2, <3>1, <3>3
    <3> HIDE DEF K
    <3>5. ~(k < l) /\ ~(l < k)
      BY <3>2, <3>3, <3>4
    <3> QED BY <1>5, <3>3, <3>5 DEF K
  <2>7. g \in Injection(Plain(log'), R)
    BY <2>5, <2>6 DEF Injection, IsInjective
  <2> HIDE DEF g, R
  <2> QED BY <1>3, <2>7, FS_Injection
<1>9. Cardinality(R) <= Cardinality(Plain(log))
  <2>1. R \in SUBSET Plain(log)
    BY <1>1, <1>3 DEF Plain, PinnedIdx
  <2> QED BY <2>1, PlainOnes, FS_Subset
<1>10. Cardinality(Plain(log)) \in Nat /\ Cardinality(Plain(log')) \in Nat
  <2>1. log' \in File
    BY KeptOnes, RowsReplaced DEF Replace
  <2> QED BY <2>1, PlainOnes
<1>11. PlainRows = Cardinality(Plain(log)) /\ PlainRows' = Cardinality(Plain(log'))
  BY DEF PlainRows
<1> HIDE DEF P, R, K
<1>12. counts'.lines = Cardinality(K) /\ counts'.pinned = Cardinality(P) /\ counts'.there
  BY <1>7
<1> QED BY <1>2, <1>3, <1>5, <1>6, <1>8, <1>9, <1>10, <1>11, <1>12

\* Where the counts lag by n they lag by no more than a larger n.
LEMMA LagMore ==
  ASSUME log \in File, NEW c \in Counts, NEW m \in Nat, NEW n \in Nat, m <= n, Lags(c, m)
  PROVE  Lags(c, n)
<1>1. PlainRows \in Nat
  BY PlainOnes DEF PlainRows
<1>2. c.lines \in Nat /\ c.pinned \in Nat
  BY DEF Counts
<1> QED BY <1>1, <1>2 DEF Lags

\* An appended row lets the counts that were not rewritten lag by one more.
LEMMA LagGrows ==
  ASSUME log \in File, log' \in File, NEW r \in Row, log'.rows = log.rows \o <<r>>,
         meta \in Counts, UNCHANGED meta, NEW n \in Nat, Lags(meta, n)
  PROVE  /\ meta.there => PlainRows' <= meta.lines - meta.pinned + (n + 1) /\ meta.lines - meta.pinned <= Ceil10(Retain)
         /\ ~meta.there => PlainRows' <= n + 1
<1>1. PlainRows \in Nat /\ PlainRows' = PlainRows + (IF r.pinned THEN 0 ELSE 1)
  BY PlainOnes, PlainGrows DEF PlainRows
<1>2. meta.lines \in Nat /\ meta.pinned \in Nat
  BY DEF Counts
<1>3. PlainRows' <= PlainRows + 1
  BY <1>1
<1> QED BY <1>1, <1>2, <1>3 DEF Lags

LEMMA CountsInit == Init => CountsFollow
<1> SUFFICES ASSUME Init PROVE CountsFollow
  OBVIOUS
<1>1. EmptyFile \in File /\ DOMAIN EmptyFile.rows = {}
  BY DEF EmptyFile, File
<1>2. Plain(log) = {} /\ PlainRows = 0
  BY <1>1, FS_EmptySet DEF Init, Plain, PlainRows
<1> QED BY <1>2 DEF Init, CountsFollow, Lags, Missing, Compacting

\* Before its counts are written, they are those of the file with the row, if they were read there.
LEMMA AppendFollows ==
  ASSUME StoreInv, StoreInv', CountsFollow, AppendRecord
  PROVE  CountsFollow'
<1>0. log \in File /\ log' \in File /\ meta \in Counts /\ crashes \in Nat /\ counts' \in Counts
  BY DEF StoreInv, TypeOK
<1>1. PICK pinned \in BOOLEAN :
        LET c == [ReadMeta EXCEPT !.lines = @ + 1, !.pinned = @ + (IF pinned THEN 1 ELSE 0)]
        IN  /\ log' = AppendTo(log, <<[id |-> next, pinned |-> pinned, text |-> "whole"]>>)
            /\ counts' = c
            /\ pc' = IF Over(c) THEN "quarantine" ELSE "meta"
  BY DEF AppendRecord
<1> DEFINE r == [id |-> next, pinned |-> pinned, text |-> "whole"]
           m == ReadMeta
<1>2. pc = "append" /\ UNCHANGED <<meta, crashes>> /\ Lags(meta, crashes)
  BY DEF AppendRecord, CountsFollow, Compacting
<1>3. next \in 1..MaxRecords
  <2>1. next \in Nat /\ next # 0 /\ MaxRecords \in Nat
    BY MemoryStoreAssumption DEF StoreInv, TypeOK
  <2>2. next <= MaxRecords
    BY <1>2 DEF StoreInv, InOrder
  <2> QED BY <2>1, <2>2
<1>4. r \in Row /\ r.pinned = pinned /\ log'.rows = log.rows \o <<r>>
  BY <1>1, <1>3 DEF Row, AppendTo, Completed
<1> HIDE DEF r
<1>5. Lags(meta, crashes + 1)'
  <2>1. /\ meta.there => PlainRows' <= meta.lines - meta.pinned + (crashes + 1) /\ meta.lines - meta.pinned <= Ceil10(Retain)
        /\ ~meta.there => PlainRows' <= crashes + 1
    BY <1>0, <1>2, <1>4, LagGrows
  <2> QED BY <1>2, <2>1 DEF Lags
<1>6. m \in Counts /\ m.there /\ PlainRows <= m.lines - m.pinned + crashes
  <2>1. CASE meta.there
    BY <1>0, <1>2, <2>1 DEF ReadMeta, Lags
  <2>2. CASE ~meta.there
    <3>1. m = [lines |-> Len(log.rows), pinned |-> Cardinality(PinnedIdx(log)), there |-> TRUE]
      BY <2>2 DEF ReadMeta
    <3>2. Len(log.rows) \in Nat /\ Cardinality(PinnedIdx(log)) \in Nat /\ PlainRows \in Nat
          /\ PlainRows + Cardinality(PinnedIdx(log)) <= Len(log.rows)
      BY <1>0, PlainOnes DEF PlainRows
    <3> HIDE DEF m
    <3>3. m.lines = Len(log.rows) /\ m.pinned = Cardinality(PinnedIdx(log)) /\ m.there /\ m \in Counts
      BY <3>1, <3>2 DEF Counts
    <3>4. PlainRows <= m.lines - m.pinned + crashes
      BY <1>0, <3>2, <3>3
    <3> QED BY <3>3, <3>4
  <2> QED BY <2>1, <2>2
<1>7. m.lines \in Nat /\ m.pinned \in Nat
      /\ m = [lines |-> m.lines, pinned |-> m.pinned, there |-> m.there]
  BY <1>6 DEF Counts
<1>8. counts' = [m EXCEPT !.lines = @ + 1, !.pinned = @ + (IF pinned THEN 1 ELSE 0)]
  BY <1>1
<1> HIDE DEF m
<1>9. counts'.lines = m.lines + 1 /\ counts'.pinned = m.pinned + (IF pinned THEN 1 ELSE 0) /\ counts'.there
  BY <1>6, <1>7, <1>8
<1>10. PlainRows' = PlainRows + (IF pinned THEN 0 ELSE 1) /\ PlainRows \in Nat
  BY <1>0, <1>4, PlainGrows, PlainOnes DEF PlainRows
<1>11. PlainRows' <= counts'.lines - counts'.pinned + crashes
  BY <1>0, <1>6, <1>7, <1>9, <1>10
<1>12. pc' = "meta" => ~Over(counts')
  BY <1>1
<1>13. pc' = "meta" => counts'.lines - counts'.pinned <= Ceil10(Retain)
  <2>1. Retain \in Nat /\ Ceil10(Retain) \in Nat
    BY MemoryStoreAssumption DEF Ceil10
  <2>2. counts'.lines - counts'.pinned \in Int
    BY <1>7, <1>9
  <2> QED BY <1>12, <2>1, <2>2 DEF Over
<1>14. pc' = "meta" => counts'.there /\ Lags(counts, crashes)'
  BY <1>2, <1>9, <1>11, <1>13 DEF Lags
<1>15. pc' \in Compacting \cup {"meta"}
  BY <1>1 DEF Compacting
<1> QED BY <1>5, <1>14, <1>15 DEF CountsFollow

LEMMA CrashFollows ==
  ASSUME StoreInv, StoreInv', CountsFollow, Crash
  PROVE  CountsFollow'
<1>0. log \in File /\ log' \in File /\ meta \in Counts /\ crashes \in Nat
  BY DEF StoreInv, TypeOK
<1>1. pc' = "idle" /\ crashes' = crashes + 1 /\ UNCHANGED meta
  BY DEF Crash
<1>2. Lags(meta, crashes + 1)
  BY <1>0, LagMore DEF CountsFollow
<1>3. Lags(meta, crashes)'
  <2>1. CASE UNCHANGED log
    <3>1. PlainRows' = PlainRows
      BY <2>1 DEF PlainRows, Plain
    <3> QED BY <1>1, <1>2, <3>1 DEF Lags
  <2>2. CASE CutLog
    <3>1. PICK r \in Row : log'.rows = log.rows \o <<r>>
      BY <2>2, CutOnes
    <3>2. Lags(meta, crashes)
      BY <2>2 DEF CountsFollow, CutLog, Compacting
    <3>3. /\ meta.there => PlainRows' <= meta.lines - meta.pinned + (crashes + 1) /\ meta.lines - meta.pinned <= Ceil10(Retain)
          /\ ~meta.there => PlainRows' <= crashes + 1
      BY <1>0, <1>1, <3>1, <3>2, LagGrows
    <3> QED BY <1>1, <3>3 DEF Lags
  <2> QED BY <2>1, <2>2 DEF Crash, CutAside
<1> QED BY <1>1, <1>3 DEF CountsFollow, Compacting

LEMMA CountsNext ==
  ASSUME StoreInv, StoreInv', CountsFollow, [Next]_vars
  PROVE  CountsFollow'
<1>0. log \in File /\ meta \in Counts /\ counts \in Counts /\ crashes \in Nat
  BY DEF StoreInv, TypeOK
<1>1. ASSUME UNCHANGED <<log, meta, crashes>>,
             pc \in Compacting \cup {"meta"} => pc' \in Compacting \cup {"meta"},
             pc' = "meta" => pc = "meta" /\ UNCHANGED counts
      PROVE  CountsFollow'
  <2>1. PlainRows' = PlainRows
    BY <1>1 DEF PlainRows, Plain
  <2> DEFINE n == IF pc \in Compacting \cup {"meta"} THEN crashes + 1 ELSE crashes
             m == IF pc' \in Compacting \cup {"meta"} THEN crashes + 1 ELSE crashes
  <2>2. Lags(meta, n)
    BY DEF CountsFollow
  <2>3. n \in Nat /\ m \in Nat /\ n <= m
    BY <1>0, <1>1
  <2> HIDE DEF n, m
  <2>4. Lags(meta, m)
    BY <1>0, <2>2, <2>3, LagMore
  <2>5. Lags(meta, IF pc \in Compacting \cup {"meta"} THEN crashes + 1 ELSE crashes)'
    BY <1>1, <2>1, <2>4 DEF Lags, m, Compacting
  <2>6. (pc = "meta" => counts.there /\ Lags(counts, crashes))'
    BY <1>1, <2>1 DEF CountsFollow, Lags
  <2> QED BY <2>5, <2>6 DEF CountsFollow
<1>2. CASE BeginAppend \/ BeginCompact \/ WriteIdentity \/ QuarantineBad \/ ArchiveOld
  BY <1>1, <1>2 DEF BeginAppend, BeginCompact, Begin, WriteIdentity, QuarantineBad, ArchiveOld, Compacting, files
<1>3. CASE AppendRecord
  BY <1>3, AppendFollows
<1>4. CASE Crash
  BY <1>4, CrashFollows
<1>5. CASE Replace
  <2>1. pc \in Compacting /\ pc' = "meta" /\ UNCHANGED <<meta, crashes>>
    BY <1>5 DEF Replace, Compacting
  <2>2. Lags(meta, crashes + 1)
    BY <2>1 DEF CountsFollow
  <2>3. /\ PlainRows' <= PlainRows
        /\ PlainRows' <= counts'.lines - counts'.pinned
        /\ counts'.lines - counts'.pinned <= Retain
        /\ counts'.there
    BY <1>0, <1>5, PlainReplaced
  <2>4. PlainRows \in Nat /\ PlainRows' \in Nat
    BY <1>0, PlainOnes DEF PlainRows, StoreInv, TypeOK
  <2>5. counts' \in Counts
    BY DEF StoreInv, TypeOK
  <2>6. counts'.lines \in Nat /\ counts'.pinned \in Nat /\ meta.lines \in Nat /\ meta.pinned \in Nat
    BY <1>0, <2>5 DEF Counts
  <2>7. Retain \in Nat /\ Ceil10(Retain) >= Retain /\ Ceil10(Retain) \in Nat
    BY MemoryStoreAssumption DEF Ceil10
  <2>8. /\ meta.there => PlainRows' <= meta.lines - meta.pinned + (crashes + 1) /\ meta.lines - meta.pinned <= Ceil10(Retain)
        /\ ~meta.there => PlainRows' <= crashes + 1
    BY <1>0, <2>2, <2>3, <2>4, <2>6 DEF Lags
  <2>9. Lags(meta, crashes + 1)'
    BY <2>1, <2>8 DEF Lags
  <2>10. counts'.lines - counts'.pinned <= Ceil10(Retain)
    BY <2>3, <2>6, <2>7
  <2>11. PlainRows' <= counts'.lines - counts'.pinned + crashes
    BY <1>0, <2>3, <2>4, <2>6
  <2>12. Lags(counts, crashes)'
    BY <2>1, <2>3, <2>10, <2>11 DEF Lags
  <2> QED BY <2>1, <2>3, <2>9, <2>12 DEF CountsFollow
<1>6. CASE WriteMeta
  <2>1. pc = "meta" /\ pc' = "idle" /\ meta' = counts /\ UNCHANGED <<log, crashes>>
    BY <1>6 DEF WriteMeta
  <2>2. Lags(counts, crashes)
    BY <2>1 DEF CountsFollow
  <2>3. Lags(meta, crashes)'
    BY <2>1, <2>2 DEF Lags, PlainRows, Plain
  <2> QED BY <2>1, <2>3 DEF CountsFollow, Compacting
<1>7. CASE UNCHANGED vars
  BY <1>1, <1>7 DEF vars, files
<1> QED BY <1>2, <1>3, <1>4, <1>5, <1>6, <1>7 DEF Next

\* The file holds at most a tenth more unpinned rows than the retention, and one more for each
\* writer that died: the counts, which decide without a rescan, lag by no more (appendLine).
THEOREM TheFileStaysSmall == Spec => []RetentionBound
<1>1. ASSUME StoreInv, StoreInv', CountsFollow, [Next]_vars PROVE CountsFollow'
  BY <1>1, CountsNext
<1>2. ASSUME StoreInv, CountsFollow PROVE RetentionBound
  <2> SUFFICES ASSUME pc = "idle" PROVE PlainRows <= Ceil10(Retain) + crashes
    BY DEF RetentionBound
  <2>1. Lags(meta, crashes)
    BY <1>2 DEF CountsFollow, Compacting
  <2>2. log \in File /\ meta \in Counts /\ crashes \in Nat
    BY <1>2 DEF StoreInv, TypeOK
  <2>3. PlainRows \in Nat /\ meta.lines \in Nat /\ meta.pinned \in Nat
    BY <2>2, PlainOnes DEF PlainRows, Counts
  <2>4. Retain \in Nat /\ Ceil10(Retain) \in Nat
    BY MemoryStoreAssumption DEF Ceil10
  <2> QED BY <2>1, <2>2, <2>3, <2>4 DEF Lags
<1>3. CountsFollow /\ StoreInv /\ [](StoreInv) /\ [][Next]_vars => []CountsFollow
  BY <1>1, PTL
<1> QED BY <1>2, <1>3, CountsInit, StoreInit, StoreInvariance, PTL DEF Spec

=============================================================================
