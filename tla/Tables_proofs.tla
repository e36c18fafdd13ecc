---------------------------- MODULE Tables_proofs ----------------------------
(***************************************************************************)
(* What the operations of Tables return, for tables of every length.       *)
(***************************************************************************)
EXTENDS Tables, FiniteSetTheorems, WellFoundedInduction, TLAPS

Less == {p \in Nat \X Nat : p[1] < p[2]}

LEMMA LessIsWellFounded == IsWellFoundedOn(Less, Nat)
<1>1. Less = OpToRel(<, Nat)
  BY DEF Less, OpToRel
<1>2. QED
  BY <1>1, NatLessThanWellFounded

\* A non-empty set of naturals has a least element: induction over data is by
\* a least counterexample.
LEMMA LeastNatural ==
  ASSUME NEW S \in SUBSET Nat, S # {}
  PROVE  \E n \in S : \A k \in S : n <= k
<1>1. PICK n \in S : \A k \in S : <<k, n>> \notin Less
  BY WFMin, LessIsWellFounded
<1>2. ASSUME NEW k \in S PROVE n <= k
  <2>1. n \in Nat /\ k \in Nat /\ <<k, n>> \in Nat \X Nat
    OBVIOUS
  <2>2. ~(<<k, n>>[1] < <<k, n>>[2])
    BY <1>1, <2>1 DEF Less
  <2>3. QED
    BY <2>1, <2>2
<1>3. QED
  BY <1>2

-----------------------------------------------------------------------------
(* tables *)

\* A table is a sequence of whatever rows.
IsTable(rows) == rows \in Seq({rows[i] : i \in DOMAIN rows})

LEMMA TableShape ==
  ASSUME NEW rows, IsTable(rows)
  PROVE  /\ Len(rows) \in Nat /\ DOMAIN rows = 1..Len(rows)
         /\ rows = [i \in 1..Len(rows) |-> rows[i]]
BY DEF IsTable

LEMMA TableIntro ==
  ASSUME NEW n \in Nat, NEW rows, rows = [i \in 1..n |-> rows[i]]
  PROVE  IsTable(rows) /\ Len(rows) = n /\ DOMAIN rows = 1..n
<1>1. DOMAIN rows = 1..n
  OBVIOUS
<1>2. rows \in [1..n -> {rows[i] : i \in DOMAIN rows}]
  BY <1>1
<1>3. rows \in Seq({rows[i] : i \in DOMAIN rows})
  BY <1>2
<1>4. QED
  BY <1>1, <1>3 DEF IsTable

\* df.apply: a row for a row.
LEMMA MappedTable ==
  ASSUME NEW rows, IsTable(rows), NEW new, new = [i \in DOMAIN rows |-> new[i]]
  PROVE  IsTable(new) /\ Len(new) = Len(rows) /\ DOMAIN new = DOMAIN rows
<1>1. Len(rows) \in Nat /\ DOMAIN rows = 1..Len(rows)
  BY TableShape
<1>2. QED
  BY <1>1, TableIntro

\* pd.concat of two tables.
LEMMA ConcatOfTables ==
  ASSUME NEW a, IsTable(a), NEW b, IsTable(b)
  PROVE  /\ IsTable(a \o b) /\ Len(a \o b) = Len(a) + Len(b)
         /\ \A i \in DOMAIN a : i \in DOMAIN (a \o b) /\ (a \o b)[i] = a[i]
         /\ \A j \in DOMAIN b : Len(a) + j \in DOMAIN (a \o b) /\ (a \o b)[Len(a) + j] = b[j]
         /\ \A k \in DOMAIN (a \o b) :
              \/ k \in DOMAIN a /\ (a \o b)[k] = a[k]
              \/ \E j \in DOMAIN b : k = Len(a) + j /\ (a \o b)[k] = b[j]
<1> DEFINE S == {a[i] : i \in DOMAIN a} \cup {b[i] : i \in DOMAIN b}
<1>1. a \in Seq(S) /\ b \in Seq(S)
  <2>1. /\ Len(a) \in Nat /\ DOMAIN a = 1..Len(a) /\ a = [i \in 1..Len(a) |-> a[i]]
        /\ Len(b) \in Nat /\ DOMAIN b = 1..Len(b) /\ b = [i \in 1..Len(b) |-> b[i]]
    BY TableShape
  <2>2. a \in [1..Len(a) -> S] /\ b \in [1..Len(b) -> S]
    BY <2>1
  <2>3. QED
    BY <2>1, <2>2
<1> HIDE DEF S
<1>2. /\ a \o b \in Seq(S) /\ Len(a \o b) = Len(a) + Len(b)
      /\ \A i \in 1..(Len(a) + Len(b)) :
           (a \o b)[i] = IF i <= Len(a) THEN a[i] ELSE b[i - Len(a)]
  BY <1>1
<1> DEFINE c == a \o b
<1> HIDE DEF c
<1>3. /\ Len(a) \in Nat /\ DOMAIN a = 1..Len(a) /\ Len(b) \in Nat /\ DOMAIN b = 1..Len(b)
      /\ c = [i \in 1..Len(c) |-> c[i]] /\ Len(c) = Len(a) + Len(b) /\ DOMAIN c = 1..(Len(a) + Len(b))
      /\ \A i \in 1..(Len(a) + Len(b)) : c[i] = IF i <= Len(a) THEN a[i] ELSE b[i - Len(a)]
  <2>1. Len(a) \in Nat /\ DOMAIN a = 1..Len(a) /\ Len(b) \in Nat /\ DOMAIN b = 1..Len(b)
    BY TableShape
  <2>2. c \in Seq(S) /\ Len(c) = Len(a) + Len(b)
    BY <1>2 DEF c
  <2>3. c = [i \in 1..Len(c) |-> c[i]] /\ DOMAIN c = 1..(Len(a) + Len(b))
    BY <2>2
  <2>4. \A i \in 1..(Len(a) + Len(b)) : c[i] = IF i <= Len(a) THEN a[i] ELSE b[i - Len(a)]
    BY <1>2 DEF c
  <2>5. QED
    BY <2>1, <2>2, <2>3, <2>4
<1>4. IsTable(c)
  BY <1>3, TableIntro
<1>5. \A i \in DOMAIN a : i \in DOMAIN c /\ c[i] = a[i]
  BY <1>3
<1>6. ASSUME NEW j \in DOMAIN b PROVE Len(a) + j \in DOMAIN c /\ c[Len(a) + j] = b[j]
  <2>1. Len(a) + j \in 1..(Len(a) + Len(b)) /\ ~(Len(a) + j <= Len(a)) /\ (Len(a) + j) - Len(a) = j
    BY <1>3
  <2>2. QED
    BY <1>3, <2>1
<1>7. ASSUME NEW k \in DOMAIN c
      PROVE  \/ k \in DOMAIN a /\ c[k] = a[k]
             \/ \E j \in DOMAIN b : k = Len(a) + j /\ c[k] = b[j]
  <2>1. CASE k <= Len(a)
    BY <1>3, <2>1
  <2>2. CASE ~(k <= Len(a))
    <3>1. k - Len(a) \in DOMAIN b /\ k = Len(a) + (k - Len(a)) /\ c[k] = b[k - Len(a)]
      BY <1>3, <2>2
    <3>2. QED
      BY <3>1
  <2>3. QED
    BY <2>1, <2>2
<1>8. QED
  BY <1>3, <1>4, <1>5, <1>6, <1>7 DEF c

-----------------------------------------------------------------------------
(* RowsAt *)

\* The positions of a set in order, as RowsAt takes them.
OrderOf(at) ==
  [n \in 1..Cardinality(at) |-> CHOOSE i \in at : Cardinality({j \in at : j < i}) = n - 1]

\* Whatever the set, the order goes through it once, upwards.
LEMMA OrderIsSorted ==
  ASSUME NEW at \in SUBSET Nat, IsFiniteSet(at)
  PROVE  /\ Cardinality(at) \in Nat
         /\ OrderOf(at) \in [1..Cardinality(at) -> at]
         /\ \A m, n \in 1..Cardinality(at) : m < n => OrderOf(at)[m] < OrderOf(at)[n]
         /\ \A i \in at : \E n \in 1..Cardinality(at) : OrderOf(at)[n] = i
<1> DEFINE Below(i) == {j \in at : j < i}
           c == Cardinality(at)
           rank == [i \in at |-> Cardinality(Below(i))]
<1>1. c \in Nat
  BY FS_CardinalityType
<1>2. ASSUME NEW i \in at
      PROVE  IsFiniteSet(Below(i)) /\ rank[i] \in 0..(c - 1)
  <2>1. Below(i) \in SUBSET at /\ i \notin Below(i)
    OBVIOUS
  <2>2. IsFiniteSet(Below(i)) /\ Cardinality(Below(i)) <= c /\ Cardinality(Below(i)) # c
    BY <2>1, FS_Subset
  <2>3. Cardinality(Below(i)) \in Nat
    BY <2>2, FS_CardinalityType
  <2>4. QED
    BY <1>1, <2>2, <2>3
<1>3. ASSUME NEW i \in at, NEW j \in at, i < j
      PROVE  rank[i] < rank[j]
  <2>1. Below(i) \in SUBSET Below(j) /\ i \in Below(j) /\ i \notin Below(i)
    <3>1. i \in Nat /\ j \in Nat /\ \A k \in at : k \in Nat
      OBVIOUS
    <3>2. \A k \in at : k < i => k < j
      BY <1>3, <3>1
    <3>3. ~(i < i)
      BY <3>1
    <3>4. QED
      BY <1>3, <3>2, <3>3
  <2>2. Cardinality(Below(i)) <= Cardinality(Below(j)) /\ Cardinality(Below(i)) # Cardinality(Below(j))
    BY <1>2, <2>1, FS_Subset
  <2>3. QED
    BY <1>2, <2>2
<1>4. rank \in Injection(at, 0..(c - 1))
  <2>1. rank \in [at -> 0..(c - 1)]
    BY <1>2
  <2>2. ASSUME NEW i \in at, NEW j \in at, rank[i] = rank[j] PROVE i = j
    <3>1. ~(i < j) /\ ~(j < i)
      BY <1>2, <1>3, <2>2
    <3>2. QED
      BY <3>1
  <2>3. QED
    BY <2>1, <2>2 DEF Injection, IsInjective
<1>5. rank \in Surjection(at, 0..(c - 1))
  <2>1. IsFiniteSet(0..(c - 1)) /\ Cardinality(0..(c - 1)) = c
    <3>1. 0 \in Int /\ c - 1 \in Int /\ (IF 0 > c - 1 THEN 0 ELSE (c - 1) - 0 + 1) = c
      BY <1>1
    <3>2. QED
      BY <3>1, FS_Interval
  <2>2. QED
    BY <1>4, <2>1, FS_Injection
<1>6. ASSUME NEW n \in 1..c
      PROVE  OrderOf(at)[n] \in at /\ rank[OrderOf(at)[n]] = n - 1
  <2>1. n - 1 \in 0..(c - 1)
    BY <1>1
  <2>2. \E i \in at : rank[i] = n - 1
    BY <1>5, <2>1 DEF Surjection
  <2>3. \E i \in at : Cardinality({j \in at : j < i}) = n - 1
    BY <2>2
  <2>4. QED
    BY <2>3 DEF OrderOf
<1>7. OrderOf(at) \in [1..c -> at]
  BY <1>6 DEF OrderOf
<1>8. ASSUME NEW m \in 1..c, NEW n \in 1..c, m < n
      PROVE  OrderOf(at)[m] < OrderOf(at)[n]
  <2> DEFINE x == OrderOf(at)[m]  y == OrderOf(at)[n]
  <2>1. x \in at /\ y \in at /\ rank[x] = m - 1 /\ rank[y] = n - 1
    BY <1>6
  <2>2. x # y /\ ~(y < x)
    <3>1. m - 1 < n - 1
      BY <1>1, <1>8
    <3>2. rank[x] < rank[y] /\ ~(rank[y] < rank[x]) /\ rank[x] # rank[y]
      BY <1>1, <2>1, <3>1
    <3>3. QED
      BY <1>3, <2>1, <3>2
  <2>3. x \in Nat /\ y \in Nat
    BY <2>1
  <2>4. QED
    BY <2>2, <2>3
<1>9. ASSUME NEW i \in at PROVE \E n \in 1..c : OrderOf(at)[n] = i
  <2> DEFINE n == rank[i] + 1
  <2>1. n \in 1..c /\ rank[i] = n - 1
    BY <1>1, <1>2
  <2>2. OrderOf(at)[n] \in at /\ rank[OrderOf(at)[n]] = rank[i]
    BY <1>6, <2>1
  <2>3. OrderOf(at)[n] = i
    BY <1>4, <2>2 DEF Injection, IsInjective
  <2>4. QED
    BY <2>1, <2>3
<1>10. QED
  BY <1>1, <1>7, <1>8, <1>9

\* RowsAt takes the rows of a table at some of its positions in their order.
LEMMA RowsAtOfTable ==
  ASSUME NEW rows, IsTable(rows), NEW at \in SUBSET DOMAIN rows
  PROVE  /\ IsFiniteSet(at) /\ Cardinality(at) \in Nat
         /\ IsTable(RowsAt(rows, at)) /\ Len(RowsAt(rows, at)) = Cardinality(at)
         /\ DOMAIN RowsAt(rows, at) = 1..Cardinality(at)
         /\ OrderOf(at) \in [1..Cardinality(at) -> at]
         /\ \A m, n \in 1..Cardinality(at) : m < n => OrderOf(at)[m] < OrderOf(at)[n]
         /\ \A i \in at : \E n \in 1..Cardinality(at) : OrderOf(at)[n] = i
         /\ \A n \in 1..Cardinality(at) : RowsAt(rows, at)[n] = rows[OrderOf(at)[n]]
<1>1. at \in SUBSET Nat /\ IsFiniteSet(at)
  <2>1. Len(rows) \in Nat /\ DOMAIN rows = 1..Len(rows)
    BY TableShape
  <2>2. IsFiniteSet(1..Len(rows))
    BY <2>1, FS_Interval
  <2>3. QED
    BY <2>1, <2>2, FS_Subset
<1>2. RowsAt(rows, at) = [n \in 1..Cardinality(at) |-> rows[OrderOf(at)[n]]]
  BY DEF RowsAt, OrderOf
<1> HIDE DEF RowsAt
<1>3. IsTable(RowsAt(rows, at)) /\ Len(RowsAt(rows, at)) = Cardinality(at)
      /\ DOMAIN RowsAt(rows, at) = 1..Cardinality(at)
  <2>1. Cardinality(at) \in Nat
    BY <1>1, OrderIsSorted
  <2>2. RowsAt(rows, at) = [n \in 1..Cardinality(at) |-> RowsAt(rows, at)[n]]
    BY <1>2
  <2>3. QED
    BY <2>1, <2>2, TableIntro
<1>4. QED
  BY <1>1, <1>2, <1>3, OrderIsSorted

\* The rows RowsAt takes, each of them once.
LEMMA RowsAtAreRows ==
  ASSUME NEW rows, IsTable(rows), NEW at \in SUBSET DOMAIN rows
  PROVE  /\ IsTable(RowsAt(rows, at))
         /\ \A k \in DOMAIN RowsAt(rows, at) : \E i \in at : RowsAt(rows, at)[k] = rows[i]
         /\ \A i \in at : \E k \in DOMAIN RowsAt(rows, at) : RowsAt(rows, at)[k] = rows[i]
<1> DEFINE new == RowsAt(rows, at)
<1>1. /\ IsTable(new) /\ DOMAIN new = 1..Cardinality(at)
      /\ OrderOf(at) \in [1..Cardinality(at) -> at]
      /\ \A i \in at : \E n \in 1..Cardinality(at) : OrderOf(at)[n] = i
      /\ \A n \in 1..Cardinality(at) : new[n] = rows[OrderOf(at)[n]]
  BY RowsAtOfTable
<1> HIDE DEF new
<1>2. \A k \in DOMAIN new : \E i \in at : new[k] = rows[i]
  BY <1>1
<1>3. \A i \in at : \E k \in DOMAIN new : new[k] = rows[i]
  BY <1>1
<1>4. QED
  BY <1>1, <1>2, <1>3 DEF new

\* drop_duplicates: two rows of the table it leaves have not the same key.
LEMMA KeysOfRowsAt ==
  ASSUME NEW rows, IsTable(rows), NEW at \in SUBSET DOMAIN rows, NEW key,
         \A i, j \in at : key[i] = key[j] => i = j
  PROVE  \E of \in [DOMAIN RowsAt(rows, at) -> at] :
           /\ \A k \in DOMAIN RowsAt(rows, at) : RowsAt(rows, at)[k] = rows[of[k]]
           /\ \A k, l \in DOMAIN RowsAt(rows, at) : key[of[k]] = key[of[l]] => k = l
<1> DEFINE new == RowsAt(rows, at)  of == OrderOf(at)
<1>1. /\ Cardinality(at) \in Nat /\ DOMAIN new = 1..Cardinality(at)
      /\ of \in [1..Cardinality(at) -> at]
      /\ \A m, n \in 1..Cardinality(at) : m < n => of[m] < of[n]
      /\ \A n \in 1..Cardinality(at) : new[n] = rows[of[n]]
  BY RowsAtOfTable
<1>2. at \in SUBSET Nat
  BY TableShape
<1> HIDE DEF new, of
<1>3. ASSUME NEW k \in DOMAIN new, NEW l \in DOMAIN new, key[of[k]] = key[of[l]] PROVE k = l
  <2>1. of[k] = of[l] /\ of[k] \in Nat /\ of[l] \in Nat
    BY <1>1, <1>2, <1>3
  <2>2. ~(k < l) /\ ~(l < k)
    <3>1. ~(of[k] < of[l]) /\ ~(of[l] < of[k])
      BY <2>1
    <3>2. QED
      BY <1>1, <3>1
  <2>3. QED
    BY <1>1, <2>2
<1>4. of \in [DOMAIN new -> at] /\ \A k \in DOMAIN new : new[k] = rows[of[k]]
  BY <1>1
<1>5. QED
  BY <1>3, <1>4 DEF new

-----------------------------------------------------------------------------
(* drop_duplicates and groupby *)

\* Every key of a table has a first row.
LEMMA FirstOfEachKey ==
  ASSUME NEW rows, IsTable(rows), NEW key
  PROVE  \A i \in DOMAIN rows :
           \E j \in {k \in DOMAIN rows : \A m \in 1..(k - 1) : key[m] # key[k]} : key[j] = key[i]
<1> SUFFICES ASSUME NEW i \in DOMAIN rows
             PROVE  \E j \in {k \in DOMAIN rows : \A m \in 1..(k - 1) : key[m] # key[k]} : key[j] = key[i]
  OBVIOUS
<1> DEFINE same == {k \in DOMAIN rows : key[k] = key[i]}
<1>1. Len(rows) \in Nat /\ DOMAIN rows = 1..Len(rows)
  BY TableShape
<1>2. same \in SUBSET Nat /\ same # {}
  BY <1>1
<1>3. PICK j \in same : \A k \in same : j <= k
  <2> HIDE DEF same
  <2>1. QED
    BY <1>2, LeastNatural
<1>4. ASSUME NEW m \in 1..(j - 1) PROVE key[m] # key[j]
  <2>1. m \in DOMAIN rows /\ ~(j <= m)
    BY <1>1
  <2>2. QED
    BY <1>3, <2>1
<1>5. QED
  BY <1>4

\* The first row of a selection that is not empty.
LEMMA FirstRow ==
  ASSUME NEW rows, IsTable(rows), NEW at \in SUBSET DOMAIN rows, at # {}
  PROVE  1 \in DOMAIN RowsAt(rows, at) /\ \E i \in at : RowsAt(rows, at)[1] = rows[i]
<1> DEFINE new == RowsAt(rows, at)
<1>1. /\ IsTable(new) /\ \A k \in DOMAIN new : \E i \in at : new[k] = rows[i]
      /\ \A i \in at : \E k \in DOMAIN new : new[k] = rows[i]
  BY RowsAtAreRows
<1> HIDE DEF new
<1>2. Len(new) \in Nat /\ DOMAIN new = 1..Len(new)
  BY <1>1, TableShape
<1>3. 1 \in DOMAIN new
  BY <1>1, <1>2
<1>4. QED
  BY <1>1, <1>3 DEF new

\* groupby: a group is the rows of a key, in order, and each key that is one has its group.
IsGroup(rows, column, g) ==
  /\ IsTable(g) /\ 1 \in DOMAIN g /\ g[1][column] # NoKey
  /\ g = RowsAt(rows, {j \in DOMAIN rows : rows[j][column] = g[1][column]})
  /\ \A i \in DOMAIN g : \E j \in DOMAIN rows : g[i] = rows[j]
LEMMA GroupsOfATable ==
  ASSUME NEW rows, IsTable(rows), NEW column
  PROVE  LET groups == GroupsByAppearance(rows, column) IN
         /\ IsTable(groups) /\ \A k \in DOMAIN groups : IsGroup(rows, column, groups[k])
         /\ \A i \in DOMAIN rows : rows[i][column] # NoKey =>
              \E k \in DOMAIN groups : groups[k][1][column] = rows[i][column]
<1> DEFINE in == {i \in DOMAIN rows : rows[i][column] # NoKey}
           con == RowsAt(rows, in)
           first == {i \in DOMAIN con : \A j \in 1..(i - 1) : con[j][column] # con[i][column]}
           firsts == RowsAt(con, first)
           Same(f) == {i \in DOMAIN rows : rows[i][column] = f[column]}
           groups == [k \in DOMAIN firsts |-> RowsAt(rows, Same(firsts[k]))]
<1>1. GroupsByAppearance(rows, column) = groups
  BY DEF GroupsByAppearance, KeepFirst, RowsWith, MapRows
<1>2. /\ IsTable(con) /\ \A k \in DOMAIN con : \E i \in in : con[k] = rows[i]
      /\ \A i \in in : \E k \in DOMAIN con : con[k] = rows[i]
  <2>1. in \in SUBSET DOMAIN rows
    OBVIOUS
  <2> HIDE DEF in
  <2>2. QED
    BY <2>1, RowsAtAreRows
<1> HIDE DEF con
<1>3. /\ IsTable(firsts) /\ \A k \in DOMAIN firsts : \E i \in first : firsts[k] = con[i]
      /\ \A i \in first : \E k \in DOMAIN firsts : firsts[k] = con[i]
  <2>1. first \in SUBSET DOMAIN con
    OBVIOUS
  <2> HIDE DEF first
  <2>2. QED
    BY <1>2, <2>1, RowsAtAreRows
<1>4. ASSUME NEW i \in DOMAIN con PROVE \E j \in first : con[j][column] = con[i][column]
  <2> DEFINE key == [k \in DOMAIN con |-> con[k][column]]
  <2>1. \A k \in DOMAIN con : key[k] = con[k][column]
    OBVIOUS
  <2> HIDE DEF key
  <2>2. PICK j \in {k \in DOMAIN con : \A m \in 1..(k - 1) : key[m] # key[k]} : key[j] = key[i]
    BY <1>2, FirstOfEachKey
  <2>3. Len(con) \in Nat /\ DOMAIN con = 1..Len(con)
    BY <1>2, TableShape
  <2>4. ASSUME NEW m \in 1..(j - 1) PROVE con[m][column] # con[j][column]
    BY <2>1, <2>2, <2>3
  <2>5. QED
    BY <2>1, <2>2, <2>4
<1> HIDE DEF firsts, first
<1>5. ASSUME NEW k \in DOMAIN firsts
      PROVE  /\ IsTable(groups[k]) /\ 1 \in DOMAIN groups[k]
             /\ groups[k][1][column] = firsts[k][column]
             /\ groups[k] = RowsAt(rows, {j \in DOMAIN rows : rows[j][column] = groups[k][1][column]})
             /\ \A i \in DOMAIN groups[k] : \E j \in DOMAIN rows : groups[k][i] = rows[j]
  <2> DEFINE at == Same(firsts[k])
  <2>1. PICK i \in DOMAIN rows : firsts[k] = rows[i]
    BY <1>2, <1>3 DEF first
  <2>2. at \in SUBSET DOMAIN rows /\ i \in at /\ \A j \in at : rows[j][column] = firsts[k][column]
    BY <2>1
  <2>3. groups[k] = RowsAt(rows, at)
    OBVIOUS
  <2> HIDE DEF at, groups
  <2>4. /\ IsTable(groups[k]) /\ \A l \in DOMAIN groups[k] : \E j \in at : groups[k][l] = rows[j]
        /\ \E l \in DOMAIN groups[k] : groups[k][l] = rows[i]
    BY <2>2, <2>3, RowsAtAreRows
  <2>5. 1 \in DOMAIN groups[k]
    <3>1. Len(groups[k]) \in Nat /\ DOMAIN groups[k] = 1..Len(groups[k])
      BY <2>4, TableShape
    <3>2. QED
      BY <2>4, <3>1
  <2>6. groups[k][1][column] = firsts[k][column]
    BY <2>2, <2>4, <2>5
  <2>7. groups[k] = RowsAt(rows, {j \in DOMAIN rows : rows[j][column] = groups[k][1][column]})
    BY <2>3, <2>6 DEF at
  <2>8. QED
    BY <2>2, <2>4, <2>5, <2>6, <2>7
<1>6. IsTable(groups) /\ DOMAIN groups = DOMAIN firsts
  <2> HIDE DEF Same
  <2>1. QED
    BY <1>3, MappedTable
<1> HIDE DEF groups
<1>7. \A k \in DOMAIN firsts : firsts[k][column] # NoKey
  BY <1>2, <1>3 DEF first
<1>8. ASSUME NEW i \in DOMAIN rows, rows[i][column] # NoKey
      PROVE  \E k \in DOMAIN firsts : firsts[k][column] = rows[i][column]
  <2>1. PICK j \in DOMAIN con : con[j] = rows[i]
    BY <1>2, <1>8
  <2>2. PICK m \in first : con[m][column] = con[j][column]
    BY <1>4
  <2>3. QED
    BY <1>3, <2>1, <2>2
<1>9. \A k \in DOMAIN groups : IsGroup(rows, column, groups[k])
  <2>1. \A k \in DOMAIN groups : groups[k][1][column] # NoKey
    <3>1. \A k \in DOMAIN firsts : groups[k][1][column] = firsts[k][column]
      BY <1>5
    <3>2. QED
      BY <1>6, <1>7, <3>1
  <2>2. QED
    BY <1>5, <1>6, <2>1 DEF IsGroup
<1>10. \A i \in DOMAIN rows : rows[i][column] # NoKey =>
         \E k \in DOMAIN groups : groups[k][1][column] = rows[i][column]
  <2>1. \A k \in DOMAIN groups : groups[k][1][column] = firsts[k][column]
    BY <1>5, <1>6
  <2>2. QED
    BY <1>6, <1>8, <2>1
<1>11. QED
  BY Zenon, <1>1, <1>6, <1>9, <1>10

\* Each key that is one has its group, which is not empty and has no other key.
LEMMA GroupsAreWhole ==
  ASSUME NEW rows, IsTable(rows), NEW column
  PROVE  LET groups == GroupsByAppearance(rows, column) IN
         /\ IsTable(groups)
         /\ \A k \in DOMAIN groups :
              /\ IsTable(groups[k]) /\ 1 \in DOMAIN groups[k] /\ groups[k][1][column] # NoKey
              /\ \A i \in DOMAIN groups[k] : \E j \in DOMAIN rows : groups[k][i] = rows[j]
         /\ \A i \in DOMAIN rows : rows[i][column] # NoKey =>
              \E k \in DOMAIN groups : groups[k][1][column] = rows[i][column]
<1> DEFINE groups == GroupsByAppearance(rows, column)
<1>1. /\ IsTable(groups) /\ \A k \in DOMAIN groups : IsGroup(rows, column, groups[k])
      /\ \A i \in DOMAIN rows : rows[i][column] # NoKey =>
           \E k \in DOMAIN groups : groups[k][1][column] = rows[i][column]
  BY GroupsOfATable
<1> HIDE DEF groups
<1>2. \A k \in DOMAIN groups :
        /\ IsTable(groups[k]) /\ 1 \in DOMAIN groups[k] /\ groups[k][1][column] # NoKey
        /\ \A i \in DOMAIN groups[k] : \E j \in DOMAIN rows : groups[k][i] = rows[j]
  BY <1>1 DEF IsGroup
<1>3. QED
  BY <1>1, <1>2 DEF groups

\* A group has all the rows of its key.
LEMMA GroupsInFull ==
  ASSUME NEW rows, IsTable(rows), NEW column
  PROVE  LET groups == GroupsByAppearance(rows, column) IN
         \A k \in DOMAIN groups :
           groups[k] = RowsAt(rows, {j \in DOMAIN rows : rows[j][column] = groups[k][1][column]})
<1> DEFINE groups == GroupsByAppearance(rows, column)
<1>1. \A k \in DOMAIN groups : IsGroup(rows, column, groups[k])
  BY GroupsOfATable
<1> HIDE DEF groups
<1>2. \A k \in DOMAIN groups :
        groups[k] = RowsAt(rows, {j \in DOMAIN rows : rows[j][column] = groups[k][1][column]})
  BY <1>1 DEF IsGroup
<1>3. QED
  BY <1>2 DEF groups

-----------------------------------------------------------------------------
(* sort_values *)

\* A sorted table has the rows of the table, each at one place.
LEMMA SortedRows ==
  ASSUME NEW rows, IsTable(rows), NEW key, \A i \in DOMAIN rows : key[i] \in Int
  PROVE  /\ IsTable(Sorted(rows, key)) /\ DOMAIN Sorted(rows, key) = DOMAIN rows
         /\ \A n \in DOMAIN rows : \E i \in DOMAIN rows : Sorted(rows, key)[n] = rows[i]
         /\ \A i \in DOMAIN rows : \E n \in DOMAIN rows : Sorted(rows, key)[n] = rows[i]
<1> DEFINE all == DOMAIN rows
           c == Len(rows)
           Before(j, i) == key[j] < key[i] \/ (key[j] = key[i] /\ j < i)
           Below(i) == {j \in all : Before(j, i)}
           rank == [i \in all |-> Cardinality(Below(i))]
           Nth(n) == CHOOSE i \in all : Cardinality(Below(i)) = n - 1
<1>1. c \in Nat /\ all = 1..c /\ IsFiniteSet(all) /\ Cardinality(all) = c
  <2>1. c \in Nat /\ all = 1..c
    BY TableShape
  <2>2. QED
    BY <2>1, FS_Interval
<1>2. /\ \A i \in all : ~Before(i, i)
      /\ \A i, j, k \in all : Before(i, j) /\ Before(j, k) => Before(i, k)
      /\ \A i, j \in all : i # j => Before(i, j) \/ Before(j, i)
  <2>1. \A i \in all : key[i] \in Int /\ i \in Int
    BY <1>1
  <2>2. QED
    BY <2>1
<1>3. Sorted(rows, key) = [n \in all |-> rows[Nth(n)]]
  BY DEF Sorted
<1> HIDE DEF Before
<1>4. ASSUME NEW i \in all
      PROVE  IsFiniteSet(Below(i)) /\ rank[i] \in 0..(c - 1)
  <2>1. Below(i) \in SUBSET all /\ i \notin Below(i)
    BY <1>2
  <2>2. IsFiniteSet(Below(i)) /\ Cardinality(Below(i)) <= c /\ Cardinality(Below(i)) # c
    BY <1>1, <2>1, FS_Subset
  <2>3. Cardinality(Below(i)) \in Nat
    BY <2>2, FS_CardinalityType
  <2>4. QED
    BY <1>1, <2>2, <2>3
<1>5. ASSUME NEW i \in all, NEW j \in all, Before(i, j)
      PROVE  rank[i] # rank[j]
  <2>1. Below(i) \in SUBSET Below(j) /\ i \in Below(j) /\ i \notin Below(i)
    BY <1>2, <1>5
  <2>2. Cardinality(Below(i)) # Cardinality(Below(j))
    BY <1>4, <2>1, FS_Subset
  <2>3. QED
    BY <2>2
<1>6. rank \in Surjection(all, 0..(c - 1))
  <2>1. IsFiniteSet(0..(c - 1)) /\ Cardinality(0..(c - 1)) = c
    <3>1. 0 \in Int /\ c - 1 \in Int /\ (IF 0 > c - 1 THEN 0 ELSE (c - 1) - 0 + 1) = c
      BY <1>1
    <3>2. QED
      BY <3>1, FS_Interval
  <2>2. rank \in [all -> 0..(c - 1)]
    BY <1>4
  <2>3. \A i, j \in all : rank[i] = rank[j] => i = j
    BY <1>2, <1>5
  <2>4. rank \in Injection(all, 0..(c - 1))
    BY <2>2, <2>3 DEF Injection, IsInjective
  <2>5. QED
    BY <1>1, <2>1, <2>4, FS_Injection
<1>7. ASSUME NEW n \in all PROVE Nth(n) \in all /\ rank[Nth(n)] = n - 1
  <2>1. n - 1 \in 0..(c - 1)
    BY <1>1
  <2>2. \E i \in all : rank[i] = n - 1
    BY <1>6, <2>1 DEF Surjection
  <2>3. \E i \in all : Cardinality(Below(i)) = n - 1
    BY <2>2
  <2>4. QED
    BY <2>3
<1> HIDE DEF rank
<1>8. ASSUME NEW i \in all PROVE \E n \in all : Nth(n) = i
  <2>1. PICK r \in 0..(c - 1) : rank[i] = r
    BY <1>4
  <2>2. r + 1 \in all /\ (r + 1) - 1 = r
    BY <1>1
  <2>3. Nth(r + 1) \in all /\ rank[Nth(r + 1)] = (r + 1) - 1
    BY <1>7, <2>2
  <2> HIDE DEF Nth
  <2>4. rank[Nth(r + 1)] = rank[i]
    BY <2>1, <2>2, <2>3
  <2>5. Nth(r + 1) = i
    BY <1>2, <1>5, <2>3, <2>4
  <2>6. QED
    BY <2>2, <2>5
<1> HIDE DEF Nth
<1>9. IsTable(Sorted(rows, key)) /\ DOMAIN Sorted(rows, key) = all
  <2>1. Sorted(rows, key) = [n \in DOMAIN rows |-> Sorted(rows, key)[n]]
    BY <1>3
  <2>2. QED
    BY <2>1, MappedTable
<1>10. \A n \in all : Sorted(rows, key)[n] = rows[Nth(n)]
  BY <1>3
<1>11. QED
  BY <1>7, <1>8, <1>9, <1>10

-----------------------------------------------------------------------------
(* FlattenSeq *)

\* What FlattenSeq computes, for every number of tables.
Unrolled(f, seqs, n) == f = [i \in 1..n |-> IF i = 1 THEN seqs[i] ELSE f[i - 1] \o seqs[i]]

LEMMA FlattenUnrolls ==
  ASSUME NEW seqs, NEW n \in Nat, n # 0, Len(seqs) = n
  PROVE  \E f : Unrolled(f, seqs, n) /\ FlattenSeq(seqs) = f[n]
<1> DEFINE Bad == {k \in 1..n : ~\E f : Unrolled(f, seqs, k)}
<1>1. Bad = {}
  <2> SUFFICES ASSUME Bad # {} PROVE FALSE
    OBVIOUS
  <2>1. Bad \in SUBSET Nat
    OBVIOUS
  <2>2. PICK k \in Bad : \A j \in Bad : k <= j
    BY <2>1, LeastNatural
  <2>3. k \in 1..n /\ k \in Nat /\ ~\E f : Unrolled(f, seqs, k)
    OBVIOUS
  <2>4. CASE k = 1
    <3>1. Unrolled([i \in 1..1 |-> seqs[i]], seqs, 1)
      BY DEF Unrolled
    <3>2. QED
      BY <2>3, <2>4, <3>1
  <2>5. CASE k # 1
    <3>1. k - 1 \in 1..n /\ ~(k <= k - 1)
      BY <2>3, <2>5
    <3>2. k - 1 \notin Bad
      BY <2>2, <3>1
    <3>3. PICK f : Unrolled(f, seqs, k - 1)
      BY <3>1, <3>2
    <3> DEFINE g == [i \in 1..k |-> IF i = k THEN f[k - 1] \o seqs[k] ELSE f[i]]
    <3>4. ASSUME NEW i \in 1..k
          PROVE  g[i] = IF i = 1 THEN seqs[i] ELSE g[i - 1] \o seqs[i]
      <4>1. CASE i = k
        <5>1. k - 1 \in 1..k /\ k - 1 # k
          BY <2>3, <3>1
        <5>2. QED
          BY <4>1, <2>5, <5>1
      <4>2. CASE i # k
        <5>1. i \in 1..(k - 1) /\ (i # 1 => i - 1 \in 1..k /\ i - 1 # k)
          BY <2>3, <4>2
        <5>2. f[i] = IF i = 1 THEN seqs[i] ELSE f[i - 1] \o seqs[i]
          BY <3>3, <5>1 DEF Unrolled
        <5>3. QED
          BY <4>2, <5>1, <5>2
      <4>3. QED
        BY <4>1, <4>2
    <3>5. Unrolled(g, seqs, k)
      BY <3>4 DEF Unrolled
    <3>6. QED
      BY <2>3, <3>5
  <2>6. QED
    BY <2>4, <2>5
<1>2. \E f : Unrolled(f, seqs, n)
  BY <1>1
<1>3. Unrolled(CHOOSE f : Unrolled(f, seqs, n), seqs, n)
  BY <1>2
<1>4. FlattenSeq(seqs) = (CHOOSE f : Unrolled(f, seqs, n))[n]
  BY DEF FlattenSeq, Unrolled
<1>5. QED
  BY <1>3, <1>4

\* Tables of one row each are flattened to the table of those rows.
LEMMA FlattenSingles ==
  ASSUME NEW rows, IsTable(rows)
  PROVE  FlattenSeq([i \in DOMAIN rows |-> <<rows[i]>>]) = rows
<1> DEFINE n == Len(rows)
           seqs == [i \in DOMAIN rows |-> <<rows[i]>>]
           Pre(k) == [i \in 1..k |-> rows[i]]
<1>1. n \in Nat /\ DOMAIN rows = 1..n /\ rows = Pre(n)
  BY TableShape
<1>2. IsTable(seqs) /\ Len(seqs) = n /\ DOMAIN seqs = 1..n
  <2>1. seqs = [i \in 1..n |-> seqs[i]]
    BY <1>1
  <2>2. QED
    BY <1>1, <2>1, TableIntro
<1>3. CASE n = 0
  <2>1. FlattenSeq(seqs) = seqs
    BY <1>2, <1>3 DEF FlattenSeq
  <2>2. QED
    BY <1>1, <1>2, <1>3, <2>1
<1>4. CASE n # 0
  <2>1. PICK f : Unrolled(f, seqs, n) /\ FlattenSeq(seqs) = f[n]
    BY <1>1, <1>2, <1>4, FlattenUnrolls
  <2> DEFINE Bad == {k \in 1..n : f[k] # Pre(k)}
  <2>2. Bad = {}
    <3> SUFFICES ASSUME Bad # {} PROVE FALSE
      OBVIOUS
    <3>1. Bad \in SUBSET Nat
      OBVIOUS
    <3>2. PICK k \in Bad : \A j \in Bad : k <= j
      BY <3>1, LeastNatural
    <3>3. k \in 1..n /\ k \in Nat /\ f[k] # Pre(k) /\ seqs[k] = <<rows[k]>>
      BY <1>1
    <3>4. CASE k = 1
      <4>1. f[1] = <<rows[1]>>
        BY <2>1, <3>3, <3>4 DEF Unrolled
      <4>2. Pre(1) = <<rows[1]>>
        OBVIOUS
      <4>3. QED
        BY <3>3, <3>4, <4>1, <4>2
    <3>5. CASE k # 1
      <4>1. k - 1 \in 1..n /\ ~(k <= k - 1)
        BY <3>3, <3>5
      <4>2. f[k - 1] = Pre(k - 1)
        BY <3>2, <4>1
      <4>3. f[k] = Pre(k - 1) \o <<rows[k]>>
        BY <2>1, <3>3, <3>5, <4>2 DEF Unrolled
      <4>4. Pre(k - 1) \o <<rows[k]>> = Pre(k)
        <5>1. Pre(k - 1) \in Seq({rows[i] : i \in 1..k}) /\ Len(Pre(k - 1)) = k - 1
          <6>1. k - 1 \in Nat /\ \A i \in 1..(k - 1) : i \in 1..k
            BY <3>3, <3>5
          <6>2. Pre(k - 1) \in [1..(k - 1) -> {rows[i] : i \in 1..k}]
            BY <6>1
          <6>3. Pre(k - 1) \in Seq({rows[i] : i \in 1..k})
            BY <6>1, <6>2
          <6>4. QED
            BY <6>1, <6>3
        <5>2. \A i \in 1..k : i # k => i \in 1..(k - 1)
          BY <3>3
        <5>3. QED
          BY <3>3, <5>1, <5>2
      <4>5. QED
        BY <3>3, <4>3, <4>4
    <3>6. QED
      BY <3>4, <3>5
  <2>3. f[n] = Pre(n)
    BY <1>1, <1>4, <2>2
  <2>4. QED
    BY <1>1, <2>1, <2>3
<1>5. QED
  BY <1>3, <1>4

\* pd.concat of a list of tables: the rows of each, and no others.
LEMMA FlattenOfTables ==
  ASSUME NEW seqs, IsTable(seqs), \A i \in DOMAIN seqs : IsTable(seqs[i])
  PROVE  /\ IsTable(FlattenSeq(seqs))
         /\ \A k \in DOMAIN FlattenSeq(seqs) :
              \E i \in DOMAIN seqs : \E j \in DOMAIN seqs[i] : FlattenSeq(seqs)[k] = seqs[i][j]
         /\ \A i \in DOMAIN seqs : \A j \in DOMAIN seqs[i] :
              \E k \in DOMAIN FlattenSeq(seqs) : FlattenSeq(seqs)[k] = seqs[i][j]
<1> DEFINE n == Len(seqs)
           Into(table, m) == \A k \in DOMAIN table :
             \E i \in 1..m : \E j \in DOMAIN seqs[i] : table[k] = seqs[i][j]
           Onto(table, m) == \A i \in 1..m : \A j \in DOMAIN seqs[i] :
             \E k \in DOMAIN table : table[k] = seqs[i][j]
<1>1. n \in Nat /\ DOMAIN seqs = 1..n
  BY TableShape
<1>2. CASE n = 0
  <2>1. FlattenSeq(seqs) = seqs
    BY <1>1, <1>2 DEF FlattenSeq
  <2>2. DOMAIN seqs = {}
    BY <1>1, <1>2
  <2>3. QED
    BY <2>1, <2>2
<1>3. CASE n # 0
  <2>1. PICK f : Unrolled(f, seqs, n) /\ FlattenSeq(seqs) = f[n]
    BY <1>1, <1>3, FlattenUnrolls
  <2> DEFINE Bad == {m \in 1..n : ~(IsTable(f[m]) /\ Into(f[m], m) /\ Onto(f[m], m))}
  <2>2. Bad = {}
    <3> SUFFICES ASSUME Bad # {} PROVE FALSE
      OBVIOUS
    <3>1. Bad \in SUBSET Nat
      OBVIOUS
    <3>2. PICK m \in Bad : \A j \in Bad : m <= j
      <4> HIDE DEF Bad
      <4>1. QED
        BY <3>1, LeastNatural
    <3>3. m \in 1..n /\ m \in Nat
      OBVIOUS
    <3>4. CASE m = 1
      <4>1. f[1] = seqs[1]
        BY <2>1, <3>3, <3>4 DEF Unrolled
      <4>2. IsTable(f[1]) /\ 1..1 = {1}
        BY <1>1, <3>3, <3>4, <4>1
      <4>3. Into(f[1], 1) /\ Onto(f[1], 1)
        BY <4>1, <4>2
      <4>4. QED
        BY <3>4, <4>2, <4>3
    <3>5. CASE m # 1
      <4> DEFINE a == f[m - 1]  b == seqs[m]
      <4>1. m - 1 \in 1..n /\ ~(m <= m - 1) /\ \A i \in 1..m : i \in 1..(m - 1) \/ i = m
        BY <3>3, <3>5
      <4>2. IsTable(a) /\ Into(a, m - 1) /\ Onto(a, m - 1)
        BY <3>2, <4>1
      <4>3. IsTable(b)
        BY <1>1, <3>3
      <4>4. f[m] = a \o b
        BY <2>1, <3>3, <3>5 DEF Unrolled
      <4> HIDE DEF a, b
      <4>5. /\ IsTable(a \o b)
            /\ \A i \in DOMAIN a : i \in DOMAIN (a \o b) /\ (a \o b)[i] = a[i]
            /\ \A j \in DOMAIN b : Len(a) + j \in DOMAIN (a \o b) /\ (a \o b)[Len(a) + j] = b[j]
            /\ \A k \in DOMAIN (a \o b) :
                 \/ k \in DOMAIN a /\ (a \o b)[k] = a[k]
                 \/ \E j \in DOMAIN b : k = Len(a) + j /\ (a \o b)[k] = b[j]
        <5>1. IsTable(a) /\ IsTable(b)
          BY <4>2, <4>3
        <5> HIDE DEF Into, Onto, Bad
        <5>2. QED
          BY ONLY <5>1, ConcatOfTables
      <4> DEFINE c == a \o b
      <4> HIDE DEF c
      <4>6. Into(c, m)
        <5>1. \A i \in 1..(m - 1) : i \in 1..m
          BY <3>3
        <5>2. m \in 1..m
          BY <3>3
        <5>3. ASSUME NEW k \in DOMAIN c
              PROVE  \E i \in 1..m : \E j \in DOMAIN seqs[i] : c[k] = seqs[i][j]
          <6>1. CASE k \in DOMAIN a /\ c[k] = a[k]
            BY <4>2, <5>1, <6>1
          <6>2. CASE \E j \in DOMAIN b : k = Len(a) + j /\ c[k] = b[j]
            BY <5>2, <6>2 DEF b
          <6>3. QED
            BY <4>5, <5>3, <6>1, <6>2 DEF c
        <5>4. QED
          BY <5>3
      <4>7. Onto(c, m)
        <5>1. ASSUME NEW i \in 1..m, NEW j \in DOMAIN seqs[i]
              PROVE  \E k \in DOMAIN c : c[k] = seqs[i][j]
          <6>1. CASE i \in 1..(m - 1)
            BY <4>2, <4>5, <6>1 DEF c
          <6>2. CASE i = m
            BY <4>5, <6>2 DEF b, c
          <6>3. QED
            BY <4>1, <6>1, <6>2
        <5>2. QED
          BY <5>1
      <4>8. IsTable(c) /\ f[m] = c
        BY <4>4, <4>5 DEF c
      <4>9. QED
        BY <3>2, <4>6, <4>7, <4>8
    <3>6. QED
      BY <3>4, <3>5
  <2>3. n \in 1..n
    BY <1>1, <1>3
  <2>4. IsTable(f[n]) /\ Into(f[n], n) /\ Onto(f[n], n)
    BY <2>2, <2>3
  <2>5. QED
    BY <1>1, <2>1, <2>4
<1>4. QED
  BY <1>2, <1>3

-----------------------------------------------------------------------------
(* FoldSet, for a sum *)

\* What a fold that adds value[x] for every x of a set computes on its subsets.
Sums(f, set, value) ==
  f = [s \in SUBSET set |-> IF s = {} THEN 0
                            ELSE value[CHOOSE x \in s : TRUE] + f[s \ {CHOOSE x \in s : TRUE}]]

\* There is one such function.
LEMMA SumsIsUnique ==
  ASSUME NEW set, IsFiniteSet(set), NEW value, NEW f, NEW g,
         Sums(f, set, value), Sums(g, set, value)
  PROVE  f = g
<1> DEFINE Bad == {s \in SUBSET set : f[s] # g[s]}
           sizes == {Cardinality(s) : s \in Bad}
<1>1. \A s \in SUBSET set : IsFiniteSet(s) /\ Cardinality(s) \in Nat
  BY FS_Subset, FS_CardinalityType
<1>2. Bad = {}
  <2> SUFFICES ASSUME Bad # {} PROVE FALSE
    OBVIOUS
  <2>1. sizes \in SUBSET Nat /\ sizes # {}
    BY <1>1
  <2>2. PICK n \in sizes : \A k \in sizes : n <= k
    <3> HIDE DEF sizes
    <3>1. QED
      BY <2>1, LeastNatural
  <2>3. PICK s \in Bad : \A t \in Bad : Cardinality(s) <= Cardinality(t)
    BY <2>2
  <2> DEFINE x == CHOOSE x \in s : TRUE  rest == s \ {x}
  <2>4. s # {} /\ s \in SUBSET set
    BY <2>3 DEF Sums
  <2>5. x \in s
    BY <2>4
  <2> HIDE DEF x
  <2>6. rest \in SUBSET set /\ ~(Cardinality(s) <= Cardinality(rest))
    <3>1. Cardinality(rest) = Cardinality(s) - 1
      BY <1>1, <2>4, <2>5, FS_RemoveElement
    <3>2. Cardinality(s) \in Nat
      BY <1>1, <2>4
    <3>3. rest \in SUBSET set
      BY <2>4
    <3>4. QED
      BY <3>1, <3>2, <3>3
  <2>7. f[rest] = g[rest]
    BY <2>3, <2>6
  <2>8. f[s] = value[x] + f[rest] /\ g[s] = value[x] + g[rest]
    BY <2>4 DEF Sums, x
  <2>9. QED
    BY <2>3, <2>7, <2>8
<1>3. f = [s \in SUBSET set |-> f[s]] /\ g = [s \in SUBSET set |-> g[s]]
  <2>1. DOMAIN f = SUBSET set /\ DOMAIN g = SUBSET set
    BY DEF Sums
  <2>2. QED
    BY <2>1 DEF Sums
<1>4. QED
  BY <1>2, <1>3
=============================================================================
