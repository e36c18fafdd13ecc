------------------------------- MODULE Tables -------------------------------
(***************************************************************************)
(* The operations of pandas the jobs use.  A table is a sequence of rows.  *)
(***************************************************************************)
EXTENDS Integers, Sequences, SequencesExt, FiniteSets, FiniteSetsExt

\* The rows at the positions of a set, in order.
RowsAt(rows, at) ==
  LET Nth(n) == CHOOSE i \in at : Cardinality({j \in at : j < i}) = n - 1
  IN [n \in 1..Cardinality(at) |-> rows[Nth(n)]]

\* df[mask] and df.apply(axis=1).
RowsWith(rows, Test(_)) == RowsAt(rows, {i \in DOMAIN rows : Test(rows[i])})
MapRows(Op(_), rows) == [i \in DOMAIN rows |-> Op(rows[i])]

\* A row with the columns of another one it has not.
WithColumns(r, more) ==
  [c \in DOMAIN r \cup DOMAIN more |-> IF c \in DOMAIN r THEN r[c] ELSE more[c]]

\* df.drop_duplicates(keep="first"), keep="last" and keep=False.
KeepFirst(rows, Key(_)) ==
  RowsAt(rows, {i \in DOMAIN rows : \A j \in 1..(i - 1) : Key(rows[j]) # Key(rows[i])})
KeepLast(rows, Key(_)) ==
  RowsAt(rows, {i \in DOMAIN rows : \A j \in (i + 1)..Len(rows) : Key(rows[j]) # Key(rows[i])})
KeepUnique(rows, Key(_)) ==
  RowsAt(rows, {i \in DOMAIN rows : \A j \in DOMAIN rows \ {i} : Key(rows[j]) # Key(rows[i])})

\* df.sort_values: the rows in the order of a key, ties in the order they come.
Sorted(rows, key) ==
  LET Before(j, i) == key[j] < key[i] \/ (key[j] = key[i] /\ j < i)
      Nth(n) == CHOOSE i \in DOMAIN rows : Cardinality({j \in DOMAIN rows : Before(j, i)}) = n - 1
  IN [n \in DOMAIN rows |-> rows[Nth(n)]]
SortBy(rows, Key(_)) == Sorted(rows, [i \in DOMAIN rows |-> Key(rows[i])])

\* df.groupby(column): the groups in order of appearance or sorted by key, and no
\* group for the rows without a key.
NoKey == 0
GroupsByAppearance(rows, column) ==
  LET In(r) == r[column] # NoKey
      Key(r) == r[column]
      firsts == KeepFirst(RowsWith(rows, In), Key)
      Group(f) == LET Same(r) == r[column] = f[column] IN RowsWith(rows, Same)
  IN MapRows(Group, firsts)
GroupsByKey(rows, column) ==
  SortBy(GroupsByAppearance(rows, column), LAMBDA g : g[1][column])
=============================================================================
