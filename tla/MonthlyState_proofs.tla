------------------------ MODULE MonthlyState_proofs ------------------------
(***************************************************************************)
(* Proofs about a month of Naranja X, for every base, every file of PLANES *)
(* and PAGOS of every length, and every month.                             *)
(***************************************************************************)
EXTENDS MonthlyState, Tables_proofs

-----------------------------------------------------------------------------
(* a table within another: each of its rows is a row of the other, of the  *)
(* same product, and no two are the same one                               *)

Keyed(rows) == IsTable(rows) /\ \A i \in DOMAIN rows : "prod" \in DOMAIN rows[i]

Origin(f, new, old) ==
  f \in Injection(DOMAIN new, DOMAIN old) /\ \A i \in DOMAIN new : new[i].prod = old[f[i]].prod

Within(new, old) == Keyed(new) /\ Keyed(old) /\ \E f : Origin(f, new, old)

LEMMA WithinItself ==
  ASSUME NEW rows, Keyed(rows)
  PROVE  Within(rows, rows)
<1>1. Origin([i \in DOMAIN rows |-> i], rows, rows)
  BY DEF Origin, Injection, IsInjective
<1>2. QED
  BY <1>1 DEF Within

LEMMA WithinTransitive ==
  ASSUME NEW a, NEW b, NEW c, Within(a, b), Within(b, c)
  PROVE  Within(a, c)
<1>1. PICK f : Origin(f, a, b)
  BY DEF Within
<1>2. PICK g : Origin(g, b, c)
  BY DEF Within
<1> DEFINE h == [i \in DOMAIN a |-> g[f[i]]]
<1>3. f \in [DOMAIN a -> DOMAIN b] /\ g \in [DOMAIN b -> DOMAIN c]
  BY <1>1, <1>2 DEF Origin, Injection
<1>4. ASSUME NEW i \in DOMAIN a, NEW j \in DOMAIN a, h[i] = h[j] PROVE i = j
  <2>1. f[i] = f[j]
    BY <1>2, <1>3, <1>4 DEF Origin, Injection, IsInjective
  <2>2. QED
    BY <1>1, <2>1 DEF Origin, Injection, IsInjective
<1>5. h \in Injection(DOMAIN a, DOMAIN c)
  BY <1>3, <1>4 DEF Injection, IsInjective
<1>6. \A i \in DOMAIN a : a[i].prod = c[h[i]].prod
  BY <1>1, <1>2, <1>3 DEF Origin
<1>7. QED
  BY <1>5, <1>6 DEF Within, Origin

\* Nothing is within every table.
LEMMA WithinEmpty ==
  ASSUME NEW rows, Keyed(rows)
  PROVE  Within(<<>>, rows)
<1>1. IsTable(<<>>) /\ DOMAIN <<>> = {}
  <2>1. 0 \in Nat /\ <<>> = [i \in 1..0 |-> <<>>[i]]
    OBVIOUS
  <2>2. 1..0 = {}
    OBVIOUS
  <2>3. QED
    BY <2>1, <2>2, TableIntro
<1>2. Origin([i \in {} |-> i], <<>>, rows)
  BY <1>1 DEF Origin, Injection, IsInjective
<1>3. QED
  BY <1>1, <1>2 DEF Within, Keyed

\* A mask takes rows away.
LEMMA WithinRows ==
  ASSUME NEW rows, Keyed(rows), NEW at \in SUBSET DOMAIN rows
  PROVE  Within(RowsAt(rows, at), rows)
<1> DEFINE new == RowsAt(rows, at)  f == OrderOf(at)  c == Cardinality(at)
<1>1. /\ c \in Nat /\ IsTable(new) /\ DOMAIN new = 1..c
      /\ f \in [1..c -> at]
      /\ \A m, n \in 1..c : m < n => f[m] < f[n]
      /\ \A n \in 1..c : new[n] = rows[f[n]]
  BY RowsAtOfTable DEF Keyed
<1> HIDE DEF new, f, c
<1>2. f \in [DOMAIN new -> DOMAIN rows]
  BY <1>1
<1>3. \A m, n \in 1..c : f[m] = f[n] => m = n
  <2> SUFFICES ASSUME NEW m \in 1..c, NEW n \in 1..c, f[m] = f[n] PROVE m = n
    OBVIOUS
  <2>1. f[m] \in Nat
    <3>1. DOMAIN rows = 1..Len(rows) /\ Len(rows) \in Nat
      BY TableShape DEF Keyed
    <3>2. QED
      BY <1>2, <1>1, <3>1
  <2>2. ~(f[m] < f[n]) /\ ~(f[n] < f[m])
    BY <2>1
  <2>3. QED
    BY <1>1, <2>2
<1>4. \A n \in DOMAIN new : "prod" \in DOMAIN new[n]
  BY <1>1, <1>2 DEF Keyed
<1>5. Origin(f, new, rows)
  BY <1>1, <1>2, <1>3 DEF Origin, Injection, IsInjective
<1>6. QED
  BY <1>1, <1>4, <1>5 DEF Within, Keyed, new

\* Columns are rewritten, not the product.
LEMMA WithinMapped ==
  ASSUME NEW rows, Keyed(rows), NEW new, new = [i \in DOMAIN rows |-> new[i]],
         \A i \in DOMAIN rows : "prod" \in DOMAIN new[i] /\ new[i].prod = rows[i].prod
  PROVE  Within(new, rows)
<1>1. DOMAIN new = DOMAIN rows
  OBVIOUS
<1>2. Len(rows) \in Nat /\ DOMAIN rows = 1..Len(rows)
  BY TableShape DEF Keyed
<1>3. IsTable(new)
  BY <1>2, TableIntro
<1>4. Origin([i \in DOMAIN rows |-> i], new, rows)
  BY <1>1 DEF Origin, Injection, IsInjective
<1>5. QED
  BY <1>1, <1>3, <1>4 DEF Within, Keyed

\* What is within a table has no other products.
LEMMA WithinProducts ==
  ASSUME NEW new, NEW old, Within(new, old)
  PROVE  ProductsOf(new) \subseteq ProductsOf(old)
<1>1. PICK f : Origin(f, new, old)
  BY DEF Within
<1>2. f \in [DOMAIN new -> DOMAIN old]
  BY <1>1 DEF Origin, Injection
<1>3. QED
  BY <1>1, <1>2 DEF Origin, ProductsOf

\* And none more often.
RowsOf(rows, p) == {i \in DOMAIN rows : rows[i].prod = p}

LEMMA WithinCounts ==
  ASSUME NEW new, NEW old, Within(new, old), NEW p
  PROVE  Cardinality(RowsOf(new, p)) <= Cardinality(RowsOf(old, p))
<1> DEFINE N == RowsOf(new, p)  O == RowsOf(old, p)
<1>1. PICK f : Origin(f, new, old)
  BY DEF Within
<1>2. f \in [DOMAIN new -> DOMAIN old]
  BY <1>1 DEF Origin, Injection
<1> DEFINE g == [i \in N |-> f[i]]
<1>3. g \in [N -> O]
  BY <1>1, <1>2 DEF Origin, RowsOf
<1>4. g \in Injection(N, O)
  BY <1>1, <1>3 DEF Origin, Injection, IsInjective, RowsOf
<1>5. IsFiniteSet(O)
  <2>1. IsFiniteSet(DOMAIN old)
    <3>1. Len(old) \in Nat /\ DOMAIN old = 1..Len(old)
      BY TableShape DEF Within, Keyed
    <3>2. QED
      BY <3>1, FS_Interval
  <2>2. O \in SUBSET DOMAIN old
    BY DEF RowsOf
  <2>3. QED
    BY <2>1, <2>2, FS_Subset
<1>6. QED
  BY <1>4, <1>5, FS_Injection

-----------------------------------------------------------------------------
(* PLANES *)

LEMMA BaseIsKeyed == Keyed(FiltrarBase)
<1> DEFINE at == {i \in DOMAIN Base : Base[i].cajon = "M90" /\ Base[i].puro}
           m90 == RowsAt(Base, at)
           Fresh(r) == [prod |-> r.prod, doc |-> r.doc, cajon |-> r.cajon, deuda |-> r.deuda,
                        recupero |-> "", plans |-> NoPlans, actual |-> NoColumn,
                        recCajon |-> NoColumn, fuente |-> NoColumn]
           fresh == [i \in DOMAIN m90 |-> Fresh(m90[i])]
<1>1. IsTable(Base)
  <2>1. Len(Base) \in Nat /\ Base = [i \in 1..Len(Base) |-> Base[i]]
    BY TableAssumption
  <2>2. QED
    BY <2>1, TableIntro
<1>2. IsTable(m90)
  BY <1>1, RowsAtOfTable
<1>3. FiltrarBase = fresh
  BY DEF FiltrarBase, MapRows, RowsWith
<1>4. IsTable(fresh) /\ DOMAIN fresh = DOMAIN m90
  <2>1. Len(m90) \in Nat /\ DOMAIN m90 = 1..Len(m90)
    BY <1>2, TableShape
  <2> HIDE DEF m90
  <2>2. fresh = [i \in 1..Len(m90) |-> fresh[i]]
    BY <2>1
  <2>3. QED
    BY <2>1, <2>2, TableIntro
<1>5. \A i \in DOMAIN fresh : "prod" \in DOMAIN fresh[i]
  BY <1>4
<1>6. QED
  BY <1>3, <1>4, <1>5 DEF Keyed

\* No two records of the pivot have the same product, but for those without one.
OneRecordPerProduct(pivot) ==
  \A i, j \in DOMAIN pivot : pivot[i].prod = pivot[j].prod /\ pivot[i].prod # "" => i = j

LEMMA PivotHasOneRecordPerProduct ==
  ASSUME NEW planes, IsTable(planes)
  PROVE  IsTable(Pivot(planes)) /\ OneRecordPerProduct(Pivot(planes))
<1> DEFINE Usable(r) == r.cajon # "CAN" /\ HasKey(r)
           Allowed(r) == r.cuotas \in Cuotas
           rows == RowsAt(planes, {i \in DOMAIN planes : Usable(planes[i])})
           Group(k) == LET Same(r) == PlanKey(r) = k /\ Allowed(r)
                       IN SortBy(RowsWith(rows, Same), LAMBDA a : a.cuotas)
           WithPlans(r) == \E i \in DOMAIN rows : PlanKey(rows[i]) = PlanKey(r) /\ Allowed(rows[i])
           at == {i \in DOMAIN rows : \A j \in 1..(i - 1) : PlanKey(rows[j]) # PlanKey(rows[i])}
           firsts == RowsAt(rows, at)
           kept == {i \in DOMAIN firsts : WithPlans(firsts[i])}
           keys == RowsAt(firsts, kept)
<1>1. IsTable(rows)
  BY RowsAtOfTable
<1>2. at \in SUBSET DOMAIN rows
  OBVIOUS
<1>3. /\ IsTable(firsts) /\ Cardinality(at) \in Nat /\ DOMAIN firsts = 1..Cardinality(at)
      /\ OrderOf(at) \in [1..Cardinality(at) -> at]
      /\ \A m, n \in 1..Cardinality(at) : m < n => OrderOf(at)[m] < OrderOf(at)[n]
      /\ \A n \in 1..Cardinality(at) : firsts[n] = rows[OrderOf(at)[n]]
  <2> HIDE DEF rows, at
  <2>1. QED
    BY <1>1, <1>2, RowsAtOfTable
<1>4. kept \in SUBSET DOMAIN firsts
  OBVIOUS
<1>5. /\ IsTable(keys) /\ Cardinality(kept) \in Nat /\ DOMAIN keys = 1..Cardinality(kept)
      /\ OrderOf(kept) \in [1..Cardinality(kept) -> kept]
      /\ \A m, n \in 1..Cardinality(kept) : m < n => OrderOf(kept)[m] < OrderOf(kept)[n]
      /\ \A n \in 1..Cardinality(kept) : keys[n] = firsts[OrderOf(kept)[n]]
  <2>1. IsTable(firsts)
    BY <1>3
  <2> HIDE DEF rows, at, firsts, kept
  <2>2. QED
    BY <2>1, <1>4, RowsAtOfTable
<1>6. DOMAIN rows \in SUBSET (Nat \ {0})
  BY <1>1, TableShape
<1>7. \A i, j \in DOMAIN keys : PlanKey(keys[i]) = PlanKey(keys[j]) => i = j
  <2> HIDE DEF rows, at, firsts, kept, keys
  <2> SUFFICES ASSUME NEW i \in DOMAIN keys, NEW j \in DOMAIN keys, i < j,
                      PlanKey(keys[i]) = PlanKey(keys[j])
               PROVE  FALSE
    BY <1>5
  <2> DEFINE x == OrderOf(at)[OrderOf(kept)[i]]  y == OrderOf(at)[OrderOf(kept)[j]]
  <2>1. OrderOf(kept)[i] \in DOMAIN firsts /\ OrderOf(kept)[j] \in DOMAIN firsts
        /\ OrderOf(kept)[i] < OrderOf(kept)[j]
    BY <1>5 DEF kept
  <2>2. x \in at /\ y \in at /\ x < y
    BY <1>3, <2>1
  <2>3. keys[i] = rows[x] /\ keys[j] = rows[y]
    BY <1>3, <1>5, <2>1
  <2>4. x \in 1..(y - 1)
    BY <2>2, <1>6 DEF at
  <2>5. PlanKey(rows[x]) # PlanKey(rows[y])
    BY <2>2, <2>4 DEF at
  <2>6. QED
    BY <2>3, <2>5
<1> DEFINE Record(r) ==
      LET g == Group(PlanKey(r)) IN
        [prod |-> r.prod, doc |-> r.doc, cajon |-> g[1].cajon, deuda |-> g[1].deuda,
         plans |-> [n \in 1..MaxPlans |-> IF n <= Len(g) THEN g[n].cuotas ELSE 0]]
           pivot == [i \in DOMAIN keys |-> Record(keys[i])]
<1>8. Pivot(planes) = pivot
  BY DEF Pivot, MapRows, RowsWith, KeepFirst
<1> HIDE DEF keys
<1>9. \A r : Record(r).prod = r.prod
  OBVIOUS
<1> HIDE DEF Record
<1>10. IsTable(pivot) /\ DOMAIN pivot = DOMAIN keys
  <2>1. Cardinality(kept) \in Nat /\ pivot = [i \in 1..Cardinality(kept) |-> pivot[i]]
    BY <1>5
  <2>2. QED
    BY <1>5, <2>1, TableIntro
<1>11. ASSUME NEW i \in DOMAIN keys, NEW j \in DOMAIN keys,
             pivot[i].prod = pivot[j].prod, pivot[i].prod # ""
      PROVE  i = j
  <2>1. keys[i].prod = keys[j].prod /\ keys[i].prod # ""
    BY <1>9, <1>11
  <2>2. PlanKey(keys[i]) = PlanKey(keys[j])
    BY <2>1 DEF PlanKey
  <2>3. QED
    BY <1>7, <2>2
<1>12. QED
  BY <1>8, <1>10, <1>11 DEF OneRecordPerProduct

\* The merge of a row with PLANES gives one row of the same product.
LEMMA JoinPlanGivesOneRow ==
  ASSUME NEW row, "prod" \in DOMAIN row,
         NEW pivot, IsTable(pivot), OneRecordPerProduct(pivot)
  PROVE  \E new : /\ JoinPlan(row, pivot) = <<new>>
                  /\ "prod" \in DOMAIN new /\ new.prod = row.prod
<1> DEFINE same == {i \in DOMAIN pivot : pivot[i].prod = row.prod /\ pivot[i].prod # ""}
           found == RowsAt(pivot, same)
           byDoc == RowsAt(pivot, {i \in DOMAIN pivot : pivot[i].doc = row.doc /\ pivot[i].doc # ""})
           matches == IF found # <<>> THEN found
                      ELSE IF byDoc # <<>> THEN <<byDoc[1]>> ELSE <<>>
           columns == PlanColumns(pivot)
           Taken(p) == [row EXCEPT
             !.cajon = p.cajon, !.deuda = p.deuda,
             !.plans = [n \in 1..MaxPlans |-> IF n \in columns THEN p.plans[n] ELSE @[n]]]
           none == [row EXCEPT !.plans = [n \in 1..MaxPlans |-> IF n \in columns THEN 0 ELSE @[n]]]
<1>1. JoinPlan(row, pivot) =
        IF matches # <<>> THEN [i \in DOMAIN matches |-> Taken(matches[i])] ELSE <<none>>
  BY DEF JoinPlan, MapRows, RowsWith
<1>2. found # <<>> => found = <<found[1]>>
  <2>1. /\ IsFiniteSet(same) /\ Cardinality(same) \in Nat
        /\ IsTable(found) /\ Len(found) = Cardinality(same)
    BY RowsAtOfTable
  <2>2. \A i, j \in same : i = j
    BY DEF OneRecordPerProduct
  <2> HIDE DEF same
  <2>3. Cardinality(same) \in {0, 1}
    <3>1. same = {} => Cardinality(same) = 0
      BY FS_EmptySet
    <3>2. \A i \in same : same = {i}
      BY <2>2
    <3>3. \A i : Cardinality({i}) = 1
      BY FS_Singleton
    <3>4. QED
      BY <3>1, <3>2, <3>3
  <2> HIDE DEF found
  <2>4. found = [i \in 1..Len(found) |-> found[i]] /\ Len(found) \in {0, 1}
    BY <2>1, <2>3, TableShape
  <2>5. Len(found) = 0 => found = <<>>
    BY <2>4
  <2>6. Len(found) = 1 => found = <<found[1]>>
    BY <2>4
  <2>7. QED
    BY <2>4, <2>5, <2>6
<1> HIDE DEF found, byDoc, columns
<1>3. \A p : "prod" \in DOMAIN Taken(p) /\ Taken(p).prod = row.prod
  OBVIOUS
<1>4. "prod" \in DOMAIN none /\ none.prod = row.prod
  OBVIOUS
<1> HIDE DEF Taken, none
<1>5. CASE matches # <<>>
  <2>1. PICK p : matches = <<p>>
    BY <1>2, <1>5
  <2>2. [i \in DOMAIN matches |-> Taken(matches[i])] = <<Taken(p)>>
    BY <2>1
  <2>3. QED
    BY <1>1, <1>3, <1>5, <2>2
<1>6. CASE matches = <<>>
  BY <1>1, <1>4, <1>6
<1>7. QED
  BY <1>5, <1>6

LEMMA ApplyPlanesWithin ==
  ASSUME NEW rows, Keyed(rows), NEW planes, IsTable(planes)
  PROVE  Within(ApplyPlanes(rows, planes), rows)
<1> DEFINE kept == RowsAt(rows, {i \in DOMAIN rows : rows[i].prod \notin Excluded(planes)})
           pivot == Pivot(planes)
           joined == [i \in DOMAIN kept |-> JoinPlan(kept[i], pivot)]
           new == [i \in DOMAIN kept |-> joined[i][1]]
<1>1. ApplyPlanes(rows, planes) = IF pivot = <<>> THEN kept ELSE FlattenSeq(joined)
  BY DEF ApplyPlanes, MapRows, RowsWith
<1>2. Within(kept, rows)
  BY WithinRows
<1>3. IsTable(pivot) /\ OneRecordPerProduct(pivot)
  BY PivotHasOneRecordPerProduct
<1> HIDE DEF kept, pivot
<1>4. ASSUME NEW i \in DOMAIN kept
      PROVE  joined[i] = <<new[i]>> /\ "prod" \in DOMAIN new[i] /\ new[i].prod = kept[i].prod
  <2>1. PICK r : /\ JoinPlan(kept[i], pivot) = <<r>>
                 /\ "prod" \in DOMAIN r /\ r.prod = kept[i].prod
    BY <1>2, <1>3, JoinPlanGivesOneRow DEF Within, Keyed
  <2>2. joined[i] = <<r>> /\ new[i] = r
    BY <2>1
  <2>3. QED
    BY <2>1, <2>2
<1>5. Within(new, kept)
  <2>1. Keyed(kept) /\ new = [i \in DOMAIN kept |-> new[i]]
    BY <1>2 DEF Within
  <2> HIDE DEF new
  <2>2. QED
    BY <1>4, <2>1, WithinMapped
<1>6. FlattenSeq(joined) = new
  <2>1. joined = [i \in DOMAIN new |-> <<new[i]>>]
    BY <1>4
  <2>2. IsTable(new)
    BY <1>5 DEF Within, Keyed
  <2> HIDE DEF joined, new
  <2>3. QED
    BY <2>1, <2>2, FlattenSingles
<1> HIDE DEF joined, new
<1>7. Within(new, rows)
  BY <1>2, <1>5, WithinTransitive
<1>8. QED
  BY <1>1, <1>2, <1>6, <1>7

-----------------------------------------------------------------------------
(* PAGOS and the exports *)

LEMMA ApplyPagosWithin ==
  ASSUME NEW rows, Keyed(rows), NEW pagos
  PROVE  Within(ApplyPagos(rows, pagos), rows)
<1> DEFINE owing(t) == RowsAt(t, {i \in DOMAIN t : ~Recovered(t[i])})
           dropped(t) == [i \in DOMAIN t |-> DropActual(t[i])]
           cajon == [i \in DOMAIN rows |-> WithCajon(rows[i], pagos)]
           paid == [i \in DOMAIN rows |-> WithPagos(WithCajon(rows[i], pagos), pagos)]
<1>1. ApplyPagos(rows, pagos) = IF pagos = <<>> THEN dropped(owing(rows))
                                ELSE IF InScope(pagos) = <<>> THEN owing(cajon)
                                ELSE dropped(owing(paid))
  BY DEF ApplyPagos, MapRows, StillOwes, RowsWith
<1>2. ASSUME NEW t, Keyed(t) PROVE Within(owing(t), t)
  BY <1>2, WithinRows
<1>3. ASSUME NEW t, Keyed(t) PROVE Within(dropped(t), t)
  <2> DEFINE new == dropped(t)
  <2>1. \A i \in DOMAIN t : "prod" \in DOMAIN new[i] /\ new[i].prod = t[i].prod
    BY <1>3 DEF Keyed, DropActual
  <2>2. new = [i \in DOMAIN t |-> new[i]]
    OBVIOUS
  <2> HIDE DEF new
  <2>3. QED
    BY <1>3, <2>1, <2>2, WithinMapped DEF new
<1>4. Within(cajon, rows)
  <2>1. \A i \in DOMAIN rows : "prod" \in DOMAIN cajon[i] /\ cajon[i].prod = rows[i].prod
    BY DEF Keyed, WithCajon
  <2>2. cajon = [i \in DOMAIN rows |-> cajon[i]]
    OBVIOUS
  <2> HIDE DEF cajon
  <2>3. QED
    BY <2>1, <2>2, WithinMapped
<1>5. Within(paid, rows)
  <2>1. \A i \in DOMAIN rows : "prod" \in DOMAIN paid[i] /\ paid[i].prod = rows[i].prod
    <3> SUFFICES ASSUME NEW i \in DOMAIN rows
                 PROVE  "prod" \in DOMAIN paid[i] /\ paid[i].prod = rows[i].prod
      OBVIOUS
    <3> DEFINE r == WithCajon(rows[i], pagos)
    <3>1. "prod" \in DOMAIN r /\ r.prod = rows[i].prod
      BY DEF Keyed, WithCajon
    <3> HIDE DEF r
    <3>2. "prod" \in DOMAIN WithPagos(r, pagos) /\ WithPagos(r, pagos).prod = r.prod
      BY <3>1 DEF WithPagos
    <3>3. QED
      BY <3>1, <3>2 DEF r
  <2>2. paid = [i \in DOMAIN rows |-> paid[i]]
    OBVIOUS
  <2> HIDE DEF paid
  <2>3. QED
    BY <2>1, <2>2, WithinMapped
<1> HIDE DEF owing, dropped, cajon, paid
<1>6. Within(owing(rows), rows) /\ Within(dropped(owing(rows)), rows)
  <2>1. Within(owing(rows), rows)
    BY <1>2
  <2>2. Within(dropped(owing(rows)), owing(rows))
    BY <1>3, <2>1 DEF Within
  <2>3. QED
    BY <2>1, <2>2, WithinTransitive
<1>7. Within(owing(cajon), rows)
  <2>1. Within(owing(cajon), cajon)
    BY <1>2, <1>4 DEF Within
  <2>2. QED
    BY <1>4, <2>1, WithinTransitive
<1>8. Within(dropped(owing(paid)), rows)
  <2>1. Within(owing(paid), paid)
    BY <1>2, <1>5 DEF Within
  <2>2. Within(dropped(owing(paid)), owing(paid))
    BY <1>3, <2>1 DEF Within
  <2>3. QED
    BY <1>5, <2>1, <2>2, WithinTransitive
<1>9. QED
  BY <1>1, <1>6, <1>7, <1>8

LEMMA ApplyPagosChatWithin ==
  ASSUME NEW rows, Keyed(rows), NEW pagos
  PROVE  Within(ApplyPagosChat(rows, pagos), rows)
<1> DEFINE Pay(r) ==
             LET mine == PagosOf(r, pagos)  paid == Importes(mine) IN
             [r EXCEPT !.recupero = IF mine = <<>> THEN @ ELSE LastOf(mine, "recupero"),
                       !.deuda = IF paid > @ THEN 0 ELSE @ - paid]
           Source(r) == [r EXCEPT !.fuente =
             LET before == IF r.plans # NoPlans THEN "planes"
                           ELSE IF @ = NoColumn THEN "api" ELSE @
             IN IF r.recupero # "" /\ before = "api" THEN "pagos" ELSE before]
           paid == [i \in DOMAIN rows |-> Pay(rows[i])]
           owing == RowsAt(paid, {i \in DOMAIN paid : paid[i].recupero # "SI"})
           sourced == [i \in DOMAIN owing |-> Source(owing[i])]
<1>1. ApplyPagosChat(rows, pagos) = sourced
  BY DEF ApplyPagosChat, MapRows, RowsWith
<1>2. ASSUME NEW r, "prod" \in DOMAIN r
      PROVE  /\ "prod" \in DOMAIN Pay(r) /\ Pay(r).prod = r.prod
             /\ "prod" \in DOMAIN Source(r) /\ Source(r).prod = r.prod
  BY <1>2
<1> HIDE DEF Pay, Source
<1>3. Within(paid, rows)
  <2>1. \A i \in DOMAIN rows : "prod" \in DOMAIN paid[i] /\ paid[i].prod = rows[i].prod
    BY <1>2 DEF Keyed
  <2>2. paid = [i \in DOMAIN rows |-> paid[i]]
    OBVIOUS
  <2> HIDE DEF paid
  <2>3. QED
    BY <2>1, <2>2, WithinMapped
<1> HIDE DEF paid
<1>4. Within(owing, paid)
  BY <1>3, WithinRows DEF Within
<1> HIDE DEF owing
<1>5. Within(sourced, owing)
  <2>1. \A i \in DOMAIN owing : "prod" \in DOMAIN sourced[i] /\ sourced[i].prod = owing[i].prod
    BY <1>2, <1>4 DEF Within, Keyed
  <2>2. sourced = [i \in DOMAIN owing |-> sourced[i]] /\ Keyed(owing)
    BY <1>4 DEF Within
  <2> HIDE DEF sourced
  <2>3. QED
    BY <2>1, <2>2, WithinMapped
<1>6. QED
  BY <1>1, <1>3, <1>4, <1>5, WithinTransitive

\* Whatever the files of the day say, the update of the state adds no row to it.
LEMMA UpdateEstadoWithin ==
  ASSUME NEW rows, Keyed(rows), NEW in, IsTable(in.planes)
  PROVE  Within(UpdateEstado(rows, in), rows)
<1> DEFINE planned == ApplyPlanes(rows, in.planes)
<1>1. Within(planned, rows)
  BY ApplyPlanesWithin
<1>2. Keyed(planned)
  BY <1>1 DEF Within
<1> HIDE DEF planned
<1>3. Within(ApplyPagos(planned, in.pagos), planned)
  BY <1>2, ApplyPagosWithin
<1>4. Within(ApplyPagosChat(planned, in.pagos), planned)
  BY <1>2, ApplyPagosChatWithin
<1>5. UpdateEstado(rows, in) \in {ApplyPagos(planned, in.pagos), ApplyPagosChat(planned, in.pagos)}
  BY DEF UpdateEstado, planned
<1>6. QED
  BY <1>1, <1>3, <1>4, <1>5, WithinTransitive

LEMMA ExportsWithin ==
  ASSUME NEW rows, Keyed(rows), NEW columns
  PROVE  /\ Within(Transform(AplicarFiltros(rows), columns), rows)
         /\ Within(Saved(rows), rows)
<1> DEFINE in == RowsAt(rows, {i \in DOMAIN rows : rows[i].cajon \in {"M60", "M90"}})
           Roman(r) == [prod |-> r.prod, doc |-> r.doc, deuda |-> r.deuda, fuente |-> r.fuente,
                        plan_ok |-> \E n \in columns : r.plans[n] # 0]
           exported == [i \in DOMAIN in |-> Roman(in[i])]
           Text(v) == IF v = NaN THEN "" ELSE v
           Row(r) == [r EXCEPT !.actual = Text(@), !.recCajon = Text(@)]
           saved == [i \in DOMAIN rows |-> Row(rows[i])]
<1>1. Transform(AplicarFiltros(rows), columns) = exported /\ Saved(rows) = saved
  BY DEF Transform, AplicarFiltros, Saved, MapRows, RowsWith
<1>2. Within(in, rows)
  BY WithinRows
<1> HIDE DEF in
<1>3. Within(exported, in)
  <2>1. \A i \in DOMAIN in : "prod" \in DOMAIN exported[i] /\ exported[i].prod = in[i].prod
    OBVIOUS
  <2>2. exported = [i \in DOMAIN in |-> exported[i]] /\ Keyed(in)
    BY <1>2 DEF Within
  <2> HIDE DEF exported
  <2>3. QED
    BY <2>1, <2>2, WithinMapped
<1>4. Within(saved, rows)
  <2>1. \A i \in DOMAIN rows : "prod" \in DOMAIN saved[i] /\ saved[i].prod = rows[i].prod
    BY DEF Keyed
  <2>2. saved = [i \in DOMAIN rows |-> saved[i]]
    OBVIOUS
  <2> HIDE DEF saved
  <2>3. QED
    BY <2>1, <2>2, WithinMapped
<1>5. QED
  BY <1>1, <1>2, <1>3, <1>4, WithinTransitive

\* The documents of CHAT share the rows of ROMAN out among them.
LEMMA ChatCountsEveryRow ==
  ASSUME NEW rows, IsTable(rows)
  PROVE  FoldSet(LAMBDA r, sum : r.cantidad_productos + sum, 0, BuildChat(rows)) = Len(rows)
<1> DEFINE docs == {rows[i].doc : i \in DOMAIN rows}
           Of(d) == {i \in DOMAIN rows : rows[i].doc = d}
           chats == BuildChat(rows)
           value == [r \in chats |-> r.cantidad_productos]
           At(s) == {i \in DOMAIN rows : \E r \in s : r.doc = rows[i].doc}
           Has(d, f) == \E i \in Of(d) : rows[i].fuente = f
           Chat(d) == [doc |-> d, cantidad_productos |-> Cardinality(Of(d)),
                       tiene_planes |-> \E i \in Of(d) : rows[i].plan_ok,
                       fuente_deuda |-> IF Has(d, "planes") THEN "planes"
                                        ELSE IF Has(d, "pagos") THEN "pagos" ELSE "api"]
           counted == [s \in SUBSET chats |-> Cardinality(At(s))]
<1>1. /\ Len(rows) \in Nat /\ DOMAIN rows = 1..Len(rows)
      /\ IsFiniteSet(DOMAIN rows) /\ Cardinality(DOMAIN rows) = Len(rows)
  <2>1. Len(rows) \in Nat /\ DOMAIN rows = 1..Len(rows)
    BY TableShape
  <2>2. Cardinality(1..Len(rows)) = Len(rows) /\ IsFiniteSet(1..Len(rows))
    <3>1. 1 \in Int /\ Len(rows) \in Int
          /\ (IF 1 > Len(rows) THEN 0 ELSE Len(rows) - 1 + 1) = Len(rows)
      BY <2>1
    <3>2. QED
      BY <3>1, FS_Interval
  <2>3. QED
    BY <2>1, <2>2
<1>2. chats = {Chat(d) : d \in docs}
  BY DEF BuildChat
<1>3. ASSUME NEW r \in chats
      PROVE  r.doc \in docs /\ r.cantidad_productos = Cardinality(Of(r.doc))
  <2>1. PICK d \in docs : r = Chat(d)
    BY <1>2
  <2>2. QED
    BY <2>1
<1>4. ASSUME NEW d \in docs PROVE \E r \in chats : r.doc = d
  <2>1. Chat(d) \in chats /\ Chat(d).doc = d
    BY <1>2
  <2>2. QED
    BY <2>1
<1>5. ASSUME NEW r \in chats, NEW q \in chats, r.doc = q.doc PROVE r = q
  <2>1. PICK d \in docs : r = Chat(d)
    BY <1>2
  <2>2. PICK e \in docs : q = Chat(e)
    BY <1>2
  <2>3. d = e
    BY <1>5, <2>1, <2>2
  <2>4. QED
    BY <2>1, <2>2, <2>3
<1>6. IsFiniteSet(chats)
  <2> DEFINE docOf == [r \in chats |-> r.doc]
  <2>1. IsFiniteSet(docs)
    <3> DEFINE docAt == [i \in DOMAIN rows |-> rows[i].doc]
    <3>1. docAt \in Surjection(DOMAIN rows, docs)
      BY DEF Surjection
    <3>2. QED
      BY <1>1, <3>1, FS_Surjection
  <2>2. docOf \in Injection(chats, docs)
    BY <1>3, <1>5 DEF Injection, IsInjective
  <2>3. QED
    BY <2>1, <2>2, FS_Injection
<1> HIDE DEF chats
<1>7. ASSUME NEW s \in SUBSET chats, s # {}
      PROVE  LET x == CHOOSE x \in s : TRUE
             IN  counted[s] = value[x] + counted[s \ {x}]
  <2> DEFINE x == CHOOSE x \in s : TRUE  rest == s \ {x}
  <2>1. x \in s /\ x \in chats /\ rest \in SUBSET chats
    BY <1>7
  <2> HIDE DEF x
  <2>2. At(s) = Of(x.doc) \cup At(rest)
    <3>1. \A i \in DOMAIN rows : i \in At(s) <=> i \in Of(x.doc) \/ i \in At(rest)
      BY <2>1
    <3>2. QED
      BY <3>1
  <2>3. Of(x.doc) \cap At(rest) = {}
    <3> SUFFICES ASSUME NEW i \in Of(x.doc), i \in At(rest) PROVE FALSE
      OBVIOUS
    <3>1. PICK r \in rest : r.doc = rows[i].doc
      OBVIOUS
    <3>2. r = x
      BY <1>5, <2>1, <3>1
    <3>3. QED
      BY <3>1, <3>2
  <2>4. /\ IsFiniteSet(Of(x.doc)) /\ Cardinality(Of(x.doc)) \in Nat
        /\ IsFiniteSet(At(rest)) /\ Cardinality(At(rest)) \in Nat
    <3>1. Of(x.doc) \in SUBSET DOMAIN rows /\ At(rest) \in SUBSET DOMAIN rows
      OBVIOUS
    <3> HIDE DEF Of, At
    <3>2. IsFiniteSet(Of(x.doc)) /\ IsFiniteSet(At(rest))
      BY <1>1, <3>1, FS_Subset
    <3>3. QED
      BY <3>2, FS_CardinalityType
  <2>5. Cardinality(At(s)) = Cardinality(Of(x.doc)) + Cardinality(At(rest))
    <3> HIDE DEF Of, At
    <3>1. Cardinality(Of(x.doc) \cup At(rest))
          = Cardinality(Of(x.doc)) + Cardinality(At(rest)) - Cardinality({})
      BY <2>3, <2>4, FS_Union
    <3>2. Cardinality({}) = 0
      BY FS_EmptySet
    <3>3. QED
      BY <2>2, <2>4, <3>1, <3>2
  <2>6. counted[s] = Cardinality(At(s)) /\ counted[rest] = Cardinality(At(rest))
        /\ value[x] = Cardinality(Of(x.doc))
    BY <1>3, <2>1
  <2>7. QED
    BY <2>5, <2>6 DEF x
<1>8. counted[{}] = 0
  <2>1. At({}) = {}
    OBVIOUS
  <2>2. QED
    BY <2>1, FS_EmptySet
<1>9. counted = [s \in SUBSET chats |-> Cardinality(At(s))]
  OBVIOUS
<1> HIDE DEF counted
<1>10. Sums(counted, chats, value)
  BY <1>7, <1>8, <1>9 DEF Sums
<1> DEFINE Iter(f) == f = [s \in SUBSET chats |->
                            IF s = {} THEN 0
                            ELSE (CHOOSE x \in s : TRUE).cantidad_productos
                                 + f[s \ {CHOOSE x \in s : TRUE}]]
<1>11. \A f : Iter(f) <=> Sums(f, chats, value)
  <2> SUFFICES ASSUME NEW f PROVE Iter(f) <=> Sums(f, chats, value)
    OBVIOUS
  <2>1. \A s \in SUBSET chats :
          s # {} => value[CHOOSE x \in s : TRUE] = (CHOOSE x \in s : TRUE).cantidad_productos
    <3> SUFFICES ASSUME NEW s \in SUBSET chats, s # {}
                 PROVE  value[CHOOSE x \in s : TRUE] = (CHOOSE x \in s : TRUE).cantidad_productos
      OBVIOUS
    <3>1. (CHOOSE x \in s : TRUE) \in chats
      OBVIOUS
    <3>2. QED
      BY <3>1
  <2> HIDE DEF value
  <2>2. QED
    BY <2>1 DEF Sums
<1>12. Iter(CHOOSE f : Iter(f))
  <2> HIDE DEF Iter
  <2>1. \E f : Iter(f)
    BY <1>10, <1>11
  <2>2. QED
    BY <2>1
<1>13. (CHOOSE f : Iter(f)) = counted
  BY <1>6, <1>10, <1>11, <1>12, SumsIsUnique
<1>14. FoldSet(LAMBDA r, sum : r.cantidad_productos + sum, 0, chats) = (CHOOSE f : Iter(f))[chats]
  BY DEF FoldSet, MapThenFoldSet
<1>15. counted[chats] = Len(rows)
  <2>1. At(chats) = DOMAIN rows
    BY <1>4
  <2>2. QED
    BY <1>1, <1>9, <2>1
<1>16. QED
  BY <1>13, <1>14, <1>15 DEF chats

-----------------------------------------------------------------------------
(* the state of the month *)

\* Every table in the run's hands is within the base, and what it is about to
\* save is within what it loaded.
StateInv ==
  /\ IsTable(input.planes)
  /\ Within(estado, FiltrarBase) /\ Within(roman, FiltrarBase) /\ Within(vigente.rows, FiltrarBase)
  /\ stage = "update" => estado = vigente.rows
  /\ stage = "save" => Within(estado, vigente.rows)

LEMMA StateInvInit == Init => StateInv
<1>1. Within(<<>>, FiltrarBase)
  BY BaseIsKeyed, WithinEmpty
<1>2. IsTable(<<>>)
  BY <1>1 DEF Within, Keyed
<1>3. QED
  BY <1>1, <1>2 DEF Init, StateInv, NoFiles

LEMMA StateInvNext == StateInv /\ [Next]_vars => StateInv'
<1> SUFFICES ASSUME StateInv, [Next]_vars PROVE StateInv'
  OBVIOUS
<1>1. Keyed(FiltrarBase) /\ Within(<<>>, FiltrarBase) /\ Within(FiltrarBase, FiltrarBase)
  BY BaseIsKeyed, WithinEmpty, WithinItself
<1>2. IsTable(NoFiles.planes)
  BY <1>1 DEF Within, Keyed, NoFiles
<1>3. FiltrarBase' = FiltrarBase
  BY DEF FiltrarBase, NoPlans, NoColumn, MapRows, RowsWith, RowsAt
<1>4. ASSUME Return, vigente' = vigente PROVE StateInv'
  BY <1>1, <1>2, <1>3, <1>4 DEF Return, StateInv
<1>5. CASE Start
  <2>1. PICK planes \in Files(PlanRows), pagos \in Files(PayRows) :
          input' = [planes |-> planes, pagos |-> pagos]
    BY <1>5 DEF Start
  <2>2. PICK n \in 0..MaxRows : planes \in [1..n -> PlanRows]
    BY DEF Files
  <2>3. n \in Nat /\ planes = [i \in 1..n |-> planes[i]]
    BY <2>2, TableAssumption
  <2>4. IsTable(planes)
    BY <2>3, TableIntro
  <2>5. QED
    BY <1>3, <1>5, <2>1, <2>4 DEF Start, StateInv
<1>6. CASE Load
  <2>1. CASE Rebuild(vigente.rows) /\ FiltrarBase = <<>>
    BY <1>4, <1>6, <2>1 DEF Load
  <2>2. CASE ~(Rebuild(vigente.rows) /\ FiltrarBase = <<>>)
    <3>1. /\ vigente'.rows \in {FiltrarBase, vigente.rows}
          /\ estado' = vigente'.rows /\ stage' = "update" /\ UNCHANGED <<roman, input>>
      BY <1>6, <2>2 DEF Load
    <3>2. QED
      BY <1>1, <1>3, <3>1 DEF StateInv
  <2>3. QED
    BY <2>1, <2>2
<1>7. CASE Update
  <2> DEFINE updated == UpdateEstado(estado, input)
             exported == Transform(AplicarFiltros(updated), PlanColumns(Pivot(input.planes)))
  <2>1. CASE input.planes # <<>> /\ ~CoverageOK(exported)
    BY <1>4, <1>7, <2>1 DEF Update
  <2>2. CASE ~(input.planes # <<>> /\ ~CoverageOK(exported))
    <3>1. Within(updated, estado)
      BY UpdateEstadoWithin DEF StateInv, Within
    <3>2. Keyed(updated)
      BY <3>1 DEF Within
    <3>3. Within(exported, updated)
      <4> HIDE DEF updated
      <4>1. QED
        BY <3>2, ExportsWithin
    <3>4. Within(updated, FiltrarBase) /\ Within(exported, FiltrarBase)
      <4>1. Within(estado, FiltrarBase)
        BY DEF StateInv
      <4> HIDE DEF updated, exported
      <4>2. QED
        BY <3>1, <3>3, <4>1, WithinTransitive
    <3>5. /\ stage = "update" /\ vigente' = vigente
          /\ estado' = updated /\ roman' = exported /\ stage' = "save" /\ input' = NoFiles
      BY <1>7, <2>2 DEF Update
    <3> HIDE DEF updated, exported
    <3>6. QED
      BY <1>2, <1>3, <3>1, <3>4, <3>5 DEF StateInv
  <2>3. QED
    BY <2>1, <2>2
<1>8. CASE SaveVigente
  <2>1. CASE MaySave
    <3>1. /\ stage' = "snapshot" /\ UNCHANGED <<estado, roman, input>>
          /\ vigente'.rows = Saved(estado)
      BY <1>8, <2>1 DEF SaveVigente
    <3>2. Within(Saved(estado), FiltrarBase)
      <4>1. Within(estado, FiltrarBase) /\ Keyed(estado)
        BY DEF StateInv, Within
      <4>2. Within(Saved(estado), estado)
        BY <4>1, ExportsWithin
      <4>3. QED
        BY <4>1, <4>2, WithinTransitive
    <3>3. QED
      BY <1>3, <3>1, <3>2 DEF StateInv
  <2>2. CASE ~MaySave
    BY <1>4, <1>8, <2>2 DEF SaveVigente
  <2>3. QED
    BY <2>1, <2>2
<1>9. CASE SaveSnapshot
  BY <1>4, <1>9 DEF SaveSnapshot
<1>10. CASE Die
  BY <1>4, <1>10 DEF Die
<1>11. CASE NextDay
  BY <1>3, <1>11 DEF NextDay, StateInv
<1>12. CASE UNCHANGED vars
  BY <1>3, <1>12 DEF vars, StateInv
<1>13. QED
  BY <1>5, <1>6, <1>7, <1>8, <1>9, <1>10, <1>11, <1>12 DEF Next

LEMMA StateInvHolds == Spec => []StateInv
  BY StateInvInit, StateInvNext, PTL DEF Spec

\* The merges never multiply a client, whatever the files of the day repeat.
THEOREM MergesNeverMultiply == Spec => []RowsNeverMultiply
<1>1. StateInv => RowsNeverMultiply
  <2> SUFFICES ASSUME StateInv PROVE RowsNeverMultiply
    OBVIOUS
  <2>1. ASSUME NEW rows \in {estado, roman, vigente.rows}, NEW p
        PROVE  Cardinality(RowsOf(rows, p)) <= Cardinality(RowsOf(FiltrarBase, p))
    <3>1. Within(rows, FiltrarBase)
      BY DEF StateInv
    <3>2. QED
      BY <3>1, WithinCounts
  <2>2. IsTable(roman)
    BY DEF StateInv, Within, Keyed
  <2>3. FoldSet(LAMBDA r, sum : r.cantidad_productos + sum, 0, BuildChat(roman)) = Len(roman)
    BY <2>2, ChatCountsEveryRow
  <2>4. QED
    BY <2>1, <2>3 DEF RowsNeverMultiply, RowsOf
<1>2. QED
  BY <1>1, StateInvHolds, PTL

\* A client that left the state stays out for the month, unless nobody is left.
THEOREM LeavingIsForTheMonth == Spec => OnlyAnEmptyStateBringsBack
<1>1. StateInv /\ [Next]_vars =>
        [vigente.rows = <<>> \/ ProductsOf(vigente'.rows) \subseteq ProductsOf(vigente.rows)]_vars
  <2> SUFFICES ASSUME StateInv, Next, vigente.rows # <<>>
               PROVE  ProductsOf(vigente'.rows) \subseteq ProductsOf(vigente.rows)
    OBVIOUS
  <2>1. CASE vigente' = vigente
    BY <2>1
  <2>2. CASE Load
    BY <2>1, <2>2 DEF Load, Rebuild
  <2>3. CASE SaveVigente /\ MaySave
    <3>1. stage = "save" /\ vigente'.rows = Saved(estado)
      BY <2>3 DEF SaveVigente
    <3>2. Within(estado, vigente.rows)
      BY <3>1 DEF StateInv
    <3>3. Within(Saved(estado), estado)
      BY <3>2, ExportsWithin DEF Within
    <3>4. Within(vigente'.rows, vigente.rows)
      BY <3>1, <3>2, <3>3, WithinTransitive
    <3>5. QED
      BY <3>4, WithinProducts
  <2>4. QED
    BY <2>1, <2>2, <2>3 DEF Next, Start, Update, SaveVigente, SaveSnapshot, Die, NextDay
<1>2. QED
  BY <1>1, StateInvHolds, PTL DEF Spec, OnlyAnEmptyStateBringsBack

-----------------------------------------------------------------------------
(* the days applied *)

\* Unless a run died between the two files, the days applied are in order and
\* today's is among them only when its snapshot is there or is about to be.
DaysInv ==
  /\ day \in Nat
  /\ vigente.days \in Seq(Nat)
  /\ \A i \in DOMAIN vigente.days : vigente.days[i] <= day
  /\ ~torn =>
       /\ \A i, j \in DOMAIN vigente.days : i < j => vigente.days[i] < vigente.days[j]
       /\ day \in snapshots \/ stage = "snapshot"
          \/ \A i \in DOMAIN vigente.days : vigente.days[i] < day

LEMMA DaysInvNext == DaysInv /\ [Next]_vars => DaysInv'
<1> SUFFICES ASSUME DaysInv, [Next]_vars PROVE DaysInv'
  OBVIOUS
<1> USE DEF DaysInv
<1>1. CASE Start \/ NextDay \/ UNCHANGED vars
  BY <1>1 DEF Start, NextDay, vars
<1>2. CASE Load
  <2>1. UNCHANGED <<day, snapshots, torn>> /\ stage # "snapshot"
    BY <1>2 DEF Load
  <2>2. vigente'.days \in {<<>>, vigente.days}
    BY <1>2 DEF Load
  <2>3. <<>> \in Seq(Nat) /\ DOMAIN <<>> = {}
    OBVIOUS
  <2>4. QED
    BY <2>1, <2>2, <2>3
<1>3. CASE Update
  BY <1>3 DEF Update, Return
<1>4. CASE SaveVigente
  <2>1. CASE MaySave
    <3> DEFINE days == vigente.days
    <3>1. /\ vigente'.days = Append(days, day) /\ stage = "save" /\ day \notin snapshots
          /\ stage' = "snapshot" /\ UNCHANGED <<day, snapshots, torn>>
      BY <1>4, <2>1 DEF SaveVigente, MaySave
    <3>2. /\ Append(days, day) \in Seq(Nat) /\ DOMAIN Append(days, day) = 1..(Len(days) + 1)
          /\ Len(days) \in Nat /\ DOMAIN days = 1..Len(days)
          /\ \A i \in 1..Len(days) : Append(days, day)[i] = days[i]
          /\ Append(days, day)[Len(days) + 1] = day
      OBVIOUS
    <3>3. QED
      BY <3>1, <3>2
  <2>2. CASE ~MaySave
    BY <1>4, <2>2 DEF SaveVigente, MaySave, Return
  <2>3. QED
    BY <2>1, <2>2
<1>5. CASE SaveSnapshot
  BY <1>5 DEF SaveSnapshot, Return
<1>6. CASE Die
  BY <1>6 DEF Die, Return
<1>7. QED
  BY <1>1, <1>2, <1>3, <1>4, <1>5, <1>6 DEF Next

\* A day's payments are discounted once and in order, unless a run dies between
\* the two files of guardar_estado.
THEOREM EachDayOnce == Spec => []DaysAppliedOnce
<1>1. Init => DaysInv
  BY DEF Init, DaysInv
<1>2. DaysInv => DaysAppliedOnce
  BY DEF DaysInv, DaysAppliedOnce
<1>3. QED
  BY <1>1, <1>2, DaysInvNext, PTL DEF Spec
=============================================================================
