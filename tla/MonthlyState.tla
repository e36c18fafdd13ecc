---------------------------- MODULE MonthlyState ----------------------------
(***************************************************************************)
(* A month of Naranja X (legacy/ma and legacy/chat): procesar_dia loads    *)
(* the month's state, applies the day's PLANES and PAGOS files to it,      *)
(* writes the exports for the dialers and saves the state of the day.      *)
(*                                                                         *)
(* A table is a sequence of rows.  A row of the state holds the fields the *)
(* daily merges touch; actual and recCajon are the columns                 *)
(* cajon_actual_prod and recupero_cajon, which a run may leave in the      *)
(* file.  total_vencida follows total_deuda and is left out, and amounts   *)
(* are whole numbers.                                                      *)
(***************************************************************************)
EXTENDS Tables

CONSTANTS
  Base,      \* the rows of the monthly base
  PlanRows,  \* rows of a PLANES file
  PayRows,   \* rows of a PAGOS file
  MaxRows,   \* rows of a daily file
  MaxPlans,  \* MAX_DYNAMIC_PLANS
  Cuotas,    \* ALLOWED_PLAN_INSTALLMENTS
  Days       \* the month has days 1 .. Days

ASSUME TableAssumption ==
  /\ Base \in Seq([prod : STRING, doc : STRING, cajon : STRING, puro : BOOLEAN, deuda : Nat])
  /\ PlanRows \subseteq [prod : STRING, doc : STRING, cajon : STRING, cuotas : Nat, deuda : Nat]
  /\ PayRows \subseteq [prod : STRING, asig : STRING, actual : STRING, recupero : STRING,
                         importe : Nat, dt : Int]
  /\ MaxRows \in Nat /\ MaxPlans \in Nat /\ Days \in Nat

NoColumn == "no column"
NaN == "NaN"
NoAmount == -1
Blank == {"", NaN}

VARIABLES
  chat,       \* the month is one of legacy/chat, not of legacy/ma
  day,
  stage,      \* where the run of the day is; "idle" between runs
  input,      \* [planes, pagos]: the files of the day, <<>> when there is none
  estado,     \* df_estado_vigente, then df_estado_actualizado
  roman,      \* the ROMAN export being written
  vigente,    \* estado_<mes>.csv: [exists, rows, days]; days is the history of
              \* the days applied to its rows
  snapshots,  \* the days that have an estado_<fecha>.csv
  torn        \* a run died between the two files of a day

vars == <<chat, day, stage, input, estado, roman, vigente, snapshots, torn>>

ProductsOf(rows) == {rows[i].prod : i \in DOMAIN rows}

-----------------------------------------------------------------------------
(* back_base_etl: the base, PLANES and PAGOS *)

NoPlans == [i \in 1..MaxPlans |-> 0]

\* _filtrar_base_inicial_m90_puro.
FiltrarBase ==
  LET M90Puro(r) == r.cajon = "M90" /\ r.puro
      Fresh(r) == [prod |-> r.prod, doc |-> r.doc, cajon |-> r.cajon, deuda |-> r.deuda,
                   recupero |-> "", plans |-> NoPlans, actual |-> NoColumn,
                   recCajon |-> NoColumn, fuente |-> NoColumn]
  IN MapRows(Fresh, RowsWith(Base, M90Puro))

\* The key of a PLANES row: its product, or its document when it has none.
PlanKey(r) == IF r.prod # "" THEN <<"product", r.prod>> ELSE <<"dni", r.doc>>
HasKey(r) == r.prod # "" \/ r.doc # ""

\* The products of cajon CAN, which pivot_planes puts aside.
Excluded(planes) == {r.prod : r \in {q \in ToSet(planes) : q.cajon = "CAN"}} \ {""}

\* Mutant: PLANES is joined as it comes, with a record per plan.
PivotPerPlan(planes) ==
  LET Usable(r) == r.cajon # "CAN" /\ HasKey(r) /\ r.cuotas \in Cuotas
      One(r) == [prod |-> r.prod, doc |-> r.doc, cajon |-> r.cajon, deuda |-> r.deuda,
                 plans |-> [NoPlans EXCEPT ![1] = r.cuotas]]
  IN MapRows(One, RowsWith(planes, Usable))
\* pivot_planes itself: one record per key in order of appearance,
\* its plans sorted by installments.
Pivot(planes) ==
  LET Usable(r) == r.cajon # "CAN" /\ HasKey(r)
      Allowed(r) == r.cuotas \in Cuotas
      rows == RowsWith(planes, Usable)
      Group(k) == LET Same(r) == PlanKey(r) = k /\ Allowed(r)
                  IN SortBy(RowsWith(rows, Same), LAMBDA a : a.cuotas)
      WithPlans(r) == \E i \in DOMAIN rows : PlanKey(rows[i]) = PlanKey(r) /\ Allowed(rows[i])
      Record(r) == LET g == Group(PlanKey(r)) IN
        [prod |-> r.prod, doc |-> r.doc, cajon |-> g[1].cajon, deuda |-> g[1].deuda,
         plans |-> [n \in 1..MaxPlans |-> IF n <= Len(g) THEN g[n].cuotas ELSE 0]]
  IN MapRows(Record, RowsWith(KeepFirst(rows, PlanKey), WithPlans))

\* The columns plan_1 .. plan_n of the day.
PlanColumns(pivot) ==
  {n \in 1..MaxPlans : \E i \in DOMAIN pivot : pivot[i].plans[n] # 0}

\* The left join of one row with the records of its product, or, when there is
\* none, with the first record of its document.
JoinPlan(row, pivot) ==
  LET Same(p) == p.prod = row.prod /\ p.prod # ""
      SameDoc(p) == p.doc = row.doc /\ p.doc # ""
      found == RowsWith(pivot, Same)
      byDoc == RowsWith(pivot, SameDoc)
      matches == IF found # <<>> THEN found
                 ELSE IF byDoc # <<>> THEN <<byDoc[1]>> ELSE <<>>
      columns == PlanColumns(pivot)
      Taken(p) == [row EXCEPT
        !.cajon = p.cajon, !.deuda = p.deuda,
        !.plans = [n \in 1..MaxPlans |-> IF n \in columns THEN p.plans[n] ELSE @[n]]]
  IN IF matches # <<>> THEN MapRows(Taken, matches)
     ELSE <<[row EXCEPT !.plans = [n \in 1..MaxPlans |-> IF n \in columns THEN 0 ELSE @[n]]]>>

\* update_estado up to PAGOS.
ApplyPlanes(rows, planes) ==
  LET Kept(r) == r.prod \notin Excluded(planes)
      pivot == Pivot(planes)
      Join(r) == JoinPlan(r, pivot)
  IN IF pivot = <<>> THEN RowsWith(rows, Kept)
     ELSE FlattenSeq(MapRows(Join, RowsWith(rows, Kept)))

\* The last value of a column, and the last that is not blank.
LastOf(rows, column) == rows[Len(rows)][column]
LastNonBlank(rows, column, blank) ==
  LET Full(r) == r[column] # blank
      full == RowsWith(rows, Full)
  IN IF full = <<>> THEN blank ELSE LastOf(full, column)
Importes(rows) == FoldSeq(LAMBDA r, sum : r.importe + sum, 0, rows)
PagosOf(row, pagos) == LET Same(p) == p.prod = row.prod IN RowsWith(pagos, Same)
First(value, otherwise) == IF value # NaN THEN value ELSE otherwise

\* PAGOS of the month's cajon, and those whose client is still in the scope.
AsigM90(pagos) == LET Asig(p) == p.asig = "M90" IN RowsWith(pagos, Asig)
InScope(pagos) == LET In(p) == p.actual \in {"M60", "M90"} IN RowsWith(AsigM90(pagos), In)

\* A column that the file already has keeps its values in the merge.
Merged(kept, new) == IF kept # NoColumn THEN kept ELSE new

\* pagos_cajon_agg: the cajon of today.
WithCajon(row, pagos) ==
  LET mine == PagosOf(row, AsigM90(pagos))
      actual == Merged(row.actual,
        IF mine = <<>> THEN NaN ELSE LastNonBlank(mine, "actual", ""))
      recCajon == Merged(row.recCajon, IF mine = <<>> THEN NaN ELSE LastOf(mine, "recupero"))
  IN [row EXCEPT !.actual = actual, !.recCajon = recCajon,
                 !.cajon = IF actual \in Blank THEN @ ELSE actual]

\* pagos_agg: the amount informed today, or what was paid off the old one.
WithPagos(row, pagos) ==
  LET mine == PagosOf(row, InScope(pagos))
      dt == LastNonBlank(mine, "dt", NoAmount)
      paid == Importes(mine)
  IN [row EXCEPT
       !.recupero = First(IF mine = <<>> THEN NaN ELSE LastOf(mine, "recupero"),
                          First(row.recCajon, @)),
       !.deuda = IF dt # NoAmount THEN dt ELSE IF paid > @ THEN 0 ELSE @ - paid,
       !.recCajon = NoColumn]

\* _build_recupero_exclusion_mask.
Recovered(row) == row.recupero = "SI" /\ row.actual \in Blank
StillOwes(rows) == LET Owes(r) == ~Recovered(r) IN RowsWith(rows, Owes)
DropActual(row) == [row EXCEPT !.actual = NoColumn]

\* The rest of update_estado of legacy/ma.
ApplyPagos(rows, pagos) ==
  LET Cajon(r) == WithCajon(r, pagos)
      Pay(r) == WithPagos(Cajon(r), pagos)
  IN IF pagos = <<>>              THEN MapRows(DropActual, StillOwes(rows))
     ELSE IF InScope(pagos) = <<>> THEN StillOwes(MapRows(Cajon, rows))
     ELSE MapRows(DropActual, StillOwes(MapRows(Pay, rows)))

\* The same of legacy/chat, which knows no cajon of today and notes where the
\* debt comes from.
ApplyPagosChat(rows, pagos) ==
  LET Pay(r) ==
        LET mine == PagosOf(r, pagos)  paid == Importes(mine) IN
        [r EXCEPT !.recupero = IF mine = <<>> THEN @ ELSE LastOf(mine, "recupero"),
                  !.deuda = IF paid > @ THEN 0 ELSE @ - paid]
      Owes(r) == r.recupero # "SI"
      Source(r) == [r EXCEPT !.fuente =
        LET before == IF r.plans # NoPlans THEN "planes"
                      ELSE IF @ = NoColumn THEN "api" ELSE @
        IN IF r.recupero # "" /\ before = "api" THEN "pagos" ELSE before]
  IN MapRows(Source, RowsWith(MapRows(Pay, rows), Owes))

UpdateEstado(rows, in) ==
  IF chat THEN ApplyPagosChat(ApplyPlanes(rows, in.planes), in.pagos)
          ELSE ApplyPagos(ApplyPlanes(rows, in.planes), in.pagos)

-----------------------------------------------------------------------------
(* the exports *)

\* aplicar_filtros.
AplicarFiltros(rows) ==
  LET In(r) == r.cajon \in {"M60", "M90"} IN RowsWith(rows, In)

\* transform and build_e1kia_output: a row of ROMAN per row in the scope, with
\* the plan columns of the day.
Transform(rows, columns) ==
  LET Roman(r) == [prod |-> r.prod, doc |-> r.doc, deuda |-> r.deuda, fuente |-> r.fuente,
                   plan_ok |-> \E n \in columns : r.plans[n] # 0]
  IN MapRows(Roman, rows)

\* The fail-fast of procesar_dia when PLANES is there: 1% of the rows need a plan.
CoverageOK(rows) ==
  LET withPlan == {i \in DOMAIN rows : rows[i].plan_ok}
  IN rows = <<>> \/ 100 * Cardinality(withPlan) >= Len(rows)

\* build_chat_output: one row per document.
BuildChat(rows) ==
  LET docs == {rows[i].doc : i \in DOMAIN rows}
      Of(d) == {i \in DOMAIN rows : rows[i].doc = d}
      Has(d, f) == \E i \in Of(d) : rows[i].fuente = f
  IN {[doc |-> d, cantidad_productos |-> Cardinality(Of(d)),
       tiene_planes |-> \E i \in Of(d) : rows[i].plan_ok,
       fuente_deuda |-> IF Has(d, "planes") THEN "planes"
                        ELSE IF Has(d, "pagos") THEN "pagos" ELSE "api"] : d \in docs}

-----------------------------------------------------------------------------
(* procesar_dia *)

Files(rows) == UNION {[1..n -> rows] : n \in 0..MaxRows}

NoFiles == [planes |-> <<>>, pagos |-> <<>>]

Init ==
  /\ chat \in BOOLEAN
  /\ day = 1 /\ stage = "idle"
  /\ input = NoFiles
  /\ estado = <<>> /\ roman = <<>>
  /\ vigente = [exists |-> FALSE, rows |-> <<>>, days |-> <<>>]
  /\ snapshots = {} /\ torn = FALSE

\* The run is over.  The files of the day are read by then, if not before.
Return == stage' = "idle" /\ estado' = <<>> /\ roman' = <<>> /\ input' = NoFiles

\* A run of the day, the first or another one, with the files it is given.
Start ==
  /\ stage = "idle"
  /\ \E planes \in Files(PlanRows), pagos \in Files(PayRows) :
       input' = [planes |-> planes, pagos |-> pagos]
  /\ stage' = "load"
  /\ UNCHANGED <<chat, day, estado, roman, vigente, snapshots, torn>>

\* Mutant: every run starts again from the base.
RebuildAlways(rows) == TRUE
\* The month starts from its base, and an empty state is built from it again.
Rebuild(rows) == rows = <<>>

\* inicializar_estado: without a row of M90 and PURO the run fails.
Load ==
  /\ stage = "load"
  /\ IF Rebuild(vigente.rows) /\ FiltrarBase = <<>> THEN Return /\ UNCHANGED vigente
     ELSE /\ vigente' = IF Rebuild(vigente.rows)
                        THEN [exists |-> TRUE, rows |-> FiltrarBase, days |-> <<>>]
                        ELSE vigente
          /\ estado' = vigente'.rows
          /\ stage' = "update" /\ UNCHANGED <<roman, input>>
  /\ UNCHANGED <<chat, day, snapshots, torn>>

Update ==
  /\ stage = "update"
  /\ LET updated == UpdateEstado(estado, input)
         exported == Transform(AplicarFiltros(updated), PlanColumns(Pivot(input.planes)))
     IN IF input.planes # <<>> /\ ~CoverageOK(exported) THEN Return
        ELSE estado' = updated /\ roman' = exported /\ stage' = "save" /\ input' = NoFiles
  /\ UNCHANGED <<chat, day, vigente, snapshots, torn>>

\* A CSV has no NaN.
Saved(rows) ==
  LET Text(v) == IF v = NaN THEN "" ELSE v
      Row(r) == [r EXCEPT !.actual = Text(@), !.recCajon = Text(@)]
  IN MapRows(Row, rows)

\* Mutant: a day that has its snapshot is saved again.
MaySaveAgain == TRUE
MaySave == day \notin snapshots

\* guardar_estado: the current state, then the snapshot of the day.
SaveVigente ==
  /\ stage = "save"
  /\ IF MaySave
     THEN /\ vigente' = [exists |-> TRUE, rows |-> Saved(estado),
                         days |-> Append(vigente.days, day)]
          /\ stage' = "snapshot" /\ UNCHANGED <<estado, roman, input>>
     ELSE Return /\ UNCHANGED vigente
  /\ UNCHANGED <<chat, day, snapshots, torn>>

SaveSnapshot ==
  /\ stage = "snapshot"
  /\ snapshots' = snapshots \cup {day}
  /\ Return
  /\ UNCHANGED <<chat, day, vigente, torn>>

\* The process dies, or a call of it raises; between the two files, once (a bound:
\* the day can be applied again after each).
Die ==
  /\ stage # "idle" /\ (stage = "snapshot" => ~torn)
  /\ Return
  /\ torn' = (torn \/ stage = "snapshot")
  /\ UNCHANGED <<chat, day, vigente, snapshots>>

NextDay ==
  /\ stage = "idle" /\ day < Days
  /\ day' = day + 1
  /\ UNCHANGED <<chat, stage, input, estado, roman, vigente, snapshots, torn>>

Next == Start \/ Load \/ Update \/ SaveVigente \/ SaveSnapshot \/ Die \/ NextDay

Spec == Init /\ [][Next]_vars

-----------------------------------------------------------------------------
\* However PLANES and PAGOS repeat products and documents, the merges never
\* multiply a client: a product has at most the rows its base has, and each
\* product of ROMAN is counted in one row of the CHAT export.
RowsNeverMultiply ==
  LET Times(rows, p) == Cardinality({i \in DOMAIN rows : rows[i].prod = p}) IN
  /\ \A rows \in {estado, roman, vigente.rows} : \A p \in ProductsOf(rows) :
       Times(rows, p) <= Times(FiltrarBase, p)
  /\ FoldSet(LAMBDA r, sum : r.cantidad_productos + sum, 0, BuildChat(roman)) = Len(roman)

\* A client that left the state (CAN, or recovered) stays out for the month,
\* unless nobody was left in it: an empty state is built from the base again.
OnlyAnEmptyStateBringsBack ==
  [][vigente.rows = <<>> \/ ProductsOf(vigente'.rows) \subseteq ProductsOf(vigente.rows)]_vars

\* A day's payments are discounted once, and in the order of the days, however
\* often the day is run, unless a run dies between the two files of guardar_estado.
DaysAppliedOnce ==
  ~torn => \A i, j \in DOMAIN vigente.days : i < j => vigente.days[i] < vigente.days[j]
=============================================================================
