------------------------------ MODULE BancorWfm ------------------------------
(***************************************************************************)
(* The desktop pipeline of Bancor (legacy/filtrosAplicados_base_BANCOR):   *)
(* of the rows whose delivery month was selected it writes a workbook, the *)
(* ROMAN base and the numbers to dial (E1KIA), and a verification compares *)
(* the numbers of the two.  The quita is the function of back-base; the    *)
(* consolidation and the phones are its own.                               *)
(***************************************************************************)
EXTENDS Bancor

\* normalizar_telefono: a number of the wrong length is none.
NormalizarTelefono(phone, tipo) ==
  IF phone = [NoPhone EXCEPT !.n = HardCoded] \/ phone = NoPhone THEN NoPhone
  ELSE LET written == Prefijo(phone, IF tipo = "fijo" THEN "54" ELSE "549")
           fits == ~written.mov /\ (tipo = "fijo" => written.pre = "54")
       IN IF fits THEN written ELSE NoPhone

NormalizarColumnas(row) ==
  [row EXCEPT !.fijo = NormalizarTelefono(@, "fijo"), !.trab = Limpiar(@),
              !.cel = NormalizarTelefono(@, "celular")]

\* The filters of ejecutar_pipeline_wfm up to filtrar_fecha_entrega_por_meses.
Deliveries(rows, meses, vacias) ==
  LET In(r) == r.entrega \in meses \/ (vacias /\ r.entrega = NoDate)
  IN RowsWith(Deudas(MapRows(NormalizarColumnas, rows)), In)

\* deduplicar_por_telefonos, the copy of the one of back-base.
DeduplicarWfm(df) == Deduplicar(df)
ConTelefono(rows) ==
  LET Has(r) == r.cel # NoPhone \/ r.fijo # NoPhone IN RowsWith(rows, Has)

\* The workbook: a row per Cliente_BT.
Libro(rows) ==
  ConTelefono(DeduplicarWfm(MapRows(Consolidar, GroupsByAppearance(rows, "bt"))).unicos)

\* _consolidar_base of _generar_csv_roman: the offer and the market of the client
\* are those of its first row.
ConsolidarBase(grupo) ==
  [grupo[1] EXCEPT !.monto = Amounts(grupo, "monto"), !.comp = Amounts(grupo, "comp"),
                   !.punit = Amounts(grupo, "punit"),
                   !.mora = Max({grupo[i].mora : i \in DOMAIN grupo})]

\* _aplicar_columnas_roman, which groups by client once more.
ColumnasRoman(df) ==
  LET Fonos(r) == [r EXCEPT !.fijo = NormalizarTelefono(@, "fijo"), !.trab = Limpiar(@),
                            !.cel = NormalizarTelefono(@, "celular")]
  IN MapRows(Fonos, MapRows(ConsolidarCompleta, GroupsByAppearance(df, "cuil")))

\* _generar_csv_roman, which deduplicates with the function of back-base.
Roman(rows) ==
  LET libres == MapRows(LimpiarTelefonos, FiltrarAcuerdos(Deudas(rows)))
  IN ColumnasRoman(Deduplicar(MapRows(ConsolidarBase,
                     GroupsByAppearance(libres, "cuil"))).unicos)

\* _generar_csv_e1kia: a mobile that is a fixed line of the list is not dialled twice.
E1kia(rows) ==
  LET Column(c, tipo) ==
        {NormalizarTelefono(rows[i][c], tipo) : i \in DOMAIN rows} \ {NoPhone}
      fijos == Column("fijo", "fijo")
  IN [fijos |-> fijos,
      celulares |-> {p \in Column("cel", "celular") : [p EXCEPT !.pre = "54"] \notin fijos}]

\* _determinar_status_corrida.
Status(artifacts) ==
  IF artifacts = <<>> \/ artifacts[1].status # "generated" THEN "failed"
  ELSE IF \A i \in DOMAIN artifacts : artifacts[i].status = "generated" THEN "success"
  ELSE "partial_failure"

-----------------------------------------------------------------------------
(* phone_compare_service *)

\* expandir_equivalencias: the number with each of the prefixes.
Equivalencias(phone) ==
  IF phone = NoPhone THEN {}
  ELSE {[phone EXCEPT !.pre = p] : p \in {"", "54", "549"}} \cup {phone}

\* comparar_telefonos_archivos: the numbers of E1KIA that are nowhere in ROMAN.
Faltantes(e1kia, roman) ==
  LET target == UNION {Equivalencias(roman[i][c]) : i \in DOMAIN roman, c \in {"fijo", "trab", "cel"}}
  IN {p \in e1kia.fijos \cup e1kia.celulares : Equivalencias(p) \cap target = {}}
=============================================================================
