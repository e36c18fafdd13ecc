-------------------------------- MODULE Epec --------------------------------
(***************************************************************************)
(* The jobs of EPEC: the base (legacy/back-base, and its copies for the    *)
(* desktop in legacy/generacionBase-exe and legacy/skill_wfm), the report  *)
(* of typifications (legacy/back-resultados, legacy/main.py) and the       *)
(* workbook "luz" of ROMAN and the log of the dialler (legacy/luz-exe).    *)
(*                                                                         *)
(* A phone is written with a prefix and maybe the 15 of a mobile; its      *)
(* number stands for the ten digits.  Short is a number too short to dial, *)
(* Serrano one of ten digits with a 15 after the second.                   *)
(***************************************************************************)
EXTENDS Tables

None == "None"
NoPhone == [pre |-> "", mov |-> FALSE, n |-> ""]
Trivial == "1234567890"
Short == "short"
Serrano == "3515000000"

-----------------------------------------------------------------------------
(* phones *)

\* quitar_15_local_argentino, of a number of twelve digits.
Quitar15(phone) == [phone EXCEPT !.mov = FALSE]

\* normalizar_numero_telefono: any prefix goes, the 15 too, and the column says
\* what the number is.
NormalizarNumero(phone, tipo) ==
  IF phone = NoPhone THEN NoPhone
  ELSE [Quitar15(phone) EXCEPT !.pre = IF tipo = "fijo" THEN "54" ELSE "549"]
Normalizar(row) ==
  [row EXCEPT !.tel = NormalizarNumero(@, "fijo"), !.cel = NormalizarNumero(@, "celular")]

\* es_patron_trivial_invalido and es_longitud_telefono_valida.
EsTrivial(phone) == phone.n \in {"", Trivial}
Valido(phone) == ~EsTrivial(phone) /\ phone.n # Short

\* limpiar_telefonos_invalidos.
LimpiarInvalidos(row) ==
  [row EXCEPT !.tel = IF Valido(@) THEN @ ELSE NoPhone, !.cel = IF Valido(@) THEN @ ELSE NoPhone]

-----------------------------------------------------------------------------
(* base_generator of back-base *)

\* leer_archivo: a file without the columns raises; the description completes the
\* reason.
Motivo(row) == [row EXCEPT !.motivo = IF @ = "" THEN row.descripcion ELSE @]
LeerArchivo(file) == MapRows(Normalizar, MapRows(Motivo, file.rows))

\* Mutant: the rows with the key of an earlier one.
SepararRepetidos(df) ==
  LET Clave(r) == <<r.tel, r.cel>>
      Ya(i) == \E j \in 1..(i - 1) : Clave(df[j]) = Clave(df[i])
  IN [principal |-> KeepFirst(df, Clave), excluidos |-> <<>>]
\* separar_duplicados_por_pk_telefonos: all the rows of a pair of phones that is
\* repeated, the pair without phones too.
Separar(df) ==
  LET Clave(r) == <<r.tel, r.cel>>
      Repetida(r) == Cardinality({i \in DOMAIN df : Clave(df[i]) = Clave(r)}) > 1
  IN [principal |-> KeepUnique(df, Clave), excluidos |-> RowsWith(df, Repetida)]

\* asignar_connection_result.
Resultado(row) == IF row.medidor # "" THEN "CX" ELSE IF row.motivo # "" THEN "CXI" ELSE "CXWEB"
Conexion(row) ==
  [id |-> row.id, tel |-> row.tel, cel |-> row.cel, resultado |-> Resultado(row)]

\* combinar_archivos: a file that cannot be read is left aside, and without any it
\* raises.
Legibles(files) == LET Rows(f) == f.columnas /\ f.rows # <<>> IN RowsWith(files, Rows)
Combinar(files) ==
  LET juntas == MapRows(Normalizar, FlattenSeq(MapRows(LeerArchivo, Legibles(files))))
      dos == Separar(MapRows(LimpiarInvalidos, juntas))
  IN [ok |-> Legibles(files) # <<>>, base |-> MapRows(Conexion, dos.principal),
      debug |-> MapRows(Conexion, dos.excluidos)]

\* guardar_csv_consolidado: the base of ROMAN.
GuardarConsolidado(df) ==
  MapRows(LAMBDA r : [tel |-> r.tel, cel |-> r.cel, resultado |-> r.resultado, id |-> r.id], df)

\* generar_csv_telefonos: a number that is in two places is dialled nowhere.
Veces(df, phone) ==
  Cardinality({p \in (DOMAIN df) \X {"tel", "cel"} : df[p[1]][p[2]] = phone})
\* Mutant: the numbers as they come.
TelefonosRepetidos(df) == MapRows(LAMBDA r : [tel |-> r.tel, cel |-> r.cel], df)
GenerarTelefonos(df) ==
  LET Una(phone) == IF Valido(phone) /\ Veces(df, phone) = 1 THEN phone ELSE NoPhone
      Fila(r) == [tel |-> Una(NormalizarNumero(r.tel, "fijo")),
                  cel |-> Una(NormalizarNumero(r.cel, "celular"))]
      Alguna(r) == r.tel # NoPhone \/ r.cel # NoPhone
  IN RowsWith(MapRows(Fila, df), Alguna)

-----------------------------------------------------------------------------
(* processor of generacionBase-exe, of one file, with a copy of every function *)

QuitarExe(phone) == IF phone.mov THEN [phone EXCEPT !.mov = FALSE] ELSE phone
NumeroExe(phone, tipo) ==
  CASE phone = NoPhone -> NoPhone
    [] phone # NoPhone /\ tipo = "fijo" -> [QuitarExe(phone) EXCEPT !.pre = "54"]
    [] OTHER -> [QuitarExe(phone) EXCEPT !.pre = "549"]
TrivialExe(phone) == phone.n \in {"", Trivial}
ValidoExe(phone) == phone.n # Short /\ ~TrivialExe(phone)

ColumnasExe(row) ==
  [row EXCEPT !.tel = NumeroExe(@, "fijo"), !.cel = NumeroExe(@, "celular")]
LimpiarExe(row) ==
  LET O(phone) == IF ValidoExe(phone) THEN phone ELSE NoPhone
  IN [row EXCEPT !.tel = O(@), !.cel = O(@)]
MotivoExe(row) == IF row.motivo = "" THEN [row EXCEPT !.motivo = row.descripcion] ELSE row
SepararExe(df) == KeepUnique(df, LAMBDA r : <<r.tel, r.cel>>)
ResultadoExe(row) ==
  CASE row.medidor # "" -> "CX" [] row.medidor = "" /\ row.motivo # "" -> "CXI" [] OTHER -> "CXWEB"

\* _read_input_file, _prepare_dataframe; a file without the columns raises.
LeerExe(file) == MapRows(ColumnasExe, MapRows(MotivoExe, file.rows))
Preparar(file) ==
  LET df == SepararExe(MapRows(LimpiarExe, MapRows(ColumnasExe, LeerExe(file))))
  IN MapRows(LAMBDA r : [id |-> r.id, tel |-> r.tel, cel |-> r.cel, resultado |-> ResultadoExe(r)], df)

\* _guardar_base_epec and _guardar_telefonos_epec.
GuardarBase(df) ==
  MapRows(LAMBDA r : [id |-> r.id, tel |-> r.tel, cel |-> r.cel, resultado |-> r.resultado], df)
GuardarTelefonos(df) ==
  LET Numero(r) == LET o == ColumnasExe(r) IN [tel |-> o.tel, cel |-> o.cel]
      limpias == MapRows(LimpiarExe, MapRows(Numero, df))
      todos == MapRows(LAMBDA r : r.tel, limpias) \o MapRows(LAMBDA r : r.cel, limpias)
      duplicados == {p \in Range(todos) : Cardinality({i \in DOMAIN todos : todos[i] = p}) > 1}
      Sin(r) == [c \in {"tel", "cel"} |-> IF r[c] \in duplicados THEN NoPhone ELSE r[c]]
  IN RowsWith(MapRows(Sin, limpias), LAMBDA r : r.tel # NoPhone \/ r.cel # NoPhone)

-----------------------------------------------------------------------------
(* skill_wfm, which accepts any columns *)

\* The copy looks for the 15 in numbers of ten digits too.
QuitarSkill(phone) ==
  CASE phone.mov -> [phone EXCEPT !.mov = FALSE]
    [] ~phone.mov /\ phone.n = Serrano -> [phone EXCEPT !.n = Short]
    [] OTHER -> phone
NumeroSkill(phone, tipo) ==
  IF phone = NoPhone THEN NoPhone
  ELSE [QuitarSkill(phone) EXCEPT !.pre = IF tipo = "fijo" THEN "54" ELSE "549"]
TrivialSkill(phone) == phone.n \in {"", Trivial}
ValidoSkill(phone) == ~TrivialSkill(phone) /\ phone.n # Short

LimpiarSkill(row) ==
  LET O(phone) == IF ValidoSkill(phone) THEN phone ELSE NoPhone
  IN [row EXCEPT !.tel = O(@), !.cel = O(@)]
SepararSkill(df) == KeepUnique(df, LAMBDA r : <<r.tel, r.cel>>)
ResultadoSkill(row) ==
  IF row.medidor # "" THEN "CX" ELSE IF row.motivo # "" THEN "CXI" ELSE "CXWEB"

\* leer_archivo and combinar_archivos.
LeerSkill(file) ==
  MapRows(LAMBDA r : [r EXCEPT !.tel = NumeroSkill(@, "fijo"), !.cel = NumeroSkill(@, "celular")], file.rows)
CombinarSkill(files) ==
  LET df == SepararSkill(MapRows(LimpiarSkill, FlattenSeq(MapRows(LeerSkill, files))))
  IN MapRows(LAMBDA r : [id |-> r.id, tel |-> r.tel, cel |-> r.cel, resultado |-> ResultadoSkill(r)], df)

\* generar_csv_telefonos and guardar_csv_consolidado.
TelefonosSkill(df) ==
  LET Una(phone, tipo) ==
        LET p == NumeroSkill(phone, tipo)
        IN IF ValidoSkill(p) /\ Veces(df, p) = 1 THEN p ELSE NoPhone
      Alguna(r) == r.tel # NoPhone \/ r.cel # NoPhone
  IN RowsWith(MapRows(LAMBDA r : [tel |-> Una(r.tel, "fijo"), cel |-> Una(r.cel, "celular")], df), Alguna)
GuardarSkill(df) ==
  MapRows(LAMBDA r : [id |-> r.id, tel |-> r.tel, cel |-> r.cel, resultado |-> r.resultado], df)

-----------------------------------------------------------------------------
(* back-resultados *)

\* get_call_details: three attempts while the service is busy; <<the call>>, or <<>>.
Timeout == 0
Ocupado == {Timeout, 429, 500}
GetCall(replies, data) ==
  LET firm == {k \in DOMAIN replies : k <= 3 /\ replies[k] \notin Ocupado}
  IN IF firm # {} /\ replies[Min(firm)] = 200 THEN data ELSE <<>>

\* enrich_retell_export: of each row of the export, what the service knows of the
\* call; the variables of the analysis only where the export is blank.
EnrichRow(row, call) ==
  LET data == call[1] IN
  IF call = <<>> THEN WithColumns(row, [status |-> "failed", spech |-> None])
  ELSE WithColumns([row EXCEPT !.contacto = IF @ = None THEN data.contacto ELSE @,
                   !.speech = IF @ = None THEN data.speech ELSE @,
                   !.dni = IF data.dni = None THEN @ ELSE data.dni],
                   [status |-> "success", spech |-> None])
Enrich(export, call) == MapRows(LAMBDA r : EnrichRow(r, call[r.id]), export)

\* convert_boolean_values.
Booleano(v) == IF v = "Si" THEN "True" ELSE IF v = "No" THEN "False" ELSE v

\* Mutant: an inner join.
MergeRomanInner(df, roman) ==
  LET Of(r) == LET Same(q) == q.id = r.id IN MapRows(LAMBDA q : r, RowsWith(roman, Same))
  IN FlattenSeq(MapRows(Of, df))
\* merge_roman_corrections: a left join, a row for each correction of the call.
\* The column is spech_completo.
MergeRoman(df, roman) ==
  LET Dice(v) == v \notin {None, "", "-"}
      Corregir(r, q) == [r EXCEPT !.contacto = IF Dice(q.contacto) THEN Booleano(q.contacto) ELSE @,
                                  !.spech = IF Dice(q.spech) THEN q.spech ELSE @]
      Of(r) == LET Same(q) == q.id = r.id  mine == RowsWith(roman, Same)
               IN IF mine = <<>> THEN <<r>> ELSE MapRows(LAMBDA q : Corregir(r, q), mine)
  IN FlattenSeq(MapRows(Of, df))

\* generate_tipification_report: the effective contacts, without the call.
Report(df, campaign) ==
  LET Efectivo(r) == r.contacto \in {"True", "Si", "true"}
      Columns(r) == [contacto |-> "Si", speech |-> r.speech, campaign |-> campaign]
  IN MapRows(Columns, RowsWith(df, Efectivo))

\* update_tipification_report and handle_update_tipification, which writes over the
\* report: it has no column of the call to update by.
Actualizar(report, call, campaign) ==
  LET Fresh(r) == IF "id" \in DOMAIN r /\ call[r.id] # <<>>
                  THEN [r EXCEPT !.speech = call[r.id][1].speech] ELSE r
  IN MapRows(LAMBDA r : [Fresh(r) EXCEPT !.campaign = campaign], report)

-----------------------------------------------------------------------------
(* logcall_consolidator *)

NaN == -1
\* _load_roman_files, _load_logcall_files: the last row of each call.  The rows
\* without the identifier are one call to drop_duplicates.
LoadRoman(files) == KeepLast(FlattenSeq(files), LAMBDA r : r.id)
LoadLogcall(files) ==
  LET Header(r) == r.phone = "Telefono"
      Row(r) == ~Header(r)
  IN KeepLast(RowsWith(FlattenSeq(files), Row), LAMBDA r : r.ref)

\* _build_no_connected_rows: 10 is a call that was answered.
NoConectadas(log) ==
  LET In(r) == r.result \notin {NaN, 10}
      Motivos == [c \in {1004, 7, 8, 9, 16, 18} |->
        CASE c = 1004 -> "contestador" [] c = 7 -> "ocupado" [] c = 9 -> "numero errado"
          [] c = 8 -> "no contesta" [] c = 16 -> "fuera de servicio" [] c = 18 -> "error tecnico"]
      MotivoDe(c) == IF c \in DOMAIN Motivos THEN Motivos[c] ELSE "error tecnico"
  IN MapRows(LAMBDA r : [desde |-> r.phone, hora |-> r.hora, contacto |-> "No",
                         motivo |-> MotivoDe(r.result)], RowsWith(log, In))

\* generate_consolidated_dataframe: latest first, the rows without a time last.
Consolidado(roman, log) ==
  LET Out(r) == [desde |-> r.desde, hora |-> r.hora, contacto |-> r.contacto, motivo |-> r.motivo]
      todas == MapRows(Out, LoadRoman(roman)) \o NoConectadas(LoadLogcall(log))
  IN SortBy(todas, LAMBDA r : -r.hora)
=============================================================================
