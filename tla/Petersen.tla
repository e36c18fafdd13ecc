------------------------------ MODULE Petersen ------------------------------
(***************************************************************************)
(* The managements of the four banks of Petersen (petersen/legacy): the    *)
(* export of ROMAN becomes a file per bank, the promises that validate and *)
(* the simple typifications are exported, and the clients who did not      *)
(* answer or were excluded get a typification of their own.                *)
(*                                                                         *)
(* A date is the number of a day, day 0 a Monday.  A client is its number  *)
(* and whether the export wrote it in scientific notation.                 *)
(***************************************************************************)
EXTENDS Tables

Blank == ""
NoDate == -1
NoAmount == -1
Banks == {"BSF", "BER", "BSC", "BSJ"}
FileName(bank) == IF bank = "BER" THEN "BER without accent" ELSE bank
Promise == "PROMESA DE PAGO"
Simple == {"YA PAGO", "NOTIFICADO TITULAR", "NOTIFICADO FLIAR", "TELEFONO EQUIVOCADO",
           "DESCONOCE DEUDA", "NO AFRONTA DEUDA", "FALLECIDO"}

-----------------------------------------------------------------------------
(* the date of a promise *)

\* _es_dia_habil.
Habil(day) == day % 7 < 5

\* The first and the last working day of the ten that start today.
PrimerHabil(hoy) ==
  CHOOSE d \in hoy..(hoy + 9) : Habil(d) /\ \A e \in hoy..(d - 1) : ~Habil(e)
UltimoHabil(hoy) ==
  CHOOSE d \in hoy..(hoy + 9) : Habil(d) /\ \A e \in (d + 1)..(hoy + 9) : ~Habil(e)
\* The working day a promise of a holiday goes back to.
HabilAnterior(fecha, hoy) ==
  IF \E d \in hoy..fecha : Habil(d)
  THEN CHOOSE d \in hoy..fecha : Habil(d) /\ \A e \in (d + 1)..fecha : ~Habil(e)
  ELSE UltimoHabil(hoy)

\* Mutant: a promise of the range is taken as it is.
ValidarFechaSinHabil(fecha, hoy) ==
  IF fecha = NoDate THEN NoDate
  ELSE IF fecha < hoy THEN PrimerHabil(hoy)
  ELSE IF fecha > hoy + 9 THEN UltimoHabil(hoy) ELSE fecha
\* _validate_fecha_promesa.
ValidarFecha(fecha, hoy) ==
  IF fecha = NoDate THEN NoDate
  ELSE IF fecha < hoy THEN PrimerHabil(hoy)
  ELSE IF fecha > hoy + 9 THEN UltimoHabil(hoy)
  ELSE HabilAnterior(fecha, hoy)

-----------------------------------------------------------------------------
(* tipif_generator *)

\* _normalize_nro_cliente: of scientific notation the zeros at the end go.
NoClient == 0
NroCliente(c) ==
  IF c.sci /\ c.n # NoClient
  THEN c.n \div 10^Max({k \in 0..3 : c.n % 10^k = 0}) ELSE c.n

\* _get_contacto, _get_tipo_prod.
Contacto(efecto) ==
  IF efecto = "NOTIFICADO FLIAR" THEN "FAMILIAR"
  ELSE IF efecto = "TELEFONO EQUIVOCADO" THEN "BLANK" ELSE "CLIENTE"
TipoProd(producto) ==
  CASE producto = "TARJETA" -> "27" [] producto = "PRESTAMO" -> "4"
    [] producto = "CUENTA" -> "1" [] OTHER -> Blank

\* _map_row: the date of the call, or of the file, and a promise without an amount
\* is of the whole debt.
MapRow(row, alta, now) ==
  LET promise == row.efecto = Promise
      monto == IF promise /\ row.monto = NoAmount THEN row.deuda ELSE row.monto
  IN [cliente |-> NroCliente(row.cliente), efecto |-> row.efecto, contacto |-> Contacto(row.efecto),
      suc |-> row.suc, tipo |-> TipoProd(row.producto), producto |-> row.nro, obs |-> row.obs,
      llamada |-> row.llamada, monto |-> IF monto = 0 THEN NoAmount ELSE monto,
      alta |-> IF row.llamada = NoDate THEN alta ELSE row.llamada,
      fecha |-> IF promise THEN ValidarFecha(row.fecha, now) ELSE NoDate]

\* generate_tipif_files: a file for each bank.
GenerateTipif(roman, alta, now, all) ==
  LET Of(b) == LET In(r) == /\ r.banco = b /\ r.efecto # Blank /\ NroCliente(r.cliente) # NoClient
                            /\ r.efecto # "RELLAMAR" \/ all
               IN RowsWith(roman, In)
  IN [b \in Banks |-> MapRows(LAMBDA r : MapRow(r, alta, now), Of(b))]

-----------------------------------------------------------------------------
(* promesa_validator *)

\* validate_promesa_row.
PromesaInvalida(row) ==
  \/ row.monto \in {NoAmount, 0} \/ row.fecha = NoDate \/ row.alta = NoDate
  \/ Blank \in {row.suc, row.producto, row.tipo}
  \/ row.fecha < row.alta

\* Mutant: the validation counts the rows from the header on.
ErroresDesdeElEncabezado(files) ==
  UNION {{<<FileName(b), i - 1, files[b][i].cliente>> :
            i \in {i \in DOMAIN files[b] : files[b][i].efecto = Promise /\ PromesaInvalida(files[b][i])}}
         : b \in Banks}
\* validate_all_results, which knows a bank by the name of its file.
Errores(files) ==
  UNION {{<<FileName(b), i, files[b][i].cliente>> :
            i \in {i \in DOMAIN files[b] : files[b][i].efecto = Promise /\ PromesaInvalida(files[b][i])}}
         : b \in Banks}

\* _clean_and_validate_simple_tipification_row: nine fields, the rest is blanked.
SimpleCompleta(row) == Blank \notin {row.suc, row.obs} /\ row.alta # NoDate
Limpia(row) == [row EXCEPT !.producto = Blank, !.tipo = Blank, !.monto = NoAmount,
                           !.fecha = NoDate, !.llamada = NoDate]

\* The rows of a bank export_valid_promesas takes: it knows the bank by its name.
Validas(files, b) ==
  LET rows == files[b]
      Takes(i) == \/ rows[i].efecto = Promise /\ <<b, i, rows[i].cliente>> \notin Errores(files)
                  \/ rows[i].efecto \in Simple /\ SimpleCompleta(rows[i])
  IN MapRows(LAMBDA r : IF r.efecto = Promise THEN r ELSE Limpia(r),
             RowsAt(rows, {i \in DOMAIN rows : Takes(i)}))

\* One row for each client: its first promise, or its first row.
Elegida(grupo) ==
  LET promises == {i \in DOMAIN grupo : grupo[i].efecto = Promise}
  IN grupo[IF promises = {} THEN 1 ELSE Min(promises)]
UnaPorCliente(rows) == MapRows(Elegida, GroupsByAppearance(rows, "cliente"))

\* The row of the bank, of today, and the row of the day of the call.
ConFechaDeHoy(row, hoy) ==
  [row EXCEPT !.alta = hoy, !.fecha = IF row.efecto = Promise THEN ValidarFecha(@, hoy) ELSE @]
ConFechaOriginal(row) ==
  LET alta == IF row.llamada # NoDate THEN row.llamada ELSE row.alta
  IN [row EXCEPT !.alta = alta, !.fecha = IF row.efecto = Promise THEN ValidarFecha(@, alta) ELSE @]

\* export_valid_promesas; a bank without rows has no file.
Export(files, hoy) ==
  LET con == {b \in Banks : Validas(files, b) # <<>>}
  IN [b \in con |->
        [codificacion |-> MapRows(LAMBDA r : ConFechaDeHoy(r, hoy), UnaPorCliente(Validas(files, b))),
         originales |-> MapRows(ConFechaOriginal, UnaPorCliente(Validas(files, b)))]]

\* export_all_gestiones_fecha_original of main_fechas_originales.
ExportAll(files) ==
  MapRows(LAMBDA r : IF r.llamada = NoDate THEN r ELSE [r EXCEPT !.alta = r.llamada],
          FlattenSeq(MapRows(LAMBDA b : files[b], <<"BSF", "BER", "BSC", "BSJ">>)))

-----------------------------------------------------------------------------
(* approach_merge *)

\* _build_phone_to_base_lookup: the first client of a phone.
ClienteDe(base, phone) ==
  LET rows == {i \in DOMAIN base : phone \in base[i].tels /\ base[i].cliente # NoClient}
  IN IF rows = {} THEN <<>> ELSE <<base[Min(rows)]>>

\* The calls that were not answered, of a phone of the base; 10 is an answer.
NoRespondieron(approach, base) ==
  FlattenSeq(MapRows(LAMBDA c : ClienteDe(base, c.phone),
                     RowsWith(approach, LAMBDA c : c.result # 10)))

\* Mutant: nobody is looked for.
ExistentesDeNadie(gestiones) == {}
\* _get_existing_nro_clientes: of the four files.
Existentes(gestiones) ==
  UNION {{gestiones[b].codificacion[i].cliente : i \in DOMAIN gestiones[b].codificacion} :
           b \in DOMAIN gestiones}

\* _build_tipification_line, and _append_tipification_to_gestiones of each client.
SinRespuesta(client, hoy) ==
  [cliente |-> client.cliente, efecto |-> "NO RESPONDE OCUPADO", contacto |-> "BLANK", suc |-> client.suc,
   tipo |-> Blank, producto |-> Blank, obs |-> "Cliente no responde.", llamada |-> NoDate,
   monto |-> NoAmount, alta |-> hoy, fecha |-> NoDate]
Agregar(gestiones, clients, hoy) ==
  LET Of(b) == MapRows(LAMBDA c : SinRespuesta(c, hoy), RowsWith(clients, LAMBDA c : c.banco = b))
      old(b) == IF b \in DOMAIN gestiones THEN gestiones[b]
                ELSE [codificacion |-> <<>>, originales |-> <<>>]
  IN [b \in DOMAIN gestiones \cup {c.banco : c \in ToSet(clients)} |->
        [codificacion |-> old(b).codificacion \o Of(b), originales |-> old(b).originales \o Of(b)]]

\* run_approach_merge_and_tipify: the first row of each client that is in no file and
\* whose bank is known.
Tipificar(gestiones, clients, hoy) ==
  LET Nuevo(c) == c.cliente \notin Existentes(gestiones) \cup {NoClient} /\ c.banco \in Banks
      Key(c) == c.cliente
  IN Agregar(gestiones, RowsWith(KeepFirst(clients, Key), Nuevo), hoy)

\* run_tipify_excluded, of the rows of the base of the excluded that have a client.
TipificarExcluidos(gestiones, rows, hoy) ==
  Tipificar(gestiones, RowsWith(rows, LAMBDA r : r.cliente # NoClient), hoy)

\* _build_output_zip, which needs the four.
ZipFile(gestiones) == [b \in Banks |-> gestiones[b].codificacion]
Completo(gestiones) == DOMAIN gestiones = Banks

\* filtrar_archivo of filtrar_ftp.
FiltrarFtp(rows) ==
  RowsWith(rows, LAMBDA r : r.efecto \in {Promise, "NOTIFICADO TITULAR", "NOTIFICADO FLIAR", "YA PAGO"})

-----------------------------------------------------------------------------
(* retell_manager and roman_merger *)

\* RetellClient.get_call: three attempts while the service does not answer in time.
GetCall(replies) ==
  LET firm == {k \in 1..3 : replies[k] # "timeout"}
  IN IF firm = {} THEN "timeout" ELSE replies[Min(firm)]
\* get_call_with_candidates: the next path only after a 404 or a reply without a
\* status; the error of the last.
GetCallWithCandidates(paths) ==
  LET firm == {k \in DOMAIN paths : GetCall(paths[k]) \notin {"404", "timeout", "unreachable"}}
  IN GetCall(paths[IF firm = {} THEN Len(paths) ELSE Min(firm)])

\* enrich_retell_report_with_api_data: each row of the report, with what the service
\* says of the call.
Enrich(report, call) ==
  LET Row(r) == IF call[r.id].error # Blank THEN [r EXCEPT !.error = call[r.id].error]
                ELSE [r EXCEPT !.efecto = call[r.id].efecto]
  IN MapRows(Row, report)

\* merge_with_roman: of a call that ROMAN repeats the last row; what it says.
MergeRoman(rows, roman) ==
  LET Of(id) == {i \in DOMAIN roman : roman[i].id = id}
      Row(r) == IF r.id # Blank /\ Of(r.id) # {} /\ roman[Max(Of(r.id))].efecto # Blank
                THEN [r EXCEPT !.efecto = roman[Max(Of(r.id))].efecto] ELSE r
  IN MapRows(Row, rows)
=============================================================================
