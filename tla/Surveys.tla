------------------------------- MODULE Surveys -------------------------------
(***************************************************************************)
(* The jobs of the surveys and the portfolios: Claro Uruguay               *)
(* (clarouy/legacy), the CX survey (encuestacx/legacy) and Social Learning *)
(* of Chile and Argentina (sociallearning/legacy).                         *)
(*                                                                         *)
(* A phone is how it is written and the number that says.                  *)
(***************************************************************************)
EXTENDS Tables

Blank == ""
None == "None"
NaN == "nan"
NoPhone == [pre |-> Blank, n |-> Blank]
Short == "short"

-----------------------------------------------------------------------------
(* Claro Uruguay: base_generator and phone_extractor *)

\* limpiar_msisdn, by the number of digits: a prefix, or nothing when they are of
\* no known number.
LimpiarMsisdn(phone) ==
  CASE phone.pre \in {"8 digits", "9 digits", "10 from 9", "598"} -> [phone EXCEPT !.pre = "598"]
    [] phone.pre \in {"10 digits", "11 from 9", "549"} -> [phone EXCEPT !.pre = "549"]
    [] OTHER -> NoPhone

\* procesar_base: in a file without identifiers a client gets the one of its place.
ProcesarBase(file) ==
  [i \in DOMAIN file.rows |->
     [id |-> IF file.ids THEN file.rows[i].id ELSE i, msisdn |-> LimpiarMsisdn(file.rows[i].phone)]]

\* deduplicar_por_telefonos: the first of a number, and "" is a number; the backup
\* has all the rows of the numbers that are repeated.
Deduplicar(base) ==
  LET Con(r) == r.msisdn # NoPhone
      Repetida(r) == Cardinality({i \in DOMAIN base : base[i].msisdn = r.msisdn}) > 1
  IN [unicos |-> KeepFirst(base, LAMBDA r : r.msisdn),
      backup |-> RowsWith(RowsWith(base, Con), Repetida)]

\* extraer_telefonos: each number once.
ExtraerTelefonos(base) == {base[i].msisdn : i \in DOMAIN base} \ {NoPhone}

-----------------------------------------------------------------------------
(* Claro Uruguay: the results *)

\* procesar_llamada_individual, generar_dataframe_tipificacion: a call the service
\* does not know keeps its row, blank.  The client of a call is looked for under a
\* name no call has.
ObtenerLlamadas(calls, api) ==
  [c \in Range(calls) \ {NaN} |->
     [cliente |-> Blank, motivo |-> IF api[c] = "error" THEN Blank ELSE api[c]]]

\* obtener_datos_roman: the rows with a call.
ObtenerRoman(rows) == RowsWith(rows, LAMBDA r : r.id \notin {Blank, NaN})

\* es_valor_valido: a cell that pandas read empty is not a text, and counts.
EsValido(v) == v \notin {None, Blank, "-"}

\* Mutant: only the calls of both.
MergeInner(retell, roman) ==
  LET ids == DOMAIN retell \cap {roman[i].id : i \in DOMAIN roman}
  IN [c \in ids |-> retell[c]]
\* merge_datos_inteligente, merge_single_call: what ROMAN says of the call.  Of a
\* call with two rows .loc has a table, and the cell becomes a column.
Merge(retell, roman) ==
  LET Of(c) == RowsWith(roman, LAMBDA r : r.id = c)
      Dice(c) == IF Len(Of(c)) > 1 THEN "a column" ELSE Of(c)[1].motivo
  IN [c \in DOMAIN retell |->
        IF Of(c) # <<>> /\ EsValido(Dice(c)) THEN [retell[c] EXCEPT !.motivo = Dice(c)] ELSE retell[c]]

-----------------------------------------------------------------------------
(* CX survey *)

\* normalize_phone: the digits before a point.
NormalizePhone(phone) ==
  [pre |-> Blank, n |-> IF phone.pre = "with points" THEN Short ELSE phone.n]

\* extract, which raises without rows or without the columns; transform and load: a
\* row for each row, with and without the plus.
Extraible(file) == file.columnas /\ file.rows # <<>>
Transform(rows) == MapRows(LAMBDA r : [id |-> r.id, phone |-> NormalizePhone(r.phone)], rows)
LoadE164(rows) ==
  MapRows(LAMBDA r : IF r.phone.n = Blank THEN r ELSE [r EXCEPT !.phone.pre = "+"], rows)

\* validate: a report that stops nothing.
Warnings(rows) == {i \in DOMAIN rows : rows[i].phone.n \in {Blank, Short}}

-----------------------------------------------------------------------------
(* Social Learning *)

\* _normalize_phone_e164: a number that starts with the code of the country is
\* taken to have it.
E164(phone) ==
  IF phone.n = Blank THEN phone
  ELSE IF phone.pre \in {"+", "00", "code"} THEN [phone EXCEPT !.pre = "+"]
  ELSE [phone EXCEPT !.pre = "+code"]

\* generate_base: a row per document, in the order they appear, the one of its first
\* row; the instalments are added and counted, the discount is the last one given.
Portfolio(grupo) ==
  LET con == RowsWith(grupo, LAMBDA r : r.descuento > 0)
      deuda == FoldLeft(LAMBDA sum, r : sum + r.monto, 0, grupo)
      descuento == IF con = <<>> THEN 0 ELSE con[Len(con)].descuento
  IN [id |-> grupo[1].id, phone |-> E164(grupo[1].phone), deuda |-> deuda, cuotas |-> Len(grupo),
      mora |-> Max({grupo[i].mora : i \in DOMAIN grupo}), aPagar |-> deuda * (100 - descuento)]
GenerateBase(rows) == MapRows(Portfolio, GroupsByAppearance(rows, "id"))
=============================================================================
