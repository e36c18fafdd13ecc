------------------------------ MODULE NaranjaMt ------------------------------
(***************************************************************************)
(* The MT campaign of Naranja X (naranjax/legacy/mt): the base for ROMAN,  *)
(* the numbers for the dialler (E1KIA), and the results of the dialler and *)
(* of the bot put together by phone for the file of the client.            *)
(*                                                                         *)
(* A phone is its prefix, whether the mobile 15 is in it, what comes       *)
(* before its last eight digits and those.  Serrano is a number whose      *)
(* third and fourth digits are 15.                                         *)
(***************************************************************************)
EXTENDS Tables

Blank == ""
NoPhone == [pre |-> Blank, mov |-> FALSE, area |-> Blank, n |-> Blank]
Short == "short"
Serrano == "15000000"

-----------------------------------------------------------------------------
(* base_generator *)

\* _normalizar_telefono: the kind is the one of the group with the same end, that
\* of the column first, unless the prefix says it; a 15 goes wherever it is found.
Orden(grupos, i) == <<grupos[i]>> \o RemoveAt(grupos, i)
TipoDe(phone, grupos, i) ==
  LET iguales == RowsWith(Orden(grupos, i), LAMBDA g : g.n = phone.n)
  IN IF iguales = <<>> THEN Blank ELSE iguales[1].tipo
Tipo(phone, grupos, i) ==
  IF phone.pre = "549" THEN "CEL"
  ELSE IF phone.pre = "54" \/ TipoDe(phone, grupos, i) = Blank THEN "TEL"
  ELSE TipoDe(phone, grupos, i)
NormalizarTelefono(phone, grupos, i) ==
  LET tipo == Tipo(phone, grupos, i) IN
  IF phone.n \in {Blank, Short} \/ tipo \notin {"CEL", "TEL"} THEN phone
  ELSE IF tipo = "CEL"
       THEN [phone EXCEPT !.pre = "549", !.mov = FALSE, !.n = IF @ = Serrano THEN Short ELSE @]
       ELSE [phone EXCEPT !.pre = "54", !.mov = FALSE]

\* _procesar_linea_con_normalizacion: a line of another number of columns goes on
\* as it is.
ProcesarLinea(line) ==
  IF ~line.columnas THEN line
  ELSE [line EXCEPT !.tels = [i \in DOMAIN @ |-> NormalizarTelefono(@[i], line.grupos, i)]]

\* procesar_base, which raises when the first line has not the 33 columns.
EntradaValida(lines) == lines # <<>> /\ lines[1].columnas
ProcesarBase(lines) == MapRows(ProcesarLinea, lines)

\* extraer_telefonos of phone_extractor: the clients with more numbers first.
Telefonos(row) == {i \in DOMAIN row.tels : row.tels[i] # NoPhone}
ExtraerTelefonos(base) ==
  MapRows(LAMBDA r : [tels |-> r.tels, id |-> r.id],
          SortBy(base, LAMBDA r : -Cardinality(Telefonos(r))))

-----------------------------------------------------------------------------
(* logcall_validator *)

\* validar_logcall, with the ratio in hundredths.
ValidarLogcall(log, ratio) ==
  LET sci == {i \in DOMAIN log : log[i].sci}
      bad == {i \in DOMAIN log : log[i].ref = Blank \/ log[i].phone = NoPhone}
  IN log # <<>> /\ bad = {} /\ 100 * Cardinality(sci) <= ratio * Len(log)

-----------------------------------------------------------------------------
(* back_resultados *)

\* _clean_phone: the number without its prefix; the 15 stays.
Clean(phone) == [phone EXCEPT !.pre = Blank]

\* construir_indice_clientes: the numbers of the base, each with its client.
IndiceClientes(lines) ==
  FlattenSeq(MapRows(LAMBDA r : [i \in DOMAIN r.grupos |->
      [id |-> r.id, n |-> r.grupos[i].n, area |-> r.grupos[i].area, tipo |-> r.grupos[i].tipo,
       pre |-> IF r.grupos[i].tipo = "CEL" THEN "549" ELSE "54"]],
    RowsWith(lines, LAMBDA r : r.columnas)))

\* matchear_telefono: the last client with the whole number, or the first with the
\* same last eight digits.
Match(phone, indice) ==
  LET Exact(pre) == {i \in DOMAIN indice : indice[i].pre = pre /\ indice[i].area = phone.area
                                            /\ indice[i].n = phone.n /\ ~phone.mov}
      last8 == {i \in DOMAIN indice : indice[i].n = phone.n}
  IN IF Exact(phone.pre) # {} THEN <<indice[Max(Exact(phone.pre))]>>
     ELSE IF last8 # {} THEN <<indice[Min(last8)]>> ELSE <<>>

\* construir_indice_historial: the first conversation of a number.
Conversacion(historial, phone) ==
  LET rows == {i \in DOMAIN historial : Clean(historial[i].phone) = Clean(phone)}
  IN IF rows = {} THEN <<>> ELSE <<historial[Min(rows)]>>

\* mapear_col_11.
Evento(tip) ==
  CASE tip = "Promesa de pago" -> "PROMISE" [] tip = "Manifiesta pago" -> "PAID"
    [] tip = "Contestador" -> "MESSAGE" [] tip = "No responde" -> "HANGUP"
    [] tip = "Notificado titular" -> "MENSAJE OPERADOR" [] OTHER -> "VOLVER A LLAMAR"
Resultado(call, conversacion) ==
  CASE call.result = 10 /\ conversacion # <<>> -> Evento(conversacion[1].tip)
    [] call.result = 7 -> "BUSY" [] call.result = 8 -> "NO ANSWER"
    [] call.result = 9 -> "MESSAGE" [] OTHER -> "VOLVER A LLAMAR"

\* construir_fila_usuolos: a call without a number is an anomaly and no row; the
\* client of a number nobody has is the one of the conversation.
Cliente(call, conversacion, indice) ==
  IF Match(call.phone, indice) # <<>> THEN Match(call.phone, indice)[1].id
  ELSE IF conversacion = <<>> THEN Blank ELSE conversacion[1].id
FilaUsuolos(call, historial, indice) ==
  LET conversacion == Conversacion(historial, call.phone)
      evento == Resultado(call, conversacion)
  IN [hora |-> call.hora, cliente |-> Cliente(call, conversacion, indice), evento |-> evento,
      canal |-> IF evento = "NO ANSWER" THEN Blank ELSE "VOICEBOT", phone |-> call.phone]

\* procesar: the calls of the campaign, by time, numbered.
Campana(log) == RowsWith(log, LAMBDA c : c.grupo = "M")
SinCalidad(log, ratio) ==
  LET all == Campana(log) IN
  all # <<>> /\ 100 * Cardinality({i \in DOMAIN all : all[i].sci}) > ratio * Len(all)
Usuolos(log, historial, lines) ==
  LET con == RowsWith(Campana(log), LAMBDA c : c.phone # NoPhone)
      filas == MapRows(LAMBDA c : FilaUsuolos(c, historial, IndiceClientes(lines)), con)
      sorted == SortBy(filas, LAMBDA f : f.hora)
  IN [i \in DOMAIN filas |-> WithColumns(sorted[i], [intento |-> i])]

-----------------------------------------------------------------------------
(* tipif_generator of etl_resultados *)

\* generar_tipificaciones: the conversations of ROMAN with a typification of the
\* list, a date and a client; a promise without a date gets a text.
Eventos == [t \in {"promesa de pago", "dificultad de pago", "ya pago", "noanswer", "no conoce", "es la persona"} |->
  CASE t = "promesa de pago" -> "PROMISE" [] t = "dificultad de pago" -> "PAYMENT DIFFICULTY"
    [] t = "ya pago" -> "PAID" [] t = "noanswer" -> "NO ANSWER"
    [] t = "no conoce" -> "VOLVER A LLAMAR" [] OTHER -> "HANGUP"]
GenerarTipificaciones(roman) ==
  LET In(r) == r.tip \in DOMAIN Eventos /\ r.hora # Blank /\ r.cliente \notin {Blank, "-"}
      Fila(r) == [cliente |-> r.cliente, evento |-> Eventos[r.tip], hora |-> r.hora,
                  fecha |-> IF r.tip # "promesa de pago" THEN Blank
                            ELSE IF r.fecha = Blank THEN "FECHA_PACTADA" ELSE r.fecha]
  IN MapRows(Fila, RowsWith(roman, In))
=============================================================================
