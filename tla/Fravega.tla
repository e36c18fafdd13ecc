------------------------------- MODULE Fravega -------------------------------
(***************************************************************************)
(* The jobs of Fravega (fravega/legacy): the base, a row per client, with  *)
(* its list of mobiles, and the managements made from what Retell and      *)
(* ROMAN know of each call.                                                *)
(***************************************************************************)
EXTENDS Tables

Blank == ""
NoAmount == -1
NoPhone == [pre |-> Blank, n |-> Blank]

-----------------------------------------------------------------------------
(* clean_base *)

\* _format_cel: a mobile always.
FormatCel(phone) == IF phone.n = Blank THEN phone ELSE [phone EXCEPT !.pre = "549"]

\* consolidate_group: the phone of the client is the one of its first row.
Importe(grupo) ==
  LET con == RowsWith(grupo, LAMBDA r : r.importe # NoAmount)
  IN IF con = <<>> THEN grupo[1].importe ELSE FoldLeft(LAMBDA sum, r : sum + r.importe, 0, con)
Consolidar(grupo) ==
  LET creditos == RowsWith(MapRows(LAMBDA r : r.credito, grupo), LAMBDA c : c # Blank)
  IN [dni |-> grupo[1].dni, cel |-> grupo[1].cel, importe |-> Importe(grupo),
      dias |-> Max({grupo[i].dias : i \in DOMAIN grupo}), creditos |-> creditos]

\* _consolidate_clients: df.groupby("DNI"), and to read_csv a blank DNI is a DNI.
Clientes(rows) ==
  MapRows(LAMBDA f : Consolidar(RowsWith(rows, LAMBDA r : r.dni = f.dni)),
          KeepFirst(rows, LAMBDA r : r.dni))

\* clean_base: the rows in arrears, and a number for each client that has one.
CleanBase(rows) ==
  Clientes(MapRows(LAMBDA r : [r EXCEPT !.cel = FormatCel(@)],
                   RowsWith(rows, LAMBDA r : r.dias >= 0)))
CelList(base) == RowsWith(MapRows(LAMBDA r : r.cel, base), LAMBDA p : p.n # Blank)

-----------------------------------------------------------------------------
(* retell-manager *)

\* get_call and get_call_with_candidates: the next path after a 404 or when there is
\* no connection.  A reply that takes too long is not a RetellAPIError.
GetCall(paths) ==
  LET firm == {k \in DOMAIN paths : paths[k].estado \notin {"404", "unreachable"}}
  IN paths[IF firm = {} THEN Len(paths) ELSE Min(firm)]

\* read_call_ids_from_csv: each call once.
CallIds(export) == {export[i].id : i \in DOMAIN export} \ {Blank}

\* The results of the calls: the columns that the service brings of a call, or an error.
Sabe(reply) == reply.estado = "ok"
Results(export, api) ==
  [c \in CallIds(export) |->
     LET reply == GetCall(api[c]) IN
     IF Sabe(reply) THEN WithColumns([error |-> Blank], reply.trae) ELSE [error |-> reply.estado]]
SinRespuesta(export, api) == \E c \in CallIds(export) : GetCall(api[c]).estado = "timeout"

\* _collect_keys: the columns that some answered call brought.
CollectKeys(results) == (UNION {DOMAIN results[c] : c \in DOMAIN results}) \ {"error"}

\* read_roman_csv: the last row of a call.
ReadRoman(rows) ==
  [c \in {rows[i].id : i \in DOMAIN rows} \ {Blank} |->
     rows[Max({i \in DOMAIN rows : rows[i].id = c})]]

\* Mutant: only the columns that the call itself has are corrected.
MergeOwnColumns(results, roman, keys) ==
  [c \in DOMAIN results |->
     IF c \in DOMAIN roman
     THEN [k \in DOMAIN results[c] |->
             IF k \in DOMAIN roman[c] \ {"error"} /\ roman[c][k] \notin {Blank, "-"}
             THEN roman[c][k] ELSE results[c][k]]
     ELSE results[c]]
\* merge_with_roman: what ROMAN says of a call, in the columns that are known.
MergeWithRoman(results, roman, keys) ==
  LET Says(c) == {k \in DOMAIN roman[c] \cap keys : roman[c][k] \notin {Blank, "-"}}
  IN [c \in DOMAIN results |->
        IF c \in DOMAIN roman THEN WithColumns([k \in Says(c) |-> roman[c][k]], results[c])
        ELSE results[c]]

\* enrich_csv: each row of the export with what is known of its call, which is
\* written over the columns it has.
EnrichCsv(export, api, roman) ==
  LET results == Results(export, api)
      keys == CollectKeys(results)
      merged == MergeWithRoman(results, ReadRoman(roman), keys)
      Row(r) == WithColumns(r, [k \in keys \cup {"error"} |-> Blank])
      Enriched(r) == IF r.id \in DOMAIN merged THEN WithColumns(merged[r.id], Row(r)) ELSE Row(r)
  IN MapRows(Enriched, export)

-----------------------------------------------------------------------------
(* tipif_generator and tipif_updater *)

\* generate_tipif_csv: ROMAN corrects the calls that Retell answered, in these columns
\* always; a row without a typification is left out, one of a call with an error too.
Variables == {"dni", "tipif"}
GenerateTipif(export, api, roman) ==
  LET all == Results(export, api)
      answered == {c \in DOMAIN all : all[c].error = Blank}
      data == [c \in answered |-> [k \in Variables |-> IF k \in DOMAIN all[c] THEN all[c][k] ELSE Blank]]
      merged == MergeWithRoman(data, ReadRoman(roman), Variables)
  IN RowsWith(MapRows(LAMBDA r : merged[r.id], RowsWith(export, LAMBDA r : r.id \in answered)),
              LAMBDA r : r.tipif # Blank)

\* read_retell_tipificaciones, update_results_csv: every row of a client gets the
\* last typification that the export, as Retell wrote it, has for the client.
UpdateTipif(results, export) ==
  LET Dice(d) == {i \in DOMAIN export : export[i].dniEntrada = d /\ export[i].tipifSalida \notin {Blank, "-"}}
  IN MapRows(LAMBDA r : IF r.dni # Blank /\ Dice(r.dni) # {}
                        THEN [r EXCEPT !.tipif = export[Max(Dice(r.dni))].tipifSalida] ELSE r, results)
=============================================================================
