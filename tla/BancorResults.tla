---------------------------- MODULE BancorResults ----------------------------
(***************************************************************************)
(* What comes back of the calls of Bancor: the table of managements        *)
(* (legacy/back-resultados), the typification of Retell corrected by the   *)
(* one of ROMAN, and the load of the CRM made from it or from ROMAN alone  *)
(* (legacy/back-cargaMasiva, legacy/archivos_salida_BANCOR_exe).           *)
(*                                                                         *)
(* Tables with a row per call are functions of the call; the history of    *)
(* ROMAN, which may repeat a call, and the log of the dialler are          *)
(* sequences.  NaN is a cell that pandas read empty.  A CUIL is its digits *)
(* and how they are written: alone, with hyphens, points or spaces, or as  *)
(* the text of a float.                                                    *)
(***************************************************************************)
EXTENDS Integers, Sequences, SequencesExt, FiniteSets, FiniteSetsExt

None == "None"
NaN == "nan"

Cuil(n, form) == [n |-> n, form |-> form]
NoCuil == Cuil("", "")
\* _normalizar_cuit of logcall_manager and _normalizar_cuit_entrada: the digits.
Digitos(c) == Cuil(c.n, "")
\* normalizar_cuit of the validator, which takes the point of a .0 before the .0.
NormalizarCuit(c) == IF c.form = ".0" THEN c ELSE Digitos(c)
\* validar_cuit: eleven digits.
Cuit(c) == c.n \notin {"", "corto"} /\ NormalizarCuit(c).form = ""

-----------------------------------------------------------------------------
(* Retell *)

Campos == {"estado", "sub", "obs", "comp"}
SinDatos == [f \in Campos \cup {"cuil"} |-> IF f = "cuil" THEN NoCuil ELSE None]

\* obtener_datos_llamadas_retell: each call of the file once; api[c] is <<what the
\* service answers>>, and a call it does not answer, <<>>, has no data.
ObtenerRetell(calls, api) ==
  [c \in Range(calls) \ {NaN} |-> IF api[c] = <<>> THEN SinDatos ELSE api[c][1]]

-----------------------------------------------------------------------------
(* ROMAN *)

\* es_valor_valido.  NaN is not in the list.
EsValido(v) == v \notin {None, "", "-"}

\* normalizar_booleano: bool(nan) is True.
NormalizarBooleano(v) == IF v \in {"si", "True", NaN} THEN "True" ELSE "False"
NormalizarCampo(campo, v) ==
  IF ~EsValido(v) THEN None ELSE IF campo = "comp" THEN NormalizarBooleano(v) ELSE v

\* validar_estructura_roman, which raises.
EstructuraRoman(df) == \E i \in DOMAIN df : df[i].id # NaN

\* normalizar_datos_roman: of a call that is repeated, the last row with data.
NormalizarRoman(df) ==
  LET Datos(i) == [f \in Campos |-> NormalizarCampo(f, df[i][f])]
      con == {i \in DOMAIN df : df[i].id # NaN /\ \E f \in Campos : Datos(i)[f] # None}
  IN [c \in {df[i].id : i \in con} |-> Datos(Max({i \in con : df[i].id = c}))]

\* obtener_datos_roman, which never raises.
ObtenerRoman(df) ==
  IF EstructuraRoman(df) THEN NormalizarRoman(df) ELSE <<>>

-----------------------------------------------------------------------------
(* data_merger *)

\* merge_single_call: what ROMAN says of a field, when it says something.
MergeCall(retell, roman) ==
  [f \in DOMAIN retell |-> IF f \in Campos /\ EsValido(roman[f]) THEN roman[f] ELSE retell[f]]

\* merge_datos_inteligente.
Merge(retell, roman) ==
  [c \in DOMAIN retell |-> IF c \in DOMAIN roman THEN MergeCall(retell[c], roman[c]) ELSE retell[c]]

\* validar_merge: no call lost, and the client of a call untouched.
ValidarMerge(retell, merged) ==
  DOMAIN retell = DOMAIN merged /\ \A c \in DOMAIN merged : merged[c].cuil = retell[c].cuil

\* generar_csv_gestiones: a merge that does not validate is left aside; a row per
\* call, an absent value blank, and NaN its text.
Gestiones(retell, roman) ==
  LET merged == Merge(retell, roman)
      datos == IF roman # <<>> /\ ValidarMerge(retell, merged) THEN merged ELSE retell
      Texto(v) == IF v = None THEN "" ELSE v
  IN [c \in DOMAIN datos |->
        [f \in DOMAIN datos[c] |-> IF f = "cuil" THEN datos[c].cuil ELSE Texto(datos[c][f])]]

-----------------------------------------------------------------------------
(* the load of the CRM *)

\* convertir_estado_a_crm: the state and its sub-state by default.  The states to
\* discard are in the map, which is read first.
ConvertirEstado(v) ==
  CASE v \in {"E0005", "E0012", "E0025"} -> <<v, None>>
    [] v = "promesa_de_pago" -> <<"E0012", "E003">>
    [] v = "no_contesta" -> <<"E0005", None>>
    [] v \in {"llamada_interrumpida", "datos_erroneos"} -> <<"E0030", None>>
    [] OTHER -> <<None, None>>

\* mapear_registro; a call without a state that maps has no record.
SubEstados == {"E001", "E002", "E003"}
Mapear(datos) ==
  LET Codigo(c) == ConvertirEstado(datos[c].estado)
      Sub(c) == IF datos[c].sub \in SubEstados THEN datos[c].sub ELSE Codigo(c)[2]
      Record(c) == [de |-> c, cuit |-> datos[c].cuil, estado |-> Codigo(c)[1], sub |-> Sub(c)]
  IN {Record(c) : c \in {d \in DOMAIN datos : EsValido(datos[d].estado) /\ Codigo(d)[1] # None}}

\* procesar_logcall: the calls nobody took, of clients whose digits are not among
\* those who are in the output; rec is a position of the base that was dialled.
NadieAtendio == {"1004", "7", "8", "9"}
Logcall(log, base, ya) ==
  LET Cliente(i) == Digitos(base[log[i].rec])
      In(i) == log[i].result \in NadieAtendio /\ log[i].rec \in DOMAIN base
               /\ Cliente(i) \notin ya \cup {NoCuil}
      First(i) == \A j \in 1..(i - 1) : ~In(j) \/ Cliente(j) # Cliente(i)
  IN {[de |-> "logcall", cuit |-> Cliente(i), estado |-> "E0005", sub |-> None] :
        i \in {i \in DOMAIN log : In(i) /\ First(i)}}

\* validar_registro: a CUIT of eleven digits, and a promise with its sub-state.
ValidarRegistro(r) == Cuit(r.cuit) /\ (r.estado = "E0012" => r.sub \in SubEstados)
NormalizarRegistro(r) ==
  [r EXCEPT !.cuit = NormalizarCuit(@), !.sub = IF r.estado = "E0012" THEN @ ELSE ""]

\* main of back-cargaMasiva from the calls on: the CUITs that keep a client of the
\* log out are those of the records before they are validated, as they are written.
CargaMasiva(datos, log, base) ==
  LET mapeados == Mapear(datos)
      ya == {r.cuit : r \in mapeados} \ {NoCuil}
      todos == IF mapeados = {} THEN {} ELSE mapeados \cup Logcall(log, base, ya)
  IN {NormalizarRegistro(r) : r \in {q \in todos : ValidarRegistro(q)}}

\* _completar_campos_entrada_roman: the client of a call, from its first row that
\* has one, in digits.
Completar(df, datos) ==
  LET Rows(c) == {i \in DOMAIN df : df[i].id = c /\ df[i].cuil # NoCuil}
      Cliente(c) == IF Rows(c) = {} THEN NoCuil ELSE Digitos(df[Min(Rows(c))].cuil)
  IN [c \in DOMAIN datos |->
        [f \in Campos \cup {"cuil"} |-> IF f = "cuil" THEN Cliente(c) ELSE datos[c][f]]]

\* ejecutar_pipeline_roman_only: nothing is written when it raises.
RomanOnly(df, log, base) ==
  IF ~EstructuraRoman(df) THEN {}
  ELSE CargaMasiva(Completar(df, ObtenerRoman(df)), log,
                   IF base = <<>> THEN [i \in DOMAIN df |-> df[i].cuil] ELSE base)
=============================================================================
