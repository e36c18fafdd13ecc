-------------------------------- MODULE Jobs --------------------------------
(***************************************************************************)
(* The scripts of the clients as processes.  An adapter of the platform    *)
(* runs etls/<client>/job.py in a working folder of its run; the script    *)
(* calls the legacy functions one after the other, each of which reads and *)
(* writes files named with the date it finds on the clock, and copies the  *)
(* result to output/ at the end, or ends with 1.  The desktop pipeline of  *)
(* Bancor and the scripts of the results have no adapter and are run by    *)
(* hand.  Midnight may come between two steps.                             *)
(*                                                                         *)
(* A file is the date in its name and its rows.                            *)
(***************************************************************************)
EXTENDS Integers, Sequences, SequencesExt, FiniteSets, FiniteSetsExt

CONSTANTS Entradas,     \* the inputs of each job
          PrimerosDias, \* the days a job may start on
          UltimoDia     \* bound: the last day of the calendar

B == INSTANCE BancorWfm
R == INSTANCE BancorResults
E == INSTANCE Epec
P == INSTANCE Petersen
F == INSTANCE Fravega
N == INSTANCE NaranjaMt
S == INSTANCE Surveys

\* What the legacy functions have read: tables, and dates that are dates or NoDate.
EsTabla(rows) == rows \in Seq(Range(rows))
EsTelefono(p) == p = [pre |-> p.pre, mov |-> p.mov, n |-> p.n] /\ p.mov \in BOOLEAN
EsFilaEpec(r) == /\ {"id", "tel", "cel", "motivo", "descripcion", "medidor"} \subseteq DOMAIN r
                 /\ EsTelefono(r.tel) /\ EsTelefono(r.cel)
EsRespuesta(a) ==
  a = <<>> \/ ("cuil" \in DOMAIN a[1] /\ a[1].cuil = R!Cuil(a[1].cuil.n, a[1].cuil.form))
EsEntrada(j, e) ==
  /\ j = "petersen" => /\ EsTabla(e.roman) /\ EsTabla(e.llamadas) /\ EsTabla(e.excluidos)
                       /\ \A i \in DOMAIN e.roman : e.roman[i].fecha \in Int
  /\ j = "bancor resultados" => /\ "logcall" \notin Range(e.calls)
                               /\ \A c \in Range(e.calls) \ {R!NaN} : EsRespuesta(e.api[c])
  /\ j = "bancor solo roman" => \A i \in DOMAIN e.roman : e.roman[i].id # "logcall"
  /\ j = "epec resultados" => /\ EsTabla(e.export) /\ EsTabla(e.roman)
                             /\ \A i \in DOMAIN e.export : "id" \in DOMAIN e.export[i]
  /\ j = "mt resultados" => EsTabla(e.log) /\ \A i \in DOMAIN e.log : e.log[i].hora \in Int
  /\ j = "fravega" => EsTabla(e) /\ \A i \in DOMAIN e : "dni" \in DOMAIN e[i]
  /\ j = "mt" => /\ EsTabla(e)
                 /\ \A i \in DOMAIN e : {"id", "tels"} \subseteq DOMAIN e[i] /\ EsTabla(e[i].tels)
  /\ j = "claro" => EsTabla(e.rows)
  /\ j = "social" => EsTabla(e)
  /\ j = "petersen fechas" => EsTabla(e.roman)
  /\ j = "epec" => /\ EsTabla(e)
                   /\ \A i \in DOMAIN e : EsTabla(e[i].rows) /\ \A k \in DOMAIN e[i].rows : EsFilaEpec(e[i].rows[k])
  /\ j = "bancor" =>
       /\ EsTabla(e)
       /\ \A i \in DOMAIN e :
            /\ {"bt", "cuil", "monto", "comp", "punit", "ops", "gestion", "dias"} \subseteq DOMAIN e[i]
            /\ e[i].bt \in Int /\ e[i].monto \in Int /\ e[i].comp \in Int /\ e[i].punit \in Int
            /\ IsFiniteSet(e[i].ops)
ASSUME EntradasAssumption == \A j \in DOMAIN Entradas : \A e \in Entradas[j] : EsEntrada(j, e)
ASSUME DiasAssumption == PrimerosDias \subseteq Nat

VARIABLES job, entrada, dia,
          paso,      \* what the script does next
          carpeta,   \* the files of the working folder
          salida,    \* the files it delivers
          codigo,    \* how it ended
          cancelado  \* the cancel event of the desktop pipeline

vars == <<job, entrada, dia, paso, carpeta, salida, codigo, cancelado>>
fijas == <<job, entrada, dia, cancelado>>

Running == "running"

Init ==
  /\ job \in DOMAIN Entradas /\ entrada \in Entradas[job]
  /\ dia \in PrimerosDias
  /\ paso = "inicio" /\ carpeta = <<>> /\ salida = <<>>
  /\ codigo = Running /\ cancelado = FALSE

-----------------------------------------------------------------------------
(* steps *)

En(j, p) == codigo = Running /\ job = j /\ paso = p /\ UNCHANGED fijas
Hoy(rows) == [dia |-> dia, rows |-> rows]
Rows(f) == carpeta[f].rows
\* The folder with the files a step writes, which may be there.
Con(files) ==
  [f \in DOMAIN files \cup DOMAIN carpeta |-> IF f \in DOMAIN files THEN files[f] ELSE carpeta[f]]
Sigue(files, p) == /\ carpeta' = Con(files) /\ paso' = p
                   /\ UNCHANGED <<salida, codigo>>
\* A script delivers some of its files and ends with 0, or ends with 1.
Entrega(files) == /\ carpeta' = Con(files) /\ codigo' = "ok" /\ paso' = "fin"
Publica(names) ==
  /\ salida' = [f \in names \cap DOMAIN carpeta' |-> carpeta'[f]]
Falla == /\ codigo' = "error" /\ paso' = "fin" /\ UNCHANGED <<carpeta, salida>>
\* A script of one step.
Hace(files) == Entrega(files) /\ Publica(DOMAIN files)

\* The clock and the operator do not wait for the script.
Medianoche ==
  /\ codigo = Running /\ dia < UltimoDia /\ dia' = dia + 1
  /\ UNCHANGED <<job, entrada, paso, carpeta, salida, codigo, cancelado>>
Cancela ==
  /\ job = "bancor wfm" /\ codigo = Running /\ ~cancelado /\ cancelado' = TRUE
  /\ UNCHANGED <<job, entrada, dia, paso, carpeta, salida, codigo>>

-----------------------------------------------------------------------------
(* bancor/job.py *)

\* The files of a base; none is written when no row is left.
Base(name, aside, b) ==
  [f \in IF b.written THEN {name, aside} ELSE {} |->
     Hoy(IF f = name THEN b.unicos ELSE b.descartados)]
BancorBase ==
  /\ En("bancor", "inicio")
  /\ Sigue(Base("base", "base_descartados", B!ProcesarBase(entrada)), "completa")
BancorCompleta ==
  /\ En("bancor", "completa")
  /\ Sigue(Base("roman", "roman_descartados", B!ProcesarCompleta(entrada)), "telefonos")

\* Mutant: extraer_telefonos takes the base it finds.
DeCualquierDia(f) == f \in DOMAIN carpeta
\* extraer_telefonos opens the base of the day it is on, or raises.
DeHoy(f) == f \in DOMAIN carpeta /\ carpeta[f].dia = dia
BancorTelefonos ==
  /\ En("bancor", "telefonos")
  /\ \/ DeHoy("base") /\ Sigue([telefonos |-> Hoy(B!ExtraerTelefonos(Rows("base")))], "e1kia")
     \/ ~DeHoy("base") /\ Falla
BancorE1kia ==
  /\ En("bancor", "e1kia")
  /\ \/ /\ DeHoy("roman")
        /\ Entrega([e1kia |-> Hoy(B!ExtraerTelefonos(Rows("roman")))])
        /\ Publica({"base", "base_descartados", "telefonos", "roman", "roman_descartados", "e1kia"})
     \/ ~DeHoy("roman") /\ Falla

-----------------------------------------------------------------------------
(* ejecutar_pipeline_wfm: the cancel event is looked at before each stage; the  *)
(* workbook may fail to be written, and each of the other two by itself         *)

\* What the pipeline answers; its files stay where they are.
Responde(status) == codigo' = status /\ paso' = "fin" /\ UNCHANGED <<carpeta, salida>>
WfmCancela ==
  /\ En("bancor wfm", paso) /\ cancelado /\ codigo' = "cancelled" /\ paso' = "fin"
  /\ salida' = IF paso = "e1kia" THEN Front(salida) ELSE salida
  /\ UNCHANGED carpeta
Etapa(p) == En("bancor wfm", p) /\ ~cancelado
\* An auxiliary file is written or fails, and is an artifact all the same.
Artefacto(name, rows, p) ==
  \E ok \in BOOLEAN :
    /\ carpeta' = IF ok THEN Con([f \in {name} |-> Hoy(rows)]) ELSE carpeta
    /\ salida' = Append(salida, [name |-> name, status |-> IF ok THEN "generated" ELSE "failed"])
    /\ paso' = p /\ UNCHANGED codigo

WfmFiltros ==
  /\ Etapa("inicio")
  /\ LET filas == B!FiltrarAcuerdos(B!Deliveries(entrada.rows, entrada.meses, entrada.vacias)) IN
     \/ entrada.meses # {} /\ filas # <<>> /\ Sigue([filas |-> Hoy(filas)], "libro")
     \/ (entrada.meses = {} \/ filas = <<>>) /\ Responde("failed")
WfmLibro ==
  /\ Etapa("libro")
  /\ \/ Sigue([xlsx |-> Hoy(B!Libro(Rows("filas")))], "anota")
     \/ Responde("failed")
\* The workbook is an artifact after one more look at the event.
WfmAnota ==
  /\ Etapa("anota") /\ paso' = "roman"
  /\ salida' = <<[name |-> "xlsx", status |-> "generated"]>> /\ UNCHANGED <<carpeta, codigo>>
\* _exportar_auxiliares, which forgets the first when it is cancelled between the two.
WfmRoman ==
  /\ Etapa("roman") /\ Artefacto("roman", B!Roman(Rows("filas")), "e1kia")
WfmE1kia ==
  /\ Etapa("e1kia")
  /\ Artefacto("e1kia", B!E1kia(Rows(IF "roman" \in DOMAIN carpeta THEN "roman" ELSE "filas")), "estado")
WfmEstado == Etapa("estado") /\ Responde(B!Status(salida))

-----------------------------------------------------------------------------
(* the other jobs of a base *)

\* epec/job.py, of a folder of files; the rows it leaves aside stay in the folder.
EpecCombina ==
  /\ En("epec", "inicio")
  /\ LET c == E!Combinar(entrada) IN
     \/ c.ok /\ Sigue([consolidado |-> Hoy(c.base), debug |-> Hoy(c.debug)], "guardar")
     \/ ~c.ok /\ Falla
EpecGuarda ==
  /\ En("epec", "guardar")
  /\ Sigue([base |-> Hoy(E!GuardarConsolidado(Rows("consolidado")))], "telefonos")
EpecTelefonos ==
  /\ En("epec", "telefonos")
  /\ Entrega([telefonos |-> Hoy(E!GenerarTelefonos(Rows("consolidado")))])
  /\ Publica({"base", "telefonos"})

\* The copies of EPEC for the desktop: process_base_file of one file, and the one of
\* skill_wfm of a folder.
EpecExe ==
  /\ En("epec exe", "inicio")
  /\ IF entrada.columnas
     THEN LET df == E!Preparar(entrada) IN
          Hace([base |-> Hoy(E!GuardarBase(df)), telefonos |-> Hoy(E!GuardarTelefonos(df))])
     ELSE Falla
EpecSkill ==
  /\ En("epec skill", "inicio")
  /\ LET df == E!CombinarSkill(entrada) IN
     IF \E i \in DOMAIN entrada : entrada[i].rows # <<>>
     THEN Hace([base |-> Hoy(E!GuardarSkill(df)), telefonos |-> Hoy(E!TelefonosSkill(df))])
     ELSE Falla

\* fravega/job.py.
FravegaBase ==
  /\ En("fravega", "inicio")
  /\ LET base == F!CleanBase(entrada) IN
     Hace([base |-> Hoy(base), cel |-> Hoy(F!CelList(base))])

\* mt_voice_job.py, whose functions write in output/.
MtBase ==
  /\ En("mt", "inicio")
  /\ \/ N!EntradaValida(entrada) /\ Sigue([roman |-> Hoy(N!ProcesarBase(entrada))], "e1kia")
     \/ ~N!EntradaValida(entrada) /\ Falla
MtE1kia ==
  /\ En("mt", "e1kia")
  /\ Entrega([e1kia |-> Hoy(N!ExtraerTelefonos(Rows("roman")))]) /\ Publica({"roman", "e1kia"})

\* clarouy/job.py: the base is written, and once more without the repeated numbers,
\* with the date the list of numbers will have.
ClaroBase ==
  /\ En("claro", "inicio")
  /\ Sigue([base |-> Hoy(S!ProcesarBase(entrada))], "deduplicar")
ClaroDeduplica ==
  /\ En("claro", "deduplicar")
  /\ LET d == S!Deduplicar(Rows("base")) IN
     Sigue([base |-> Hoy(d.unicos), backup |-> Hoy(d.backup)], "telefonos")
ClaroTelefonos ==
  /\ En("claro", "telefonos")
  /\ Entrega([telefonos |-> [dia |-> carpeta["base"].dia, rows |-> S!ExtraerTelefonos(Rows("base"))]])
  /\ Publica({"base", "telefonos"})

\* encuestacx/job.py and sociallearning/job.py.
EncuestaCx ==
  /\ En("cx", "inicio")
  /\ IF S!Extraible(entrada)
     THEN LET base == S!Transform(entrada.rows) IN
          Hace([base |-> Hoy(base), e164 |-> Hoy(S!LoadE164(base)), warnings |-> Hoy(S!Warnings(base))])
     ELSE Falla
SocialLearning ==
  /\ En("social", "inicio") /\ Hace([base |-> Hoy(S!GenerateBase(entrada))])

-----------------------------------------------------------------------------
(* petersen/job.py: main of the legacy project *)

PetersenTipif ==
  /\ En("petersen", "inicio")
  /\ Sigue([gestiones |-> Hoy(P!GenerateTipif(entrada.roman, entrada.alta, dia, FALSE))], "exportar")
PetersenExporta ==
  /\ En("petersen", "exportar")
  /\ LET files == P!Export(Rows("gestiones"), dia) IN
     \/ files # <<>> /\ Sigue([validas |-> Hoy(files)], "approach")
     \/ files = <<>> /\ Falla
\* The clients nobody reached, when the two files were given; a file without the
\* columns raises, and main catches it only for the excluded.
Agrega(clients, p) == Sigue([validas |-> Hoy(P!Tipificar(Rows("validas"), clients, dia))], p)
Sin(p) == Sigue(<<>>, p)
PetersenApproach ==
  /\ En("petersen", "approach")
  /\ \/ entrada.approach = "none" /\ Sin("excluidos")
     \/ entrada.approach = "malformed" /\ Falla
     \/ entrada.approach = "given"
        /\ Agrega(P!NoRespondieron(entrada.llamadas, entrada.base), "excluidos")
PetersenExcluidos ==
  /\ En("petersen", "excluidos")
  /\ IF entrada.excluidos = <<>> THEN Sin("zip")
     ELSE Sigue([validas |-> Hoy(P!TipificarExcluidos(Rows("validas"), entrada.excluidos, dia))], "zip")
PetersenZip ==
  /\ En("petersen", "zip")
  /\ \/ P!Completo(Rows("validas"))
        /\ Entrega([zip |-> Hoy(P!ZipFile(Rows("validas")))]) /\ Publica({"zip"})
     \/ ~P!Completo(Rows("validas")) /\ Falla

\* main_fechas_originales.py, of every effect; filtrar_ftp.py, of a file of it.
PetersenFechas ==
  /\ En("petersen fechas", "inicio")
  /\ LET g == P!GenerateTipif(entrada.roman, entrada.alta, dia, TRUE) IN
     Sigue([validas |-> Hoy(P!Export(g, dia)), originales |-> Hoy(P!ExportAll(g))], "ftp")
PetersenFtp ==
  /\ En("petersen fechas", "ftp")
  /\ Entrega([ftp |-> Hoy(P!FiltrarFtp(Rows("originales")))]) /\ Publica({"validas", "originales", "ftp"})

-----------------------------------------------------------------------------
(* the results, of the calls of an export *)

\* back-resultados and back-cargaMasiva of Bancor.
Corregidas(retell, roman) == IF roman = <<>> THEN retell ELSE R!Merge(retell, roman)
Carga(records) == IF records = {} THEN Falla ELSE Hace([crm |-> Hoy(records)])
BancorGestiones ==
  /\ En("bancor resultados", "inicio")
  /\ Sigue([gestiones |-> Hoy(R!Gestiones(R!ObtenerRetell(entrada.calls, entrada.api),
                                          R!ObtenerRoman(entrada.roman)))], "crm")
BancorCrm ==
  /\ En("bancor resultados", "crm")
  /\ LET datos == Corregidas(R!ObtenerRetell(entrada.calls, entrada.api),
                             R!ObtenerRoman(entrada.roman))
         records == R!CargaMasiva(datos, entrada.log, entrada.base)
     IN \/ records = {} /\ Falla
        \/ records # {} /\ Entrega([crm |-> Hoy(records)]) /\ Publica({"gestiones", "crm"})
BancorRoman ==
  /\ En("bancor solo roman", "inicio")
  /\ Carga(R!RomanOnly(entrada.roman, entrada.log, entrada.base))

\* main.py of EPEC: the export enriched and corrected, the report, and its update.
EpecEnriquece ==
  /\ En("epec resultados", "inicio")
  /\ LET call == [id \in DOMAIN entrada.replies |-> E!GetCall(entrada.replies[id], entrada.datos[id])] IN
     Sigue([enriched |-> Hoy(E!MergeRoman(E!Enrich(entrada.export, call), entrada.roman))], "reporte")
EpecReporte ==
  /\ En("epec resultados", "reporte")
  /\ Sigue([reporte |-> Hoy(E!Report(Rows("enriched"), dia))], "actualizar")
EpecActualiza ==
  /\ En("epec resultados", "actualizar")
  /\ LET call == [id \in DOMAIN entrada.replies |-> E!GetCall(entrada.replies[id], entrada.datos[id])] IN
     Entrega([reporte |-> Hoy(E!Actualizar(Rows("reporte"), call, dia))])
  /\ Publica({"enriched", "reporte"})
EpecLuz ==
  /\ En("epec luz", "inicio") /\ Hace([luz |-> Hoy(E!Consolidado(entrada.roman, entrada.log))])

\* retell-manager, tipif_generator and tipif_updater of Fravega; a reply that takes
\* too long ends them.
FravegaResultados ==
  /\ En("fravega resultados", "inicio")
  /\ IF F!SinRespuesta(entrada.export, entrada.api) THEN Falla
     ELSE Hace([enriched |-> Hoy(F!EnrichCsv(entrada.export, entrada.api, entrada.roman)),
                tipif |-> Hoy(F!UpdateTipif(F!GenerateTipif(entrada.export, entrada.api, entrada.roman),
                                            entrada.export))])

\* enrich_retell_report_with_api_data and merge_with_roman of Petersen.
PetersenResultados ==
  /\ En("petersen resultados", "inicio")
  /\ LET Dice(reply) == IF reply \in {"404", "timeout", "unreachable", "500"}
                        THEN [error |-> reply, efecto |-> P!Blank]
                        ELSE [error |-> P!Blank, efecto |-> reply]
         call == [id \in DOMAIN entrada.paths |-> Dice(P!GetCallWithCandidates(entrada.paths[id]))]
     IN Hace([enriched |-> Hoy(P!MergeRoman(P!Enrich(entrada.report, call), entrada.roman))])

\* back_resultados and etl_resultados of MT; a log without quality ends them.
MtResultados ==
  /\ En("mt resultados", "inicio")
  /\ IF N!SinCalidad(entrada.log, entrada.ratio) THEN Falla
     ELSE Hace([usuolos |-> Hoy(N!Usuolos(entrada.log, entrada.historial, entrada.base)),
                tipificaciones |-> Hoy(N!GenerarTipificaciones(entrada.roman)),
                valido |-> Hoy(N!ValidarLogcall(entrada.log, entrada.ratio))])

\* generar_csv_encuestas of Claro.
ClaroResultados ==
  /\ En("claro resultados", "inicio")
  /\ Hace([encuestas |-> Hoy(S!Merge(S!ObtenerLlamadas(entrada.calls, entrada.api),
                                     S!ObtenerRoman(entrada.roman)))])

-----------------------------------------------------------------------------
Next ==
  \/ Medianoche \/ Cancela
  \/ BancorBase \/ BancorCompleta \/ BancorTelefonos \/ BancorE1kia
  \/ WfmCancela \/ WfmFiltros \/ WfmLibro \/ WfmAnota \/ WfmRoman \/ WfmE1kia \/ WfmEstado
  \/ EpecCombina \/ EpecGuarda \/ EpecTelefonos \/ EpecExe \/ EpecSkill
  \/ FravegaBase \/ MtBase \/ MtE1kia
  \/ ClaroBase \/ ClaroDeduplica \/ ClaroTelefonos \/ EncuestaCx \/ SocialLearning
  \/ PetersenTipif \/ PetersenExporta \/ PetersenApproach \/ PetersenExcluidos \/ PetersenZip
  \/ PetersenFechas \/ PetersenFtp
  \/ BancorGestiones \/ BancorCrm \/ BancorRoman
  \/ EpecEnriquece \/ EpecReporte \/ EpecActualiza \/ EpecLuz
  \/ FravegaResultados \/ PetersenResultados \/ MtResultados \/ ClaroResultados

Spec == Init /\ [][Next]_vars

-----------------------------------------------------------------------------
(* properties *)

Salio(j) == codigo = "ok" /\ job = j
De(rows, column) == {rows[i][column] : i \in DOMAIN rows}
Entregado(f) == salida[f].rows

\* The clients of the four banks with an effect.
DeLosBancos(roman) ==
  {roman[i].cliente : i \in {k \in DOMAIN roman : roman[k].banco \in P!Banks /\ roman[k].efecto # P!Blank}}
\* The clients in arrears.
EnMora(rows) == {rows[i].dni : i \in {k \in DOMAIN rows : rows[k].dias >= 0}}
\* The clients a job of a base takes, and those of the files it leaves.
Tomados ==
  CASE job = "bancor" ->
         (De(B!Ofertas(entrada), "bt") \X {"base"})
           \cup (De(B!FiltrarAcuerdos(B!Deudas(entrada)), "cuil") \X {"roman"})
    [] job = "epec" -> UNION {De(E!Legibles(entrada)[i].rows, "id") : i \in DOMAIN E!Legibles(entrada)}
    [] job = "fravega" -> EnMora(entrada)
    [] job = "mt" -> De(entrada, "id")
    [] job = "petersen fechas" -> {P!NroCliente(c) : c \in DeLosBancos(entrada.roman)} \ {P!NoClient}
    [] job = "claro" -> {S!LimpiarMsisdn(p) : p \in De(entrada.rows, "phone")} \ {S!NoPhone}
    [] job = "cx" -> De(entrada.rows, "id")
    [] job = "social" -> De(entrada, "id") \ {S!NoKey}
    [] OTHER -> {}
\* The clients of ROMAN with a Cliente_BT that is in its files: deduplicar_por_telefonos
\* takes whoever bears it for processed, also under another CUIL.
Repetidos ==
  LET bts == (De(Rows("roman"), "bt") \cup De(Rows("roman_descartados"), "bt")) \ {B!NoKey}
      deudas == B!FiltrarAcuerdos(B!Deudas(entrada))
  IN {deudas[i].cuil : i \in {k \in DOMAIN deudas : deudas[k].bt \in bts}}
Contados ==
  CASE job = "bancor" ->
         ((De(Rows("base"), "bt") \cup De(Rows("base_descartados"), "bt") \cup {B!NoKey}) \X {"base"})
         \cup ((De(Rows("roman"), "cuil") \cup De(Rows("roman_descartados"), "cuil") \cup Repetidos
                  \cup {B!NoKey}) \X {"roman"})
    [] job = "epec" -> De(Rows("base"), "id") \cup De(Rows("debug"), "id")
    [] job = "fravega" -> De(Rows("base"), "dni")
    [] job = "mt" -> De(Rows("roman"), "id") \cap De(Rows("e1kia"), "id")
    [] job = "petersen fechas" -> De(Rows("originales"), "cliente")
    [] job = "claro" -> Rows("telefonos")
    [] job = "cx" -> De(Rows("base"), "id") \cap De(Rows("e164"), "id")
    [] job = "social" -> De(Rows("base"), "id")
    [] OTHER -> {}
\* Whoever the job of a base takes is in its base or in the file of those it leaves
\* aside, whatever the phones they share, the rows of the client and the files that
\* cannot be read (for Claro: their number is dialled; without an identifier the
\* rows of Bancor and Social Learning are no client; in ROMAN, which has a row per
\* CUIL, their Cliente_BT is there).
EveryoneIsAccountedFor == codigo = "ok" => Tomados \subseteq Contados

\* The two copies of the base of EPEC, back-base and generacionBase-exe, make the
\* same base and the same list of numbers of the same file, which
\* regression_backbase_vs_generacionbase.py compares for one file at a time.
TwoCopiesAgree ==
  Salio("epec") /\ Len(entrada) = 1 =>
    LET df == E!Preparar(entrada[1]) IN
    /\ Entregado("base") = E!GuardarBase(df)
    /\ Entregado("telefonos") = E!GuardarTelefonos(df)

\* The files of a delivery of Bancor or Claro carry one date, also when midnight
\* comes between the steps, and a run of the pipeline that says success has its three,
\* with every number to dial in the ROMAN base (phone_compare_service.py looks for it).
DeliveryIsWhole ==
  /\ job \in {"bancor", "claro"} => \A f, g \in DOMAIN salida : salida[f].dia = salida[g].dia
  /\ codigo = "success" => /\ {"xlsx", "roman", "e1kia"} \subseteq DOMAIN carpeta
                           /\ B!Faltantes(Rows("e1kia"), Rows("roman")) = {}

\* What validar_contrato_roman finds in the ROMAN base, which is delivered all the same.
Warnings == B!ValidarContrato(Rows("roman"), B!FiltrarAcuerdos(B!Deudas(entrada)))
\* A discount is below the debt of all the rows of its client, and a summary has an
\* entry for each of them, whatever rows the agreements and the shared phones take away.
DiscountsAndSummariesHold ==
  Salio("bancor") /\ "roman" \in DOMAIN carpeta => Warnings \cap {"monto_quita", "resumen"} = {}

\* The calls of a client whom the load of the CRM also says nobody reached.
CallaYHablo ==
  {q.de : q \in {s \in Entregado("crm") : s.de # "logcall"
                   /\ \E r \in Entregado("crm") : r.de = "logcall" /\ r.cuit = s.cuit}}
\* Nobody who is reported as not answering has another management in the same
\* delivery: in no file of the four banks of Petersen, and in no record of a call of
\* the load of the CRM of Bancor, unless Retell has the CUIL of the call with something
\* else than its digits.
SilentClientsNeverSpoke ==
  /\ Salio("petersen") =>
       LET zip == Entregado("zip")
           places == UNION {{<<b, i>> : i \in DOMAIN zip[b]} : b \in P!Banks}
           Row(p) == zip[p[1]][p[2]]
       IN \A p, q \in places :
            Row(p).efecto = "NO RESPONDE OCUPADO" /\ Row(q).cliente = Row(p).cliente => p = q
  /\ Salio("bancor solo roman") => CallaYHablo = {}
  /\ Salio("bancor resultados") => \A c \in CallaYHablo : entrada.api[c][1].cuil.form # ""

Promesas ==
  LET zip == Entregado("zip")
      Of(b) == {zip[b][i] : i \in {k \in DOMAIN zip[b] : zip[b][k].efecto = P!Promise}}
  IN UNION {Of(b) : b \in P!Banks}
\* A promise that is delivered with a date has a working day, of the ten that start
\* on the day it is reported, whenever the steps ran.
PromisesHaveWorkingDates ==
  Salio("petersen") =>
    \A r \in Promesas : r.fecha # P!NoDate => P!Habil(r.fecha) /\ r.fecha \in r.alta..(r.alta + 9)

\* A promise that fails the validation of the job is not delivered, although the date
\* is moved after it was validated and the steps know a row by its place in two readings
\* of the file; but for those of the bank whose name the two steps write differently.
PromisesAreValidated ==
  Salio("petersen") =>
    LET zip == Entregado("zip") IN
    \A b \in {c \in P!Banks : P!FileName(c) = c} : \A i \in DOMAIN zip[b] :
      zip[b][i].efecto = P!Promise => ~P!PromesaInvalida(zip[b][i])

\* What ROMAN says of the typification of a call of Fravega, and that some call of the
\* export was answered with one (merge_with_roman applies the columns it knows).
RomanDice(i) ==
  LET roman == F!ReadRoman(entrada.roman)  id == entrada.export[i].id IN
  id \in DOMAIN roman /\ "tipif" \in DOMAIN roman[id] /\ roman[id].tipif \notin {F!Blank, "-"}
AlgunaTrae ==
  \E c \in F!CallIds(entrada.export) :
     LET reply == F!GetCall(entrada.api[c]) IN F!Sabe(reply) /\ "tipif" \in DOMAIN reply.trae
Corregida(i) ==
  LET row == Entregado("enriched")[i] IN
  "tipif" \in DOMAIN row /\ row.tipif = F!ReadRoman(entrada.roman)[entrada.export[i].id].tipif

\* A call of the export is in the result, whatever the service answered of it and
\* whatever ROMAN says, repeats or omits; and what ROMAN says of a call of Fravega is
\* in its row, whatever the service answered of that call.
CallsAreNotLost ==
  /\ Salio("bancor resultados") => Range(entrada.calls) \ {R!NaN} = DOMAIN Entregado("gestiones")
  /\ Salio("epec resultados") => De(entrada.export, "id") = De(Entregado("enriched"), "id")
  /\ Salio("fravega resultados") =>
       /\ DOMAIN Entregado("enriched") = DOMAIN entrada.export
       /\ AlgunaTrae => \A i \in DOMAIN entrada.export : RomanDice(i) => Corregida(i)
  /\ Salio("mt resultados") =>
       De(N!RowsWith(N!Campana(entrada.log), LAMBDA c : c.phone # N!NoPhone), "hora")
         = De(Entregado("usuolos"), "hora")
  /\ Salio("claro resultados") => Range(entrada.calls) \ {S!NaN} = DOMAIN Entregado("encuestas")
=============================================================================
