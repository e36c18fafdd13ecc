------------------------------- MODULE Bancor -------------------------------
(***************************************************************************)
(* The base of Bancor (legacy/back-base): base_generator turns the file of *)
(* the bank, a row per product, into a base with offers and a ROMAN base,  *)
(* a row per client; phone_extractor lists the numbers to dial.            *)
(*                                                                         *)
(* A client without Cliente_BT or CUIL has NoKey.  A phone is written: the *)
(* prefix before the national number, whether the mobile 15 is in it, and  *)
(* the number, which stands for its ten digits.  Amounts are whole         *)
(* numbers; encodings, headers and the format of values are left out.      *)
(***************************************************************************)
EXTENDS Tables

NoAmount == -1   \* a cell that is not a number
NoPhone == [pre |-> "", mov |-> FALSE, n |-> ""]
HardCoded == "3519999999"
Trivial == "12345678"

\* The sum of a column, of its cells that are numbers.
Amounts(rows, column) ==
  LET sum[n \in 0..Len(rows)] ==
        IF n = 0 THEN 0
        ELSE sum[n - 1] + (IF rows[n][column] = NoAmount THEN 0 ELSE rows[n][column])
  IN sum[Len(rows)]

-----------------------------------------------------------------------------
(* phones *)

\* limpiar_numero_telefono and the number of the branch, which is nobody's.
Limpiar(phone) == IF phone = [NoPhone EXCEPT !.n = HardCoded] THEN NoPhone ELSE phone

\* _remover_prefijo_15: the leading 0, and the 15 of a number of 12 digits.
Remover15(phone) ==
  [pre |-> IF phone.pre = "0" THEN "" ELSE phone.pre,
   mov |-> phone.mov /\ phone.pre \notin {"", "0"}, n |-> phone.n]

\* aplicar_prefijo_telefono.
ConPrefijo(phone, prefix) == [pre |-> prefix, mov |-> phone.mov, n |-> phone.n]
Prefijo(phone, prefix) ==
  IF phone = NoPhone THEN NoPhone
  ELSE IF prefix = "54" THEN
    IF phone.pre \in {"54", "549"} THEN phone
    ELSE IF phone.pre = "9" THEN ConPrefijo(phone, "549")
    ELSE ConPrefijo(Remover15(phone), "54")
  ELSE
    IF phone.pre = "549" THEN phone
    ELSE IF phone.pre = "54" THEN [pre |-> "549", mov |-> FALSE, n |-> phone.n]
    ELSE ConPrefijo(Remover15(phone), "549")

\* The three phone columns of procesar_base and procesar_base_completa.
LimpiarTelefonos(row) ==
  [row EXCEPT !.fijo = Prefijo(Limpiar(@), "54"), !.trab = Limpiar(@),
              !.cel = Prefijo(Limpiar(@), "549")]

-----------------------------------------------------------------------------
(* deduplicar_por_telefonos *)

Telefonos(row) == {<<c, row[c]>> : c \in {d \in {"fijo", "trab", "cel"} : row[d] # NoPhone}}
Comparten(r, q) == Telefonos(r) \cap Telefonos(q) # {}

\* The first of a group by debt, then by number of operations.
Mejor(grupo) ==
  LET Debt(i) == IF grupo[i].monto = NoAmount THEN 0 ELSE grupo[i].monto
      Beats(i, j) == \/ Debt(i) > Debt(j)
                     \/ /\ Debt(i) = Debt(j)
                        /\ \/ Cardinality(grupo[i].ops) > Cardinality(grupo[j].ops)
                           \/ Cardinality(grupo[i].ops) = Cardinality(grupo[j].ops) /\ i < j
  IN CHOOSE i \in DOMAIN grupo : \A j \in DOMAIN grupo \ {i} : Beats(i, j)

\* Mutant: a group is processed and only its best is written.
DescartarNadie(grupo, best, procesados) == <<>>
\* The rest of a group, without those who were processed before.
Descartar(grupo, best, procesados) ==
  RowsAt(grupo, {i \in DOMAIN grupo \ {best} : grupo[i].bt \notin procesados})

\* A row is compared with every row of the table, processed or not; those who share
\* no phone are a group by themselves.
\* Nobody is found among the processed by an empty Cliente_BT, which is NaN.
Grupo(df, r) ==
  IF Telefonos(r) = {} THEN <<r>> ELSE RowsWith(df, LAMBDA q : Comparten(r, q))
Fila(df, acc, r) ==
  LET grupo == Grupo(df, r)  best == Mejor(grupo) IN
  IF r.bt \in acc.procesados THEN acc
  ELSE [unicos |-> Append(acc.unicos, grupo[best]),
        descartados |-> acc.descartados \o Descartar(grupo, best, acc.procesados),
        procesados |-> acc.procesados \cup ({grupo[i].bt : i \in DOMAIN grupo} \ {NoKey})]
Deduplicar(df) ==
  LET acc[n \in 0..Len(df)] ==
        IF n = 0 THEN [unicos |-> <<>>, descartados |-> <<>>, procesados |-> {}]
        ELSE Fila(df, acc[n - 1], df[n])
  IN acc[Len(df)]

-----------------------------------------------------------------------------
(* procesar_base: the clients with an offer *)

Ofertas(rows) == LET In(r) == r.oferta > 0 /\ r.modulo = "201" IN RowsWith(rows, In)

\* consolidar_grupo: amounts are added, operations joined.
Consolidar(grupo) ==
  [grupo[1] EXCEPT !.monto = Amounts(grupo, "monto"), !.oferta = Amounts(grupo, "oferta"),
                   !.mora = Max({grupo[i].mora : i \in DOMAIN grupo}),
                   !.ops = UNION {grupo[i].ops : i \in DOMAIN grupo}]

\* An input without offers leaves no file: FALSE, and so does one that raises.
ProcesarBase(rows) ==
  LET limpia == MapRows(LimpiarTelefonos, Ofertas(rows))
      base == Deduplicar(MapRows(Consolidar, GroupsByKey(limpia, "bt")))
  IN [written |-> limpia # <<>>, unicos |-> base.unicos, descartados |-> base.descartados]

-----------------------------------------------------------------------------
(* procesar_base_completa: ROMAN *)

Deudas(rows) ==
  LET In(r) == r.estado # "Cancelada" /\ r.saldo # 0 /\ r.monto > 0 IN RowsWith(rows, In)

Acuerdos == {"07. Promesa de Pago Pactada", "08. Refinanciacion"}

\* filtrar_acuerdos_vigentes: an agreement of the last seven days, or of a date
\* to come; dias is the age of the management, NoDate when there is none.
NoDate == 1000
FiltrarAcuerdos(rows) ==
  LET Libre(r) == r.gestion \notin Acuerdos \/ r.dias = NoDate \/ r.dias > 7
  IN RowsWith(rows, Libre)

\* RANGOS_QUITA, in hundredths.
RangosQuita == {[min |-> 61, max |-> 90, comp |-> 0, punit |-> 100],
                [min |-> 91, max |-> 180, comp |-> 30, punit |-> 100],
                [min |-> 181, max |-> 365, comp |-> 50, punit |-> 100]}
Rango(mora) == {r \in RangosQuita : r.min <= mora /\ mora <= r.max}

\* Mutant: a discount of more than the debt applies.
QuitaSinTope(tipo, mora, comp, punit, monto, oferta) ==
  LET r == CHOOSE r \in Rango(mora) : TRUE
  IN IF tipo = "MA" /\ Rango(mora) # {} /\ ~oferta
     THEN 100 * monto - (r.comp * comp + r.punit * punit) ELSE NoAmount
\* calcular_quita, in hundredths: what is left to pay, NoAmount when it does not apply.
CalcularQuita(tipo, mora, comp, punit, monto, oferta) ==
  LET r == CHOOSE r \in Rango(mora) : TRUE
      quita == r.comp * comp + r.punit * punit
  IN IF tipo = "MA" /\ Rango(mora) # {} /\ ~oferta /\ quita > 0 /\ quita < 100 * monto
     THEN 100 * monto - quita ELSE NoAmount

\* A summary of a row per operation.
ResumenProductos(grupo) == MapRows(LAMBDA r : [monto |-> r.monto, oferta |-> r.oferta > 0], grupo)

\* consolidar_grupo of ROMAN.  The operations are those of the first row.
ConsolidarCompleta(grupo) ==
  LET At(column) == {grupo[i][column] : i \in DOMAIN grupo}
      tipos == At("tipo") \ {""}
      tipo == IF Cardinality(tipos) = 1 THEN CHOOSE t \in tipos : TRUE ELSE "none or mixed"
      oferta == \E o \in At("oferta") : o > 0
      monto == Amounts(grupo, "monto")
      aLeft == CalcularQuita(tipo, Max(At("mora")), Amounts(grupo, "comp"),
                             Amounts(grupo, "punit"), monto, oferta)
  IN [cuil |-> grupo[1].cuil, bt |-> grupo[1].bt, ops |-> grupo[1].ops, fijo |-> grupo[1].fijo,
      trab |-> grupo[1].trab, cel |-> grupo[1].cel, monto |-> monto, oferta |-> oferta,
      mora |-> Max(At("mora")), resumen |-> ResumenProductos(grupo), monto_quita |-> aLeft]

\* normalizar_valores_sin_filtros: the phones once more, the one of work too.
NormalizarValores(row) ==
  [row EXCEPT !.fijo = Prefijo(@, "54"), !.trab = Prefijo(@, "54"), !.cel = Prefijo(@, "549")]

ProcesarCompleta(rows) ==
  LET libres == FiltrarAcuerdos(MapRows(LimpiarTelefonos, Deudas(rows)))
      base == Deduplicar(MapRows(ConsolidarCompleta, GroupsByAppearance(libres, "cuil")))
  IN [written |-> libres # <<>>, unicos |-> MapRows(NormalizarValores, base.unicos),
      descartados |-> MapRows(NormalizarValores, base.descartados)]

\* validar_contrato_roman, which warns: a client in two rows, a discount that is
\* none, a summary without one of the operations.
ValidarContrato(salida, origen) ==
  LET Rows(c) == {i \in DOMAIN origen : origen[i].cuil = c} IN
  {"id_cuil" : i \in {i \in DOMAIN salida : \E j \in 1..(i - 1) : salida[j].cuil = salida[i].cuil}}
  \cup {"monto_quita" : i \in {i \in DOMAIN salida : salida[i].monto_quita # NoAmount
          /\ (salida[i].monto_quita <= 0 \/ salida[i].monto_quita >= 100 * salida[i].monto)}}
  \cup {"resumen" : i \in {i \in DOMAIN salida :
          Len(salida[i].resumen) # Cardinality(Rows(salida[i].cuil))}}

-----------------------------------------------------------------------------
(* phone_extractor *)

\* _normalizar_numero.
NormalizarNumero(phone, tipo) ==
  IF phone = NoPhone THEN NoPhone
  ELSE IF tipo = "fijo" THEN Prefijo(phone, "54") ELSE Prefijo(phone, "549")

\* _validar_numero: digits, prefix, length and a number that is not trivial.
ValidarNumero(phone, tipo) ==
  /\ phone # NoPhone /\ phone.n # Trivial
  /\ phone.pre = "549" \/ (tipo = "fijo" /\ phone.pre = "54")
  /\ ~phone.mov

\* extraer_telefonos: each number once, as a fixed line if it is in both columns.
ExtraerTelefonos(base) ==
  LET Column(c, tipo) == {p \in {NormalizarNumero(base[i][c], tipo) : i \in DOMAIN base} :
                            ValidarNumero(p, tipo)}
      fijos == Column("fijo", "fijo")
  IN [fijos |-> fijos, celulares |-> Column("cel", "celular") \ fijos]
=============================================================================
