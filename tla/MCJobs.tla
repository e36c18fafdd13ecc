------------------------------- MODULE MCJobs -------------------------------
(* Instances of Jobs for TLC: rows of a few clients who share phones, repeat    *)
(* products and calls, or lack a field; every file of up to two or three of     *)
(* them.                                                                        *)
EXTENDS Jobs, TLC

Upto(rows, n) == UNION {[1..k -> rows] : k \in 0..n}
\* A row of its default with other values of some fields.
With(default, others) == {o @@ default : o \in others}

\* Bancor: 1 has two products, 1, 2 and 3 share phones in a chain, 4 has an
\* agreement, 5 nothing to be called at, 6 a discount above its debt, 0 no client;
\* 7 is another CUIL of the Cliente_BT of 1, and 8 has none.
Cel(n) == [pre |-> "", mov |-> TRUE, n |-> n]
Fijo(n) == [pre |-> "0", mov |-> FALSE, n |-> n]
BancorDefault ==
  [bt |-> 1, cuil |-> 1, fijo |-> B!NoPhone, trab |-> B!NoPhone, cel |-> B!NoPhone, modulo |-> "201",
   oferta |-> 5, monto |-> 10, saldo |-> 10, estado |-> "Vigente", gestion |-> "", dias |-> B!NoDate,
   mora |-> 95, comp |-> 2, punit |-> 1, tipo |-> "MA", ops |-> {"o1"}, entrega |-> 1]
BancorRows == With(BancorDefault,
  {[cel |-> Cel("a")],
   [cel |-> Cel("a"), oferta |-> 0, ops |-> {"o2"}, monto |-> 20, entrega |-> 2],
   [bt |-> 2, cuil |-> 2, cel |-> [Cel("a") EXCEPT !.pre = "9", !.mov = FALSE], fijo |-> Fijo("b"), monto |-> 40],
   [bt |-> 3, cuil |-> 3, fijo |-> Fijo("b"), monto |-> 30, tipo |-> "CT", entrega |-> B!NoDate],
   [bt |-> 4, cuil |-> 4, cel |-> Cel("b"), gestion |-> "08. Refinanciacion", dias |-> 3],
   [bt |-> 5, cuil |-> 5, trab |-> Fijo(B!HardCoded), saldo |-> 0],
   [bt |-> 0, cuil |-> 0, cel |-> Cel(B!Trivial), modulo |-> "100"],
   [bt |-> 6, cuil |-> 6, oferta |-> 0, punit |-> 30],
   [cuil |-> 7], [bt |-> 0, cuil |-> 8, cel |-> Cel("a")]})
Wfm == [rows : Upto(BancorRows, 2), meses : {{}, {1}, {1, 2}}, vacias : BOOLEAN]

Calls == {"c1", "c2"}
Verdict(estado, sub, form) ==
  [estado |-> estado, sub |-> sub, obs |-> "", comp |-> "si", cuil |-> R!Cuil("20", form)]
BancorApi ==
  [Calls -> {<<>>, <<Verdict("promesa_de_pago", "None", "-")>>, <<Verdict("no_contesta", "None", "")>>}]
RomanDefault == [id |-> "c1", cuil |-> R!Cuil("20", ""), estado |-> "", sub |-> "", obs |-> "-", comp |-> R!NaN]
BancorRoman2 == With(RomanDefault,
  {[estado |-> "E0012", sub |-> "E002"], [id |-> "c2", cuil |-> R!NoCuil, estado |-> "buzon"],
   [id |-> R!NaN], [id |-> "c2", cuil |-> R!Cuil("corto", ""), estado |-> "E0025"],
   [id |-> "c2", cuil |-> R!Cuil("20", ".0"), estado |-> "E0025"]})
Log == {[result |-> "7", rec |-> 1], [result |-> "10", rec |-> 2], [result |-> "1004", rec |-> 2]}
BancorResultados == [calls : {<<"c1">>, <<"c1", "c2", "c1">>, <<R!NaN>>}, api : BancorApi,
                     roman : Upto(BancorRoman2, 2), log : Upto(Log, 2), base : {<<R!Cuil("20", ""), R!Cuil("27", "-")>>}]
SoloRoman == [roman : Upto(BancorRoman2, 2), log : Upto(Log, 2), base : {<<>>, <<R!Cuil("20", "-"), R!Cuil("27", ".0")>>}]

\* EPEC: two clients with the same pair of phones, one with a number of another, one
\* with a number too short, one with a 15 that is not a mobile's.
EpecDefault == [id |-> 1, tel |-> E!NoPhone, cel |-> E!NoPhone, motivo |-> "", descripcion |-> "",
                medidor |-> ""]
EpecRows == With(EpecDefault,
  {[tel |-> Fijo("a"), cel |-> Cel("b")],
   [id |-> 2, tel |-> [Fijo("a") EXCEPT !.pre = "54"], cel |-> Cel("b"), motivo |-> "m"],
   [id |-> 3, cel |-> Cel("a"), tel |-> Fijo("a"), medidor |-> "1"],
   [id |-> 4, cel |-> [Cel(E!Serrano) EXCEPT !.mov = FALSE], descripcion |-> "d"],
   [id |-> 5, tel |-> Fijo(E!Short), cel |-> Cel(E!Trivial)], [id |-> 6]})
EpecFile == [columnas : BOOLEAN, rows : Upto(EpecRows, 3)]
EpecSmall == [columnas : {TRUE}, rows : Upto(EpecRows, 1)]
EpecExport == {[id |-> "c1", contacto |-> "None", speech |-> "None", dni |-> "1"],
               [id |-> "c2", contacto |-> "Si", speech |-> "s", dni |-> "2"]}
EpecDatos == [Calls -> {<<>>, <<[contacto |-> "True", speech |-> "t", dni |-> "3"]>>}]
EpecReplies == [Calls -> {<<429, E!Timeout, 200>>, <<500, 500, 500>>, <<404>>}]
EpecRoman == {[id |-> "c1", contacto |-> "No", spech |-> ""], [id |-> "c2", contacto |-> "-", spech |-> "r"]}
EpecResultados == [export : Upto(EpecExport, 2), replies : EpecReplies, datos : EpecDatos,
                   roman : Upto(EpecRoman, 2)]
LuzRoman == {[id |-> i, desde |-> "a", hora |-> h, contacto |-> "Si", motivo |-> ""] : i \in {1, 2}, h \in {0, 3}}
LuzLog == {[ref |-> 1, phone |-> "a", result |-> 7, hora |-> 1], [ref |-> 1, phone |-> "b", result |-> 10, hora |-> 2],
           [ref |-> 2, phone |-> "b", result |-> 99, hora |-> 3], [ref |-> 3, phone |-> "Telefono", result |-> 0, hora |-> 0]}
Luz == [roman : Upto(Upto(LuzRoman, 1), 2), log : Upto(Upto(LuzLog, 2), 1)]

\* Petersen: a row in each bank, so that the zip has its four files, and two more.
\* Dates around a weekend.
PetersenDefault ==
  [banco |-> "BSF", efecto |-> P!Promise, cliente |-> [n |-> 1, sci |-> FALSE], suc |-> "s",
   producto |-> "PRESTAMO", nro |-> "p", monto |-> 5, deuda |-> 7, obs |-> "o", fecha |-> 5, llamada |-> P!NoDate]
Cliente(n) == [n |-> n, sci |-> FALSE]
PetersenFour == <<[PetersenDefault EXCEPT !.cliente = Cliente(4), !.efecto = "YA PAGO"],
                  [PetersenDefault EXCEPT !.cliente = Cliente(5), !.banco = "BSC", !.fecha = 4, !.llamada = 3],
                  [PetersenDefault EXCEPT !.cliente = Cliente(6), !.banco = "BSJ", !.fecha = 12],
                  [PetersenDefault EXCEPT !.cliente = Cliente(7), !.banco = "BER", !.fecha = 13]>>
PetersenRows == With(PetersenDefault,
  {[fecha |-> 2], [fecha |-> 30, monto |-> P!NoAmount], [fecha |-> P!NoDate],
   [banco |-> "BER", monto |-> P!NoAmount, deuda |-> 0, cliente |-> Cliente(2)],
   [efecto |-> "RELLAMAR"], [efecto |-> "NOTIFICADO FLIAR", llamada |-> 3],
   [efecto |-> "TELEFONO EQUIVOCADO", obs |-> P!Blank, cliente |-> [n |-> 20, sci |-> TRUE]],
   [efecto |-> "FALLECIDO", producto |-> "OTRO", cliente |-> Cliente(0)]})
PetersenBase == <<[tels |-> {"a"}, cliente |-> 1, suc |-> "s", banco |-> "BSF"],
                  [tels |-> {"a", "b"}, cliente |-> 2, suc |-> "s", banco |-> "BSC"]>>
Llamadas == {[phone |-> "a", result |-> 7], [phone |-> "a", result |-> 10], [phone |-> "b", result |-> 8]}
PetersenExcl == {[cliente |-> 1, banco |-> "BSF", suc |-> "s"], [cliente |-> 2, banco |-> "other", suc |-> "s"],
                 [cliente |-> 3, banco |-> "BER", suc |-> "s"]}
Petersen ==
  [roman : {PetersenFour \o r : r \in Upto(PetersenRows, 2)} \cup {SubSeq(PetersenFour, 1, k) : k \in 0..3},
   alta : {3}, approach : {"none", "malformed"}, llamadas : {<<>>}, base : {<<>>}, excluidos : {<<>>}]
  \cup [roman : {PetersenFour \o r : r \in Upto(PetersenRows, 1)}, alta : {3}, approach : {"given"},
        llamadas : Upto(Llamadas, 2), base : {PetersenBase}, excluidos : Upto(PetersenExcl, 2)]
PetersenReplies == {<<"timeout", "timeout", "promesa">>, <<"timeout", "timeout", "timeout">>, <<"404", "404", "404">>}
PetersenResults ==
  [report : Upto({[id |-> c, error |-> "", efecto |-> ""] : c \in Calls}, 2),
   paths : [Calls -> [1..2 -> PetersenReplies]],
   roman : Upto({[id |-> "c1", efecto |-> "YA PAGO"], [id |-> "c1", efecto |-> ""]}, 2)]

\* Fravega: a client in two rows, one without arrears, two without a DNI.
FravegaRows ==
  {[dni |-> "1", cel |-> [pre |-> "", n |-> "a"], importe |-> 5, dias |-> 3, credito |-> "x"],
   [dni |-> "1", cel |-> F!NoPhone, importe |-> F!NoAmount, dias |-> 9, credito |-> "y"],
   [dni |-> "2", cel |-> [pre |-> "54", n |-> "a"], importe |-> 2, dias |-> -1, credito |-> ""],
   [dni |-> "", cel |-> [pre |-> "", n |-> "b"], importe |-> 2, dias |-> 0, credito |-> ""]}
FravegaReply(estado, trae) == [estado |-> estado, trae |-> trae]
FravegaReplies ==
  {FravegaReply(s, <<>>) : s \in {"404", "unreachable", "timeout", "500"}}
    \cup {FravegaReply("ok", [dni |-> "1", tipif |-> "promesa"]), FravegaReply("ok", [dni |-> "1"])}
FravegaCall(id, dni, tipif) == [id |-> id, dniEntrada |-> dni, tipifSalida |-> tipif]
FravegaResults ==
  [export : Upto({FravegaCall("c1", "1", "-"), FravegaCall("c2", "1", "no"), FravegaCall("", "2", "no")}, 2),
   api : [Calls -> [1..2 -> FravegaReplies]],
   roman : Upto({[id |-> "c1", dni |-> "1", tipif |-> "pago"], [id |-> "c1", dni |-> "", tipif |-> "-"],
                 [id |-> "", dni |-> "2", tipif |-> "x"]}, 1)]

\* MT: a mobile written without its kind, a fixed line, a number with a 15 inside.
MtPhone(pre, n) == [pre |-> pre, mov |-> pre = "", area |-> "11", n |-> n]
MtGroups(tipo, n) == <<[tipo |-> tipo, area |-> "11", n |-> n], [tipo |-> "TEL", area |-> "11", n |-> "b"]>>
MtRows ==
  {[columnas |-> TRUE, id |-> "1", tels |-> <<MtPhone("", "a"), MtPhone("54", "b")>>, grupos |-> MtGroups("CEL", "a")],
   [columnas |-> TRUE, id |-> "2", tels |-> <<N!NoPhone, MtPhone("", N!Serrano)>>, grupos |-> MtGroups("CEL", N!Serrano)],
   [columnas |-> TRUE, id |-> "3", tels |-> <<MtPhone("549", "b"), MtPhone("", N!Short)>>, grupos |-> MtGroups("", "c")],
   [columnas |-> FALSE, id |-> "4", tels |-> <<N!NoPhone, N!NoPhone>>, grupos |-> MtGroups("", "c")]}
MtLog ==
  {[hora |-> 2, grupo |-> "M", phone |-> MtPhone("549", "a"), ref |-> "r", sci |-> FALSE, result |-> 10],
   [hora |-> 1, grupo |-> "M", phone |-> MtPhone("54", "b"), ref |-> "r", sci |-> TRUE, result |-> 8],
   [hora |-> 3, grupo |-> "M", phone |-> N!NoPhone, ref |-> "", sci |-> FALSE, result |-> 99],
   [hora |-> 4, grupo |-> "other", phone |-> MtPhone("54", "z"), ref |-> "r", sci |-> FALSE, result |-> 7]}
MtResults ==
  [log : Upto(MtLog, 2), ratio : {5, 100}, base : Upto(MtRows, 1),
   historial : Upto({[phone |-> MtPhone("549", "a"), id |-> "1", tip |-> "Promesa de pago"]}, 1),
   roman : Upto({[tip |-> "promesa de pago", hora |-> "h", cliente |-> "1", fecha |-> ""],
                 [tip |-> "otra", hora |-> "h", cliente |-> "-", fecha |-> ""]}, 1)]

\* Claro, CX and Social Learning.
ClaroPhones == {[pre |-> "8 digits", n |-> "a"], [pre |-> "598", n |-> "a"], [pre |-> "10 digits", n |-> "b"],
                [pre |-> "5 digits", n |-> "c"], S!NoPhone}
ClaroFiles == [ids : BOOLEAN, rows : Upto({[id |-> 7, phone |-> p] : p \in ClaroPhones}, 3)]
ClaroResults ==
  [calls : {<<"c1">>, <<"c1", "c2", S!NaN>>}, api : [Calls -> {"error", "ok"}],
   roman : Upto({[id |-> "c1", motivo |-> "x"], [id |-> "c1", motivo |-> S!NaN], [id |-> S!NaN, motivo |-> "-"]}, 2)]
CxFiles == [columnas : BOOLEAN,
            rows : Upto({[id |-> i, phone |-> p] : i \in {1, 2},
                         p \in {[pre |-> "", n |-> "a"], [pre |-> "with points", n |-> "b"], S!NoPhone}}, 2)]
SocialRows ==
  {[id |-> d, phone |-> p, monto |-> 4, descuento |-> q, mora |-> q] :
     d \in 0..2, p \in {[pre |-> "00", n |-> "a"], [pre |-> "", n |-> "b"]}, q \in {0, 50}}

MCEntradas ==
  ("bancor" :> Upto(BancorRows, 3)) @@ ("bancor wfm" :> Wfm)
  @@ ("bancor resultados" :> BancorResultados) @@ ("bancor solo roman" :> SoloRoman)
  @@ ("epec" :> (Upto(EpecFile, 1) \cup Upto(EpecSmall, 2))) @@ ("epec exe" :> EpecFile)
  @@ ("epec skill" :> Upto(EpecSmall, 2)) @@ ("epec resultados" :> EpecResultados) @@ ("epec luz" :> Luz)
  @@ ("petersen" :> Petersen)
  @@ ("petersen fechas" :> [roman : Upto(PetersenRows, 2), alta : {3}]) @@ ("petersen resultados" :> PetersenResults)
  @@ ("fravega" :> Upto(FravegaRows, 3)) @@ ("fravega resultados" :> FravegaResults)
  @@ ("mt" :> Upto(MtRows, 2)) @@ ("mt resultados" :> MtResults)
  @@ ("claro" :> ClaroFiles) @@ ("claro resultados" :> ClaroResults)
  @@ ("cx" :> CxFiles) @@ ("social" :> Upto(SocialRows, 2))
=============================================================================
