----------------------------- MODULE Jobs_proofs -----------------------------
(***************************************************************************)
(* Proofs about the scripts of the clients, for inputs of every length and *)
(* every calendar: midnight may come between any two steps.                *)
(***************************************************************************)
EXTENDS Jobs, Tables_proofs, SequenceTheorems

-----------------------------------------------------------------------------
(* the steps of a job *)

Fija == codigo = Running /\ UNCHANGED <<job, entrada, dia, cancelado>>

\* A step is of the job that runs, on the day it is; only the clock moves the day.
LEMMA StepsOfTheBases ==
  /\ BancorBase \/ BancorCompleta \/ BancorTelefonos \/ BancorE1kia => job = "bancor" /\ Fija
  /\ WfmCancela \/ WfmFiltros \/ WfmLibro \/ WfmAnota \/ WfmRoman \/ WfmE1kia \/ WfmEstado
       => job = "bancor wfm" /\ Fija
  /\ EpecCombina \/ EpecGuarda \/ EpecTelefonos => job = "epec" /\ Fija
  /\ EpecExe => job = "epec exe" /\ Fija
  /\ EpecSkill => job = "epec skill" /\ Fija
  /\ FravegaBase => job = "fravega" /\ Fija
  /\ MtBase \/ MtE1kia => job = "mt" /\ Fija
  /\ ClaroBase \/ ClaroDeduplica \/ ClaroTelefonos => job = "claro" /\ Fija
  /\ EncuestaCx => job = "cx" /\ Fija
  /\ SocialLearning => job = "social" /\ Fija
  /\ PetersenTipif \/ PetersenExporta \/ PetersenApproach \/ PetersenExcluidos \/ PetersenZip
       => job = "petersen" /\ Fija
  /\ PetersenFechas \/ PetersenFtp => job = "petersen fechas" /\ Fija
<1>1. BancorBase \/ BancorCompleta \/ BancorTelefonos \/ BancorE1kia => job = "bancor" /\ Fija
  BY DEF BancorBase, BancorCompleta, BancorTelefonos, BancorE1kia, En, Fija, fijas
<1>2. WfmCancela \/ WfmFiltros \/ WfmLibro \/ WfmAnota \/ WfmRoman \/ WfmE1kia \/ WfmEstado
        => job = "bancor wfm" /\ Fija
  BY DEF WfmCancela, WfmFiltros, WfmLibro, WfmAnota, WfmRoman, WfmE1kia, WfmEstado, Etapa, En, Fija, fijas
<1>3. EpecCombina \/ EpecGuarda \/ EpecTelefonos => job = "epec" /\ Fija
  BY DEF EpecCombina, EpecGuarda, EpecTelefonos, En, Fija, fijas
<1>4. (EpecExe => job = "epec exe" /\ Fija) /\ (EpecSkill => job = "epec skill" /\ Fija)
  BY DEF EpecExe, EpecSkill, En, Fija, fijas
<1>5. (FravegaBase => job = "fravega" /\ Fija) /\ (MtBase \/ MtE1kia => job = "mt" /\ Fija)
  BY DEF FravegaBase, MtBase, MtE1kia, En, Fija, fijas
<1>6. ClaroBase \/ ClaroDeduplica \/ ClaroTelefonos => job = "claro" /\ Fija
  BY DEF ClaroBase, ClaroDeduplica, ClaroTelefonos, En, Fija, fijas
<1>7. (EncuestaCx => job = "cx" /\ Fija) /\ (SocialLearning => job = "social" /\ Fija)
  BY DEF EncuestaCx, SocialLearning, En, Fija, fijas
<1>8. PetersenTipif \/ PetersenExporta \/ PetersenApproach \/ PetersenExcluidos \/ PetersenZip
        => job = "petersen" /\ Fija
  BY DEF PetersenTipif, PetersenExporta, PetersenApproach, PetersenExcluidos, PetersenZip, En, Fija, fijas
<1>9. PetersenFechas \/ PetersenFtp => job = "petersen fechas" /\ Fija
  BY DEF PetersenFechas, PetersenFtp, En, Fija, fijas
<1>10. QED
  BY <1>1, <1>2, <1>3, <1>4, <1>5, <1>6, <1>7, <1>8, <1>9

LEMMA StepsOfTheResults ==
  /\ BancorGestiones \/ BancorCrm => job = "bancor resultados" /\ Fija
  /\ BancorRoman => job = "bancor solo roman" /\ Fija
  /\ EpecEnriquece \/ EpecReporte \/ EpecActualiza => job = "epec resultados" /\ Fija
  /\ EpecLuz => job = "epec luz" /\ Fija
  /\ FravegaResultados => job = "fravega resultados" /\ Fija
  /\ PetersenResultados => job = "petersen resultados" /\ Fija
  /\ MtResultados => job = "mt resultados" /\ Fija
  /\ ClaroResultados => job = "claro resultados" /\ Fija
<1>1. (BancorGestiones \/ BancorCrm => job = "bancor resultados" /\ Fija)
      /\ (BancorRoman => job = "bancor solo roman" /\ Fija)
  BY DEF BancorGestiones, BancorCrm, BancorRoman, En, Fija, fijas
<1>2. (EpecEnriquece \/ EpecReporte \/ EpecActualiza => job = "epec resultados" /\ Fija)
      /\ (EpecLuz => job = "epec luz" /\ Fija)
  BY DEF EpecEnriquece, EpecReporte, EpecActualiza, EpecLuz, En, Fija, fijas
<1>3. FravegaResultados => job = "fravega resultados" /\ Fija
  BY DEF FravegaResultados, En, Fija, fijas
<1>4. PetersenResultados => job = "petersen resultados" /\ Fija
  BY DEF PetersenResultados, En, Fija, fijas
<1>5. MtResultados => job = "mt resultados" /\ Fija
  BY DEF MtResultados, En, Fija, fijas
<1>6. ClaroResultados => job = "claro resultados" /\ Fija
  BY DEF ClaroResultados, En, Fija, fijas
<1>7. QED
  BY <1>1, <1>2, <1>3, <1>4, <1>5, <1>6

\* The steps of each job.
LEMMA StepsOfAJob ==
  ASSUME Next
  PROVE  /\ UNCHANGED <<job, entrada>>
         /\ job = "bancor" => Medianoche \/ BancorBase \/ BancorCompleta \/ BancorTelefonos \/ BancorE1kia
         /\ job = "bancor wfm" =>
              \/ Medianoche \/ Cancela \/ WfmCancela \/ WfmFiltros \/ WfmLibro \/ WfmAnota
              \/ WfmRoman \/ WfmE1kia \/ WfmEstado
         /\ job = "claro" => Medianoche \/ ClaroBase \/ ClaroDeduplica \/ ClaroTelefonos
         /\ job = "fravega" => Medianoche \/ FravegaBase
         /\ job = "mt" => Medianoche \/ MtBase \/ MtE1kia
         /\ job = "cx" => Medianoche \/ EncuestaCx
         /\ job = "social" => Medianoche \/ SocialLearning
         /\ job = "petersen fechas" => Medianoche \/ PetersenFechas \/ PetersenFtp
         /\ job = "petersen" =>
              \/ Medianoche \/ PetersenTipif \/ PetersenExporta \/ PetersenApproach
              \/ PetersenExcluidos \/ PetersenZip
         /\ job = "bancor resultados" => Medianoche \/ BancorGestiones \/ BancorCrm
         /\ job = "bancor solo roman" => Medianoche \/ BancorRoman
         /\ job = "epec" => Medianoche \/ EpecCombina \/ EpecGuarda \/ EpecTelefonos
         /\ job = "epec resultados" => Medianoche \/ EpecEnriquece \/ EpecReporte \/ EpecActualiza
         /\ job = "fravega resultados" => Medianoche \/ FravegaResultados
         /\ job = "mt resultados" => Medianoche \/ MtResultados
         /\ job = "claro resultados" => Medianoche \/ ClaroResultados
<1>1. Cancela => job = "bancor wfm" /\ UNCHANGED <<job, entrada>>
  BY DEF Cancela
<1>2. Medianoche => UNCHANGED <<job, entrada>>
  BY DEF Medianoche
<1>3. Fija => UNCHANGED <<job, entrada>>
  BY DEF Fija
<1>4. QED
  BY <1>1, <1>2, <1>3, StepsOfTheBases, StepsOfTheResults DEF Next
-----------------------------------------------------------------------------
(* Petersen: the date of a promise *)


\* Of any three days in a row one is a working day.
LEMMA WorkingDay ==
  ASSUME NEW d \in Nat
  PROVE  P!Habil(d) \/ P!Habil(d + 1) \/ P!Habil(d + 2)
BY Z3 DEF P!Habil

\* PrimerHabil chooses a working day: one of the first three days is.
LEMMA FirstWorkingDay ==
  ASSUME NEW hoy \in Nat
  PROVE  P!PrimerHabil(hoy) \in hoy..(hoy + 9) /\ P!Habil(P!PrimerHabil(hoy))
<1>1. \E d \in hoy..(hoy + 9) : P!Habil(d) /\ \A e \in hoy..(d - 1) : ~P!Habil(e)
  <2>1. CASE P!Habil(hoy)
    <3>1. hoy \in hoy..(hoy + 9) /\ \A e \in hoy..(hoy - 1) : ~P!Habil(e)
      OBVIOUS
    <3> QED
      BY <2>1, <3>1
  <2>2. CASE ~P!Habil(hoy) /\ P!Habil(hoy + 1)
    <3>1. (hoy + 1) \in hoy..(hoy + 9) /\ \A e \in hoy..((hoy + 1) - 1) : e = hoy
      OBVIOUS
    <3> QED
      BY <2>2, <3>1
  <2>3. CASE ~P!Habil(hoy) /\ ~P!Habil(hoy + 1) /\ P!Habil(hoy + 2)
    <3>1. (hoy + 2) \in hoy..(hoy + 9) /\ \A e \in hoy..((hoy + 2) - 1) : e = hoy \/ e = hoy + 1
      OBVIOUS
    <3> QED
      BY <2>3, <3>1
  <2> QED
    BY <2>1, <2>2, <2>3, WorkingDay
<1> QED
  BY <1>1 DEF P!PrimerHabil

LEMMA LastWorkingDay ==
  ASSUME NEW hoy \in Nat
  PROVE  P!UltimoHabil(hoy) \in hoy..(hoy + 9) /\ P!Habil(P!UltimoHabil(hoy))
<1>1. \E d \in hoy..(hoy + 9) : P!Habil(d) /\ \A e \in (d + 1)..(hoy + 9) : ~P!Habil(e)
  <2>1. CASE P!Habil(hoy + 9)
    <3>1. (hoy + 9) \in hoy..(hoy + 9) /\ \A e \in ((hoy + 9) + 1)..(hoy + 9) : ~P!Habil(e)
      OBVIOUS
    <3> QED
      BY <2>1, <3>1
  <2>2. CASE ~P!Habil(hoy + 9) /\ P!Habil(hoy + 8)
    <3>1. (hoy + 8) \in hoy..(hoy + 9) /\ \A e \in ((hoy + 8) + 1)..(hoy + 9) : e = hoy + 9
      OBVIOUS
    <3> QED
      BY <2>2, <3>1
  <2>3. CASE ~P!Habil(hoy + 9) /\ ~P!Habil(hoy + 8) /\ P!Habil(hoy + 7)
    <3>1. /\ (hoy + 7) \in hoy..(hoy + 9)
          /\ \A e \in ((hoy + 7) + 1)..(hoy + 9) : e = hoy + 8 \/ e = hoy + 9
      OBVIOUS
    <3> QED
      BY <2>3, <3>1
  <2>4. P!Habil(hoy + 7) \/ P!Habil(hoy + 8) \/ P!Habil(hoy + 9)
    <3>1. hoy + 7 \in Nat /\ (hoy + 7) + 1 = hoy + 8 /\ (hoy + 7) + 2 = hoy + 9
      OBVIOUS
    <3> QED
      BY <3>1, WorkingDay
  <2> QED
    BY <2>1, <2>2, <2>3, <2>4
<1> QED
  BY <1>1 DEF P!UltimoHabil

\* A date among the ten goes back over one weekend at most.
LEMMA PreviousWorkingDay ==
  ASSUME NEW hoy \in Nat, NEW fecha \in hoy..(hoy + 9)
  PROVE  P!HabilAnterior(fecha, hoy) \in hoy..(hoy + 9) /\ P!Habil(P!HabilAnterior(fecha, hoy))
<1>1. CASE ~\E d \in hoy..fecha : P!Habil(d)
  BY <1>1, LastWorkingDay DEF P!HabilAnterior
<1>2. CASE \E d \in hoy..fecha : P!Habil(d)
  <2>1. \E d \in hoy..fecha : P!Habil(d) /\ \A e \in (d + 1)..fecha : ~P!Habil(e)
    <3>1. CASE P!Habil(fecha)
      <4>1. fecha \in hoy..fecha /\ \A e \in (fecha + 1)..fecha : ~P!Habil(e)
        OBVIOUS
      <4> QED
        BY <3>1, <4>1
    <3>2. CASE ~P!Habil(fecha) /\ fecha > hoy /\ P!Habil(fecha - 1)
      <4>1. fecha - 1 \in hoy..fecha /\ \A e \in ((fecha - 1) + 1)..fecha : e = fecha
        BY <3>2
      <4> QED
        BY <3>2, <4>1
    <3>3. CASE ~P!Habil(fecha) /\ fecha > hoy + 1 /\ ~P!Habil(fecha - 1) /\ P!Habil(fecha - 2)
      <4>1. /\ fecha - 2 \in hoy..fecha
            /\ \A e \in ((fecha - 2) + 1)..fecha : e = fecha - 1 \/ e = fecha
        BY <3>3
      <4> QED
        BY <3>3, <4>1
    <3>4. CASE ~P!Habil(fecha) /\ (fecha = hoy \/ ~P!Habil(fecha - 1)) /\ fecha \in {hoy, hoy + 1}
      <4>1. \A d \in hoy..fecha : d = fecha \/ (fecha > hoy /\ d = fecha - 1)
        BY <3>4
      <4> QED
        BY <1>2, <3>4, <4>1
    <3>5. fecha \in {hoy, hoy + 1} \/ fecha > hoy + 1
      OBVIOUS
    <3>6. CASE fecha > hoy + 1
      <4>1. fecha - 2 \in Nat /\ (fecha - 2) + 1 = fecha - 1 /\ (fecha - 2) + 2 = fecha
        BY <3>6
      <4>2. P!Habil(fecha - 2) \/ P!Habil(fecha - 1) \/ P!Habil(fecha)
        BY <4>1, WorkingDay
      <4> QED
        BY <3>6, <4>2, <3>1, <3>2, <3>3
    <3> QED
      BY <3>1, <3>2, <3>4, <3>5, <3>6
  <2>2. P!HabilAnterior(fecha, hoy) \in hoy..fecha /\ P!Habil(P!HabilAnterior(fecha, hoy))
    BY <1>2, <2>1 DEF P!HabilAnterior
  <2> QED
    BY <2>2
<1> QED
  BY <1>1, <1>2

\* _validate_fecha_promesa gives every promise with a date a working day of the ten
\* that start on the day it is reported, however far the client's date is.
THEOREM PromiseDatesWork ==
  ASSUME NEW hoy \in Nat, NEW fecha \in Int, fecha # P!NoDate
  PROVE  P!ValidarFecha(fecha, hoy) \in hoy..(hoy + 9) /\ P!Habil(P!ValidarFecha(fecha, hoy))
<1>1. fecha # P!NoDate
  OBVIOUS
<1>2. CASE fecha < hoy
  BY <1>1, <1>2, FirstWorkingDay DEF P!ValidarFecha
<1>3. CASE fecha > hoy + 9
  BY <1>1, <1>3, LastWorkingDay DEF P!ValidarFecha
<1>4. CASE fecha \in hoy..(hoy + 9)
  BY <1>1, <1>4, PreviousWorkingDay DEF P!ValidarFecha
<1> QED
  BY <1>2, <1>3, <1>4

-----------------------------------------------------------------------------
(* Petersen: the managements of a delivery *)

LEMMA PetersenTables ==
  /\ \A rows, at : P!RowsAt(rows, at) = RowsAt(rows, at)
  /\ \A seqs : P!FlattenSeq(seqs) = FlattenSeq(seqs)
  /\ \A set : P!Min(set) = Min(set)
<1>1. ASSUME NEW rows, NEW at PROVE P!RowsAt(rows, at) = RowsAt(rows, at)
  BY DEF P!RowsAt, RowsAt, P!Cardinality, Cardinality
<1>2. ASSUME NEW seqs PROVE P!FlattenSeq(seqs) = FlattenSeq(seqs)
  BY DEF P!FlattenSeq, FlattenSeq
<1>3. ASSUME NEW set PROVE P!Min(set) = Min(set)
  BY DEF P!Min, Min
<1>4. QED
  BY <1>1, <1>2, <1>3

LEMMA LeastIsIn ==
  ASSUME NEW set \in SUBSET Nat, set # {}
  PROVE  Min(set) \in set
<1>1. \E x \in set : \A y \in set : x <= y
  BY LeastNatural
<1>2. QED
  BY <1>1 DEF Min

\* A management of the export.
Columnas == {"cliente", "efecto", "contacto", "suc", "tipo", "producto", "obs", "llamada",
             "monto", "alta", "fecha"}
EsGestion(r) == DOMAIN r = Columnas /\ r.fecha \in Int
SonGestiones(rows) == IsTable(rows) /\ \A i \in DOMAIN rows : EsGestion(rows[i])

LEMMA ValidDatesAreDates ==
  ASSUME NEW hoy \in Nat, NEW fecha \in Int
  PROVE  P!ValidarFecha(fecha, hoy) \in Int
<1>1. CASE fecha = P!NoDate
  BY <1>1 DEF P!ValidarFecha, P!NoDate
<1>2. CASE fecha # P!NoDate
  BY <1>2, PromiseDatesWork
<1>3. QED
  BY <1>1, <1>2

\* generate_tipif_files makes managements.
LEMMA TipifMakesManagements ==
  ASSUME NEW roman, IsTable(roman), \A i \in DOMAIN roman : roman[i].fecha \in Int,
         NEW alta, NEW now \in Nat, NEW all, NEW b \in P!Banks
  PROVE  SonGestiones(P!GenerateTipif(roman, alta, now, all)[b])
<1> DEFINE at == {i \in DOMAIN roman :
                    /\ roman[i].banco = b /\ roman[i].efecto # P!Blank
                    /\ P!NroCliente(roman[i].cliente) # P!NoClient
                    /\ roman[i].efecto # "RELLAMAR" \/ all}
           of == RowsAt(roman, at)
           new == [i \in DOMAIN of |-> P!MapRow(of[i], alta, now)]
<1>1. P!GenerateTipif(roman, alta, now, all)[b] = new
  BY DEF P!GenerateTipif, P!RowsWith, P!MapRows, P!RowsAt, RowsAt, P!Cardinality, Cardinality
<1>2. IsTable(of) /\ \A k \in DOMAIN of : \E i \in DOMAIN roman : of[k] = roman[i]
  <2>1. at \in SUBSET DOMAIN roman
    OBVIOUS
  <2> HIDE DEF at
  <2>2. QED
    BY <2>1, RowsAtAreRows
<1> HIDE DEF of
<1>3. IsTable(new) /\ DOMAIN new = DOMAIN of
  BY <1>2, MappedTable
<1>4. ASSUME NEW k \in DOMAIN of PROVE EsGestion(P!MapRow(of[k], alta, now))
  <2>1. of[k].fecha \in Int
    BY <1>2
  <2>2. P!ValidarFecha(of[k].fecha, now) \in Int /\ P!NoDate \in Int
    BY <2>1, ValidDatesAreDates DEF P!NoDate
  <2>3. QED
    BY <2>2 DEF EsGestion, Columnas, P!MapRow
<1>5. QED
  BY <1>1, <1>3, <1>4 DEF SonGestiones

\* A promise of a bank whose errors are found is one that validates.
Validada(b, r) == P!FileName(b) = b /\ r.efecto = P!Promise => ~P!PromesaInvalida(r)

\* export_valid_promesas takes promises and simple typifications of them.
LEMMA ValidRowsAreManagements ==
  ASSUME NEW files, NEW b, SonGestiones(files[b])
  PROVE  /\ SonGestiones(P!Validas(files, b))
         /\ \A i \in DOMAIN P!Validas(files, b) :
              /\ P!Validas(files, b)[i].efecto \in P!Simple \cup {P!Promise}
              /\ b \in P!Banks => Validada(b, P!Validas(files, b)[i])
<1> DEFINE rows == files[b]
           at == {i \in DOMAIN rows :
                    \/ rows[i].efecto = P!Promise /\ <<b, i, rows[i].cliente>> \notin P!Errores(files)
                    \/ rows[i].efecto \in P!Simple /\ P!SimpleCompleta(rows[i])}
           of == RowsAt(rows, at)
           new == [i \in DOMAIN of |-> IF of[i].efecto = P!Promise THEN of[i] ELSE P!Limpia(of[i])]
<1>1. P!Validas(files, b) = new
  BY DEF P!Validas, P!MapRows, P!RowsAt, RowsAt, P!Cardinality, Cardinality
<1>2. IsTable(rows) /\ at \in SUBSET DOMAIN rows
  BY DEF SonGestiones
<1>3. /\ IsTable(of)
      /\ \A k \in DOMAIN of : /\ EsGestion(of[k]) /\ of[k].efecto \in P!Simple \cup {P!Promise}
                              /\ b \in P!Banks => Validada(b, of[k])
  <2>1. \A i \in at : EsGestion(rows[i]) /\ rows[i].efecto \in P!Simple \cup {P!Promise}
    BY DEF SonGestiones
  <2>2. ASSUME NEW i \in at, b \in P!Banks PROVE Validada(b, rows[i])
    <3> SUFFICES ASSUME P!FileName(b) = b, rows[i].efecto = P!Promise, P!PromesaInvalida(rows[i])
                 PROVE  FALSE
      BY DEF Validada
    <3>1. <<b, i, rows[i].cliente>> \in P!Errores(files)
      BY <2>2 DEF P!Errores
    <3>2. rows[i].efecto \notin P!Simple
      BY DEF P!Simple, P!Promise
    <3>3. QED
      BY <3>1, <3>2
  <2> HIDE DEF at, rows
  <2>3. IsTable(of) /\ \A k \in DOMAIN of : \E i \in at : of[k] = rows[i]
    BY <1>2, RowsAtAreRows
  <2>4. QED
    BY <2>1, <2>2, <2>3
<1> HIDE DEF of
<1>4. IsTable(new) /\ DOMAIN new = DOMAIN of
  BY <1>3, MappedTable
<1>5. ASSUME NEW k \in DOMAIN of
      PROVE  /\ EsGestion(new[k]) /\ new[k].efecto = of[k].efecto
             /\ b \in P!Banks => Validada(b, new[k])
  <2> DEFINE r == of[k]  n == new[k]
  <2>1. EsGestion(r)
    BY <1>3
  <2>2. b \in P!Banks => Validada(b, r)
    BY Zenon, <1>3
  <2>3. n = IF r.efecto = P!Promise THEN r ELSE P!Limpia(r)
    OBVIOUS
  <2> HIDE DEF r, n
  <2>4. CASE r.efecto = P!Promise
    BY <2>1, <2>2, <2>3, <2>4 DEF r, n
  <2>5. CASE r.efecto # P!Promise
    <3>1. n = P!Limpia(r)
      BY <2>3, <2>5
    <3>2. EsGestion(n) /\ n.efecto = r.efecto
      BY <2>1, <3>1 DEF EsGestion, Columnas, P!Limpia, P!NoDate
    <3>3. Validada(b, n)
      BY <2>5, <3>2 DEF Validada
    <3>4. QED
      BY <3>2, <3>3 DEF r, n
  <2>6. QED
    BY <2>4, <2>5
<1> DEFINE valid == P!Validas(files, b)
<1>6. valid = new
  BY <1>1
<1> HIDE DEF new, valid
<1>7. IsTable(valid) /\ DOMAIN valid = DOMAIN of
  BY <1>4, <1>6
<1>8. ASSUME NEW i \in DOMAIN valid
      PROVE  /\ EsGestion(valid[i]) /\ valid[i].efecto \in P!Simple \cup {P!Promise}
             /\ b \in P!Banks => Validada(b, valid[i])
  <2>1. i \in DOMAIN of /\ valid[i] = new[i]
    BY <1>6, <1>7
  <2>2. EsGestion(new[i]) /\ new[i].efecto = of[i].efecto
    BY <1>5, <2>1
  <2>3. b \in P!Banks => Validada(b, new[i])
    BY Zenon, <1>5, <2>1
  <2>4. of[i].efecto \in P!Simple \cup {P!Promise}
    BY <1>3, <2>1
  <2>5. QED
    BY <2>1, <2>2, <2>3, <2>4
<1>9. QED
  BY <1>7, <1>8 DEF SonGestiones, valid

\* The row of a client is one of its rows.
LEMMA ElegidasAreRows ==
  ASSUME NEW rows, IsTable(rows)
  PROVE  /\ IsTable(P!UnaPorCliente(rows))
         /\ \A k \in DOMAIN P!UnaPorCliente(rows) :
              \E i \in DOMAIN rows : P!UnaPorCliente(rows)[k] = rows[i]
<1> DEFINE in == {i \in DOMAIN rows : rows[i]["cliente"] # P!NoKey}
           con == RowsAt(rows, in)
           first == {i \in DOMAIN con : \A j \in 1..(i - 1) : con[j]["cliente"] # con[i]["cliente"]}
           firsts == RowsAt(con, first)
           Same(f) == {i \in DOMAIN rows : rows[i]["cliente"] = f["cliente"]}
           groups == [k \in DOMAIN firsts |-> RowsAt(rows, Same(firsts[k]))]
           new == [k \in DOMAIN groups |-> P!Elegida(groups[k])]
<1>1. P!UnaPorCliente(rows) = new
  BY DEF P!UnaPorCliente, P!GroupsByAppearance, P!KeepFirst, P!RowsWith, P!MapRows,
         P!RowsAt, RowsAt, P!Cardinality, Cardinality
<1>2. IsTable(con) /\ \A k \in DOMAIN con : \E i \in DOMAIN rows : con[k] = rows[i]
  <2>1. in \in SUBSET DOMAIN rows
    OBVIOUS
  <2> HIDE DEF in
  <2>2. QED
    BY <2>1, RowsAtAreRows
<1> HIDE DEF con
<1>3. IsTable(firsts) /\ \A k \in DOMAIN firsts : \E i \in DOMAIN con : firsts[k] = con[i]
  <2>1. first \in SUBSET DOMAIN con
    OBVIOUS
  <2> HIDE DEF first
  <2>2. QED
    BY <1>2, <2>1, RowsAtAreRows
<1> HIDE DEF firsts
<1>4. ASSUME NEW k \in DOMAIN firsts
      PROVE  \E i \in DOMAIN rows : P!Elegida(groups[k]) = rows[i]
  <2> DEFINE at == Same(firsts[k])  group == RowsAt(rows, at)
             promises == {i \in DOMAIN group : group[i].efecto = P!Promise}
             best == IF promises = {} THEN 1 ELSE Min(promises)
  <2>1. PICK i \in DOMAIN rows : firsts[k] = rows[i]
    BY <1>2, <1>3
  <2>2. i \in at /\ at \in SUBSET DOMAIN rows
    BY <2>1
  <2> HIDE DEF at
  <2>3. /\ Cardinality(at) \in Nat /\ DOMAIN group = 1..Cardinality(at)
        /\ OrderOf(at) \in [1..Cardinality(at) -> at]
        /\ \E n \in 1..Cardinality(at) : OrderOf(at)[n] = i
        /\ \A n \in 1..Cardinality(at) : group[n] = rows[OrderOf(at)[n]]
    BY <2>2, RowsAtOfTable
  <2> HIDE DEF group
  <2>4. best \in DOMAIN group
    <3>1. CASE promises = {}
      BY <2>3, <3>1
    <3>2. CASE promises # {}
      <4>1. promises \in SUBSET Nat
        BY <2>3
      <4>2. Min(promises) \in promises
        <5> HIDE DEF promises
        <5>1. QED
          BY <3>2, <4>1, LeastIsIn
      <4>3. QED
        BY <3>2, <4>2
    <3>3. QED
      BY <3>1, <3>2
  <2>5. P!Elegida(groups[k]) = group[best]
    BY PetersenTables DEF P!Elegida, group, at
  <2> HIDE DEF best
  <2>6. group[best] = rows[OrderOf(at)[best]] /\ OrderOf(at)[best] \in DOMAIN rows
    BY <2>2, <2>3, <2>4
  <2>7. QED
    BY <2>5, <2>6
<1>5. IsTable(new) /\ DOMAIN new = DOMAIN firsts
  <2>1. IsTable(groups) /\ DOMAIN groups = DOMAIN firsts
    <3> HIDE DEF Same
    <3>1. QED
      BY <1>3, MappedTable
  <2> HIDE DEF groups
  <2>2. QED
    BY <2>1, MappedTable
<1>6. QED
  BY SMTT(30), <1>1, <1>4, <1>5

\* What every delivery keeps, bank by bank: the promises have working days and are
\* valid, and who is reported as not answering has that one row.
PromesaBien(r) ==
  r.efecto = P!Promise /\ r.fecha # P!NoDate => P!Habil(r.fecha) /\ r.fecha \in r.alta..(r.alta + 9)
Silencio == "NO RESPONDE OCUPADO"
Filas(g, b) == g[b].codificacion
UnaSola(g) ==
  \A b, c \in DOMAIN g : \A i \in DOMAIN Filas(g, b), k \in DOMAIN Filas(g, c) :
    Filas(g, b)[i].efecto = Silencio /\ Filas(g, c)[k].cliente = Filas(g, b)[i].cliente => b = c /\ i = k
Entregable(g) ==
  /\ \A b \in DOMAIN g :
       /\ IsTable(Filas(g, b))
       /\ \A i \in DOMAIN Filas(g, b) : PromesaBien(Filas(g, b)[i]) /\ Validada(b, Filas(g, b)[i])
  /\ UnaSola(g)

\* export_valid_promesas dates every promise again, on the day it runs.
LEMMA ExportIsDeliverable ==
  ASSUME NEW files, \A b \in P!Banks : SonGestiones(files[b]), NEW hoy \in Nat
  PROVE  Entregable(P!Export(files, hoy))
<1> DEFINE g == P!Export(files, hoy)
           U(b) == P!UnaPorCliente(P!Validas(files, b))
<1>1. \A b \in DOMAIN g : b \in P!Banks /\ Filas(g, b) = [i \in DOMAIN U(b) |-> P!ConFechaDeHoy(U(b)[i], hoy)]
  BY DEF P!Export, P!MapRows, Filas
<1> HIDE DEF g
<1>2. ASSUME NEW b \in DOMAIN g
      PROVE  /\ IsTable(Filas(g, b)) /\ DOMAIN Filas(g, b) = DOMAIN U(b)
             /\ \A i \in DOMAIN U(b) : /\ PromesaBien(Filas(g, b)[i]) /\ Validada(b, Filas(g, b)[i])
                                       /\ Filas(g, b)[i].efecto # Silencio
  <2> DEFINE valid == P!Validas(files, b)
  <2>1. /\ SonGestiones(valid)
        /\ \A i \in DOMAIN valid : valid[i].efecto \in P!Simple \cup {P!Promise} /\ Validada(b, valid[i])
    BY <1>1, ValidRowsAreManagements
  <2> HIDE DEF valid
  <2>2. IsTable(U(b)) /\ \A k \in DOMAIN U(b) : \E i \in DOMAIN valid : U(b)[k] = valid[i]
    BY <2>1, ElegidasAreRows DEF SonGestiones, valid
  <2>3. \A k \in DOMAIN U(b) : /\ EsGestion(U(b)[k]) /\ U(b)[k].efecto \in P!Simple \cup {P!Promise}
                               /\ Validada(b, U(b)[k])
    BY <2>1, <2>2 DEF SonGestiones
  <2> DEFINE u == U(b)
             new == [i \in DOMAIN u |-> P!ConFechaDeHoy(u[i], hoy)]
  <2>4. Filas(g, b) = new
    BY <1>1
  <2> HIDE DEF u
  <2>5. IsTable(new) /\ DOMAIN new = DOMAIN u
    BY <2>2, MappedTable DEF u
  <2>6. ASSUME NEW i \in DOMAIN u
        PROVE  PromesaBien(new[i]) /\ Validada(b, new[i]) /\ new[i].efecto # Silencio
    <3> DEFINE r == u[i]
    <3>1. EsGestion(r) /\ r.efecto \in P!Simple \cup {P!Promise} /\ Validada(b, r)
      BY <2>3 DEF u
    <3>2. new[i] = P!ConFechaDeHoy(r, hoy)
      OBVIOUS
    <3> HIDE DEF r, new
    <3>3. /\ new[i].efecto = r.efecto /\ new[i].alta = hoy
          /\ r.efecto = P!Promise => new[i].fecha = P!ValidarFecha(r.fecha, hoy)
          /\ new[i].monto = r.monto /\ new[i].suc = r.suc
          /\ new[i].producto = r.producto /\ new[i].tipo = r.tipo
      BY <3>1, <3>2 DEF P!ConFechaDeHoy, EsGestion, Columnas
    <3>4. r.efecto # Silencio
      BY <3>1 DEF P!Simple, P!Promise, Silencio
    <3>5. CASE r.fecha = P!NoDate
      <4>1. P!ValidarFecha(r.fecha, hoy) = P!NoDate
        BY <3>5 DEF P!ValidarFecha
      <4>2. ~(P!FileName(b) = b /\ r.efecto = P!Promise)
        BY <3>1, <3>5 DEF Validada, P!PromesaInvalida
      <4>3. QED
        BY <3>3, <3>4, <4>1, <4>2 DEF PromesaBien, Validada
    <3>6. CASE r.fecha # P!NoDate
      <4>1. /\ P!ValidarFecha(r.fecha, hoy) \in hoy..(hoy + 9)
            /\ P!Habil(P!ValidarFecha(r.fecha, hoy))
        BY <3>1, <3>6, PromiseDatesWork DEF EsGestion
      <4>2. Validada(b, new[i])
        <5> SUFFICES ASSUME P!FileName(b) = b, r.efecto = P!Promise
                     PROVE  ~P!PromesaInvalida(new[i])
          BY <3>3 DEF Validada
        <5>1. ~P!PromesaInvalida(r)
          BY <3>1 DEF Validada
        <5>2. new[i].fecha \in hoy..(hoy + 9) /\ new[i].alta = hoy
          BY <3>3, <4>1
        <5>3. new[i].fecha # P!NoDate /\ new[i].alta # P!NoDate /\ ~(new[i].fecha < new[i].alta)
          BY <5>2 DEF P!NoDate
        <5>4. QED
          BY <3>3, <5>1, <5>3 DEF P!PromesaInvalida
      <4>3. QED
        BY <3>3, <3>4, <4>1, <4>2 DEF PromesaBien
    <3>7. QED
      BY <3>5, <3>6
  <2>7. QED
    BY <2>4, <2>5, <2>6 DEF u
<1>3. UnaSola(g)
  BY <1>2 DEF UnaSola
<1>4. QED
  BY <1>2, <1>3 DEF Entregable, g

\* _append_tipification_to_gestiones, of clients who are in no file, each once.
LEMMA AppendingKeepsDeliverable ==
  ASSUME NEW g, Entregable(g), NEW nuevos, IsTable(nuevos), NEW hoy,
         \A k \in DOMAIN nuevos : nuevos[k].cliente \notin P!Existentes(g),
         \A k, l \in DOMAIN nuevos : nuevos[k].cliente = nuevos[l].cliente => k = l
  PROVE  Entregable(P!Agregar(g, nuevos, hoy))
<1> DEFINE h == P!Agregar(g, nuevos, hoy)
           At(b) == {i \in DOMAIN nuevos : nuevos[i].banco = b}
           Of(b) == RowsAt(nuevos, At(b))
           New(b) == [k \in DOMAIN Of(b) |-> P!SinRespuesta(Of(b)[k], hoy)]
           Old(b) == IF b \in DOMAIN g THEN Filas(g, b) ELSE <<>>
<1>1. \A b \in DOMAIN h : Filas(h, b) = Old(b) \o New(b)
  BY DEF P!Agregar, P!MapRows, P!RowsWith, P!RowsAt, RowsAt, P!Cardinality, Cardinality, Filas
<1>2. ASSUME NEW b
      PROVE  /\ IsTable(New(b))
             /\ \A i \in DOMAIN New(b) :
                  /\ \E n \in DOMAIN nuevos : New(b)[i].cliente = nuevos[n].cliente /\ nuevos[n].banco = b
                  /\ New(b)[i].efecto = Silencio
             /\ \A i, k \in DOMAIN New(b) : New(b)[i].cliente = New(b)[k].cliente => i = k
  <2> DEFINE at == At(b)  of == RowsAt(nuevos, at)  new == [k \in DOMAIN of |-> P!SinRespuesta(of[k], hoy)]
             key == [n \in DOMAIN nuevos |-> nuevos[n].cliente]
  <2>1. at \in SUBSET DOMAIN nuevos /\ (\A n \in at : nuevos[n].banco = b)
        /\ \A i, k \in at : key[i] = key[k] => i = k
    OBVIOUS
  <2> HIDE DEF at, key
  <2>2. IsTable(of)
    BY <2>1, RowsAtAreRows
  <2>3. PICK f \in [DOMAIN of -> at] :
           /\ \A k \in DOMAIN of : of[k] = nuevos[f[k]]
           /\ \A k, l \in DOMAIN of : key[f[k]] = key[f[l]] => k = l
    BY <2>1, KeysOfRowsAt
  <2> HIDE DEF of
  <2>4. IsTable(new) /\ DOMAIN new = DOMAIN of
    BY <2>2, MappedTable
  <2>5. \A k \in DOMAIN of : new[k].cliente = nuevos[f[k]].cliente /\ new[k].efecto = Silencio
                             /\ f[k] \in DOMAIN nuevos /\ nuevos[f[k]].banco = b
    BY <2>1, <2>3 DEF P!SinRespuesta, Silencio
  <2>6. \A k, l \in DOMAIN of : new[k].cliente = new[l].cliente => k = l
    <3>1. \A k \in DOMAIN of : key[f[k]] = nuevos[f[k]].cliente
      BY <2>5 DEF key
    <3> HIDE DEF new
    <3>2. QED
      BY <2>3, <2>5, <3>1
  <2> HIDE DEF new
  <2>7. New(b) = new
    BY DEF new, of, at
  <2> HIDE DEF New
  <2>8. QED
    BY <2>4, <2>5, <2>6, <2>7
<1>3. ASSUME NEW b
      PROVE  /\ IsTable(Old(b))
             /\ \A i \in DOMAIN Old(b) : b \in DOMAIN g /\ Old(b)[i] = Filas(g, b)[i] /\ i \in DOMAIN Filas(g, b)
  <2>1. CASE b \in DOMAIN g
    BY <2>1 DEF Entregable
  <2>2. CASE b \notin DOMAIN g
    <3>1. <<>> = [i \in 1..0 |-> <<>>[i]] /\ 0 \in Nat /\ 1..0 = {}
      OBVIOUS
    <3>2. IsTable(<<>>) /\ DOMAIN <<>> = {}
      BY <3>1, TableIntro
    <3>3. QED
      BY <2>2, <3>2
  <2>3. QED
    BY <2>1, <2>2
<1>4. \A b \in DOMAIN g : \A i \in DOMAIN Filas(g, b) : Filas(g, b)[i].cliente \in P!Existentes(g)
  BY DEF P!Existentes, Filas
<1> HIDE DEF h, Old, New, At, Of
<1>5. ASSUME NEW b \in DOMAIN h
      PROVE  /\ IsTable(Filas(h, b))
             /\ \A i \in DOMAIN Filas(h, b) :
                  \/ /\ b \in DOMAIN g /\ i \in DOMAIN Filas(g, b)
                     /\ Filas(h, b)[i] = Filas(g, b)[i]
                  \/ \E k \in DOMAIN New(b) : i = Len(Old(b)) + k /\ Filas(h, b)[i] = New(b)[k]
  <2> DEFINE a == Old(b)  c == New(b)
  <2> HIDE DEF a, c
  <2>1. IsTable(a) /\ IsTable(c)
    BY <1>2, <1>3 DEF a, c
  <2>2. /\ IsTable(a \o c)
        /\ \A k \in DOMAIN (a \o c) :
              \/ k \in DOMAIN a /\ (a \o c)[k] = a[k]
              \/ \E j \in DOMAIN c : k = Len(a) + j /\ (a \o c)[k] = c[j]
    BY ONLY <2>1, ConcatOfTables
  <2>3. Filas(h, b) = a \o c
    BY <1>1 DEF a, c
  <2>4. QED
    BY <1>3, <2>2, <2>3 DEF a, c
<1>6. ASSUME NEW b \in DOMAIN h, NEW i \in DOMAIN Filas(h, b)
      PROVE  PromesaBien(Filas(h, b)[i]) /\ Validada(b, Filas(h, b)[i])
  <2>1. CASE b \in DOMAIN g /\ i \in DOMAIN Filas(g, b) /\ Filas(h, b)[i] = Filas(g, b)[i]
    BY <2>1 DEF Entregable
  <2>2. CASE \E k \in DOMAIN New(b) : i = Len(Old(b)) + k /\ Filas(h, b)[i] = New(b)[k]
    <3>1. Filas(h, b)[i].efecto # P!Promise
      BY <1>2, <2>2 DEF Silencio, P!Promise
    <3>2. QED
      BY <3>1 DEF PromesaBien, Validada
  <2>3. QED
    BY <1>5, <2>1, <2>2
<1>7. UnaSola(h)
  <2> SUFFICES ASSUME NEW b \in DOMAIN h, NEW c \in DOMAIN h,
                      NEW i \in DOMAIN Filas(h, b), NEW k \in DOMAIN Filas(h, c),
                      Filas(h, b)[i].efecto = Silencio,
                      Filas(h, c)[k].cliente = Filas(h, b)[i].cliente
               PROVE  b = c /\ i = k
    BY DEF UnaSola
  <2> DEFINE OldAt(d, n) == d \in DOMAIN g /\ n \in DOMAIN Filas(g, d) /\ Filas(h, d)[n] = Filas(g, d)[n]
             NewAt(d, n) == \E m \in DOMAIN New(d) : n = Len(Old(d)) + m /\ Filas(h, d)[n] = New(d)[m]
  <2>1. (OldAt(b, i) \/ NewAt(b, i)) /\ (OldAt(c, k) \/ NewAt(c, k))
    BY <1>5
  <2>2. CASE OldAt(b, i) /\ OldAt(c, k)
    BY <2>2 DEF Entregable, UnaSola
  <2>3. ASSUME NEW d \in DOMAIN h, NEW n, OldAt(d, n)
        PROVE  Filas(h, d)[n].cliente \in P!Existentes(g)
    BY <1>4, <2>3
  <2>4. ASSUME NEW d \in DOMAIN h, NEW n, NewAt(d, n)
        PROVE  Filas(h, d)[n].cliente \notin P!Existentes(g)
    BY <1>2, <2>4
  <2>5. CASE NewAt(b, i) /\ NewAt(c, k)
    <3>1. PICK m \in DOMAIN New(b) : i = Len(Old(b)) + m /\ Filas(h, b)[i] = New(b)[m]
      BY <2>5
    <3>2. PICK n \in DOMAIN New(c) : k = Len(Old(c)) + n /\ Filas(h, c)[k] = New(c)[n]
      BY <2>5
    <3>3. New(b)[m].cliente = New(c)[n].cliente
      BY <3>1, <3>2
    <3>4. b = c
      BY <1>2, <3>3
    <3>5. m = n
      BY <1>2, <3>3, <3>4
    <3>6. QED
      BY <3>1, <3>2, <3>4, <3>5
  <2>6. QED
    BY <2>1, <2>2, <2>3, <2>4, <2>5
<1>8. QED
  BY SMTT(30), <1>5, <1>6, <1>7 DEF Entregable, h

\* run_approach_merge_and_tipify and run_tipify_excluded.
LEMMA TipificarKeepsDeliverable ==
  ASSUME NEW g, Entregable(g), NEW clients, IsTable(clients), NEW hoy
  PROVE  Entregable(P!Tipificar(g, clients, hoy))
<1> DEFINE first == {i \in DOMAIN clients : \A j \in 1..(i - 1) : clients[j].cliente # clients[i].cliente}
           uno == RowsAt(clients, first)
           nuevo == {i \in DOMAIN uno :
                       /\ uno[i].cliente \notin P!Existentes(g) \cup {P!NoClient}
                       /\ uno[i].banco \in P!Banks}
           nuevos == RowsAt(uno, nuevo)
           key == [i \in DOMAIN clients |-> clients[i].cliente]
           once == [i \in DOMAIN uno |-> uno[i].cliente]
<1>1. P!Tipificar(g, clients, hoy) = P!Agregar(g, nuevos, hoy)
  BY DEF P!Tipificar, P!KeepFirst, P!RowsWith, P!RowsAt, RowsAt, P!Cardinality, Cardinality
<1>2. first \in SUBSET DOMAIN clients /\ \A i, j \in first : key[i] = key[j] => i = j
  <2>1. DOMAIN clients \in SUBSET Nat /\ DOMAIN clients = 1..Len(clients)
    BY TableShape
  <2>2. ASSUME NEW i \in first, NEW j \in first, i < j PROVE key[i] # key[j]
    BY <2>1, <2>2
  <2>3. QED
    BY <2>1, <2>2
<1> HIDE DEF first, key
<1>3. IsTable(uno) /\ \A k, l \in DOMAIN uno : once[k] = once[l] => k = l
  <2>1. IsTable(uno)
    BY <1>2, RowsAtAreRows
  <2>2. PICK f \in [DOMAIN uno -> first] :
           /\ \A k \in DOMAIN uno : uno[k] = clients[f[k]]
           /\ \A k, l \in DOMAIN uno : key[f[k]] = key[f[l]] => k = l
    BY <1>2, KeysOfRowsAt
  <2> HIDE DEF uno
  <2>3. \A k \in DOMAIN uno : key[f[k]] = once[k]
    BY <1>2, <2>2 DEF key
  <2>4. QED
    BY <2>1, <2>2, <2>3
<1> HIDE DEF uno
<1>4. /\ nuevo \in SUBSET DOMAIN uno /\ \A i, j \in nuevo : once[i] = once[j] => i = j
      /\ \A i \in nuevo : uno[i].cliente \notin P!Existentes(g)
  BY <1>3
<1> HIDE DEF nuevo
<1>5. /\ IsTable(nuevos)
      /\ \A k \in DOMAIN nuevos : nuevos[k].cliente \notin P!Existentes(g)
      /\ \A k, l \in DOMAIN nuevos : nuevos[k].cliente = nuevos[l].cliente => k = l
  <2>1. IsTable(nuevos)
    BY <1>3, <1>4, RowsAtAreRows
  <2> HIDE DEF once
  <2>2. PICK f \in [DOMAIN nuevos -> nuevo] :
           /\ \A k \in DOMAIN nuevos : nuevos[k] = uno[f[k]]
           /\ \A k, l \in DOMAIN nuevos : once[f[k]] = once[f[l]] => k = l
    BY <1>3, <1>4, KeysOfRowsAt
  <2> HIDE DEF nuevos
  <2>3. \A k \in DOMAIN nuevos : once[f[k]] = nuevos[k].cliente
    BY <1>4, <2>2 DEF once
  <2>4. QED
    BY <1>4, <2>1, <2>2, <2>3
<1> HIDE DEF nuevos
<1>6. QED
  BY <1>1, <1>5, AppendingKeepsDeliverable

-----------------------------------------------------------------------------
(* Petersen: the delivery *)

\* What the folder holds at each step of the job.
PetersenInv ==
  job = "petersen" =>
    /\ dia \in Nat
    /\ codigo \in {Running, "ok", "error"}
    /\ codigo = Running /\ paso = "exportar" => \A b \in P!Banks : SonGestiones(Rows("gestiones")[b])
    /\ codigo = Running /\ paso \in {"approach", "excluidos", "zip"} =>
         "validas" \in DOMAIN carpeta /\ Entregable(Rows("validas"))
    /\ codigo = "ok" =>
         \E g : Entregable(g) /\ DOMAIN g = P!Banks /\ Entregado("zip") = P!ZipFile(g)

EntradaPosible == job \in DOMAIN Entradas /\ entrada \in Entradas[job] /\ dia \in Nat

LEMMA EntradaInv ==
  /\ Init => EntradaPosible
  /\ EntradaPosible /\ [Next]_vars => EntradaPosible'
<1>1. Init => EntradaPosible
  BY DiasAssumption DEF Init, EntradaPosible
<1>2. ASSUME EntradaPosible, [Next]_vars PROVE EntradaPosible'
  <2>1. CASE Next
    <3>1. UNCHANGED <<job, entrada>>
      BY <2>1, StepsOfAJob
    <3>2. dia \in Nat /\ (Fija \/ Cancela => dia' = dia) /\ (Medianoche => dia' = dia + 1)
      BY <1>2 DEF EntradaPosible, Fija, Cancela, Medianoche
    <3>3. Fija \/ Cancela \/ Medianoche => dia' \in Nat
      BY <3>2
    <3>4. dia' \in Nat
      BY <2>1, <3>3, StepsOfTheBases, StepsOfTheResults DEF Next
    <3>5. QED
      BY <1>2, <3>1, <3>4 DEF EntradaPosible
  <2>2. CASE UNCHANGED vars
    BY <1>2, <2>2 DEF vars, EntradaPosible
  <2>3. QED
    BY <1>2, <2>1, <2>2
<1>3. QED
  BY <1>1, <1>2

LEMMA NobodyAnsweredIsATable ==
  ASSUME NEW approach, IsTable(approach), NEW base
  PROVE  IsTable(P!NoRespondieron(approach, base))
<1> DEFINE at == {i \in DOMAIN approach : approach[i].result # 10}
           calls == RowsAt(approach, at)
           found == [i \in DOMAIN calls |-> P!ClienteDe(base, calls[i].phone)]
<1>1. P!NoRespondieron(approach, base) = FlattenSeq(found)
  BY DEF P!NoRespondieron, P!MapRows, P!RowsWith, P!RowsAt, RowsAt, P!Cardinality, Cardinality,
         P!FlattenSeq, FlattenSeq
<1>2. IsTable(calls)
  <2>1. at \in SUBSET DOMAIN approach
    OBVIOUS
  <2> HIDE DEF at
  <2>2. QED
    BY <2>1, RowsAtAreRows
<1> HIDE DEF calls
<1>3. IsTable(found) /\ DOMAIN found = DOMAIN calls
  BY <1>2, MappedTable
<1>4. ASSUME NEW i \in DOMAIN calls PROVE IsTable(found[i])
  <2> DEFINE rows == {k \in DOMAIN base : calls[i].phone \in base[k].tels /\ base[k].cliente # P!NoClient}
             one == <<base[P!Min(rows)]>>
  <2>1. found[i] = IF rows = {} THEN <<>> ELSE one
    BY DEF P!ClienteDe
  <2> HIDE DEF rows, found
  <2>2. <<>> = [k \in 1..0 |-> <<>>[k]] /\ one = [k \in 1..1 |-> one[k]] /\ 0 \in Nat /\ 1 \in Nat
    OBVIOUS
  <2> HIDE DEF one
  <2>3. IsTable(<<>>) /\ IsTable(one)
    BY <2>2, TableIntro
  <2>4. QED
    BY <2>1, <2>3
<1> HIDE DEF found
<1>5. QED
  BY <1>1, <1>3, <1>4, FlattenOfTables

LEMMA EsTablaIsTable == \A rows : EsTabla(rows) = IsTable(rows)
BY DEF EsTabla, IsTable, Range

LEMMA PetersenInvNext ==
  ASSUME EntradaPosible, PetersenInv, [Next]_vars
  PROVE  PetersenInv'
<1> SUFFICES ASSUME job' = "petersen" PROVE PetersenInv'
  BY DEF PetersenInv
<1>1. CASE UNCHANGED vars
  BY <1>1 DEF vars, PetersenInv, Rows, Entregado
<1>2. CASE Next
  <2>1. job = "petersen" /\ UNCHANGED <<job, entrada>>
    BY <1>2, StepsOfAJob
  <2>2. /\ IsTable(entrada.roman) /\ IsTable(entrada.llamadas) /\ IsTable(entrada.excluidos)
        /\ \A i \in DOMAIN entrada.roman : entrada.roman[i].fecha \in Int
    BY <2>1, EntradasAssumption, EsTablaIsTable DEF EntradaPosible, EsEntrada
  <2>3. dia \in Nat /\ dia' \in Nat
    BY <1>2, EntradaInv DEF EntradaPosible
  <2>4. CASE Medianoche
    BY <2>1, <2>3, <2>4 DEF Medianoche, PetersenInv, Rows, Entregado
  <2>5. CASE PetersenTipif
    <3> DEFINE g == P!GenerateTipif(entrada.roman, entrada.alta, dia, FALSE)
    <3>1. carpeta' = Con([gestiones |-> Hoy(g)]) /\ paso' = "exportar" /\ codigo' = Running
      BY <2>5 DEF PetersenTipif, Sigue, En
    <3>2. \A b \in P!Banks : SonGestiones(g[b])
      BY <2>2, <2>3, TipifMakesManagements
    <3> HIDE DEF g
    <3>3. carpeta'["gestiones"].rows = g
      BY <3>1 DEF Con, Hoy
    <3>4. QED
      BY <2>3, <3>1, <3>2, <3>3 DEF PetersenInv, Rows, Running
  <2>6. CASE PetersenExporta
    <3> DEFINE g == P!Export(Rows("gestiones"), dia)
    <3>1. CASE Falla
      BY <2>3, <3>1 DEF Falla, PetersenInv, Running
    <3>2. CASE ~Falla
      <4>1. carpeta' = Con([validas |-> Hoy(g)]) /\ paso' = "approach" /\ codigo' = Running
        BY <2>6, <3>2 DEF PetersenExporta, Sigue, En
      <4>2. codigo = Running /\ paso = "exportar"
        BY <2>6 DEF PetersenExporta, En
      <4>3. Entregable(g)
        BY <2>1, <2>3, <4>2, ExportIsDeliverable DEF PetersenInv
      <4> HIDE DEF g
      <4>4. "validas" \in DOMAIN carpeta' /\ carpeta'["validas"].rows = g
        BY <4>1 DEF Con, Hoy
      <4>5. QED
        BY <2>3, <4>1, <4>3, <4>4 DEF PetersenInv, Rows, Running
    <3>3. QED
      BY <3>1, <3>2
  <2>7. ASSUME NEW clients, IsTable(clients), codigo = Running, paso \in {"approach", "excluidos"},
               carpeta' = Con([validas |-> Hoy(P!Tipificar(Rows("validas"), clients, dia))]),
               paso' \in {"excluidos", "zip"}, codigo' = Running
        PROVE  PetersenInv'
    <3> DEFINE g == P!Tipificar(Rows("validas"), clients, dia)
    <3>1. Entregable(Rows("validas"))
      BY <2>1, <2>7 DEF PetersenInv
    <3>2. Entregable(g)
      BY <2>7, <3>1, TipificarKeepsDeliverable
    <3> HIDE DEF g
    <3>3. "validas" \in DOMAIN carpeta' /\ carpeta'["validas"].rows = g
      BY <2>7 DEF Con, Hoy, g
    <3>4. QED
      BY <2>3, <2>7, <3>2, <3>3 DEF PetersenInv, Rows, Running
  <2>8. ASSUME codigo = Running, paso \in {"approach", "excluidos"}, Sin(paso'), paso' \in {"excluidos", "zip"}
        PROVE  PetersenInv'
    <3>1. carpeta' = [f \in DOMAIN carpeta |-> carpeta[f]] /\ codigo' = Running
      <4>1. carpeta' = Con(<<>>) /\ codigo' = Running
        BY <2>8 DEF Sin, Sigue
      <4>2. QED
        BY <4>1 DEF Con
    <3>2. "validas" \in DOMAIN carpeta /\ Entregable(Rows("validas"))
      BY <2>1, <2>8 DEF PetersenInv
    <3>3. "validas" \in DOMAIN carpeta' /\ carpeta'["validas"].rows = Rows("validas")
      BY <3>1, <3>2 DEF Rows
    <3>4. QED
      BY <2>3, <2>8, <3>1, <3>2, <3>3 DEF PetersenInv, Rows, Running
  <2>9. CASE PetersenApproach
    <3>1. codigo = Running /\ paso = "approach"
      BY <2>9 DEF PetersenApproach, En
    <3>2. CASE Sin("excluidos")
      <4>1. paso' = "excluidos"
        BY <3>2 DEF Sin, Sigue
      <4>2. QED
        BY <2>8, <3>1, <3>2, <4>1
    <3>3. CASE Falla
      BY <2>3, <3>3 DEF Falla, PetersenInv, Running
    <3>4. CASE Agrega(P!NoRespondieron(entrada.llamadas, entrada.base), "excluidos")
      <4>1. IsTable(P!NoRespondieron(entrada.llamadas, entrada.base))
        BY <2>2, NobodyAnsweredIsATable
      <4>2. QED
        BY <2>7, <3>1, <3>4, <4>1 DEF Agrega, Sigue
    <3>5. QED
      BY <2>9, <3>2, <3>3, <3>4 DEF PetersenApproach
  <2>10. CASE PetersenExcluidos
    <3>1. codigo = Running /\ paso = "excluidos"
      BY <2>10 DEF PetersenExcluidos, En
    <3>2. CASE entrada.excluidos = <<>>
      <4>1. Sin("zip") /\ paso' = "zip"
        BY <2>10, <3>2 DEF PetersenExcluidos, Sin, Sigue
      <4>2. QED
        BY <2>8, <3>1, <4>1
    <3>3. CASE entrada.excluidos # <<>>
      <4> DEFINE at == {i \in DOMAIN entrada.excluidos : entrada.excluidos[i].cliente # P!NoClient}
                 clients == RowsAt(entrada.excluidos, at)
      <4>1. P!TipificarExcluidos(Rows("validas"), entrada.excluidos, dia)
              = P!Tipificar(Rows("validas"), clients, dia)
        BY DEF P!TipificarExcluidos, P!RowsWith, P!RowsAt, RowsAt, P!Cardinality, Cardinality
      <4>2. IsTable(clients)
        <5>1. at \in SUBSET DOMAIN entrada.excluidos
          OBVIOUS
        <5> HIDE DEF at
        <5>2. QED
          BY <2>2, <5>1, RowsAtAreRows
      <4> HIDE DEF clients
      <4>3. QED
        BY <2>7, <2>10, <3>1, <3>3, <4>1, <4>2 DEF PetersenExcluidos, Sigue
    <3>4. QED
      BY <3>2, <3>3
  <2>11. CASE PetersenZip
    <3> DEFINE g == Rows("validas")
    <3>1. CASE Falla
      BY <2>3, <3>1 DEF Falla, PetersenInv, Running
    <3>2. CASE ~Falla
      <4>1. /\ P!Completo(g) /\ carpeta' = Con([zip |-> Hoy(P!ZipFile(g))]) /\ codigo' = "ok"
            /\ salida' = [f \in {"zip"} \cap DOMAIN carpeta' |-> carpeta'[f]]
        BY <2>11, <3>2 DEF PetersenZip, Entrega, Publica
      <4>2. codigo = Running /\ paso = "zip"
        BY <2>11 DEF PetersenZip, En
      <4>3. Entregable(g) /\ DOMAIN g = P!Banks
        BY <2>1, <4>1, <4>2 DEF PetersenInv, P!Completo
      <4> HIDE DEF g
      <4>4. "zip" \in DOMAIN carpeta' /\ carpeta'["zip"].rows = P!ZipFile(g)
        BY <4>1 DEF Con, Hoy
      <4>5. salida'["zip"].rows = P!ZipFile(g)
        BY <4>1, <4>4
      <4>6. \E s : Entregable(s) /\ DOMAIN s = P!Banks /\ salida'["zip"].rows = P!ZipFile(s)
        BY <4>3, <4>5
      <4>7. QED
        BY <2>3, <4>1, <4>6 DEF PetersenInv, Entregado, Running
    <3>3. QED
      BY <3>1, <3>2
  <2>12. QED
    BY <1>2, <2>1, <2>4, <2>5, <2>6, <2>9, <2>10, <2>11, StepsOfAJob
<1>3. QED
  BY <1>1, <1>2

\* A promise that is delivered with a date has a working day, of the ten that start
\* on the day it is reported, however many midnights come between the steps.
THEOREM PromisesAreWorkingDays == Spec => []PromisesHaveWorkingDates
<1>1. Init => PetersenInv
  BY DiasAssumption DEF Init, PetersenInv, Running
<1>2. EntradaPosible /\ PetersenInv => PromisesHaveWorkingDates
  <2> SUFFICES ASSUME PetersenInv, Salio("petersen"), NEW r \in Promesas, r.fecha # P!NoDate
               PROVE  P!Habil(r.fecha) /\ r.fecha \in r.alta..(r.alta + 9)
    BY DEF PromisesHaveWorkingDates
  <2>1. PICK g : Entregable(g) /\ DOMAIN g = P!Banks /\ Entregado("zip") = P!ZipFile(g)
    BY DEF PetersenInv, Salio
  <2>2. \A b \in P!Banks : Entregado("zip")[b] = Filas(g, b)
    BY <2>1 DEF P!ZipFile, Filas
  <2>3. PICK b \in P!Banks : \E i \in DOMAIN Filas(g, b) :
           r = Filas(g, b)[i] /\ Filas(g, b)[i].efecto = P!Promise
    BY <2>2 DEF Promesas
  <2>4. QED
    BY <2>1, <2>3 DEF Entregable, PromesaBien
<1>3. QED
  BY <1>1, <1>2, EntradaInv, PetersenInvNext, PTL DEF Spec

\* A promise that fails the validation is not delivered, but for the bank whose name the
\* two steps write differently, however long the files and whatever comes in between.
THEOREM OnlyValidPromises == Spec => []PromisesAreValidated
<1>1. Init => PetersenInv
  BY DiasAssumption DEF Init, PetersenInv, Running
<1>2. PetersenInv => PromisesAreValidated
  <2> SUFFICES ASSUME PetersenInv, Salio("petersen"),
                      NEW b \in P!Banks, P!FileName(b) = b, NEW i \in DOMAIN Entregado("zip")[b],
                      Entregado("zip")[b][i].efecto = P!Promise
               PROVE  ~P!PromesaInvalida(Entregado("zip")[b][i])
    BY DEF PromisesAreValidated
  <2>1. PICK g : Entregable(g) /\ DOMAIN g = P!Banks /\ Entregado("zip") = P!ZipFile(g)
    BY DEF PetersenInv, Salio
  <2>2. Entregado("zip")[b] = Filas(g, b)
    BY <2>1 DEF P!ZipFile, Filas
  <2>3. QED
    BY <2>1, <2>2 DEF Entregable, Validada
<1>3. QED
  BY <1>1, <1>2, EntradaInv, PetersenInvNext, PTL DEF Spec

\* Who is reported as not answering has no other row in the files of the four banks.
LEMMA SilentInPetersen ==
  ASSUME PetersenInv, Salio("petersen")
  PROVE  LET zip == Entregado("zip")
             places == UNION {{<<b, i>> : i \in DOMAIN zip[b]} : b \in P!Banks}
             Row(p) == zip[p[1]][p[2]]
         IN \A p, q \in places :
              Row(p).efecto = "NO RESPONDE OCUPADO" /\ Row(q).cliente = Row(p).cliente => p = q
<1> DEFINE zip == Entregado("zip")
           places == UNION {{<<b, i>> : i \in DOMAIN zip[b]} : b \in P!Banks}
           Row(p) == zip[p[1]][p[2]]
<1>1. PICK g : Entregable(g) /\ DOMAIN g = P!Banks /\ zip = P!ZipFile(g)
  BY DEF PetersenInv, Salio
<1>2. \A b \in P!Banks : zip[b] = Filas(g, b)
  BY <1>1 DEF P!ZipFile, Filas
<1> HIDE DEF zip
<1>3. ASSUME NEW p \in places, NEW q \in places, Row(p).efecto = "NO RESPONDE OCUPADO",
             Row(q).cliente = Row(p).cliente
      PROVE  p = q
  <2>1. PICK b \in P!Banks : \E i \in DOMAIN zip[b] : p = <<b, i>>
    OBVIOUS
  <2>2. PICK i \in DOMAIN zip[b] : p = <<b, i>>
    BY <2>1
  <2>3. PICK c \in P!Banks : \E k \in DOMAIN zip[c] : q = <<c, k>>
    OBVIOUS
  <2>4. PICK k \in DOMAIN zip[c] : q = <<c, k>>
    BY <2>3
  <2>5. /\ Filas(g, b)[i].efecto = Silencio /\ Filas(g, c)[k].cliente = Filas(g, b)[i].cliente
        /\ i \in DOMAIN Filas(g, b) /\ k \in DOMAIN Filas(g, c)
    BY <1>2, <1>3, <2>2, <2>4 DEF Silencio
  <2>6. b = c /\ i = k
    BY <1>1, <2>5 DEF Entregable, UnaSola
  <2>7. QED
    BY <2>2, <2>4, <2>6
<1>4. QED
  BY <1>3 DEF zip

-----------------------------------------------------------------------------
(* Bancor: the results *)

\* The records of the log are of clients the calls have no record of, but for some
\* calls: those with a CUIL that is not written in its digits.
ApartadosSalvo(records, some) ==
  \A r, q \in records : r.de = "logcall" /\ q.de # "logcall" /\ r.cuit = q.cuit => q.de \in some
DeOtraForma(datos) == {c \in DOMAIN datos : datos[c].cuil # R!Digitos(datos[c].cuil)}

\* The digits of a CUIL are their own digits, and validate as they are.
LEMMA DigitsAreDigits ==
  ASSUME NEW c
  PROVE  /\ R!Digitos(R!Digitos(c)) = R!Digitos(c)
         /\ R!NormalizarCuit(R!Digitos(c)) = R!Digitos(c)
         /\ R!NoCuil = R!Digitos(R!NoCuil)
<1>1. \A n : R!Cuil(n, "").n = n /\ R!Cuil(n, "").form = ""
  BY DEF R!Cuil
<1>2. \A n : R!Digitos(R!Cuil(n, "")) = R!Cuil(n, "")
  BY <1>1 DEF R!Digitos
<1>3. \A n : R!NormalizarCuit(R!Cuil(n, "")) = R!Cuil(n, "")
  BY <1>1, <1>2 DEF R!NormalizarCuit
<1>4. R!Digitos(c) = R!Cuil(c.n, "") /\ R!NoCuil = R!Cuil("", "")
  BY DEF R!Digitos, R!NoCuil
<1>5. QED
  BY <1>2, <1>3, <1>4

LEMMA TheLoadKeepsApart ==
  ASSUME NEW datos, "logcall" \notin DOMAIN datos, NEW log, NEW base
  PROVE  ApartadosSalvo(R!CargaMasiva(datos, log, base), DeOtraForma(datos))
<1> DEFINE mapeados == R!Mapear(datos)
           ya == {r.cuit : r \in mapeados} \ {R!NoCuil}
           delLog == R!Logcall(log, base, ya)
<1>1. \A m \in mapeados :
         /\ {"de", "cuit", "sub"} \subseteq DOMAIN m
         /\ m.de # "logcall" /\ m.de \in DOMAIN datos /\ m.cuit = datos[m.de].cuil
         /\ m.cuit \in ya \cup {R!NoCuil}
  <2>1. ASSUME NEW m \in mapeados
        PROVE  /\ {"de", "cuit", "sub"} \subseteq DOMAIN m
               /\ m.de # "logcall" /\ m.de \in DOMAIN datos /\ m.cuit = datos[m.de].cuil
    <3>1. \E c \in DOMAIN datos : \E estado, sub :
             m = [de |-> c, cuit |-> datos[c].cuil, estado |-> estado, sub |-> sub]
      BY DEF R!Mapear
    <3> HIDE DEF mapeados
    <3>2. QED
      BY <3>1
  <2> HIDE DEF mapeados
  <2>2. QED
    BY <2>1
<1> HIDE DEF ya, mapeados
<1>2. \A l \in delLog :
         /\ l.de = "logcall" /\ {"de", "cuit", "sub"} \subseteq DOMAIN l
         /\ l.cuit \notin ya \cup {R!NoCuil} /\ \E c : l.cuit = R!Digitos(c)
  <2> SUFFICES ASSUME NEW l \in delLog
               PROVE  /\ l.de = "logcall" /\ {"de", "cuit", "sub"} \subseteq DOMAIN l
                      /\ l.cuit \notin ya \cup {R!NoCuil} /\ \E c : l.cuit = R!Digitos(c)
    OBVIOUS
  <2>1. \E i \in DOMAIN log :
          /\ l = [de |-> "logcall", cuit |-> R!Digitos(base[log[i].rec]), estado |-> "E0005", sub |-> R!None]
          /\ R!Digitos(base[log[i].rec]) \notin ya \cup {R!NoCuil}
    BY DEF R!Logcall
  <2> HIDE DEF delLog
  <2>2. PICK i \in DOMAIN log :
          /\ l = [de |-> "logcall", cuit |-> R!Digitos(base[log[i].rec]), estado |-> "E0005", sub |-> R!None]
          /\ R!Digitos(base[log[i].rec]) \notin ya \cup {R!NoCuil}
    BY <2>1
  <2>3. l.de = "logcall" /\ l.cuit = R!Digitos(base[log[i].rec])
    BY <2>2
  <2>4. DOMAIN l = {"de", "cuit", "estado", "sub"}
    BY <2>2
  <2>5. QED
    BY <2>2, <2>3, <2>4
<1> HIDE DEF delLog
<1> DEFINE todos == IF mapeados = {} THEN {} ELSE mapeados \cup delLog
           validos == {q \in todos : R!ValidarRegistro(q)}
<1>3. R!CargaMasiva(datos, log, base) = {R!NormalizarRegistro(r) : r \in validos}
  BY DEF R!CargaMasiva, delLog, ya, mapeados
<1>4. \A q \in validos : q \in mapeados \/ q \in delLog
  OBVIOUS
<1> HIDE DEF validos
<1>5. ASSUME NEW q \in validos
      PROVE  R!NormalizarRegistro(q).de = q.de /\ R!NormalizarRegistro(q).cuit = R!NormalizarCuit(q.cuit)
  <2>1. {"de", "cuit", "sub"} \subseteq DOMAIN q
    BY <1>1, <1>2, <1>4
  <2>2. QED
    BY <2>1 DEF R!NormalizarRegistro
<1>6. ASSUME NEW r \in validos, NEW q \in validos, r.de = "logcall", q.de # "logcall",
             q.de \notin DeOtraForma(datos)
      PROVE  R!NormalizarCuit(r.cuit) # R!NormalizarCuit(q.cuit)
  <2>1. r \in delLog /\ q \in mapeados
    BY <1>1, <1>2, <1>4, <1>6
  <2>2. r.cuit \notin ya \cup {R!NoCuil} /\ q.cuit \in ya \cup {R!NoCuil}
    BY <1>1, <1>2, <2>1
  <2>3. R!NormalizarCuit(r.cuit) = r.cuit
    BY <1>2, <2>1, DigitsAreDigits
  <2>4. q.cuit = R!Digitos(q.cuit)
    BY <1>1, <1>6, <2>1 DEF DeOtraForma
  <2>5. R!NormalizarCuit(q.cuit) = q.cuit
    BY <2>4, DigitsAreDigits
  <2>6. QED
    BY <2>2, <2>3, <2>5
<1>7. QED
  BY <1>3, <1>5, <1>6 DEF ApartadosSalvo

\* The history and the corrections of ROMAN keep the calls of the export.
LEMMA CallsOfBancor ==
  ASSUME NEW calls, NEW api, NEW roman
  PROVE  LET retell == R!ObtenerRetell(calls, api)
         IN /\ DOMAIN retell = Range(calls) \ {R!NaN}
            /\ DOMAIN Corregidas(retell, roman) = DOMAIN retell
            /\ DOMAIN R!Gestiones(retell, roman) = DOMAIN retell
<1> DEFINE retell == R!ObtenerRetell(calls, api)
<1>1. DOMAIN retell = Range(calls) \ {R!NaN}
  BY DEF R!ObtenerRetell, R!Range, Range
<1> HIDE DEF retell
<1>2. DOMAIN R!Merge(retell, roman) = DOMAIN retell
  BY DEF R!Merge
<1>3. DOMAIN Corregidas(retell, roman) = DOMAIN retell
  BY <1>2 DEF Corregidas
<1>4. DOMAIN R!Gestiones(retell, roman) = DOMAIN retell
  <2> DEFINE merged == R!Merge(retell, roman)
             datos == IF roman # <<>> /\ R!ValidarMerge(retell, merged) THEN merged ELSE retell
  <2>1. DOMAIN R!Gestiones(retell, roman) = DOMAIN datos
    BY DEF R!Gestiones
  <2> HIDE DEF merged
  <2>2. QED
    BY <1>2, <2>1 DEF merged
<1>5. QED
  BY <1>1, <1>3, <1>4 DEF retell

\* The corrections of ROMAN leave the CUIL of a call as Retell has it.
ConOtraForma(calls, api) == {c \in Range(calls) \ {R!NaN} : api[c] # <<>> /\ api[c][1].cuil.form # ""}
LEMMA ClientsOfTheCalls ==
  ASSUME NEW calls, NEW api, NEW roman, \A c \in Range(calls) \ {R!NaN} : EsRespuesta(api[c])
  PROVE  DeOtraForma(Corregidas(R!ObtenerRetell(calls, api), roman)) \subseteq ConOtraForma(calls, api)
<1> DEFINE retell == R!ObtenerRetell(calls, api)  datos == Corregidas(retell, roman)
<1>1. ASSUME NEW c \in DOMAIN datos
      PROVE  c \in Range(calls) \ {R!NaN} /\ retell[c] = IF api[c] = <<>> THEN R!SinDatos ELSE api[c][1]
  <2>1. c \in DOMAIN retell /\ DOMAIN retell = Range(calls) \ {R!NaN}
    BY CallsOfBancor
  <2>2. QED
    BY <2>1 DEF R!ObtenerRetell
<1> HIDE DEF retell
<1>2. DOMAIN datos = DOMAIN retell
  BY DEF Corregidas, R!Merge
<1>3. ASSUME NEW c \in DOMAIN datos PROVE datos[c].cuil = retell[c].cuil
  <2> DEFINE call == retell[c]
  <2>1. "cuil" \in DOMAIN call
    BY <1>1 DEF R!SinDatos, EsRespuesta
  <2>2. datos[c] = call \/ datos[c] = R!MergeCall(call, roman[c])
    BY <1>2 DEF Corregidas, R!Merge
  <2> HIDE DEF call
  <2>3. "cuil" \notin R!Campos
    BY DEF R!Campos
  <2>4. R!MergeCall(call, roman[c])["cuil"] = call["cuil"]
    BY <2>1, <2>3 DEF R!MergeCall
  <2>5. datos[c]["cuil"] = call["cuil"]
    BY <2>2, <2>4
  <2>6. QED
    BY <2>5 DEF call
<1>4. ASSUME NEW c \in DOMAIN datos, datos[c].cuil # R!Digitos(datos[c].cuil)
      PROVE  c \in ConOtraForma(calls, api)
  <2> DEFINE cuil == retell[c].cuil
  <2>1. cuil # R!Digitos(cuil)
    BY <1>3, <1>4
  <2>2. api[c] # <<>>
    <3>1. CASE api[c] = <<>>
      <4>1. cuil = R!NoCuil
        BY <1>1, <3>1 DEF R!SinDatos
      <4> HIDE DEF cuil
      <4>2. QED
        BY <2>1, <4>1, DigitsAreDigits
    <3>2. QED
      BY <3>1
  <2>3. cuil = api[c][1].cuil /\ cuil = R!Cuil(cuil.n, cuil.form)
    BY <1>1, <2>2 DEF EsRespuesta
  <2> HIDE DEF cuil
  <2>4. cuil.form # ""
    BY <2>1, <2>3 DEF R!Digitos
  <2>5. QED
    BY <1>1, <2>2, <2>3, <2>4 DEF ConOtraForma
<1> HIDE DEF datos
<1>5. DeOtraForma(datos) \subseteq ConOtraForma(calls, api)
  BY <1>4 DEF DeOtraForma
<1>6. QED
  BY <1>5 DEF datos, retell

\* The CUILs of the pipeline that takes ROMAN alone are digits.
LEMMA CallsOfRoman ==
  ASSUME NEW df, \A i \in DOMAIN df : df[i].id # "logcall"
  PROVE  LET datos == R!Completar(df, R!ObtenerRoman(df))
         IN "logcall" \notin DOMAIN datos /\ DeOtraForma(datos) = {}
<1>1. DOMAIN R!Completar(df, R!ObtenerRoman(df)) = DOMAIN R!ObtenerRoman(df)
  BY DEF R!Completar
<1>5. DeOtraForma(R!Completar(df, R!ObtenerRoman(df))) = {}
  <2> DEFINE datos == R!Completar(df, R!ObtenerRoman(df))
  <2>1. \A c \in DOMAIN datos : \E x : datos[c].cuil = R!Digitos(x)
    <3>1. \A c \in DOMAIN datos : datos[c].cuil = R!NoCuil \/ \E x : datos[c].cuil = R!Digitos(x)
      BY DEF R!Completar
    <3> HIDE DEF datos
    <3>2. QED
      BY <3>1, DigitsAreDigits
  <2> HIDE DEF datos
  <2>2. \A c \in DOMAIN datos : datos[c].cuil = R!Digitos(datos[c].cuil)
    BY <2>1, DigitsAreDigits
  <2>3. QED
    BY <2>2 DEF DeOtraForma, datos
<1>2. CASE R!EstructuraRoman(df)
  <2>1. DOMAIN R!ObtenerRoman(df) \subseteq {df[i].id : i \in DOMAIN df}
    BY <1>2 DEF R!ObtenerRoman, R!NormalizarRoman
  <2>2. QED
    BY <1>5, <1>1, <2>1
<1>3. CASE ~R!EstructuraRoman(df)
  <2>1. R!ObtenerRoman(df) = <<>>
    BY <1>3 DEF R!ObtenerRoman
  <2>2. QED
    BY <1>5, <1>1, <2>1
<1>4. QED
  BY <1>2, <1>3

\* What the scripts of the results of Bancor have written.
BancorResultadosInv ==
  /\ job = "bancor resultados" =>
       /\ codigo \in {Running, "ok", "error"}
       /\ codigo = Running /\ paso = "crm" =>
            /\ "gestiones" \in DOMAIN carpeta
            /\ DOMAIN Rows("gestiones") = Range(entrada.calls) \ {R!NaN}
       /\ codigo = "ok" =>
            /\ DOMAIN Entregado("gestiones") = Range(entrada.calls) \ {R!NaN}
            /\ ApartadosSalvo(Entregado("crm"), ConOtraForma(entrada.calls, entrada.api))
  /\ job = "bancor solo roman" =>
       /\ codigo \in {Running, "ok", "error"}
       /\ codigo = "ok" => ApartadosSalvo(Entregado("crm"), {})

LEMMA BancorResultadosInvNext ==
  ASSUME EntradaPosible, BancorResultadosInv, [Next]_vars
  PROVE  BancorResultadosInv'
<1>1. CASE UNCHANGED vars
  BY <1>1 DEF vars, BancorResultadosInv, Rows, Entregado
<1>2. CASE Next
  <2>1. UNCHANGED <<job, entrada>>
    BY <1>2, StepsOfAJob
  <2>2. CASE job = "bancor resultados"
    <3>1. /\ "logcall" \notin Range(entrada.calls)
          /\ \A c \in Range(entrada.calls) \ {R!NaN} : EsRespuesta(entrada.api[c])
      BY <2>2, EntradasAssumption DEF EntradaPosible, EsEntrada
    <3>2. CASE Medianoche
      BY <2>1, <2>2, <3>2 DEF Medianoche, BancorResultadosInv, Rows, Entregado
    <3>3. CASE BancorGestiones
      <4> DEFINE g == R!Gestiones(R!ObtenerRetell(entrada.calls, entrada.api), R!ObtenerRoman(entrada.roman))
      <4>1. carpeta' = Con([gestiones |-> Hoy(g)]) /\ codigo' = Running
        BY <3>3 DEF BancorGestiones, Sigue, En
      <4>2. DOMAIN g = Range(entrada.calls) \ {R!NaN}
        BY CallsOfBancor
      <4> HIDE DEF g
      <4>3. "gestiones" \in DOMAIN carpeta' /\ carpeta'["gestiones"].rows = g
        BY <4>1 DEF Con, Hoy
      <4>4. QED
        BY <2>1, <2>2, <4>1, <4>2, <4>3 DEF BancorResultadosInv, Rows, Running
    <3>4. CASE BancorCrm
      <4> DEFINE datos == Corregidas(R!ObtenerRetell(entrada.calls, entrada.api),
                                     R!ObtenerRoman(entrada.roman))
                 records == R!CargaMasiva(datos, entrada.log, entrada.base)
      <4>1. CASE Falla
        BY <2>1, <2>2, <4>1 DEF Falla, BancorResultadosInv, Running
      <4>2. CASE ~Falla
        <5>1. /\ carpeta' = Con([crm |-> Hoy(records)]) /\ codigo' = "ok"
              /\ salida' = [f \in {"gestiones", "crm"} \cap DOMAIN carpeta' |-> carpeta'[f]]
          BY <3>4, <4>2 DEF BancorCrm, Entrega, Publica
        <5>2. "logcall" \notin DOMAIN datos
          BY <3>1, CallsOfBancor
        <5>3. ApartadosSalvo(records, ConOtraForma(entrada.calls, entrada.api))
          <6>1. DeOtraForma(datos) \subseteq ConOtraForma(entrada.calls, entrada.api)
            BY <3>1, ClientsOfTheCalls
          <6> HIDE DEF datos
          <6>2. ApartadosSalvo(records, DeOtraForma(datos))
            BY <5>2, TheLoadKeepsApart
          <6>3. QED
            BY <6>1, <6>2 DEF ApartadosSalvo
        <5> HIDE DEF records
        <5>4. "gestiones" \in DOMAIN carpeta /\ DOMAIN Rows("gestiones") = Range(entrada.calls) \ {R!NaN}
          BY <2>2, <3>4 DEF BancorResultadosInv, BancorCrm, En
        <5>5. /\ "gestiones" \in DOMAIN carpeta' /\ carpeta'["gestiones"] = carpeta["gestiones"]
              /\ "crm" \in DOMAIN carpeta' /\ carpeta'["crm"].rows = records
          BY <5>1, <5>4 DEF Con, Hoy
        <5>6. salida'["gestiones"].rows = Rows("gestiones") /\ salida'["crm"].rows = records
          BY <5>1, <5>5 DEF Rows
        <5>7. QED
          BY <2>1, <2>2, <5>1, <5>3, <5>4, <5>6 DEF BancorResultadosInv, Entregado, Running
      <4>3. QED
        BY <4>1, <4>2
    <3>5. QED
      BY <1>2, <2>2, <3>2, <3>3, <3>4, StepsOfAJob
  <2>3. CASE job = "bancor solo roman"
    <3>1. \A i \in DOMAIN entrada.roman : entrada.roman[i].id # "logcall"
      BY <2>3, EntradasAssumption DEF EntradaPosible, EsEntrada
    <3>2. CASE Medianoche
      BY <2>1, <2>3, <3>2 DEF Medianoche, BancorResultadosInv, Rows, Entregado
    <3>3. CASE BancorRoman
      <4> DEFINE records == R!RomanOnly(entrada.roman, entrada.log, entrada.base)
      <4>1. ApartadosSalvo(records, {})
        <5>1. ApartadosSalvo({}, {})
          BY DEF ApartadosSalvo
        <5> DEFINE datos == R!Completar(entrada.roman, R!ObtenerRoman(entrada.roman))
        <5>2. "logcall" \notin DOMAIN datos /\ DeOtraForma(datos) = {}
          BY <3>1, CallsOfRoman
        <5> HIDE DEF datos
        <5>3. \A base : ApartadosSalvo(R!CargaMasiva(datos, entrada.log, base), {})
          BY <5>2, TheLoadKeepsApart
        <5>4. QED
          BY <5>1, <5>3 DEF R!RomanOnly, datos
      <4>2. CASE Falla
        BY <2>1, <2>3, <4>2 DEF Falla, BancorResultadosInv, Running
      <4>3. CASE ~Falla
        <5>1. /\ carpeta' = Con([crm |-> Hoy(records)]) /\ codigo' = "ok"
              /\ salida' = [f \in DOMAIN [crm |-> Hoy(records)] \cap DOMAIN carpeta' |-> carpeta'[f]]
          BY <3>3, <4>3 DEF BancorRoman, Carga, Hace, Entrega, Publica
        <5> HIDE DEF records
        <5>2. "crm" \in DOMAIN carpeta' /\ carpeta'["crm"].rows = records
          BY <5>1 DEF Con, Hoy
        <5>3. salida'["crm"].rows = records
          BY <5>1, <5>2
        <5>4. QED
          BY <2>1, <2>3, <4>1, <5>1, <5>3 DEF BancorResultadosInv, Entregado, Running
      <4>4. QED
        BY <4>2, <4>3
    <3>4. QED
      BY <1>2, <2>3, <3>2, <3>3, StepsOfAJob
  <2>4. QED
    BY <2>1, <2>2, <2>3 DEF BancorResultadosInv
<1>3. QED
  BY <1>1, <1>2

\* Nobody who is reported as not answering has another management in the same
\* delivery, whatever phones the clients share and whatever the log repeats, and
\* however the CUILs are written that do not come from Retell.
THEOREM SilentClientsAreSilent == Spec => []SilentClientsNeverSpoke
<1>1. Init => PetersenInv /\ BancorResultadosInv
  BY DiasAssumption DEF Init, PetersenInv, BancorResultadosInv, Running
<1>2. PetersenInv /\ BancorResultadosInv => SilentClientsNeverSpoke
  <2> SUFFICES ASSUME PetersenInv, BancorResultadosInv PROVE SilentClientsNeverSpoke
    OBVIOUS
  <2>1. Salio("bancor solo roman") => CallaYHablo = {}
    BY DEF BancorResultadosInv, ApartadosSalvo, Salio, CallaYHablo
  <2>2. Salio("bancor resultados") => \A c \in CallaYHablo : entrada.api[c][1].cuil.form # ""
    BY DEF BancorResultadosInv, ApartadosSalvo, ConOtraForma, Salio, CallaYHablo
  <2>3. QED
    BY <2>1, <2>2, SilentInPetersen DEF SilentClientsNeverSpoke
<1>3. QED
  BY <1>1, <1>2, EntradaInv, PetersenInvNext, BancorResultadosInvNext, PTL DEF Spec

-----------------------------------------------------------------------------
(* Bancor and Claro: the dates of a delivery *)

\* Each step of Bancor opens the base of its day: when the last one finds it, no
\* midnight has come since the first.
UnDia(files) == \A f, g \in DOMAIN files : files[f].dia = files[g].dia
FechasInv ==
  /\ job = "bancor" =>
       /\ codigo \in {Running, "ok", "error"} /\ (codigo # "ok" => DOMAIN salida = {})
       /\ \A f \in DOMAIN carpeta : carpeta[f].dia \in Nat /\ carpeta[f].dia <= dia
       /\ codigo = Running =>
            /\ paso = "inicio" => DOMAIN carpeta = {}
            /\ paso \in {"completa", "e1kia"} => UnDia(carpeta)
            /\ paso = "telefonos" /\ "base" \in DOMAIN carpeta =>
                 \A f \in DOMAIN carpeta : carpeta["base"].dia <= carpeta[f].dia
       /\ codigo = "ok" => UnDia(salida)
  /\ job = "claro" => UnDia(salida) /\ (codigo # "ok" => DOMAIN salida = {})

LEMMA FechasInvNext ==
  ASSUME EntradaPosible, FechasInv, [Next]_vars
  PROVE  FechasInv'
<1>1. CASE UNCHANGED vars
  BY <1>1 DEF vars, FechasInv, UnDia
<1>2. CASE Next
  <2>1. UNCHANGED <<job, entrada>> /\ dia \in Nat /\ dia' \in Nat
    BY <1>2, StepsOfAJob, EntradaInv DEF EntradaPosible
  <2>2. CASE job = "bancor"
    <3>1. CASE Medianoche
      BY <2>1, <2>2, <3>1 DEF Medianoche, FechasInv, UnDia
    <3>2. ASSUME NEW name \in {"base", "roman"}, NEW aside \in {"base_descartados", "roman_descartados"},
                 NEW b, UNCHANGED dia
          PROVE  LET new == Con(Base(name, aside, b))
                 IN \A f \in DOMAIN new : \/ new[f].dia = dia /\ f \in {name, aside}
                                          \/ f \in DOMAIN carpeta /\ new[f] = carpeta[f]
      BY DEF Con, Base, Hoy
    <3>3. CASE BancorBase
      <4>1. /\ carpeta' = Con(Base("base", "base_descartados", B!ProcesarBase(entrada)))
            /\ codigo' = Running /\ paso' = "completa" /\ UNCHANGED <<salida, dia>> /\ DOMAIN carpeta = {}
            /\ codigo = Running
        BY <2>2, <3>3 DEF BancorBase, Sigue, En, fijas, FechasInv
      <4>2. \A f \in DOMAIN carpeta' : carpeta'[f].dia = dia
        BY <3>2, <4>1
      <4>3. QED
        BY <2>1, <2>2, <4>1, <4>2 DEF FechasInv, UnDia, Running
    <3>4. CASE BancorCompleta
      <4>1. /\ carpeta' = Con(Base("roman", "roman_descartados", B!ProcesarCompleta(entrada)))
            /\ codigo' = Running /\ paso' = "telefonos" /\ UNCHANGED <<salida, dia>>
            /\ codigo = Running /\ UnDia(carpeta)
        BY <2>2, <3>4 DEF BancorCompleta, Sigue, En, fijas, FechasInv
      <4>2. \A f \in DOMAIN carpeta' : \/ carpeta'[f].dia = dia /\ f \in {"roman", "roman_descartados"}
                                       \/ f \in DOMAIN carpeta /\ carpeta'[f] = carpeta[f]
        BY <3>2, <4>1
      <4>3. \A f \in DOMAIN carpeta : carpeta[f].dia \in Nat /\ carpeta[f].dia <= dia
        BY <2>2 DEF FechasInv
      <4>4. \A f \in DOMAIN carpeta' : carpeta'[f].dia \in Nat /\ carpeta'[f].dia <= dia
        BY <2>1, <4>2, <4>3
      <4>5. "base" \in DOMAIN carpeta' =>
              \A f \in DOMAIN carpeta' : carpeta'["base"].dia <= carpeta'[f].dia
        <5> SUFFICES ASSUME "base" \in DOMAIN carpeta', NEW f \in DOMAIN carpeta'
                     PROVE  carpeta'["base"].dia <= carpeta'[f].dia
          OBVIOUS
        <5>1. "base" \in DOMAIN carpeta /\ carpeta'["base"] = carpeta["base"]
          BY <4>2
        <5>2. CASE carpeta'[f].dia = dia
          BY <4>3, <5>1, <5>2
        <5>3. CASE f \in DOMAIN carpeta /\ carpeta'[f] = carpeta[f]
          BY <4>1, <4>3, <5>1, <5>3 DEF UnDia
        <5>4. QED
          BY <4>2, <5>2, <5>3
      <4>6. QED
        BY <2>1, <2>2, <4>1, <4>4, <4>5 DEF FechasInv, Running
    <3>5. CASE Falla /\ UNCHANGED dia /\ codigo = Running
      BY <2>1, <2>2, <3>5 DEF Falla, FechasInv, UnDia, Running
    <3>6. CASE BancorTelefonos /\ ~Falla
      <4>1. /\ carpeta' = Con([telefonos |-> Hoy(B!ExtraerTelefonos(Rows("base")))])
            /\ codigo' = Running /\ paso' = "e1kia" /\ UNCHANGED <<salida, dia>>
            /\ codigo = Running /\ paso = "telefonos"
            /\ "base" \in DOMAIN carpeta /\ carpeta["base"].dia = dia
        BY <3>6 DEF BancorTelefonos, DeHoy, Sigue, En, fijas
      <4>2. \A f \in DOMAIN carpeta : carpeta[f].dia = dia
        BY <2>1, <2>2, <4>1 DEF FechasInv
      <4>3. \A f \in DOMAIN carpeta' : carpeta'[f].dia = dia
        BY <4>1, <4>2 DEF Con, Hoy
      <4>4. QED
        BY <2>1, <2>2, <4>1, <4>3 DEF FechasInv, UnDia, Running
    <3>7. CASE BancorE1kia /\ ~Falla
      <4>1. /\ carpeta' = Con([e1kia |-> Hoy(B!ExtraerTelefonos(Rows("roman")))])
            /\ codigo' = "ok" /\ UNCHANGED dia /\ UnDia(carpeta)
            /\ "roman" \in DOMAIN carpeta /\ carpeta["roman"].dia = dia
            /\ \E names : salida' = [f \in names \cap DOMAIN carpeta' |-> carpeta'[f]]
        BY <2>2, <3>7 DEF BancorE1kia, DeHoy, Entrega, Publica, En, fijas, FechasInv
      <4>2. \A f \in DOMAIN carpeta : carpeta[f].dia = dia
        BY <4>1 DEF UnDia
      <4>3. \A f \in DOMAIN carpeta' : carpeta'[f].dia = dia
        BY <4>1, <4>2 DEF Con, Hoy
      <4>4. UnDia(salida')
        BY <4>1, <4>3 DEF UnDia
      <4>5. QED
        BY <2>1, <2>2, <4>1, <4>3, <4>4 DEF FechasInv, Running
    <3>8. (BancorTelefonos \/ BancorE1kia) => UNCHANGED dia /\ codigo = Running
      BY DEF BancorTelefonos, BancorE1kia, En, fijas
    <3>9. QED
      BY <1>2, <2>2, <3>1, <3>3, <3>4, <3>5, <3>6, <3>7, <3>8, StepsOfAJob
  <2>3. CASE job = "claro"
    <3>1. CASE Medianoche \/ ClaroBase \/ ClaroDeduplica
      <4>1. UNCHANGED salida /\ codigo = Running /\ codigo' = Running
        BY <3>1 DEF Medianoche, ClaroBase, ClaroDeduplica, Sigue, En
      <4>2. QED
        BY <2>1, <2>3, <4>1 DEF FechasInv, Running, UnDia
    <3>2. CASE ClaroTelefonos
      <4>1. /\ carpeta' = Con([telefonos |-> [dia |-> carpeta["base"].dia,
                                              rows |-> S!ExtraerTelefonos(Rows("base"))]])
            /\ codigo' = "ok"
            /\ salida' = [f \in {"base", "telefonos"} \cap DOMAIN carpeta' |-> carpeta'[f]]
        BY <3>2 DEF ClaroTelefonos, Entrega, Publica
      <4>2. carpeta'["telefonos"].dia = carpeta["base"].dia
            /\ ("base" \in DOMAIN carpeta' => carpeta'["base"] = carpeta["base"])
        BY <4>1 DEF Con
      <4>3. \A f \in DOMAIN salida' : salida'[f].dia = carpeta["base"].dia
        BY <4>1, <4>2
      <4>4. UnDia(salida')
        BY <4>3 DEF UnDia
      <4>5. QED
        BY <2>1, <2>3, <4>1, <4>4 DEF FechasInv
    <3>3. QED
      BY <1>2, <2>3, <3>1, <3>2, StepsOfAJob
  <2>4. QED
    BY <2>1, <2>2, <2>3 DEF FechasInv
<1>3. QED
  BY <1>1, <1>2

-----------------------------------------------------------------------------
(* Bancor: the pipeline and its verification *)

\* A phone that is normalised once more is the same.
LEMMA NormalIsNormal ==
  ASSUME NEW phone, NEW tipo \in {"fijo", "celular"}, NEW p,
         p = B!NormalizarTelefono(phone, tipo), p # B!NoPhone
  PROVE  B!NormalizarTelefono(p, tipo) = p
<1> DEFINE written == B!Prefijo(phone, IF tipo = "fijo" THEN "54" ELSE "549")
<1>1. p = written /\ ~p.mov /\ (tipo = "fijo" => p.pre = "54") /\ phone # B!NoPhone
  BY DEF B!NormalizarTelefono
<1>2. p.pre = IF tipo = "fijo" THEN "54" ELSE "549"
  <2>1. CASE tipo = "fijo"
    BY <1>1, <2>1
  <2>2. CASE tipo = "celular"
    BY <1>1, <2>2 DEF B!Prefijo, B!ConPrefijo
  <2>3. QED
    BY <2>1, <2>2
<1>3. p # [B!NoPhone EXCEPT !.n = B!HardCoded]
  <2>1. [B!NoPhone EXCEPT !.n = B!HardCoded].pre = ""
    BY DEF B!NoPhone
  <2>2. p.pre # ""
    BY <1>2
  <2>3. QED
    BY <2>1, <2>2
<1>4. B!Prefijo(p, IF tipo = "fijo" THEN "54" ELSE "549") = p
  BY <1>2 DEF B!Prefijo
<1>5. QED
  BY <1>1, <1>2, <1>3, <1>4 DEF B!NormalizarTelefono

\* The ROMAN base has its phones normalised.
Normalizadas(rows) ==
  \A i \in DOMAIN rows : \E fijo, cel : /\ rows[i]["fijo"] = B!NormalizarTelefono(fijo, "fijo")
                                        /\ rows[i]["cel"] = B!NormalizarTelefono(cel, "celular")

LEMMA RomanIsNormal ==
  ASSUME NEW rows
  PROVE  Normalizadas(B!Roman(rows))
<1>1. ASSUME NEW df PROVE Normalizadas(B!ColumnasRoman(df))
  <2> DEFINE groups == B!GroupsByAppearance(df, "cuil")
             roman == B!ColumnasRoman(df)
  <2>1. \A i \in DOMAIN roman :
          roman[i] = [B!ConsolidarCompleta(groups[i]) EXCEPT
                        !.fijo = B!NormalizarTelefono(@, "fijo"), !.trab = B!Limpiar(@),
                        !.cel = B!NormalizarTelefono(@, "celular")]
    BY DEF B!ColumnasRoman, B!MapRows
  <2>2. ASSUME NEW g PROVE {"fijo", "trab", "cel"} \subseteq DOMAIN B!ConsolidarCompleta(g)
    BY DEF B!ConsolidarCompleta
  <2> HIDE DEF roman, groups
  <2>3. ASSUME NEW i \in DOMAIN roman
        PROVE  \E fijo, cel : /\ roman[i]["fijo"] = B!NormalizarTelefono(fijo, "fijo")
                              /\ roman[i]["cel"] = B!NormalizarTelefono(cel, "celular")
    <3> DEFINE r == B!ConsolidarCompleta(groups[i])
    <3>1. {"fijo", "trab", "cel"} \subseteq DOMAIN r
      BY <2>2
    <3> HIDE DEF r
    <3>2. roman[i] = [r EXCEPT !.fijo = B!NormalizarTelefono(@, "fijo"), !.trab = B!Limpiar(@),
                               !.cel = B!NormalizarTelefono(@, "celular")]
      BY <2>1 DEF r
    <3>3. /\ roman[i]["fijo"] = B!NormalizarTelefono(r.fijo, "fijo")
          /\ roman[i]["cel"] = B!NormalizarTelefono(r.cel, "celular")
      BY <3>1, <3>2
    <3>4. QED
      BY <3>3
  <2>4. QED
    BY <2>3 DEF Normalizadas, roman
<1>2. QED
  BY <1>1 DEF B!Roman

\* So every number to dial is in the base the numbers come from.
LEMMA NothingIsMissing ==
  ASSUME NEW rows, Normalizadas(rows)
  PROVE  B!Faltantes(B!E1kia(rows), rows) = {}
<1> DEFINE target == UNION {B!Equivalencias(rows[i][c]) : i \in DOMAIN rows, c \in {"fijo", "trab", "cel"}}
           e1kia == B!E1kia(rows)
<1>1. ASSUME NEW p \in e1kia.fijos \cup e1kia.celulares PROVE p \in B!Equivalencias(p) \cap target
  <2>1. \E c \in {"fijo", "cel"}, i \in DOMAIN rows :
           /\ p = B!NormalizarTelefono(rows[i][c], IF c = "fijo" THEN "fijo" ELSE "celular")
           /\ p # B!NoPhone
    BY DEF B!E1kia
  <2>2. PICK c \in {"fijo", "cel"}, i \in DOMAIN rows :
           /\ p = B!NormalizarTelefono(rows[i][c], IF c = "fijo" THEN "fijo" ELSE "celular")
           /\ p # B!NoPhone
    BY <2>1
  <2>3. PICK phone : rows[i][c] = B!NormalizarTelefono(phone, IF c = "fijo" THEN "fijo" ELSE "celular")
    BY DEF Normalizadas
  <2>4. rows[i][c] # B!NoPhone
    BY <2>2 DEF B!NormalizarTelefono
  <2>5. p = rows[i][c]
    BY <2>2, <2>3, <2>4, NormalIsNormal
  <2>6. p \in B!Equivalencias(p)
    BY <2>2 DEF B!Equivalencias
  <2>7. B!Equivalencias(rows[i][c]) \subseteq target
    OBVIOUS
  <2>8. QED
    BY <2>5, <2>6, <2>7
<1>2. QED
  BY <1>1 DEF B!Faltantes

\* The artifacts say which files are written.
Xlsx == [name |-> "xlsx", status |-> "generated"]
LEMMA Appended ==
  ASSUME NEW a, NEW b, NEW c
  PROVE  Append(<<a>>, b) = <<a, b>> /\ Append(<<a, b>>, c) = <<a, b, c>>
<1> DEFINE any == {a, b, c}
<1>1. <<a>> \in Seq(any) /\ <<a, b>> \in Seq(any) /\ <<a, b, c>> \in Seq(any)
  OBVIOUS
<1>2. Len(<<a>>) = 1 /\ Len(<<a, b>>) = 2 /\ Len(<<a, b, c>>) = 3
  OBVIOUS
<1>3. Append(<<a>>, b) = <<a, b>>
  <2>1. Append(<<a>>, b) \in Seq(any) /\ Len(Append(<<a>>, b)) = 2
        /\ Append(<<a>>, b)[1] = a /\ Append(<<a>>, b)[2] = b
    BY <1>1, <1>2, AppendProperties
  <2>2. <<a, b>>[1] = a /\ <<a, b>>[2] = b
    OBVIOUS
  <2> DEFINE s == Append(<<a>>, b)  t == <<a, b>>
  <2>3. s \in Seq(any) /\ t \in Seq(any) /\ Len(s) = Len(t) /\ \A i \in 1..Len(s) : s[i] = t[i]
    <3>1. Len(s) = 2 /\ \A i \in 1..2 : i = 1 \/ i = 2
      BY <2>1
    <3> HIDE DEF s, t
    <3>2. t[1] = a /\ t[2] = b /\ s[1] = a /\ s[2] = b
      BY <2>1, <2>2 DEF s, t
    <3>3. QED
      BY <1>1, <1>2, <2>1, <3>1, <3>2 DEF s, t
  <2> HIDE DEF s, t, any
  <2>4. s = t
    BY <2>3, SeqEqual
  <2>5. QED
    BY <2>4 DEF s, t
<1>4. Append(<<a, b>>, c) = <<a, b, c>>
  <2>1. Append(<<a, b>>, c) \in Seq(any) /\ Len(Append(<<a, b>>, c)) = 3
        /\ Append(<<a, b>>, c)[1] = a /\ Append(<<a, b>>, c)[2] = b /\ Append(<<a, b>>, c)[3] = c
    BY <1>1, <1>2, AppendProperties
  <2>2. <<a, b, c>>[1] = a /\ <<a, b, c>>[2] = b /\ <<a, b, c>>[3] = c
    OBVIOUS
  <2> DEFINE s == Append(<<a, b>>, c)  t == <<a, b, c>>
  <2>3. s \in Seq(any) /\ t \in Seq(any) /\ Len(s) = Len(t) /\ \A i \in 1..Len(s) : s[i] = t[i]
    <3>1. Len(s) = 3 /\ \A i \in 1..3 : i = 1 \/ i = 2 \/ i = 3
      BY <2>1
    <3> HIDE DEF s, t
    <3>2. t[1] = a /\ t[2] = b /\ t[3] = c /\ s[1] = a /\ s[2] = b /\ s[3] = c
      BY <2>1, <2>2 DEF s, t
    <3>3. QED
      BY <1>1, <1>2, <2>1, <3>1, <3>2 DEF s, t
  <2> HIDE DEF s, t, any
  <2>4. s = t
    BY <2>3, SeqEqual
  <2>5. QED
    BY <2>4 DEF s, t
<1>5. QED
  BY <1>3, <1>4

Marcado(r, written) == r.status = "generated" => written
Comparado == "roman" \in DOMAIN carpeta => B!Faltantes(Rows("e1kia"), Rows("roman")) = {}
WfmInv ==
  job = "bancor wfm" =>
    /\ codigo \in {Running, "cancelled", "failed", "partial_failure", "success"}
    /\ codigo = Running =>
         /\ paso \in {"inicio", "libro", "anota", "roman", "e1kia", "estado"}
         /\ paso \in {"anota", "roman", "e1kia", "estado"} => "xlsx" \in DOMAIN carpeta
         /\ paso = "roman" => salida = <<Xlsx>>
         /\ paso = "e1kia" => \E r : salida = <<Xlsx, r>> /\ Marcado(r, "roman" \in DOMAIN carpeta)
         /\ paso = "estado" => \E r, s :
              /\ salida = <<Xlsx, r, s>> /\ Marcado(r, "roman" \in DOMAIN carpeta)
              /\ Marcado(s, "e1kia" \in DOMAIN carpeta /\ Comparado)
         /\ "roman" \in DOMAIN carpeta => Normalizadas(Rows("roman"))
    /\ codigo = "success" => {"xlsx", "roman", "e1kia"} \subseteq DOMAIN carpeta /\ Comparado

LEMMA WfmInvNext ==
  ASSUME EntradaPosible, WfmInv, [Next]_vars
  PROVE  WfmInv'
<1>1. CASE UNCHANGED vars
  BY <1>1 DEF vars, WfmInv, Rows, Comparado
<1>2. CASE Next /\ job # "bancor wfm"
  BY <1>2, StepsOfAJob DEF WfmInv
<1>3. CASE Next /\ job = "bancor wfm"
  <2>1. job' = job
    BY <1>3, StepsOfAJob
  <2>2. CASE Medianoche \/ Cancela
    BY <1>3, <2>1, <2>2 DEF Medianoche, Cancela, WfmInv, Rows, Comparado
  <2>3. CASE WfmCancela
    BY <1>3, <2>1, <2>3 DEF WfmCancela, WfmInv, Running
  <2>4. CASE Responde("failed")
    BY <1>3, <2>1, <2>4 DEF Responde, WfmInv, Running
  <2>5. ASSUME NEW name \in {"filas", "xlsx"}, NEW rows,
               carpeta' = Con([f \in {name} |-> Hoy(rows)])
        PROVE  /\ name \in DOMAIN carpeta' /\ DOMAIN carpeta \subseteq DOMAIN carpeta'
               /\ "roman" \in DOMAIN carpeta' => "roman" \in DOMAIN carpeta /\ carpeta'["roman"] = carpeta["roman"]
    BY <2>5 DEF Con
  <2>6. CASE WfmFiltros /\ ~Responde("failed")
    <3> DEFINE filas == B!FiltrarAcuerdos(B!Deliveries(entrada.rows, entrada.meses, entrada.vacias))
    <3>1. carpeta' = Con([filas |-> Hoy(filas)]) /\ paso' = "libro" /\ codigo' = Running /\ codigo = Running
      BY <2>6 DEF WfmFiltros, Sigue, Etapa, En
    <3> HIDE DEF filas
    <3>2. carpeta' = Con([f \in {"filas"} |-> Hoy(filas)])
      BY <3>1
    <3>3. QED
      BY <1>3, <2>1, <2>5, <3>1, <3>2 DEF WfmInv, Rows, Running
  <2>7. CASE WfmLibro /\ ~Responde("failed")
    <3> DEFINE libro == B!Libro(Rows("filas"))
    <3>1. carpeta' = Con([xlsx |-> Hoy(libro)]) /\ paso' = "anota" /\ codigo' = Running /\ codigo = Running
      BY <2>7 DEF WfmLibro, Sigue, Etapa, En
    <3> HIDE DEF libro
    <3>2. carpeta' = Con([f \in {"xlsx"} |-> Hoy(libro)])
      BY <3>1
    <3>3. QED
      BY <1>3, <2>1, <2>5, <3>1, <3>2 DEF WfmInv, Rows, Running
  <2>8. CASE WfmAnota
    BY <1>3, <2>1, <2>8 DEF WfmAnota, Etapa, En, WfmInv, Rows, Running, Xlsx
  <2>9. ASSUME NEW name \in {"roman", "e1kia"}, NEW rows, NEW p, Artefacto(name, rows, p)
        PROVE  /\ paso' = p /\ codigo' = codigo /\ DOMAIN carpeta \subseteq DOMAIN carpeta'
               /\ \A f \in DOMAIN carpeta' : f # name => f \in DOMAIN carpeta /\ carpeta'[f] = carpeta[f]
               /\ \/ carpeta' = carpeta
                  \/ name \in DOMAIN carpeta' /\ carpeta'[name].rows = rows
               /\ \E s : /\ salida' = Append(salida, s)
                         /\ Marcado(s, name \in DOMAIN carpeta' /\ carpeta'[name].rows = rows)
    <3>1. PICK ok \in BOOLEAN :
            /\ carpeta' = IF ok THEN Con([f \in {name} |-> Hoy(rows)]) ELSE carpeta
            /\ salida' = Append(salida, [name |-> name, status |-> IF ok THEN "generated" ELSE "failed"])
            /\ paso' = p /\ codigo' = codigo
      BY <2>9 DEF Artefacto
    <3>2. CASE ok
      BY <3>1, <3>2 DEF Con, Hoy, Marcado
    <3>3. CASE ~ok
      BY <3>1, <3>3 DEF Marcado
    <3>4. QED
      BY <3>2, <3>3
  <2>10. CASE WfmRoman
    <3> DEFINE rows == B!Roman(Rows("filas"))
    <3>1. Artefacto("roman", rows, "e1kia") /\ codigo = Running /\ paso = "roman"
      BY <2>10 DEF WfmRoman, Etapa, En
    <3>2. Normalizadas(rows)
      BY RomanIsNormal
    <3> HIDE DEF rows
    <3>3. salida = <<Xlsx>> /\ "xlsx" \in DOMAIN carpeta
          /\ ("roman" \in DOMAIN carpeta => Normalizadas(Rows("roman")))
      BY <1>3, <3>1 DEF WfmInv
    <3>4. \E r : salida' = <<Xlsx, r>> /\ Marcado(r, "roman" \in DOMAIN carpeta')
      <4>1. PICK s : /\ salida' = Append(salida, s)
                     /\ Marcado(s, "roman" \in DOMAIN carpeta' /\ carpeta'["roman"].rows = rows)
        BY <2>9, <3>1
      <4>2. salida' = <<Xlsx, s>>
        <5>1. Append(<<Xlsx>>, s) = <<Xlsx, s>>
          BY Appended
        <5>2. QED
          BY <3>3, <4>1, <5>1
      <4>3. QED
        BY <4>1, <4>2 DEF Marcado
    <3>5. "roman" \in DOMAIN carpeta' => Normalizadas(carpeta'["roman"].rows)
      BY <2>9, <3>1, <3>2, <3>3 DEF Rows
    <3>6. paso' = "e1kia" /\ codigo' = Running /\ "xlsx" \in DOMAIN carpeta'
      BY <2>9, <3>1, <3>3
    <3>7. QED
      BY <1>3, <2>1, <3>4, <3>5, <3>6 DEF WfmInv, Rows, Running
  <2>11. CASE WfmE1kia
    <3> DEFINE from == Rows(IF "roman" \in DOMAIN carpeta THEN "roman" ELSE "filas")
               rows == B!E1kia(from)
    <3>1. Artefacto("e1kia", rows, "estado") /\ codigo = Running /\ paso = "e1kia"
      BY <2>11 DEF WfmE1kia, Etapa, En
    <3>2. "roman" \in DOMAIN carpeta => B!Faltantes(rows, Rows("roman")) = {} /\ Normalizadas(Rows("roman"))
      BY <1>3, <3>1, NothingIsMissing DEF WfmInv
    <3> HIDE DEF rows
    <3>3. PICK r : salida = <<Xlsx, r>> /\ Marcado(r, "roman" \in DOMAIN carpeta)
      BY <1>3, <3>1 DEF WfmInv
    <3>4. PICK s : /\ salida' = Append(salida, s)
                   /\ Marcado(s, "e1kia" \in DOMAIN carpeta' /\ carpeta'["e1kia"].rows = rows)
      BY <2>9, <3>1
    <3>5. salida' = <<Xlsx, r, s>>
      <4>1. Append(<<Xlsx, r>>, s) = <<Xlsx, r, s>>
        BY Appended
      <4>2. QED
        BY <3>3, <3>4, <4>1
    <3>6. /\ DOMAIN carpeta \subseteq DOMAIN carpeta' /\ paso' = "estado" /\ codigo' = Running
          /\ "roman" \in DOMAIN carpeta' => "roman" \in DOMAIN carpeta /\ carpeta'["roman"] = carpeta["roman"]
      BY <2>9, <3>1
    <3>7. Marcado(s, "e1kia" \in DOMAIN carpeta' /\ Comparado')
      BY <3>2, <3>4, <3>6 DEF Marcado, Comparado, Rows
    <3>8. Marcado(r, "roman" \in DOMAIN carpeta') /\ "xlsx" \in DOMAIN carpeta'
          /\ ("roman" \in DOMAIN carpeta' => Normalizadas(carpeta'["roman"].rows))
      BY <1>3, <3>1, <3>2, <3>3, <3>6 DEF Marcado, WfmInv, Rows
    <3>9. QED
      BY <1>3, <2>1, <3>5, <3>6, <3>7, <3>8 DEF WfmInv, Rows, Running
  <2>12. CASE WfmEstado
    <3>1. codigo' = B!Status(salida) /\ UNCHANGED carpeta /\ codigo = Running /\ paso = "estado"
      BY <2>12 DEF WfmEstado, Responde, Etapa, En
    <3>2. PICK r, s : /\ salida = <<Xlsx, r, s>> /\ Marcado(r, "roman" \in DOMAIN carpeta)
                      /\ Marcado(s, "e1kia" \in DOMAIN carpeta /\ Comparado)
      BY <1>3, <3>1 DEF WfmInv
    <3>3. codigo' \in {"failed", "success", "partial_failure"}
          /\ (codigo' = "success" => r.status = "generated" /\ s.status = "generated")
      <4>1. salida[2] = r /\ salida[3] = s /\ 2 \in DOMAIN salida /\ 3 \in DOMAIN salida
        BY <3>2
      <4>2. B!Status(salida) = "success" => \A i \in DOMAIN salida : salida[i].status = "generated"
        BY DEF B!Status
      <4>3. B!Status(salida) \in {"failed", "success", "partial_failure"}
        BY DEF B!Status
      <4>4. QED
        BY <3>1, <4>1, <4>2, <4>3
    <3>4. "xlsx" \in DOMAIN carpeta
      BY <1>3, <3>1 DEF WfmInv
    <3>5. codigo' = "success" => {"xlsx", "roman", "e1kia"} \subseteq DOMAIN carpeta /\ Comparado
      BY <3>2, <3>3, <3>4 DEF Marcado
    <3>6. Comparado' = Comparado
      BY <3>1 DEF Comparado, Rows
    <3>7. QED
      BY <2>1, <3>1, <3>3, <3>5, <3>6 DEF WfmInv, Running
  <2>13. QED
    BY <1>3, <2>2, <2>3, <2>4, <2>6, <2>7, <2>8, <2>10, <2>11, <2>12, StepsOfAJob
<1>4. QED
  BY <1>1, <1>2, <1>3

\* A success of the pipeline has its own status: no other job answers it.
Responden == {codigo, "ok", "error"}
LEMMA AnswersOfTheBases ==
  /\ BancorBase \/ BancorCompleta \/ BancorTelefonos \/ BancorE1kia => codigo' \in Responden
  /\ EpecCombina \/ EpecGuarda \/ EpecTelefonos \/ EpecExe \/ EpecSkill => codigo' \in Responden
  /\ FravegaBase \/ MtBase \/ MtE1kia => codigo' \in Responden
  /\ ClaroBase \/ ClaroDeduplica \/ ClaroTelefonos \/ EncuestaCx \/ SocialLearning => codigo' \in Responden
  /\ PetersenTipif \/ PetersenExporta \/ PetersenApproach \/ PetersenExcluidos \/ PetersenZip
       => codigo' \in Responden
  /\ PetersenFechas \/ PetersenFtp => codigo' \in Responden
<1>1. BancorBase \/ BancorCompleta \/ BancorTelefonos \/ BancorE1kia => codigo' \in Responden
  BY DEF BancorBase, BancorCompleta, BancorTelefonos, BancorE1kia, Sigue, Entrega, Falla, Responden
<1>2. EpecCombina \/ EpecGuarda \/ EpecTelefonos => codigo' \in Responden
  BY DEF EpecCombina, EpecGuarda, EpecTelefonos, Sigue, Entrega, Falla, Responden
<1>3. EpecExe \/ EpecSkill => codigo' \in Responden
  BY DEF EpecExe, EpecSkill, Hace, Entrega, Falla, Responden
<1>4. FravegaBase \/ MtBase \/ MtE1kia => codigo' \in Responden
  BY DEF FravegaBase, MtBase, MtE1kia, Sigue, Hace, Entrega, Falla, Responden
<1>5. ClaroBase \/ ClaroDeduplica \/ ClaroTelefonos => codigo' \in Responden
  BY DEF ClaroBase, ClaroDeduplica, ClaroTelefonos, Sigue, Entrega, Responden
<1>6. EncuestaCx \/ SocialLearning => codigo' \in Responden
  BY DEF EncuestaCx, SocialLearning, Hace, Entrega, Falla, Responden
<1>7. PetersenTipif \/ PetersenExporta \/ PetersenApproach => codigo' \in Responden
  BY DEF PetersenTipif, PetersenExporta, PetersenApproach, Sin, Agrega, Sigue, Falla, Responden
<1>8. PetersenExcluidos \/ PetersenZip => codigo' \in Responden
  BY DEF PetersenExcluidos, PetersenZip, Sin, Sigue, Entrega, Falla, Responden
<1>9. PetersenFechas \/ PetersenFtp => codigo' \in Responden
  BY DEF PetersenFechas, PetersenFtp, Sigue, Entrega, Responden
<1>10. QED
  BY <1>1, <1>2, <1>3, <1>4, <1>5, <1>6, <1>7, <1>8, <1>9

LEMMA AnswersOfTheResults ==
  /\ BancorGestiones \/ BancorCrm \/ BancorRoman => codigo' \in Responden
  /\ EpecEnriquece \/ EpecReporte \/ EpecActualiza \/ EpecLuz => codigo' \in Responden
  /\ FravegaResultados \/ PetersenResultados \/ MtResultados \/ ClaroResultados => codigo' \in Responden
<1>1. BancorGestiones \/ BancorCrm \/ BancorRoman => codigo' \in Responden
  BY DEF BancorGestiones, BancorCrm, BancorRoman, Carga, Sigue, Hace, Entrega, Falla, Responden
<1>2. EpecEnriquece \/ EpecReporte \/ EpecActualiza \/ EpecLuz => codigo' \in Responden
  BY DEF EpecEnriquece, EpecReporte, EpecActualiza, EpecLuz, Sigue, Hace, Entrega, Responden
<1>3. FravegaResultados \/ PetersenResultados => codigo' \in Responden
  BY DEF FravegaResultados, PetersenResultados, Hace, Entrega, Falla, Responden
<1>4. MtResultados \/ ClaroResultados => codigo' \in Responden
  BY DEF MtResultados, ClaroResultados, Hace, Entrega, Falla, Responden
<1>5. QED
  BY <1>1, <1>2, <1>3, <1>4

SuccessInv == codigo = "success" => job = "bancor wfm"
LEMMA OnlyThePipelineSucceeds ==
  ASSUME SuccessInv, [Next]_vars
  PROVE  SuccessInv'
<1>1. CASE UNCHANGED vars
  BY <1>1 DEF vars, SuccessInv
<1>2. CASE Next /\ job # "bancor wfm"
  <2>1. Medianoche \/ Cancela => codigo' = codigo
    BY DEF Medianoche, Cancela
  <2>2. codigo' \in Responden
    BY <1>2, <2>1, StepsOfTheBases, AnswersOfTheBases, AnswersOfTheResults DEF Next, Responden
  <2>3. QED
    BY <1>2, <2>2, StepsOfAJob DEF SuccessInv, Responden
<1>3. CASE Next /\ job = "bancor wfm"
  BY <1>3, StepsOfAJob DEF SuccessInv
<1>4. QED
  BY <1>1, <1>2, <1>3

\* The files of a delivery of Bancor or Claro carry one date, whenever midnight comes,
\* and a pipeline that says success has its three files and no number to dial that the
\* ROMAN base does not have.
THEOREM DeliveriesAreWhole == Spec => []DeliveryIsWhole
<1> DEFINE Inv == EntradaPosible /\ FechasInv /\ WfmInv /\ SuccessInv
<1>1. Init => Inv
  <2> SUFFICES ASSUME Init PROVE Inv
    OBVIOUS
  <2>1. carpeta = <<>> /\ salida = <<>> /\ codigo = Running /\ paso = "inicio"
    BY DEF Init
  <2>2. DOMAIN carpeta = {} /\ DOMAIN salida = {}
    BY <2>1
  <2>3. EntradaPosible
    BY EntradaInv
  <2>4. FechasInv
    BY <2>1, <2>2 DEF FechasInv, UnDia, Running
  <2>5. WfmInv
    BY <2>1, <2>2 DEF WfmInv, Running
  <2>6. QED
    BY <2>1, <2>3, <2>4, <2>5 DEF SuccessInv, Running
<1>2. Inv /\ [Next]_vars => Inv'
  BY EntradaInv, FechasInvNext, WfmInvNext, OnlyThePipelineSucceeds
<1>3. Inv => DeliveryIsWhole
  <2> SUFFICES ASSUME Inv PROVE DeliveryIsWhole
    OBVIOUS
  <2>1. job \in {"bancor", "claro"} => UnDia(salida)
    <3>1. job = "bancor" => DOMAIN salida = {} \/ UnDia(salida)
      BY DEF FechasInv
    <3>2. QED
      BY <3>1 DEF FechasInv, UnDia
  <2>2. codigo = "success" => /\ {"xlsx", "roman", "e1kia"} \subseteq DOMAIN carpeta
                              /\ B!Faltantes(Rows("e1kia"), Rows("roman")) = {}
    BY DEF SuccessInv, WfmInv, Comparado
  <2>3. QED
    BY <2>1, <2>2 DEF DeliveryIsWhole, UnDia
<1>4. QED
  BY <1>1, <1>2, <1>3, PTL DEF Spec

-----------------------------------------------------------------------------
(* the calls of an export *)

LEMMA EpecTables ==
  /\ \A rows, at : E!RowsAt(rows, at) = RowsAt(rows, at)
  /\ \A seqs : E!FlattenSeq(seqs) = FlattenSeq(seqs)
<1>1. ASSUME NEW rows, NEW at PROVE E!RowsAt(rows, at) = RowsAt(rows, at)
  BY DEF E!RowsAt, RowsAt, E!Cardinality, Cardinality
<1>2. ASSUME NEW seqs PROVE E!FlattenSeq(seqs) = FlattenSeq(seqs)
  BY DEF E!FlattenSeq, FlattenSeq
<1>3. QED
  BY <1>1, <1>2

LEMMA WiderRow ==
  ASSUME NEW r, NEW more, "id" \in DOMAIN r
  PROVE  "id" \in DOMAIN E!WithColumns(r, more) /\ E!WithColumns(r, more).id = r.id
BY DEF E!WithColumns

\* What the service knows of a call leaves the call of the row.
LEMMA EnrichedRow ==
  ASSUME NEW row, "id" \in DOMAIN row, NEW call
  PROVE  "id" \in DOMAIN E!EnrichRow(row, call) /\ E!EnrichRow(row, call).id = row.id
<1> DEFINE data == call[1]
           known == [row EXCEPT !.contacto = IF @ = E!None THEN data.contacto ELSE @,
                                !.speech = IF @ = E!None THEN data.speech ELSE @,
                                !.dni = IF data.dni = E!None THEN @ ELSE data.dni]
<1>1. "id" \in DOMAIN known /\ known.id = row.id
  OBVIOUS
<1>2. E!EnrichRow(row, call) =
        IF call = <<>> THEN E!WithColumns(row, [status |-> "failed", spech |-> E!None])
        ELSE E!WithColumns(known, [status |-> "success", spech |-> E!None])
  BY DEF E!EnrichRow
<1> HIDE DEF known
<1>3. CASE call = <<>>
  BY <1>2, <1>3, WiderRow
<1>4. CASE call # <<>>
  BY <1>1, <1>2, <1>4, WiderRow
<1>5. QED
  BY <1>3, <1>4

\* merge_roman_corrections is a left join: it repeats a row and never drops one.
LEMMA CallsOfEpec ==
  ASSUME NEW export, IsTable(export), \A i \in DOMAIN export : "id" \in DOMAIN export[i],
         NEW call, NEW roman, IsTable(roman)
  PROVE  De(E!MergeRoman(E!Enrich(export, call), roman), "id") = De(export, "id")
<1> DEFINE df == E!Enrich(export, call)
           Dice(v) == v \notin {E!None, "", "-"}
           Corregir(r, q) ==
             [r EXCEPT !.contacto = IF Dice(q.contacto) THEN E!Booleano(q.contacto) ELSE @,
                       !.spech = IF Dice(q.spech) THEN q.spech ELSE @]
           at == [i \in DOMAIN df |-> {k \in DOMAIN roman : roman[k].id = df[i].id}]
           mine == [i \in DOMAIN df |-> RowsAt(roman, at[i])]
           corrected == [i \in DOMAIN df |-> [k \in DOMAIN mine[i] |-> Corregir(df[i], mine[i][k])]]
           parts == [i \in DOMAIN df |-> IF mine[i] = <<>> THEN <<df[i]>> ELSE corrected[i]]
<1>1. df = [i \in DOMAIN export |-> E!EnrichRow(export[i], call[export[i].id])]
  BY DEF E!Enrich, E!MapRows
<1>2. ASSUME NEW i \in DOMAIN export PROVE "id" \in DOMAIN df[i] /\ df[i].id = export[i].id
  <2>1. df[i] = E!EnrichRow(export[i], call[export[i].id]) /\ "id" \in DOMAIN export[i]
    BY <1>1
  <2> HIDE DEF df
  <2>2. QED
    BY <2>1, EnrichedRow
<1>3. IsTable(df) /\ DOMAIN df = DOMAIN export
  BY <1>1, MappedTable
<1> HIDE DEF df
<1>4. E!MergeRoman(df, roman) = FlattenSeq(parts)
  <2> DEFINE of == [i \in DOMAIN df |->
                      IF E!RowsAt(roman, {k \in DOMAIN roman : roman[k].id = df[i].id}) = <<>> THEN <<df[i]>>
                      ELSE [k \in DOMAIN E!RowsAt(roman, {k \in DOMAIN roman : roman[k].id = df[i].id}) |->
                              Corregir(df[i], E!RowsAt(roman, {l \in DOMAIN roman : roman[l].id = df[i].id})[k])]]
  <2>1. E!MergeRoman(df, roman) = E!FlattenSeq(of)
    BY DEF E!MergeRoman, E!MapRows, E!RowsWith
  <2>2. \A rows, set : E!RowsAt(rows, set) = RowsAt(rows, set)
    BY EpecTables
  <2> HIDE DEF Corregir
  <2>3. of = parts
    BY <2>2
  <2>4. QED
    BY <2>1, <2>3, EpecTables
<1>5. ASSUME NEW i \in DOMAIN df, NEW q
      PROVE  "id" \in DOMAIN Corregir(df[i], q) /\ Corregir(df[i], q).id = df[i].id
  BY SMTT(30), <1>2, <1>3
<1>6. ASSUME NEW i \in DOMAIN df
      PROVE  /\ IsTable(parts[i]) /\ DOMAIN parts[i] # {}
             /\ \A k \in DOMAIN parts[i] : parts[i][k].id = df[i].id
  <2>1. CASE mine[i] = <<>>
    <3> DEFINE one == <<df[i]>>
    <3>1. one = [k \in 1..1 |-> one[k]] /\ 1 \in Nat /\ \A k \in 1..1 : one[k] = df[i]
      OBVIOUS
    <3>2. parts[i] = one
      BY <2>1
    <3> HIDE DEF one, parts
    <3>3. IsTable(one) /\ DOMAIN one = 1..1
      BY <3>1, TableIntro
    <3>4. QED
      BY <3>1, <3>2, <3>3
  <2>2. CASE mine[i] # <<>>
    <3>1. parts[i] = corrected[i]
      BY <2>2
    <3>2. corrected[i] = [k \in DOMAIN mine[i] |-> Corregir(df[i], mine[i][k])]
      OBVIOUS
    <3>3. IsTable(mine[i])
      <4>1. at[i] \in SUBSET DOMAIN roman /\ mine[i] = RowsAt(roman, at[i])
        OBVIOUS
      <4> HIDE DEF at, mine
      <4>2. QED
        BY <4>1, RowsAtAreRows
    <3> HIDE DEF mine, corrected, parts, Corregir
    <3>4. corrected[i] = [k \in DOMAIN mine[i] |-> corrected[i][k]]
      BY <3>2
    <3>5. IsTable(corrected[i]) /\ DOMAIN corrected[i] = DOMAIN mine[i]
      BY <3>3, <3>4, MappedTable
    <3>6. DOMAIN mine[i] # {}
      <4>1. DOMAIN mine[i] = 1..Len(mine[i]) /\ mine[i] = [k \in 1..Len(mine[i]) |-> mine[i][k]]
        BY <3>3, TableShape
      <4>2. ASSUME DOMAIN mine[i] = {} PROVE FALSE
        <5>1. mine[i] = [k \in {} |-> mine[i][k]]
          BY <4>1, <4>2
        <5>2. [k \in {} |-> mine[i][k]] = <<>>
          OBVIOUS
        <5>3. QED
          BY <2>2, <5>1, <5>2
      <4>3. QED
        BY <4>2
    <3>7. QED
      BY <1>5, <3>1, <3>2, <3>5, <3>6
  <2>3. QED
    BY <2>1, <2>2
<1>7. IsTable(parts) /\ DOMAIN parts = DOMAIN df
  <2>1. parts = [i \in DOMAIN df |-> parts[i]]
    OBVIOUS
  <2> HIDE DEF parts
  <2>2. QED
    BY <1>3, <2>1, MappedTable
<1> HIDE DEF parts
<1> DEFINE new == FlattenSeq(parts)
<1>8. /\ \A k \in DOMAIN new : \E i \in DOMAIN parts : \E j \in DOMAIN parts[i] : new[k] = parts[i][j]
      /\ \A i \in DOMAIN parts : \A j \in DOMAIN parts[i] : \E k \in DOMAIN new : new[k] = parts[i][j]
  BY <1>6, <1>7, FlattenOfTables
<1> HIDE DEF new
<1>9. De(new, "id") \subseteq De(export, "id")
  BY <1>2, <1>3, <1>6, <1>7, <1>8 DEF De
<1>10. De(export, "id") \subseteq De(new, "id")
  <2>1. ASSUME NEW i \in DOMAIN export PROVE export[i].id \in De(new, "id")
    <3>1. PICK j \in DOMAIN parts[i] : parts[i][j].id = export[i].id
      BY <1>2, <1>3, <1>6
    <3>2. PICK k \in DOMAIN new : new[k] = parts[i][j]
      BY <1>3, <1>7, <1>8
    <3>3. QED
      BY <3>1, <3>2 DEF De
  <2>2. QED
    BY <2>1 DEF De
<1>11. QED
  BY <1>4, <1>9, <1>10 DEF df, new

\* What ROMAN says of a call is in the row of the call, whatever the service answered of
\* it, when some call of the export was answered with the column.
LEMMA CallsOfFravega ==
  ASSUME NEW export, NEW api, NEW rows, NEW i \in DOMAIN export,
         export[i].id \in DOMAIN F!ReadRoman(rows),
         "tipif" \in DOMAIN F!ReadRoman(rows)[export[i].id],
         F!ReadRoman(rows)[export[i].id].tipif \notin {F!Blank, "-"},
         NEW c \in F!CallIds(export), F!Sabe(F!GetCall(api[c])),
         "tipif" \in DOMAIN F!GetCall(api[c]).trae
  PROVE  LET row == F!EnrichCsv(export, api, rows)[i] IN
         "tipif" \in DOMAIN row /\ row.tipif = F!ReadRoman(rows)[export[i].id].tipif
<1> DEFINE roman == F!ReadRoman(rows)
           results == F!Results(export, api)
           keys == F!CollectKeys(results)
           merged == F!MergeWithRoman(results, roman, keys)
           id == export[i].id
           says == {k \in DOMAIN roman[id] \cap keys : roman[id][k] \notin {F!Blank, "-"}}
           ours == [k \in says |-> roman[id][k]]
           blank == F!WithColumns(export[i], [k \in keys \cup {"error"} |-> F!Blank])
<1>1. id # F!Blank
  BY DEF F!ReadRoman
<1>2. DOMAIN results = F!CallIds(export) /\ id \in F!CallIds(export)
  BY <1>1 DEF F!Results, F!CallIds
<1>3. "tipif" \in keys
  <2>1. results[c] = F!WithColumns([error |-> F!Blank], F!GetCall(api[c]).trae)
    BY <1>2 DEF F!Results
  <2>2. "tipif" \in DOMAIN results[c]
    BY <2>1 DEF F!WithColumns
  <2> HIDE DEF results
  <2>3. QED
    BY <1>2, <2>2 DEF F!CollectKeys
<1>4. "tipif" \in DOMAIN roman[id] /\ roman[id]["tipif"] \notin {F!Blank, "-"} /\ id \in DOMAIN roman
  OBVIOUS
<1> HIDE DEF results, roman, keys
<1>5. "tipif" \in DOMAIN ours /\ ours["tipif"] = roman[id]["tipif"]
  BY <1>3, <1>4
<1>6. id \in DOMAIN merged /\ merged[id] = F!WithColumns(ours, results[id])
  BY <1>2, <1>4 DEF F!MergeWithRoman
<1> HIDE DEF ours
<1>7. "tipif" \in DOMAIN merged[id] /\ merged[id]["tipif"] = roman[id]["tipif"]
  BY <1>5, <1>6 DEF F!WithColumns
<1> HIDE DEF merged
<1>8. F!EnrichCsv(export, api, rows)[i] = F!WithColumns(merged[id], blank)
  BY <1>6 DEF F!EnrichCsv, F!MapRows, merged, results, roman, keys
<1> HIDE DEF blank
<1>9. LET row == F!WithColumns(merged[id], blank) IN
      "tipif" \in DOMAIN row /\ row["tipif"] = roman[id]["tipif"]
  BY <1>7 DEF F!WithColumns
<1>10. QED
  BY <1>8, <1>9 DEF roman

\* The file of the client has the calls of the campaign that have a number, sorted.
LEMMA CallsOfMt ==
  ASSUME NEW log, IsTable(log), \A i \in DOMAIN log : log[i].hora \in Int, NEW historial, NEW lines
  PROVE  De(N!RowsWith(N!Campana(log), LAMBDA c : c.phone # N!NoPhone), "hora")
           = De(N!Usuolos(log, historial, lines), "hora")
<1> DEFINE all == N!Campana(log)
           con == N!RowsAt(all, {i \in DOMAIN all : all[i].phone # N!NoPhone})
           indice == N!IndiceClientes(lines)
           filas == [i \in DOMAIN con |-> N!FilaUsuolos(con[i], historial, indice)]
           key == [i \in DOMAIN filas |-> filas[i].hora]
           sorted == Sorted(filas, key)
           usuolos == N!Usuolos(log, historial, lines)
<1>1. \A rows, at : N!RowsAt(rows, at) = RowsAt(rows, at)
  BY DEF N!RowsAt, RowsAt, N!Cardinality, Cardinality
<1>2. \A rows, k : N!Sorted(rows, k) = Sorted(rows, k)
  BY DEF N!Sorted, Sorted, N!Cardinality, Cardinality
<1>3. N!RowsWith(all, LAMBDA c : c.phone # N!NoPhone) = con
  BY DEF N!RowsWith
<1>4. usuolos = [i \in DOMAIN filas |-> N!WithColumns(N!Sorted(filas, key)[i], [intento |-> i])]
  BY DEF N!Usuolos, N!RowsWith, N!MapRows, N!SortBy
<1>5. IsTable(all) /\ \A i \in DOMAIN all : all[i].hora \in Int
  <2> DEFINE at == {i \in DOMAIN log : log[i].grupo = "M"}
  <2>1. all = RowsAt(log, at) /\ at \in SUBSET DOMAIN log
    BY <1>1 DEF N!Campana, N!RowsWith
  <2> HIDE DEF all, at
  <2>2. /\ IsTable(RowsAt(log, at))
        /\ \A k \in DOMAIN RowsAt(log, at) : \E i \in at : RowsAt(log, at)[k] = log[i]
    BY <2>1, RowsAtAreRows
  <2>3. QED
    BY <2>1, <2>2
<1> HIDE DEF all
<1>6. IsTable(con) /\ \A i \in DOMAIN con : con[i].hora \in Int
  <2> DEFINE at == {i \in DOMAIN all : all[i].phone # N!NoPhone}
  <2>1. con = RowsAt(all, at) /\ at \in SUBSET DOMAIN all
    BY <1>1
  <2> HIDE DEF con, at
  <2>2. /\ IsTable(RowsAt(all, at))
        /\ \A k \in DOMAIN RowsAt(all, at) : \E i \in at : RowsAt(all, at)[k] = all[i]
    BY <1>5, <2>1, RowsAtAreRows
  <2>3. QED
    BY <1>5, <2>1, <2>2
<1> HIDE DEF con, indice
<1>7. \A i \in DOMAIN con : "hora" \in DOMAIN filas[i] /\ filas[i].hora = con[i].hora
  BY DEF N!FilaUsuolos
<1>8. IsTable(filas) /\ DOMAIN filas = DOMAIN con
  <2>1. filas = [i \in DOMAIN con |-> filas[i]]
    OBVIOUS
  <2> HIDE DEF filas
  <2>2. QED
    BY <1>6, <2>1, MappedTable
<1> HIDE DEF filas
<1>9. \A i \in DOMAIN filas : key[i] \in Int
  BY <1>6, <1>7, <1>8
<1> HIDE DEF key
<1>10. /\ DOMAIN sorted = DOMAIN filas
       /\ \A n \in DOMAIN filas : \E i \in DOMAIN filas : sorted[n] = filas[i]
       /\ \A i \in DOMAIN filas : \E n \in DOMAIN filas : sorted[n] = filas[i]
  BY <1>8, <1>9, SortedRows
<1> HIDE DEF sorted, usuolos
<1>11. ASSUME NEW n \in DOMAIN filas PROVE usuolos[n].hora = sorted[n].hora
  <2>1. usuolos[n] = N!WithColumns(sorted[n], [intento |-> n])
    BY <1>2, <1>4 DEF sorted
  <2>2. "hora" \in DOMAIN sorted[n]
    BY <1>7, <1>8, <1>10
  <2>3. QED
    BY <2>1, <2>2 DEF N!WithColumns
<1>12. DOMAIN usuolos = DOMAIN filas
  BY <1>4
<1>13. De(usuolos, "hora") = De(con, "hora")
  <2>1. ASSUME NEW n \in DOMAIN usuolos PROVE usuolos[n].hora \in De(con, "hora")
    <3>1. PICK i \in DOMAIN filas : sorted[n] = filas[i]
      BY <1>10, <1>12
    <3>2. usuolos[n].hora = con[i].hora /\ i \in DOMAIN con
      BY <1>7, <1>8, <1>11, <1>12, <3>1
    <3>3. QED
      BY <3>2 DEF De
  <2>2. ASSUME NEW i \in DOMAIN con PROVE con[i].hora \in De(usuolos, "hora")
    <3>1. PICK n \in DOMAIN filas : sorted[n] = filas[i]
      BY <1>8, <1>10
    <3>2. usuolos[n].hora = con[i].hora /\ n \in DOMAIN usuolos
      BY <1>7, <1>8, <1>11, <1>12, <3>1
    <3>3. QED
      BY <3>2 DEF De
  <2>3. QED
    BY <2>1, <2>2 DEF De
<1>14. QED
  BY <1>3, <1>13 DEF all, usuolos

\* A correction of ROMAN changes a call and never drops one.
LEMMA CallsOfClaro ==
  ASSUME NEW calls, NEW api, NEW roman
  PROVE  DOMAIN S!Merge(S!ObtenerLlamadas(calls, api), roman) = Range(calls) \ {S!NaN}
<1>1. DOMAIN S!ObtenerLlamadas(calls, api) = Range(calls) \ {S!NaN}
  BY DEF S!ObtenerLlamadas, S!Range, Range
<1> DEFINE retell == S!ObtenerLlamadas(calls, api)
<1> HIDE DEF retell
<1>2. DOMAIN S!Merge(retell, roman) = DOMAIN retell
  BY DEF S!Merge
<1>3. QED
  BY <1>1, <1>2 DEF retell

\* The rows of an export of Fravega with what is known of their calls, and the calls
\* of a log of MT that go to the file of the client.
Enriquecidas(rows, e) == rows = F!EnrichCsv(e.export, e.api, e.roman)
Marcadas(e) == De(N!RowsWith(N!Campana(e.log), LAMBDA c : c.phone # N!NoPhone), "hora")

\* What the scripts of the results have written of the calls of their export.
LlamadasInv ==
  /\ job = "epec resultados" =>
       /\ codigo = Running \/ codigo = "ok"
       /\ codigo = Running => paso \in {"inicio", "reporte", "actualizar"}
       /\ codigo = Running /\ paso # "inicio" =>
            "enriched" \in DOMAIN carpeta /\ De(Rows("enriched"), "id") = De(entrada.export, "id")
       /\ codigo = "ok" => De(Entregado("enriched"), "id") = De(entrada.export, "id")
  /\ job = "fravega resultados" /\ codigo = "ok" =>
       Enriquecidas(Entregado("enriched"), entrada)
  /\ job = "mt resultados" /\ codigo = "ok" => Marcadas(entrada) = De(Entregado("usuolos"), "hora")
  /\ job = "claro resultados" /\ codigo = "ok" =>
       DOMAIN Entregado("encuestas") = Range(entrada.calls) \ {S!NaN}

\* A script of one step delivers what it writes.
LEMMA OneStepDelivers ==
  ASSUME NEW files, Hace(files)
  PROVE  codigo' = "ok" /\ \A f \in DOMAIN files : f \in DOMAIN salida' /\ salida'[f] = files[f]
BY DEF Hace, Entrega, Publica, Con

LEMMA LlamadasInvNext ==
  ASSUME EntradaPosible, LlamadasInv, [Next]_vars
  PROVE  LlamadasInv'
<1>1. CASE UNCHANGED vars
  BY <1>1 DEF vars, LlamadasInv, Rows, Entregado
<1>2. CASE Next
  <2>1. UNCHANGED <<job, entrada>> /\ EsEntrada(job, entrada)
    BY <1>2, StepsOfAJob, EntradasAssumption DEF EntradaPosible
  <2>2. CASE Medianoche
    BY <2>1, <2>2 DEF Medianoche, LlamadasInv, Rows, Entregado
  <2>3. CASE job = "epec resultados" /\ ~Medianoche
    <3>1. CASE EpecEnriquece
      <4> DEFINE call == [id \in DOMAIN entrada.replies |-> E!GetCall(entrada.replies[id], entrada.datos[id])]
                 df == E!MergeRoman(E!Enrich(entrada.export, call), entrada.roman)
      <4>1. carpeta' = Con([enriched |-> Hoy(df)]) /\ codigo' = Running /\ paso' = "reporte"
        BY <3>1 DEF EpecEnriquece, Sigue, En
      <4> HIDE DEF call
      <4>2. De(df, "id") = De(entrada.export, "id")
        BY <2>1, <2>3, CallsOfEpec, EsTablaIsTable DEF EsEntrada
      <4> HIDE DEF df
      <4>3. "enriched" \in DOMAIN carpeta' /\ carpeta'["enriched"].rows = df
        BY <4>1 DEF Con, Hoy
      <4>4. QED
        BY <2>1, <2>3, <4>1, <4>2, <4>3 DEF LlamadasInv, Rows, Running
    <3>2. CASE EpecReporte
      <4> DEFINE rows == Hoy(E!Report(Rows("enriched"), dia))
      <4>1. /\ carpeta' = Con([reporte |-> rows]) /\ codigo' = Running /\ paso' = "actualizar"
            /\ codigo = Running /\ paso = "reporte"
        BY <3>2 DEF EpecReporte, Sigue, En
      <4> HIDE DEF rows
      <4>2. "enriched" \in DOMAIN carpeta /\ De(Rows("enriched"), "id") = De(entrada.export, "id")
        BY <2>3, <4>1 DEF LlamadasInv
      <4>3. "enriched" \in DOMAIN carpeta' /\ carpeta'["enriched"] = carpeta["enriched"]
        BY <4>1, <4>2 DEF Con
      <4>4. QED
        BY <2>1, <2>3, <4>1, <4>2, <4>3 DEF LlamadasInv, Rows, Running
    <3>3. CASE EpecActualiza
      <4> DEFINE call == [id \in DOMAIN entrada.replies |-> E!GetCall(entrada.replies[id], entrada.datos[id])]
                 rows == Hoy(E!Actualizar(Rows("reporte"), call, dia))
      <4>1. /\ carpeta' = Con([reporte |-> rows]) /\ codigo' = "ok"
            /\ salida' = [f \in {"enriched", "reporte"} \cap DOMAIN carpeta' |-> carpeta'[f]]
            /\ codigo = Running /\ paso = "actualizar"
        BY <3>3 DEF EpecActualiza, Entrega, Publica, En
      <4> HIDE DEF call, rows
      <4>2. "enriched" \in DOMAIN carpeta /\ De(Rows("enriched"), "id") = De(entrada.export, "id")
        BY <2>3, <4>1 DEF LlamadasInv
      <4>3. "enriched" \in DOMAIN carpeta' /\ carpeta'["enriched"] = carpeta["enriched"]
        BY <4>1, <4>2 DEF Con
      <4>4. salida'["enriched"] = carpeta["enriched"]
        BY <4>1, <4>3
      <4>5. QED
        BY <2>1, <2>3, <4>1, <4>2, <4>4 DEF LlamadasInv, Rows, Entregado, Running
    <3>4. QED
      BY <1>2, <2>3, <3>1, <3>2, <3>3, StepsOfAJob
  <2>4. CASE job = "fravega resultados" /\ ~Medianoche
    <3>1. FravegaResultados
      BY <1>2, <2>4, StepsOfAJob
    <3>2. CASE Falla
      BY <2>1, <2>4, <3>2 DEF Falla, LlamadasInv
    <3>3. CASE ~Falla
      <4> DEFINE e == F!EnrichCsv(entrada.export, entrada.api, entrada.roman)
                 files == [enriched |-> Hoy(e),
                           tipif |-> Hoy(F!UpdateTipif(F!GenerateTipif(entrada.export, entrada.api,
                                                                       entrada.roman),
                                                       entrada.export))]
      <4>1. Hace(files)
        BY <3>1, <3>3 DEF FravegaResultados
      <4>2. "enriched" \in DOMAIN files /\ files["enriched"].rows = e
        BY DEF Hoy
      <4> HIDE DEF files, e
      <4>3. codigo' = "ok" /\ salida'["enriched"].rows = e
        BY <4>1, <4>2, OneStepDelivers
      <4>4. Enriquecidas(e, entrada)
        BY DEF Enriquecidas, e
      <4>5. QED
        BY <2>1, <2>4, <4>3, <4>4 DEF LlamadasInv, Entregado
    <3>4. QED
      BY <3>2, <3>3
  <2>5. CASE job = "mt resultados" /\ ~Medianoche
    <3>1. MtResultados
      BY <1>2, <2>5, StepsOfAJob
    <3>2. CASE Falla
      BY <2>1, <2>5, <3>2 DEF Falla, LlamadasInv
    <3>3. CASE ~Falla
      <4> DEFINE u == N!Usuolos(entrada.log, entrada.historial, entrada.base)
                 files == [usuolos |-> Hoy(u),
                           tipificaciones |-> Hoy(N!GenerarTipificaciones(entrada.roman)),
                           valido |-> Hoy(N!ValidarLogcall(entrada.log, entrada.ratio))]
      <4>1. Hace(files)
        BY <3>1, <3>3 DEF MtResultados
      <4>2. "usuolos" \in DOMAIN files /\ files["usuolos"].rows = u
        BY DEF Hoy
      <4>3. Marcadas(entrada) = De(u, "hora")
        <5>1. IsTable(entrada.log) /\ \A i \in DOMAIN entrada.log : entrada.log[i].hora \in Int
          BY <2>1, <2>5, EsTablaIsTable DEF EsEntrada
        <5>2. QED
          BY <5>1, CallsOfMt DEF Marcadas
      <4> HIDE DEF files, u
      <4>4. codigo' = "ok" /\ salida'["usuolos"].rows = u
        BY <4>1, <4>2, OneStepDelivers
      <4>5. QED
        BY <2>1, <2>5, <4>3, <4>4 DEF LlamadasInv, Entregado
    <3>4. QED
      BY <3>2, <3>3
  <2>6. CASE job = "claro resultados" /\ ~Medianoche
    <3>1. ClaroResultados
      BY <1>2, <2>6, StepsOfAJob
    <3> DEFINE m == S!Merge(S!ObtenerLlamadas(entrada.calls, entrada.api), S!ObtenerRoman(entrada.roman))
               files == [encuestas |-> Hoy(m)]
    <3>2. Hace(files)
      BY <3>1 DEF ClaroResultados
    <3>3. "encuestas" \in DOMAIN files /\ files["encuestas"].rows = m
      BY DEF Hoy
    <3>4. DOMAIN m = Range(entrada.calls) \ {S!NaN}
      BY CallsOfClaro
    <3> HIDE DEF files, m
    <3>5. codigo' = "ok" /\ salida'["encuestas"].rows = m
      BY <3>2, <3>3, OneStepDelivers
    <3>6. QED
      BY <2>1, <2>6, <3>4, <3>5 DEF LlamadasInv, Entregado
  <2>7. CASE job \notin {"epec resultados", "fravega resultados", "mt resultados", "claro resultados"}
    BY <2>1, <2>7 DEF LlamadasInv
  <2>8. QED
    BY <2>2, <2>3, <2>4, <2>5, <2>6, <2>7
<1>3. QED
  BY <1>1, <1>2

\* A call of the export is in the result of every campaign, whatever the service
\* answered of it and whatever ROMAN says of it, repeats or omits.
THEOREM CallsSurvive == Spec => []CallsAreNotLost
<1> DEFINE Inv == EntradaPosible /\ BancorResultadosInv /\ LlamadasInv
<1>1. Init => Inv
  <2> SUFFICES ASSUME Init PROVE Inv
    OBVIOUS
  <2>1. codigo = Running /\ paso = "inicio"
    BY DEF Init
  <2>2. EntradaPosible
    BY EntradaInv
  <2>3. BancorResultadosInv
    BY <2>1 DEF BancorResultadosInv, Running
  <2>4. LlamadasInv
    BY <2>1 DEF LlamadasInv, Running
  <2>5. QED
    BY <2>2, <2>3, <2>4
<1>2. Inv /\ [Next]_vars => Inv'
  BY EntradaInv, BancorResultadosInvNext, LlamadasInvNext
<1>3. Inv => CallsAreNotLost
  <2> SUFFICES ASSUME Inv PROVE CallsAreNotLost
    OBVIOUS
  <2>1. Salio("bancor resultados") => Range(entrada.calls) \ {R!NaN} = DOMAIN Entregado("gestiones")
    BY DEF BancorResultadosInv, Salio
  <2>2. Salio("epec resultados") => De(entrada.export, "id") = De(Entregado("enriched"), "id")
    BY DEF LlamadasInv, Salio
  <2>3. ASSUME Salio("fravega resultados")
        PROVE  /\ DOMAIN Entregado("enriched") = DOMAIN entrada.export
               /\ AlgunaTrae => \A i \in DOMAIN entrada.export : RomanDice(i) => Corregida(i)
    <3> DEFINE export == entrada.export  api == entrada.api  rows == entrada.roman
    <3>1. Entregado("enriched") = F!EnrichCsv(export, api, rows)
      BY <2>3 DEF LlamadasInv, Salio, Enriquecidas
    <3>2. DOMAIN F!EnrichCsv(export, api, rows) = DOMAIN export
      BY DEF F!EnrichCsv, F!MapRows
    <3>3. ASSUME AlgunaTrae, NEW i \in DOMAIN export, RomanDice(i) PROVE Corregida(i)
      <4>1. PICK c \in F!CallIds(export) :
               F!Sabe(F!GetCall(api[c])) /\ "tipif" \in DOMAIN F!GetCall(api[c]).trae
        BY <3>3 DEF AlgunaTrae
      <4>2. /\ export[i].id \in DOMAIN F!ReadRoman(rows)
            /\ "tipif" \in DOMAIN F!ReadRoman(rows)[export[i].id]
            /\ F!ReadRoman(rows)[export[i].id].tipif \notin {F!Blank, "-"}
        BY <3>3 DEF RomanDice
      <4> HIDE DEF export, api, rows
      <4>3. LET row == F!EnrichCsv(export, api, rows)[i] IN
            "tipif" \in DOMAIN row /\ row.tipif = F!ReadRoman(rows)[export[i].id].tipif
        BY ONLY <3>3, <4>1, <4>2, CallsOfFravega
      <4>4. QED
        BY <3>1, <4>3 DEF Corregida, export, rows
    <3>4. QED
      BY <3>1, <3>2, <3>3
  <2>4. Salio("mt resultados") => Marcadas(entrada) = De(Entregado("usuolos"), "hora")
    BY DEF LlamadasInv, Salio
  <2>5. Salio("claro resultados") => Range(entrada.calls) \ {S!NaN} = DOMAIN Entregado("encuestas")
    BY DEF LlamadasInv, Salio
  <2>6. QED
    BY <2>1, <2>2, <2>3, <2>4, <2>5 DEF CallsAreNotLost, Marcadas
<1>4. QED
  BY <1>1, <1>2, <1>3, PTL DEF Spec

-----------------------------------------------------------------------------
(* nobody is lost *)

\* clean_base groups the rows by client, and the blank client is one.
LEMMA ClientsOfFravega ==
  ASSUME NEW rows, IsTable(rows), \A i \in DOMAIN rows : "dni" \in DOMAIN rows[i]
  PROVE  EnMora(rows) \subseteq De(F!CleanBase(rows), "dni")
<1> DEFINE at == {i \in DOMAIN rows : rows[i].dias >= 0}
           con == RowsAt(rows, at)
           celular == [i \in DOMAIN con |-> [con[i] EXCEPT !.cel = F!FormatCel(@)]]
           first == {i \in DOMAIN celular : \A j \in 1..(i - 1) : celular[j].dni # celular[i].dni}
           firsts == RowsAt(celular, first)
           Same(f) == {i \in DOMAIN celular : celular[i].dni = f.dni}
           base == [k \in DOMAIN firsts |-> F!Consolidar(RowsAt(celular, Same(firsts[k])))]
<1>1. F!CleanBase(rows) = base
  <2>1. \A r, set : F!RowsAt(r, set) = RowsAt(r, set)
    BY DEF F!RowsAt, RowsAt, F!Cardinality, Cardinality
  <2>2. F!RowsWith(rows, LAMBDA r : r.dias >= 0) = con
    BY <2>1 DEF F!RowsWith
  <2> HIDE DEF con
  <2>3. F!CleanBase(rows) = F!Clientes(celular)
    BY <2>2 DEF F!CleanBase, F!MapRows
  <2> HIDE DEF celular
  <2>4. F!Clientes(celular) = base
    BY <2>1 DEF F!Clientes, F!KeepFirst, F!RowsWith, F!MapRows
  <2>5. QED
    BY <2>3, <2>4
<1>2. /\ IsTable(con) /\ \A k \in DOMAIN con : \E i \in at : con[k] = rows[i]
      /\ \A i \in at : \E k \in DOMAIN con : con[k] = rows[i]
  <2>1. at \in SUBSET DOMAIN rows
    OBVIOUS
  <2> HIDE DEF at
  <2>2. QED
    BY <2>1, RowsAtAreRows
<1> HIDE DEF con
<1>3. \A k \in DOMAIN con : celular[k].dni = con[k].dni
  BY <1>2
<1>4. IsTable(celular) /\ DOMAIN celular = DOMAIN con
  BY <1>2, MappedTable
<1> HIDE DEF celular
<1>5. ASSUME NEW i \in DOMAIN celular PROVE \E j \in first : celular[j].dni = celular[i].dni
  <2> DEFINE key == [k \in DOMAIN celular |-> celular[k].dni]
  <2>1. \A k \in DOMAIN celular : key[k] = celular[k].dni
    OBVIOUS
  <2> HIDE DEF key
  <2>2. PICK j \in {k \in DOMAIN celular : \A m \in 1..(k - 1) : key[m] # key[k]} : key[j] = key[i]
    BY <1>4, FirstOfEachKey
  <2>3. Len(celular) \in Nat /\ DOMAIN celular = 1..Len(celular)
    BY <1>4, TableShape
  <2>4. ASSUME NEW m \in 1..(j - 1) PROVE celular[m].dni # celular[j].dni
    BY <2>1, <2>2, <2>3
  <2>5. QED
    BY <2>1, <2>2, <2>4
<1>6. /\ \A k \in DOMAIN firsts : \E i \in first : firsts[k] = celular[i]
      /\ \A i \in first : \E k \in DOMAIN firsts : firsts[k] = celular[i]
  <2>1. first \in SUBSET DOMAIN celular
    OBVIOUS
  <2> HIDE DEF first
  <2>2. QED
    BY <1>4, <2>1, RowsAtAreRows
<1> HIDE DEF firsts
<1>7. ASSUME NEW k \in DOMAIN firsts PROVE base[k].dni = firsts[k].dni
  <2> DEFINE mine == Same(firsts[k])
  <2>1. mine \in SUBSET DOMAIN celular /\ mine # {} /\ \A i \in mine : celular[i].dni = firsts[k].dni
    BY <1>6
  <2> HIDE DEF mine
  <2>2. RowsAt(celular, mine)[1].dni = firsts[k].dni
    BY <1>4, <2>1, FirstRow
  <2>3. base[k].dni = RowsAt(celular, mine)[1].dni
    BY DEF F!Consolidar, mine
  <2>4. QED
    BY <2>2, <2>3
<1>8. ASSUME NEW i \in at PROVE rows[i].dni \in De(base, "dni")
  <2>1. PICK m \in DOMAIN celular : celular[m].dni = rows[i].dni
    BY <1>2, <1>3, <1>4
  <2>2. PICK k \in DOMAIN firsts : firsts[k].dni = celular[m].dni
    BY <1>5, <1>6
  <2>3. k \in DOMAIN base
    OBVIOUS
  <2> HIDE DEF base
  <2>4. QED
    BY <1>7, <2>1, <2>2, <2>3 DEF De
<1>9. QED
  BY <1>1, <1>8 DEF EnMora, at

\* generate_base has a row per document.
LEMMA DocumentsOfSocial ==
  ASSUME NEW rows, IsTable(rows)
  PROVE  De(rows, "id") \ {S!NoKey} \subseteq De(S!GenerateBase(rows), "id")
<1> DEFINE groups == GroupsByAppearance(rows, "id")
           base == [k \in DOMAIN groups |-> S!Portfolio(groups[k])]
<1>1. S!GroupsByAppearance(rows, "id") = groups
  BY DEF S!GroupsByAppearance, GroupsByAppearance, S!KeepFirst, KeepFirst, S!RowsWith, RowsWith,
         S!MapRows, MapRows, S!RowsAt, RowsAt, S!Cardinality, Cardinality, S!NoKey, NoKey
<1>2. \A i \in DOMAIN rows : rows[i]["id"] # NoKey =>
        \E k \in DOMAIN groups : groups[k][1]["id"] = rows[i]["id"]
  BY GroupsAreWhole
<1> HIDE DEF groups
<1>3. S!GenerateBase(rows) = base
  BY <1>1 DEF S!GenerateBase, S!MapRows
<1>4. \A k \in DOMAIN groups : base[k].id = groups[k][1].id
  BY DEF S!Portfolio
<1>5. ASSUME NEW i \in DOMAIN rows, rows[i].id # S!NoKey PROVE rows[i].id \in De(base, "id")
  <2>1. PICK k \in DOMAIN groups : groups[k][1].id = rows[i].id
    BY <1>2, <1>5 DEF S!NoKey, NoKey
  <2>2. k \in DOMAIN base /\ base[k].id = rows[i].id
    BY <1>4, <2>1
  <2> HIDE DEF base
  <2>3. QED
    BY <2>2 DEF De
<1> HIDE DEF base
<1>6. QED
  BY SMTT(30), <1>3, <1>5 DEF De

\* Of the clients of a number Claro keeps the first.
NumerosDeClaro(file) == {S!LimpiarMsisdn(p) : p \in De(file.rows, "phone")} \ {S!NoPhone}
LEMMA NumbersOfClaro ==
  ASSUME NEW file, IsTable(file.rows)
  PROVE  NumerosDeClaro(file) \subseteq S!ExtraerTelefonos(S!Deduplicar(S!ProcesarBase(file)).unicos)
<1> DEFINE base == S!ProcesarBase(file)
           first == {i \in DOMAIN base : \A j \in 1..(i - 1) : base[j].msisdn # base[i].msisdn}
           unicos == RowsAt(base, first)
<1>1. /\ DOMAIN base = DOMAIN file.rows /\ base = [i \in DOMAIN file.rows |-> base[i]]
      /\ \A i \in DOMAIN file.rows : base[i].msisdn = S!LimpiarMsisdn(file.rows[i].phone)
  BY DEF S!ProcesarBase
<1> HIDE DEF base
<1>2. IsTable(base)
  BY <1>1, MappedTable
<1>3. S!Deduplicar(base).unicos = unicos
  BY DEF S!Deduplicar, S!KeepFirst, S!RowsAt, RowsAt, S!Cardinality, Cardinality
<1>4. ASSUME NEW i \in DOMAIN base PROVE \E j \in first : base[j].msisdn = base[i].msisdn
  <2> DEFINE key == [k \in DOMAIN base |-> base[k].msisdn]
  <2>1. \A k \in DOMAIN base : key[k] = base[k].msisdn
    OBVIOUS
  <2> HIDE DEF key
  <2>2. PICK j \in {k \in DOMAIN base : \A m \in 1..(k - 1) : key[m] # key[k]} : key[j] = key[i]
    BY <1>2, FirstOfEachKey
  <2>3. Len(base) \in Nat /\ DOMAIN base = 1..Len(base)
    BY <1>2, TableShape
  <2>4. ASSUME NEW m \in 1..(j - 1) PROVE base[m].msisdn # base[j].msisdn
    BY <2>1, <2>2, <2>3
  <2>5. QED
    BY <2>1, <2>2, <2>4
<1>5. \A i \in first : \E k \in DOMAIN unicos : unicos[k] = base[i]
  <2>1. first \in SUBSET DOMAIN base
    OBVIOUS
  <2> HIDE DEF first
  <2>2. QED
    BY <1>2, <2>1, RowsAtAreRows
<1> HIDE DEF unicos, first
<1>6. ASSUME NEW i \in DOMAIN file.rows, S!LimpiarMsisdn(file.rows[i].phone) # S!NoPhone
      PROVE  S!LimpiarMsisdn(file.rows[i].phone) \in S!ExtraerTelefonos(unicos)
  <2>1. PICK k \in DOMAIN unicos : unicos[k].msisdn = base[i].msisdn
    BY <1>1, <1>4, <1>5
  <2>2. unicos[k].msisdn = S!LimpiarMsisdn(file.rows[i].phone)
    BY <1>1, <2>1
  <2>3. QED
    BY <1>6, <2>2 DEF S!ExtraerTelefonos
<1>7. QED
  BY <1>3, <1>6 DEF NumerosDeClaro, De, base

\* A row of the CX survey is in both files.
LEMMA RowsOfCx ==
  ASSUME NEW rows
  PROVE  LET base == S!Transform(rows) IN
         De(rows, "id") \subseteq De(base, "id") \cap De(S!LoadE164(base), "id")
<1> DEFINE base == S!Transform(rows)  e164 == S!LoadE164(base)
<1>1. /\ DOMAIN base = DOMAIN rows
      /\ \A i \in DOMAIN rows : base[i] = [id |-> rows[i].id, phone |-> S!NormalizePhone(rows[i].phone)]
  BY DEF S!Transform, S!MapRows
<1>2. DOMAIN e164 = DOMAIN base /\ \A i \in DOMAIN base :
        e164[i] = IF base[i].phone.n = S!Blank THEN base[i] ELSE [base[i] EXCEPT !.phone.pre = "+"]
  BY DEF S!LoadE164, S!MapRows
<1> HIDE DEF base, e164
<1>3. \A i \in DOMAIN rows : base[i].id = rows[i].id /\ e164[i].id = rows[i].id
  BY <1>1, <1>2
<1>4. De(rows, "id") \subseteq De(base, "id") \cap De(e164, "id")
  BY <1>1, <1>2, <1>3 DEF De
<1>5. QED
  BY <1>4 DEF base, e164

\* The list of MT is the base sorted: a line of another number of columns goes on too.
LEMMA ClientsOfMt ==
  ASSUME NEW lines, IsTable(lines),
         \A i \in DOMAIN lines : {"id", "tels"} \subseteq DOMAIN lines[i] /\ IsTable(lines[i].tels)
  PROVE  LET roman == N!ProcesarBase(lines) IN
         De(lines, "id") \subseteq De(roman, "id") \cap De(N!ExtraerTelefonos(roman), "id")
<1> DEFINE roman == N!ProcesarBase(lines)
           key == [i \in DOMAIN roman |-> -N!Cardinality(N!Telefonos(roman[i]))]
           sorted == Sorted(roman, key)
           e1kia == N!ExtraerTelefonos(roman)
<1>1. roman = [i \in DOMAIN lines |-> N!ProcesarLinea(lines[i])]
  BY DEF N!ProcesarBase, N!MapRows
<1>2. ASSUME NEW i \in DOMAIN lines
      PROVE  roman[i].id = lines[i].id /\ DOMAIN roman[i].tels = DOMAIN lines[i].tels
  <2> DEFINE line == lines[i]
             tels == [k \in DOMAIN line.tels |-> N!NormalizarTelefono(line.tels[k], line.grupos, k)]
  <2>1. roman[i] = N!ProcesarLinea(line) /\ "id" \in DOMAIN line /\ "tels" \in DOMAIN line
    BY <1>1
  <2>2. N!ProcesarLinea(line) = IF ~line.columnas THEN line ELSE [line EXCEPT !.tels = tels]
    BY DEF N!ProcesarLinea
  <2> HIDE DEF roman, tels, line
  <2>3. [line EXCEPT !.tels = tels].id = line.id /\ [line EXCEPT !.tels = tels].tels = tels
    BY <2>1
  <2>4. DOMAIN tels = DOMAIN line.tels
    BY DEF tels
  <2>5. QED
    BY <2>1, <2>2, <2>3, <2>4 DEF line
<1>3. IsTable(roman) /\ DOMAIN roman = DOMAIN lines
  BY <1>1, MappedTable
<1> HIDE DEF roman
<1>4. ASSUME NEW i \in DOMAIN roman PROVE key[i] \in Int
  <2> DEFINE set == N!Telefonos(roman[i])
  <2>1. set \subseteq DOMAIN lines[i].tels
    BY <1>2, <1>3 DEF N!Telefonos
  <2>2. IsFiniteSet(DOMAIN lines[i].tels)
    <3> DEFINE tels == lines[i].tels
    <3>1. IsTable(tels)
      BY <1>3
    <3> HIDE DEF tels
    <3>2. Len(tels) \in Nat /\ DOMAIN tels = 1..Len(tels)
      BY <3>1, TableShape
    <3>3. QED
      BY <3>2, FS_Interval DEF tels
  <2> HIDE DEF set
  <2>3. Cardinality(set) \in Nat
    BY <2>1, <2>2, FS_Subset, FS_CardinalityType
  <2>4. N!Cardinality(set) = Cardinality(set)
    BY DEF N!Cardinality, Cardinality
  <2>5. key[i] = -Cardinality(set)
    BY <2>4 DEF set
  <2>6. QED
    BY <2>3, <2>5
<1>5. e1kia = [i \in DOMAIN sorted |-> [tels |-> sorted[i].tels, id |-> sorted[i].id]]
  BY DEF N!ExtraerTelefonos, N!MapRows, N!SortBy, N!Sorted, Sorted, N!Cardinality, Cardinality
<1> HIDE DEF key
<1>6. DOMAIN sorted = DOMAIN roman /\ \A i \in DOMAIN roman : \E n \in DOMAIN roman : sorted[n] = roman[i]
  BY <1>3, <1>4, SortedRows
<1> HIDE DEF sorted, e1kia
<1>7. DOMAIN e1kia = DOMAIN roman /\ \A n \in DOMAIN roman : e1kia[n].id = sorted[n].id
  BY <1>5, <1>6
<1>8. ASSUME NEW i \in DOMAIN lines PROVE lines[i].id \in De(roman, "id") /\ lines[i].id \in De(e1kia, "id")
  <2>1. PICK n \in DOMAIN roman : sorted[n] = roman[i]
    BY <1>3, <1>6
  <2>2. e1kia[n].id = lines[i].id /\ roman[i].id = lines[i].id
    BY <1>2, <1>7, <2>1
  <2>3. QED
    BY <1>3, <1>7, <2>2 DEF De
<1>9. De(lines, "id") \subseteq De(roman, "id") \cap De(e1kia, "id")
  BY <1>8 DEF De
<1>10. QED
  BY <1>9 DEF roman, e1kia

\* Every client of the four banks has its managements in the file of all of them.
LEMMA ClientsOfPetersen ==
  ASSUME NEW roman, IsTable(roman), NEW alta, NEW now
  PROVE  {P!NroCliente(c) : c \in DeLosBancos(roman)} \ {P!NoClient}
           \subseteq De(P!ExportAll(P!GenerateTipif(roman, alta, now, TRUE)), "cliente")
<1> DEFINE at == [b \in P!Banks |-> {i \in DOMAIN roman :
                    /\ roman[i].banco = b /\ roman[i].efecto # P!Blank
                    /\ P!NroCliente(roman[i].cliente) # P!NoClient}]
           files == [b \in P!Banks |-> [k \in DOMAIN RowsAt(roman, at[b]) |->
                                          P!MapRow(RowsAt(roman, at[b])[k], alta, now)]]
           seqs == <<files["BSF"], files["BER"], files["BSC"], files["BSJ"]>>
           flat == FlattenSeq(seqs)
           all == [i \in DOMAIN flat |->
                     IF flat[i].llamada = P!NoDate THEN flat[i] ELSE [flat[i] EXCEPT !.alta = flat[i].llamada]]
<1>1. P!GenerateTipif(roman, alta, now, TRUE) = files
  <2> DEFINE in == [b \in P!Banks |-> {i \in DOMAIN roman :
                    /\ roman[i].banco = b /\ roman[i].efecto # P!Blank
                    /\ P!NroCliente(roman[i].cliente) # P!NoClient
                    /\ roman[i].efecto # "RELLAMAR" \/ TRUE}]
  <2>1. in = at
    OBVIOUS
  <2>2. P!GenerateTipif(roman, alta, now, TRUE) =
          [b \in P!Banks |-> [k \in DOMAIN P!RowsAt(roman, in[b]) |->
                                P!MapRow(P!RowsAt(roman, in[b])[k], alta, now)]]
    BY DEF P!GenerateTipif, P!MapRows, P!RowsWith
  <2> HIDE DEF in, at
  <2>3. QED
    BY <2>1, <2>2, PetersenTables
<1>2. ASSUME NEW b \in P!Banks
      PROVE  /\ IsTable(files[b])
             /\ \A k \in DOMAIN files[b] : {"cliente", "llamada"} \subseteq DOMAIN files[b][k]
             /\ \A i \in at[b] : \E k \in DOMAIN files[b] :
                  files[b][k].cliente = P!NroCliente(roman[i].cliente)
  <2> DEFINE set == at[b]  rows == RowsAt(roman, set)
             file == [k \in DOMAIN rows |-> P!MapRow(rows[k], alta, now)]
  <2>1. set \in SUBSET DOMAIN roman
    OBVIOUS
  <2> HIDE DEF set
  <2>2. IsTable(rows) /\ \A i \in set : \E k \in DOMAIN rows : rows[k] = roman[i]
    BY <2>1, RowsAtAreRows
  <2> HIDE DEF rows
  <2>3. IsTable(file)
    BY <2>2, MappedTable
  <2>4. \A k \in DOMAIN rows : /\ {"cliente", "llamada"} \subseteq DOMAIN file[k]
                               /\ file[k].cliente = P!NroCliente(rows[k].cliente)
    BY DEF P!MapRow
  <2>5. DOMAIN file = DOMAIN rows /\ files[b] = file
    BY DEF rows, set
  <2> HIDE DEF file, files
  <2>6. QED
    BY <2>2, <2>3, <2>4, <2>5 DEF set
<1> HIDE DEF files
<1>3. IsTable(seqs) /\ DOMAIN seqs = 1..4
  <2>1. seqs = [i \in 1..4 |-> seqs[i]]
    OBVIOUS
  <2> HIDE DEF seqs
  <2>2. QED
    BY <2>1, TableIntro
<1>4. /\ \A i \in DOMAIN seqs : \E b \in P!Banks : seqs[i] = files[b]
      /\ \A b \in P!Banks : \E i \in DOMAIN seqs : seqs[i] = files[b]
  BY <1>3 DEF P!Banks
<1>5. P!ExportAll(files) = all
  <2> DEFINE names == <<"BSF", "BER", "BSC", "BSJ">>
  <2>1. P!MapRows(LAMBDA b : files[b], names) = seqs
    <3>1. DOMAIN names = 1..4 /\ names[1] = "BSF" /\ names[2] = "BER" /\ names[3] = "BSC" /\ names[4] = "BSJ"
      OBVIOUS
    <3>2. P!MapRows(LAMBDA b : files[b], names) = [i \in DOMAIN names |-> files[names[i]]]
      BY DEF P!MapRows
    <3>3. [i \in 1..4 |-> files[names[i]]] = seqs
      BY <3>1
    <3>4. QED
      BY <3>1, <3>2, <3>3
  <2> HIDE DEF seqs
  <2>2. QED
    BY <2>1, PetersenTables DEF P!ExportAll, P!MapRows
<1> HIDE DEF seqs
<1>6. /\ \A k \in DOMAIN flat : \E i \in DOMAIN seqs : \E j \in DOMAIN seqs[i] : flat[k] = seqs[i][j]
      /\ \A i \in DOMAIN seqs : \A j \in DOMAIN seqs[i] : \E k \in DOMAIN flat : flat[k] = seqs[i][j]
  <2>1. \A i \in DOMAIN seqs : IsTable(seqs[i])
    BY <1>2, <1>4
  <2>2. QED
    BY <1>3, <2>1, FlattenOfTables
<1> HIDE DEF flat
<1>7. ASSUME NEW k \in DOMAIN flat PROVE all[k].cliente = flat[k].cliente
  <2>1. "cliente" \in DOMAIN flat[k]
    BY <1>2, <1>4, <1>6
  <2>2. QED
    BY <2>1
<1>8. ASSUME NEW i \in DOMAIN roman, roman[i].banco \in P!Banks, roman[i].efecto # P!Blank,
             P!NroCliente(roman[i].cliente) # P!NoClient
      PROVE  P!NroCliente(roman[i].cliente) \in De(all, "cliente")
  <2>1. i \in at[roman[i].banco]
    BY <1>8
  <2> HIDE DEF at
  <2>2. PICK k \in DOMAIN files[roman[i].banco] :
          files[roman[i].banco][k].cliente = P!NroCliente(roman[i].cliente)
    BY <1>2, <1>8, <2>1
  <2>3. PICK s \in DOMAIN seqs : seqs[s] = files[roman[i].banco]
    BY <1>4, <1>8
  <2>4. PICK m \in DOMAIN flat : flat[m] = seqs[s][k]
    BY <1>6, <2>2, <2>3
  <2>5. m \in DOMAIN all /\ all[m].cliente = P!NroCliente(roman[i].cliente)
    BY <1>7, <2>2, <2>3, <2>4
  <2> HIDE DEF all
  <2>6. QED
    BY <2>5 DEF De
<1>9. P!ExportAll(P!GenerateTipif(roman, alta, now, TRUE)) = all
  BY <1>1, <1>5
<1> HIDE DEF all
<1>10. ASSUME NEW c \in DeLosBancos(roman), P!NroCliente(c) # P!NoClient
       PROVE  P!NroCliente(c) \in De(all, "cliente")
  BY <1>8, <1>10 DEF DeLosBancos
<1>11. QED
  BY <1>9, <1>10

\* The conversions of EPEC leave the client of a row.
LEMMA EpecRow ==
  ASSUME NEW r, "id" \in DOMAIN r
  PROVE  /\ "id" \in DOMAIN E!Motivo(r) /\ E!Motivo(r).id = r.id
         /\ "id" \in DOMAIN E!Normalizar(r) /\ E!Normalizar(r).id = r.id
         /\ "id" \in DOMAIN E!LimpiarInvalidos(r) /\ E!LimpiarInvalidos(r).id = r.id
<1>1. "id" \in DOMAIN E!Motivo(r) /\ E!Motivo(r).id = r.id
  BY DEF E!Motivo
<1>2. "id" \in DOMAIN E!Normalizar(r) /\ E!Normalizar(r).id = r.id
  BY DEF E!Normalizar
<1>3. "id" \in DOMAIN E!LimpiarInvalidos(r) /\ E!LimpiarInvalidos(r).id = r.id
  BY DEF E!LimpiarInvalidos
<1>4. QED
  BY <1>1, <1>2, <1>3

\* The file of a folder, as it is read.
LEMMA EpecFile ==
  ASSUME NEW file, IsTable(file.rows), \A k \in DOMAIN file.rows : "id" \in DOMAIN file.rows[k]
  PROVE  /\ IsTable(E!LeerArchivo(file)) /\ DOMAIN E!LeerArchivo(file) = DOMAIN file.rows
         /\ \A k \in DOMAIN file.rows : /\ "id" \in DOMAIN E!LeerArchivo(file)[k]
                                        /\ E!LeerArchivo(file)[k].id = file.rows[k].id
<1> DEFINE motivos == [k \in DOMAIN file.rows |-> E!Motivo(file.rows[k])]
           leido == [k \in DOMAIN motivos |-> E!Normalizar(motivos[k])]
<1>1. E!LeerArchivo(file) = leido
  BY DEF E!LeerArchivo, E!MapRows
<1>2. IsTable(motivos) /\ DOMAIN motivos = DOMAIN file.rows
  BY MappedTable
<1>3. \A k \in DOMAIN file.rows : "id" \in DOMAIN motivos[k] /\ motivos[k].id = file.rows[k].id
  BY EpecRow
<1> HIDE DEF motivos
<1>4. IsTable(leido) /\ DOMAIN leido = DOMAIN motivos
  BY <1>2, MappedTable
<1>5. \A k \in DOMAIN motivos : "id" \in DOMAIN leido[k] /\ leido[k].id = motivos[k].id
  BY <1>2, <1>3, EpecRow
<1> HIDE DEF leido
<1>6. QED
  BY <1>1, <1>2, <1>3, <1>4, <1>5

\* A row whose phones are those of no other goes to the base, and every other aside.
LEMMA EpecSeparates ==
  ASSUME NEW df, IsTable(df)
  PROVE  \A i \in DOMAIN df :
           \/ \E k \in DOMAIN E!Separar(df).principal : E!Separar(df).principal[k] = df[i]
           \/ \E k \in DOMAIN E!Separar(df).excluidos : E!Separar(df).excluidos[k] = df[i]
<1> DEFINE Clave(i) == <<df[i].tel, df[i].cel>>
           Como(i) == {k \in DOMAIN df : Clave(k) = Clave(i)}
           una == {i \in DOMAIN df : \A j \in DOMAIN df \ {i} : Clave(j) # Clave(i)}
           otras == {i \in DOMAIN df : Cardinality(Como(i)) > 1}
<1>1. E!Separar(df).principal = RowsAt(df, una) /\ E!Separar(df).excluidos = RowsAt(df, otras)
  BY DEF E!Separar, E!KeepUnique, E!RowsWith, E!RowsAt, RowsAt, E!Cardinality, Cardinality
<1>2. una \in SUBSET DOMAIN df /\ otras \in SUBSET DOMAIN df
  OBVIOUS
<1>3. ASSUME NEW i \in DOMAIN df, i \notin una PROVE i \in otras
  <2>1. PICK j \in DOMAIN df : j # i /\ Clave(j) = Clave(i)
    BY <1>3
  <2> DEFINE set == Como(i)
  <2>2. i \in set /\ j \in set /\ set \in SUBSET (DOMAIN df)
    BY <2>1
  <2>3. IsFiniteSet(set)
    <3>1. Len(df) \in Nat /\ DOMAIN df = 1..Len(df)
      BY TableShape
    <3> HIDE DEF set
    <3>2. IsFiniteSet(DOMAIN df)
      BY <3>1, FS_Interval
    <3>3. QED
      BY ONLY <2>2, <3>2, FS_Subset
  <2> HIDE DEF set
  <2>4. Cardinality(set) \in Nat /\ IsFiniteSet(set \ {i}) /\ Cardinality(set \ {i}) = Cardinality(set) - 1
    BY <2>2, <2>3, FS_CardinalityType, FS_RemoveElement
  <2>5. Cardinality(set \ {i}) \in Nat /\ Cardinality(set \ {i}) # 0
    BY <2>1, <2>2, <2>4, FS_CardinalityType, FS_EmptySet
  <2>6. Cardinality(set) > 1
    BY <2>4, <2>5
  <2>7. QED
    BY <2>6 DEF set
<1> HIDE DEF una, otras
<1>4. /\ \A i \in una : \E k \in DOMAIN RowsAt(df, una) : RowsAt(df, una)[k] = df[i]
      /\ \A i \in otras : \E k \in DOMAIN RowsAt(df, otras) : RowsAt(df, otras)[k] = df[i]
  BY <1>2, RowsAtAreRows
<1>5. QED
  BY SMTT(30), <1>1, <1>3, <1>4

\* The clients of the files that can be read.
DeLegibles(files) == UNION {De(E!Legibles(files)[i].rows, "id") : i \in DOMAIN E!Legibles(files)}
LEMMA ClientsOfEpec ==
  ASSUME NEW files, IsTable(files),
         \A i \in DOMAIN files : /\ IsTable(files[i].rows)
                                 /\ \A k \in DOMAIN files[i].rows : "id" \in DOMAIN files[i].rows[k]
  PROVE  LET c == E!Combinar(files) IN
         DeLegibles(files) \subseteq De(E!GuardarConsolidado(c.base), "id") \cup De(c.debug, "id")
<1> DEFINE legibles == E!Legibles(files)
           leidos == [i \in DOMAIN legibles |-> E!LeerArchivo(legibles[i])]
           flat == FlattenSeq(leidos)
           juntas == [k \in DOMAIN flat |-> E!Normalizar(flat[k])]
           limpias == [k \in DOMAIN juntas |-> E!LimpiarInvalidos(juntas[k])]
           dos == E!Separar(limpias)
           base == [k \in DOMAIN dos.principal |-> E!Conexion(dos.principal[k])]
           debug == [k \in DOMAIN dos.excluidos |-> E!Conexion(dos.excluidos[k])]
           roman == E!GuardarConsolidado(base)
<1>1. E!Combinar(files).base = base /\ E!Combinar(files).debug = debug
  <2>1. E!FlattenSeq(leidos) = flat
    BY EpecTables
  <2>2. E!MapRows(E!LeerArchivo, E!Legibles(files)) = leidos
    BY DEF E!MapRows
  <2> HIDE DEF leidos, flat
  <2>3. QED
    BY <2>1, <2>2 DEF E!Combinar, E!MapRows
<1>2. /\ IsTable(legibles)
      /\ \A i \in DOMAIN legibles : /\ IsTable(legibles[i].rows)
                                    /\ \A k \in DOMAIN legibles[i].rows : "id" \in DOMAIN legibles[i].rows[k]
  <2> DEFINE at == {i \in DOMAIN files : files[i].columnas /\ files[i].rows # <<>>}
  <2>1. legibles = RowsAt(files, at) /\ at \in SUBSET DOMAIN files
    BY EpecTables DEF E!Legibles, E!RowsWith
  <2> HIDE DEF legibles, at
  <2>2. IsTable(legibles) /\ \A k \in DOMAIN legibles : \E i \in at : legibles[k] = files[i]
    BY <2>1, RowsAtAreRows
  <2>3. QED
    BY <2>1, <2>2
<1> HIDE DEF legibles
<1>3. IsTable(leidos) /\ DOMAIN leidos = DOMAIN legibles
  BY <1>2, MappedTable
<1>4. ASSUME NEW i \in DOMAIN legibles
      PROVE  /\ IsTable(leidos[i]) /\ DOMAIN leidos[i] = DOMAIN legibles[i].rows
             /\ \A k \in DOMAIN leidos[i] : /\ "id" \in DOMAIN leidos[i][k]
                                            /\ leidos[i][k].id = legibles[i].rows[k].id
  <2> DEFINE file == legibles[i]
  <2>1. leidos[i] = E!LeerArchivo(file) /\ IsTable(file.rows) /\ \A k \in DOMAIN file.rows : "id" \in DOMAIN file.rows[k]
    BY <1>2
  <2> HIDE DEF file, leidos
  <2>2. QED
    BY <2>1, EpecFile DEF file
<1> HIDE DEF leidos
<1>5. /\ IsTable(flat)
      /\ \A k \in DOMAIN flat : \E i \in DOMAIN leidos : \E j \in DOMAIN leidos[i] : flat[k] = leidos[i][j]
      /\ \A i \in DOMAIN leidos : \A j \in DOMAIN leidos[i] : \E k \in DOMAIN flat : flat[k] = leidos[i][j]
  BY <1>3, <1>4, FlattenOfTables
<1>6. \A k \in DOMAIN flat : "id" \in DOMAIN flat[k]
  BY <1>3, <1>4, <1>5
<1> HIDE DEF flat
<1>7. /\ IsTable(juntas) /\ DOMAIN juntas = DOMAIN flat
      /\ \A k \in DOMAIN flat : "id" \in DOMAIN juntas[k] /\ juntas[k].id = flat[k].id
  BY <1>5, <1>6, MappedTable, EpecRow
<1> HIDE DEF juntas
<1>8. /\ IsTable(limpias) /\ DOMAIN limpias = DOMAIN flat
      /\ \A k \in DOMAIN flat : limpias[k].id = flat[k].id
  BY <1>7, MappedTable, EpecRow
<1> HIDE DEF limpias
<1>9. \A i \in DOMAIN limpias :
        \/ \E k \in DOMAIN dos.principal : dos.principal[k] = limpias[i]
        \/ \E k \in DOMAIN dos.excluidos : dos.excluidos[k] = limpias[i]
  BY <1>8, EpecSeparates
<1> HIDE DEF dos
<1>10. /\ \A k \in DOMAIN dos.principal : base[k].id = dos.principal[k].id
       /\ \A k \in DOMAIN dos.excluidos : debug[k].id = dos.excluidos[k].id
       /\ DOMAIN base = DOMAIN dos.principal /\ DOMAIN debug = DOMAIN dos.excluidos
  BY DEF E!Conexion
<1> HIDE DEF base, debug
<1>11. DOMAIN roman = DOMAIN base /\ \A k \in DOMAIN base : roman[k].id = base[k].id
  BY DEF E!GuardarConsolidado, E!MapRows
<1> HIDE DEF roman
<1>12. ASSUME NEW i \in DOMAIN legibles, NEW j \in DOMAIN legibles[i].rows
       PROVE  legibles[i].rows[j].id \in De(roman, "id") \cup De(debug, "id")
  <2>1. PICK k \in DOMAIN flat : flat[k] = leidos[i][j]
    BY <1>3, <1>4, <1>5
  <2>2. limpias[k].id = legibles[i].rows[j].id /\ k \in DOMAIN limpias
    BY <1>4, <1>8, <2>1
  <2>3. CASE \E m \in DOMAIN dos.principal : dos.principal[m] = limpias[k]
    BY <1>10, <1>11, <2>2, <2>3 DEF De
  <2>4. CASE \E m \in DOMAIN dos.excluidos : dos.excluidos[m] = limpias[k]
    BY <1>10, <2>2, <2>4 DEF De
  <2>5. QED
    BY <1>9, <2>2, <2>3, <2>4
<1>13. DeLegibles(files) \subseteq De(roman, "id") \cup De(debug, "id")
  BY <1>12 DEF DeLegibles, De, legibles
<1>14. QED
  BY <1>1, <1>13 DEF roman

-----------------------------------------------------------------------------
(* the two copies of the base of EPEC, of one file *)

\* Normalising a phone, whichever copy does it and however often.
Canon(p, tipo) ==
  IF p = E!NoPhone THEN E!NoPhone ELSE [pre |-> IF tipo = "fijo" THEN "54" ELSE "549", mov |-> FALSE, n |-> p.n]
Limpio(p) == IF E!Valido(p) THEN p ELSE E!NoPhone

LEMMA PhoneMobile ==
  ASSUME NEW x, NEW y, NEW z, NEW new, NEW p, p = [pre |-> x, mov |-> y, n |-> z]
  PROVE  [p EXCEPT !.mov = new] = [pre |-> x, mov |-> new, n |-> z]
OBVIOUS

LEMMA PhonePrefix ==
  ASSUME NEW x, NEW y, NEW z, NEW new, NEW p, p = [pre |-> x, mov |-> y, n |-> z]
  PROVE  [p EXCEPT !.pre = new] = [pre |-> new, mov |-> y, n |-> z]
OBVIOUS

LEMMA EpecPhone ==
  ASSUME NEW p, EsTelefono(p), NEW tipo
  PROVE  /\ E!NormalizarNumero(p, tipo) = Canon(p, tipo) /\ E!NumeroExe(p, tipo) = Canon(p, tipo)
         /\ EsTelefono(Canon(p, tipo)) /\ Canon(Canon(p, tipo), tipo) = Canon(p, tipo)
<1> DEFINE pre == IF tipo = "fijo" THEN "54" ELSE "549"
           new == [pre |-> pre, mov |-> FALSE, n |-> p.n]
<1>1. EsTelefono(E!NoPhone)
  BY DEF EsTelefono, E!NoPhone
<1>2. CASE p = E!NoPhone
  <2>1. Canon(p, tipo) = E!NoPhone
    BY <1>2 DEF Canon
  <2>2. E!NormalizarNumero(p, tipo) = E!NoPhone /\ E!NumeroExe(p, tipo) = E!NoPhone
    BY <1>2 DEF E!NormalizarNumero, E!NumeroExe
  <2>3. QED
    BY <1>1, <1>2, <2>1, <2>2
<1>3. CASE p # E!NoPhone
  <2>1. Canon(p, tipo) = new
    BY <1>3 DEF Canon
  <2>2. new.pre # "" /\ new.n = p.n /\ E!NoPhone.pre = ""
    BY DEF E!NoPhone
  <2>3. Canon(new, tipo) = new
    BY <2>2 DEF Canon
  <2>4. EsTelefono(new)
    BY DEF EsTelefono
  <2>5. [p EXCEPT !.mov = FALSE] = [pre |-> p.pre, mov |-> FALSE, n |-> p.n]
    <3> DEFINE x == p.pre  y == p.mov  z == p.n  no == FALSE
    <3>1. p = [pre |-> x, mov |-> y, n |-> z]
      BY DEF EsTelefono
    <3> HIDE DEF x, y, z, no
    <3>2. [p EXCEPT !.mov = no] = [pre |-> x, mov |-> no, n |-> z]
      BY <3>1, PhoneMobile
    <3>3. QED
      BY Zenon, <3>2 DEF x, z, no
  <2>6. E!NormalizarNumero(p, tipo) = new
    BY <1>3, <2>5 DEF E!NormalizarNumero, E!Quitar15
  <2>7. E!QuitarExe(p) = [pre |-> p.pre, mov |-> FALSE, n |-> p.n]
    <3>1. CASE p.mov = TRUE
      BY <2>5, <3>1 DEF E!QuitarExe
    <3>2. CASE p.mov = FALSE
      BY <3>2 DEF E!QuitarExe, EsTelefono
    <3>3. QED
      BY <3>1, <3>2 DEF EsTelefono
  <2>8. E!NumeroExe(p, tipo) = new
    <3> DEFINE q == E!QuitarExe(p)
    <3>1. /\ [q EXCEPT !.pre = "54"] = [pre |-> "54", mov |-> FALSE, n |-> p.n]
          /\ [q EXCEPT !.pre = "549"] = [pre |-> "549", mov |-> FALSE, n |-> p.n]
      <4> DEFINE x == p.pre  z == p.n  no == FALSE
      <4>1. q = [pre |-> x, mov |-> no, n |-> z]
        BY Zenon, <2>7
      <4> HIDE DEF q, x, z, no
      <4>2. /\ [q EXCEPT !.pre = "54"] = [pre |-> "54", mov |-> no, n |-> z]
            /\ [q EXCEPT !.pre = "549"] = [pre |-> "549", mov |-> no, n |-> z]
        BY <4>1, PhonePrefix
      <4>3. QED
        BY Zenon, <4>2 DEF z, no
    <3>2. E!NumeroExe(p, tipo) = IF tipo = "fijo" THEN [q EXCEPT !.pre = "54"] ELSE [q EXCEPT !.pre = "549"]
      <4>1. CASE tipo = "fijo"
        BY Zenon, <1>3, <4>1 DEF E!NumeroExe
      <4>2. CASE tipo # "fijo"
        BY Zenon, <1>3, <4>2 DEF E!NumeroExe
      <4>3. QED
        BY <4>1, <4>2
    <3> HIDE DEF q
    <3>3. CASE tipo = "fijo"
      BY Zenon, <3>1, <3>2, <3>3
    <3>4. CASE tipo # "fijo"
      BY Zenon, <3>1, <3>2, <3>4
    <3>5. QED
      BY <3>3, <3>4
  <2> HIDE DEF new
  <2>9. QED
    BY <2>1, <2>3, <2>4, <2>6, <2>8
<1>4. QED
  BY <1>2, <1>3

\* The columns two copies of a row have in common.
ColumnasEpec == {"id", "tel", "cel", "motivo", "medidor"}
MismaFila(a, b) ==
  /\ ColumnasEpec \subseteq DOMAIN a /\ ColumnasEpec \subseteq DOMAIN b
  /\ a.id = b.id /\ a.tel = b.tel /\ a.cel = b.cel /\ a.motivo = b.motivo /\ a.medidor = b.medidor

LEMMA SameReason ==
  ASSUME NEW r, EsFilaEpec(r)
  PROVE  /\ MismaFila(E!Motivo(r), E!MotivoExe(r))
         /\ E!Motivo(r).tel = r.tel /\ E!Motivo(r).cel = r.cel
<1>1. CASE r.motivo = ""
  BY <1>1 DEF E!Motivo, E!MotivoExe, MismaFila, ColumnasEpec, EsFilaEpec
<1>2. CASE r.motivo # ""
  BY <1>2 DEF E!Motivo, E!MotivoExe, MismaFila, ColumnasEpec, EsFilaEpec
<1>3. QED
  BY <1>1, <1>2

LEMMA SamePhones ==
  ASSUME NEW a, NEW b, MismaFila(a, b), EsTelefono(a.tel), EsTelefono(a.cel)
  PROVE  LET n == E!Normalizar(a) IN
         /\ MismaFila(n, E!ColumnasExe(b))
         /\ n.tel = Canon(a.tel, "fijo") /\ n.cel = Canon(a.cel, "celular")
<1> DEFINE n == E!Normalizar(a)  m == E!ColumnasExe(b)
           tel == Canon(a.tel, "fijo")  cel == Canon(a.cel, "celular")
<1>1. /\ E!NormalizarNumero(a.tel, "fijo") = tel /\ E!NumeroExe(b.tel, "fijo") = tel
      /\ E!NormalizarNumero(a.cel, "celular") = cel /\ E!NumeroExe(b.cel, "celular") = cel
  <2>1. b.tel = a.tel /\ b.cel = a.cel
    BY DEF MismaFila
  <2>2. QED
    BY <2>1, EpecPhone
<1> HIDE DEF tel, cel
<1>2. /\ DOMAIN n = DOMAIN a /\ n["tel"] = tel /\ n["cel"] = cel
      /\ n["id"] = a["id"] /\ n["motivo"] = a["motivo"] /\ n["medidor"] = a["medidor"]
  BY <1>1 DEF E!Normalizar, MismaFila, ColumnasEpec
<1>3. /\ DOMAIN m = DOMAIN b /\ m["tel"] = tel /\ m["cel"] = cel
      /\ m["id"] = b["id"] /\ m["motivo"] = b["motivo"] /\ m["medidor"] = b["medidor"]
  BY <1>1 DEF E!ColumnasExe, MismaFila, ColumnasEpec
<1> HIDE DEF n, m
<1>4. MismaFila(n, m)
  BY <1>2, <1>3 DEF MismaFila
<1>5. QED
  BY <1>2, <1>4 DEF n, m, tel, cel

LEMMA SameCleaning ==
  ASSUME NEW a, NEW b, MismaFila(a, b)
  PROVE  LET n == E!LimpiarInvalidos(a) IN
         /\ MismaFila(n, E!LimpiarExe(b)) /\ n.tel = Limpio(a.tel) /\ n.cel = Limpio(a.cel)
<1> DEFINE n == E!LimpiarInvalidos(a)  m == E!LimpiarExe(b)
<1>1. \A p : E!ValidoExe(p) <=> E!Valido(p)
  BY DEF E!ValidoExe, E!Valido, E!TrivialExe, E!EsTrivial
<1>2. /\ DOMAIN n = DOMAIN a /\ n["tel"] = Limpio(a.tel) /\ n["cel"] = Limpio(a.cel)
      /\ n["id"] = a["id"] /\ n["motivo"] = a["motivo"] /\ n["medidor"] = a["medidor"]
  BY DEF E!LimpiarInvalidos, MismaFila, ColumnasEpec, Limpio
<1>3. /\ DOMAIN m = DOMAIN b /\ m["tel"] = Limpio(b.tel) /\ m["cel"] = Limpio(b.cel)
      /\ m["id"] = b["id"] /\ m["motivo"] = b["motivo"] /\ m["medidor"] = b["medidor"]
  BY <1>1 DEF E!LimpiarExe, MismaFila, ColumnasEpec, Limpio
<1> HIDE DEF n, m
<1>4. MismaFila(n, m)
  BY <1>2, <1>3 DEF MismaFila
<1>5. QED
  BY <1>2, <1>4 DEF n, m

LEMMA SameResult ==
  ASSUME NEW a, NEW b, MismaFila(a, b)
  PROVE  E!Resultado(a) = E!ResultadoExe(b)
<1>1. a.medidor = b.medidor /\ a.motivo = b.motivo
  BY DEF MismaFila
<1>2. CASE b.medidor # ""
  BY <1>1, <1>2 DEF E!Resultado, E!ResultadoExe
<1>3. CASE b.medidor = "" /\ b.motivo # ""
  BY <1>1, <1>3 DEF E!Resultado, E!ResultadoExe
<1>4. CASE b.medidor = "" /\ b.motivo = ""
  BY <1>1, <1>4 DEF E!Resultado, E!ResultadoExe
<1>5. QED
  BY <1>2, <1>3, <1>4

\* A row of the file as back-base reads it, twice normalised, and as the copy does.
DeBackBase(r) == E!LimpiarInvalidos(E!Normalizar(E!Normalizar(E!Motivo(r))))
DeLaCopia(r) == E!LimpiarExe(E!ColumnasExe(E!ColumnasExe(E!MotivoExe(r))))
LEMMA SameRow ==
  ASSUME NEW r, EsFilaEpec(r)
  PROVE  /\ MismaFila(DeBackBase(r), DeLaCopia(r))
         /\ DeBackBase(r).tel = Limpio(Canon(r.tel, "fijo"))
         /\ DeBackBase(r).cel = Limpio(Canon(r.cel, "celular"))
<1> DEFINE a == E!Motivo(r)  b == E!MotivoExe(r)
           an == E!Normalizar(a)  bn == E!ColumnasExe(b)
           am == E!Normalizar(an)  bm == E!ColumnasExe(bn)
           tel == Canon(r.tel, "fijo")  cel == Canon(r.cel, "celular")
<1>1. /\ EsTelefono(r.tel) /\ EsTelefono(r.cel) /\ EsTelefono(tel) /\ EsTelefono(cel)
      /\ Canon(tel, "fijo") = tel /\ Canon(cel, "celular") = cel
  BY EpecPhone DEF EsFilaEpec
<1>2. MismaFila(a, b) /\ a.tel = r.tel /\ a.cel = r.cel
  BY SameReason
<1>3. DeBackBase(r) = E!LimpiarInvalidos(am) /\ DeLaCopia(r) = E!LimpiarExe(bm)
  BY DEF DeBackBase, DeLaCopia
<1> HIDE DEF a, b, am, bm
<1>4. MismaFila(an, bn) /\ an.tel = tel /\ an.cel = cel
  BY <1>1, <1>2, SamePhones
<1> HIDE DEF an, bn, tel, cel
<1>5. MismaFila(am, bm) /\ am.tel = tel /\ am.cel = cel
  BY <1>1, <1>4, SamePhones DEF am, bm
<1>6. QED
  BY <1>3, <1>5, SameCleaning DEF tel, cel

\* A folder of one file is that file.
LEMMA OnlyFile ==
  ASSUME NEW files, IsTable(files), Len(files) = 1, E!Legibles(files) # <<>>
  PROVE  LET leidos == [i \in DOMAIN E!Legibles(files) |-> E!LeerArchivo(E!Legibles(files)[i])] IN
         FlattenSeq(leidos) = E!LeerArchivo(files[1])
<1> DEFINE at == {i \in DOMAIN files : files[i].columnas /\ files[i].rows # <<>>}
           legibles == E!Legibles(files)
           leidos == [i \in DOMAIN legibles |-> E!LeerArchivo(legibles[i])]
<1>1. legibles = RowsAt(files, at) /\ at \in SUBSET DOMAIN files /\ DOMAIN files = 1..1
  <2>1. DOMAIN files = 1..1
    BY TableShape
  <2>2. legibles = RowsAt(files, at)
    BY EpecTables DEF E!Legibles, E!RowsWith
  <2>3. QED
    BY <2>1, <2>2
<1> HIDE DEF at, legibles
<1>2. /\ IsTable(legibles) /\ Len(legibles) = Cardinality(at) /\ DOMAIN legibles = 1..Cardinality(at)
      /\ \A k \in DOMAIN legibles : \E i \in at : legibles[k] = files[i]
  BY <1>1, RowsAtOfTable, RowsAtAreRows
<1>3. at = {1}
  <2>1. ASSUME at = {} PROVE FALSE
    <3>1. Len(legibles) = 0
      BY <1>2, <2>1, FS_EmptySet
    <3>2. legibles = <<>>
      BY <1>2, <3>1, TableShape
    <3>3. QED
      BY <3>2 DEF legibles
  <2>2. QED
    BY <1>1, <2>1
<1>4. Cardinality(at) = 1
  BY <1>3, FS_Singleton
<1>5. DOMAIN legibles = 1..1 /\ legibles[1] = files[1]
  BY <1>2, <1>3, <1>4
<1>6. leidos = [i \in 1..1 |-> leidos[i]] /\ leidos[1] = E!LeerArchivo(files[1])
  BY <1>5
<1> HIDE DEF leidos
<1>7. IsTable(leidos) /\ Len(leidos) = 1
  BY <1>6, TableIntro
<1> DEFINE uno == 1
<1>8. PICK f : Unrolled(f, leidos, uno) /\ FlattenSeq(leidos) = f[uno]
  <2>1. uno \in Nat /\ uno # 0 /\ Len(leidos) = uno
    BY <1>7
  <2> HIDE DEF uno
  <2>2. QED
    BY <2>1, FlattenUnrolls
<1>9. f[1] = leidos[1]
  BY <1>8 DEF Unrolled
<1>10. QED
  BY <1>6, <1>8, <1>9 DEF leidos, legibles

\* Of one file the two copies make the same table: its rows with a pair of phones
\* that no other row has.
Limpia(p, tipo) == Limpio(Canon(p, tipo))
FilasDeEpec(rows) ==
  {i \in DOMAIN rows : \A j \in DOMAIN rows \ {i} :
     <<Limpia(rows[j].tel, "fijo"), Limpia(rows[j].cel, "celular")>>
       # <<Limpia(rows[i].tel, "fijo"), Limpia(rows[i].cel, "celular")>>}
FilaDeEpec(r) ==
  [id |-> r.id, tel |-> Limpia(r.tel, "fijo"), cel |-> Limpia(r.cel, "celular"),
   resultado |-> E!Resultado(DeBackBase(r))]
TablaDeEpec(rows) ==
  [n \in 1..Cardinality(FilasDeEpec(rows)) |-> FilaDeEpec(rows[OrderOf(FilasDeEpec(rows))[n]])]

\* A copy of the rows of a table, row by row, is taken apart alike.
SinPar(df) == {i \in DOMAIN df : \A j \in DOMAIN df \ {i} : <<df[j].tel, df[j].cel>> # <<df[i].tel, df[i].cel>>}
LEMMA SameUniques ==
  ASSUME NEW rows, IsTable(rows), \A i \in DOMAIN rows : EsFilaEpec(rows[i]),
         NEW df, df = [i \in DOMAIN rows |-> df[i]],
         \A i \in DOMAIN rows : MismaFila(DeBackBase(rows[i]), df[i])
  PROVE  LET at == SinPar(df)  new == RowsAt(df, at)
         IN /\ at = FilasDeEpec(rows) /\ DOMAIN new = 1..Cardinality(at)
            /\ \A n \in 1..Cardinality(at) :
                 OrderOf(at)[n] \in DOMAIN rows /\ new[n] = df[OrderOf(at)[n]]
<1> DEFINE at == SinPar(df)  new == RowsAt(df, at)
<1>1. IsTable(df) /\ DOMAIN df = DOMAIN rows
  BY MappedTable
<1>2. \A i \in DOMAIN rows : df[i].tel = Limpia(rows[i].tel, "fijo") /\ df[i].cel = Limpia(rows[i].cel, "celular")
  <2>1. ASSUME NEW i \in DOMAIN rows
        PROVE  df[i].tel = Limpia(rows[i].tel, "fijo") /\ df[i].cel = Limpia(rows[i].cel, "celular")
    <3>1. EsFilaEpec(rows[i]) /\ MismaFila(DeBackBase(rows[i]), df[i])
      OBVIOUS
    <3>2. QED
      BY <3>1, SameRow DEF MismaFila, Limpia
  <2>2. QED
    BY <2>1
<1>3. at = FilasDeEpec(rows)
  BY <1>1, <1>2 DEF FilasDeEpec, SinPar
<1>4. at \in SUBSET DOMAIN df
  BY DEF SinPar
<1> HIDE DEF at
<1>5. /\ DOMAIN new = 1..Cardinality(at) /\ OrderOf(at) \in [1..Cardinality(at) -> at]
      /\ \A n \in 1..Cardinality(at) : new[n] = df[OrderOf(at)[n]]
  BY <1>1, <1>4, RowsAtOfTable
<1>6. QED
  BY <1>1, <1>3, <1>4, <1>5 DEF at

LEMMA SameBase ==
  ASSUME NEW files, IsTable(files), Len(files) = 1, E!Legibles(files) # <<>>,
         IsTable(files[1].rows), \A k \in DOMAIN files[1].rows : EsFilaEpec(files[1].rows[k])
  PROVE  /\ E!Combinar(files).base = TablaDeEpec(files[1].rows)
         /\ E!Preparar(files[1]) = TablaDeEpec(files[1].rows)
<1> DEFINE rows == files[1].rows
           all == FilasDeEpec(rows)
<1>1. E!Combinar(files).base = TablaDeEpec(rows)
  <2> DEFINE motivos == [k \in DOMAIN rows |-> E!Motivo(rows[k])]
             leido == [k \in DOMAIN motivos |-> E!Normalizar(motivos[k])]
             leidos == [i \in DOMAIN E!Legibles(files) |-> E!LeerArchivo(E!Legibles(files)[i])]
             juntas == [k \in DOMAIN leido |-> E!Normalizar(leido[k])]
             df == [k \in DOMAIN juntas |-> E!LimpiarInvalidos(juntas[k])]
             at == SinPar(df)
             new == RowsAt(df, at)
             base == [n \in DOMAIN new |-> E!Conexion(new[n])]
  <2>1. E!LeerArchivo(files[1]) = leido
    BY DEF E!LeerArchivo, E!MapRows
  <2>2. FlattenSeq(leidos) = leido
    BY <2>1, OnlyFile
  <2>3. E!FlattenSeq(E!MapRows(E!LeerArchivo, E!Legibles(files))) = leido
    <3>1. E!MapRows(E!LeerArchivo, E!Legibles(files)) = leidos
      BY DEF E!MapRows
    <3> HIDE DEF leidos, leido
    <3>2. QED
      BY <2>2, <3>1, EpecTables
  <2>4. /\ df = [k \in DOMAIN rows |-> df[k]]
        /\ \A k \in DOMAIN rows : df[k] = DeBackBase(rows[k])
    BY DEF DeBackBase
  <2> HIDE DEF leido
  <2>5. E!MapRows(E!LimpiarInvalidos, E!MapRows(E!Normalizar, leido)) = df
    BY DEF E!MapRows
  <2> HIDE DEF df
  <2>6. E!Separar(df).principal = new
    BY EpecTables DEF E!Separar, E!KeepUnique, SinPar
  <2>7. E!Combinar(files).base = base
    BY <2>3, <2>5, <2>6 DEF E!Combinar, E!MapRows
  <2>8. \A k \in DOMAIN rows : MismaFila(DeBackBase(rows[k]), df[k])
    <3>1. ASSUME NEW a, NEW b, MismaFila(a, b) PROVE MismaFila(a, a)
      BY <3>1 DEF MismaFila
    <3>2. QED
      BY <2>4, <3>1, SameRow
  <2>9. /\ at = all /\ DOMAIN new = 1..Cardinality(at)
        /\ \A n \in 1..Cardinality(at) : OrderOf(at)[n] \in DOMAIN rows /\ new[n] = df[OrderOf(at)[n]]
    BY <2>4, <2>8, SameUniques
  <2> HIDE DEF at, new, all
  <2>10. \A k \in DOMAIN rows : E!Conexion(df[k]) = FilaDeEpec(rows[k])
    <3>1. ASSUME NEW k \in DOMAIN rows PROVE E!Conexion(DeBackBase(rows[k])) = FilaDeEpec(rows[k])
      <4>1. /\ DeBackBase(rows[k]).tel = Limpia(rows[k].tel, "fijo")
            /\ DeBackBase(rows[k]).cel = Limpia(rows[k].cel, "celular")
        BY SameRow DEF Limpia
      <4>2. DeBackBase(rows[k]).id = rows[k].id
        <5>1. "id" \in DOMAIN rows[k]
          BY DEF EsFilaEpec
        <5>2. QED
          BY <5>1, EpecRow DEF DeBackBase
      <4>3. QED
        BY <4>1, <4>2 DEF E!Conexion, FilaDeEpec
    <3>2. QED
      BY <2>4, <3>1
  <2>11. base = [n \in 1..Cardinality(all) |-> FilaDeEpec(rows[OrderOf(all)[n]])]
    BY <2>9, <2>10
  <2>12. QED
    BY <2>7, <2>11 DEF TablaDeEpec, all
<1>2. E!Preparar(files[1]) = TablaDeEpec(rows)
  <2> DEFINE motivos == [k \in DOMAIN rows |-> E!MotivoExe(rows[k])]
             leido == [k \in DOMAIN motivos |-> E!ColumnasExe(motivos[k])]
             juntas == [k \in DOMAIN leido |-> E!ColumnasExe(leido[k])]
             df == [k \in DOMAIN juntas |-> E!LimpiarExe(juntas[k])]
             at == SinPar(df)
             new == RowsAt(df, at)
             Fila(r) == [id |-> r.id, tel |-> r.tel, cel |-> r.cel, resultado |-> E!ResultadoExe(r)]
             base == [n \in DOMAIN new |-> Fila(new[n])]
  <2>1. E!MapRows(E!LimpiarExe, E!MapRows(E!ColumnasExe, E!LeerExe(files[1]))) = df
    BY DEF E!LeerExe, E!MapRows
  <2>2. /\ df = [k \in DOMAIN rows |-> df[k]]
        /\ \A k \in DOMAIN rows : df[k] = DeLaCopia(rows[k])
    BY DEF DeLaCopia
  <2> HIDE DEF df
  <2>3. E!SepararExe(df) = new
    BY EpecTables DEF E!SepararExe, E!KeepUnique, SinPar
  <2>4. E!Preparar(files[1]) = base
    BY <2>1, <2>3 DEF E!Preparar, E!MapRows
  <2>5. \A k \in DOMAIN rows : MismaFila(DeBackBase(rows[k]), df[k])
    BY <2>2, SameRow
  <2>6. /\ at = all /\ DOMAIN new = 1..Cardinality(at)
        /\ \A n \in 1..Cardinality(at) : OrderOf(at)[n] \in DOMAIN rows /\ new[n] = df[OrderOf(at)[n]]
    BY <2>2, <2>5, SameUniques
  <2> HIDE DEF at, new, all
  <2>7. \A k \in DOMAIN rows : Fila(df[k]) = FilaDeEpec(rows[k])
    <3>1. ASSUME NEW k \in DOMAIN rows PROVE Fila(df[k]) = FilaDeEpec(rows[k])
      <4>1. /\ DeBackBase(rows[k]).tel = Limpia(rows[k].tel, "fijo")
            /\ DeBackBase(rows[k]).cel = Limpia(rows[k].cel, "celular")
        BY SameRow DEF Limpia
      <4>2. DeBackBase(rows[k]).id = rows[k].id
        <5>1. "id" \in DOMAIN rows[k]
          BY DEF EsFilaEpec
        <5>2. QED
          BY <5>1, EpecRow DEF DeBackBase
      <4>3. E!Resultado(DeBackBase(rows[k])) = E!ResultadoExe(df[k])
        BY <2>5, SameResult
      <4>4. QED
        BY <2>5, <4>1, <4>2, <4>3 DEF FilaDeEpec, MismaFila
    <3>2. QED
      BY <3>1
  <2> HIDE DEF Fila
  <2>8. base = [n \in 1..Cardinality(all) |-> FilaDeEpec(rows[OrderOf(all)[n]])]
    BY <2>6, <2>7
  <2>9. QED
    BY <2>4, <2>8 DEF TablaDeEpec, all
<1>3. QED
  BY <1>1, <1>2

\* A cleaned phone stays as it is when a copy normalises or cleans it again.
Pulido(p, tipo) == EsTelefono(p) /\ Canon(p, tipo) = p /\ (E!Valido(p) \/ p = E!NoPhone)
LEMMA CleanPhone ==
  ASSUME NEW q, EsTelefono(q), NEW tipo
  PROVE  Pulido(Limpia(q, tipo), tipo)
<1> DEFINE p == Canon(q, tipo)
<1>1. EsTelefono(p) /\ Canon(p, tipo) = p
  BY EpecPhone
<1>2. EsTelefono(E!NoPhone) /\ Canon(E!NoPhone, tipo) = E!NoPhone
  BY DEF EsTelefono, E!NoPhone, Canon
<1>3. Limpia(q, tipo) = IF E!Valido(p) THEN p ELSE E!NoPhone
  BY DEF Limpia, Limpio
<1> HIDE DEF p
<1>4. QED
  BY <1>1, <1>2, <1>3 DEF Pulido

LEMMA CleanPhoneStays ==
  ASSUME NEW p, NEW tipo, Pulido(p, tipo)
  PROVE  /\ E!NormalizarNumero(p, tipo) = p /\ E!NumeroExe(p, tipo) = p
         /\ (IF E!ValidoExe(p) THEN p ELSE E!NoPhone) = p
<1>1. E!ValidoExe(p) <=> E!Valido(p)
  BY DEF E!ValidoExe, E!Valido, E!TrivialExe, E!EsTrivial
<1>2. E!NormalizarNumero(p, tipo) = p /\ E!NumeroExe(p, tipo) = p
  BY EpecPhone DEF Pulido
<1>3. QED
  BY <1>1, <1>2 DEF Pulido

\* The phones of a table of clean phones, as rows and as one list.
Pulida(df) ==
  /\ IsTable(df)
  /\ \A i \in DOMAIN df : /\ {"tel", "cel"} \subseteq DOMAIN df[i]
                          /\ Pulido(df[i].tel, "fijo") /\ Pulido(df[i].cel, "celular")
Todos(df) == [i \in DOMAIN df |-> df[i].tel] \o [i \in DOMAIN df |-> df[i].cel]
Lugares(df, p) == {q \in (DOMAIN df) \X {"tel", "cel"} : df[q[1]][q[2]] = p}
Puestos(df, p) == {k \in DOMAIN Todos(df) : Todos(df)[k] = p}

LEMMA ListOfPhones ==
  ASSUME NEW df, IsTable(df)
  PROVE  /\ IsTable(Todos(df)) /\ Len(df) \in Nat /\ DOMAIN df = 1..Len(df)
         /\ \A i \in DOMAIN df : /\ i \in DOMAIN Todos(df) /\ Todos(df)[i] = df[i].tel
                                 /\ Len(df) + i \in DOMAIN Todos(df) /\ Todos(df)[Len(df) + i] = df[i].cel
         /\ \A k \in DOMAIN Todos(df) : \/ k \in DOMAIN df
                                        \/ \E i \in DOMAIN df : k = Len(df) + i
<1> DEFINE tels == [i \in DOMAIN df |-> df[i].tel]  cels == [i \in DOMAIN df |-> df[i].cel]
<1>1. /\ IsTable(tels) /\ Len(tels) = Len(df) /\ DOMAIN tels = DOMAIN df
      /\ IsTable(cels) /\ DOMAIN cels = DOMAIN df
  <2>1. tels = [i \in DOMAIN df |-> tels[i]] /\ cels = [i \in DOMAIN df |-> cels[i]]
    OBVIOUS
  <2> HIDE DEF tels, cels
  <2>2. QED
    BY <2>1, MappedTable
<1>2. \A i \in DOMAIN df : tels[i] = df[i].tel /\ cels[i] = df[i].cel
  OBVIOUS
<1>3. Todos(df) = tels \o cels
  BY DEF Todos
<1> HIDE DEF tels, cels
<1>4. Len(df) \in Nat /\ DOMAIN df = 1..Len(df)
  BY TableShape
<1>5. IsTable(tels) /\ IsTable(cels)
  BY <1>1
<1>6. /\ IsTable(tels \o cels)
      /\ \A i \in DOMAIN tels : i \in DOMAIN (tels \o cels) /\ (tels \o cels)[i] = tels[i]
      /\ \A j \in DOMAIN cels :
           Len(tels) + j \in DOMAIN (tels \o cels) /\ (tels \o cels)[Len(tels) + j] = cels[j]
      /\ \A k \in DOMAIN (tels \o cels) :
           \/ k \in DOMAIN tels /\ (tels \o cels)[k] = tels[k]
           \/ \E j \in DOMAIN cels : k = Len(tels) + j /\ (tels \o cels)[k] = cels[j]
  BY ONLY <1>5, ConcatOfTables
<1> DEFINE all == tels \o cels
<1>7. /\ IsTable(all) /\ \A i \in DOMAIN tels : i \in DOMAIN all /\ all[i] = tels[i]
      /\ \A j \in DOMAIN cels : Len(tels) + j \in DOMAIN all /\ all[Len(tels) + j] = cels[j]
      /\ \A k \in DOMAIN all : k \in DOMAIN tels \/ \E j \in DOMAIN cels : k = Len(tels) + j
  BY <1>6
<1>8. Todos(df) = all
  BY <1>3
<1> HIDE DEF all
<1>9. QED
  BY <1>1, <1>2, <1>4, <1>7, <1>8

\* A number is as often in the rows as in the list.
LEMMA SamePlaces ==
  ASSUME NEW df, IsTable(df), NEW p
  PROVE  /\ IsFiniteSet(Lugares(df, p)) /\ Cardinality(Puestos(df, p)) = Cardinality(Lugares(df, p))
<1> DEFINE at == Lugares(df, p)  pos == Puestos(df, p)
           f == [q \in at |-> IF q[2] = "tel" THEN q[1] ELSE Len(df) + q[1]]
<1>1. /\ Len(df) \in Nat /\ DOMAIN df = 1..Len(df)
      /\ \A i \in DOMAIN df : /\ i \in DOMAIN Todos(df) /\ Todos(df)[i] = df[i].tel
                              /\ Len(df) + i \in DOMAIN Todos(df) /\ Todos(df)[Len(df) + i] = df[i].cel
      /\ \A k \in DOMAIN Todos(df) : \/ k \in DOMAIN df
                                     \/ \E i \in DOMAIN df : k = Len(df) + i
  BY ListOfPhones
<1>2. \A q \in at : /\ q = <<q[1], q[2]>> /\ q[1] \in DOMAIN df
                    /\ \/ q[2] = "tel" /\ df[q[1]].tel = p
                       \/ q[2] = "cel" /\ df[q[1]].cel = p
  BY DEF Lugares
<1>3. \A i \in DOMAIN df : /\ df[i].tel = p => <<i, "tel">> \in at
                           /\ df[i].cel = p => <<i, "cel">> \in at
  BY DEF Lugares
<1>4. IsFiniteSet(at)
  <2>1. IsFiniteSet(DOMAIN df)
    <3>1. 1 \in Int /\ Len(df) \in Int
      BY <1>1
    <3>2. IsFiniteSet(1..Len(df))
      BY <3>1, FS_Interval
    <3>3. QED
      BY <1>1, <3>2
  <2>2. IsFiniteSet({"tel", "cel"})
    <3>1. IsFiniteSet({"tel"}) /\ {"tel", "cel"} = {"tel"} \cup {"cel"}
      BY FS_Singleton
    <3>2. QED
      BY <3>1, FS_AddElement
  <2>3. IsFiniteSet((DOMAIN df) \X {"tel", "cel"})
    BY <2>1, <2>2, FS_Product
  <2>4. QED
    BY <2>3, FS_Subset DEF Lugares
<1> HIDE DEF at
<1>5. f \in [at -> pos]
  <2>1. ASSUME NEW q \in at PROVE f[q] \in pos
    BY <1>1, <1>2 DEF Puestos
  <2>2. QED
    BY <2>1
<1>6. \A q, r \in at : f[q] = f[r] => q = r
  <2>1. ASSUME NEW q \in at, NEW r \in at, f[q] = f[r] PROVE q[1] = r[1] /\ q[2] = r[2]
    BY <1>1, <1>2, <2>1
  <2>2. QED
    BY <1>2, <2>1
<1>7. \A k \in pos : \E q \in at : f[q] = k
  <2>1. ASSUME NEW k \in pos PROVE \E q \in at : f[q] = k
    <3>1. k \in DOMAIN Todos(df) /\ Todos(df)[k] = p
      BY DEF Puestos
    <3>2. CASE k \in DOMAIN df
      <4>1. <<k, "tel">> \in at
        BY <1>1, <1>3, <3>1, <3>2
      <4>2. f[<<k, "tel">>] = k
        BY <4>1
      <4>3. QED
        BY <4>1, <4>2
    <3>3. ASSUME NEW i \in DOMAIN df, k = Len(df) + i PROVE \E q \in at : f[q] = k
      <4>1. <<i, "cel">> \in at
        BY <1>1, <1>3, <3>1, <3>3
      <4>2. f[<<i, "cel">>] = k
        BY <3>3, <4>1
      <4>3. QED
        BY <4>1, <4>2
    <3>4. QED
      BY <1>1, <3>1, <3>2, <3>3
  <2>2. QED
    BY <2>1
<1> HIDE DEF f, pos
<1>8. ExistsBijection(at, pos)
  BY <1>5, <1>6, <1>7 DEF ExistsBijection, Bijection, Injection, Surjection, IsInjective
<1>9. QED
  BY <1>4, <1>8, FS_Bijection DEF at, pos

\* A number in one place is dialled there; of one in two places the copy says the
\* same.
LEMMA NumberOfAPlace ==
  ASSUME NEW df, Pulida(df), NEW p, p \in E!Range(Todos(df))
  PROVE  LET duplicados == {m \in E!Range(Todos(df)) : E!Cardinality({k \in DOMAIN Todos(df) : Todos(df)[k] = m}) > 1}
         IN (IF p \in duplicados THEN E!NoPhone ELSE p)
              = (IF E!Veces(df, p) = 1 THEN p ELSE E!NoPhone)
<1>1. E!Cardinality({k \in DOMAIN Todos(df) : Todos(df)[k] = p}) = Cardinality(Puestos(df, p))
  BY DEF E!Cardinality, Cardinality, Puestos
<1>2. E!Veces(df, p) = Cardinality(Lugares(df, p))
  BY DEF E!Cardinality, Cardinality, E!Veces, Lugares
<1>3. Cardinality(Puestos(df, p)) = Cardinality(Lugares(df, p)) /\ Cardinality(Puestos(df, p)) \in Nat
  BY SamePlaces, FS_CardinalityType DEF Pulida
<1>4. Puestos(df, p) # {} /\ IsFiniteSet(Puestos(df, p))
  <2>1. \E k : k \in Puestos(df, p)
    BY DEF E!Range, Puestos
  <2>2. IsFiniteSet(DOMAIN Todos(df))
    <3>1. IsTable(Todos(df))
      BY ListOfPhones DEF Pulida
    <3>2. Len(Todos(df)) \in Int /\ 1 \in Int /\ DOMAIN Todos(df) = 1..Len(Todos(df))
      BY <3>1, TableShape
    <3>3. IsFiniteSet(1..Len(Todos(df)))
      BY <3>2, FS_Interval
    <3>4. QED
      BY <3>2, <3>3
  <2>3. Puestos(df, p) \subseteq DOMAIN Todos(df)
    BY DEF Puestos
  <2>4. QED
    BY <2>1, <2>2, <2>3, FS_Subset
<1>5. Cardinality(Puestos(df, p)) # 0
  BY <1>4, FS_EmptySet
<1> DEFINE n == Cardinality(Puestos(df, p))
<1>6. n \in Nat /\ n # 0
  BY <1>3, <1>5
<1> HIDE DEF n
<1>7. ~(n > 1) <=> n = 1
  BY <1>6
<1>8. QED
  BY <1>1, <1>2, <1>3, <1>7 DEF n

LEMMA TwoCleanPhones ==
  ASSUME NEW tel, NEW cel, (IF E!ValidoExe(tel) THEN tel ELSE E!NoPhone) = tel,
         (IF E!ValidoExe(cel) THEN cel ELSE E!NoPhone) = cel
  PROVE  E!LimpiarExe([tel |-> tel, cel |-> cel]) = [tel |-> tel, cel |-> cel]
<1> DEFINE r == [tel |-> tel, cel |-> cel]  o == E!LimpiarExe(r)
<1>1. DOMAIN r = {"tel", "cel"} /\ r["tel"] = tel /\ r["cel"] = cel
  OBVIOUS
<1>2. r = [c \in {"tel", "cel"} |-> r[c]]
  OBVIOUS
<1> HIDE DEF r
<1>3. /\ o = [c \in DOMAIN r |-> o[c]] /\ o["tel"] = IF E!ValidoExe(r["tel"]) THEN r["tel"] ELSE E!NoPhone
      /\ o["cel"] = IF E!ValidoExe(r["cel"]) THEN r["cel"] ELSE E!NoPhone
  BY <1>1 DEF E!LimpiarExe
<1> HIDE DEF o
<1>4. o["tel"] = r["tel"] /\ o["cel"] = r["cel"]
  BY <1>1, <1>3
<1>5. o = r
  BY <1>1, <1>2, <1>3, <1>4
<1>6. QED
  BY <1>5 DEF o, r

LEMMA RecordOfPhones ==
  ASSUME NEW x, NEW y, NEW new, new = [c \in {"tel", "cel"} |-> new[c]], new["tel"] = x, new["cel"] = y
  PROVE  new = [tel |-> x, cel |-> y]
OBVIOUS

LEMMA SameNumbers ==
  ASSUME NEW df, Pulida(df)
  PROVE  E!GenerarTelefonos(df) = E!GuardarTelefonos(df)
<1> DEFINE Una(p) == IF E!Valido(p) /\ E!Veces(df, p) = 1 THEN p ELSE E!NoPhone
           duplicados == {m \in E!Range(Todos(df)) : E!Cardinality({k \in DOMAIN Todos(df) : Todos(df)[k] = m}) > 1}
           De2(p) == IF p \in duplicados THEN E!NoPhone ELSE p
           filas == [i \in DOMAIN df |-> [tel |-> Una(df[i].tel), cel |-> Una(df[i].cel)]]
           con == {i \in DOMAIN filas : filas[i].tel # E!NoPhone \/ filas[i].cel # E!NoPhone}
<1>1. /\ IsTable(df)
      /\ \A i \in DOMAIN df : /\ {"tel", "cel"} \subseteq DOMAIN df[i]
                              /\ Pulido(df[i].tel, "fijo") /\ Pulido(df[i].cel, "celular")
  BY DEF Pulida
<1>2. E!GenerarTelefonos(df) = RowsAt(filas, con)
  <2> DEFINE suyas == [i \in DOMAIN df |-> [tel |-> Una(E!NormalizarNumero(df[i].tel, "fijo")),
                                            cel |-> Una(E!NormalizarNumero(df[i].cel, "celular"))]]
  <2>1. \A i \in DOMAIN df : /\ E!NormalizarNumero(df[i].tel, "fijo") = df[i].tel
                             /\ E!NormalizarNumero(df[i].cel, "celular") = df[i].cel
    BY <1>1, CleanPhoneStays
  <2> HIDE DEF Una
  <2>2. suyas = filas
    BY <2>1
  <2> USE DEF Una
  <2>3. E!GenerarTelefonos(df)
          = RowsAt(suyas, {i \in DOMAIN suyas : suyas[i].tel # E!NoPhone \/ suyas[i].cel # E!NoPhone})
    BY EpecTables DEF E!GenerarTelefonos, E!RowsWith, E!MapRows
  <2> HIDE DEF suyas, filas
  <2>4. QED
    BY <2>2, <2>3
<1>3. E!GuardarTelefonos(df) = RowsAt(filas, con)
  <2> DEFINE Numero(r) == [tel |-> E!ColumnasExe(r).tel, cel |-> E!ColumnasExe(r).cel]
             numeros == [i \in DOMAIN df |-> Numero(df[i])]
             limpias == [i \in DOMAIN numeros |-> E!LimpiarExe(numeros[i])]
             todos == [i \in DOMAIN limpias |-> limpias[i].tel] \o [i \in DOMAIN limpias |-> limpias[i].cel]
             dos == {m \in E!Range(todos) : E!Cardinality({k \in DOMAIN todos : todos[k] = m}) > 1}
             Quedan(r) == [c \in {"tel", "cel"} |-> IF r[c] \in dos THEN E!NoPhone ELSE r[c]]
             suyas == [i \in DOMAIN limpias |-> Quedan(limpias[i])]
  <2>1. E!GuardarTelefonos(df)
          = RowsAt(suyas, {i \in DOMAIN suyas : suyas[i].tel # E!NoPhone \/ suyas[i].cel # E!NoPhone})
    BY EpecTables DEF E!GuardarTelefonos, E!RowsWith, E!MapRows
  <2>2. \A i \in DOMAIN df : limpias[i] = [tel |-> df[i].tel, cel |-> df[i].cel]
    <3>1. ASSUME NEW i \in DOMAIN df PROVE limpias[i] = [tel |-> df[i].tel, cel |-> df[i].cel]
      <4> DEFINE tel == df[i].tel  cel == df[i].cel  r == [tel |-> tel, cel |-> cel]
      <4>1. /\ {"tel", "cel"} \subseteq DOMAIN df[i]
            /\ E!NumeroExe(tel, "fijo") = tel /\ E!NumeroExe(cel, "celular") = cel
            /\ (IF E!ValidoExe(tel) THEN tel ELSE E!NoPhone) = tel
            /\ (IF E!ValidoExe(cel) THEN cel ELSE E!NoPhone) = cel
        BY <1>1, CleanPhoneStays
      <4>2. Numero(df[i]) = r
        BY <4>1 DEF E!ColumnasExe
      <4> HIDE DEF tel, cel
      <4>3. E!LimpiarExe(r) = r
        BY <4>1, TwoCleanPhones
      <4> HIDE DEF Numero
      <4>4. QED
        BY <4>2, <4>3 DEF tel, cel
    <3>2. QED
      BY <3>1
  <2> HIDE DEF limpias
  <2>3. DOMAIN limpias = DOMAIN df
    BY DEF limpias
  <2>4. todos = Todos(df)
    <3>1. /\ [i \in DOMAIN limpias |-> limpias[i].tel] = [i \in DOMAIN df |-> df[i].tel]
          /\ [i \in DOMAIN limpias |-> limpias[i].cel] = [i \in DOMAIN df |-> df[i].cel]
      BY <2>2, <2>3
    <3>2. QED
      BY Zenon, <3>1 DEF Todos
  <2>5. dos = duplicados
    <3> HIDE DEF todos
    <3>1. QED
      BY Zenon, <2>4
  <2> HIDE DEF dos, todos, duplicados
  <2>6. \A i \in DOMAIN df : De2(df[i].tel) = Una(df[i].tel) /\ De2(df[i].cel) = Una(df[i].cel)
    <3>1. ASSUME NEW p \in E!Range(Todos(df)), E!Valido(p) \/ p = E!NoPhone PROVE De2(p) = Una(p)
      <4>1. De2(p) = (IF E!Veces(df, p) = 1 THEN p ELSE E!NoPhone)
        BY NumberOfAPlace DEF duplicados
      <4>2. QED
        BY <3>1, <4>1
    <3>2. ASSUME NEW i \in DOMAIN df
          PROVE  df[i].tel \in E!Range(Todos(df)) /\ df[i].cel \in E!Range(Todos(df))
      BY <1>1, ListOfPhones DEF E!Range
    <3> HIDE DEF De2, Una
    <3>3. QED
      BY <1>1, <3>1, <3>2 DEF Pulido
  <2>7. suyas = filas
    <3>1. ASSUME NEW i \in DOMAIN df PROVE Quedan(limpias[i]) = filas[i]
      <4>1. Quedan(limpias[i]) = [tel |-> De2(df[i].tel), cel |-> De2(df[i].cel)]
        <5> DEFINE r == limpias[i]
        <5> HIDE DEF r
        <5>1. r = [tel |-> df[i].tel, cel |-> df[i].cel]
          BY Zenon, <2>2 DEF r
        <5>2. r.tel = df[i].tel /\ r.cel = df[i].cel
          BY <5>1
        <5>3. Quedan(r) = [tel |-> De2(r.tel), cel |-> De2(r.cel)]
          BY <2>5, RecordOfPhones
        <5> HIDE DEF De2, Quedan
        <5>4. QED
          BY <5>2, <5>3 DEF r
      <4> HIDE DEF Quedan, De2, Una
      <4>2. QED
        BY <2>6, <4>1
    <3> HIDE DEF Quedan, Una
    <3>2. QED
      BY <2>3, <3>1
  <2> HIDE DEF suyas, filas
  <2>8. QED
    BY <2>1, <2>7
<1>4. QED
  BY <1>2, <1>3

LEMMA CleanTable ==
  ASSUME NEW rows, IsTable(rows), \A i \in DOMAIN rows : EsFilaEpec(rows[i])
  PROVE  Pulida(TablaDeEpec(rows))
<1> DEFINE at == FilasDeEpec(rows)  n == Cardinality(at)  df == TablaDeEpec(rows)
<1>1. at \in SUBSET DOMAIN rows
  BY DEF FilasDeEpec
<1>2. df = [k \in 1..n |-> FilaDeEpec(rows[OrderOf(at)[k]])]
  BY DEF TablaDeEpec
<1> HIDE DEF at, df
<1>3. n \in Nat /\ OrderOf(at) \in [1..n -> at]
  BY <1>1, RowsAtOfTable
<1> HIDE DEF n
<1>4. df = [k \in 1..n |-> df[k]]
  BY <1>2
<1>5. IsTable(df) /\ DOMAIN df = 1..n
  BY <1>3, <1>4, TableIntro
<1>6. ASSUME NEW k \in 1..n
      PROVE  /\ {"tel", "cel"} \subseteq DOMAIN df[k]
             /\ Pulido(df[k].tel, "fijo") /\ Pulido(df[k].cel, "celular")
  <2> DEFINE r == rows[OrderOf(at)[k]]
  <2>1. EsTelefono(r.tel) /\ EsTelefono(r.cel)
    BY <1>1, <1>3 DEF EsFilaEpec
  <2>2. Pulido(Limpia(r.tel, "fijo"), "fijo") /\ Pulido(Limpia(r.cel, "celular"), "celular")
    BY <2>1, CleanPhone
  <2>3. df[k] = FilaDeEpec(r)
    BY <1>2
  <2> HIDE DEF r
  <2>4. QED
    BY <2>2, <2>3 DEF FilaDeEpec
<1>7. Pulida(df)
  BY <1>5, <1>6 DEF Pulida
<1>8. QED
  BY <1>7 DEF df

\* What back-base delivers of a folder of one file, and the copy of the file.
LEMMA SameFiles ==
  ASSUME NEW files, IsTable(files), Len(files) = 1, E!Legibles(files) # <<>>,
         IsTable(files[1].rows), \A k \in DOMAIN files[1].rows : EsFilaEpec(files[1].rows[k])
  PROVE  LET base == E!Combinar(files).base  df == E!Preparar(files[1])
         IN /\ E!GuardarConsolidado(base) = E!GuardarBase(df)
            /\ E!GenerarTelefonos(base) = E!GuardarTelefonos(df)
<1> DEFINE df == TablaDeEpec(files[1].rows)
<1>1. E!Combinar(files).base = df /\ E!Preparar(files[1]) = df
  BY SameBase
<1>2. Pulida(df)
  BY CleanTable
<1> HIDE DEF df
<1>3. E!GenerarTelefonos(df) = E!GuardarTelefonos(df)
  BY <1>2, SameNumbers
<1>4. E!GuardarConsolidado(df) = E!GuardarBase(df)
  BY DEF E!GuardarConsolidado, E!GuardarBase, E!MapRows
<1>5. QED
  BY <1>1, <1>3, <1>4

-----------------------------------------------------------------------------
(* the base and the ROMAN base of Bancor *)

\* The sum of a column of numbers is a number.
LEMMA AmountsAreNumbers ==
  ASSUME NEW rows, IsTable(rows), NEW column, \A i \in DOMAIN rows : rows[i][column] \in Int
  PROVE  B!Amounts(rows, column) \in Int
<1> DEFINE n == Len(rows)
           value == [i \in 1..n |-> IF rows[i][column] = B!NoAmount THEN 0 ELSE rows[i][column]]
           Sum(f, k) == f = [m \in 0..k |-> IF m = 0 THEN 0 ELSE f[m - 1] + value[m]]
           f == CHOOSE f : Sum(f, n)
<1>1. n \in Nat /\ DOMAIN rows = 1..n
  BY TableShape
<1>2. \A i \in 1..n : value[i] \in Int
  BY <1>1
<1>3. B!Amounts(rows, column) = f[n]
  <2> DEFINE Raw(g) == g = [m \in 0..n |-> IF m = 0 THEN 0
                              ELSE g[m - 1] + (IF rows[m][column] = B!NoAmount THEN 0 ELSE rows[m][column])]
  <2>1. B!Amounts(rows, column) = (CHOOSE g : Raw(g))[n]
    BY DEF B!Amounts
  <2>2. ASSUME NEW g PROVE Raw(g) <=> Sum(g, n)
    <3>1. \A m \in 0..n : m # 0 =>
            m \in 1..n /\ value[m] = IF rows[m][column] = B!NoAmount THEN 0 ELSE rows[m][column]
      BY <1>1
    <3> HIDE DEF value
    <3>2. QED
      BY <3>1
  <2> HIDE DEF Raw, Sum
  <2>3. (CHOOSE g : Raw(g)) = (CHOOSE g : Sum(g, n))
    BY <2>2
  <2>4. QED
    BY <2>1, <2>3
<1> HIDE DEF value
<1>4. \E g : Sum(g, n)
  <2> DEFINE bad == {k \in 0..n : ~\E g : Sum(g, k)}
  <2>1. ASSUME bad # {} PROVE FALSE
    <3>1. bad \in SUBSET Nat
      BY <1>1
    <3>2. PICK k \in bad : \A j \in bad : k <= j
      BY <2>1, <3>1, LeastNatural
    <3>3. k \in 0..n /\ ~\E g : Sum(g, k)
      OBVIOUS
    <3>4. k # 0
      <4> DEFINE zero == [m \in 0..0 |-> 0]
      <4>1. Sum(zero, 0)
        OBVIOUS
      <4>2. QED
        BY <3>3, <4>1
    <3>5. k - 1 \in 0..n /\ ~(k <= k - 1)
      BY <1>1, <3>3, <3>4
    <3>6. PICK g : Sum(g, k - 1)
      BY <3>2, <3>5
    <3> DEFINE more == [m \in 0..k |-> IF m = k THEN g[k - 1] + value[k] ELSE g[m]]
    <3>7. \A m \in 0..k : more[m] = IF m = 0 THEN 0 ELSE more[m - 1] + value[m]
      <4>1. \A m \in 0..(k - 1) : g[m] = IF m = 0 THEN 0 ELSE g[m - 1] + value[m]
        BY <3>6
      <4>2. ASSUME NEW m \in 0..k PROVE more[m] = IF m = 0 THEN 0 ELSE more[m - 1] + value[m]
        <5>1. CASE m = k
          BY <1>1, <3>3, <3>4, <5>1
        <5>2. CASE m # k
          BY <1>1, <3>3, <4>1, <5>2
        <5>3. QED
          BY <5>1, <5>2
      <4>3. QED
        BY <4>2
    <3>8. Sum(more, k)
      BY <3>7
    <3>9. QED
      BY <3>3, <3>8
  <2>2. n \in 0..n
    BY <1>1
  <2>3. QED
    BY <2>1, <2>2
<1>5. Sum(f, n)
  BY <1>4
<1>6. \A m \in 0..n : f[m] = IF m = 0 THEN 0 ELSE f[m - 1] + value[m]
  BY <1>5
<1> HIDE DEF f
<1>7. f[n] \in Int
  <2> DEFINE bad == {k \in 0..n : f[k] \notin Int}
  <2>1. ASSUME bad # {} PROVE FALSE
    <3>1. bad \in SUBSET Nat
      BY <1>1
    <3>2. PICK k \in bad : \A j \in bad : k <= j
      BY <2>1, <3>1, LeastNatural
    <3>3. CASE k = 0
      BY <1>1, <1>6, <3>2, <3>3
    <3>4. CASE k # 0
      <4>1. k - 1 \in 0..n /\ ~(k <= k - 1) /\ k \in 1..n
        BY <1>1, <3>2, <3>4
      <4>2. f[k - 1] \in Int
        BY <3>2, <4>1
      <4>3. QED
        BY <1>2, <1>6, <3>2, <4>1, <4>2
    <3>5. QED
      BY <3>3, <3>4
  <2>2. n \in 0..n
    BY <1>1
  <2>3. QED
    BY <2>1, <2>2
<1>8. QED
  BY <1>3, <1>7

\* A group has a best row: two numbers and the place order it.
LEMMA BestOfAGroup ==
  ASSUME NEW n \in Nat, n # 0, NEW debt \in [1..n -> Int], NEW size \in [1..n -> Int]
  PROVE  \E i \in 1..n : \A j \in 1..n \ {i} :
           \/ debt[i] > debt[j]
           \/ debt[i] = debt[j] /\ (size[i] > size[j] \/ (size[i] = size[j] /\ i < j))
<1> DEFINE Beats(i, j) == \/ debt[i] > debt[j]
                          \/ debt[i] = debt[j] /\ (size[i] > size[j] \/ (size[i] = size[j] /\ i < j))
           Best(i, k) == \A j \in 1..k : j # i => Beats(i, j)
           bad == {k \in 1..n : ~\E i \in 1..k : Best(i, k)}
<1>1. ASSUME bad # {} PROVE FALSE
  <2>1. bad \in SUBSET Nat
    OBVIOUS
  <2>2. PICK k \in bad : \A j \in bad : k <= j
    BY <1>1, <2>1, LeastNatural
  <2>3. k \in 1..n /\ ~\E i \in 1..k : Best(i, k)
    OBVIOUS
  <2>4. k # 1
    BY <2>3
  <2>5. k - 1 \in 1..n /\ ~(k <= k - 1)
    BY <2>3, <2>4
  <2>6. PICK i \in 1..(k - 1) : Best(i, k - 1)
    BY <2>2, <2>5
  <2>7. CASE Beats(i, k)
    <3>1. \A j \in 1..k : j \in 1..(k - 1) \/ j = k
      BY <2>3
    <3> HIDE DEF Beats
    <3>2. Best(i, k)
      BY <2>6, <2>7, <3>1
    <3>3. i \in 1..k
      BY <2>3, <2>6
    <3>4. QED
      BY <2>3, <3>2, <3>3
  <2>8. CASE ~Beats(i, k)
    <3>1. Beats(k, i)
      BY <2>3, <2>5, <2>8
    <3>2. ASSUME NEW j \in 1..k, j # k PROVE Beats(k, j)
      <4>1. j \in 1..(k - 1)
        BY <2>3, <3>2
      <4>2. CASE j = i
        BY <3>1, <4>2
      <4>3. CASE j # i
        <5>1. Beats(i, j)
          BY <2>6, <4>1, <4>3
        <5>2. \A x \in {i, j, k} : debt[x] \in Int /\ size[x] \in Int
          BY <2>3, <2>5, <4>1
        <5>3. QED
          BY <2>3, <2>5, <3>1, <4>1, <5>1, <5>2
      <4>4. QED
        BY <4>2, <4>3
    <3> HIDE DEF Beats
    <3>3. k \in 1..k /\ Best(k, k)
      BY <2>3, <3>2
    <3>4. QED
      BY <2>3, <3>3
  <2>9. QED
    BY <2>7, <2>8
<1>2. n \in 1..n
  OBVIOUS
<1>3. PICK i \in 1..n : Best(i, n)
  BY <1>1, <1>2
<1>4. QED
  BY <1>3

\* The best of a group is of the group.
LEMMA BestIsOfTheGroup ==
  ASSUME NEW grupo, IsTable(grupo), 1 \in DOMAIN grupo,
         \A i \in DOMAIN grupo : grupo[i].monto \in Int /\ IsFiniteSet(grupo[i].ops)
  PROVE  B!Mejor(grupo) \in DOMAIN grupo
<1> DEFINE n == Len(grupo)
           debt == [i \in 1..n |-> IF grupo[i].monto = B!NoAmount THEN 0 ELSE grupo[i].monto]
           size == [i \in 1..n |-> Cardinality(grupo[i].ops)]
           Beats(i, j) == \/ debt[i] > debt[j]
                          \/ debt[i] = debt[j] /\ (size[i] > size[j] \/ (size[i] = size[j] /\ i < j))
<1>1. n \in Nat /\ n # 0 /\ DOMAIN grupo = 1..n
  BY TableShape
<1>2. debt \in [1..n -> Int] /\ size \in [1..n -> Int]
  <2>1. \A i \in 1..n : debt[i] \in Int
    BY <1>1
  <2>2. \A i \in 1..n : size[i] \in Int
    BY <1>1, FS_CardinalityType
  <2>3. QED
    BY <2>1, <2>2
<1>3. \E i \in 1..n : \A j \in 1..n \ {i} : Beats(i, j)
  <2> HIDE DEF n, debt, size
  <2>1. QED
    BY <1>1, <1>2, BestOfAGroup
<1>4. B!Mejor(grupo) = CHOOSE i \in DOMAIN grupo : \A j \in DOMAIN grupo \ {i} :
        LET Debt(k) == IF grupo[k].monto = B!NoAmount THEN 0 ELSE grupo[k].monto
        IN \/ Debt(i) > Debt(j)
           \/ /\ Debt(i) = Debt(j)
              /\ \/ B!Cardinality(grupo[i].ops) > B!Cardinality(grupo[j].ops)
                 \/ B!Cardinality(grupo[i].ops) = B!Cardinality(grupo[j].ops) /\ i < j
  BY DEF B!Mejor
<1>5. \A set : B!Cardinality(set) = Cardinality(set)
  BY DEF B!Cardinality, Cardinality
<1>6. PICK i \in DOMAIN grupo : \A j \in DOMAIN grupo \ {i} : Beats(i, j)
  BY <1>1, <1>3
<1>7. \A j \in DOMAIN grupo \ {i} :
        LET Debt(k) == IF grupo[k].monto = B!NoAmount THEN 0 ELSE grupo[k].monto
        IN \/ Debt(i) > Debt(j)
           \/ /\ Debt(i) = Debt(j)
              /\ \/ B!Cardinality(grupo[i].ops) > B!Cardinality(grupo[j].ops)
                 \/ B!Cardinality(grupo[i].ops) = B!Cardinality(grupo[j].ops) /\ i < j
  BY <1>1, <1>5, <1>6
<1>8. QED
  BY <1>4, <1>7

\* The rows of a group are rows of the table, the row it is made for among them.
LEMMA GroupOfARow ==
  ASSUME NEW df, IsTable(df), NEW i \in DOMAIN df
  PROVE  LET grupo == B!Grupo(df, df[i]) IN
         /\ IsTable(grupo) /\ 1 \in DOMAIN grupo
         /\ \A k \in DOMAIN grupo : \E j \in DOMAIN df : grupo[k] = df[j]
         /\ \E k \in DOMAIN grupo : grupo[k] = df[i]
<1> DEFINE grupo == B!Grupo(df, df[i])
           at == {j \in DOMAIN df : B!Comparten(df[i], df[j])}
<1>1. CASE B!Telefonos(df[i]) = {}
  <2>1. grupo = <<df[i]>>
    BY <1>1 DEF B!Grupo
  <2> DEFINE one == <<df[i]>>
  <2>2. DOMAIN one = 1..1 /\ one[1] = df[i] /\ one = [k \in 1..1 |-> one[k]]
    OBVIOUS
  <2> HIDE DEF one, grupo
  <2>3. IsTable(one)
    BY <2>2, TableIntro
  <2>4. QED
    BY <2>1, <2>2, <2>3 DEF grupo, one
<1>2. CASE B!Telefonos(df[i]) # {}
  <2>1. grupo = RowsAt(df, at)
    <3>1. \A r, set : B!RowsAt(r, set) = RowsAt(r, set)
      BY DEF B!RowsAt, RowsAt, B!Cardinality, Cardinality
    <3>2. grupo = B!RowsAt(df, at)
      BY <1>2 DEF B!Grupo, B!RowsWith
    <3>3. QED
      BY <3>1, <3>2
  <2>2. i \in at
    BY <1>2 DEF B!Comparten
  <2>3. at \in SUBSET DOMAIN df /\ at # {}
    BY <2>2
  <2> HIDE DEF grupo, at
  <2>4. /\ IsTable(grupo) /\ \A k \in DOMAIN grupo : \E j \in at : grupo[k] = df[j]
        /\ \A j \in at : \E k \in DOMAIN grupo : grupo[k] = df[j]
    BY <2>1, <2>3, RowsAtAreRows
  <2>5. 1 \in DOMAIN grupo
    BY <2>1, <2>3, FirstRow
  <2>6. QED
    BY <2>2, <2>3, <2>4, <2>5 DEF grupo
<1>3. QED
  BY <1>1, <1>2

\* A row appended to a table.
LEMMA AppendToTable ==
  ASSUME NEW rows, IsTable(rows), NEW r
  PROVE  /\ IsTable(Append(rows, r))
         /\ \A k \in DOMAIN rows : k \in DOMAIN Append(rows, r) /\ Append(rows, r)[k] = rows[k]
         /\ \E k \in DOMAIN Append(rows, r) : Append(rows, r)[k] = r
         /\ \A k \in DOMAIN Append(rows, r) :
              Append(rows, r)[k] = r \/ (k \in DOMAIN rows /\ Append(rows, r)[k] = rows[k])
<1> DEFINE n == Len(rows)  new == Append(rows, r)
<1>1. n \in Nat /\ DOMAIN rows = 1..n
  BY TableShape
<1>2. new = [i \in 1..(n + 1) |-> IF i = n + 1 THEN r ELSE rows[i]]
  <2> DEFINE all == {rows[i] : i \in DOMAIN rows} \cup {r}
  <2>1. rows = [i \in 1..n |-> rows[i]]
    BY TableShape
  <2>2. rows \in [1..n -> all]
    BY <1>1, <2>1
  <2>3. rows \in Seq(all) /\ r \in all
    BY <1>1, <2>2
  <2> HIDE DEF all
  <2>4. /\ new \in Seq(all) /\ Len(new) = n + 1 /\ new[n + 1] = r
        /\ \A i \in 1..n : new[i] = rows[i]
    BY <2>3, AppendProperties
  <2> HIDE DEF new
  <2>5. new = [i \in 1..(n + 1) |-> new[i]]
    BY <2>4
  <2>6. \A i \in 1..(n + 1) : new[i] = IF i = n + 1 THEN r ELSE rows[i]
    BY <1>1, <2>4
  <2>7. QED
    BY <2>5, <2>6
<1> HIDE DEF new
<1>3. DOMAIN new = 1..(n + 1) /\ n + 1 \in Nat /\ new = [i \in 1..(n + 1) |-> new[i]]
  BY <1>1, <1>2
<1>4. IsTable(new)
  BY <1>3, TableIntro
<1>5. /\ \A k \in DOMAIN rows : k \in DOMAIN new /\ new[k] = rows[k]
      /\ n + 1 \in DOMAIN new /\ new[n + 1] = r
      /\ \A k \in DOMAIN new : new[k] = r \/ (k \in DOMAIN rows /\ new[k] = rows[k])
  BY <1>1, <1>2, <1>3
<1>6. QED
  BY <1>4, <1>5 DEF new

\* Who is processed has a row in one of the two tables, every row that was looked at
\* is of somebody who was processed or has no Cliente_BT and is there itself, and who
\* stays is a row of the table.
EnLasDos(acc, row) ==
  \/ \E k \in DOMAIN acc.unicos : acc.unicos[k] = row
  \/ \E k \in DOMAIN acc.descartados : acc.descartados[k] = row
TieneFila(df, acc, b) == \E q \in DOMAIN df : df[q].bt = b /\ EnLasDos(acc, df[q])
SonFilas(df, rows) == \A k \in DOMAIN rows : \E q \in DOMAIN df : rows[k] = df[q]
SinBt(acc, row) == row.bt = B!NoKey /\ EnLasDos(acc, row)
DedupInv(df, acc, n) ==
  /\ IsTable(acc.unicos) /\ IsTable(acc.descartados) /\ SonFilas(df, acc.unicos)
  /\ \A b \in acc.procesados : b # B!NoKey /\ TieneFila(df, acc, b)
  /\ \A i \in 1..n : df[i].bt \in acc.procesados \/ SinBt(acc, df[i])

LEMMA DedupStep ==
  ASSUME NEW df, IsTable(df), \A i \in DOMAIN df : df[i].monto \in Int /\ IsFiniteSet(df[i].ops),
         NEW n \in DOMAIN df, NEW acc, DedupInv(df, acc, n - 1)
  PROVE  DedupInv(df, B!Fila(df, acc, df[n]), n)
<1> DEFINE grupo == B!Grupo(df, df[n])
           best == B!Mejor(grupo)
           at == {i \in DOMAIN grupo \ {best} : grupo[i].bt \notin acc.procesados}
           resto == RowsAt(grupo, at)
           new == B!Fila(df, acc, df[n])
<1>1. n \in Nat /\ Len(df) \in Nat /\ DOMAIN df = 1..Len(df)
  BY TableShape
<1>2. CASE df[n].bt \in acc.procesados
  <2>1. new = acc
    BY <1>2 DEF B!Fila
  <2>2. \A i \in 1..n : i \in 1..(n - 1) \/ i = n
    BY <1>1
  <2>3. QED
    BY <1>2, <2>1, <2>2 DEF DedupInv
<1>3. CASE df[n].bt \notin acc.procesados
  <2>1. /\ IsTable(grupo) /\ 1 \in DOMAIN grupo
        /\ \A k \in DOMAIN grupo : \E j \in DOMAIN df : grupo[k] = df[j]
        /\ \E k \in DOMAIN grupo : grupo[k] = df[n]
    BY GroupOfARow
  <2>2. best \in DOMAIN grupo
    <3> HIDE DEF grupo
    <3>1. \A k \in DOMAIN grupo : grupo[k].monto \in Int /\ IsFiniteSet(grupo[k].ops)
      BY <2>1
    <3>2. QED
      BY <2>1, <3>1, BestIsOfTheGroup
  <2>3. /\ new.unicos = Append(acc.unicos, grupo[best])
        /\ new.descartados = acc.descartados \o resto
        /\ new.procesados = acc.procesados \cup ({grupo[i].bt : i \in DOMAIN grupo} \ {B!NoKey})
    <3>1. B!Descartar(grupo, best, acc.procesados) = resto
      <4>1. \A r, set : B!RowsAt(r, set) = RowsAt(r, set)
        BY DEF B!RowsAt, RowsAt, B!Cardinality, Cardinality
      <4>2. B!Descartar(grupo, best, acc.procesados) = B!RowsAt(grupo, at)
        BY DEF B!Descartar
      <4>3. QED
        BY <4>1, <4>2
    <3> HIDE DEF resto
    <3>2. new = [unicos |-> Append(acc.unicos, grupo[best]),
                 descartados |-> acc.descartados \o resto,
                 procesados |-> acc.procesados \cup ({grupo[i].bt : i \in DOMAIN grupo} \ {B!NoKey})]
      BY <1>3, <3>1 DEF B!Fila
    <3>3. QED
      BY <3>2
  <2>4. /\ IsTable(resto)
        /\ \A i \in at : \E k \in DOMAIN resto : resto[k] = grupo[i]
    <3>1. at \in SUBSET DOMAIN grupo
      OBVIOUS
    <3> HIDE DEF grupo, at
    <3>2. QED
      BY <2>1, <3>1, RowsAtAreRows
  <2>5. IsTable(acc.unicos) /\ IsTable(acc.descartados)
    BY DEF DedupInv
  <2> HIDE DEF grupo, best, resto, new
  <2>6. /\ IsTable(new.unicos)
        /\ \A k \in DOMAIN acc.unicos : k \in DOMAIN new.unicos /\ new.unicos[k] = acc.unicos[k]
        /\ \E k \in DOMAIN new.unicos : new.unicos[k] = grupo[best]
        /\ SonFilas(df, new.unicos)
    <3> DEFINE a == acc.unicos  c == Append(a, grupo[best])
    <3>1. IsTable(a) /\ new.unicos = c
      BY <2>3, <2>5
    <3>2. SonFilas(df, a) /\ \E q \in DOMAIN df : grupo[best] = df[q]
      BY <2>1, <2>2 DEF DedupInv
    <3> HIDE DEF a
    <3>3. /\ IsTable(c) /\ \A k \in DOMAIN a : k \in DOMAIN c /\ c[k] = a[k]
          /\ \E k \in DOMAIN c : c[k] = grupo[best]
          /\ \A k \in DOMAIN c : c[k] = grupo[best] \/ (k \in DOMAIN a /\ c[k] = a[k])
      BY <3>1, AppendToTable
    <3> HIDE DEF c
    <3>4. SonFilas(df, c)
      BY <3>2, <3>3 DEF SonFilas
    <3>5. QED
      BY <3>1, <3>3, <3>4 DEF a
  <2>7. /\ IsTable(new.descartados)
        /\ \A k \in DOMAIN acc.descartados :
             k \in DOMAIN new.descartados /\ new.descartados[k] = acc.descartados[k]
        /\ \A j \in DOMAIN resto : \E k \in DOMAIN new.descartados : new.descartados[k] = resto[j]
    <3> DEFINE a == acc.descartados  c == a \o resto
    <3>1. IsTable(a) /\ IsTable(resto) /\ new.descartados = c
      BY <2>3, <2>4, <2>5
    <3> HIDE DEF a
    <3>2. /\ IsTable(c) /\ \A i \in DOMAIN a : i \in DOMAIN c /\ c[i] = a[i]
          /\ \A j \in DOMAIN resto : Len(a) + j \in DOMAIN c /\ c[Len(a) + j] = resto[j]
      BY <3>1, ConcatOfTables
    <3> HIDE DEF c
    <3>3. /\ IsTable(c) /\ \A i \in DOMAIN a : i \in DOMAIN c /\ c[i] = a[i]
          /\ \A j \in DOMAIN resto : \E k \in DOMAIN c : c[k] = resto[j]
      BY <3>2
    <3>4. QED
      BY <3>1, <3>3 DEF a
  <2>8. ASSUME NEW row, EnLasDos(acc, row) PROVE EnLasDos(new, row)
    BY <2>6, <2>7, <2>8 DEF EnLasDos
  <2>9. ASSUME NEW i \in DOMAIN grupo, grupo[i].bt \notin acc.procesados
        PROVE  EnLasDos(new, grupo[i])
    <3>1. CASE i = best
      BY <2>6, <3>1 DEF EnLasDos
    <3>2. CASE i # best
      <4>1. i \in at
        BY <2>9, <3>2
      <4> HIDE DEF at
      <4>2. PICK j \in DOMAIN resto : resto[j] = grupo[i]
        BY <2>4, <4>1
      <4>3. QED
        BY <2>7, <4>2 DEF EnLasDos
    <3>3. QED
      BY <3>1, <3>2
  <2>10. ASSUME NEW b \in new.procesados PROVE b # B!NoKey /\ TieneFila(df, new, b)
    <3>1. CASE b \in acc.procesados
      <4>1. b # B!NoKey /\ TieneFila(df, acc, b)
        BY <3>1 DEF DedupInv
      <4>2. QED
        BY <2>8, <4>1 DEF TieneFila
    <3>2. CASE b \notin acc.procesados
      <4>1. PICK i \in DOMAIN grupo : grupo[i].bt = b /\ b # B!NoKey
        BY <2>3, <3>2
      <4>2. PICK q \in DOMAIN df : grupo[i] = df[q]
        BY <2>1
      <4>3. EnLasDos(new, grupo[i])
        BY <2>9, <3>2, <4>1
      <4>4. QED
        BY <4>1, <4>2, <4>3 DEF TieneFila
    <3>3. QED
      BY <3>1, <3>2
  <2>11. ASSUME NEW i \in 1..n PROVE df[i].bt \in new.procesados \/ SinBt(new, df[i])
    <3>1. CASE i = n
      <4>1. PICK k \in DOMAIN grupo : grupo[k] = df[n]
        BY <2>1
      <4>2. EnLasDos(new, df[n])
        BY <1>3, <2>9, <4>1
      <4>3. df[n].bt \in new.procesados \/ df[n].bt = B!NoKey
        BY <2>3, <4>1
      <4>4. QED
        BY <3>1, <4>2, <4>3 DEF SinBt
    <3>2. CASE i # n
      <4>1. i \in 1..(n - 1)
        BY <1>1, <3>2
      <4>2. df[i].bt \in acc.procesados \/ SinBt(acc, df[i])
        BY <4>1 DEF DedupInv
      <4>3. QED
        BY <2>3, <2>8, <4>2 DEF SinBt
    <3>3. QED
      BY <3>1, <3>2
  <2>12. QED
    BY <2>6, <2>7, <2>10, <2>11 DEF DedupInv, new
<1>4. QED
  BY <1>2, <1>3

\* deduplicar_por_telefonos: whoever shares a phone with others, a row of every
\* Cliente_BT is in the table or among those that are discarded, and so is every row
\* without one.
LEMMA NobodyIsDropped ==
  ASSUME NEW df, IsTable(df), \A i \in DOMAIN df : df[i].monto \in Int /\ IsFiniteSet(df[i].ops)
  PROVE  LET base == B!Deduplicar(df) IN
         /\ IsTable(base.unicos) /\ IsTable(base.descartados) /\ SonFilas(df, base.unicos)
         /\ \A i \in DOMAIN df : TieneFila(df, base, df[i].bt)
         /\ \A i \in DOMAIN df : df[i].bt = B!NoKey => EnLasDos(base, df[i])
<1> DEFINE n == Len(df)
           none == [unicos |-> <<>>, descartados |-> <<>>, procesados |-> {}]
           Runs(f, k) == f = [m \in 0..k |-> IF m = 0 THEN none ELSE B!Fila(df, f[m - 1], df[m])]
           f == CHOOSE f : Runs(f, n)
<1>1. n \in Nat /\ DOMAIN df = 1..n
  BY TableShape
<1>2. B!Deduplicar(df) = f[n]
  BY DEF B!Deduplicar
<1> HIDE DEF none
<1>3. \E g : Runs(g, n)
  <2> DEFINE bad == {k \in 0..n : ~\E g : Runs(g, k)}
  <2>1. ASSUME bad # {} PROVE FALSE
    <3>1. bad \in SUBSET Nat
      BY <1>1
    <3>2. PICK k \in bad : \A j \in bad : k <= j
      BY <2>1, <3>1, LeastNatural
    <3>3. k \in 0..n /\ ~\E g : Runs(g, k)
      OBVIOUS
    <3>4. k # 0
      <4> DEFINE zero == [m \in 0..0 |-> none]
      <4>1. zero = [m \in 0..0 |-> IF m = 0 THEN none ELSE B!Fila(df, zero[m - 1], df[m])]
        OBVIOUS
      <4>2. QED
        BY <3>3, <4>1
    <3>5. k - 1 \in 0..n /\ ~(k <= k - 1)
      BY <1>1, <3>3, <3>4
    <3>6. PICK g : Runs(g, k - 1)
      BY <3>2, <3>5
    <3> DEFINE more == [m \in 0..k |-> IF m = k THEN B!Fila(df, g[k - 1], df[k]) ELSE g[m]]
    <3>7. \A m \in 0..k : more[m] = IF m = 0 THEN none ELSE B!Fila(df, more[m - 1], df[m])
      <4>1. \A m \in 0..(k - 1) : g[m] = IF m = 0 THEN none ELSE B!Fila(df, g[m - 1], df[m])
        BY <3>6
      <4>2. ASSUME NEW m \in 0..k
            PROVE  more[m] = IF m = 0 THEN none ELSE B!Fila(df, more[m - 1], df[m])
        <5>1. CASE m = k
          BY <1>1, <3>3, <3>4, <5>1
        <5>2. CASE m # k
          BY <1>1, <3>3, <4>1, <5>2
        <5>3. QED
          BY <5>1, <5>2
      <4>3. QED
        BY <4>2
    <3>8. Runs(more, k)
      <4>1. more = [m \in 0..k |-> more[m]]
        OBVIOUS
      <4> HIDE DEF more
      <4>2. QED
        BY <3>7, <4>1
    <3>9. QED
      BY <3>3, <3>8
  <2>2. n \in 0..n
    BY <1>1
  <2>3. QED
    BY <2>1, <2>2
<1>4. Runs(f, n)
  BY <1>3
<1>5. \A m \in 0..n : f[m] = IF m = 0 THEN none ELSE B!Fila(df, f[m - 1], df[m])
  BY <1>4
<1> HIDE DEF f
<1>6. DedupInv(df, f[n], n)
  <2> DEFINE bad == {k \in 0..n : ~DedupInv(df, f[k], k)}
  <2>1. ASSUME bad # {} PROVE FALSE
    <3>1. bad \in SUBSET Nat
      BY <1>1
    <3>2. PICK k \in bad : \A j \in bad : k <= j
      BY <2>1, <3>1, LeastNatural
    <3>3. CASE k = 0
      <4>1. f[0] = none
        BY <1>1, <1>5
      <4>2. IsTable(<<>>)
        <5>1. <<>> = [i \in 1..0 |-> <<>>[i]]
          OBVIOUS
        <5>2. QED
          BY <5>1, TableIntro
      <4>3. DedupInv(df, none, 0)
        <5>1. /\ none.unicos = <<>> /\ none.descartados = <<>> /\ none.procesados = {}
              /\ \A i \in 1..0 : FALSE
          BY DEF none
        <5>2. DOMAIN <<>> = {}
          OBVIOUS
        <5>3. QED
          BY <4>2, <5>1, <5>2 DEF DedupInv, SonFilas
      <4>4. QED
        BY <3>2, <3>3, <4>1, <4>3
    <3>4. CASE k # 0
      <4>1. k - 1 \in 0..n /\ ~(k <= k - 1) /\ k \in DOMAIN df /\ k \in 0..n
        BY <1>1, <3>2, <3>4
      <4>2. DedupInv(df, f[k - 1], k - 1)
        BY <3>2, <4>1
      <4>3. f[k] = B!Fila(df, f[k - 1], df[k])
        BY <1>5, <3>4, <4>1
      <4>4. DedupInv(df, f[k], k)
        BY <4>1, <4>2, <4>3, DedupStep
      <4>5. QED
        BY <3>2, <4>4
    <3>5. QED
      BY <3>3, <3>4
  <2>2. n \in 0..n
    BY <1>1
  <2>3. QED
    BY <2>1, <2>2
<1>7. /\ IsTable(f[n].unicos) /\ IsTable(f[n].descartados) /\ SonFilas(df, f[n].unicos)
      /\ \A i \in DOMAIN df : /\ TieneFila(df, f[n], df[i].bt)
                              /\ df[i].bt = B!NoKey => EnLasDos(f[n], df[i])
  <2> DEFINE acc == f[n]
  <2> HIDE DEF acc
  <2>1. DedupInv(df, acc, n)
    BY <1>6 DEF acc
  <2>2. /\ \A b \in acc.procesados : b # B!NoKey /\ TieneFila(df, acc, b)
        /\ \A i \in DOMAIN df : df[i].bt \in acc.procesados \/ SinBt(acc, df[i])
    BY <1>1, <2>1 DEF DedupInv
  <2>3. ASSUME NEW i \in DOMAIN df, SinBt(acc, df[i]) PROVE TieneFila(df, acc, df[i].bt)
    BY <2>3 DEF SinBt, TieneFila
  <2>4. QED
    BY <2>1, <2>2, <2>3 DEF DedupInv, SinBt, acc
<1>8. QED
  <2> DEFINE acc == f[n]
  <2> HIDE DEF acc
  <2>1. B!Deduplicar(df) = acc
    BY <1>2 DEF acc
  <2>2. /\ IsTable(acc.unicos) /\ IsTable(acc.descartados) /\ SonFilas(df, acc.unicos)
        /\ \A i \in DOMAIN df : /\ TieneFila(df, acc, df[i].bt)
                                /\ df[i].bt = B!NoKey => EnLasDos(acc, df[i])
    BY <1>7 DEF acc
  <2>3. QED
    BY <2>1, <2>2

\* The operations of a group are a finite set.
LEMMA OperationsOfAGroup ==
  ASSUME NEW grupo, IsTable(grupo), \A i \in DOMAIN grupo : IsFiniteSet(grupo[i].ops)
  PROVE  IsFiniteSet(UNION {grupo[i].ops : i \in DOMAIN grupo})
<1> DEFINE all == {grupo[i].ops : i \in DOMAIN grupo}
           of == [i \in DOMAIN grupo |-> grupo[i].ops]
<1>1. Len(grupo) \in Nat /\ DOMAIN grupo = 1..Len(grupo)
  BY TableShape
<1>2. IsFiniteSet(DOMAIN grupo)
  BY <1>1, FS_Interval
<1>3. of \in Surjection(DOMAIN grupo, all)
  BY DEF Surjection
<1> HIDE DEF of
<1>4. IsFiniteSet(all)
  <2> HIDE DEF all
  <2>1. QED
    BY <1>2, <1>3, FS_Surjection
<1>5. \A set \in all : IsFiniteSet(set)
  OBVIOUS
<1> HIDE DEF all
<1>6. IsFiniteSet(UNION all)
  BY <1>4, <1>5, FS_UNION
<1>7. QED
  BY <1>6 DEF all

\* The columns of a row of the bank, which procesar_base keeps.
FilaDelBanco(r) ==
  /\ {"bt", "cuil", "monto", "comp", "punit", "ops", "gestion", "dias"} \subseteq DOMAIN r
  /\ r.bt \in Int /\ r.monto \in Int /\ r.comp \in Int /\ r.punit \in Int /\ IsFiniteSet(r.ops)

LEMMA CleanRow ==
  ASSUME NEW r, FilaDelBanco(r)
  PROVE  LET c == B!LimpiarTelefonos(r) IN
         /\ FilaDelBanco(c) /\ c.bt = r.bt /\ c.cuil = r.cuil /\ c.gestion = r.gestion /\ c.dias = r.dias
<1> DEFINE c == B!LimpiarTelefonos(r)
<1>1. /\ DOMAIN c = DOMAIN r
      /\ \A x \in {"bt", "cuil", "monto", "comp", "punit", "ops", "gestion", "dias"} :
           x \in DOMAIN r => c[x] = r[x]
  BY DEF B!LimpiarTelefonos
<1> HIDE DEF c
<1>2. /\ c["bt"] = r["bt"] /\ c["cuil"] = r["cuil"] /\ c["monto"] = r["monto"]
      /\ c["comp"] = r["comp"] /\ c["punit"] = r["punit"]
      /\ c["ops"] = r["ops"] /\ c["gestion"] = r["gestion"] /\ c["dias"] = r["dias"]
  BY <1>1 DEF FilaDelBanco
<1>3. QED
  BY <1>1, <1>2 DEF FilaDelBanco, c

\* calcular_quita leaves to pay more than nothing and less than the debt.
EsQuita(left, monto) == left = B!NoAmount \/ (left \in 1..(100 * monto - 1))
LEMMA DiscountIsBelowTheDebt ==
  ASSUME NEW tipo, NEW mora, NEW comp \in Int, NEW punit \in Int, NEW monto \in Int, NEW oferta
  PROVE  EsQuita(B!CalcularQuita(tipo, mora, comp, punit, monto, oferta), monto)
<1> DEFINE r == CHOOSE r \in B!Rango(mora) : TRUE
           quita == r.comp * comp + r.punit * punit
           left == B!CalcularQuita(tipo, mora, comp, punit, monto, oferta)
<1>1. left = IF tipo = "MA" /\ B!Rango(mora) # {} /\ ~oferta /\ quita > 0 /\ quita < 100 * monto
             THEN 100 * monto - quita ELSE B!NoAmount
  BY DEF B!CalcularQuita
<1>2. CASE B!Rango(mora) = {}
  BY <1>1, <1>2 DEF EsQuita
<1>3. CASE B!Rango(mora) # {}
  <2>1. r \in B!RangosQuita
    BY <1>3 DEF B!Rango
  <2>2. left = B!NoAmount \/ (left = 100 * monto - quita /\ quita > 0 /\ quita < 100 * monto)
    BY Zenon, <1>1
  <2> HIDE DEF r, left
  <2>3. r.punit = 100 /\ r.comp \in {0, 30, 50}
    BY <2>1 DEF B!RangosQuita
  <2>4. quita \in Int
    BY <2>3
  <2> HIDE DEF quita
  <2>5. left = B!NoAmount \/ left \in 1..(100 * monto - 1)
    BY <2>2, <2>4
  <2>6. QED
    BY <2>5 DEF EsQuita, left
<1>4. QED
  BY <1>2, <1>3

\* A group of rows of the bank is one row of its first client, with numbers and a
\* finite set of operations, a discount below its debt and a summary of its rows.
LEMMA GroupToRow ==
  ASSUME NEW grupo, IsTable(grupo), 1 \in DOMAIN grupo, \A i \in DOMAIN grupo : FilaDelBanco(grupo[i])
  PROVE  /\ LET r == B!Consolidar(grupo) IN
              r.bt = grupo[1].bt /\ r.monto \in Int /\ IsFiniteSet(r.ops)
         /\ LET r == B!ConsolidarCompleta(grupo) IN
              /\ r.bt = grupo[1].bt /\ r.cuil = grupo[1].cuil /\ r.monto \in Int /\ IsFiniteSet(r.ops)
              /\ {"bt", "cuil", "monto", "monto_quita", "resumen"} \subseteq DOMAIN r
              /\ EsQuita(r.monto_quita, r.monto) /\ Len(r.resumen) = Len(grupo)
<1>1. B!Amounts(grupo, "monto") \in Int
  <2>1. \A i \in DOMAIN grupo : grupo[i]["monto"] \in Int
    BY DEF FilaDelBanco
  <2>2. QED
    BY <2>1, AmountsAreNumbers
<1>2. IsFiniteSet(UNION {grupo[i].ops : i \in DOMAIN grupo})
  <2>1. \A i \in DOMAIN grupo : IsFiniteSet(grupo[i].ops)
    BY DEF FilaDelBanco
  <2>2. QED
    BY <2>1, OperationsOfAGroup
<1>3. LET r == B!Consolidar(grupo) IN
        r.bt = grupo[1].bt /\ r.monto \in Int /\ IsFiniteSet(r.ops)
  <2> DEFINE r == B!Consolidar(grupo)
             ops == UNION {grupo[i].ops : i \in DOMAIN grupo}
             monto == B!Amounts(grupo, "monto")
             oferta == B!Amounts(grupo, "oferta")
             mora == B!Max({grupo[i].mora : i \in DOMAIN grupo})
  <2>1. r = [grupo[1] EXCEPT !.monto = monto, !.oferta = oferta, !.mora = mora, !.ops = ops]
    BY DEF B!Consolidar
  <2>2. monto \in Int /\ IsFiniteSet(ops) /\ {"bt", "monto", "ops"} \subseteq DOMAIN grupo[1]
    BY <1>1, <1>2 DEF FilaDelBanco
  <2> HIDE DEF r, ops, monto, oferta, mora
  <2>3. r["bt"] = grupo[1]["bt"] /\ r["monto"] = monto /\ r["ops"] = ops
    BY <2>1, <2>2
  <2>4. QED
    BY <2>2, <2>3 DEF r
<1>4. LET r == B!ConsolidarCompleta(grupo) IN
        /\ r.bt = grupo[1].bt /\ r.cuil = grupo[1].cuil /\ r.monto \in Int /\ IsFiniteSet(r.ops)
        /\ {"bt", "cuil", "monto", "monto_quita", "resumen"} \subseteq DOMAIN r
        /\ EsQuita(r.monto_quita, r.monto) /\ Len(r.resumen) = Len(grupo)
  <2> DEFINE r == B!ConsolidarCompleta(grupo)
             comp == B!Amounts(grupo, "comp")  punit == B!Amounts(grupo, "punit")
             monto == B!Amounts(grupo, "monto")  resumen == B!ResumenProductos(grupo)
  <2>1. /\ r.bt = grupo[1].bt /\ r.cuil = grupo[1].cuil /\ r.monto = monto
        /\ r.ops = grupo[1].ops /\ r.resumen = resumen
        /\ {"bt", "cuil", "monto", "monto_quita", "resumen"} \subseteq DOMAIN r
        /\ \E tipo, mora, oferta : r.monto_quita = B!CalcularQuita(tipo, mora, comp, punit, monto, oferta)
    BY DEF B!ConsolidarCompleta
  <2>2. IsFiniteSet(grupo[1].ops)
    BY DEF FilaDelBanco
  <2>3. comp \in Int /\ punit \in Int
    <3>1. \A i \in DOMAIN grupo : grupo[i]["comp"] \in Int /\ grupo[i]["punit"] \in Int
      BY DEF FilaDelBanco
    <3>2. QED
      BY <3>1, AmountsAreNumbers
  <2>4. Len(resumen) = Len(grupo)
    <3>1. Len(grupo) \in Nat /\ DOMAIN grupo = 1..Len(grupo)
      BY TableShape
    <3>2. resumen = [i \in 1..Len(grupo) |-> resumen[i]]
      BY <3>1 DEF B!ResumenProductos, B!MapRows
    <3> HIDE DEF resumen
    <3>3. QED
      BY <3>1, <3>2, TableIntro
  <2> HIDE DEF r, comp, punit, monto, resumen
  <2>5. EsQuita(r.monto_quita, monto)
    BY <1>1, <2>1, <2>3, DiscountIsBelowTheDebt DEF monto
  <2>6. QED
    BY <1>1, <2>1, <2>2, <2>4, <2>5 DEF r, monto
<1>5. QED
  BY <1>3, <1>4

\* procesar_base: a client with an offer has a row in the base or in its discarded.
LEMMA ClientsOfBancor ==
  ASSUME NEW rows, IsTable(rows), \A i \in DOMAIN rows : FilaDelBanco(rows[i])
  PROVE  LET b == B!ProcesarBase(rows) IN
         De(B!Ofertas(rows), "bt") \ {B!NoKey} \subseteq De(b.unicos, "bt") \cup De(b.descartados, "bt")
<1> DEFINE at == {i \in DOMAIN rows : rows[i].oferta > 0 /\ rows[i].modulo = "201"}
           con == RowsAt(rows, at)
           limpia == [k \in DOMAIN con |-> B!LimpiarTelefonos(con[k])]
           groups == GroupsByAppearance(limpia, "bt")
           key == [k \in DOMAIN groups |-> groups[k][1]["bt"]]
           sorted == Sorted(groups, key)
           df == [k \in DOMAIN sorted |-> B!Consolidar(sorted[k])]
           b == B!Deduplicar(df)
<1>1. /\ B!Ofertas(rows) = con
      /\ B!ProcesarBase(rows).unicos = b.unicos /\ B!ProcesarBase(rows).descartados = b.descartados
  <2>1. \A r, set : B!RowsAt(r, set) = RowsAt(r, set)
    BY DEF B!RowsAt, RowsAt, B!Cardinality, Cardinality
  <2>2. B!Ofertas(rows) = con
    BY <2>1 DEF B!Ofertas, B!RowsWith
  <2> HIDE DEF con
  <2>3. B!MapRows(B!LimpiarTelefonos, B!Ofertas(rows)) = limpia
    BY SMTT(30), <2>2 DEF B!MapRows
  <2> HIDE DEF limpia
  <2>4. B!GroupsByAppearance(limpia, "bt") = groups
    BY DEF B!GroupsByAppearance, GroupsByAppearance, B!RowsWith, RowsWith, B!KeepFirst, KeepFirst,
           B!MapRows, MapRows, B!RowsAt, RowsAt, B!Cardinality, Cardinality, B!NoKey, NoKey
  <2> HIDE DEF groups
  <2>5. B!GroupsByKey(limpia, "bt") = sorted
    <3>1. B!GroupsByKey(limpia, "bt") = B!Sorted(groups, key)
      BY <2>4 DEF B!GroupsByKey, B!SortBy
    <3> HIDE DEF key
    <3>2. B!Sorted(groups, key) = Sorted(groups, key)
      BY DEF B!Sorted, Sorted, B!Cardinality, Cardinality
    <3>3. QED
      BY <3>1, <3>2
  <2> HIDE DEF sorted
  <2>6. B!Deduplicar(B!MapRows(B!Consolidar, B!GroupsByKey(limpia, "bt"))) = b
    BY <2>5 DEF B!MapRows
  <2> HIDE DEF b
  <2>7. QED
    BY <2>2, <2>3, <2>6 DEF B!ProcesarBase
<1>2. IsTable(con) /\ \A k \in DOMAIN con : FilaDelBanco(con[k])
  <2>1. at \in SUBSET DOMAIN rows
    OBVIOUS
  <2> HIDE DEF at
  <2>2. IsTable(con) /\ \A k \in DOMAIN con : \E i \in at : con[k] = rows[i]
    BY <2>1, RowsAtAreRows
  <2> HIDE DEF con
  <2>3. QED
    BY <2>1, <2>2
<1> HIDE DEF con
<1>3. /\ IsTable(limpia) /\ DOMAIN limpia = DOMAIN con
      /\ \A k \in DOMAIN con : FilaDelBanco(limpia[k]) /\ limpia[k].bt = con[k].bt
  <2>1. limpia = [k \in DOMAIN con |-> limpia[k]]
    OBVIOUS
  <2>2. \A k \in DOMAIN con : FilaDelBanco(limpia[k]) /\ limpia[k].bt = con[k].bt
    BY <1>2, CleanRow
  <2> HIDE DEF limpia
  <2>3. QED
    BY <1>2, <2>1, <2>2, MappedTable
<1> HIDE DEF limpia
<1>4. /\ IsTable(groups)
      /\ \A k \in DOMAIN groups :
           /\ IsTable(groups[k]) /\ 1 \in DOMAIN groups[k]
           /\ \A i \in DOMAIN groups[k] : FilaDelBanco(groups[k][i])
      /\ \A i \in DOMAIN limpia : limpia[i]["bt"] # NoKey =>
           \E k \in DOMAIN groups : groups[k][1]["bt"] = limpia[i]["bt"]
  <2>1. /\ IsTable(groups)
        /\ \A k \in DOMAIN groups :
             /\ IsTable(groups[k]) /\ 1 \in DOMAIN groups[k]
             /\ \A i \in DOMAIN groups[k] : \E j \in DOMAIN limpia : groups[k][i] = limpia[j]
        /\ \A i \in DOMAIN limpia : limpia[i]["bt"] # NoKey =>
             \E k \in DOMAIN groups : groups[k][1]["bt"] = limpia[i]["bt"]
    BY <1>3, GroupsAreWhole
  <2> HIDE DEF groups
  <2>2. QED
    BY <1>3, <2>1
<1> HIDE DEF groups
<1>5. \A k \in DOMAIN groups : key[k] = groups[k][1].bt /\ key[k] \in Int
  BY <1>4 DEF FilaDelBanco
<1> HIDE DEF key
<1>6. /\ IsTable(sorted) /\ DOMAIN sorted = DOMAIN groups
      /\ \A n \in DOMAIN groups : \E i \in DOMAIN groups : sorted[n] = groups[i]
      /\ \A i \in DOMAIN groups : \E n \in DOMAIN groups : sorted[n] = groups[i]
  BY <1>4, <1>5, SortedRows
<1> HIDE DEF sorted
<1>7. /\ IsTable(df) /\ DOMAIN df = DOMAIN sorted
      /\ \A n \in DOMAIN sorted : df[n].bt = sorted[n][1].bt /\ df[n].monto \in Int /\ IsFiniteSet(df[n].ops)
  <2>1. df = [k \in DOMAIN sorted |-> df[k]]
    OBVIOUS
  <2>2. ASSUME NEW n \in DOMAIN sorted
        PROVE  df[n].bt = sorted[n][1].bt /\ df[n].monto \in Int /\ IsFiniteSet(df[n].ops)
    <3>1. PICK i \in DOMAIN groups : sorted[n] = groups[i]
      BY <1>6
    <3> DEFINE grupo == groups[i]
    <3>2. IsTable(grupo) /\ 1 \in DOMAIN grupo /\ \A k \in DOMAIN grupo : FilaDelBanco(grupo[k])
      BY <1>4
    <3>3. df[n] = B!Consolidar(grupo)
      BY <3>1
    <3> HIDE DEF grupo, df
    <3>4. df[n].bt = grupo[1].bt /\ df[n].monto \in Int /\ IsFiniteSet(df[n].ops)
      BY <3>2, <3>3, GroupToRow
    <3>5. QED
      BY <3>1, <3>4 DEF grupo
  <2> HIDE DEF df
  <2>3. QED
    BY <1>6, <2>1, <2>2, MappedTable
<1> HIDE DEF df
<1>8. \A n \in DOMAIN df : TieneFila(df, b, df[n].bt)
  BY <1>7, NobodyIsDropped
<1> HIDE DEF b
<1>9. ASSUME NEW k \in DOMAIN con, con[k].bt # B!NoKey
      PROVE  con[k].bt \in De(b.unicos, "bt") \cup De(b.descartados, "bt")
  <2>1. limpia[k]["bt"] = con[k].bt /\ limpia[k]["bt"] # NoKey /\ k \in DOMAIN limpia
    BY <1>3, <1>9 DEF B!NoKey, NoKey
  <2>2. PICK g \in DOMAIN groups : groups[g][1]["bt"] = con[k].bt
    BY <1>4, <2>1
  <2>3. PICK n \in DOMAIN df : df[n].bt = con[k].bt
    <3>1. PICK n \in DOMAIN groups : sorted[n] = groups[g]
      BY <1>6
    <3>2. n \in DOMAIN df /\ df[n].bt = sorted[n][1].bt
      BY <1>6, <1>7
    <3>3. sorted[n][1].bt = con[k].bt
      BY <2>2, <3>1
    <3>4. QED
      BY <3>2, <3>3
  <2>4. PICK q \in DOMAIN df : df[q].bt = con[k].bt /\ EnLasDos(b, df[q])
    BY <1>8, <2>3 DEF TieneFila
  <2>5. QED
    BY <2>4 DEF EnLasDos, De
<1>10. De(con, "bt") \ {B!NoKey} \subseteq De(b.unicos, "bt") \cup De(b.descartados, "bt")
  BY <1>9 DEF De
<1>11. QED
  BY <1>1, <1>10

\* The tables of procesar_base_completa: the debts that no agreement takes away, with
\* the phones as they came and cleaned; a group of them per CUIL, and a row per group.
Tomadas(rows) == B!FiltrarAcuerdos(B!Deudas(rows))
Libres(rows) == B!FiltrarAcuerdos(B!MapRows(B!LimpiarTelefonos, B!Deudas(rows)))
Grupos(rows) == GroupsByAppearance(Libres(rows), "cuil")
Consolidadas(rows) == [k \in DOMAIN Grupos(rows) |-> B!ConsolidarCompleta(Grupos(rows)[k])]
DeLaBase(rows, r) == \E i \in DOMAIN rows : r.bt = rows[i].bt /\ r.cuil = rows[i].cuil
DelCuil(rows, c) == {i \in DOMAIN rows : rows[i].cuil = c}

\* Cleaning the phones takes no debt away: the agreements are the same.
LEMMA FreeDebts ==
  ASSUME NEW rows, IsTable(rows), \A i \in DOMAIN rows : FilaDelBanco(rows[i])
  PROVE  /\ IsTable(Libres(rows)) /\ IsTable(Tomadas(rows)) /\ DOMAIN Libres(rows) = DOMAIN Tomadas(rows)
         /\ \A k \in DOMAIN Libres(rows) :
              /\ FilaDelBanco(Libres(rows)[k])
              /\ Libres(rows)[k].bt = Tomadas(rows)[k].bt /\ Libres(rows)[k].cuil = Tomadas(rows)[k].cuil
<1> DEFINE at == {i \in DOMAIN rows : rows[i].estado # "Cancelada" /\ rows[i].saldo # 0 /\ rows[i].monto > 0}
           con == RowsAt(rows, at)
           limpia == [k \in DOMAIN con |-> B!LimpiarTelefonos(con[k])]
           Libre(r) == r.gestion \notin B!Acuerdos \/ r.dias = B!NoDate \/ r.dias > 7
           in == {k \in DOMAIN con : Libre(con[k])}
           tomadas == RowsAt(con, in)
           libres == RowsAt(limpia, in)
<1>1. \A r, set : B!RowsAt(r, set) = RowsAt(r, set)
  BY DEF B!RowsAt, RowsAt, B!Cardinality, Cardinality
<1>2. B!Deudas(rows) = con
  BY <1>1 DEF B!Deudas, B!RowsWith
<1>3. IsTable(con) /\ \A k \in DOMAIN con : FilaDelBanco(con[k])
  <2>1. at \in SUBSET DOMAIN rows
    OBVIOUS
  <2> HIDE DEF at
  <2>2. IsTable(con) /\ \A k \in DOMAIN con : \E i \in at : con[k] = rows[i]
    BY <2>1, RowsAtAreRows
  <2> HIDE DEF con
  <2>3. QED
    BY <2>1, <2>2
<1> HIDE DEF con
<1>4. /\ IsTable(limpia) /\ DOMAIN limpia = DOMAIN con
      /\ \A k \in DOMAIN con : /\ FilaDelBanco(limpia[k])
                               /\ limpia[k].bt = con[k].bt /\ limpia[k].cuil = con[k].cuil
                               /\ Libre(limpia[k]) <=> Libre(con[k])
  <2>1. limpia = [k \in DOMAIN con |-> limpia[k]]
    OBVIOUS
  <2>2. ASSUME NEW k \in DOMAIN con
        PROVE  /\ FilaDelBanco(limpia[k]) /\ limpia[k].bt = con[k].bt /\ limpia[k].cuil = con[k].cuil
               /\ limpia[k].gestion = con[k].gestion /\ limpia[k].dias = con[k].dias
    <3>1. limpia[k] = B!LimpiarTelefonos(con[k]) /\ FilaDelBanco(con[k])
      BY <1>3
    <3> HIDE DEF limpia
    <3>2. QED
      BY <3>1, CleanRow
  <2> HIDE DEF limpia
  <2>3. IsTable(limpia) /\ DOMAIN limpia = DOMAIN con
    BY <1>3, <2>1, MappedTable
  <2>4. QED
    BY <1>3, <2>2, <2>3
<1>5. B!MapRows(B!LimpiarTelefonos, con) = limpia
  BY DEF B!MapRows
<1> HIDE DEF limpia
<1>6. Tomadas(rows) = tomadas /\ Libres(rows) = libres
  <2>1. B!FiltrarAcuerdos(con) = B!RowsAt(con, in)
    BY DEF B!FiltrarAcuerdos, B!RowsWith
  <2>2. B!FiltrarAcuerdos(limpia) = B!RowsAt(limpia, {k \in DOMAIN limpia : Libre(limpia[k])})
    BY DEF B!FiltrarAcuerdos, B!RowsWith
  <2>3. {k \in DOMAIN limpia : Libre(limpia[k])} = in
    BY <1>4
  <2> HIDE DEF in
  <2>4. B!FiltrarAcuerdos(con) = tomadas /\ B!FiltrarAcuerdos(limpia) = libres
    BY <1>1, <2>1, <2>2, <2>3
  <2> HIDE DEF tomadas, libres
  <2>5. QED
    BY <1>2, <1>5, <2>4 DEF Tomadas, Libres
<1>7. in \in SUBSET DOMAIN con /\ in \in SUBSET DOMAIN limpia
  BY <1>4
<1> HIDE DEF in
<1>8. /\ IsTable(tomadas) /\ DOMAIN tomadas = 1..Cardinality(in)
      /\ OrderOf(in) \in [1..Cardinality(in) -> in]
      /\ \A n \in 1..Cardinality(in) : tomadas[n] = con[OrderOf(in)[n]]
  BY <1>3, <1>7, RowsAtOfTable
<1>9. /\ IsTable(libres) /\ DOMAIN libres = 1..Cardinality(in)
      /\ \A n \in 1..Cardinality(in) : libres[n] = limpia[OrderOf(in)[n]]
  BY <1>4, <1>7, RowsAtOfTable
<1> HIDE DEF libres, tomadas
<1>10. ASSUME NEW k \in DOMAIN libres
       PROVE  FilaDelBanco(libres[k]) /\ libres[k].bt = tomadas[k].bt /\ libres[k].cuil = tomadas[k].cuil
  <2>1. OrderOf(in)[k] \in DOMAIN con
    BY <1>7, <1>8, <1>9
  <2>2. libres[k] = limpia[OrderOf(in)[k]] /\ tomadas[k] = con[OrderOf(in)[k]]
    BY <1>8, <1>9
  <2>3. QED
    BY <1>4, <2>1, <2>2
<1>11. QED
  BY <1>6, <1>8, <1>9, <1>10

\* The ROMAN base before the phones are compared: a row for each CUIL of a debt, with
\* a discount below the debt and a summary of all the rows of the CUIL.
EsConsolidada(rows, r) ==
  /\ r.monto \in Int /\ IsFiniteSet(r.ops) /\ DeLaBase(Libres(rows), r)
  /\ {"bt", "cuil", "monto", "monto_quita", "resumen"} \subseteq DOMAIN r
  /\ EsQuita(r.monto_quita, r.monto)
  /\ Len(r.resumen) = Cardinality(DelCuil(Libres(rows), r.cuil))

LEMMA RomanBase ==
  ASSUME NEW rows, IsTable(rows), \A i \in DOMAIN rows : FilaDelBanco(rows[i])
  PROVE  /\ IsTable(Consolidadas(rows))
         /\ \A k \in DOMAIN Consolidadas(rows) : EsConsolidada(rows, Consolidadas(rows)[k])
         /\ \A i \in DOMAIN Libres(rows) : Libres(rows)[i].cuil # NoKey =>
              \E k \in DOMAIN Consolidadas(rows) : Consolidadas(rows)[k].cuil = Libres(rows)[i].cuil
<1> DEFINE libres == Libres(rows)  groups == Grupos(rows)  df == Consolidadas(rows)
<1>1. IsTable(libres) /\ \A k \in DOMAIN libres : FilaDelBanco(libres[k]) /\ DeLaBase(libres, libres[k])
  BY FreeDebts DEF DeLaBase
<1>2. groups = GroupsByAppearance(libres, "cuil") /\ df = [k \in DOMAIN groups |-> B!ConsolidarCompleta(groups[k])]
  BY DEF Grupos, Consolidadas
<1> HIDE DEF libres, groups, df
<1>3. /\ IsTable(groups)
      /\ \A k \in DOMAIN groups :
           /\ IsTable(groups[k]) /\ 1 \in DOMAIN groups[k]
           /\ groups[k] = RowsAt(libres, {j \in DOMAIN libres : libres[j]["cuil"] = groups[k][1]["cuil"]})
           /\ \A i \in DOMAIN groups[k] : \E j \in DOMAIN libres : groups[k][i] = libres[j]
      /\ \A i \in DOMAIN libres : libres[i]["cuil"] # NoKey =>
           \E k \in DOMAIN groups : groups[k][1]["cuil"] = libres[i]["cuil"]
  <2>1. \A k \in DOMAIN groups :
          groups[k] = RowsAt(libres, {j \in DOMAIN libres : libres[j]["cuil"] = groups[k][1]["cuil"]})
    BY <1>1, <1>2, GroupsInFull
  <2>2. /\ IsTable(groups)
        /\ \A k \in DOMAIN groups :
             /\ IsTable(groups[k]) /\ 1 \in DOMAIN groups[k]
             /\ \A i \in DOMAIN groups[k] : \E j \in DOMAIN libres : groups[k][i] = libres[j]
        /\ \A i \in DOMAIN libres : libres[i]["cuil"] # NoKey =>
             \E k \in DOMAIN groups : groups[k][1]["cuil"] = libres[i]["cuil"]
    BY <1>1, <1>2, GroupsAreWhole
  <2>3. QED
    BY <2>1, <2>2
<1>4. \A k \in DOMAIN groups : \A i \in DOMAIN groups[k] :
        FilaDelBanco(groups[k][i]) /\ DeLaBase(libres, groups[k][i])
  BY <1>1, <1>3
<1>5. IsTable(df) /\ DOMAIN df = DOMAIN groups
  <2>1. df = [k \in DOMAIN groups |-> df[k]]
    BY <1>2
  <2>2. QED
    BY <1>3, <2>1, MappedTable
<1>6. ASSUME NEW k \in DOMAIN groups
      PROVE  EsConsolidada(rows, df[k]) /\ df[k].cuil = groups[k][1].cuil
  <2> DEFINE grupo == groups[k]  r == df[k]  at == DelCuil(libres, grupo[1].cuil)
  <2>1. IsTable(grupo) /\ 1 \in DOMAIN grupo /\ \A i \in DOMAIN grupo : FilaDelBanco(grupo[i])
    BY <1>3, <1>4
  <2>2. r = B!ConsolidarCompleta(grupo)
    BY <1>2
  <2>3. grupo = RowsAt(libres, at) /\ at \in SUBSET DOMAIN libres
    BY <1>3 DEF DelCuil
  <2>4. DeLaBase(libres, grupo[1])
    BY <1>3, <1>4
  <2> HIDE DEF grupo, r, at
  <2>5. /\ r.bt = grupo[1].bt /\ r.cuil = grupo[1].cuil /\ r.monto \in Int /\ IsFiniteSet(r.ops)
        /\ {"bt", "cuil", "monto", "monto_quita", "resumen"} \subseteq DOMAIN r
        /\ EsQuita(r.monto_quita, r.monto) /\ Len(r.resumen) = Len(grupo)
    BY <2>1, <2>2, GroupToRow
  <2>6. Len(grupo) = Cardinality(at)
    BY <1>1, <2>3, RowsAtOfTable
  <2>7. DeLaBase(libres, r)
    BY <2>4, <2>5 DEF DeLaBase
  <2>8. Len(r.resumen) = Cardinality(DelCuil(libres, r.cuil))
    BY <2>5, <2>6 DEF at
  <2>9. EsConsolidada(rows, r) /\ r.cuil = grupo[1].cuil
    BY <2>5, <2>7, <2>8 DEF EsConsolidada, libres
  <2>10. QED
    BY <2>9 DEF r, grupo
<1>7. \A i \in DOMAIN libres : libres[i].cuil # NoKey => \E k \in DOMAIN df : df[k].cuil = libres[i].cuil
  BY <1>3, <1>5, <1>6
<1>8. QED
  BY <1>5, <1>6, <1>7 DEF libres, df

\* procesar_base_completa compares the phones of that base and writes what is left,
\* with the phones normalised and nothing else changed.
NormalesDe(new, rows) ==
  /\ DOMAIN new = DOMAIN rows
  /\ \A k \in DOMAIN rows : new[k] = B!NormalizarValores(rows[k])
LEMMA RomanFiles ==
  ASSUME NEW rows, IsTable(rows), \A i \in DOMAIN rows : FilaDelBanco(rows[i])
  PROVE  LET b == B!Deduplicar(Consolidadas(rows))  c == B!ProcesarCompleta(rows) IN
         /\ NormalesDe(c.unicos, b.unicos) /\ NormalesDe(c.descartados, b.descartados)
         /\ SonFilas(Consolidadas(rows), b.unicos)
         /\ \A n \in DOMAIN Consolidadas(rows) :
              /\ TieneFila(Consolidadas(rows), b, Consolidadas(rows)[n].bt)
              /\ Consolidadas(rows)[n].bt = B!NoKey => EnLasDos(b, Consolidadas(rows)[n])
<1> DEFINE df == Consolidadas(rows)  b == B!Deduplicar(df)  c == B!ProcesarCompleta(rows)
           unicos == [k \in DOMAIN b.unicos |-> B!NormalizarValores(b.unicos[k])]
           descartados == [k \in DOMAIN b.descartados |-> B!NormalizarValores(b.descartados[k])]
<1>1. c.unicos = unicos /\ c.descartados = descartados
  <2> DEFINE libres == Libres(rows)  groups == Grupos(rows)
  <2>1. B!FiltrarAcuerdos(B!MapRows(B!LimpiarTelefonos, B!Deudas(rows))) = libres
    BY DEF Libres
  <2>2. groups = GroupsByAppearance(libres, "cuil")
    BY DEF Grupos
  <2> HIDE DEF libres
  <2>3. B!GroupsByAppearance(libres, "cuil") = groups
    BY <2>2 DEF B!GroupsByAppearance, GroupsByAppearance, B!RowsWith, RowsWith, B!KeepFirst, KeepFirst,
                B!MapRows, MapRows, B!RowsAt, RowsAt, B!Cardinality, Cardinality, B!NoKey, NoKey
  <2>4. B!MapRows(B!ConsolidarCompleta, groups) = df
    BY DEF B!MapRows, Consolidadas
  <2> HIDE DEF groups, df
  <2>5. B!MapRows(B!NormalizarValores, b.unicos) = unicos
        /\ B!MapRows(B!NormalizarValores, b.descartados) = descartados
    BY DEF B!MapRows
  <2> HIDE DEF unicos, descartados
  <2>6. QED
    BY <2>1, <2>3, <2>4, <2>5 DEF B!ProcesarCompleta
<1>2. IsTable(df) /\ \A n \in DOMAIN df : df[n].monto \in Int /\ IsFiniteSet(df[n].ops)
  BY RomanBase DEF EsConsolidada
<1> HIDE DEF df
<1>3. /\ SonFilas(df, b.unicos)
      /\ \A n \in DOMAIN df : TieneFila(df, b, df[n].bt) /\ (df[n].bt = B!NoKey => EnLasDos(b, df[n]))
  BY <1>2, NobodyIsDropped
<1> HIDE DEF b, c
<1>4. NormalesDe(c.unicos, b.unicos) /\ NormalesDe(c.descartados, b.descartados)
  BY <1>1 DEF NormalesDe
<1>5. QED
  BY <1>3, <1>4 DEF df, b, c

LEMMA NormalRow ==
  ASSUME NEW r, {"bt", "cuil", "monto", "monto_quita", "resumen"} \subseteq DOMAIN r
  PROVE  LET n == B!NormalizarValores(r) IN
         /\ n.bt = r.bt /\ n.cuil = r.cuil /\ n.monto = r.monto
         /\ n.monto_quita = r.monto_quita /\ n.resumen = r.resumen
BY DEF B!NormalizarValores

\* procesar_base_completa: the CUIL of a debt that no agreement takes away is in the
\* ROMAN base or in its discarded, or a Cliente_BT of its debts is.  The first table is
\* of a row per CUIL and the second leaves aside by Cliente_BT.
LosBts(c) == (De(c.unicos, "bt") \cup De(c.descartados, "bt")) \ {B!NoKey}
CuilesDe(rows, bts) == {rows[i].cuil : i \in {k \in DOMAIN rows : rows[k].bt \in bts}}
LEMMA ClientsOfRoman ==
  ASSUME NEW rows, IsTable(rows), \A i \in DOMAIN rows : FilaDelBanco(rows[i])
  PROVE  LET c == B!ProcesarCompleta(rows) IN
         De(Tomadas(rows), "cuil") \ {B!NoKey}
           \subseteq De(c.unicos, "cuil") \cup De(c.descartados, "cuil") \cup CuilesDe(Tomadas(rows), LosBts(c))
<1> DEFINE tomadas == Tomadas(rows)  libres == Libres(rows)  df == Consolidadas(rows)
           b == B!Deduplicar(df)  new == B!ProcesarCompleta(rows)
<1>1. /\ DOMAIN libres = DOMAIN tomadas
      /\ \A k \in DOMAIN libres : libres[k].bt = tomadas[k].bt /\ libres[k].cuil = tomadas[k].cuil
  BY FreeDebts
<1>2. /\ \A n \in DOMAIN df : /\ DeLaBase(libres, df[n])
                              /\ {"bt", "cuil", "monto", "monto_quita", "resumen"} \subseteq DOMAIN df[n]
      /\ \A i \in DOMAIN libres : libres[i].cuil # NoKey => \E n \in DOMAIN df : df[n].cuil = libres[i].cuil
  BY RomanBase DEF EsConsolidada
<1>3. /\ NormalesDe(new.unicos, b.unicos) /\ NormalesDe(new.descartados, b.descartados)
      /\ \A n \in DOMAIN df : TieneFila(df, b, df[n].bt) /\ (df[n].bt = B!NoKey => EnLasDos(b, df[n]))
  BY RomanFiles
<1> HIDE DEF tomadas, libres, df, b, new
\* A row of that table that is kept has its CUIL and its Cliente_BT in the files.
<1>4. ASSUME NEW q \in DOMAIN df, EnLasDos(b, df[q])
      PROVE  /\ df[q].cuil \in De(new.unicos, "cuil") \cup De(new.descartados, "cuil")
             /\ df[q].bt \in De(new.unicos, "bt") \cup De(new.descartados, "bt")
  <2> DEFINE r == df[q]  s == B!NormalizarValores(r)
  <2>1. s.cuil = r.cuil /\ s.bt = r.bt
    BY <1>2, NormalRow
  <2>2. EnLasDos(b, r)
    BY <1>4
  <2> HIDE DEF s, r
  <2>3. (\E m \in DOMAIN new.unicos : new.unicos[m] = s) \/ (\E m \in DOMAIN new.descartados : new.descartados[m] = s)
    BY <1>3, <2>2 DEF EnLasDos, NormalesDe, s
  <2>4. /\ s.cuil \in De(new.unicos, "cuil") \cup De(new.descartados, "cuil")
        /\ s.bt \in De(new.unicos, "bt") \cup De(new.descartados, "bt")
    BY <2>3 DEF De
  <2>5. QED
    BY <2>1, <2>4 DEF r
<1>5. ASSUME NEW k \in DOMAIN tomadas, tomadas[k].cuil # B!NoKey
      PROVE  tomadas[k].cuil \in De(new.unicos, "cuil") \cup De(new.descartados, "cuil")
                                 \cup CuilesDe(tomadas, LosBts(new))
  <2> DEFINE c == tomadas[k].cuil
  <2>1. k \in DOMAIN libres /\ libres[k].cuil = c /\ c # NoKey
    BY <1>1, <1>5 DEF B!NoKey, NoKey
  <2> HIDE DEF c
  <2>2. PICK n \in DOMAIN df : df[n].cuil = c
    BY <1>2, <2>1
  <2>3. CASE df[n].bt = B!NoKey
    BY <1>3, <1>4, <2>2, <2>3 DEF c
  <2>4. CASE df[n].bt # B!NoKey
    <3>1. PICK q \in DOMAIN df : df[q].bt = df[n].bt /\ EnLasDos(b, df[q])
      BY <1>3 DEF TieneFila
    <3>2. df[n].bt \in LosBts(new)
      BY <1>4, <2>4, <3>1 DEF LosBts
    <3>3. PICK i \in DOMAIN libres : df[n].bt = libres[i].bt /\ df[n].cuil = libres[i].cuil
      BY <1>2 DEF DeLaBase
    <3>4. i \in DOMAIN tomadas /\ tomadas[i].bt \in LosBts(new) /\ tomadas[i].cuil = c
      BY <1>1, <2>2, <3>2, <3>3
    <3>5. c \in CuilesDe(tomadas, LosBts(new))
      BY <3>4 DEF CuilesDe
    <3>6. QED
      BY <3>5 DEF c
  <2>5. QED
    BY <2>3, <2>4
<1>6. De(tomadas, "cuil") \ {B!NoKey}
        \subseteq De(new.unicos, "cuil") \cup De(new.descartados, "cuil") \cup CuilesDe(tomadas, LosBts(new))
  BY <1>5 DEF De
<1>7. QED
  BY <1>6 DEF tomadas, new

\* validar_contrato_roman finds neither a discount that is none nor a summary without
\* one of the rows.
LEMMA ContractOfRoman ==
  ASSUME NEW rows, IsTable(rows), \A i \in DOMAIN rows : FilaDelBanco(rows[i])
  PROVE  B!ValidarContrato(B!ProcesarCompleta(rows).unicos, B!FiltrarAcuerdos(B!Deudas(rows)))
           \cap {"monto_quita", "resumen"} = {}
<1> DEFINE tomadas == Tomadas(rows)  libres == Libres(rows)  df == Consolidadas(rows)
           b == B!Deduplicar(df)  nueva == B!ProcesarCompleta(rows).unicos
<1>1. DOMAIN libres = DOMAIN tomadas /\ \A k \in DOMAIN libres : libres[k].cuil = tomadas[k].cuil
  BY FreeDebts
<1>2. \A n \in DOMAIN df : EsConsolidada(rows, df[n])
  BY RomanBase
<1>3. NormalesDe(nueva, b.unicos) /\ SonFilas(df, b.unicos)
  BY RomanFiles
<1> HIDE DEF tomadas, df, b, nueva
<1>4. ASSUME NEW i \in DOMAIN nueva
      PROVE  /\ nueva[i].monto \in Int /\ EsQuita(nueva[i].monto_quita, nueva[i].monto)
             /\ Len(nueva[i].resumen) = Cardinality(DelCuil(tomadas, nueva[i].cuil))
  <2>1. PICK q \in DOMAIN df : b.unicos[i] = df[q]
    BY <1>3 DEF NormalesDe, SonFilas
  <2>2. nueva[i] = B!NormalizarValores(df[q])
    BY <1>3, <2>1 DEF NormalesDe
  <2> DEFINE r == df[q]  n == nueva[i]
  <2>3. EsConsolidada(rows, r)
    BY <1>2
  <2>4. n = B!NormalizarValores(r)
    BY <2>2
  <2> HIDE DEF r, n
  <2>5. n.cuil = r.cuil /\ n.monto = r.monto /\ n.monto_quita = r.monto_quita /\ n.resumen = r.resumen
    BY <2>3, <2>4, NormalRow DEF EsConsolidada
  <2>6. DelCuil(libres, r.cuil) = DelCuil(tomadas, r.cuil)
    <3> HIDE DEF libres
    <3>1. QED
      BY <1>1 DEF DelCuil
  <2>7. n.monto \in Int /\ EsQuita(n.monto_quita, n.monto) /\ Len(n.resumen) = Cardinality(DelCuil(tomadas, n.cuil))
    BY <2>3, <2>5, <2>6 DEF EsConsolidada
  <2>8. QED
    BY <2>7 DEF n
<1>5. \A i \in DOMAIN nueva : nueva[i].monto_quita # B!NoAmount =>
        ~(nueva[i].monto_quita <= 0 \/ nueva[i].monto_quita >= 100 * nueva[i].monto)
  <2>1. ASSUME NEW monto \in Int, NEW left, EsQuita(left, monto), left # B!NoAmount
        PROVE  ~(left <= 0 \/ left >= 100 * monto)
    BY <2>1 DEF EsQuita
  <2>2. QED
    BY <1>4, <2>1
<1>6. \A i \in DOMAIN nueva :
        Len(nueva[i].resumen) = B!Cardinality({j \in DOMAIN tomadas : tomadas[j].cuil = nueva[i].cuil})
  <2>1. \A set : B!Cardinality(set) = Cardinality(set)
    BY DEF B!Cardinality, Cardinality
  <2>2. QED
    BY <1>4, <2>1 DEF DelCuil
<1>7. B!ValidarContrato(nueva, tomadas) \cap {"monto_quita", "resumen"} = {}
  BY <1>5, <1>6 DEF B!ValidarContrato
<1>8. QED
  BY <1>7 DEF nueva, tomadas, Tomadas

-----------------------------------------------------------------------------
(* what the files of a base are, at each step *)

\* The files of a step are in the folder with those it does not write.
LEMMA FilesOfAStep ==
  ASSUME NEW files, carpeta' = Con(files)
  PROVE  /\ \A f \in DOMAIN files : f \in DOMAIN carpeta' /\ carpeta'[f] = files[f]
         /\ \A f \in DOMAIN carpeta \ DOMAIN files : f \in DOMAIN carpeta' /\ carpeta'[f] = carpeta[f]
         /\ \A f \in DOMAIN carpeta' \ DOMAIN files : f \in DOMAIN carpeta
BY DEF Con

\* The two files of a base are of the input, if they are there.
DosArchivos(files, name, aside, b) ==
  name \in DOMAIN files =>
    aside \in DOMAIN files /\ files[name].rows = b.unicos /\ files[aside].rows = b.descartados

LEMMA FilesOfABase ==
  ASSUME NEW name, NEW aside, name # aside, NEW b, carpeta' = Con(Base(name, aside, b)),
         DosArchivos(carpeta, name, aside, b)
  PROVE  /\ DosArchivos(carpeta', name, aside, b)
         /\ \A f : f \notin {name, aside} =>
              /\ f \in DOMAIN carpeta' <=> f \in DOMAIN carpeta
              /\ f \in DOMAIN carpeta => carpeta'[f] = carpeta[f]
<1> DEFINE files == Base(name, aside, b)
<1>1. /\ DOMAIN files = IF b.written THEN {name, aside} ELSE {}
      /\ b.written => files[name].rows = b.unicos /\ files[aside].rows = b.descartados
  BY DEF Base, Hoy
<1>2. /\ \A f \in DOMAIN files : f \in DOMAIN carpeta' /\ carpeta'[f] = files[f]
      /\ \A f \in DOMAIN carpeta \ DOMAIN files : f \in DOMAIN carpeta' /\ carpeta'[f] = carpeta[f]
      /\ \A f \in DOMAIN carpeta' \ DOMAIN files : f \in DOMAIN carpeta
  <2> HIDE DEF files
  <2>1. carpeta' = Con(files)
    BY DEF files
  <2>2. QED
    BY <2>1, FilesOfAStep
<1> HIDE DEF files
<1>3. CASE b.written
  BY <1>1, <1>2, <1>3 DEF DosArchivos
<1>4. CASE ~b.written
  BY <1>1, <1>2, <1>4 DEF DosArchivos
<1>5. QED
  BY <1>3, <1>4

Va(p) == codigo = Running /\ paso = p
Entregada == codigo = "ok"
CuentasBancor ==
  job = "bancor" =>
    /\ DosArchivos(carpeta, "base", "base_descartados", B!ProcesarBase(entrada))
    /\ DosArchivos(carpeta, "roman", "roman_descartados", B!ProcesarCompleta(entrada))
    /\ Va("e1kia") \/ Entregada => "base" \in DOMAIN carpeta
    /\ Entregada => "roman" \in DOMAIN carpeta
CuentasEpec ==
  job = "epec" =>
    /\ Va("guardar") => /\ {"consolidado", "debug"} \subseteq DOMAIN carpeta
                        /\ Rows("consolidado") = E!Combinar(entrada).base
                        /\ Rows("debug") = E!Combinar(entrada).debug
    /\ Va("telefonos") \/ Entregada =>
         /\ {"base", "debug"} \subseteq DOMAIN carpeta
         /\ Rows("base") = E!GuardarConsolidado(E!Combinar(entrada).base)
         /\ Rows("debug") = E!Combinar(entrada).debug
CuentasClaro ==
  job = "claro" =>
    /\ Va("deduplicar") => Rows("base") = S!ProcesarBase(entrada)
    /\ Va("telefonos") => Rows("base") = S!Deduplicar(S!ProcesarBase(entrada)).unicos
    /\ Entregada => Rows("telefonos") = S!ExtraerTelefonos(S!Deduplicar(S!ProcesarBase(entrada)).unicos)
CuentasMt ==
  job = "mt" =>
    /\ Va("e1kia") \/ Entregada =>
         "roman" \in DOMAIN carpeta /\ Rows("roman") = N!ProcesarBase(entrada)
    /\ Entregada => Rows("e1kia") = N!ExtraerTelefonos(N!ProcesarBase(entrada))
CuentasFechas ==
  job = "petersen fechas" /\ (Va("ftp") \/ Entregada) =>
    /\ "originales" \in DOMAIN carpeta
    /\ \E d : Rows("originales") = P!ExportAll(P!GenerateTipif(entrada.roman, entrada.alta, d, TRUE))
CuentasDeUnPaso ==
  /\ job = "fravega" /\ Entregada => Rows("base") = F!CleanBase(entrada)
  /\ job = "cx" /\ Entregada => /\ Rows("base") = S!Transform(entrada.rows)
                                /\ Rows("e164") = S!LoadE164(S!Transform(entrada.rows))
  /\ job = "social" /\ Entregada => Rows("base") = S!GenerateBase(entrada)

\* Bancor writes the base and the ROMAN base of the input in two steps, and delivers
\* when it has found both.
LEMMA CuentasBancorNext ==
  ASSUME CuentasBancor, Next, job = "bancor"
  PROVE  CuentasBancor'
<1> DEFINE b == B!ProcesarBase(entrada)  c == B!ProcesarCompleta(entrada)
<1>1. UNCHANGED <<job, entrada>>
  BY StepsOfAJob
<1> HIDE DEF b, c
<1>2. /\ DosArchivos(carpeta, "base", "base_descartados", b)
      /\ DosArchivos(carpeta, "roman", "roman_descartados", c)
      /\ Va("e1kia") => "base" \in DOMAIN carpeta
  BY DEF CuentasBancor, b, c
<1>3. /\ DosArchivos(carpeta', "base", "base_descartados", b)
      /\ DosArchivos(carpeta', "roman", "roman_descartados", c)
      /\ Va("e1kia")' \/ Entregada' => "base" \in DOMAIN carpeta'
      /\ Entregada' => "roman" \in DOMAIN carpeta'
  <2>1. CASE Medianoche
    BY <1>2, <2>1 DEF Medianoche, Va, Entregada, Running
  <2>2. CASE BancorBase
    <3>1. carpeta' = Con(Base("base", "base_descartados", b)) /\ paso' = "completa" /\ codigo' = Running
      BY <2>2 DEF BancorBase, Sigue, En, b
    <3>2. /\ DosArchivos(carpeta', "base", "base_descartados", b)
          /\ \A f : f \notin {"base", "base_descartados"} =>
               /\ f \in DOMAIN carpeta' <=> f \in DOMAIN carpeta
               /\ f \in DOMAIN carpeta => carpeta'[f] = carpeta[f]
      BY <1>2, <3>1, FilesOfABase
    <3>3. DosArchivos(carpeta', "roman", "roman_descartados", c)
      BY <1>2, <3>2 DEF DosArchivos
    <3>4. QED
      BY <3>1, <3>2, <3>3 DEF Va, Entregada, Running
  <2>3. CASE BancorCompleta
    <3>1. carpeta' = Con(Base("roman", "roman_descartados", c)) /\ paso' = "telefonos" /\ codigo' = Running
      BY <2>3 DEF BancorCompleta, Sigue, En, c
    <3>2. /\ DosArchivos(carpeta', "roman", "roman_descartados", c)
          /\ \A f : f \notin {"roman", "roman_descartados"} =>
               /\ f \in DOMAIN carpeta' <=> f \in DOMAIN carpeta
               /\ f \in DOMAIN carpeta => carpeta'[f] = carpeta[f]
      BY <1>2, <3>1, FilesOfABase
    <3>3. DosArchivos(carpeta', "base", "base_descartados", b)
      BY <1>2, <3>2 DEF DosArchivos
    <3>4. QED
      BY <3>1, <3>2, <3>3 DEF Va, Entregada, Running
  <2>4. CASE Falla
    BY <1>2, <2>4 DEF Falla, Va, Entregada, Running
  <2>5. CASE BancorTelefonos /\ ~Falla
    <3> DEFINE files == [telefonos |-> Hoy(B!ExtraerTelefonos(Rows("base")))]
    <3>1. carpeta' = Con(files) /\ paso' = "e1kia" /\ codigo' = Running /\ "base" \in DOMAIN carpeta
      BY <2>5 DEF BancorTelefonos, DeHoy, Sigue, En
    <3>2. DOMAIN files = {"telefonos"}
      OBVIOUS
    <3> HIDE DEF files
    <3>3. /\ \A f \in DOMAIN carpeta \ {"telefonos"} : f \in DOMAIN carpeta' /\ carpeta'[f] = carpeta[f]
          /\ \A f \in DOMAIN carpeta' \ {"telefonos"} : f \in DOMAIN carpeta
      BY <3>1, <3>2, FilesOfAStep
    <3>4. QED
      BY <1>2, <3>1, <3>3 DEF DosArchivos, Va, Entregada, Running
  <2>6. CASE BancorE1kia /\ ~Falla
    <3> DEFINE files == [e1kia |-> Hoy(B!ExtraerTelefonos(Rows("roman")))]
    <3>1. carpeta' = Con(files) /\ codigo' = "ok" /\ {"base", "roman"} \subseteq DOMAIN carpeta
      BY <1>2, <2>6 DEF BancorE1kia, DeHoy, Entrega, En, Va
    <3>2. DOMAIN files = {"e1kia"}
      OBVIOUS
    <3> HIDE DEF files
    <3>3. /\ \A f \in DOMAIN carpeta \ {"e1kia"} : f \in DOMAIN carpeta' /\ carpeta'[f] = carpeta[f]
          /\ \A f \in DOMAIN carpeta' \ {"e1kia"} : f \in DOMAIN carpeta
      BY <3>1, <3>2, FilesOfAStep
    <3>4. QED
      BY <1>2, <3>1, <3>3 DEF DosArchivos, Va, Entregada, Running
  <2>7. QED
    BY <2>1, <2>2, <2>3, <2>4, <2>5, <2>6, StepsOfAJob
<1>4. QED
  BY <1>1, <1>3 DEF CuentasBancor, b, c

\* A file a step does not write is the one it found.
LEMMA CuentasEpecNext ==
  ASSUME CuentasEpec, Next, job = "epec"
  PROVE  CuentasEpec'
<1> DEFINE c == E!Combinar(entrada)
<1>1. UNCHANGED <<job, entrada>>
  BY StepsOfAJob
<1> HIDE DEF c
<1>2. /\ Va("guardar") => /\ {"consolidado", "debug"} \subseteq DOMAIN carpeta
                          /\ carpeta["consolidado"].rows = c.base /\ carpeta["debug"].rows = c.debug
      /\ Va("telefonos") => /\ {"base", "debug"} \subseteq DOMAIN carpeta
                            /\ carpeta["base"].rows = E!GuardarConsolidado(c.base)
                            /\ carpeta["debug"].rows = c.debug
  BY DEF CuentasEpec, Rows, c
<1>3. /\ Va("guardar")' => /\ {"consolidado", "debug"} \subseteq DOMAIN carpeta'
                           /\ carpeta'["consolidado"].rows = c.base /\ carpeta'["debug"].rows = c.debug
      /\ Va("telefonos")' \/ Entregada' =>
           /\ {"base", "debug"} \subseteq DOMAIN carpeta'
           /\ carpeta'["base"].rows = E!GuardarConsolidado(c.base)
           /\ carpeta'["debug"].rows = c.debug
  <2>1. CASE Medianoche
    BY <1>2, <2>1 DEF Medianoche, Va, Entregada, Running
  <2>2. CASE Falla
    BY <2>2 DEF Falla, Va, Entregada, Running
  <2>3. CASE EpecCombina /\ ~Falla
    <3> DEFINE files == [consolidado |-> Hoy(c.base), debug |-> Hoy(c.debug)]
    <3>1. carpeta' = Con(files) /\ paso' = "guardar" /\ codigo' = Running
      BY <2>3 DEF EpecCombina, Sigue, En, c
    <3>2. /\ DOMAIN files = {"consolidado", "debug"}
          /\ files["consolidado"].rows = c.base /\ files["debug"].rows = c.debug
      BY DEF Hoy
    <3> HIDE DEF files
    <3>3. /\ {"consolidado", "debug"} \subseteq DOMAIN carpeta'
          /\ carpeta'["consolidado"] = files["consolidado"] /\ carpeta'["debug"] = files["debug"]
      BY <3>1, <3>2, FilesOfAStep
    <3>4. QED
      BY <3>1, <3>2, <3>3 DEF Va, Entregada, Running
  <2>4. CASE EpecGuarda
    <3> DEFINE files == [base |-> Hoy(E!GuardarConsolidado(Rows("consolidado")))]
    <3>1. carpeta' = Con(files) /\ paso' = "telefonos" /\ codigo' = Running /\ Va("guardar")
      BY <2>4 DEF EpecGuarda, Sigue, En, Va
    <3>2. DOMAIN files = {"base"} /\ files["base"].rows = E!GuardarConsolidado(c.base)
      BY <1>2, <3>1 DEF Hoy, Rows
    <3> HIDE DEF files
    <3>3. /\ {"base", "debug"} \subseteq DOMAIN carpeta'
          /\ carpeta'["base"] = files["base"] /\ carpeta'["debug"] = carpeta["debug"]
      BY <1>2, <3>1, <3>2, FilesOfAStep
    <3>4. QED
      BY <1>2, <3>1, <3>2, <3>3 DEF Va, Running
  <2>5. CASE EpecTelefonos
    <3> DEFINE files == [telefonos |-> Hoy(E!GenerarTelefonos(Rows("consolidado")))]
    <3>1. carpeta' = Con(files) /\ codigo' = "ok" /\ Va("telefonos")
      BY <2>5 DEF EpecTelefonos, Entrega, En, Va
    <3>2. DOMAIN files = {"telefonos"}
      OBVIOUS
    <3> HIDE DEF files
    <3>3. /\ {"base", "debug"} \subseteq DOMAIN carpeta'
          /\ carpeta'["base"] = carpeta["base"] /\ carpeta'["debug"] = carpeta["debug"]
      BY <1>2, <3>1, <3>2, FilesOfAStep
    <3>4. QED
      BY <1>2, <3>1, <3>3 DEF Va, Running
  <2>6. QED
    BY <2>1, <2>2, <2>3, <2>4, <2>5, StepsOfAJob
<1>4. QED
  BY <1>1, <1>3 DEF CuentasEpec, Rows, c

LEMMA CuentasClaroNext ==
  ASSUME CuentasClaro, Next, job = "claro"
  PROVE  CuentasClaro'
<1> DEFINE b == S!ProcesarBase(entrada)  u == S!Deduplicar(b).unicos
<1>1. UNCHANGED <<job, entrada>>
  BY StepsOfAJob
<1>2. /\ Va("deduplicar") => carpeta["base"].rows = b
      /\ Va("telefonos") => carpeta["base"].rows = u
  BY DEF CuentasClaro, Rows
<1>3. /\ Va("deduplicar")' => carpeta'["base"].rows = b
      /\ Va("telefonos")' => carpeta'["base"].rows = u
      /\ Entregada' => carpeta'["telefonos"].rows = S!ExtraerTelefonos(u)
  <2>1. CASE Medianoche
    BY <1>2, <2>1 DEF Medianoche, Va, Entregada, Running
  <2>2. CASE ClaroBase
    <3> HIDE DEF b, u
    <3> DEFINE files == [base |-> Hoy(b)]
    <3>1. carpeta' = Con(files) /\ paso' = "deduplicar" /\ codigo' = Running
      BY <2>2 DEF ClaroBase, Sigue, En, b
    <3>2. DOMAIN files = {"base"} /\ files["base"].rows = b
      BY DEF Hoy
    <3> HIDE DEF files
    <3>3. carpeta'["base"] = files["base"]
      BY <3>1, <3>2, FilesOfAStep
    <3>4. QED
      BY <3>1, <3>2, <3>3 DEF Va, Entregada, Running
  <2>3. CASE ClaroDeduplica
    <3> DEFINE d == S!Deduplicar(Rows("base"))
               files == [base |-> Hoy(d.unicos), backup |-> Hoy(d.backup)]
    <3>1. carpeta' = Con(files) /\ paso' = "telefonos" /\ codigo' = Running /\ Va("deduplicar")
      BY <2>3 DEF ClaroDeduplica, Sigue, En, Va
    <3>2. d.unicos = u
      BY <1>2, <3>1 DEF Rows
    <3> HIDE DEF u, d
    <3>3. DOMAIN files = {"base", "backup"} /\ files["base"].rows = u
      BY <3>2 DEF Hoy
    <3> HIDE DEF files
    <3>4. carpeta'["base"] = files["base"]
      BY <3>1, <3>3, FilesOfAStep
    <3>5. QED
      BY <3>1, <3>3, <3>4 DEF Va, Entregada, Running
  <2>4. CASE ClaroTelefonos
    <3> HIDE DEF b, u
    <3> DEFINE files == [telefonos |-> [dia |-> carpeta["base"].dia, rows |-> S!ExtraerTelefonos(Rows("base"))]]
    <3>1. carpeta' = Con(files) /\ codigo' = "ok" /\ Va("telefonos")
      BY <2>4 DEF ClaroTelefonos, Entrega, En, Va
    <3>2. DOMAIN files = {"telefonos"} /\ files["telefonos"].rows = S!ExtraerTelefonos(u)
      BY <1>2, <3>1 DEF Rows
    <3> HIDE DEF files
    <3>3. carpeta'["telefonos"] = files["telefonos"]
      BY <3>1, <3>2, FilesOfAStep
    <3>4. QED
      BY <3>1, <3>2, <3>3 DEF Va, Running
  <2>5. QED
    BY <2>1, <2>2, <2>3, <2>4, StepsOfAJob
<1>4. QED
  BY <1>1, <1>3 DEF CuentasClaro, Rows

LEMMA CuentasMtNext ==
  ASSUME CuentasMt, Next, job = "mt"
  PROVE  CuentasMt'
<1> DEFINE b == N!ProcesarBase(entrada)
<1>1. UNCHANGED <<job, entrada>>
  BY StepsOfAJob
<1> HIDE DEF b
<1>2. Va("e1kia") => "roman" \in DOMAIN carpeta /\ carpeta["roman"].rows = b
  BY DEF CuentasMt, Rows, b
<1>3. /\ Va("e1kia")' \/ Entregada' => "roman" \in DOMAIN carpeta' /\ carpeta'["roman"].rows = b
      /\ Entregada' => carpeta'["e1kia"].rows = N!ExtraerTelefonos(b)
  <2>1. CASE Medianoche
    BY <1>2, <2>1 DEF Medianoche, Va, Entregada, Running
  <2>2. CASE Falla
    BY <2>2 DEF Falla, Va, Entregada, Running
  <2>3. CASE MtBase /\ ~Falla
    <3> DEFINE files == [roman |-> Hoy(b)]
    <3>1. carpeta' = Con(files) /\ paso' = "e1kia" /\ codigo' = Running
      BY <2>3 DEF MtBase, Sigue, En, b
    <3>2. DOMAIN files = {"roman"} /\ files["roman"].rows = b
      BY DEF Hoy
    <3> HIDE DEF files
    <3>3. "roman" \in DOMAIN carpeta' /\ carpeta'["roman"] = files["roman"]
      BY <3>1, <3>2, FilesOfAStep
    <3>4. QED
      BY <3>1, <3>2, <3>3 DEF Va, Entregada, Running
  <2>4. CASE MtE1kia
    <3> DEFINE files == [e1kia |-> Hoy(N!ExtraerTelefonos(Rows("roman")))]
    <3>1. carpeta' = Con(files) /\ codigo' = "ok" /\ Va("e1kia")
      BY <2>4 DEF MtE1kia, Entrega, En, Va
    <3>2. DOMAIN files = {"e1kia"} /\ files["e1kia"].rows = N!ExtraerTelefonos(b)
      BY <1>2, <3>1 DEF Hoy, Rows
    <3> HIDE DEF files
    <3>3. /\ carpeta'["e1kia"] = files["e1kia"]
          /\ "roman" \in DOMAIN carpeta' /\ carpeta'["roman"] = carpeta["roman"]
      BY <1>2, <3>1, <3>2, FilesOfAStep
    <3>4. QED
      BY <1>2, <3>1, <3>2, <3>3 DEF Va, Running
  <2>5. QED
    BY <2>1, <2>2, <2>3, <2>4, StepsOfAJob
<1>4. QED
  BY <1>1, <1>3 DEF CuentasMt, Rows, b

LEMMA CuentasFechasNext ==
  ASSUME CuentasFechas, Next, job = "petersen fechas"
  PROVE  CuentasFechas'
<1> DEFINE all(d) == P!ExportAll(P!GenerateTipif(entrada.roman, entrada.alta, d, TRUE))
           Hechas(files) == "originales" \in DOMAIN files /\ \E d : files["originales"].rows = all(d)
<1>1. UNCHANGED <<job, entrada>>
  BY StepsOfAJob
<1>2. Va("ftp") => Hechas(carpeta)
  BY DEF CuentasFechas, Rows
<1>3. Va("ftp")' \/ Entregada' => Hechas(carpeta')
  <2> HIDE DEF all
  <2>1. CASE Medianoche
    BY <1>2, <2>1 DEF Medianoche, Va, Entregada, Running
  <2>2. CASE PetersenFechas
    <3> DEFINE g == P!GenerateTipif(entrada.roman, entrada.alta, dia, TRUE)
               files == [validas |-> Hoy(P!Export(g, dia)), originales |-> Hoy(P!ExportAll(g))]
    <3>1. carpeta' = Con(files)
      BY <2>2 DEF PetersenFechas, Sigue
    <3>2. P!ExportAll(g) = all(dia)
      BY DEF all
    <3> HIDE DEF g
    <3>3. "originales" \in DOMAIN files /\ files["originales"].rows = all(dia)
      BY <3>2 DEF Hoy
    <3> HIDE DEF files
    <3>4. "originales" \in DOMAIN carpeta' /\ carpeta'["originales"] = files["originales"]
      BY <3>1, <3>3, FilesOfAStep
    <3>5. QED
      BY <3>3, <3>4
  <2>3. CASE PetersenFtp
    <3> DEFINE files == [ftp |-> Hoy(P!FiltrarFtp(Rows("originales")))]
    <3>1. carpeta' = Con(files) /\ Va("ftp")
      BY <2>3 DEF PetersenFtp, Entrega, En, Va
    <3>2. DOMAIN files = {"ftp"}
      OBVIOUS
    <3> HIDE DEF files
    <3>3. "originales" \in DOMAIN carpeta' /\ carpeta'["originales"] = carpeta["originales"]
      BY <1>2, <3>1, <3>2, FilesOfAStep
    <3>4. QED
      BY <1>2, <3>1, <3>3
  <2>4. QED
    BY <2>1, <2>2, <2>3, StepsOfAJob
<1>4. QED
  BY <1>1, <1>3 DEF CuentasFechas, Rows

LEMMA CuentasDeUnPasoNext ==
  ASSUME CuentasDeUnPaso, Next
  PROVE  CuentasDeUnPaso'
<1>1. UNCHANGED <<job, entrada>>
  BY StepsOfAJob
<1>2. CASE Medianoche
  BY <1>2 DEF Medianoche, CuentasDeUnPaso, Entregada, Running
<1>3. CASE FravegaBase /\ job = "fravega"
  <2> DEFINE base == F!CleanBase(entrada)
             files == [base |-> Hoy(base), cel |-> Hoy(F!CelList(base))]
  <2>1. carpeta' = Con(files)
    BY <1>3 DEF FravegaBase, Hace, Entrega
  <2> HIDE DEF base
  <2>2. "base" \in DOMAIN files /\ files["base"].rows = base
    BY DEF Hoy
  <2> HIDE DEF files
  <2>3. carpeta'["base"].rows = base
    BY <2>1, <2>2, FilesOfAStep
  <2>4. QED
    BY <1>1, <1>3, <2>3 DEF CuentasDeUnPaso, Rows, base
<1>4. CASE Falla
  BY <1>4 DEF Falla, CuentasDeUnPaso, Entregada
<1>5. CASE EncuestaCx /\ job = "cx" /\ ~Falla
  <2> DEFINE base == S!Transform(entrada.rows)
             files == [base |-> Hoy(base), e164 |-> Hoy(S!LoadE164(base)), warnings |-> Hoy(S!Warnings(base))]
  <2>1. carpeta' = Con(files)
    BY <1>5 DEF EncuestaCx, Hace, Entrega
  <2> HIDE DEF base
  <2>2. {"base", "e164"} \subseteq DOMAIN files /\ files["base"].rows = base /\ files["e164"].rows = S!LoadE164(base)
    BY DEF Hoy
  <2> HIDE DEF files
  <2>3. carpeta'["base"].rows = base /\ carpeta'["e164"].rows = S!LoadE164(base)
    BY <2>1, <2>2, FilesOfAStep
  <2>4. QED
    BY <1>1, <1>5, <2>3 DEF CuentasDeUnPaso, Rows, base
<1>6. CASE SocialLearning /\ job = "social"
  <2> DEFINE base == S!GenerateBase(entrada)
             files == [base |-> Hoy(base)]
  <2>1. carpeta' = Con(files)
    BY <1>6 DEF SocialLearning, Hace, Entrega
  <2> HIDE DEF base
  <2>2. "base" \in DOMAIN files /\ files["base"].rows = base
    BY DEF Hoy
  <2> HIDE DEF files
  <2>3. carpeta'["base"].rows = base
    BY <2>1, <2>2, FilesOfAStep
  <2>4. QED
    BY <1>1, <1>6, <2>3 DEF CuentasDeUnPaso, Rows, base
<1>7. CASE job \notin {"fravega", "cx", "social"}
  BY <1>1, <1>7 DEF CuentasDeUnPaso
<1>8. QED
  BY <1>2, <1>3, <1>4, <1>5, <1>6, <1>7, StepsOfAJob

\* The files of each job, at each of its steps.
CuentasInv == /\ CuentasBancor /\ CuentasEpec /\ CuentasClaro /\ CuentasMt
              /\ CuentasFechas /\ CuentasDeUnPaso

LEMMA CuentasInvNext ==
  ASSUME CuentasInv, [Next]_vars
  PROVE  CuentasInv'
<1>1. CASE Next
  <2>1. UNCHANGED job
    BY <1>1, StepsOfAJob
  <2>2. CuentasBancor'
    BY <1>1, <2>1, CuentasBancorNext DEF CuentasInv, CuentasBancor
  <2>3. CuentasEpec'
    BY <1>1, <2>1, CuentasEpecNext DEF CuentasInv, CuentasEpec
  <2>4. CuentasClaro'
    BY <1>1, <2>1, CuentasClaroNext DEF CuentasInv, CuentasClaro
  <2>5. CuentasMt'
    BY <1>1, <2>1, CuentasMtNext DEF CuentasInv, CuentasMt
  <2>6. CuentasFechas'
    BY <1>1, <2>1, CuentasFechasNext DEF CuentasInv, CuentasFechas
  <2>7. CuentasDeUnPaso'
    BY <1>1, CuentasDeUnPasoNext DEF CuentasInv
  <2>8. QED
    BY <2>2, <2>3, <2>4, <2>5, <2>6, <2>7 DEF CuentasInv
<1>2. CASE UNCHANGED vars
  BY <1>2 DEF vars, CuentasInv, CuentasBancor, CuentasEpec, CuentasClaro, CuentasMt, CuentasFechas,
              CuentasDeUnPaso, Va, Entregada, DosArchivos, Rows
<1>3. QED
  BY <1>1, <1>2

\* What each job takes is in the files it leaves.
LEMMA TheFilesHaveEveryone ==
  ASSUME EntradaPosible, CuentasInv, codigo = "ok"
  PROVE  Tomados \subseteq Contados
<1>1. EsEntrada(job, entrada)
  BY EntradasAssumption DEF EntradaPosible
<1>2. CASE job = "bancor"
  <2> DEFINE b == B!ProcesarBase(entrada)  c == B!ProcesarCompleta(entrada)
             ofertas == De(B!Ofertas(entrada), "bt")
             deudas == De(Tomadas(entrada), "cuil")  repetidos == CuilesDe(Tomadas(entrada), LosBts(c))
  <2>1. IsTable(entrada) /\ \A i \in DOMAIN entrada : FilaDelBanco(entrada[i])
    BY <1>1, <1>2, EsTablaIsTable DEF EsEntrada, FilaDelBanco
  <2>2. /\ Rows("base") = b.unicos /\ Rows("base_descartados") = b.descartados
        /\ Rows("roman") = c.unicos /\ Rows("roman_descartados") = c.descartados
    BY <1>2 DEF CuentasInv, CuentasBancor, Entregada, DosArchivos, Rows
  <2>3. ofertas \ {B!NoKey} \subseteq De(b.unicos, "bt") \cup De(b.descartados, "bt")
    BY <2>1, ClientsOfBancor
  <2>4. deudas \ {B!NoKey} \subseteq De(c.unicos, "cuil") \cup De(c.descartados, "cuil") \cup repetidos
    BY <2>1, ClientsOfRoman
  <2>5. Tomados = (ofertas \X {"base"}) \cup (deudas \X {"roman"})
    BY <1>2 DEF Tomados, Tomadas
  <2>6. Contados = ((De(b.unicos, "bt") \cup De(b.descartados, "bt") \cup {B!NoKey}) \X {"base"})
                   \cup ((De(c.unicos, "cuil") \cup De(c.descartados, "cuil") \cup repetidos \cup {B!NoKey})
                            \X {"roman"})
    <3>1. Repetidos = repetidos
      BY <2>2 DEF Repetidos, CuilesDe, LosBts, Tomadas
    <3> HIDE DEF b, c, repetidos
    <3>2. QED
      BY <1>2, <2>2, <3>1 DEF Contados
  <2> HIDE DEF b, c, ofertas, deudas, repetidos
  <2>7. QED
    BY <2>3, <2>4, <2>5, <2>6
<1>3. CASE job = "epec"
  <2>1. /\ IsTable(entrada)
        /\ \A i \in DOMAIN entrada : /\ IsTable(entrada[i].rows)
                                     /\ \A k \in DOMAIN entrada[i].rows : "id" \in DOMAIN entrada[i].rows[k]
    <3>1. /\ EsTabla(entrada)
          /\ \A i \in DOMAIN entrada : /\ EsTabla(entrada[i].rows)
                                       /\ \A k \in DOMAIN entrada[i].rows : EsFilaEpec(entrada[i].rows[k])
      BY <1>1, <1>3 DEF EsEntrada
    <3>2. QED
      BY <3>1, EsTablaIsTable DEF EsFilaEpec
  <2>2. Tomados = DeLegibles(entrada)
    BY <1>3 DEF Tomados, DeLegibles
  <2>3. Contados = De(Rows("base"), "id") \cup De(Rows("debug"), "id")
    BY <1>3 DEF Contados
  <2>4. /\ Rows("base") = E!GuardarConsolidado(E!Combinar(entrada).base)
        /\ Rows("debug") = E!Combinar(entrada).debug
    BY <1>3 DEF CuentasInv, CuentasEpec, Entregada
  <2>5. QED
    BY <2>1, <2>2, <2>3, <2>4, ClientsOfEpec
<1>4. CASE job = "fravega"
  <2>1. IsTable(entrada) /\ \A i \in DOMAIN entrada : "dni" \in DOMAIN entrada[i]
    BY <1>1, <1>4, EsTablaIsTable DEF EsEntrada
  <2>2. Tomados = EnMora(entrada)
    BY <1>4 DEF Tomados
  <2>3. Contados = De(Rows("base"), "dni")
    BY <1>4 DEF Contados
  <2>4. Rows("base") = F!CleanBase(entrada)
    BY <1>4 DEF CuentasInv, CuentasDeUnPaso, Entregada
  <2>5. QED
    BY <2>1, <2>2, <2>3, <2>4, ClientsOfFravega
<1>5. CASE job = "mt"
  <2>1. /\ IsTable(entrada)
        /\ \A i \in DOMAIN entrada : {"id", "tels"} \subseteq DOMAIN entrada[i] /\ IsTable(entrada[i].tels)
    BY <1>1, <1>5, EsTablaIsTable DEF EsEntrada
  <2>2. Tomados = De(entrada, "id")
    BY <1>5 DEF Tomados
  <2>3. Contados = De(Rows("roman"), "id") \cap De(Rows("e1kia"), "id")
    BY <1>5 DEF Contados
  <2>4. /\ Rows("roman") = N!ProcesarBase(entrada)
        /\ Rows("e1kia") = N!ExtraerTelefonos(N!ProcesarBase(entrada))
    BY <1>5 DEF CuentasInv, CuentasMt, Entregada
  <2>5. QED
    BY <2>1, <2>2, <2>3, <2>4, ClientsOfMt
<1>6. CASE job = "petersen fechas"
  <2>1. IsTable(entrada.roman)
    BY <1>1, <1>6, EsTablaIsTable DEF EsEntrada
  <2>2. Tomados = {P!NroCliente(c) : c \in DeLosBancos(entrada.roman)} \ {P!NoClient}
    BY <1>6 DEF Tomados
  <2>3. Contados = De(Rows("originales"), "cliente")
    BY <1>6 DEF Contados
  <2>4. PICK d : Rows("originales") = P!ExportAll(P!GenerateTipif(entrada.roman, entrada.alta, d, TRUE))
    BY <1>6 DEF CuentasInv, CuentasFechas, Entregada
  <2>5. QED
    BY <2>1, <2>2, <2>3, <2>4, ClientsOfPetersen
<1>7. CASE job = "claro"
  <2>1. IsTable(entrada.rows)
    BY <1>1, <1>7, EsTablaIsTable DEF EsEntrada
  <2>2. Tomados = NumerosDeClaro(entrada)
    BY <1>7 DEF Tomados, NumerosDeClaro
  <2>3. Contados = Rows("telefonos")
    BY <1>7 DEF Contados
  <2>4. Rows("telefonos") = S!ExtraerTelefonos(S!Deduplicar(S!ProcesarBase(entrada)).unicos)
    BY <1>7 DEF CuentasInv, CuentasClaro, Entregada
  <2>5. QED
    BY <2>1, <2>2, <2>3, <2>4, NumbersOfClaro
<1>8. CASE job = "cx"
  <2>1. Tomados = De(entrada.rows, "id")
    BY <1>8 DEF Tomados
  <2>2. Contados = De(Rows("base"), "id") \cap De(Rows("e164"), "id")
    BY <1>8 DEF Contados
  <2>3. Rows("base") = S!Transform(entrada.rows) /\ Rows("e164") = S!LoadE164(S!Transform(entrada.rows))
    BY <1>8 DEF CuentasInv, CuentasDeUnPaso, Entregada
  <2>4. QED
    BY <2>1, <2>2, <2>3, RowsOfCx
<1>9. CASE job = "social"
  <2>1. IsTable(entrada)
    BY <1>1, <1>9, EsTablaIsTable DEF EsEntrada
  <2>2. Tomados = De(entrada, "id") \ {S!NoKey}
    BY <1>9 DEF Tomados
  <2>3. Contados = De(Rows("base"), "id")
    BY <1>9 DEF Contados
  <2>4. Rows("base") = S!GenerateBase(entrada)
    BY <1>9 DEF CuentasInv, CuentasDeUnPaso, Entregada
  <2>5. QED
    BY <2>1, <2>2, <2>3, <2>4, DocumentsOfSocial
<1>10. CASE job \notin {"bancor", "epec", "fravega", "mt", "petersen fechas", "claro", "cx", "social"}
  <2>1. Tomados = {}
    BY <1>10 DEF Tomados
  <2>2. QED
    BY <2>1
<1>11. QED
  BY <1>2, <1>3, <1>4, <1>5, <1>6, <1>7, <1>8, <1>9, <1>10

\* The files are of the input at every step.
EntradaYCuentas == EntradaPosible /\ CuentasInv
LEMMA CuentasHold == Spec => []EntradaYCuentas
<1>1. Init => EntradaYCuentas
  <2> SUFFICES ASSUME Init PROVE EntradaYCuentas
    OBVIOUS
  <2>1. codigo = Running /\ paso = "inicio" /\ DOMAIN carpeta = {}
    BY DEF Init
  <2>2. EntradaPosible
    BY EntradaInv
  <2>3. ~Entregada /\ \A p : p # "inicio" => ~Va(p)
    BY <2>1 DEF Entregada, Va, Running
  <2>4. CuentasInv
    BY <2>1, <2>3 DEF CuentasInv, CuentasBancor, CuentasEpec, CuentasClaro, CuentasMt, CuentasFechas,
                      CuentasDeUnPaso, DosArchivos
  <2>5. QED
    BY <2>2, <2>4 DEF EntradaYCuentas
<1>2. EntradaYCuentas /\ [Next]_vars => EntradaYCuentas'
  BY EntradaInv, CuentasInvNext DEF EntradaYCuentas
<1>3. QED
  BY <1>1, <1>2, PTL DEF Spec

\* Whoever a job of a base takes is in its base or in the file of those it leaves
\* aside, in a folder of any size, whatever the phones they share.
THEOREM NobodyIsLost == Spec => []EveryoneIsAccountedFor
<1>1. EntradaYCuentas => EveryoneIsAccountedFor
  BY TheFilesHaveEveryone DEF EveryoneIsAccountedFor, EntradaYCuentas
<1>2. QED
  BY <1>1, CuentasHold, PTL

\* In a ROMAN base of any number of rows a discount is below the debt of all the rows
\* of its client and a summary has an entry for each of them.
THEOREM DiscountsHold == Spec => []DiscountsAndSummariesHold
<1>1. EntradaYCuentas => DiscountsAndSummariesHold
  <2> SUFFICES ASSUME EntradaYCuentas, job = "bancor", "roman" \in DOMAIN carpeta
               PROVE  Warnings \cap {"monto_quita", "resumen"} = {}
    BY DEF DiscountsAndSummariesHold, Salio
  <2>1. IsTable(entrada) /\ \A i \in DOMAIN entrada : FilaDelBanco(entrada[i])
    <3>1. EsEntrada(job, entrada)
      BY EntradasAssumption DEF EntradaYCuentas, EntradaPosible
    <3>2. QED
      BY <3>1, EsTablaIsTable DEF EsEntrada, FilaDelBanco
  <2>2. Rows("roman") = B!ProcesarCompleta(entrada).unicos
    BY DEF EntradaYCuentas, CuentasInv, CuentasBancor, DosArchivos, Rows
  <2>3. QED
    BY Zenon, <2>1, <2>2, ContractOfRoman DEF Warnings
<1>2. QED
  BY <1>1, CuentasHold, PTL
-----------------------------------------------------------------------------
(* what back-base delivers of EPEC *)

CopiasEpec ==
  job = "epec" =>
    /\ Va("guardar") => /\ E!Combinar(entrada).ok /\ "consolidado" \in DOMAIN carpeta
                        /\ Rows("consolidado") = E!Combinar(entrada).base
    /\ Va("telefonos") => /\ E!Combinar(entrada).ok /\ {"base", "consolidado"} \subseteq DOMAIN carpeta
                          /\ Rows("consolidado") = E!Combinar(entrada).base
                          /\ Rows("base") = E!GuardarConsolidado(E!Combinar(entrada).base)
    /\ Entregada => /\ E!Combinar(entrada).ok
                    /\ Entregado("base") = E!GuardarConsolidado(E!Combinar(entrada).base)
                    /\ Entregado("telefonos") = E!GenerarTelefonos(E!Combinar(entrada).base)
LEMMA CopiasEpecNext ==
  ASSUME CopiasEpec, Next, job = "epec"
  PROVE  CopiasEpec'
<1> DEFINE c == E!Combinar(entrada)
<1>1. UNCHANGED <<job, entrada>>
  BY StepsOfAJob
<1> HIDE DEF c
<1>2. /\ Va("guardar") => c.ok /\ "consolidado" \in DOMAIN carpeta /\ carpeta["consolidado"].rows = c.base
      /\ Va("telefonos") => /\ c.ok /\ {"base", "consolidado"} \subseteq DOMAIN carpeta
                            /\ carpeta["consolidado"].rows = c.base
                            /\ carpeta["base"].rows = E!GuardarConsolidado(c.base)
      /\ Entregada => /\ c.ok /\ salida["base"].rows = E!GuardarConsolidado(c.base)
                      /\ salida["telefonos"].rows = E!GenerarTelefonos(c.base)
  BY DEF CopiasEpec, Rows, Entregado, c
<1>3. /\ Va("guardar")' => c.ok /\ "consolidado" \in DOMAIN carpeta' /\ carpeta'["consolidado"].rows = c.base
      /\ Va("telefonos")' => /\ c.ok /\ {"base", "consolidado"} \subseteq DOMAIN carpeta'
                             /\ carpeta'["consolidado"].rows = c.base
                             /\ carpeta'["base"].rows = E!GuardarConsolidado(c.base)
      /\ Entregada' => /\ c.ok /\ salida'["base"].rows = E!GuardarConsolidado(c.base)
                       /\ salida'["telefonos"].rows = E!GenerarTelefonos(c.base)
  <2>1. CASE Medianoche
    BY <1>2, <2>1 DEF Medianoche, Va, Entregada, Running
  <2>2. CASE Falla
    BY <2>2 DEF Falla, Va, Entregada, Running
  <2>3. CASE EpecCombina /\ ~Falla
    <3> DEFINE files == [consolidado |-> Hoy(c.base), debug |-> Hoy(c.debug)]
    <3>1. carpeta' = Con(files) /\ paso' = "guardar" /\ codigo' = Running /\ c.ok
      BY <2>3 DEF EpecCombina, Sigue, En, c
    <3>2. "consolidado" \in DOMAIN files /\ files["consolidado"].rows = c.base
      BY DEF Hoy
    <3> HIDE DEF files
    <3>3. "consolidado" \in DOMAIN carpeta' /\ carpeta'["consolidado"] = files["consolidado"]
      BY <3>1, <3>2, FilesOfAStep
    <3>4. QED
      BY <3>1, <3>2, <3>3 DEF Va, Entregada, Running
  <2>4. CASE EpecGuarda
    <3> DEFINE files == [base |-> Hoy(E!GuardarConsolidado(Rows("consolidado")))]
    <3>1. carpeta' = Con(files) /\ paso' = "telefonos" /\ codigo' = Running /\ Va("guardar")
      BY <2>4 DEF EpecGuarda, Sigue, En, Va
    <3>2. DOMAIN files = {"base"} /\ files["base"].rows = E!GuardarConsolidado(c.base)
      BY <1>2, <3>1 DEF Hoy, Rows
    <3> HIDE DEF files
    <3>3. /\ {"base", "consolidado"} \subseteq DOMAIN carpeta'
          /\ carpeta'["base"] = files["base"] /\ carpeta'["consolidado"] = carpeta["consolidado"]
      BY <1>2, <3>1, <3>2, FilesOfAStep
    <3>4. QED
      BY <1>2, <3>1, <3>2, <3>3 DEF Va, Entregada, Running
  <2>5. CASE EpecTelefonos
    <3> DEFINE files == [telefonos |-> Hoy(E!GenerarTelefonos(Rows("consolidado")))]
    <3>1. /\ carpeta' = Con(files) /\ codigo' = "ok" /\ Va("telefonos")
          /\ salida' = [f \in {"base", "telefonos"} \cap DOMAIN carpeta' |-> carpeta'[f]]
      BY <2>5 DEF EpecTelefonos, Entrega, Publica, En, Va
    <3>2. DOMAIN files = {"telefonos"} /\ files["telefonos"].rows = E!GenerarTelefonos(c.base)
      BY <1>2, <3>1 DEF Hoy, Rows
    <3> HIDE DEF files
    <3>3. /\ {"base", "telefonos"} \subseteq DOMAIN carpeta'
          /\ carpeta'["telefonos"] = files["telefonos"] /\ carpeta'["base"] = carpeta["base"]
      BY <1>2, <3>1, <3>2, FilesOfAStep
    <3>4. salida'["base"] = carpeta["base"] /\ salida'["telefonos"] = files["telefonos"]
      BY <3>1, <3>3
    <3>5. QED
      BY <1>2, <3>1, <3>2, <3>4 DEF Va, Entregada, Running
  <2>6. QED
    BY <2>1, <2>2, <2>3, <2>4, <2>5, StepsOfAJob
<1>4. QED
  BY <1>1, <1>3 DEF CopiasEpec, Rows, Entregado, c

\* Of any folder with one file, whatever its rows and their phones, back-base delivers
\* the base and the list of numbers that generacionBase-exe makes of the file.
THEOREM TwoCopiesMakeOneBase == Spec => []TwoCopiesAgree
<1> DEFINE Inv == EntradaPosible /\ CopiasEpec
<1>1. Init => Inv
  <2>1. Init => codigo = Running /\ paso = "inicio"
    BY DEF Init
  <2>2. Init => CopiasEpec
    BY <2>1 DEF CopiasEpec, Va, Entregada, Running
  <2>3. QED
    BY <2>2, EntradaInv
<1>2. Inv /\ [Next]_vars => Inv'
  <2> SUFFICES ASSUME Inv, [Next]_vars PROVE CopiasEpec'
    BY EntradaInv
  <2>1. CASE Next
    <3>1. CASE job = "epec"
      BY <2>1, <3>1, CopiasEpecNext
    <3>2. CASE job # "epec"
      BY <2>1, <3>2, StepsOfAJob DEF CopiasEpec
    <3>3. QED
      BY <3>1, <3>2
  <2>2. CASE UNCHANGED vars
    BY <2>2 DEF vars, CopiasEpec, Va, Entregada, Rows, Entregado
  <2>3. QED
    BY <2>1, <2>2
<1>3. Inv => TwoCopiesAgree
  <2> SUFFICES ASSUME Inv, Salio("epec"), Len(entrada) = 1
               PROVE  /\ Entregado("base") = E!GuardarBase(E!Preparar(entrada[1]))
                      /\ Entregado("telefonos") = E!GuardarTelefonos(E!Preparar(entrada[1]))
    BY DEF TwoCopiesAgree
  <2>1. /\ E!Combinar(entrada).ok
        /\ Entregado("base") = E!GuardarConsolidado(E!Combinar(entrada).base)
        /\ Entregado("telefonos") = E!GenerarTelefonos(E!Combinar(entrada).base)
    BY DEF CopiasEpec, Entregada, Salio
  <2>2. E!Legibles(entrada) # <<>>
    BY <2>1 DEF E!Combinar
  <2>3. /\ IsTable(entrada) /\ IsTable(entrada[1].rows)
        /\ \A k \in DOMAIN entrada[1].rows : EsFilaEpec(entrada[1].rows[k])
    <3>1. EsEntrada("epec", entrada)
      BY EntradasAssumption DEF EntradaPosible, Salio
    <3>2. IsTable(entrada)
      BY <3>1, EsTablaIsTable DEF EsEntrada
    <3>3. 1 \in DOMAIN entrada
      BY <3>2, TableShape
    <3>4. EsTabla(entrada[1].rows) /\ \A k \in DOMAIN entrada[1].rows : EsFilaEpec(entrada[1].rows[k])
      BY <3>1, <3>3 DEF EsEntrada
    <3>5. QED
      BY <3>2, <3>4, EsTablaIsTable
  <2>4. QED
    BY <2>1, <2>2, <2>3, SameFiles
<1>4. QED
  BY <1>1, <1>2, <1>3, PTL DEF Spec
=============================================================================
