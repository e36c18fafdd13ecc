-------------------------- MODULE Durability_proofs --------------------------
(***************************************************************************)
(* Proofs about Durability: whatever calls fail and whenever power is      *)
(* lost, no file is torn, and unless the directory of the month is lost as *)
(* a whole, a run.json that says succeeded comes with its promotion and a  *)
(* promotion that needs recovery keeps its marker.                         *)
(***************************************************************************)
EXTENDS Durability, TLAPS

\* A file that is renamed was fsynced, so no entry may turn out torn.
RenamesAreSynced ==
  /\ call = "replace" => temporary = "synced"
  /\ \A f \in Files : "torn" \notin possible[f]

\* What the rename of the target, or the mkdir of the fallback, left.
TargetIsThere ==
  power = "on" /\ target \notin {"run", "end"} =>
    /\ call = "fsync_directory" => cached[target] = "new"
    /\ target = "fallback" /\ call = "fsync" => cached[target] = "new"

\* Both files of the month are new on the disk.
OnDisk == possible["snapshot"] = {"new"} /\ possible["current"] = {"new"}

\* What the disk holds when promote goes on or has returned, while there is power.
SettledBefore ==
  power = "on" =>
    /\ target = "current" => possible["snapshot"] = {"new"}
    /\ outcome \in {"promoted", "recovery_required"} => target \in {"run", "end"}
    /\ outcome = "promoted" \/ "new" \in possible["run"] => target \in {"run", "end"} /\ OnDisk
    /\ outcome = "recovery_required" =>
         possible["recovery"] = {"new"} \/ "none" \notin possible["fallback"]

\* The inductive invariant.
IInv ==
  /\ TypeOK /\ RenamesAreSynced /\ TargetIsThere /\ SettledBefore
  /\ SucceededIsPromoted /\ MarkerSurvives

\* With power, what is settled is there.
LEMMA WithPower ==
  ASSUME TypeOK, SettledBefore, power = "on"
  PROVE  SucceededIsPromoted /\ MarkerSurvives
BY DEF TypeOK, SettledBefore, OnDisk, SucceededIsPromoted, MarkerSurvives, Files

LEMMA InitIInv == Init => IInv
<1> SUFFICES ASSUME Init PROVE IInv
  OBVIOUS
<1>1. PICK c \in {"none", "old"} :
        cached = [f \in Files |-> CASE f = "run" -> "old" [] f = "current" -> c [] OTHER -> "none"]
  BY DEF Init, Before
<1>2. TypeOK
  BY <1>1 DEF Init, TypeOK, Files, Calls, Contents, Outcomes, Directories
<1>3. RenamesAreSynced /\ TargetIsThere
  BY <1>1 DEF Init, RenamesAreSynced, TargetIsThere, Files
<1>4. SettledBefore
  BY <1>1 DEF Init, SettledBefore, OnDisk, Files
<1> QED
  BY <1>2, <1>3, <1>4, WithPower DEF IInv, Init

LEMMA TypeStep == TypeOK /\ [Next]_vars => TypeOK'
<1> SUFFICES ASSUME TypeOK, [Next]_vars PROVE TypeOK'
  OBVIOUS
<1> USE DEF TypeOK, Files, Calls, Contents, Outcomes, Directories
<1>1. CASE WriteTemporary
  BY <1>1 DEF WriteTemporary, On, disk
<1>2. CASE FsyncFile
  BY <1>2 DEF FsyncFile, On, disk, Synced
<1>3. CASE Replace
  BY <1>3 DEF Replace, On, Content
<1>4. CASE FsyncDirectory
  <2>1. possible' \in [Files -> SUBSET Contents] /\ \A f \in Files : cached'[f] \in possible'[f]
    BY <1>4 DEF FsyncDirectory, Settle
  <2> QED
    BY <1>4, <2>1 DEF FsyncDirectory, On, AfterSuccess, Proceed
<1>5. CASE Fail
  BY <1>5, CallAssumption DEF Fail, Proceed, disk, Published
<1>6. CASE PowerLoss
  BY <1>6 DEF PowerLoss
<1>7. CASE UNCHANGED vars
  BY <1>7 DEF vars, disk
<1> QED
  BY <1>1, <1>2, <1>3, <1>4, <1>5, <1>6, <1>7 DEF Next

LEMMA SyncedStep == IInv /\ [Next]_vars => RenamesAreSynced'
<1> SUFFICES ASSUME IInv, [Next]_vars PROVE RenamesAreSynced'
  OBVIOUS
<1> USE DEF IInv, TypeOK, RenamesAreSynced, Files, Calls, Contents
<1>1. CASE WriteTemporary
  BY <1>1 DEF WriteTemporary, On, disk
<1>2. CASE FsyncFile
  BY <1>2 DEF FsyncFile, On, disk, Synced
<1>3. CASE Replace
  BY <1>3 DEF Replace, On, Content
<1>4. CASE FsyncDirectory
  <2>1. \A f \in Files : "torn" \notin possible'[f]
    BY <1>4 DEF FsyncDirectory, Settle
  <2> QED
    BY <1>4, <2>1 DEF FsyncDirectory, On, AfterSuccess, Proceed
<1>5. CASE Fail
  BY <1>5, CallAssumption DEF Fail, Proceed, disk, Published
<1>6. CASE PowerLoss
  BY <1>6 DEF PowerLoss
<1>7. CASE UNCHANGED vars
  BY <1>7 DEF vars, disk
<1> QED
  BY <1>1, <1>2, <1>3, <1>4, <1>5, <1>6, <1>7 DEF Next

LEMMA ThereStep == IInv /\ [Next]_vars => TargetIsThere'
<1> SUFFICES ASSUME IInv, [Next]_vars PROVE TargetIsThere'
  OBVIOUS
<1> USE DEF IInv, TypeOK, TargetIsThere, Files, Calls
<1>1. CASE WriteTemporary
  BY <1>1 DEF WriteTemporary, On, disk
<1>2. CASE FsyncFile
  BY <1>2 DEF FsyncFile, On, disk
<1>3. CASE Replace
  BY <1>3 DEF Replace, On, Content
<1>4. CASE FsyncDirectory
  BY <1>4 DEF FsyncDirectory, On, AfterSuccess, Proceed
<1>5. CASE Fail
  BY <1>5, CallAssumption DEF Fail, Proceed, disk, Published
<1>6. CASE PowerLoss
  BY <1>6 DEF PowerLoss
<1>7. CASE UNCHANGED vars
  BY <1>7 DEF vars, disk
<1> QED
  BY <1>1, <1>2, <1>3, <1>4, <1>5, <1>6, <1>7 DEF Next

LEMMA SettledStep == IInv /\ [Next]_vars => SettledBefore'
<1> SUFFICES ASSUME IInv, [Next]_vars PROVE SettledBefore'
  OBVIOUS
<1> USE DEF IInv, TypeOK, SettledBefore, OnDisk, Files, Calls, Contents, Outcomes
<1>1. CASE WriteTemporary
  BY <1>1 DEF WriteTemporary, On, disk
<1>2. CASE FsyncFile
  BY <1>2 DEF FsyncFile, On, disk
<1>3. CASE Replace
  BY <1>3 DEF Replace, On, Content
<1>4. CASE FsyncDirectory
  <2>1. CASE target = "run"
    BY <1>4, <2>1 DEF FsyncDirectory, On, AfterSuccess, Proceed, Settle, FilesOf, Home
  <2>2. CASE target = "snapshot"
    BY <1>4, <2>2 DEF FsyncDirectory, On, AfterSuccess, Proceed, Settle, FilesOf, Home, TargetIsThere
  <2>3. CASE target = "current"
    BY <1>4, <2>3 DEF FsyncDirectory, On, AfterSuccess, Proceed, Settle, FilesOf, Home, TargetIsThere
  <2>4. CASE target \in {"recovery", "fallback"}
    BY <1>4, <2>4 DEF FsyncDirectory, On, AfterSuccess, Proceed, Settle, FilesOf, Home, TargetIsThere
  <2> QED
    BY <1>4, <2>1, <2>2, <2>3, <2>4 DEF FsyncDirectory, On
<1>5. CASE Fail
  BY <1>5, CallAssumption DEF Fail, Proceed, disk, Published
<1>6. CASE PowerLoss
  BY <1>6 DEF PowerLoss
<1>7. CASE UNCHANGED vars
  BY <1>7 DEF vars, disk
<1> QED
  BY <1>1, <1>2, <1>3, <1>4, <1>5, <1>6, <1>7 DEF Next

\* A power loss takes the whole lineage, or leaves of its files what they may be.
LEMMA SurviveStep ==
  ASSUME IInv, [Next]_vars
  PROVE  SucceededIsPromoted' /\ MarkerSurvives'
<1>1. CASE PowerLoss
  <2>1. PICK lost \in SUBSET (Directories \ entered) :
          \A f \in Files : IF Home(f) \in lost THEN cached'[f] = "none"
                                               ELSE cached'[f] \in possible[f]
    BY <1>1 DEF PowerLoss
  <2>2. CASE "lineage" \in lost
    <3>1. "lineage" \notin entered' /\ power' = "off"
      BY <1>1, <2>2 DEF PowerLoss
    <3>2. \A f \in FilesOf("lineage") : cached'[f] = "none"
      BY <2>1, <2>2 DEF FilesOf
    <3> QED
      BY <3>1, <3>2 DEF LineageLost, SucceededIsPromoted, MarkerSurvives
  <2>3. CASE "lineage" \notin lost
    <3>1. \A f \in Files \ {"run"} : cached'[f] \in possible[f]
      BY <2>1, <2>3 DEF Home
    <3>2. cached'["run"] = "new" => "new" \in possible["run"]
      BY <2>1 DEF Files
    <3>3. power = "on" /\ outcome' = outcome
      BY <1>1 DEF PowerLoss
    <3>4. SucceededIsPromoted'
      BY <3>1, <3>2, <3>3 DEF IInv, SettledBefore, OnDisk, SucceededIsPromoted, Files
    <3>5. MarkerSurvives'
      BY <3>1, <3>3 DEF IInv, SettledBefore, MarkerSurvives, Files
    <3> QED
      BY <3>4, <3>5
  <2> QED
    BY <2>2, <2>3
<1>2. CASE WriteTemporary \/ FsyncFile \/ Replace \/ FsyncDirectory \/ Fail
  <2>1. power' = "on"
    BY <1>2 DEF WriteTemporary, FsyncFile, Replace, FsyncDirectory, Fail, On
  <2>2. TypeOK' /\ SettledBefore'
    BY TypeStep, SettledStep DEF IInv
  <2>3. ASSUME TypeOK', SettledBefore', power' = "on"
        PROVE  SucceededIsPromoted' /\ MarkerSurvives'
    BY <2>3 DEF TypeOK, SettledBefore, OnDisk, SucceededIsPromoted, MarkerSurvives, Files
  <2> QED
    BY <2>1, <2>2, <2>3
<1>3. CASE UNCHANGED vars
  BY <1>3 DEF IInv, vars, disk, SucceededIsPromoted, MarkerSurvives, LineageLost
<1> QED
  BY <1>1, <1>2, <1>3 DEF Next

\* The inductive invariant of the publication of a run: renames are synced and what
\* promote settled on the disk before it went on is still there.
THEOREM DurabilityInvariant == Spec => []IInv
<1>1. IInv /\ [Next]_vars => IInv'
  BY TypeStep, SyncedStep, ThereStep, SettledStep, SurviveStep DEF IInv
<1> QED
  BY <1>1, InitIInv, PTL DEF Spec

\* No file of the lineage, marker or run.json is found torn after a power loss,
\* whatever calls may fail (_durable_copy, _durable_json, write_metadata).
THEOREM NothingIsTorn == Spec => []NothingTorn
<1>1. IInv => NothingTorn
  BY DEF IInv, TypeOK, RenamesAreSynced, NothingTorn
<1> QED
  BY <1>1, DurabilityInvariant, PTL

\* A run.json that says succeeded comes with the snapshot and the current file it
\* announces, or the directory of the month is gone as a whole, which takes an entry
\* of it that was not on the disk.
THEOREM SuccessSurvivesWithItsPromotion == Spec => []SucceededIsPromoted
<1>1. IInv => SucceededIsPromoted
  BY DEF IInv
<1> QED
  BY <1>1, DurabilityInvariant, PTL

\* A promotion that needs recovery leaves a marker that no later failure and no
\* power loss takes away, unless it takes the directory of the month with it.
THEOREM TheMarkerSurvives == Spec => []MarkerSurvives
<1>1. IInv => MarkerSurvives
  BY DEF IInv
<1> QED
  BY <1>1, DurabilityInvariant, PTL
=============================================================================
