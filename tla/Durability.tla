----------------------------- MODULE Durability -----------------------------
(***************************************************************************)
(* The end of a stateful run call by call, on a disk that loses power:     *)
(* StateStore.promote publishes the snapshot, then current, or leaves a    *)
(* marker; RunStore.write_metadata then replaces run.json.  Each file is   *)
(* written beside its target, fsynced, renamed over it, and its directory  *)
(* fsynced.  Until then the disk may hold the old entry or the new one; a  *)
(* file renamed before its own fsync may turn out torn.  The directory of  *)
(* the month and that of the run are made by mkdir, and nothing fsyncs the *)
(* directories above them: one whose entry the disk does not hold is lost  *)
(* with all its files.  RunService takes each publication as one step.     *)
(***************************************************************************)
CONSTANTS
  FailingCalls  \* the calls that may raise OSError here

Files == {"snapshot", "current", "recovery", "fallback", "run"}
Directories == {"lineage", "sandbox"}
Calls == {"write", "fsync", "replace", "fsync_directory"}
Contents == {"none", "old", "new", "failed", "torn"}
Outcomes == {"pending", "promoted", "promotion_failed", "recovery_required",
             "recovery_evidence_failed"}

ASSUME CallAssumption == FailingCalls \subseteq Calls

VARIABLES
  target,     \* the file being published; "end" when the run is over
  call,       \* the call to make next
  temporary,  \* the file beside the target: "none", "dirty" or "synced"
  cached,     \* the content of each file as processes see it
  possible,   \* the contents each file may have when power is lost now
  entered,    \* the directories whose own entry is known to be on the disk
  outcome,    \* how promote returned
  power

disk == <<cached, possible>>
vars == <<target, call, temporary, disk, entered, outcome, power>>

\* run.json is there before; current is not in the first run of a month.
Before == {[f \in Files |-> CASE f = "run" -> "old" [] f = "current" -> c [] OTHER -> "none"] :
             c \in {"none", "old"}}

\* The sandbox is of this run; the lineage may have been made by it too, or by a
\* run before, and then the system may have written its entry by itself or not.
Init ==
  /\ target = "snapshot" /\ call = "write" /\ temporary = "none"
  /\ cached \in Before /\ possible = [f \in Files |-> {cached[f]}]
  /\ entered \in {{}, {"lineage"}}
  /\ outcome = "pending"
  /\ power = "on"

\* recovery_required/ is an entry of the lineage too.
Home(f) == IF f = "run" THEN "sandbox" ELSE "lineage"
FilesOf(d) == {f \in Files : Home(f) = d}

\* run.json says succeeded ("new") only after a promotion.
Content(f) == IF f = "run" /\ outcome # "promoted" THEN "failed" ELSE "new"

\* The next file to publish.
Proceed(next, result) ==
  /\ target' = next /\ call' = IF next = "end" THEN "none" ELSE "write"
  /\ temporary' = "none"
  /\ outcome' = result

-----------------------------------------------------------------------------
(* _durable_copy, _durable_json and _durable_replace; of the fallback, which is
   not renamed, only its directory matters: mkdir, evidence, two fsyncs. *)

On(c) == power = "on" /\ call = c

WriteTemporary ==
  /\ On("write")
  /\ IF target = "fallback"
     THEN /\ cached' = [cached EXCEPT !["fallback"] = "new"]
          /\ possible' = [possible EXCEPT !["fallback"] = @ \cup {"new"}]
     ELSE UNCHANGED disk
  /\ temporary' = "dirty" /\ call' = "fsync"
  /\ UNCHANGED <<target, entered, outcome, power>>

\* Mutant: the data is left to the cache.
NotSynced == "dirty"
Synced == "synced"

FsyncFile ==
  /\ On("fsync")
  /\ temporary' = Synced
  /\ call' = IF target = "fallback" THEN "fsync_directory" ELSE "replace"
  /\ UNCHANGED <<target, disk, entered, outcome, power>>

Replace ==
  /\ On("replace")
  /\ cached' = [cached EXCEPT ![target] = Content(target)]
  /\ possible' = [possible EXCEPT ![target] =
       @ \cup {Content(target)} \cup (IF temporary = "synced" THEN {} ELSE {"torn"})]
  /\ temporary' = "none" /\ call' = "fsync_directory"
  /\ UNCHANGED <<target, entered, outcome, power>>

\* Mutant: the directory is not synced.
SettleNothing(f) == possible
\* fsync of a directory settles its entries, not the directory's own entry.
Settle(f) == [g \in Files |-> IF g \in FilesOf(Home(f)) THEN {cached[g]} ELSE possible[g]]

\* What promote and _finish do after a publication.
AfterSuccess ==
  CASE target = "snapshot" -> Proceed("current", outcome)
    [] target = "current"  -> Proceed("run", "promoted")
    [] target \in {"recovery", "fallback"} -> Proceed("run", "recovery_required")
    [] target = "run"      -> Proceed("end", outcome)

FsyncDirectory ==
  /\ On("fsync_directory")
  /\ possible' = Settle(target)
  /\ AfterSuccess
  /\ UNCHANGED <<cached, entered, power>>

\* _PublishedError: the rename was done.
Published == call = "fsync_directory"

\* The failure of a call ends the publication of its file: half promotions are
\* marked, the marker has a fallback, and a run.json that could not say succeeded
\* is written once more by the last except clause of execute.
Fail ==
  /\ power = "on" /\ call \in FailingCalls
  /\ CASE target = "snapshot" ->
            IF Published THEN Proceed("recovery", outcome)
                         ELSE Proceed("run", "promotion_failed")
       [] target = "current"  -> Proceed("recovery", outcome)
       [] target = "recovery" -> Proceed("fallback", outcome)
       [] target = "fallback" -> Proceed("run", "recovery_evidence_failed")
       [] target = "run"      -> IF outcome = "promoted"
                                 THEN Proceed("run", "promotion_failed")
                                 ELSE Proceed("end", outcome)
  /\ UNCHANGED <<disk, entered, power>>

\* The machine loses power: each entry is one of those it may be, and there is
\* nothing below a directory whose own entry is lost.
PowerLoss ==
  /\ power = "on"
  /\ power' = "off"
  /\ cached' \in [Files -> Contents]
  /\ \E lost \in SUBSET (Directories \ entered) :
       \A f \in Files : IF Home(f) \in lost THEN cached'[f] = "none"
                                            ELSE cached'[f] \in possible[f]
  /\ possible' = [f \in Files |-> {cached'[f]}]
  /\ UNCHANGED <<target, call, temporary, entered, outcome>>

Next == WriteTemporary \/ FsyncFile \/ Replace \/ FsyncDirectory \/ Fail \/ PowerLoss

Spec == Init /\ [][Next]_vars

-----------------------------------------------------------------------------
\* The variables stay in their sets, and no call is left when the run is over.
TypeOK ==
  /\ target \in Files \cup {"end"} /\ call \in Calls \cup {"none"}
  /\ call = "none" <=> target = "end"
  /\ temporary \in {"none", "dirty", "synced"}
  /\ cached \in [Files -> Contents]
  /\ possible \in [Files -> SUBSET Contents] /\ \A f \in Files : cached[f] \in possible[f]
  /\ entered \subseteq Directories
  /\ outcome \in Outcomes
  /\ power \in {"on", "off"}

\* Whenever power is lost, no state file, marker or run.json is found torn: each
\* is whole, old or new.
NothingTorn == power = "off" => \A f \in Files : cached[f] # "torn"

\* The directory of the month, whose entry nobody fsynced, went with all it held.
LineageLost ==
  /\ power = "off" /\ "lineage" \notin entered
  /\ \A f \in FilesOf("lineage") : cached[f] = "none"

\* A run.json that says succeeded comes with the snapshot and the new current: what
\* a power loss leaves of the month is both, or nothing if the entry of its
\* directory was not on the disk; never the one without the other.
SucceededIsPromoted ==
  cached["run"] = "new" /\ ~LineageLost =>
    cached["snapshot"] = "new" /\ cached["current"] = "new"

\* A promotion reported as needing recovery keeps blocking the month: whatever fails
\* or is lost afterwards, one of the two markers _preflight looks for is there, as
\* long as anything of the month is.
MarkerSurvives ==
  outcome = "recovery_required" /\ ~LineageLost =>
    cached["recovery"] # "none" \/ cached["fallback"] # "none"

\* What the documentation says: the promotion is durable.  A run.json that says
\* succeeded comes with both files, whenever power is lost.
PromotionIsDurable ==
  cached["run"] = "new" => cached["snapshot"] = "new" /\ cached["current"] = "new"
=============================================================================
