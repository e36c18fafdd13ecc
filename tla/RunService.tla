----------------------------- MODULE RunService -----------------------------
(***************************************************************************)
(* RunService.execute (src/orchestrator/service.py) for the runs of one    *)
(* ETL, with the three stores it drives:                                   *)
(*   - run.json of every run (RunStore.write_metadata),                    *)
(*   - the month lock (RunStore.acquire_lock and release_lock), here one   *)
(*     atomic step each; module RunLock opens them up,                     *)
(*   - the monthly state lineage (StateStore.promote): one immutable       *)
(*     snapshot per day, the current file of the month and the recovery    *)
(*     marker.                                                             *)
(*                                                                         *)
(* Every run is a sequential process: a CLI process or a thread of the     *)
(* API pool.  Runs interleave, the clock may pass midnight between two     *)
(* steps, a disk call may fail wherever the set Faults says so, a process  *)
(* may die at any step, and the operator may act on the files by hand.     *)
(***************************************************************************)
EXTENDS Naturals

CONSTANTS
  Runs,           \* run identifiers; a run is executed at most once
  None,           \* no run: a free lock, a file that does not exist
  LastDay,        \* the clock stops on this day (bound of the model)
  MonthOf,        \* the month, [Days -> Nat], whose lineage a day belongs to
  Stateful,       \* adapter.stateful
  RequireChange,  \* adapter.requires_state_change
  Faults,         \* the failures this instance admits
  Operator        \* the manual interventions this instance admits

FaultKinds == {"metadata", "lock", "release", "snapshot", "current",
               "evidence", "crash"}
OperatorMoves == {"unlock", "repair"}

Days == 1 .. LastDay
Months == {MonthOf[d] : d \in Days}

ASSUME RunAssumption == None \notin Runs
ASSUME CalendarAssumption == LastDay \in Nat \ {0} /\ MonthOf \in [Days -> Nat]
ASSUME ModeAssumption ==
  /\ Stateful \in BOOLEAN /\ RequireChange \in BOOLEAN
  /\ Faults \subseteq FaultKinds /\ Operator \subseteq OperatorMoves

VARIABLES
  today,     \* the host-local date
  day,       \* request.business_date of each run, given with the request
  pc,        \* where each run is in execute()
  mem,       \* its in-memory document
  disk,      \* its run.json
  holds,     \* whether its local variable lock is not None
  parent,    \* the run whose state file it staged from current
  content,   \* which version of the state its sandbox holds after the legacy
  stamp,     \* the day the legacy wrote its outputs, 0 before that
  lock,      \* the month's .lock: the run that created it, or None
  snapshot,  \* estado_YYYYMMDD.csv: the run that published it, or None
  current,   \* estado_YYYYMM.csv: the run that published it, or None
  marker     \* recovery.json or recovery_required exists

sandbox == <<parent, content, stamp>>
lineage == <<snapshot, current, marker>>
vars == <<today, day, pc, mem, disk, holds, sandbox, lock, lineage>>

(***************************************************************************)
(* The document of run.json: status, error.code, postconditions.outputs    *)
(* and state.status.                                                       *)
(***************************************************************************)
LiveStatuses == {"preparing", "running"}
TerminalStatuses == {"succeeded", "failed", "timed_out", "blocked"}
ErrorCodes == {"validation_error", "recovery_required", "snapshot_exists",
               "lock_exists", "timeout", "spawn_failed", "nonzero_exit",
               "postcondition_failed", "state_unchanged", "promotion_failed",
               "recovery_evidence_failed"}
StateStatuses == {"not_started", "staged", "promoted", "recovery_required"}
Document == [status : {"absent"} \cup LiveStatuses \cup TerminalStatuses,
             code : {"none"} \cup ErrorCodes,
             passed : BOOLEAN,
             state : StateStatuses]
NoDocument == [status |-> "absent", code |-> "none", passed |-> FALSE,
               state |-> "not_started"]

Steps == {"idle", "validate", "preflight", "acquire", "stage", "command",
          "legacy", "outputs", "promote", "snapshot", "current", "evidence",
          "finish", "handler", "release", "done", "crashed"}

Month(r) == MonthOf[day[r]]
ContentOf(r) == IF r = None THEN None ELSE content[r]
Active(r) == pc[r] \notin {"idle", "done", "crashed"}

Init ==
  /\ today = 1
  /\ day \in [Runs -> Days]
  /\ pc = [r \in Runs |-> "idle"]
  /\ mem = [r \in Runs |-> NoDocument]
  /\ disk = [r \in Runs |-> NoDocument]
  /\ holds = [r \in Runs |-> FALSE]
  /\ parent = [r \in Runs |-> None]
  /\ content = [r \in Runs |-> None]
  /\ stamp = [r \in Runs |-> 0]
  /\ lock = [m \in Months |-> None]
  /\ snapshot = [d \in Days |-> None]
  /\ current = [m \in Months |-> None]
  /\ marker = [m \in Months |-> FALSE]

-----------------------------------------------------------------------------
(* Control flow of execute(). *)

Goto(r, step) == pc' = [pc EXCEPT ![r] = step]

\* write_metadata: it returns, or raises OSError with run.json old or new.
WriteMetadata(r, document, returns) ==
  /\ returns \/ "metadata" \in Faults
  /\ \/ disk' = [disk EXCEPT ![r] = document]
     \/ ~returns /\ UNCHANGED disk

\* The body of the try decides how the run ends and calls _finish there.
Conclude(r, status, code) ==
  /\ mem' = [mem EXCEPT ![r] = [@ EXCEPT !.status = status, !.code = code]]
  /\ Goto(r, "finish")

\* An exception leaves the body; the except clause calls _finish.
Handle(r, status, code) ==
  /\ mem' = [mem EXCEPT ![r] = [@ EXCEPT !.status = status, !.code = code]]
  /\ Goto(r, "handler")

\* Mutant: the last except clause releases the lock without calling _finish.
HandleOSErrorSilently(r) == UNCHANGED mem /\ Goto(r, "release")

\* except (OSError, ValueError)
HandleOSError(r) ==
  Handle(r, "failed",
         IF mem[r].passed THEN "promotion_failed" ELSE "validation_error")

-----------------------------------------------------------------------------
(* One action per step of execute(). *)

\* create_run and the transition to preparing, both outside the try.
Start(r) ==
  LET document == [NoDocument EXCEPT !.status = "preparing"]
  IN  /\ pc[r] = "idle"
      /\ mem' = [mem EXCEPT ![r] = document]
      /\ \E returns \in BOOLEAN :
           /\ WriteMetadata(r, document, returns)
           /\ Goto(r, IF returns THEN "validate" ELSE "done")
      /\ UNCHANGED <<today, day, holds, sandbox, lock, lineage>>

\* adapter.validate: the business date must be today; the inputs and the
\* parameters may be rejected as well.
Validate(r) ==
  /\ pc[r] = "validate"
  /\ \/ /\ day[r] = today
        /\ Goto(r, IF Stateful THEN "preflight" ELSE "acquire")
        /\ UNCHANGED mem
     \/ Handle(r, "blocked", "validation_error")
  /\ UNCHANGED <<today, day, disk, holds, sandbox, lock, lineage>>

\* Mutants: the marker is not looked at; its code is misspelled.
BlockerIgnoringMarker(r) ==
  IF snapshot[day[r]] # None THEN "snapshot_exists" ELSE "none"
BlockerMisspelled(r) ==
  IF marker[Month(r)] THEN "recovery"
  ELSE IF snapshot[day[r]] # None THEN "snapshot_exists" ELSE "none"

\* What blocks a run of the lineage before it writes: _state_preflight in the
\* service, and again _preflight in StateStore.promote.
Blocker(r) ==
  IF marker[Month(r)] THEN "recovery_required"
  ELSE IF snapshot[day[r]] # None THEN "snapshot_exists" ELSE "none"

Preflight(r) ==
  /\ pc[r] = "preflight"
  /\ IF Blocker(r) = "none"
     THEN Goto(r, "acquire") /\ UNCHANGED mem
     ELSE Handle(r, "blocked", Blocker(r))
  /\ UNCHANGED <<today, day, disk, holds, sandbox, lock, lineage>>

\* acquire_lock: mkdir .lock decides.  An OSError before the mkdir creates
\* nothing; after it (owner directory, owner.json, fsync) the lock stays on disk
\* while the local variable stays None.
Acquire(r) ==
  LET taken == [lock EXCEPT ![Month(r)] = r]
  IN  /\ pc[r] = "acquire"
      /\ \/ /\ lock[Month(r)] # None
            /\ Handle(r, "blocked", "lock_exists")
            /\ UNCHANGED <<lock, holds>>
         \/ /\ lock[Month(r)] = None
            /\ lock' = taken
            /\ holds' = [holds EXCEPT ![r] = TRUE]
            /\ Goto(r, "stage")
            /\ UNCHANGED mem
         \/ /\ "lock" \in Faults
            /\ \/ UNCHANGED lock
               \/ lock[Month(r)] = None /\ lock' = taken
            /\ HandleOSError(r)
            /\ UNCHANGED holds
      /\ UNCHANGED <<today, day, disk, sandbox, lineage>>

\* _stage_inputs and _stage_current; an input that cannot be copied or has an
\* undeclared extension raises OSError or ValueError.
Stage(r) ==
  /\ pc[r] = "stage"
  /\ \/ /\ IF Stateful
           THEN /\ parent' = [parent EXCEPT ![r] = current[Month(r)]]
                /\ mem' = [mem EXCEPT ![r].state = "staged"]
           ELSE UNCHANGED <<parent, mem>>
        /\ Goto(r, "command")
     \/ HandleOSError(r) /\ UNCHANGED parent
  /\ UNCHANGED <<today, day, disk, holds, content, stamp, lock, lineage>>

\* Mutant: command builds the arguments without validating again.
StillTodayUnchecked(r) == TRUE

\* adapter.command validates the request again, and the directory of daily
\* files; then the run is running.
StillToday(r) == day[r] = today

Command(r) ==
  /\ pc[r] = "command"
  /\ \/ Handle(r, "blocked", "validation_error") /\ UNCHANGED disk
     \/ /\ StillToday(r)
        /\ \E returns \in BOOLEAN :
             /\ WriteMetadata(r, [mem[r] EXCEPT !.status = "running"], returns)
             /\ IF returns
                THEN /\ mem' = [mem EXCEPT ![r].status = "running"]
                     /\ Goto(r, "legacy")
                ELSE HandleOSError(r)
  /\ UNCHANGED <<today, day, holds, sandbox, lock, lineage>>

\* runner.run and _record_process.  The legacy job stamps the system date in
\* the names of its outputs and leaves the state file as it found it, or with
\* new contents.  Storing the evidence of the process may raise OSError.
Legacy(r) ==
  /\ pc[r] = "legacy"
  /\ \/ Conclude(r, "failed", "spawn_failed") /\ UNCHANGED <<stamp, content>>
     \/ /\ stamp' = [stamp EXCEPT ![r] = today]
        /\ \/ /\ \/ Conclude(r, "timed_out", "timeout")
                 \/ Conclude(r, "failed", "nonzero_exit")
                 \/ HandleOSError(r)
              /\ UNCHANGED content
           \/ /\ IF Stateful
                 THEN \E version \in {r, ContentOf(parent[r])} :
                        content' = [content EXCEPT ![r] = version]
                 ELSE UNCHANGED content
              /\ Goto(r, "outputs")
              /\ UNCHANGED mem
  /\ UNCHANGED <<today, day, disk, holds, parent, lock, lineage>>

\* The inventory and adapter.outputs: every declared output exists once, is
\* new and carries the date of the check; the inventory may raise OSError.
Outputs(r) ==
  /\ pc[r] = "outputs"
  /\ \/ Handle(r, "failed", "postcondition_failed")
     \/ HandleOSError(r)
     \/ /\ stamp[r] = today
        /\ IF Stateful
           THEN /\ mem' = [mem EXCEPT ![r].passed = TRUE]
                /\ Goto(r, "promote")
           ELSE /\ mem' = [mem EXCEPT ![r] = [@ EXCEPT !.passed = TRUE,
                                                    !.status = "succeeded"]]
                /\ Goto(r, "finish")
  /\ UNCHANGED <<today, day, disk, holds, sandbox, lock, lineage>>

\* Mutants: promote trusts the preflight of the service; it compares nothing.
StoreBlockerSkipped(r) == "none"
UnchangedNever(r) == FALSE

\* StateStore.promote up to the first write.
StoreBlocker(r) == Blocker(r)
Unchanged(r) ==
  /\ RequireChange
  /\ current[Month(r)] # None
  /\ content[r] = ContentOf(current[Month(r)])

Promote(r) ==
  /\ pc[r] = "promote"
  /\ IF StoreBlocker(r) # "none" THEN Handle(r, "blocked", StoreBlocker(r))
     ELSE IF Unchanged(r) THEN Handle(r, "failed", "state_unchanged")
     ELSE Goto(r, "snapshot") /\ UNCHANGED mem
  /\ UNCHANGED <<today, day, disk, holds, sandbox, lock, lineage>>

\* Mutant: every failure of the first copy counts as nothing published.
HandlePublishedAsFailed(r) == Handle(r, "failed", "promotion_failed")

\* except _PublishedError: the snapshot is in place, its durability unknown.
HandlePublished(r) == Goto(r, "evidence") /\ UNCHANGED mem

\* _durable_copy(staged_state, snapshot): it fails before os.replace (a missing
\* staged file always does), or after it with the snapshot in place.
PublishSnapshot(r) ==
  /\ pc[r] = "snapshot"
  /\ \/ /\ content[r] = None \/ "snapshot" \in Faults
        /\ Handle(r, "failed", "promotion_failed")
        /\ UNCHANGED snapshot
     \/ /\ content[r] # None
        /\ snapshot' = [snapshot EXCEPT ![day[r]] = r]
        /\ \/ Goto(r, "current") /\ UNCHANGED mem
           \/ "snapshot" \in Faults /\ HandlePublished(r)
  /\ UNCHANGED <<today, day, disk, holds, sandbox, lock, current, marker>>

\* _durable_copy(staged_state, current) and the return to the service; either
\* failure, before or after os.replace, goes to _persist_recovery.
PublishCurrent(r) ==
  /\ pc[r] = "current"
  /\ \/ /\ current' = [current EXCEPT ![Month(r)] = r]
        /\ mem' = [mem EXCEPT ![r] = [@ EXCEPT !.state = "promoted",
                                              !.status = "succeeded"]]
        /\ Goto(r, "finish")
     \/ /\ "current" \in Faults
        /\ current' \in {current, [current EXCEPT ![Month(r)] = r]}
        /\ Goto(r, "evidence")
        /\ UNCHANGED mem
  /\ UNCHANGED <<today, day, disk, holds, sandbox, lock, snapshot, marker>>

\* Mutant: the marker is left in the sandbox of the run, not in the lineage.
MarkedElsewhere(r) == marker

\* _persist_recovery: recovery.json or, failing that, a file in
\* recovery_required/.  When both fail the marker may be visible or not.
Marked(r) == [marker EXCEPT ![Month(r)] = TRUE]

PersistRecovery(r) ==
  /\ pc[r] = "evidence"
  /\ \/ /\ marker' = Marked(r)
        /\ mem' = [mem EXCEPT ![r] = [@ EXCEPT !.state = "recovery_required",
                      !.status = "blocked", !.code = "recovery_required"]]
        /\ Goto(r, "handler")
     \/ /\ "evidence" \in Faults
        /\ marker' \in {marker, Marked(r)}
        /\ Handle(r, "failed", "recovery_evidence_failed")
  /\ UNCHANGED <<today, day, disk, holds, sandbox, lock, snapshot, current>>

\* _finish, called from the body: its OSError is caught by the last except.
FinishBody(r) ==
  /\ pc[r] = "finish"
  /\ \E returns \in BOOLEAN :
       /\ WriteMetadata(r, mem[r], returns)
       /\ IF returns THEN Goto(r, "release") /\ UNCHANGED mem
          ELSE HandleOSError(r)
  /\ UNCHANGED <<today, day, holds, sandbox, lock, lineage>>

\* _finish, called from an except clause: its OSError leaves execute.
FinishHandler(r) ==
  /\ pc[r] = "handler"
  /\ \E returns \in BOOLEAN : WriteMetadata(r, mem[r], returns)
  /\ Goto(r, "release")
  /\ UNCHANGED <<today, day, mem, holds, sandbox, lock, lineage>>

\* Mutants: the finally clause does not look at lock; it keeps the lock of a run
\* that did not succeed.
MustReleaseAlways(r) == TRUE
MustReleaseOnSuccess(r) == holds[r] /\ mem[r].status = "succeeded"

\* The finally clause.  release_lock returns False without raising when it
\* cannot rename .lock away, and execute ignores what it returns.
MustRelease(r) == holds[r]

Release(r) ==
  /\ pc[r] = "release"
  /\ \/ MustRelease(r) /\ lock' = [lock EXCEPT ![Month(r)] = None]
     \/ /\ ~MustRelease(r) \/ "release" \in Faults
        /\ UNCHANGED lock
  /\ holds' = [holds EXCEPT ![r] = FALSE]
  /\ Goto(r, "done")
  /\ UNCHANGED <<today, day, mem, disk, sandbox, lineage>>

-----------------------------------------------------------------------------
(* The environment. *)

\* The process that executes the run dies; nothing on disk moves.
Crash(r) ==
  /\ "crash" \in Faults
  /\ Active(r)
  /\ Goto(r, "crashed")
  /\ holds' = [holds EXCEPT ![r] = FALSE]
  /\ UNCHANGED <<today, day, mem, disk, sandbox, lock, lineage>>

\* Midnight.
NextDay ==
  /\ today < LastDay
  /\ today' = today + 1
  /\ UNCHANGED <<day, pc, mem, disk, holds, sandbox, lock, lineage>>

Published(m) == {d \in Days : MonthOf[d] = m /\ snapshot[d] # None}

\* The latest snapshot of the month before day d, None if there is none.
LatestBefore(m, d) ==
  LET earlier == {e \in Published(m) : e < d}
  IN  IF earlier = {} THEN None
      ELSE snapshot[CHOOSE e \in earlier : \A f \in earlier : f <= e]
Latest(m) == LatestBefore(m, LastDay + 1)

\* By hand: remove a .lock that no live run holds.
UnlockStale(m) ==
  /\ "unlock" \in Operator
  /\ lock[m] # None
  /\ ~holds[lock[m]]
  /\ lock' = [lock EXCEPT ![m] = None]
  /\ UNCHANGED <<today, day, pc, mem, disk, holds, sandbox, lineage>>

\* By hand: bring current up to the latest snapshot and remove the marker.
RepairLineage(m) ==
  /\ "repair" \in Operator
  /\ marker[m] /\ lock[m] = None
  /\ current' = [current EXCEPT ![m] = Latest(m)]
  /\ marker' = [marker EXCEPT ![m] = FALSE]
  /\ UNCHANGED <<today, day, pc, mem, disk, holds, sandbox, lock, snapshot>>

-----------------------------------------------------------------------------
Continue(r) ==
  \/ Validate(r) \/ Preflight(r) \/ Acquire(r) \/ Stage(r) \/ Command(r)
  \/ Legacy(r) \/ Outputs(r) \/ Promote(r) \/ PublishSnapshot(r)
  \/ PublishCurrent(r) \/ PersistRecovery(r) \/ FinishBody(r)
  \/ FinishHandler(r) \/ Release(r)

Next ==
  \/ \E r \in Runs : Start(r) \/ Continue(r) \/ Crash(r)
  \/ NextDay
  \/ \E m \in Months : UnlockStale(m) \/ RepairLineage(m)

Spec == Init /\ [][Next]_vars

\* A started run keeps being scheduled: its steps are those of a running thread
\* and Runner bounds the legacy job by the timeout and a kill.
Fairness == \A r \in Runs : WF_vars(Continue(r))
FairSpec == Spec /\ Fairness

-----------------------------------------------------------------------------
(* Properties. *)

TypeOK ==
  /\ today \in Days
  /\ day \in [Runs -> Days]
  /\ pc \in [Runs -> Steps]
  /\ mem \in [Runs -> Document]
  /\ disk \in [Runs -> Document]
  /\ holds \in [Runs -> BOOLEAN]
  /\ parent \in [Runs -> Runs \cup {None}]
  /\ content \in [Runs -> Runs \cup {None}]
  /\ stamp \in [Runs -> Days \cup {0}]
  /\ lock \in [Months -> Runs \cup {None}]
  /\ snapshot \in [Days -> Runs \cup {None}]
  /\ current \in [Months -> Runs \cup {None}]
  /\ marker \in [Months -> BOOLEAN]

\* Two runs of the same ETL and month never overlap between the acquisition
\* of the lock and its release (README.md:261, docs/ARQUITECTURA.md:259),
\* although a blocked run goes through the same finally clause as its owner.
MutualExclusion ==
  \A r, s \in Runs : holds[r] /\ holds[s] /\ r # s => Month(r) # Month(s)

\* A snapshot is immutable: once a day has one, no step replaces it.  The
\* preflight runs before the lock is taken, so only the second check inside
\* promote keeps a run that waited for the lock from overwriting it.
SnapshotsImmutable ==
  [][\A d \in Days : snapshot[d] # None => snapshot'[d] = snapshot[d]]_vars

\* The days of a month are promoted in order: a run that took the lock after
\* midnight is stopped by the second validation and never publishes behind a
\* later day.
DaysInOrder ==
  [][\A d \in Days : snapshot'[d] # snapshot[d] =>
        \A e \in Published(MonthOf[d]) : e < d]_vars

\* No update is lost: the state every snapshot was computed from is the snapshot
\* of the previous day that has one, and with requires_state_change it differs from
\* it, as the lock keeps current, which promote compares with, at that snapshot.
LineageChain ==
  \A d \in Days : snapshot[d] # None =>
    LET previous == LatestBefore(MonthOf[d], d) IN
    /\ parent[snapshot[d]] = previous
    /\ RequireChange /\ previous # None => content[snapshot[d]] # content[previous]

\* Whenever the next run could start from it, the current file of the month
\* is its latest snapshot.
CurrentIsLatest ==
  \A m \in Months : lock[m] = None /\ ~marker[m] => current[m] = Latest(m)

\* A run reported as succeeded is the one that published the snapshot of its
\* day; so a day has at most one successful run.
SuccessIsPublished ==
  \A r \in Runs : Stateful /\ disk[r].status = "succeeded" =>
     snapshot[day[r]] = r /\ disk[r].state = "promoted"

\* promotion_failed means that nothing was published (docs/ARQUITECTURA.md:112).
PromotionFailedPublishedNothing ==
  \A r \in Runs : disk[r].code = "promotion_failed" => snapshot[day[r]] # r

\* Every attempted run ends with a run.json that records how it ended
\* (openspec/specs/naranjax-ma-chat-daily/spec.md:26).
EveryAttemptIsRecorded ==
  \A r \in Runs : pc[r] # "idle" ~> disk[r].status \in TerminalStatuses

\* A lock that was taken is eventually released.
LocksAreReleased ==
  \A m \in Months : lock[m] # None ~> lock[m] = None

-----------------------------------------------------------------------------
(***************************************************************************)
(* The refinement of StateLineage.  Between the publication of the         *)
(* snapshot and the outcome of the promotion nobody else may look at the   *)
(* month, so the mapping hides what the promoting run has written; the     *)
(* promotion takes effect when current is replaced or the marker appears.  *)
(***************************************************************************)
InFlight(r) ==
  /\ r # None
  /\ snapshot[day[r]] = r
  /\ pc[r] \in {"current", "evidence", "crashed"} /\ mem[r].state = "staged"
Visible(r) == IF InFlight(r) THEN None ELSE r

VisibleChain == [d \in Days |-> Visible(snapshot[d])]
VisibleBases ==
  [r \in Runs |-> IF VisibleChain[day[r]] = r THEN parent[r] ELSE None]
VisibleCurrent ==
  [m \in Months |-> IF InFlight(current[m]) THEN parent[current[m]]
                                           ELSE current[m]]

Lineage == INSTANCE StateLineage WITH
  Versions <- Runs, chain <- VisibleChain, based <- VisibleBases,
  cur <- VisibleCurrent, sealed <- marker

\* The stores behave as one chain of versions per month, whatever the
\* interleaving of the runs, as long as a recovery marker can be written and
\* nobody breaks a lock.
ImplementsLineage == Lineage!Spec

(***************************************************************************)
(* The refinement of MonthLock, which RunLock implements too: acquiring    *)
(* and releasing a lock in one step each is what the directories allow.    *)
(***************************************************************************)
Phase(r) == IF pc[r] \in {"idle", "validate", "preflight", "acquire"} THEN "before"
            ELSE IF holds[r] THEN "using" ELSE "after"

LockOf(m) == INSTANCE MonthLock WITH
  Procs <- Runs, owner <- lock[m],
  phase <- [r \in Runs |-> IF Month(r) = m THEN Phase(r) ELSE "before"]

\* The lock of every month is a MonthLock, whatever fails: LockOf(m)!Spec for
\* every m, with the quantifier under the temporal operator.
ImplementsMonthLocks ==
  /\ \A m \in Months : LockOf(m)!Init
  /\ [][\A m \in Months : [LockOf(m)!Next]_(LockOf(m)!lockVars)]_vars

=============================================================================
