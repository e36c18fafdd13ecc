# ETL Unificador: TLA+ models and proofs

The repository runs the daily ETL jobs of several clients. A *run* executes one
legacy job in a subprocess, inside a sandbox of its own, and, for the ETLs that
keep state, promotes the monthly state file that the job left there. Runs are
started by a command line and by the console API, in processes that share
nothing but the file system under `var/`.

This directory models three layers of it, checks them with TLC on small instances
and proves the main safety properties with TLAPS for every instance:

- *the platform*: what several runs, the console and the operator do to each other
  through the files and the index;
- *the machinery of one run*: the child process and its pipes, and each file call of a
  promotion on a disk that may lose power;
- *the jobs*: what the legacy scripts of each client deliver, as tables that go through
  the steps of a script, with midnight or a cancellation between two of them.

## 1. Inventory

| Component | State | Operations | Interacts with |
|---|---|---|---|
| Run service, `orchestrator/service.py` | the in-memory document of a run, its lock handle | `execute` | all the stores, the adapter, the runner |
| Run store, `orchestrator/run_store.py` | `var/runs/<etl>/<run>/run.json`; `var/state/<etl>/<month>/.lock` | `create_run`, `write_metadata`, `acquire_lock`, `release_lock` | other processes, through the files |
| State store, `orchestrator/state_store.py` | `estado_YYYYMMDD.csv` per day, `estado_YYYYMM.csv` per month, `recovery.json` / `recovery_required/` | `promote` | as above; the service reads the same files without it |
| Adapters, `etl_core/contracts.py`, `etls/naranjax/*.py` | none; the clock | `validate`, `command`, `outputs` | the service |
| Runner, `orchestrator/runner.py` | the child, its two pipes, two threads | `run` | the service |
| File manager, logs, redaction | the sandbox of one run | `copy_input`, `inventory`, `persist_logs` | the service |
| Catalog, `orchestrator/catalog.py` | none | `load_workspace` | CLI, API |
| Command line, `orchestrator/run.py` | none | one run | the service |
| Console API, `platform_api/main.py` | a pool of two threads, upload directories | `post_run`, `free_lock`, `notify_dev`, queries | the service in its threads; the lock and `run.json` of other processes |
| Index, orphans, retention, `platform_api/hardening.py` | SQLite rows | `upsert`, `query`, `ran_today`, `recover_orphans`, `purge_expired` | the API; `run.json` of other processes |
| MCP server, frontend, scripts | none | requests to the API | the API |
| Monthly state of Naranja X, `etls/naranjax/legacy/{ma,chat}` | the state of the month and a snapshot per day | `procesar_dia`, `update_estado`, `guardar_estado` | the state store promotes what it leaves |
| Jobs of the clients, `etls/{bancor,epec,petersen,fravega,clarouy,encuestacx,sociallearning}`, `naranjax/legacy/mt` | the files of a working folder, named with the date of the clock | one script per job: read, consolidate, normalise, deduplicate, export; enrich with the calls of Retell, correct with ROMAN, typify | a subprocess of the runner, or a desktop program |

What is hard here: nothing but the file system synchronises the processes; every
file call may fail before or after its effect; a process may die, or the machine lose
power, between two calls; the clock passes midnight, and the month ends, inside a run;
the operator and the console act on the same files; and the jobs group, join and
deduplicate tables in which clients, phones and calls are repeated or missing.
`PROJECT.json` lists these hazards with the line where each one bites.

What makes each component correct:

- *Lock*: two runs of the same ETL and month are kept apart; whoever holds the
  lock finds its own token in it; it is given back.
- *State store*: a snapshot is never replaced; each snapshot is computed from the
  previous one of its month; `current` is the latest snapshot unless a marker or a
  lock keeps everybody away; none of this is undone by losing power.
- *Service*: every attempt ends in a terminal `run.json` that says what happened to
  the state; whatever path is taken, the lock is released.
- *Console*: it removes orphan locks only; the index agrees with `run.json` in the
  end; no success is announced that did not happen; an accepted run is executed or leaves
  a trace.
- *Runner*: it returns with the whole output and with the child gone.
- *Monthly state*: merges multiply nobody, a day is applied once, who left stays out.
- *Jobs*: nobody is lost between the input and the deliveries; the files of a delivery
  fit together; a management is never contradicted by another one of the same delivery;
  a call of the export reaches the result.

## 2. Modules

    StateLineage  <--implements--  RunService  --implements-->  MonthLock
                                       |                            ^
                       MCRunService, RunService_proofs              | implements
                                                                    |
                                    MCRunLock, RunLock_proofs -- RunLock

    Console -- MCConsole, Console_proofs       Runner -- MCRunner, Runner_proofs
    Durability -- MCDurability, Durability_proofs

    Tables <-- MonthlyState -- MCMonthlyState, MonthlyState_proofs
           <-- Bancor <-- BancorWfm      \
           <-- Epec, Petersen, Fravega,   >-- Jobs -- MCJobs, Jobs_proofs
               NaranjaMt, Surveys        /
               BancorResults            /
           <-- Tables_proofs, the lemmas of MonthlyState_proofs and Jobs_proofs

### The platform

**`StateLineage`** is the promise of the state store: per month a chain of
versions, each computed from the one before; a promotion that fails half way seals
the month until it is repaired.

**`MonthLock`** is the promise of the lock: one run uses the month at a time; a run
that dies or fails may leave the lock taken; only somebody who knows that the
owner is over breaks it.

**`RunService`** is `RunService.execute`, one action per step, for any number of runs
of one ETL. Variables and code:

| Variable | Code |
|---|---|
| `mem[r]` | the local `document`: `status`, `error.code`, `postconditions.outputs = "passed"`, `state.status` |
| `disk[r]` | `run.json` |
| `holds[r]` | the local `lock` is not `None` |
| `lock[m]` | `.lock` of the month: who created it |
| `snapshot[d]`, `current[m]`, `marker[m]` | the three kinds of files of the lineage; a file is named after the run that wrote it |
| `parent[r]`, `content[r]` | the state file the run staged; the version the legacy job left in the sandbox (its own, or the contents it found) |
| `stamp[r]` | the day on which the legacy job dated its outputs |
| `day[r]`, `today` | `request.business_date`; the host date |

An action is named after what it does: `Start` (`create_run`, first `run.json`),
`Validate`, `Preflight`, `Acquire`, `Stage`, `Command` (second validation and the
`running` record), `Legacy` (subprocess and its evidence), `Outputs`, `Promote` (the
store's preflight and comparison), `PublishSnapshot`, `PublishCurrent`,
`PersistRecovery`, `FinishBody` and `FinishHandler` (`_finish` called from the body
and from an `except` clause: the former's `OSError` is caught by the last `except`,
the latter's leaves `execute`), `Release` (the `finally`). The environment: `Crash`,
`NextDay`, `UnlockStale` (a `.lock` whose run no longer holds it is removed by hand)
and `RepairLineage` (`current` is brought to the latest snapshot and the marker
removed, with nobody holding the lock). What the operator does is not code: it is
the assumption under which the properties hold.

Failures are inputs. `Faults` names the calls that may raise `OSError` where it
matters: `metadata`, `lock`, `release`, `snapshot`, `current`, `evidence`, and
`crash`. Each fails before its effect or after it. Failures that leave no shared file behind
(staging, legacy, evidence of the process, inventory, outputs) are always possible.

**`RunLock`** opens `acquire_lock` and `release_lock` up into their file system calls
and adds the `free_lock` action of the console in its three steps, the restart of
the API (`recover_orphans`) and the manual removal of a lock. Every call resolves
the path `.lock` again, so the model keeps which directory is there. `Moves` names
what an instance admits.

**`Console`** is the API around the runs: `PostRun` (the reservation and the answer
*preparing*), the queue and the pool (`StartJob`, `Execute`, `Finish`, `Raise`,
`JobUpsert`), the queries (`QueryBegin`, `QueryRead`, `QueryWrite`: the live rows are
collected, each `run.json` is read outside the mutex, each row written under it), and the
start of the API (`Restart`, `RecoverRead`, `RecoverWrite`, `Purge`, `RefreshFull`, in the
order of `create_app`). `Die` kills the process with its threads and its queue; runs of the
command line (`StartCli`, `CliDies`) go on beside it. `document[r]` is the status in
`run.json`, `row[r]` that of the SQLite row, `todo[q]` and `upsert[q]` the locals of a query,
`scan` and `orphan` those of `recover_orphans`. Of a run only its `run.json` is kept:
`RunService` models how it comes to each status.

**`Runner`** is `Runner.run` with its child: `main` is the line the caller is at (wait,
terminate, grace period, kill, reap, join), `drain[s]` the thread of each pipe, `pipe[s]`
and `captured[s]` count chunks, `heirs` are the pipes a descendant of the child holds open.
A child may write, fork, end, ignore SIGTERM and hang.

**`Durability`** takes the publications of a promotion apart: `WriteTemporary`,
`FsyncFile`, `Replace` and `FsyncDirectory` of the snapshot, `current`, the markers and
`run.json`, in the order of `promote` and `write_metadata`. `possible[f]` is what the disk
may hold of a file if power is lost now. The directories of the month and of the run are made by
`mkdir`, and nobody fsyncs those above them: `entered` says which of the two are known to be on the
disk, and one that is not may be lost with all its files. A run may be the first of its month
(no `current`, the directory made by it) or a later one (the system may have written the entry since).
`RunService` takes each of these publications as one step. The disk is that of POSIX: on Windows
`_fsync_directory` of the run store does nothing. The removal of the temporary file in the `finally`
of `_durable_copy` and `_durable_json` does not fail in the model; an `OSError` there would hide that
the file was already in place.

### The jobs

A table is a sequence of records with the columns the properties tell apart. Phones are
records (how the number is written: prefix, mobile 15; and the number), dates are day
numbers, texts are model values: what is kept of a conversion is what it does to them.

**`Tables`** holds the operations of pandas the jobs share: masks, `drop_duplicates` and
`groupby` in both orders.

**`MonthlyState`** is one month of Naranja X: `procesar_dia` as `Start`, `Load`
(`inicializar_estado`), `Update` (`update_estado` and the exports), `SaveVigente` and
`SaveSnapshot` (`guardar_estado`), with `Die` between any two and repeated runs of a day.
`chat` chooses between the code of `legacy/ma` and that of `legacy/chat`.

**`Bancor`**, **`BancorWfm`**, **`BancorResults`**, **`Epec`**, **`Petersen`**, **`Fravega`**,
**`NaranjaMt`** and **`Surveys`** hold the functions of the scripts under the names they have
there, one operator per function. Where the repository keeps copies of a function that
differ, each copy that runs is translated by itself: the three base generators of EPEC, the
two ways to the CRM load of Bancor.

**`Jobs`** composes them: an action per step of a script. `carpeta` holds the working folder,
each file with the date in its name; `salida` what the script copied to `output/`; `codigo`
its end. `Medianoche` may come between any two steps, and `Cancela` in the desktop pipeline
of Bancor. A step that looks for a file by name looks for the date it is on.

Definitions named *Mutant* in a comment are plausible mistakes; no specification
uses them. They are there to show that the properties notice such mistakes.

## 3. Runs

| Run | Question | Instance |
|---|---|---|
| `Midnight` | Are snapshots immutable, days promoted in order, is *succeeded* true, is every month's lock a `MonthLock`? | 2 runs, 3 days, 2 months, every failure and intervention, an ETL that accepts an unchanged state |
| `Lineage` | Is no update lost? Is `promotion_failed` true? Do the files implement `StateLineage`? | 3 runs, 3 days, failures of the two copies, crashes, repairs; 2.7 million states |
| `Progress` | Is every attempt recorded and every lock released? | 2 runs, 2 days, store failures, fairness |
| `LockProtocol` | Do the directories exclude and implement `MonthLock`? | 3 runs, disk failures, crashes, API restarts |
| `LockConsole` | Does `free_lock` spare the holders? | 3 runs, every move |
| `Console` | Does the listing end up telling the truth, and is an accepted run accounted for? | 1 posted run, 1 of the command line, 2 queries, 2 deaths of the API, 1 midnight, fairness; 175 thousand states |
| `Runner` | Does `run` return, with the whole output and no child? | 2 pipes of one chunk, 3 chunks each, read errors, a descendant, fairness; 26 thousand states |
| `Durability` | What is on the disk after a power loss? | the first run of a month and a later one; every call may fail, power may be lost between any two; 1890 states |
| `MonthlyState` | Do merges multiply, are days repeated, does anybody come back? | a base of 3 products, 2 days, daily files of up to 2 rows (one of them without a product), repeated and killed runs, MA and chat; 1.7 million states |
| `Jobs` | Does every job deliver what it took? | every job over all small files of its representative rows, started on a Friday or Saturday, up to 2 midnights; 990 thousand states |

The abstract specifications have no run of their own: what they promise is proved.

Bounds. Three runs are the smallest number in which one holds a lock, one waits
for it with a stale preflight, and one comes later; `Midnight` needs only two, one on
each side of midnight. Two days show a run that passes midnight; three give a chain of
two links and a repair between them, or the end of a month. A run is
executed once, as in the code. `LastDay` only stops the clock. Run identifiers are
symmetric, and symmetry is used for safety only. `CHECK_DEADLOCK FALSE`: all runs end.

`Console` needs two queries, one that read a live `run.json` and one that writes the end of
the run before the first has written; two deaths of the API, one that orphans a run and one that
purges it; one worker, so that a run may wait. A pipe of one chunk fills at once. In
`MonthlyState` two rows of a daily file are enough for two plans of a product and for
two payments, and two days for a day that is repeated after another. In `Jobs` the rows of each
client are chosen one per branch of the code (`With` in `MCJobs` varies a default row by the
fields that decide), and a file holds two or three of them: every group-by, join and
deduplication needs two rows of a key, and the overlap of groups of phones three.
`PrimerosDias` are around a weekend, for the working days of the promises.

Fairness. `RunService`: weak fairness of each run's next step and of nothing else:
a step is taken by a running thread, and `Runner.run` bounds the legacy job by
`timeout_seconds` and a kill. Crashes are not in the instance with fairness: a crashed run
holds its lock for ever, by design. Neither are failures of `run.json`, which may leave an
attempt without a record, nor of the lock, which may leave it taken. `Console`: threads of
the pool and of the queries are scheduled, and somebody starts the API after it died; nobody
has to post a run. `Runner`: the caller and the two threads are scheduled, a timeout
expires and SIGKILL is delivered; the child and its descendants owe nothing. `MonthlyState`,
`Durability` and `Jobs` have safety properties only.

What `Lineage` assumes: the marker can be written when it has to be, and nobody
breaks the lock of a run that crashed in the middle of a promotion. Without the former
(the failure `evidence`, reported as `recovery_evidence_failed`) or with the latter the
month continues from a `current` that lags behind its last snapshot, with no marker, and
`CurrentIsLatest` is violated. Its failures leave `metadata` out because
`PromotionFailedPublishedNothing` then fails (see below). `LockProtocol`
needs `free_lock` and manual removal left out: with them two runs can hold the lock
(`VFreeLockRace`). `RowsSettle` speaks of runs whose `run.json` is there, and
`DaysAppliedOnce` of months in which no run died between the two files of `guardar_estado`.

### Where the code and its documents disagree

Each of these runs checks one sentence of the documentation and TLC
finds a behaviour of the code that contradicts it.

| Run | Sentence | Behaviour |
|---|---|---|
| `VFreeLockRace` | the lock prevents simultaneous runs | `free_lock` removes the empty `.lock` of a run that started after its scan |
| `VLostMonth` | the promotion is durable | in the first run of a month the entry of its new directory is never synced: power loss takes snapshot, `current` and marker, and `run.json` still says *succeeded* |

What holds of them is checked by the other runs: `LockProtocol` checks the same `Exclusive` without
the console and the operator, and `SucceededIsPromoted` says that a power loss leaves both files or
nothing of the month.

### What else the models show

They have behaviours of the same kind that are not runs of their own. Of the platform:

- with the failure `metadata`, `run.json` may say `promotion_failed` of a promotion that is
  complete: its last write failed, and the handler wrote the second status;
- `acquire_lock` may fail after its `mkdir`; no handle is returned and the lock stays;
  `release_lock` renames `.lock` away before it reads the token;
- the `rmdir` of `free_lock` fails when the orphan left its token directory inside;
- `artifact_date` is a copy of `business_date`, also when the job passed midnight and dated
  its files otherwise (`stamp`);
- a half promotion ends as `blocked` although the job ran; an `OSError` in the evidence of a
  finished job is reported as `validation_error`; with the failure `metadata` an attempt may
  end without a terminal `run.json`;
- a restart of the API marks as orphaned a run of the command line that goes on, and its
  document then changes from *orphaned* to its real end (`EndsAreFinal` excepts it);
- a job that raises keeps a live `run.json` until the next restart, and one that dies in the queue
  an empty directory, which recovery and index pass over; it goes when the retention is over;
- rows of purged runs with a terminal status stay in the listing;
- `Runner.run` joins its threads without a timeout: a descendant that inherits the pipes
  keeps it waiting (`RunReturns` excepts it).

Of the jobs, where a property excepts what the code does against its own documents it is named:

- validation and export of Petersen name the bank of Entre Ríos differently: its promises that fail the
  validation are delivered, although the README of the project promises valid ones
  (`PromisesAreValidated` speaks of the other banks);
- a CUIL that Retell has with hyphens is compared as it is with the digits of the log of the dialler: its
  client is loaded with the result of the call and as not answering (`SilentClientsNeverSpoke`
  allows it in that form only);
- the complete base of Bancor groups by CUIL but drops rows by *Cliente_BT*: of two CUILs with one
  *Cliente_BT* the second is neither in the ROMAN base nor among the discarded, even without phones
  (`EveryoneIsAccountedFor` asks for the *Cliente_BT*, through `Repetidos`);
- groups of shared phones overlap in Bancor: a client who shares phones with two that come before it
  is in the base once for each;
- a column of ROMAN is applied to the calls of Fravega only if an answered call brought it: an export
  none of whose calls was answered with a typification loses the corrections (`CallsAreNotLost`
  asks for them otherwise, through `AlgunaTrae`);
- a monthly state whose last client left is rebuilt from the base, with everybody in it;
- a day whose run died between the state and its snapshot is discounted once more when it is
  repeated;
- the cancellation of the Bancor pipeline between two auxiliary files leaves a file that no
  artifact names; a job of Bancor that passes midnight before the list of phones fails, because
  the base of the new day is not there;
- the update of the EPEC report looks for a column the report does not have: it writes the
  date of the campaign and leaves the typifications as they are;
- in `skill_wfm` of EPEC and in MT a number of ten digits that happens to have a 15 where an
  area code may end loses it, and is too short to dial;
- a Petersen client written in scientific notation loses the zeros at the end of its number;
- in Claro a number that cannot be read counts as a number when repeated ones are removed:
  of all such clients one stays; a call that ROMAN repeats gets a column for its reason.

## 4. Proofs

Eight modules hold proofs, each for every value of the constants under the named assumptions of the
module it extends.

`RunService_proofs`, for every set of runs, calendar, mode (an ETL without state
included), set of faults and of interventions:

- `TypeCorrect`: `Spec => []TypeOK`.
- `MutualExclusionHolds`, `SnapshotsAreImmutable`, `DaysArePromotedInOrder`, from one
  inductive invariant, `MonthInv`:
  - `LockInv`: a run that holds a lock is the one its directory names;
  - `CriticalInv`: the steps from staging to promotion are made with the lock;
  - `PromoteInv`: between the store's preflight and the publication there is still
    no snapshot of the day;
  - `DayInv`: from the second validation to the publication no published day of the
    month lies after that of the run.

  None of the three properties is inductive alone: `PromoteInv` survives the steps of
  the other runs because of `CriticalInv` and `LockInv`, and the order of the days needs
  `PromoteInv` to rule out equality. `MonthStep` collects what one step does to the
  invariant and to the snapshots.
- `SuccessMeansPublished`, from `ReportInv`: a document is succeeded only after the
  snapshot was published, snapshots stay, and `run.json` only ever receives a document the
  run had in memory.
- `PromotionFailedIsHarmless`, while `run.json` can be written (`"metadata" \notin Faults`),
  from `FailedInv`: that code is given before the snapshot is in place, or, by the last except
  clause, after the outputs passed, where only `_finish` could still raise.
- `NoUpdateIsLost` and `CurrentIsKept`, under `Undisturbed` (a half promotion can leave its
  marker, and nobody removes a lock by hand; every other failure, crashes and repairs included,
  may happen), from `ChainInv`:
  - `OpenInv`: the current file of an open month is its latest snapshot, a month being open if it
    has no marker and its lock is not that of a run that stopped between the two replacements;
  - `LastInv`: such a run has the last snapshot of its month;
  - `BasedInv`: from the staging on, the parent of a run is `current`, and what the store checked
    before the publication is still so;
  - `KeptInv`: who has published does not compute any more, so contents and parents stay.

  The chain needs `OpenInv` for the new snapshot and `KeptInv` for the old ones; `OpenInv` needs
  `LastInv` when `current` is replaced. `ChainQuiet` disposes of the steps that touch no file.
- `StoresImplementLineage`, under `Undisturbed`: `Spec => ImplementsLineage`. Between the
  publication of a snapshot and the outcome of the promotion its run is hidden (`InFlight`); it
  keeps the lock, dead or alive (`HiddenInv`), so the next thing that happens to the month is
  `PublishCurrent` or `PersistRecovery`, which map to `Promote`. `RepairLineage` maps to `Repair`,
  every other step to a stutter (`ViewQuiet`, `PublishSnapshotView`).
- `StoresImplementMonthLocks`, without assumptions: `Spec => ImplementsMonthLocks`. Locks left by
  dead runs are abandoned, those of a failed `acquire_lock` leaked; `OwnerInv` (the owner of a lock
  is past `acquire`) makes an `UnlockStale` a `Break`.

On the abstract specification `StateLineage`, for every calendar and set of versions, at the
head of `RunService_proofs` (`Calendar` states what is asked of them):

- `LineageInvariant`: the type, `Chained` and `CurIsNewest` hold always, as one
  inductive invariant. `Chained` needs `CurIsNewest`, because a version is based on the
  current one, and `CurIsNewest` needs that an extension comes after every day of the
  month. The lemmas `BeforeSame` and `BeforeUnchanged` say on which days of the chain
  `Before` depends; `LastDayExists` that a last day exists.
- `ChainIsKept`: the version of a day is never replaced.

On the abstract specification `MonthLock`, at the head of `RunLock_proofs`: `LockIsExclusive`,
for every set of runs: whoever uses the month owns its lock (`UserOwns`), although locks are
abandoned, leaked and broken.

`RunLock_proofs`: `TypeCorrect` and `FreeLockIsHarmless` (`Spec => FreeLockSparesHolders`) hold
whatever moves; the latter from `Marked`: the directory at `.lock` still has the token of the run
that created it, and one that was renamed away does not come back. The others are under `Alone`
(neither the console nor the operator moves; disk failures, crashes and restarts do):

- `OwnPathInvariant`: whoever is between its `mkdir` and its `rename` finds at `.lock` the
  directory it created; nobody else can have put one there, because `mkdir` needs the path
  free and only the owner frees it. This is the strengthening the two others rest on.
- `DirectoriesExclude`: `Spec => []Exclusive`.
- `DirectoriesImplementMonthLock`: `Spec => ImplementsLock`, each call of the file system being
  a step of `MonthLock` or a stutter.

`Durability_proofs`, for every set of failing calls: `DurabilityInvariant` (a file is renamed
only when it was synced; a publication starts only when the ones before it are settled on the
disk), and from it `NothingIsTorn`, `SuccessSurvivesWithItsPromotion`, `TheMarkerSurvives`. The two
last speak of every power loss but one that takes the whole directory of the month (`LineageLost`),
which can only happen while its own entry is not on the disk.

`Runner_proofs`, for any streams, capacity and amount of output: `RunnerInvariant` (chunks
are conserved; a stream that ended is empty and has no writer; each place of the caller implies
what was signalled, reaped and joined), and from it `OutputIsWhole` and `NoChildIsLeft`.

`Console_proofs`, for any runs, query threads, workers, retention and number of restarts:
`ConsoleInvariant`, and from it `ListingIsTrue`, `DeadlinesAreTrue` and `EndsStayFinal`. A row
that is true is not enough for the next one to be, because an upsert writes what it read some steps
ago; so the invariant speaks of the pending upserts too:

- `Listed` and `Pending`: where a row, or a thread about to write one, says that a run is over,
  `run.json` says so with the same status, or the run is of the command line and was taken for
  an orphan;
- `Begun`: what a run leaves before it begins and while it goes on;
- `Quiet`: while the API is not up none of its threads is there, so that `recover_orphans` only
  meets live documents of dead threads and of runs of the command line;
- `QueueOK`: the queue holds waiting jobs, each once; `Dates`: a run ends on its day or later, so
  what the purge removed is not of today.

`Tables_proofs` has the lemmas about the operations of pandas, for tables of every length: which
rows a mask leaves (`RowsAtAreRows`, `KeysOfRowsAt`), that the groups of a column have every key
(`GroupsAreWhole`), that a stable sort keeps every row (`SortedRows`), what a concatenation of tables holds (`FlattenOfTables`), and that a sum over a
table is one function (`SumsIsUnique`). They need induction over sequences. The induction theorems of
the library take an operator and cannot be used; the proofs take the least counterexample instead
(`LeastNatural`: a non-empty set of naturals has a least one).

`MonthlyState_proofs`, for every base, plan file, payment file, number of days and both variants:

- `MergesNeverMultiply`, from `StateInv`: every table that holds clients counts each product at most
  as often as the base (`Within`), and so do the files waiting to be saved. A merge keeps that only
  if its right side has a key once, which is what `PivotHasOneRecordPerProduct` and
  `JoinPlanGivesOneRow` say of the two tables joined, for any daily file.
- `LeavingIsForTheMonth`, an action property: a product comes back only when the state is empty.
- `EachDayOnce`, from `DaysInv`: the days of the state and those of the run that is on its way are
  in order, unless a run died between the two files.

`Jobs_proofs`, for every input (`EntradasAssumption` says what the legacy functions have read: tables,
dates that are dates, columns that are there) and every number of midnights:

- `PromiseDatesWork`, on the function `ValidarFecha` alone: for every date and every day it yields a
  working day among the ten that start on that day. `PromisesAreWorkingDays`: so has every promise of
  the delivery of Petersen, and `OnlyValidPromises`: each validates, but for one bank (`Validada`). Its `PetersenInv` says of the files between the steps that their rows
  are managements of the bank of the file and that a promise in them is dated from the day of its step.
- `SilentClientsAreSilent`, from `PetersenInv` (who is added as not answering is in no file yet, and
  once) and `BancorResultadosInv`, which goes through the two conversions of a CUIL: the load is
  compared with the log before its CUILs are reduced to digits, so a record of the log is of a client
  who is in the load only in another form (`TheLoadKeepsApart`), and only Retell's can have another
  form, since ROMAN's are reduced when they are read (`CallsOfRoman`, `ClientsOfTheCalls`).
- `CallsSurvive`, from `LlamadasInv` (between two steps the calls are in the intermediate file:
  of EPEC in `enriched`, of Bancor in `gestiones`), with one lemma per job on its joins. For Fravega
  it also says that ROMAN's typification is in each row it has, once an answer of the service
  brought that column (`AlgunaTrae`).
- `NobodyIsLost`: whoever a job of a base takes is in its base or in the file of those it leaves aside.
  `CuentasInv` says what the files of each job are at each of its steps; one lemma per job
  (`ClientsOfBancor`, `ClientsOfEpec`, ...) says whom its functions keep. For Bancor the loop of
  `deduplicar_por_telefonos` has an invariant of its own, `DedupInv` (who is processed has a row in one of
  the two tables), which needs that a group has a best row (`BestOfAGroup`). In the ROMAN base, with a
  row per CUIL, that means each CUIL itself or another of its *Cliente_BT* (`Repetidos`), and the code
  does no more: see the end of section 3.
- `DiscountsHold`, from `CuentasInv`: the ROMAN base is what `ProcesarCompleta` makes of the input
  (`RomanBase`, `RomanFiles`), and each of its rows is the consolidation of all the free debts of one
  client (`GroupsInFull`), so its debt is the sum of the rows its discount is computed from
  (`DiscountIsBelowTheDebt`) and its summary has an entry for each.
- `TwoCopiesMakeOneBase`: both copies make `TablaDeEpec` of the file (`SameBase`), although back-base
  normalises each phone twice and again for the list, which needs that a clean phone is a fixed point of
  both copies (`CleanPhoneStays`). The two tell a repeated number in different ways, one by counting its
  places in the rows, the other in the list of all numbers; `SamePlaces` has the bijection between them.
- `DeliveriesAreWhole`, from `FechasInv` (a step that opens a file of today leaves all files with the
  date of today, and the clock moves dates away together), `WfmInv` (each number of the list of the
  dialler is that of a row of the ROMAN base, through normalisation and export) and `SuccessInv`.

Proving them corrected the models. A plan without product was joined with a row without product,
which the code does not do; `SortSeq` has no value where two rows
tie, so `sort_values` is now a stable sort; the enrichment of Fravega writes the columns
of the call over those of the row; two `CASE` of EPEC had guards that held together, where TLA+ does
not say which branch is taken.

Every invariant of a passing run is stated by a theorem. Only model-checked: liveness (`EveryAttemptIsRecorded`,
`LocksAreReleased`, `RowsSettle`, `RunsAreAccountedFor`, `RunReturns`, `PipesAreDrained`), which is
out of the provers' reach.

## 5. Not modelled

Abstracted for good: encodings, headers, file formats, logging, redaction, the wording of
messages, HTTP, windows and progress bars. Exceptions other than those the code
names propagate and do not occur in the models, except where a job ends with 1.

| Part | Why |
|---|---|
| File manager, logs, redaction | one run's own sandbox, or text; their failures are outcomes of `RunService` |
| Catalog, command line arguments | validation of manifests, sequential and without state |
| How adapters classify output files; the checks of the other adapters | names and counts of files; `RunService` takes the outcomes of `outputs` as inputs |
| Authentication, uploads and downloads of the console; MCP server; frontend | requests without state of their own |
| Manifest comparison | a one-off script over two files |
| Exports of Naranja X for the dialler, its reports, the desktop application of MT | layouts over the tables the models have |
| `base_wfm_generator` and the coupons of Bancor | no job of the platform runs them; the former is an older copy of `BancorWfm` |
| Social Learning of Argentina | the code of Chile with other names of columns |
| Recodings of a dialler row and the menu of EPEC | tables of constants, user interface |

Next: the inventories and `_classify` of the adapters against a declarative reference.
