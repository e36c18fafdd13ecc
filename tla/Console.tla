------------------------------ MODULE Console ------------------------------
(***************************************************************************)
(* The console API around the runs: post_run and its pool of threads, the  *)
(* SQLite index that answers the listing and the schedule, and the start   *)
(* of the API, which marks orphans, purges old runs and rebuilds the       *)
(* index.  Runs of the command line go on beside it in processes of their  *)
(* own.  The API process may die and start again; run.json and the rows    *)
(* survive it, the queue and the threads do not.                           *)
(*                                                                         *)
(* Of a run, only its run.json is kept: RunService models how it comes to  *)
(* each status.  Reads and writes of run.json and of the index are         *)
(* separate steps, because other threads and processes run in between.     *)
(***************************************************************************)
EXTENDS Naturals, Sequences, FiniteSets

CONSTANTS
  ConsoleRuns,  \* runs posted to the API
  CliRuns,      \* runs of the command line
  Queries,      \* threads that serve GET /api/runs
  Unwritable,   \* the runs whose run.json may fail to be written
  None,
  Workers,      \* ETL_MAX_CONCURRENT_RUNS
  Retention,    \* ETL_RETENTION_DAYS
  LastDay,      \* bound: the clock stops here
  Restarts      \* bound: how often the API dies

Runs == ConsoleRuns \cup CliRuns

ASSUME RunAssumption ==
  /\ ConsoleRuns \cap CliRuns = {} /\ Runs \cap Queries = {}
  /\ None \notin Runs \cup Queries /\ Unwritable \subseteq Runs
ASSUME BoundAssumption ==
  /\ Workers \in Nat \ {0} /\ Retention \in Nat \ {0}
  /\ LastDay \in Nat \ {0} /\ Restarts \in Nat

VARIABLES
  today,
  api,        \* the phase of the API process
  restarts,   \* how often it has died
  queue,      \* jobs submitted to the pool and not started
  pc,         \* where each run is
  day,        \* the business date it was accepted for
  document,   \* the status in its run.json
  ended,      \* the day its directory was last modified, once it is over
  row,        \* the status in its row of the index
  todo,       \* the rows each query has still to refresh
  upsert,     \* an upsert between its read and its write
  scan,       \* the directories recover_orphans has still to visit
  orphan      \* the run it has read as live

store == <<document, ended>>
index == <<row, todo, upsert>>
startup == <<scan, orphan>>
vars == <<today, api, restarts, queue, pc, day, store, index, startup>>

Live == {"preparing", "running"}
\* "failed" stands for timed out and blocked too.
Terminal == {"succeeded", "failed", "orphaned"}
Status == {"absent"} \cup Live \cup Terminal
Phases == {"recover", "refresh", "up", "down"}
Steps == {"idle", "queued", "preparing", "running", "upsert", "done", "dead"}

Init ==
  /\ today = 1
  /\ api = "down"
  /\ restarts = 0
  /\ queue = <<>>
  /\ pc = [r \in Runs |-> "idle"]
  /\ day = [r \in Runs |-> 0]
  /\ document = [r \in Runs |-> "absent"]
  /\ ended = [r \in Runs |-> 0]
  /\ row = [r \in Runs |-> "absent"]
  /\ todo = [q \in Queries |-> {}]
  /\ upsert = [a \in Queries |-> None]
  /\ scan = {}
  /\ orphan = None

Goto(r, step) == pc' = [pc EXCEPT ![r] = step]

\* write_metadata replaces run.json and with it the time of the directory, which
\* matters once the run is over.
Write(r, status) ==
  /\ document' = [document EXCEPT ![r] = status]
  /\ ended' = [ended EXCEPT ![r] = IF status \in Terminal THEN today ELSE 0]

-----------------------------------------------------------------------------
(* post_run and the pool. *)

\* The date is today's; the directory is reserved and the job submitted.
PostRun(r) ==
  /\ api = "up" /\ r \in ConsoleRuns /\ pc[r] = "idle"
  /\ day' = [day EXCEPT ![r] = today]
  /\ queue' = Append(queue, r)
  /\ Goto(r, "queued")
  /\ UNCHANGED <<today, api, restarts, store, index, startup>>

\* A thread is busy until the job's finally clause is over.
Busy == {r \in ConsoleRuns : pc[r] \in {"preparing", "running", "upsert"}}

\* execute is over for r: the job of a console run has its upsert to do.
AfterExecute(r) == IF r \in ConsoleRuns THEN "upsert" ELSE "done"

\* The first run.json; when it cannot be written execute raises.
Begin(r) ==
  \/ Write(r, "preparing") /\ Goto(r, "preparing")
  \/ r \in Unwritable /\ Goto(r, AfterExecute(r)) /\ UNCHANGED store

StartJob(r) ==
  /\ api = "up" /\ queue # <<>> /\ r = Head(queue)
  /\ Cardinality(Busy) < Workers
  /\ queue' = Tail(queue)
  /\ Begin(r)
  /\ UNCHANGED <<today, api, restarts, day, index, startup>>

StartCli(r) ==
  /\ r \in CliRuns /\ pc[r] = "idle"
  /\ day' = [day EXCEPT ![r] = today]
  /\ Begin(r)
  /\ UNCHANGED <<today, api, restarts, queue, index, startup>>

\* Both validations compare the business date with the clock.
Execute(r) ==
  /\ pc[r] = "preparing"
  /\ \/ /\ day[r] = today
        /\ Write(r, "running") /\ Goto(r, "running")
     \/ Write(r, "failed") /\ Goto(r, AfterExecute(r))
  /\ UNCHANGED <<today, api, restarts, queue, day, index, startup>>

Finish(r) ==
  /\ pc[r] = "running"
  /\ \E status \in {"succeeded", "failed"} : Write(r, status)
  /\ Goto(r, AfterExecute(r))
  /\ UNCHANGED <<today, api, restarts, queue, day, index, startup>>

\* A write of run.json fails inside an except clause and execute raises.
Raise(r) ==
  /\ r \in Unwritable /\ pc[r] \in {"preparing", "running"}
  /\ Goto(r, AfterExecute(r))
  /\ UNCHANGED <<today, api, restarts, queue, day, store, index, startup>>

-----------------------------------------------------------------------------
(* RunIndex. *)

\* upsert reads run.json before it takes the mutex ...
UpsertRead(a, r) ==
  upsert' = [upsert EXCEPT ![a] = [run |-> r, status |-> document[r]]]

\* Mutant: a row is never replaced by one of another status.
RowAfterFirst(a) ==
  [row EXCEPT ![upsert[a].run] = IF @ = "absent" THEN upsert[a].status ELSE @]
\* ... and replaces the row under it.
RowAfter(a) == [row EXCEPT ![upsert[a].run] = upsert[a].status]

UpsertWrite(a) ==
  /\ upsert[a] # None
  /\ row' = RowAfter(a)
  /\ upsert' = [upsert EXCEPT ![a] = None]
  /\ UNCHANGED todo

\* The finally clause of the job.  A run without run.json gets no row; one step
\* will do, because until it is over nobody else writes its run.json or its row.
JobUpsert(r) ==
  /\ r \in ConsoleRuns /\ pc[r] = "upsert"
  /\ IF document[r] = "absent" THEN UNCHANGED row
                               ELSE row' = [row EXCEPT ![r] = document[r]]
  /\ Goto(r, "done")
  /\ UNCHANGED <<today, api, restarts, queue, day, store, todo, upsert, startup>>

\* query starts with the rows that say a run is live ...
LiveRows == {r \in Runs : row[r] \in Live}

QueryBegin(q) ==
  /\ api = "up" /\ todo[q] = {} /\ upsert[q] = None /\ LiveRows # {}
  /\ todo' = [todo EXCEPT ![q] = LiveRows]
  /\ UNCHANGED <<today, api, restarts, queue, pc, day, store, row, upsert, startup>>

\* Mutant: run.json is read without looking whether it is still there.
QueryReadUnchecked(q, r) ==
  /\ upsert[q] = None /\ r \in todo[q]
  /\ todo' = [todo EXCEPT ![q] = @ \ {r}]
  /\ UpsertRead(q, r)
  /\ UNCHANGED <<today, api, restarts, queue, pc, day, store, row, startup>>

\* ... reads each again, or deletes the row when run.json is gone.
QueryRead(q, r) ==
  /\ upsert[q] = None /\ r \in todo[q]
  /\ todo' = [todo EXCEPT ![q] = @ \ {r}]
  /\ IF document[r] = "absent"
     THEN row' = [row EXCEPT ![r] = "absent"] /\ UNCHANGED upsert
     ELSE UpsertRead(q, r) /\ UNCHANGED row
  /\ UNCHANGED <<today, api, restarts, queue, pc, day, store, startup>>

QueryWrite(q) ==
  /\ UpsertWrite(q)
  /\ UNCHANGED <<today, api, restarts, queue, pc, day, store, startup>>

\* Mutant: any run of the day counts.
CountsAny(r) == row[r] # "absent"
\* ran_today looks for a row that succeeded.
Counts(r) == row[r] = "succeeded"
RanToday(d) == \E r \in Runs : day[r] = d /\ Counts(r)

-----------------------------------------------------------------------------
(* The API process dies and starts again. *)

\* Its threads die with it; what they were writing is written or not.
Die ==
  /\ api # "down" /\ restarts < Restarts
  /\ api' = "down"
  /\ restarts' = restarts + 1
  /\ queue' = <<>>
  /\ pc' = [r \in Runs |->
       IF r \in ConsoleRuns /\ pc[r] \notin {"idle", "done"} THEN "dead" ELSE pc[r]]
  /\ todo' = [q \in Queries |-> {}]
  /\ upsert' = [a \in Queries |-> None]
  /\ scan' = {} /\ orphan' = None
  /\ UNCHANGED <<today, day, store, row>>

\* create_app: recover_orphans visits the runs there are.
Restart ==
  /\ api = "down"
  /\ api' = "recover"
  /\ scan' = {r \in Runs : document[r] # "absent"}
  /\ UNCHANGED <<today, restarts, queue, pc, day, store, index, orphan>>

\* Mutants: every run is taken for live; only running ones are.
MarksAll(r) == TRUE
MarksRunning(r) == document[r] = "running"
Marks(r) == document[r] \in Live

RecoverRead(r) ==
  /\ r \in scan /\ orphan = None
  /\ scan' = scan \ {r}
  /\ orphan' = IF Marks(r) THEN r ELSE None
  /\ UNCHANGED <<today, api, restarts, queue, pc, day, store, index>>

RecoverWrite ==
  /\ orphan # None
  /\ Write(orphan, "orphaned")
  /\ orphan' = None
  /\ UNCHANGED <<today, api, restarts, queue, pc, day, index, scan>>

\* A live run is never purged.
Purgeable(r) == document[r] \in Terminal

\* purge_expired: directories older than the retention; within the last day of
\* it the hour decides.
Purge ==
  /\ api = "recover" /\ scan = {} /\ orphan = None
  /\ \E expired \in SUBSET {r \in Runs : Purgeable(r) /\ ended[r] + Retention <= today} :
       /\ {r \in Runs : Purgeable(r) /\ ended[r] + Retention < today} \subseteq expired
       /\ document' = [r \in Runs |-> IF r \in expired THEN "absent" ELSE document[r]]
       /\ ended' = [r \in Runs |-> IF r \in expired THEN 0 ELSE ended[r]]
  /\ api' = "refresh"
  /\ UNCHANGED <<today, restarts, queue, pc, day, index, startup>>

\* refresh_full: every run.json found gets its row; no row is removed.
RefreshFull ==
  /\ api = "refresh"
  /\ api' = "up"
  /\ row' = [r \in Runs |-> IF document[r] = "absent" THEN row[r] ELSE document[r]]
  /\ UNCHANGED <<today, restarts, queue, pc, day, store, todo, upsert, startup>>

CliDies(r) ==
  /\ r \in CliRuns /\ pc[r] \in {"preparing", "running"}
  /\ Goto(r, "dead")
  /\ UNCHANGED <<today, api, restarts, queue, day, store, index, startup>>

NextDay ==
  /\ today < LastDay
  /\ today' = today + 1
  /\ UNCHANGED <<api, restarts, queue, pc, day, store, index, startup>>

Job(r) == StartJob(r) \/ Execute(r) \/ Finish(r) \/ Raise(r) \/ JobUpsert(r)
Query(q) == QueryBegin(q) \/ (\E r \in Runs : QueryRead(q, r)) \/ QueryWrite(q)
Startup == Restart \/ (\E r \in Runs : RecoverRead(r)) \/ RecoverWrite \/ Purge \/ RefreshFull

Next ==
  \/ \E r \in ConsoleRuns : PostRun(r) \/ Job(r)
  \/ \E r \in CliRuns : StartCli(r) \/ Execute(r) \/ Finish(r) \/ Raise(r) \/ CliDies(r)
  \/ \E q \in Queries : Query(q)
  \/ Startup \/ Die \/ NextDay

Spec == Init /\ [][Next]_vars

\* Threads are scheduled, the console polls its listing, and the API is started
\* again after it died.  Nobody has to post a run or to start one by hand.
FairSpec ==
  /\ Spec
  /\ \A r \in ConsoleRuns : WF_vars(Job(r))
  /\ \A q \in Queries : WF_vars(Query(q))
  /\ WF_vars(Startup)

-----------------------------------------------------------------------------
(* Properties. *)

\* Each variable has its type.
TypeOK ==
  /\ today \in 1 .. LastDay /\ api \in Phases /\ restarts \in 0 .. Restarts
  /\ queue \in Seq(ConsoleRuns)
  /\ pc \in [Runs -> Steps]
  /\ day \in [Runs -> 0 .. LastDay] /\ ended \in [Runs -> 0 .. LastDay]
  /\ document \in [Runs -> Status] /\ row \in [Runs -> Status]
  /\ todo \in [Queries -> SUBSET Runs]
  /\ upsert \in [Queries -> {None} \cup [run: Runs, status: Status \ {"absent"}]]
  /\ scan \subseteq Runs /\ orphan \in Runs \cup {None}

\* When the listing says that a run is over, it says what run.json says, although
\* rows are written late and by several threads.  The exception is a run of the
\* command line that outlived the restart which declared it an orphan: terminal
\* rows are never refreshed, so its row stays "orphaned".
ListedEndsAreTrue ==
  \A r \in Runs : row[r] \in Terminal /\ document[r] # "absent" =>
    row[r] = document[r] \/ (r \in CliRuns /\ row[r] = "orphaned")

\* The schedule never says that an ETL ran today when no run of today succeeded.
NoFalseDeadline ==
  RanToday(today) => \E r \in Runs : day[r] = today /\ document[r] = "succeeded"

\* How a run ended is never rewritten: neither by the recovery of orphans nor by
\* the purge, which only removes it.  Only a run of the command line may be
\* declared an orphan over its own end, or end after it was declared one.
EndsAreFinal ==
  [][\A r \in Runs : document[r] \in Terminal /\ document'[r] # document[r] =>
       \/ document'[r] = "absent"
       \/ r \in CliRuns /\ "orphaned" \in {document[r], document'[r]}]_vars

\* The listing catches up: from some point on no row says that a run is live when
\* it is over, although a query may write a live status after another thread
\* wrote the final one.
RowsSettle ==
  \A r \in Runs : <>[](document[r] \in Terminal => row[r] \notin Live)

\* A run that post_run accepted is executed and recorded, or its directory is the
\* empty one of a job that died in the queue (or whose first write failed); a job
\* that raised keeps a live run.json until the next restart.
RunsAreAccountedFor ==
  \A r \in ConsoleRuns : pc[r] = "queued" ~>
    \/ document[r] \in Terminal
    \/ pc[r] \in {"done", "dead"} /\ document[r] = "absent"
    \/ pc[r] = "done" /\ document[r] \in Live

=============================================================================
