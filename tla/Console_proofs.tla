---------------------------- MODULE Console_proofs ----------------------------
(***************************************************************************)
(* Proofs about Console, for any runs, query threads, workers, retention   *)
(* and number of restarts: what the index says of a run that is over, and  *)
(* that the end of a run is not rewritten.                                 *)
(***************************************************************************)
EXTENDS Console, TLAPS

\* The jobs of the queue are waiting, each of them once.
QueueOK ==
  /\ \A i \in 1 .. Len(queue) : pc[queue[i]] = "queued"
  /\ \A i, j \in 1 .. Len(queue) : queue[i] = queue[j] => i = j

\* What a row, or a thread about to write it, may say of a run.
Agrees(r, status) ==
  status \in Terminal /\ document[r] # "absent" =>
    status = document[r] \/ (r \in CliRuns /\ status = "orphaned")
Listed == \A r \in Runs : Agrees(r, row[r])
Pending ==
  \A a \in Queries : upsert[a] # None =>
    document[upsert[a].run] # "absent" /\ Agrees(upsert[a].run, upsert[a].status)

\* A run that has not begun left nothing; one that goes on is live, unless it is of
\* the command line and was declared an orphan, and perhaps purged.
Begun ==
  \A r \in Runs :
    /\ pc[r] \in {"idle", "queued"} => document[r] = "absent" /\ row[r] = "absent"
    /\ pc[r] \in {"preparing", "running"} =>
         /\ r \in ConsoleRuns => document[r] \in Live
         /\ document[r] \in Live \cup {"orphaned", "absent"}
         /\ row[r] \notin {"succeeded", "failed"}

\* While the API is not up none of its threads is there.
Quiet ==
  /\ api # "up" =>
       /\ queue = <<>> /\ \A a \in Queries : upsert[a] = None /\ todo[a] = {}
       /\ \A r \in ConsoleRuns : pc[r] \in {"idle", "done", "dead"}
  /\ scan # {} \/ orphan # None => api = "recover"
  /\ orphan # None =>
       /\ document[orphan] # "absent" /\ row[orphan] \notin {"succeeded", "failed"}
       /\ orphan \in ConsoleRuns => document[orphan] \in Live

\* A run ends on its day or later, so what the purge took away is of another day.
Dates ==
  \A r \in Runs :
    /\ day[r] <= today
    /\ document[r] \in Terminal => day[r] <= ended[r]
    /\ row[r] = "succeeded" /\ document[r] = "absent" => day[r] < today

\* The inductive invariant.
IInv == TypeOK /\ QueueOK /\ Listed /\ Pending /\ Begun /\ Quiet /\ Dates

USE DEF Runs, Status, Live, Terminal, Phases, Steps, store, index, startup

LEMMA InitIInv == Init => IInv
BY RunAssumption, BoundAssumption
   DEF Init, IInv, TypeOK, QueueOK, Listed, Agrees, Pending, Begun, Quiet, Dates

-----------------------------------------------------------------------------
(* What each step does to the run it is about, run by run. *)

LEMMA WriteRun ==
  ASSUME TypeOK, NEW r \in Runs, NEW status \in Status, Write(r, status)
  PROVE  /\ document' \in [Runs -> Status] /\ ended' \in [Runs -> 0 .. LastDay]
         /\ document'[r] = status
         /\ ended'[r] = IF status \in Terminal THEN today ELSE 0
         /\ \A s \in Runs \ {r} : document'[s] = document[s] /\ ended'[s] = ended[s]
BY BoundAssumption DEF TypeOK, Write

LEMMA GotoRun ==
  ASSUME TypeOK, NEW r \in Runs, NEW step \in Steps, Goto(r, step)
  PROVE  /\ pc' \in [Runs -> Steps] /\ pc'[r] = step
         /\ \A s \in Runs \ {r} : pc'[s] = pc[s]
BY DEF TypeOK, Goto

LEMMA AfterExecuteIs ==
  ASSUME NEW r \in Runs
  PROVE  /\ AfterExecute(r) \in {"upsert", "done"}
         /\ r \in CliRuns => AfterExecute(r) = "done"
BY RunAssumption DEF AfterExecute

\* A run begins: it leaves a live run.json, or the one there was.
LEMMA BeginRun ==
  ASSUME TypeOK, NEW r \in Runs, Begin(r)
  PROVE  /\ pc' \in [Runs -> Steps]
         /\ document' \in [Runs -> Status] /\ ended' \in [Runs -> 0 .. LastDay]
         /\ \A s \in Runs \ {r} :
              pc'[s] = pc[s] /\ document'[s] = document[s] /\ ended'[s] = ended[s]
         /\ \/ pc'[r] = "preparing" /\ document'[r] = "preparing"
            \/ /\ pc'[r] \in {"upsert", "done"} /\ (r \in CliRuns => pc'[r] = "done")
               /\ document'[r] = document[r] /\ ended'[r] = ended[r]
<1>1. CASE Write(r, "preparing") /\ Goto(r, "preparing")
  BY <1>1, WriteRun, GotoRun
<1>2. CASE r \in Unwritable /\ Goto(r, AfterExecute(r)) /\ UNCHANGED store
  <2>1. pc' \in [Runs -> Steps] /\ pc'[r] = AfterExecute(r)
        /\ \A s \in Runs \ {r} : pc'[s] = pc[s]
    BY <1>2, GotoRun, AfterExecuteIs
  <2> QED
    BY <1>2, <2>1, AfterExecuteIs DEF TypeOK
<1> QED
  BY <1>1, <1>2 DEF Begin

\* A run goes on: it writes its next status and moves, or it raises and only moves.
LEMMA RunGoesOn ==
  ASSUME TypeOK, NEW r \in Runs, Execute(r) \/ Finish(r) \/ Raise(r)
  PROVE  /\ pc' \in [Runs -> Steps]
         /\ document' \in [Runs -> Status] /\ ended' \in [Runs -> 0 .. LastDay]
         /\ UNCHANGED <<today, api, restarts, queue, day, index, startup>>
         /\ \A s \in Runs \ {r} :
              pc'[s] = pc[s] /\ document'[s] = document[s] /\ ended'[s] = ended[s]
         /\ pc[r] \in {"preparing", "running"}
         /\ \/ pc'[r] = "running" /\ document'[r] = "running"
            \/ /\ pc'[r] \in {"upsert", "done"} /\ (r \in CliRuns => pc'[r] = "done")
               /\ \/ document'[r] \in {"succeeded", "failed"} /\ ended'[r] = today
                  \/ document'[r] = document[r] /\ ended'[r] = ended[r]
<1>1. CASE Execute(r)
  <2>1. CASE Write(r, "running") /\ Goto(r, "running")
    BY <1>1, <2>1, WriteRun, GotoRun DEF Execute
  <2>2. CASE Write(r, "failed") /\ Goto(r, AfterExecute(r))
    <3>1. pc' \in [Runs -> Steps] /\ pc'[r] = AfterExecute(r)
          /\ \A s \in Runs \ {r} : pc'[s] = pc[s]
      BY <2>2, GotoRun, AfterExecuteIs
    <3> QED
      BY <1>1, <2>2, <3>1, WriteRun, AfterExecuteIs DEF Execute
  <2> QED
    BY <1>1, <2>1, <2>2 DEF Execute
<1>2. CASE Finish(r)
  <2>1. PICK status \in {"succeeded", "failed"} : Write(r, status)
    BY <1>2 DEF Finish
  <2>2. pc' \in [Runs -> Steps] /\ pc'[r] = AfterExecute(r)
        /\ \A s \in Runs \ {r} : pc'[s] = pc[s]
    BY <1>2, GotoRun, AfterExecuteIs DEF Finish
  <2> QED
    BY <1>2, <2>1, <2>2, WriteRun, AfterExecuteIs DEF Finish
<1>3. CASE Raise(r)
  <2>1. pc' \in [Runs -> Steps] /\ pc'[r] = AfterExecute(r)
        /\ \A s \in Runs \ {r} : pc'[s] = pc[s]
    BY <1>3, GotoRun, AfterExecuteIs DEF Raise
  <2> QED
    BY <1>3, <2>1, AfterExecuteIs DEF Raise, TypeOK
<1> QED
  BY <1>1, <1>2, <1>3

\* The first job of the queue leaves it.
LEMMA TailOfQueue ==
  ASSUME TypeOK, QueueOK, queue # <<>>
  PROVE  /\ Head(queue) \in ConsoleRuns /\ pc[Head(queue)] = "queued"
         /\ Tail(queue) \in Seq(ConsoleRuns)
         /\ Len(Tail(queue)) = Len(queue) - 1
         /\ \A i \in 1 .. Len(Tail(queue)) :
              /\ Tail(queue)[i] = queue[i + 1] /\ i + 1 \in 1 .. Len(queue)
              /\ Tail(queue)[i] # Head(queue)
<1> DEFINE tail == Tail(queue)
<1>1. queue \in Seq(ConsoleRuns) /\ Len(queue) \in Nat /\ Len(queue) > 0
  BY DEF TypeOK
<1>2. tail \in Seq(ConsoleRuns) /\ Len(tail) = Len(queue) - 1
      /\ \A i \in 1 .. Len(tail) : tail[i] = queue[i + 1]
  BY <1>1
<1>3. Head(queue) = queue[1] /\ 1 \in 1 .. Len(queue) /\ queue[1] \in ConsoleRuns
  BY <1>1
<1>4. ASSUME NEW i \in 1 .. Len(tail) PROVE i + 1 \in 1 .. Len(queue) /\ i + 1 # 1
  BY <1>1, <1>2
<1>5. ASSUME NEW i \in 1 .. Len(tail) PROVE tail[i] # Head(queue)
  BY <1>2, <1>3, <1>4, <1>5 DEF QueueOK
<1> QED
  BY <1>2, <1>3, <1>4, <1>5 DEF QueueOK

-----------------------------------------------------------------------------
(* Each step preserves the invariant. *)

\* post_run: a run that has nothing yet joins the end of the queue.
LEMMA PostRunStep ==
  ASSUME IInv, NEW r \in ConsoleRuns, PostRun(r)
  PROVE  IInv'
<1> USE DEF IInv
<1>1. /\ pc' \in [Runs -> Steps] /\ pc'[r] = "queued" /\ pc[r] = "idle"
      /\ \A s \in Runs \ {r} : pc'[s] = pc[s]
  BY GotoRun DEF PostRun
<1>2. queue' \in Seq(ConsoleRuns)
  BY DEF PostRun, TypeOK
<1>3. /\ Len(queue') = Len(queue) + 1 /\ Len(queue) \in Nat
      /\ \A i \in 1 .. Len(queue') :
           \/ i \in 1 .. Len(queue) /\ queue'[i] = queue[i] /\ queue[i] # r
           \/ i = Len(queue) + 1 /\ queue'[i] = r
  BY DEF PostRun, QueueOK
<1>10. TypeOK'
  BY <1>1 DEF PostRun, TypeOK
<1>11. QueueOK'
  BY <1>1, <1>2 DEF PostRun, QueueOK
<1>12. Listed'
  <2> SUFFICES ASSUME NEW s \in Runs PROVE Agrees(s, row[s])'
    BY DEF Listed
  <2>1. CASE s = r
    BY <2>1 DEF PostRun, Listed, Agrees
  <2>2. CASE s # r
    BY <2>2 DEF PostRun, Listed, Agrees
  <2> QED
    BY <2>1, <2>2
<1>13. Pending'
  BY DEF PostRun, Pending, Agrees
<1>14. Begun'
  <2> SUFFICES ASSUME NEW s \in Runs PROVE Begun!(s)'
    BY DEF Begun
  <2>1. CASE s = r
    BY <2>1, <1>1 DEF PostRun, Begun
  <2>2. CASE s # r
    BY <2>2, <1>1 DEF PostRun, Begun
  <2> QED
    BY <2>1, <2>2
<1>15. Quiet'
  BY DEF PostRun, Quiet
<1>16. Dates'
  <2> SUFFICES ASSUME NEW s \in Runs PROVE Dates!(s)'
    BY DEF Dates
  <2>1. CASE s = r
    BY <2>1 DEF PostRun, TypeOK, Begun
  <2>2. CASE s # r
    BY <2>2 DEF PostRun, Dates
  <2> QED
    BY <2>1, <2>2
<1> QED
  BY <1>10, <1>11, <1>12, <1>13, <1>14, <1>15, <1>16

\* A worker takes the first job.
LEMMA StartJobStep ==
  ASSUME IInv, NEW r \in ConsoleRuns, StartJob(r)
  PROVE  IInv'
<1> USE DEF IInv
<1>1. queue # <<>> /\ r = Head(queue) /\ queue' = Tail(queue) /\ Begin(r)
  BY DEF StartJob
<1>2. /\ pc' \in [Runs -> Steps]
      /\ document' \in [Runs -> Status] /\ ended' \in [Runs -> 0 .. LastDay]
      /\ \A s \in Runs \ {r} :
           pc'[s] = pc[s] /\ document'[s] = document[s] /\ ended'[s] = ended[s]
      /\ \/ pc'[r] = "preparing" /\ document'[r] = "preparing"
         \/ /\ pc'[r] \in {"upsert", "done"} /\ (r \in CliRuns => pc'[r] = "done")
            /\ document'[r] = document[r] /\ ended'[r] = ended[r]
  BY <1>1, BeginRun
<1>3. /\ pc[r] = "queued" /\ queue' \in Seq(ConsoleRuns) /\ Len(queue') = Len(queue) - 1
      /\ Len(queue) \in Nat
      /\ \A i \in 1 .. Len(queue') :
           queue'[i] = queue[i + 1] /\ i + 1 \in 1 .. Len(queue) /\ queue'[i] # r
  BY <1>1, TailOfQueue
<1>4. ASSUME NEW i \in 1 .. Len(queue')
      PROVE  pc'[queue'[i]] = "queued"
  <2>1. queue'[i] = queue[i + 1] /\ i + 1 \in 1 .. Len(queue) /\ queue'[i] # r
    BY <1>3
  <2>2. queue[i + 1] \in ConsoleRuns /\ pc[queue[i + 1]] = "queued"
    BY <2>1 DEF QueueOK, TypeOK
  <2> QED
    BY <1>2, <2>1, <2>2
<1>5. ASSUME NEW i \in 1 .. Len(queue'), NEW j \in 1 .. Len(queue'), queue'[i] = queue'[j]
      PROVE  i = j
  <2>1. queue[i + 1] = queue[j + 1] /\ i + 1 \in 1 .. Len(queue) /\ j + 1 \in 1 .. Len(queue)
    BY <1>3, <1>5
  <2>2. i + 1 = j + 1
    BY <2>1 DEF QueueOK
  <2> QED
    BY <2>2
<1>10. TypeOK'
  BY RunAssumption, BoundAssumption, <1>1, <1>2, <1>3 DEF StartJob, TypeOK
<1>11. QueueOK'
  BY <1>4, <1>5 DEF QueueOK
<1>12. Listed'
  <2> SUFFICES ASSUME NEW s \in Runs PROVE Agrees(s, row[s])'
    BY DEF Listed
  <2>1. CASE s = r
    BY <2>1, <1>3 DEF StartJob, Agrees, Begun
  <2>2. CASE s # r
    BY <2>2, <1>2 DEF StartJob, Listed, Agrees
  <2> QED
    BY <2>1, <2>2
<1>13. Pending'
  BY <1>2, <1>3 DEF StartJob, TypeOK, Pending, Agrees, Begun
<1>14. Begun'
  <2> SUFFICES ASSUME NEW s \in Runs PROVE Begun!(s)'
    BY DEF Begun
  <2>1. CASE s = r
    BY <2>1, <1>2, <1>3 DEF StartJob, Begun
  <2>2. CASE s # r
    BY <2>2, <1>2 DEF StartJob, Begun
  <2> QED
    BY <2>1, <2>2
<1>15. Quiet'
  BY DEF StartJob, Quiet
<1>16. Dates'
  <2> SUFFICES ASSUME NEW s \in Runs PROVE Dates!(s)'
    BY DEF Dates
  <2>1. CASE s = r
    BY <2>1, <1>2 DEF StartJob, Dates
  <2>2. CASE s # r
    BY <2>2, <1>2 DEF StartJob, Dates
  <2> QED
    BY <2>1, <2>2
<1> QED
  BY <1>10, <1>11, <1>12, <1>13, <1>14, <1>15, <1>16

\* A run of the command line begins.
LEMMA StartCliStep ==
  ASSUME IInv, NEW r \in CliRuns, StartCli(r)
  PROVE  IInv'
<1> USE DEF IInv
<1>1. pc[r] = "idle" /\ Begin(r)
  BY DEF StartCli
<1>2. /\ pc' \in [Runs -> Steps]
      /\ document' \in [Runs -> Status] /\ ended' \in [Runs -> 0 .. LastDay]
      /\ \A s \in Runs \ {r} :
           pc'[s] = pc[s] /\ document'[s] = document[s] /\ ended'[s] = ended[s]
      /\ \/ pc'[r] = "preparing" /\ document'[r] = "preparing"
         \/ /\ pc'[r] = "done"
            /\ document'[r] = document[r] /\ ended'[r] = ended[r]
  BY <1>1, BeginRun
<1>10. TypeOK'
  BY <1>2 DEF StartCli, TypeOK
<1>11. QueueOK'
  BY RunAssumption, BoundAssumption, <1>1, <1>2 DEF StartCli, TypeOK, QueueOK
<1>12. Listed'
  <2> SUFFICES ASSUME NEW s \in Runs PROVE Agrees(s, row[s])'
    BY DEF Listed
  <2>1. CASE s = r
    BY <2>1 DEF StartCli, Agrees, Begun
  <2>2. CASE s # r
    BY <2>2, <1>2 DEF StartCli, Listed, Agrees
  <2> QED
    BY <2>1, <2>2
<1>13. Pending'
  BY <1>2 DEF StartCli, TypeOK, Pending, Agrees, Begun
<1>14. Begun'
  <2> SUFFICES ASSUME NEW s \in Runs PROVE Begun!(s)'
    BY DEF Begun
  <2>1. CASE s = r
    BY <2>1, <1>2 DEF StartCli, Begun
  <2>2. CASE s # r
    BY <2>2, <1>2 DEF StartCli, Begun
  <2> QED
    BY <2>1, <2>2
<1>15. Quiet'
  BY RunAssumption, <1>2 DEF StartCli, TypeOK, Quiet, Listed, Agrees
<1>16. Dates'
  <2> SUFFICES ASSUME NEW s \in Runs PROVE Dates!(s)'
    BY DEF Dates
  <2>1. CASE s = r
    BY <2>1, <1>2 DEF StartCli, TypeOK, Begun
  <2>2. CASE s # r
    BY <2>2, <1>2 DEF StartCli, Dates
  <2> QED
    BY <2>1, <2>2
<1> QED
  BY <1>10, <1>11, <1>12, <1>13, <1>14, <1>15, <1>16

\* A run goes on, ends, or raises.
LEMMA GoesOnStep ==
  ASSUME IInv, NEW r \in Runs, Execute(r) \/ Finish(r) \/ Raise(r)
  PROVE  IInv'
<1> USE DEF IInv
<1>1. /\ pc' \in [Runs -> Steps]
      /\ document' \in [Runs -> Status] /\ ended' \in [Runs -> 0 .. LastDay]
      /\ UNCHANGED <<today, api, restarts, queue, day, index, startup>>
      /\ \A s \in Runs \ {r} :
           pc'[s] = pc[s] /\ document'[s] = document[s] /\ ended'[s] = ended[s]
      /\ pc[r] \in {"preparing", "running"}
      /\ \/ pc'[r] = "running" /\ document'[r] = "running"
         \/ /\ pc'[r] \in {"upsert", "done"} /\ (r \in CliRuns => pc'[r] = "done")
            /\ \/ document'[r] \in {"succeeded", "failed"} /\ ended'[r] = today
               \/ document'[r] = document[r] /\ ended'[r] = ended[r]
  BY RunGoesOn
<1>2. \A i \in 1 .. Len(queue) : queue[i] \in Runs \ {r} /\ pc[queue[i]] = "queued"
  BY <1>1 DEF QueueOK, TypeOK
<1>10. TypeOK'
  BY <1>1 DEF TypeOK
<1>11. QueueOK'
  BY <1>1, <1>2 DEF QueueOK
<1>12. Listed'
  <2> SUFFICES ASSUME NEW s \in Runs PROVE Agrees(s, row[s])'
    BY DEF Listed
  <2>1. CASE s = r
    BY <2>1, BoundAssumption, <1>1 DEF Listed, Agrees, Begun, Quiet
  <2>2. CASE s # r
    BY <2>2, <1>1 DEF Listed, Agrees
  <2> QED
    BY <2>1, <2>2
<1>13. Pending'
  BY <1>1 DEF TypeOK, Pending, Agrees, Begun
<1>14. Begun'
  <2> SUFFICES ASSUME NEW s \in Runs PROVE Begun!(s)'
    BY DEF Begun
  <2>1. CASE s = r
    BY <2>1, <1>1 DEF Begun
  <2>2. CASE s # r
    BY <2>2, <1>1 DEF Begun
  <2> QED
    BY <2>1, <2>2
<1>15. Quiet'
  BY RunAssumption, BoundAssumption, <1>1 DEF TypeOK, Quiet, Begun, Listed, Agrees, Pending
<1>16. Dates'
  <2> SUFFICES ASSUME NEW s \in Runs PROVE Dates!(s)'
    BY DEF Dates
  <2>1. CASE s = r
    BY <2>1, <1>1 DEF Dates
  <2>2. CASE s # r
    BY <2>2, <1>1 DEF Dates
  <2> QED
    BY <2>1, <2>2
<1> QED
  BY <1>10, <1>11, <1>12, <1>13, <1>14, <1>15, <1>16

\* A run of the command line dies.
LEMMA CliDiesStep ==
  ASSUME IInv, NEW r \in CliRuns, CliDies(r)
  PROVE  IInv'
<1> USE DEF IInv
<1>1. pc' \in [Runs -> Steps] /\ pc'[r] = "dead" /\ \A s \in Runs \ {r} : pc'[s] = pc[s]
  BY GotoRun DEF CliDies
<1>10. TypeOK'
  BY <1>1 DEF CliDies, TypeOK
<1>11. QueueOK'
  BY <1>1 DEF CliDies, TypeOK, QueueOK
<1>12. Listed'
  <2> SUFFICES ASSUME NEW s \in Runs PROVE Agrees(s, row[s])'
    BY DEF Listed
  <2>1. CASE s = r
    BY <2>1 DEF CliDies, Listed, Agrees
  <2>2. CASE s # r
    BY <2>2 DEF CliDies, Listed, Agrees
  <2> QED
    BY <2>1, <2>2
<1>13. Pending'
  BY DEF CliDies, Pending, Agrees
<1>14. Begun'
  <2> SUFFICES ASSUME NEW s \in Runs PROVE Begun!(s)'
    BY DEF Begun
  <2>1. CASE s = r
    BY <2>1, <1>1
  <2>2. CASE s # r
    BY <2>2, <1>1 DEF CliDies, Begun
  <2> QED
    BY <2>1, <2>2
<1>15. Quiet'
  BY BoundAssumption, <1>1 DEF CliDies, Quiet, Listed
<1>16. Dates'
  <2> SUFFICES ASSUME NEW s \in Runs PROVE Dates!(s)'
    BY DEF Dates
  <2>1. CASE s = r
    BY <2>1 DEF CliDies, Dates
  <2>2. CASE s # r
    BY <2>2 DEF CliDies, Dates
  <2> QED
    BY <2>1, <2>2
<1> QED
  BY <1>10, <1>11, <1>12, <1>13, <1>14, <1>15, <1>16

\* The job of a posted run writes its row and is over.
LEMMA JobUpsertStep ==
  ASSUME IInv, NEW r \in ConsoleRuns, JobUpsert(r)
  PROVE  IInv'
<1> USE DEF IInv
<1>1. /\ pc' \in [Runs -> Steps] /\ pc'[r] = "done" /\ pc[r] = "upsert"
      /\ \A s \in Runs \ {r} : pc'[s] = pc[s]
  BY GotoRun DEF JobUpsert
<1>2. /\ row' \in [Runs -> Status] /\ row'[r] \in {row[r], document[r]}
      /\ \A s \in Runs \ {r} : row'[s] = row[s]
      /\ row'[r] # row[r] => document[r] # "absent"
  BY DEF JobUpsert, TypeOK
<1>10. TypeOK'
  BY <1>1, <1>2 DEF JobUpsert, TypeOK
<1>11. QueueOK'
  BY <1>1 DEF JobUpsert, TypeOK, QueueOK
<1>12. Listed'
  <2> SUFFICES ASSUME NEW s \in Runs PROVE Agrees(s, row[s])'
    BY DEF Listed
  <2>1. CASE s = r
    BY <2>1, <1>2 DEF JobUpsert, Agrees
  <2>2. CASE s # r
    BY <2>2, <1>2 DEF JobUpsert, Listed, Agrees
  <2> QED
    BY <2>1, <2>2
<1>13. Pending'
  BY DEF JobUpsert, Pending, Agrees
<1>14. Begun'
  <2> SUFFICES ASSUME NEW s \in Runs PROVE Begun!(s)'
    BY DEF Begun
  <2>1. CASE s = r
    BY <2>1, <1>1
  <2>2. CASE s # r
    BY <2>2, <1>1, <1>2 DEF JobUpsert, Begun
  <2> QED
    BY <2>1, <2>2
<1>15. Quiet'
  BY BoundAssumption DEF JobUpsert, Quiet, Begun, Listed
<1>16. Dates'
  <2> SUFFICES ASSUME NEW s \in Runs PROVE Dates!(s)'
    BY DEF Dates
  <2>1. CASE s = r
    BY <2>1 DEF JobUpsert, Dates
  <2>2. CASE s # r
    BY <2>2, <1>2 DEF JobUpsert, Dates
  <2> QED
    BY <2>1, <2>2
<1> QED
  BY <1>10, <1>11, <1>12, <1>13, <1>14, <1>15, <1>16

\* What a query does to the rows and to the upserts of the threads.
LEMMA QueryRun ==
  ASSUME TypeOK, Quiet, NEW q \in Queries, Query(q)
  PROVE  /\ UNCHANGED <<today, restarts, queue, pc, day, store, startup, api>>
         /\ api = "up"
         /\ todo' \in [Queries -> SUBSET Runs] /\ row' \in [Runs -> Status]
         /\ upsert' \in [Queries -> {None} \cup [run: Runs, status: Status \ {"absent"}]]
         /\ \A s \in Runs :
              \/ row'[s] = row[s]
              \/ row'[s] = "absent"
              \/ upsert[q] # None /\ upsert[q].run = s /\ row'[s] = upsert[q].status
         /\ \A a \in Queries :
              \/ upsert'[a] = upsert[a]
              \/ upsert'[a] = None
              \/ /\ upsert'[a].status = document[upsert'[a].run]
                 /\ document[upsert'[a].run] # "absent"
<1>1. CASE QueryBegin(q)
  <2>1. /\ UNCHANGED <<today, restarts, queue, pc, day, store, startup, api, row, upsert>>
        /\ api = "up"
    BY <1>1 DEF QueryBegin
  <2>2. todo' \in [Queries -> SUBSET Runs]
    BY <1>1 DEF QueryBegin, LiveRows, TypeOK
  <2> QED
    BY <2>1, <2>2 DEF TypeOK
<1>2. ASSUME NEW r \in Runs, QueryRead(q, r)
      PROVE  /\ UNCHANGED <<today, restarts, queue, pc, day, store, startup, api>>
             /\ api = "up"
             /\ todo' \in [Queries -> SUBSET Runs]
             /\ \/ upsert' = upsert /\ row' = [row EXCEPT ![r] = "absent"]
                \/ /\ document[r] # "absent" /\ row' = row
                   /\ upsert' = [upsert EXCEPT ![q] = [run |-> r, status |-> document[r]]]
  <2>1. todo' \in [Queries -> SUBSET Runs] /\ todo[q] # {}
    BY <1>2 DEF QueryRead, TypeOK
  <2> QED
    BY <1>2, <2>1 DEF QueryRead, UpsertRead, Quiet
<1>3. CASE \E r \in Runs : QueryRead(q, r)
  <2>1. PICK r \in Runs : QueryRead(q, r)
    BY <1>3
  <2>2. CASE upsert' = upsert /\ row' = [row EXCEPT ![r] = "absent"]
    BY <1>2, <2>1, <2>2 DEF TypeOK
  <2>3. CASE /\ document[r] # "absent" /\ row' = row
             /\ upsert' = [upsert EXCEPT ![q] = [run |-> r, status |-> document[r]]]
    <3>1. [run |-> r, status |-> document[r]] \in [run: Runs, status: Status \ {"absent"}]
      BY <2>3 DEF TypeOK
    <3>2. upsert' \in [Queries -> {None} \cup [run: Runs, status: Status \ {"absent"}]]
      BY <2>3, <3>1 DEF TypeOK
    <3>3. ASSUME NEW a \in Queries
          PROVE  \/ upsert'[a] = upsert[a]
                 \/ /\ upsert'[a].status = document[upsert'[a].run]
                    /\ document[upsert'[a].run] # "absent"
      BY <2>3
    <3> QED
      BY <1>2, <2>1, <2>3, <3>2, <3>3 DEF TypeOK
  <2> QED
    BY <1>2, <2>1, <2>2, <2>3
<1>4. CASE QueryWrite(q)
  <2>1. /\ UNCHANGED <<today, restarts, queue, pc, day, store, startup, api, todo>>
        /\ upsert[q] # None /\ upsert' = [upsert EXCEPT ![q] = None]
        /\ row' = [row EXCEPT ![upsert[q].run] = upsert[q].status]
    BY <1>4 DEF QueryWrite, UpsertWrite, RowAfter
  <2>2. upsert[q] \in [run: Runs, status: Status \ {"absent"}]
    BY <2>1 DEF TypeOK
  <2>3. upsert[q].run \in Runs /\ upsert[q].status \in Status
    BY <2>2
  <2>4. row' \in [Runs -> Status] /\ upsert' \in [Queries -> {None} \cup [run: Runs, status: Status \ {"absent"}]]
    BY <2>1, <2>3 DEF TypeOK
  <2>5. api = "up"
    BY <2>1 DEF Quiet
  <2> QED
    BY <2>1, <2>3, <2>4, <2>5 DEF TypeOK
<1> QED
  BY <1>1, <1>3, <1>4 DEF Query

\* A query collects, reads or writes.
LEMMA QueryStep ==
  ASSUME IInv, NEW q \in Queries, Query(q)
  PROVE  IInv'
<1> USE DEF IInv
<1>1. /\ UNCHANGED <<today, restarts, queue, pc, day, store, startup, api>>
      /\ api = "up"
      /\ todo' \in [Queries -> SUBSET Runs] /\ row' \in [Runs -> Status]
      /\ upsert' \in [Queries -> {None} \cup [run: Runs, status: Status \ {"absent"}]]
      /\ \A s \in Runs :
           \/ row'[s] = row[s]
           \/ row'[s] = "absent"
           \/ upsert[q] # None /\ upsert[q].run = s /\ row'[s] = upsert[q].status
      /\ \A a \in Queries :
           \/ upsert'[a] = upsert[a]
           \/ upsert'[a] = None
           \/ /\ upsert'[a].status = document[upsert'[a].run]
              /\ document[upsert'[a].run] # "absent"
  BY QueryRun
<1>10. TypeOK'
  BY <1>1 DEF TypeOK
<1>11. QueueOK'
  BY <1>1 DEF QueueOK
<1>12. Listed'
  <2> SUFFICES ASSUME NEW s \in Runs PROVE Agrees(s, row[s])'
    BY DEF Listed
  <2>1. upsert[q] # None => upsert[q].run \in Runs /\ Agrees(upsert[q].run, upsert[q].status)
    BY DEF Pending, TypeOK
  <2>2. Agrees(s, row[s])
    BY DEF Listed
  <2> QED
    BY <1>1, <2>1, <2>2 DEF Agrees
<1>13. Pending'
  BY <1>1 DEF Pending, Agrees
<1>14. Begun'
  <2> SUFFICES ASSUME NEW s \in Runs PROVE Begun!(s)'
    BY DEF Begun
  <2> QED
    BY <1>1 DEF Begun, Agrees, Pending
<1>15. Quiet'
  BY <1>1 DEF Quiet
<1>16. Dates'
  <2> SUFFICES ASSUME NEW s \in Runs PROVE Dates!(s)'
    BY DEF Dates
  <2> QED
    BY <1>1 DEF Dates, Pending
<1> QED
  BY <1>10, <1>11, <1>12, <1>13, <1>14, <1>15, <1>16

\* create_app starts: the runs that left a run.json are to be visited.
LEMMA RestartStep ==
  ASSUME IInv, Restart
  PROVE  IInv'
<1> USE DEF IInv
<1>10. TypeOK'
  BY DEF Restart, TypeOK
<1>11. QueueOK'
  BY DEF Restart, QueueOK
<1>12. Listed'
  <2> SUFFICES ASSUME NEW s \in Runs PROVE Agrees(s, row[s])'
    BY DEF Listed
  <2> QED
    BY DEF Restart, Listed, Agrees
<1>13. Pending'
  BY DEF Restart, Pending, Quiet
<1>14. Begun'
  <2> SUFFICES ASSUME NEW s \in Runs PROVE Begun!(s)'
    BY DEF Begun
  <2> QED
    BY DEF Restart, Begun
<1>15. Quiet'
  BY DEF Restart, Quiet
<1>16. Dates'
  <2> SUFFICES ASSUME NEW s \in Runs PROVE Dates!(s)'
    BY DEF Dates
  <2> QED
    BY DEF Restart, Dates
<1> QED
  BY <1>10, <1>11, <1>12, <1>13, <1>14, <1>15, <1>16

\* recover_orphans reads one of them.
LEMMA RecoverReadStep ==
  ASSUME IInv, NEW x \in Runs, RecoverRead(x)
  PROVE  IInv'
<1> USE DEF IInv
<1>10. TypeOK'
  BY DEF RecoverRead, Marks, TypeOK
<1>11. QueueOK'
  BY DEF RecoverRead, Marks, QueueOK
<1>12. Listed'
  <2> SUFFICES ASSUME NEW s \in Runs PROVE Agrees(s, row[s])'
    BY DEF Listed
  <2> QED
    BY DEF RecoverRead, Marks, Listed, Agrees
<1>13. Pending'
  BY DEF RecoverRead, Marks, Pending, Quiet
<1>14. Begun'
  <2> SUFFICES ASSUME NEW s \in Runs PROVE Begun!(s)'
    BY DEF Begun
  <2> QED
    BY DEF RecoverRead, Marks, Begun
<1>15. Quiet'
  BY DEF RecoverRead, Marks, Quiet, Listed, Agrees
<1>16. Dates'
  <2> SUFFICES ASSUME NEW s \in Runs PROVE Dates!(s)'
    BY DEF Dates
  <2> QED
    BY DEF RecoverRead, Marks, Dates
<1> QED
  BY <1>10, <1>11, <1>12, <1>13, <1>14, <1>15, <1>16

\* It marks the one it read as live.
LEMMA RecoverWriteStep ==
  ASSUME IInv, RecoverWrite
  PROVE  IInv'
<1> USE DEF IInv
<1>1. /\ orphan \in Runs /\ orphan # None /\ orphan' = None
      /\ document' \in [Runs -> Status] /\ ended' \in [Runs -> 0 .. LastDay]
      /\ document'[orphan] = "orphaned" /\ ended'[orphan] = today
      /\ \A s \in Runs \ {orphan} : document'[s] = document[s] /\ ended'[s] = ended[s]
  <2>1. orphan \in Runs /\ orphan # None /\ orphan' = None /\ Write(orphan, "orphaned")
    BY DEF RecoverWrite, TypeOK
  <2> QED
    BY <2>1, WriteRun
<1>10. TypeOK'
  BY <1>1 DEF RecoverWrite, TypeOK
<1>11. QueueOK'
  BY DEF RecoverWrite, QueueOK
<1>12. Listed'
  <2> SUFFICES ASSUME NEW s \in Runs PROVE Agrees(s, row[s])'
    BY DEF Listed
  <2> QED
    BY <1>1 DEF RecoverWrite, Listed, Agrees, Quiet
<1>13. Pending'
  BY DEF RecoverWrite, Pending, Quiet
<1>14. Begun'
  <2> SUFFICES ASSUME NEW s \in Runs PROVE Begun!(s)'
    BY DEF Begun
  <2> QED
    BY RunAssumption, <1>1 DEF RecoverWrite, Begun, Agrees, Pending, Quiet
<1>15. Quiet'
  BY DEF RecoverWrite, Quiet
<1>16. Dates'
  <2> SUFFICES ASSUME NEW s \in Runs PROVE Dates!(s)'
    BY DEF Dates
  <2> QED
    BY <1>1 DEF RecoverWrite, Dates
<1> QED
  BY <1>10, <1>11, <1>12, <1>13, <1>14, <1>15, <1>16

\* purge_expired takes runs away whose last day is over.
LEMMA PurgeStep ==
  ASSUME IInv, Purge
  PROVE  IInv'
<1> USE DEF IInv
<1>1. /\ document' \in [Runs -> Status] /\ ended' \in [Runs -> 0 .. LastDay]
      /\ \A s \in Runs :
           \/ document'[s] = document[s] /\ ended'[s] = ended[s]
           \/ /\ document[s] \in Terminal /\ ended[s] < today
              /\ document'[s] = "absent"
      /\ api = "recover" /\ api' = "refresh" /\ scan = {} /\ orphan = None
  <2>1. PICK expired \in SUBSET {r \in Runs : Purgeable(r) /\ ended[r] + Retention <= today} :
          /\ document' = [r \in Runs |-> IF r \in expired THEN "absent" ELSE document[r]]
          /\ ended' = [r \in Runs |-> IF r \in expired THEN 0 ELSE ended[r]]
    BY DEF Purge
  <2>2. \A s \in expired : s \in Runs /\ document[s] \in Terminal /\ ended[s] < today
    BY BoundAssumption DEF Purgeable, TypeOK
  <2>3. document' \in [Runs -> Status] /\ ended' \in [Runs -> 0 .. LastDay]
    BY <2>1, BoundAssumption DEF TypeOK
  <2> QED
    BY <2>1, <2>2, <2>3 DEF Purge
<1>10. TypeOK'
  BY <1>1 DEF Purge, TypeOK
<1>11. QueueOK'
  BY DEF Purge, QueueOK
<1>12. Listed'
  <2> SUFFICES ASSUME NEW s \in Runs PROVE Agrees(s, row[s])'
    BY DEF Listed
  <2> QED
    BY DEF Purge, Listed, Agrees
<1>13. Pending'
  BY DEF Purge, Pending, Quiet
<1>14. Begun'
  <2> SUFFICES ASSUME NEW s \in Runs PROVE Begun!(s)'
    BY DEF Begun
  <2> QED
    BY BoundAssumption DEF Purge, Begun, Quiet
<1>15. Quiet'
  BY DEF Purge, Quiet
<1>16. Dates'
  <2> SUFFICES ASSUME NEW s \in Runs PROVE Dates!(s)'
    BY DEF Dates
  <2> QED
    BY BoundAssumption DEF Purge, TypeOK, Dates, Listed, Agrees
<1> QED
  BY <1>10, <1>11, <1>12, <1>13, <1>14, <1>15, <1>16

\* refresh_full gives every run.json its row, and the API is up.
LEMMA RefreshFullStep ==
  ASSUME IInv, RefreshFull
  PROVE  IInv'
<1> USE DEF IInv
<1>10. TypeOK'
  BY DEF RefreshFull, TypeOK
<1>11. QueueOK'
  BY DEF RefreshFull, QueueOK
<1>12. Listed'
  <2> SUFFICES ASSUME NEW s \in Runs PROVE Agrees(s, row[s])'
    BY DEF Listed
  <2> QED
    BY DEF RefreshFull, Agrees
<1>13. Pending'
  BY DEF RefreshFull, Pending, Quiet
<1>14. Begun'
  <2> SUFFICES ASSUME NEW s \in Runs PROVE Begun!(s)'
    BY DEF Begun
  <2> QED
    BY DEF RefreshFull, Begun
<1>15. Quiet'
  BY DEF RefreshFull, Quiet
<1>16. Dates'
  <2> SUFFICES ASSUME NEW s \in Runs PROVE Dates!(s)'
    BY DEF Dates
  <2> QED
    BY DEF RefreshFull, Dates
<1> QED
  BY <1>10, <1>11, <1>12, <1>13, <1>14, <1>15, <1>16

\* The process of the API dies with its threads.
LEMMA DieStep ==
  ASSUME IInv, Die
  PROVE  IInv'
<1> USE DEF IInv
<1>10. TypeOK'
  BY BoundAssumption DEF Die, TypeOK
<1>11. QueueOK'
  BY DEF Die, QueueOK
<1>12. Listed'
  <2> SUFFICES ASSUME NEW s \in Runs PROVE Agrees(s, row[s])'
    BY DEF Listed
  <2> QED
    BY DEF Die, Listed, Agrees
<1>13. Pending'
  BY DEF Die, Pending
<1>14. Begun'
  <2> SUFFICES ASSUME NEW s \in Runs PROVE Begun!(s)'
    BY DEF Begun
  <2> QED
    BY DEF Die, Begun
<1>15. Quiet'
  BY DEF Die, Quiet
<1>16. Dates'
  <2> SUFFICES ASSUME NEW s \in Runs PROVE Dates!(s)'
    BY DEF Dates
  <2> QED
    BY DEF Die, Dates
<1> QED
  BY <1>10, <1>11, <1>12, <1>13, <1>14, <1>15, <1>16

\* Midnight.
LEMMA NextDayStep ==
  ASSUME IInv, NextDay
  PROVE  IInv'
<1> USE DEF IInv
<1>10. TypeOK'
  BY BoundAssumption DEF NextDay, TypeOK
<1>11. QueueOK'
  BY DEF NextDay, QueueOK
<1>12. Listed'
  <2> SUFFICES ASSUME NEW s \in Runs PROVE Agrees(s, row[s])'
    BY DEF Listed
  <2> QED
    BY DEF NextDay, Listed, Agrees
<1>13. Pending'
  BY DEF NextDay, Pending, Agrees
<1>14. Begun'
  <2> SUFFICES ASSUME NEW s \in Runs PROVE Begun!(s)'
    BY DEF Begun
  <2> QED
    BY DEF NextDay, Begun
<1>15. Quiet'
  BY DEF NextDay, Quiet
<1>16. Dates'
  <2> SUFFICES ASSUME NEW s \in Runs PROVE Dates!(s)'
    BY DEF Dates
  <2> QED
    BY DEF NextDay, TypeOK, Dates
<1> QED
  BY <1>10, <1>11, <1>12, <1>13, <1>14, <1>15, <1>16

\* Nothing happens.
LEMMA StutterStep ==
  ASSUME IInv, UNCHANGED vars
  PROVE  IInv'
<1> USE DEF IInv
<1>10. TypeOK'
  BY DEF vars, TypeOK
<1>11. QueueOK'
  BY DEF vars, QueueOK
<1>12. Listed'
  <2> SUFFICES ASSUME NEW s \in Runs PROVE Agrees(s, row[s])'
    BY DEF Listed
  <2> QED
    BY DEF vars, Listed, Agrees
<1>13. Pending'
  BY DEF vars, Pending, Agrees
<1>14. Begun'
  <2> SUFFICES ASSUME NEW s \in Runs PROVE Begun!(s)'
    BY DEF Begun
  <2> QED
    BY DEF vars, Begun
<1>15. Quiet'
  BY DEF vars, Quiet
<1>16. Dates'
  <2> SUFFICES ASSUME NEW s \in Runs PROVE Dates!(s)'
    BY DEF Dates
  <2> QED
    BY DEF vars, Dates
<1> QED
  BY <1>10, <1>11, <1>12, <1>13, <1>14, <1>15, <1>16

LEMMA IInvStep == IInv /\ [Next]_vars => IInv'
<1> SUFFICES ASSUME IInv, [Next]_vars PROVE IInv'
  OBVIOUS
<1>1. ASSUME NEW r \in ConsoleRuns, PostRun(r) \/ Job(r) PROVE IInv'
  BY <1>1, PostRunStep, StartJobStep, GoesOnStep, JobUpsertStep DEF Job
<1>2. ASSUME NEW r \in CliRuns, StartCli(r) \/ Execute(r) \/ Finish(r) \/ Raise(r) \/ CliDies(r)
      PROVE  IInv'
  BY <1>2, StartCliStep, GoesOnStep, CliDiesStep
<1>3. ASSUME NEW q \in Queries, Query(q) PROVE IInv'
  BY <1>3, QueryStep
<1>4. CASE Startup
  BY <1>4, RestartStep, RecoverReadStep, RecoverWriteStep, PurgeStep, RefreshFullStep DEF Startup
<1>5. CASE Die \/ NextDay \/ UNCHANGED vars
  BY <1>5, DieStep, NextDayStep, StutterStep
<1> QED
  BY <1>1, <1>2, <1>3, <1>4, <1>5 DEF Next

\* The invariant of the index holds in every reachable state of the console.
THEOREM ConsoleInvariant == Spec => []IInv
BY InitIInv, IInvStep, PTL DEF Spec

\* Every reachable state is well typed; a thread only has the row of a run it read.
THEOREM TypeCorrect == Spec => []TypeOK
BY ConsoleInvariant, PTL DEF IInv

\* The listing never says of a run that is over anything else than its run.json,
\* however late and by however many threads the rows are written.
THEOREM ListingIsTrue == Spec => []ListedEndsAreTrue
<1>1. IInv => ListedEndsAreTrue
  BY DEF IInv, Listed, Agrees, ListedEndsAreTrue
<1> QED
  BY <1>1, ConsoleInvariant, PTL

\* ran_today never takes a day without a success for one with it.
THEOREM DeadlinesAreTrue == Spec => []NoFalseDeadline
<1>1. ASSUME IInv, RanToday(today) PROVE \E r \in Runs : day[r] = today /\ document[r] = "succeeded"
  <2>1. PICK r \in Runs : day[r] = today /\ row[r] = "succeeded"
    BY <1>1 DEF RanToday, Counts
  <2>2. document[r] # "absent"
    BY <1>1, <2>1 DEF IInv, TypeOK, Dates
  <2> QED
    BY <1>1, <2>1, <2>2 DEF IInv, Listed, Agrees
<1> QED
  BY <1>1, ConsoleInvariant, PTL DEF NoFalseDeadline

\* What a step does to a run that is over: a run of the command line may end where it
\* was taken for an orphan, and the purge may remove it.
LEMMA EndStep ==
  ASSUME IInv, [Next]_vars, NEW r \in Runs, document[r] \in Terminal, document'[r] # document[r]
  PROVE  document'[r] = "absent" \/ (r \in CliRuns /\ "orphaned" \in {document[r], document'[r]})
<1> USE DEF IInv
<1>1. ASSUME NEW x \in Runs, StartJob(x) \/ StartCli(x) PROVE FALSE
  <2>1. Begin(x)
    BY <1>1 DEF StartJob, StartCli
  <2>2. r = x
    BY <2>1, BeginRun
  <2>3. pc[r] \in {"idle", "queued"}
    BY <1>1, <2>2, TailOfQueue DEF StartJob, StartCli
  <2> QED
    BY <2>3 DEF Begun
<1>2. ASSUME NEW x \in Runs, Execute(x) \/ Finish(x) \/ Raise(x)
      PROVE  r \in CliRuns /\ document[r] = "orphaned"
  <2>1. r = x /\ pc[x] \in {"preparing", "running"}
    BY <1>2, RunGoesOn
  <2> QED
    BY <2>1 DEF Begun
<1>3. CASE RecoverWrite
  <2>1. orphan \in Runs /\ r = orphan /\ document'[r] = "orphaned"
    BY <1>3, WriteRun DEF RecoverWrite, TypeOK
  <2>2. r \in CliRuns
    BY <1>3, <2>1 DEF RecoverWrite, Quiet
  <2> QED
    BY <2>1, <2>2
<1>4. CASE Purge
  BY <1>4 DEF Purge, TypeOK
<1>5. CASE UNCHANGED document
  BY <1>5
<1> QED
  BY <1>1, <1>2, <1>3, <1>4, <1>5
     DEF Next, Job, Query, Startup, PostRun, JobUpsert, CliDies, QueryBegin, QueryRead, QueryWrite,
         Restart, RecoverRead, RefreshFull, Die, NextDay, vars

\* The end of a run is never rewritten: only a run of the command line may be taken for
\* an orphan, before or after it ends, and only the purge removes it.
THEOREM EndsStayFinal == Spec => EndsAreFinal
<1>1. IInv /\ [Next]_vars =>
        \A r \in Runs : document[r] \in Terminal /\ document'[r] # document[r] =>
          \/ document'[r] = "absent"
          \/ r \in CliRuns /\ "orphaned" \in {document[r], document'[r]}
  BY EndStep
<1> QED
  BY <1>1, ConsoleInvariant, PTL DEF Spec, EndsAreFinal
=============================================================================
