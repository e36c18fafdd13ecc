-------------------------- MODULE RunService_proofs --------------------------
(* Theorems about RunService, for every value of its constants. *)
EXTENDS RunService, WellFoundedInduction, TLAPS

-----------------------------------------------------------------------------
(* Type correctness. *)

\* The month of the day of a run is a month.
LEMMA MonthType ==
  ASSUME TypeOK, NEW r \in Runs
  PROVE  Month(r) \in Months
BY DEF TypeOK, Month, Months

\* Blocker returns a code of the error table, or none.
LEMMA BlockerType ==
  ASSUME NEW r \in Runs
  PROVE  /\ Blocker(r) \in ErrorCodes \cup {"none"}
         /\ StoreBlocker(r) \in ErrorCodes \cup {"none"}
BY DEF Blocker, StoreBlocker, ErrorCodes

\* The document in memory after the helper actions of the control flow.
LEMMA DocumentType ==
  ASSUME NEW document \in Document,
         NEW status \in TerminalStatuses, NEW code \in ErrorCodes \cup {"none"}
  PROVE  [document EXCEPT !.status = status, !.code = code] \in Document
BY DEF Document

\* A document stays one when its status changes.
LEMMA StatusType ==
  ASSUME NEW document \in Document, NEW status \in LiveStatuses \cup TerminalStatuses
  PROVE  [document EXCEPT !.status = status] \in Document
BY DEF Document

\* A document stays one when the state of its lineage changes.
LEMMA StateType ==
  ASSUME NEW document \in Document, NEW state \in StateStatuses
  PROVE  [document EXCEPT !.state = state] \in Document
BY DEF Document

\* A document stays one when the postconditions passed.
LEMMA PassedType ==
  ASSUME NEW document \in Document, NEW status \in TerminalStatuses
  PROVE  /\ [document EXCEPT !.passed = TRUE] \in Document
         /\ [document EXCEPT !.passed = TRUE, !.status = status] \in Document
BY DEF Document

\* A document stays one when an error is recorded.
LEMMA EffectType ==
  ASSUME NEW document \in Document, NEW state \in StateStatuses,
         NEW status \in TerminalStatuses, NEW code \in ErrorCodes \cup {"none"}
  PROVE  /\ [document EXCEPT !.state = state, !.status = status] \in Document
         /\ [document EXCEPT !.state = state, !.status = status, !.code = code]
              \in Document
BY DEF Document

\* An except clause leaves a document in memory and a step in pc.
LEMMA HandleType ==
  ASSUME TypeOK, NEW r \in Runs,
         NEW status \in TerminalStatuses, NEW code \in ErrorCodes \cup {"none"},
         Handle(r, status, code) \/ Conclude(r, status, code)
  PROVE  mem' \in [Runs -> Document] /\ pc' \in [Runs -> Steps]
<1> DEFINE document == [mem[r] EXCEPT !.status = status, !.code = code]
<1>1. mem[r] \in Document /\ mem \in [Runs -> Document]
  BY DEF TypeOK
<1>2. document \in Document
  BY <1>1, DocumentType
<1>3. mem' = [mem EXCEPT ![r] = document]
  BY DEF Handle, Conclude
<1>4. pc' \in [Runs -> Steps]
  BY DEF TypeOK, Handle, Conclude, Goto, Steps
<1>5. QED
  BY <1>1, <1>2, <1>3, <1>4

\* The last except clause does too.
LEMMA OSErrorType ==
  ASSUME TypeOK, NEW r \in Runs, HandleOSError(r)
  PROVE  mem' \in [Runs -> Document] /\ pc' \in [Runs -> Steps]
<1>1. IF mem[r].passed THEN Handle(r, "failed", "promotion_failed")
                       ELSE Handle(r, "failed", "validation_error")
  BY DEF HandleOSError
<1>2. QED
  BY <1>1, HandleType DEF TerminalStatuses, ErrorCodes

\* A run that moves stays on a step.
LEMMA GotoType ==
  ASSUME TypeOK, NEW r \in Runs, NEW step \in Steps, Goto(r, step)
  PROVE  pc' \in [Runs -> Steps]
BY DEF TypeOK, Goto

Less == {p \in Nat \X Nat : p[1] < p[2]}

\* Every non-empty set of naturals has a least element.
LEMMA LessIsWellFounded == IsWellFoundedOn(Less, Nat)
BY NatLessThanWellFounded, Zenon DEF OpToRel, Less

\* A non-empty set of days has a last one.
LEMMA LastDayExists ==
  ASSUME NEW S \in SUBSET Days, S # {}
  PROVE  \E e \in S : \A f \in S : f <= e
<1> DEFINE Bounds == {n \in Nat : \A f \in S : f <= n}
<1>1. LastDay \in Bounds
  BY CalendarAssumption DEF Days
<1>2. PICK n \in Bounds : \A k \in Bounds : n <= k
  <2>1. Bounds \subseteq Nat /\ Bounds # {}
    BY <1>1
  <2> HIDE DEF Bounds
  <2>2. PICK n \in Bounds : \A k \in Bounds : <<k, n>> \notin Less
    BY <2>1, WFMin, LessIsWellFounded
  <2>3. \A k \in Bounds : n <= k
    <3> SUFFICES ASSUME NEW k \in Bounds PROVE n <= k
      OBVIOUS
    <3>1. n \in Nat /\ k \in Nat /\ <<k, n>> \in Nat \X Nat
      BY <2>1
    <3>2. ~(<<k, n>>[1] < <<k, n>>[2])
      BY <2>2, <3>1 DEF Less
    <3>3. QED
      BY <3>1, <3>2
  <2>4. QED
    BY <2>3
<1>3. n \in S
  <2>1. CASE n = 0
    <3>1. PICK f \in S : TRUE
      OBVIOUS
    <3>2. f \in Days /\ f <= 0
      BY <1>2, <2>1
    <3>3. QED
      BY <3>2, CalendarAssumption DEF Days
  <2>2. CASE n # 0
    <3>1. n - 1 \notin Bounds /\ n - 1 \in Nat
      BY <1>2, <2>2
    <3>2. PICK f \in S : ~(f <= n - 1)
      BY <3>1
    <3>3. f \in Nat /\ f <= n
      BY <1>2, CalendarAssumption DEF Days
    <3>4. QED
      BY <1>2, <3>2, <3>3
  <2>3. QED
    BY <2>1, <2>2
<1>4. QED
  BY <1>2, <1>3

\* What LatestBefore returns.
LEMMA LatestBeforeIs ==
  ASSUME NEW m, NEW d
  PROVE  \/ /\ \A e \in Published(m) : ~(e < d)
            /\ LatestBefore(m, d) = None
         \/ \E e \in Published(m) : /\ e < d
                                    /\ \A f \in Published(m) : f < d => f <= e
                                    /\ LatestBefore(m, d) = snapshot[e]
<1> DEFINE S == {e \in Published(m) : e < d}
<1>1. S \in SUBSET Days
  BY DEF Published
<1>2. CASE S = {}
  BY <1>2 DEF LatestBefore
<1>3. CASE S # {}
  <2> DEFINE last == CHOOSE e \in S : \A f \in S : f <= e
  <2>1. last \in S /\ \A f \in S : f <= last
    BY <1>1, <1>3, LastDayExists
  <2>2. LatestBefore(m, d) = snapshot[last]
    BY <1>3 DEF LatestBefore
  <2>3. QED
    BY <2>1, <2>2
<1>4. QED
  BY <1>2, <1>3

\* LatestBefore returns a run or None.
LEMMA LatestType ==
  ASSUME TypeOK, NEW m
  PROVE  Latest(m) \in Runs \cup {None}
BY LatestBeforeIs DEF Latest, Published, TypeOK

\* A write of run.json, whatever it leaves, leaves documents.
LEMMA WriteType ==
  ASSUME TypeOK, NEW r \in Runs, NEW document \in Document,
         NEW returns \in BOOLEAN, WriteMetadata(r, document, returns)
  PROVE  disk' \in [Runs -> Document]
BY DEF TypeOK, WriteMetadata

\* Every variable of the runs and of the files keeps its type (service.py:37).
THEOREM TypeCorrect == Spec => []TypeOK
<1>1. Init => TypeOK
  BY RunAssumption, CalendarAssumption
  DEF Init, TypeOK, Days, Months, Steps, Document, NoDocument, StateStatuses
<1>2. TypeOK /\ [Next]_vars => TypeOK'
  <2> SUFFICES ASSUME TypeOK, [Next]_vars PROVE TypeOK'
    OBVIOUS
  <2> USE RunAssumption, CalendarAssumption, ModeAssumption
  <2>1. ASSUME NEW r \in Runs, Start(r) PROVE TypeOK'
    <3> DEFINE document == [NoDocument EXCEPT !.status = "preparing"]
    <3>1. document \in Document
      BY DEF Document, NoDocument, LiveStatuses, StateStatuses
    <3>2. /\ mem' \in [Runs -> Document]
          /\ disk' \in [Runs -> Document]
          /\ pc' \in [Runs -> Steps]
      BY <2>1, <3>1, WriteType DEF Start, TypeOK, Goto, Steps
    <3>3. QED
      BY <2>1, <3>2 DEF Start, TypeOK, sandbox, lineage, Days, Months
  <2>2. ASSUME NEW r \in Runs, Validate(r) PROVE TypeOK'
    <3>1. mem' \in [Runs -> Document] /\ pc' \in [Runs -> Steps]
      BY <2>2, HandleType
      DEF Validate, TypeOK, Goto, Steps, TerminalStatuses, ErrorCodes
    <3>2. QED
      BY <2>2, <3>1 DEF Validate, TypeOK, sandbox, lineage, Days, Months
  <2>3. ASSUME NEW r \in Runs, Preflight(r) PROVE TypeOK'
    <3>1. mem' \in [Runs -> Document] /\ pc' \in [Runs -> Steps]
      BY <2>3, HandleType, BlockerType
      DEF Preflight, TypeOK, Goto, Steps, TerminalStatuses
    <3>2. QED
      BY <2>3, <3>1 DEF Preflight, TypeOK, sandbox, lineage, Days, Months
  <2>4. ASSUME NEW r \in Runs, Acquire(r) PROVE TypeOK'
    <3>1. mem' \in [Runs -> Document] /\ pc' \in [Runs -> Steps]
      BY <2>4, HandleType, OSErrorType
      DEF Acquire, TypeOK, Goto, Steps, TerminalStatuses, ErrorCodes
    <3>2. lock' \in [Months -> Runs \cup {None}] /\ holds' \in [Runs -> BOOLEAN]
      BY <2>4, MonthType DEF Acquire, TypeOK
    <3>3. QED
      BY <2>4, <3>1, <3>2 DEF Acquire, TypeOK, sandbox, lineage, Days, Months
  <2>5. ASSUME NEW r \in Runs, Stage(r) PROVE TypeOK'
    <3>1. mem' \in [Runs -> Document] /\ pc' \in [Runs -> Steps]
      <4>1. [mem[r] EXCEPT !.state = "staged"] \in Document
        BY StateType DEF TypeOK, StateStatuses
      <4>2. CASE HandleOSError(r)
        BY <4>2, OSErrorType
      <4>3. CASE ~HandleOSError(r)
        BY <2>5, <4>1, <4>3 DEF Stage, TypeOK, Goto, Steps
      <4>4. QED
        BY <4>2, <4>3
    <3>2. parent' \in [Runs -> Runs \cup {None}]
      BY <2>5, MonthType DEF Stage, TypeOK
    <3>3. QED
      BY <2>5, <3>1, <3>2 DEF Stage, TypeOK, lineage, Days, Months
  <2>6. ASSUME NEW r \in Runs, Command(r) PROVE TypeOK'
    <3>1. [mem[r] EXCEPT !.status = "running"] \in Document
      BY StatusType DEF TypeOK, LiveStatuses
    <3>2. mem' \in [Runs -> Document] /\ pc' \in [Runs -> Steps]
      BY <2>6, <3>1, HandleType, OSErrorType
      DEF Command, TypeOK, Goto, Steps, TerminalStatuses, ErrorCodes
    <3>3. disk' \in [Runs -> Document]
      BY <2>6, <3>1, WriteType DEF Command, TypeOK
    <3>4. QED
      BY <2>6, <3>2, <3>3 DEF Command, TypeOK, sandbox, lineage, Days, Months
  <2>7. ASSUME NEW r \in Runs, Legacy(r) PROVE TypeOK'
    <3>1. mem' \in [Runs -> Document] /\ pc' \in [Runs -> Steps]
      BY <2>7, HandleType, OSErrorType
      DEF Legacy, TypeOK, Goto, Steps, TerminalStatuses, ErrorCodes
    <3>2. ContentOf(parent[r]) \in Runs \cup {None}
      BY DEF TypeOK, ContentOf
    <3>3. /\ content' \in [Runs -> Runs \cup {None}]
          /\ stamp' \in [Runs -> Days \cup {0}]
      BY <2>7, <3>2 DEF Legacy, TypeOK
    <3>4. QED
      BY <2>7, <3>1, <3>3 DEF Legacy, TypeOK, lineage, Days, Months
  <2>8. ASSUME NEW r \in Runs, Outputs(r) PROVE TypeOK'
    <3>1. /\ [mem[r] EXCEPT !.passed = TRUE] \in Document
          /\ [mem[r] EXCEPT !.passed = TRUE, !.status = "succeeded"] \in Document
      BY PassedType DEF TypeOK, TerminalStatuses
    <3>2. mem' \in [Runs -> Document] /\ pc' \in [Runs -> Steps]
      <4>1. CASE Handle(r, "failed", "postcondition_failed") \/ HandleOSError(r)
        BY <4>1, HandleType, OSErrorType DEF TerminalStatuses, ErrorCodes
      <4>2. CASE ~(Handle(r, "failed", "postcondition_failed") \/ HandleOSError(r))
        <5>1. \/ mem' = [mem EXCEPT ![r] = [mem[r] EXCEPT !.passed = TRUE]]
              \/ mem' = [mem EXCEPT ![r] = [mem[r] EXCEPT !.passed = TRUE,
                                                       !.status = "succeeded"]]
          BY <2>8, <4>2 DEF Outputs
        <5>2. mem' \in [Runs -> Document]
          BY <3>1, <5>1 DEF TypeOK
        <5>3. pc' \in [Runs -> Steps]
          BY <2>8, <4>2 DEF Outputs, TypeOK, Goto, Steps
        <5>4. QED
          BY <5>2, <5>3
      <4>3. QED
        BY <4>1, <4>2
    <3>3. QED
      BY <2>8, <3>2 DEF Outputs, TypeOK, sandbox, lineage, Days, Months
  <2>9. ASSUME NEW r \in Runs, Promote(r) PROVE TypeOK'
    <3>1. mem' \in [Runs -> Document] /\ pc' \in [Runs -> Steps]
      BY <2>9, HandleType, BlockerType
      DEF Promote, TypeOK, Goto, Steps, TerminalStatuses, ErrorCodes
    <3>2. QED
      BY <2>9, <3>1 DEF Promote, TypeOK, sandbox, lineage, Days, Months
  <2>10. ASSUME NEW r \in Runs, PublishSnapshot(r) PROVE TypeOK'
    <3>1. mem' \in [Runs -> Document] /\ pc' \in [Runs -> Steps]
      BY <2>10, HandleType
      DEF PublishSnapshot, HandlePublished, TypeOK, Goto, Steps, TerminalStatuses,
          ErrorCodes
    <3>2. snapshot' \in [Days -> Runs \cup {None}]
      BY <2>10 DEF PublishSnapshot, TypeOK
    <3>3. QED
      BY <2>10, <3>1, <3>2 DEF PublishSnapshot, TypeOK, sandbox, Days, Months
  <2>11. ASSUME NEW r \in Runs, PublishCurrent(r) PROVE TypeOK'
    <3>1. [mem[r] EXCEPT !.state = "promoted", !.status = "succeeded"] \in Document
      BY EffectType DEF TypeOK, StateStatuses, TerminalStatuses
    <3>2. mem' \in [Runs -> Document] /\ pc' \in [Runs -> Steps]
      BY <2>11, <3>1 DEF PublishCurrent, TypeOK, Goto, Steps
    <3>3. current' \in [Months -> Runs \cup {None}]
      BY <2>11, MonthType DEF PublishCurrent, TypeOK
    <3>4. QED
      BY <2>11, <3>2, <3>3 DEF PublishCurrent, TypeOK, sandbox, Days, Months
  <2>12. ASSUME NEW r \in Runs, PersistRecovery(r) PROVE TypeOK'
    <3>1. [mem[r] EXCEPT !.state = "recovery_required", !.status = "blocked",
                         !.code = "recovery_required"] \in Document
      BY EffectType DEF TypeOK, StateStatuses, TerminalStatuses, ErrorCodes
    <3>2. mem' \in [Runs -> Document] /\ pc' \in [Runs -> Steps]
      BY <2>12, <3>1, HandleType
      DEF PersistRecovery, TypeOK, Goto, Steps, TerminalStatuses, ErrorCodes
    <3>3. marker' \in [Months -> BOOLEAN]
      BY <2>12, MonthType DEF PersistRecovery, Marked, TypeOK
    <3>4. QED
      BY <2>12, <3>2, <3>3 DEF PersistRecovery, TypeOK, sandbox, Days, Months
  <2>13. ASSUME NEW r \in Runs, FinishBody(r) PROVE TypeOK'
    <3>1. mem' \in [Runs -> Document] /\ pc' \in [Runs -> Steps]
      BY <2>13, OSErrorType DEF FinishBody, TypeOK, Goto, Steps
    <3>2. disk' \in [Runs -> Document]
      BY <2>13, WriteType DEF FinishBody, TypeOK
    <3>3. QED
      BY <2>13, <3>1, <3>2 DEF FinishBody, TypeOK, sandbox, lineage, Days, Months
  <2>14. ASSUME NEW r \in Runs, FinishHandler(r) PROVE TypeOK'
    <3>1. disk' \in [Runs -> Document]
      BY <2>14, WriteType DEF FinishHandler, TypeOK
    <3>2. QED
      BY <2>14, <3>1
      DEF FinishHandler, TypeOK, Goto, Steps, sandbox, lineage, Days, Months
  <2>15. ASSUME NEW r \in Runs, Release(r) PROVE TypeOK'
    <3>1. lock' \in [Months -> Runs \cup {None}] /\ holds' \in [Runs -> BOOLEAN]
      BY <2>15, MonthType DEF Release, TypeOK
    <3>2. QED
      BY <2>15, <3>1 DEF Release, TypeOK, Goto, Steps, sandbox, lineage, Days, Months
  <2>16. ASSUME NEW r \in Runs, Crash(r) PROVE TypeOK'
    BY <2>16 DEF Crash, TypeOK, Goto, Steps, sandbox, lineage, Days, Months
  <2>17. CASE NextDay
    <3>1. today' \in Days
      BY <2>17 DEF NextDay, TypeOK, Days
    <3>2. QED
      BY <2>17, <3>1 DEF NextDay, TypeOK, sandbox, lineage, Days, Months
  <2>18. ASSUME NEW m \in Months, UnlockStale(m) PROVE TypeOK'
    BY <2>18 DEF UnlockStale, TypeOK, sandbox, lineage, Days, Months
  <2>19. ASSUME NEW m \in Months, RepairLineage(m) PROVE TypeOK'
    <3>1. Latest(m) \in Runs \cup {None}
      BY LatestType
    <3>2. QED
      BY <2>19, <3>1 DEF RepairLineage, TypeOK, sandbox, Days, Months
  <2>20. CASE UNCHANGED vars
    BY <2>20 DEF vars, TypeOK, sandbox, lineage, Days, Months
  <2>21. QED
    BY <2>1, <2>2, <2>3, <2>4, <2>5, <2>6, <2>7, <2>8, <2>9, <2>10, <2>11, <2>12,
       <2>13, <2>14, <2>15, <2>16, <2>17, <2>18, <2>19, <2>20 DEF Next, Continue
<1>3. QED
  BY <1>1, <1>2, PTL DEF Spec

-----------------------------------------------------------------------------
(***************************************************************************)
(* Mutual exclusion, immutable snapshots and promotion in order.           *)
(*                                                                         *)
(* The three properties need one inductive invariant.  A run between the   *)
(* acquisition and the promotion owns the lock of its month (LockInv and   *)
(* CriticalInv), so nobody else publishes there; what the second preflight *)
(* saw is still true when the snapshot is published (PromoteInv); and the  *)
(* second validation, made with the lock in hand, leaves no published day  *)
(* of the month after that of the run (DayInv).                            *)
(***************************************************************************)
Critical == {"stage", "command", "legacy", "outputs", "promote", "snapshot",
             "current", "evidence"}
Computing == {"legacy", "outputs", "promote", "snapshot"}

LockInv == \A r \in Runs : holds[r] => lock[Month(r)] = r
CriticalInv == \A r \in Runs : pc[r] \in Critical => holds[r]
PromoteInv == \A r \in Runs : pc[r] = "snapshot" => snapshot[day[r]] = None
DayInv ==
  /\ \A d \in Days : snapshot[d] # None => d <= today
  /\ \A r \in Runs : pc[r] \in Computing =>
       /\ day[r] <= today
       /\ \A e \in Published(Month(r)) : e <= day[r]

MonthInv == LockInv /\ CriticalInv /\ PromoteInv /\ DayInv

\* Two runs that hold the lock of one month are the same run.
LEMMA OneHolder ==
  ASSUME LockInv, NEW r \in Runs, NEW s \in Runs, holds[r], holds[s],
         Month(r) = Month(s)
  PROVE  r = s
BY DEF LockInv

\* A step that moves one run and leaves the lock and the snapshots alone.
LEMMA QuietStep ==
  ASSUME TypeOK, MonthInv, NEW r \in Runs, NEW step \in Steps, Goto(r, step),
         UNCHANGED <<today, day, holds, lock, snapshot>>,
         step \in Critical => pc[r] \in Critical,
         step = "snapshot" => snapshot[day[r]] = None,
         step \in Computing => pc[r] \in Computing \/ day[r] = today
  PROVE  MonthInv'
<1>1. \A s \in Runs : pc'[s] = IF s = r THEN step ELSE pc[s]
  BY DEF Goto, TypeOK
<1>2. \A s \in Runs : Month(s)' = Month(s)
  BY DEF Month
<1>3. \A m : Published(m)' = Published(m)
  BY DEF Published
<1>4. LockInv'
  BY <1>2 DEF MonthInv, LockInv
<1>5. CriticalInv'
  BY <1>1 DEF MonthInv, CriticalInv
<1>6. PromoteInv'
  BY <1>1 DEF MonthInv, PromoteInv
<1>7. DayInv'
  <2>1. \A d \in Days : snapshot'[d] # None => d <= today'
    BY DEF MonthInv, DayInv
  <2>2. ASSUME NEW s \in Runs, pc'[s] \in Computing
        PROVE  /\ day[s] <= today
               /\ \A e \in Published(Month(s)) : e <= day[s]
    <3>1. CASE pc[s] \in Computing
      BY <2>2, <3>1 DEF MonthInv, DayInv
    <3>2. CASE pc[s] \notin Computing
      <4>1. day[s] = today
        BY <1>1, <2>2, <3>2
      <4>2. day[s] \in Nat
        BY CalendarAssumption DEF TypeOK, Days
      <4>3. QED
        BY <4>1, <4>2 DEF MonthInv, DayInv, Published
    <3>3. QED
      BY <3>1, <3>2
  <2>3. QED
    BY <1>2, <1>3, <2>1, <2>2 DEF DayInv
<1>8. QED
  BY <1>4, <1>5, <1>6, <1>7 DEF MonthInv

\* An except clause moves its run to the handler and no other.
LEMMA HandleQuiet ==
  ASSUME TypeOK, MonthInv, NEW r \in Runs,
         \/ pc' = [pc EXCEPT ![r] = "handler"]
         \/ pc' = [pc EXCEPT ![r] = "finish"],
         UNCHANGED <<today, day, holds, lock, snapshot>>
  PROVE  MonthInv'
BY QuietStep DEF Goto, Steps, Critical, Computing

\* acquire_lock preserves the invariant of the month.
LEMMA AcquirePreserves ==
  ASSUME TypeOK, MonthInv, NEW r \in Runs, Acquire(r)
  PROVE  MonthInv'
<1>1. CASE UNCHANGED <<lock, holds>> /\ pc' = [pc EXCEPT ![r] = "handler"]
  BY <1>1, HandleQuiet DEF Acquire, lineage
<1>2. CASE /\ lock[Month(r)] = None
           /\ lock' = [lock EXCEPT ![Month(r)] = r]
           /\ UNCHANGED holds
           /\ HandleOSError(r)
  <2>1. pc' = [pc EXCEPT ![r] = "handler"]
    BY <1>2 DEF HandleOSError, Handle, Goto
  <2>2. \A s \in Runs : holds[s] => lock'[Month(s)] = s
    BY <1>2, MonthType, RunAssumption DEF MonthInv, LockInv, TypeOK
  <2>3. LockInv'
    BY <1>2, <2>2 DEF LockInv, Acquire, Month
  <2>4. CriticalInv' /\ PromoteInv' /\ DayInv'
    BY <1>2, <2>1
    DEF MonthInv, CriticalInv, PromoteInv, DayInv, Acquire, lineage, Published,
        Month, Critical, Computing, TypeOK
  <2>5. QED
    BY <2>3, <2>4 DEF MonthInv
<1>3. CASE /\ lock[Month(r)] = None
           /\ lock' = [lock EXCEPT ![Month(r)] = r]
           /\ holds' = [holds EXCEPT ![r] = TRUE]
           /\ Goto(r, "stage")
  <2>1. \A s \in Runs : holds'[s] => lock'[Month(s)] = s
    BY <1>3, MonthType, RunAssumption DEF MonthInv, LockInv, TypeOK
  <2>2. LockInv'
    BY <2>1 DEF LockInv, Acquire, Month
  <2>3. CriticalInv' /\ PromoteInv' /\ DayInv'
    BY <1>3
    DEF MonthInv, CriticalInv, PromoteInv, DayInv, Acquire, lineage, Published,
        Month, Goto, Critical, Computing, TypeOK
  <2>4. QED
    BY <2>2, <2>3 DEF MonthInv
<1>4. QED
  BY <1>1, <1>2, <1>3 DEF Acquire, HandleOSError, Handle, Goto

\* Only this action publishes a snapshot, and the run that takes it is the
\* only one of its month in a critical step.
LEMMA PublishSnapshotPreserves ==
  ASSUME TypeOK, MonthInv, NEW r \in Runs, PublishSnapshot(r)
  PROVE  /\ MonthInv'
         /\ \/ UNCHANGED snapshot
            \/ /\ snapshot' = [snapshot EXCEPT ![day[r]] = r]
               /\ snapshot[day[r]] = None
               /\ \A e \in Published(Month(r)) : e < day[r]
<1>1. CASE UNCHANGED snapshot /\ Handle(r, "failed", "promotion_failed")
  BY <1>1, HandleQuiet DEF PublishSnapshot, Handle, Goto
<1>2. CASE /\ snapshot' = [snapshot EXCEPT ![day[r]] = r]
           /\ Goto(r, "current") \/ Goto(r, "evidence")
  <2>1. /\ pc[r] = "snapshot" /\ holds[r] /\ day[r] \in Days
        /\ snapshot[day[r]] = None
        /\ UNCHANGED <<today, day, holds, lock>>
    BY <1>2 DEF PublishSnapshot, MonthInv, CriticalInv, PromoteInv, Critical, TypeOK
  <2>2. \A e \in Published(Month(r)) : e \in Days /\ e <= day[r] /\ e # day[r]
    BY <2>1 DEF MonthInv, DayInv, Computing, Published
  <2>3. day[r] \in Nat /\ \A e \in Days : e \in Nat
    BY <2>1, CalendarAssumption DEF Days
  <2>4. \A e \in Published(Month(r)) : e < day[r]
    BY <2>2, <2>3
  <2>5. \A s \in Runs : pc'[s] \in Critical =>
           IF s = r THEN pc'[s] \in {"current", "evidence"}
                    ELSE pc'[s] = pc[s] /\ holds[s] /\ Month(s) # Month(r)
    BY <1>2, <2>1, OneHolder DEF MonthInv, CriticalInv, Goto, TypeOK
  <2>6. LockInv' /\ CriticalInv'
    BY <2>1, <2>5 DEF MonthInv, LockInv, CriticalInv, Month
  <2>7. PromoteInv'
    <3> SUFFICES ASSUME NEW s \in Runs, pc'[s] = "snapshot"
                 PROVE  snapshot'[day[s]] = None
      BY <2>1 DEF PromoteInv
    <3>1. pc[s] = "snapshot" /\ Month(s) # Month(r)
      BY <2>5 DEF Critical
    <3>2. day[s] # day[r] /\ snapshot[day[s]] = None
      BY <3>1 DEF Month, MonthInv, PromoteInv
    <3>3. QED
      BY <1>2, <3>2 DEF TypeOK
  <2>8. DayInv'
    <3>1. day[r] <= today
      BY <2>1 DEF MonthInv, DayInv, Computing
    <3>2. \A d \in Days : snapshot'[d] # None => d <= today
      BY <1>2, <3>1 DEF MonthInv, DayInv, TypeOK
    <3>3. ASSUME NEW s \in Runs, pc'[s] \in Computing
          PROVE  /\ day[s] <= today
                 /\ \A e \in Published(Month(s))' : e <= day[s]
      <4>1. pc[s] \in Computing /\ Month(s) # Month(r)
        BY <2>5, <3>3 DEF Computing, Critical
      <4>2. Published(Month(s))' = Published(Month(s))
        BY <1>2, <2>1, <4>1 DEF Published, Month, TypeOK
      <4>3. QED
        BY <4>1, <4>2 DEF MonthInv, DayInv
    <3>4. QED
      BY <2>1, <3>2, <3>3 DEF DayInv
  <2>9. QED
    BY <1>2, <2>1, <2>4, <2>6, <2>7, <2>8 DEF MonthInv
<1>3. QED
  BY <1>1, <1>2 DEF PublishSnapshot, HandlePublished

\* So does the finally clause, ...
LEMMA ReleasePreserves ==
  ASSUME TypeOK, MonthInv, NEW r \in Runs, Release(r)
  PROVE  MonthInv'
<1>1. /\ UNCHANGED <<today, day, snapshot>>
      /\ holds' = [holds EXCEPT ![r] = FALSE]
      /\ pc' = [pc EXCEPT ![r] = "done"]
      /\ lock' = lock \/ (holds[r] /\ lock' = [lock EXCEPT ![Month(r)] = None])
  BY DEF Release, MustRelease, Goto, lineage
<1>2. \A s \in Runs : holds'[s] => s # r /\ holds[s] /\ lock[Month(s)] = s
  BY <1>1 DEF MonthInv, LockInv, TypeOK
<1>3. \A s \in Runs : holds'[s] => lock'[Month(s)] = s
  <2> SUFFICES ASSUME NEW s \in Runs, holds'[s] PROVE lock'[Month(s)] = s
    OBVIOUS
  <2>1. s # r /\ holds[s] /\ lock[Month(s)] = s
    BY <1>2
  <2>2. CASE lock' = lock
    BY <2>1, <2>2
  <2>3. CASE holds[r] /\ lock' = [lock EXCEPT ![Month(r)] = None]
    <3>1. Month(s) # Month(r)
      BY <2>1, <2>3, OneHolder DEF MonthInv
    <3>2. Month(s) \in Months /\ lock \in [Months -> Runs \cup {None}]
      BY MonthType DEF TypeOK
    <3>3. QED
      BY <2>1, <2>3, <3>1, <3>2
  <2>4. QED
    BY <1>1, <2>2, <2>3
<1>4. LockInv'
  BY <1>1, <1>3 DEF LockInv, Month
<1>5. CriticalInv' /\ PromoteInv' /\ DayInv'
  BY <1>1
  DEF MonthInv, CriticalInv, PromoteInv, DayInv, Published, Month, Critical,
      Computing, TypeOK
<1>6. QED
  BY <1>4, <1>5 DEF MonthInv

\* ... and the death of the process.
LEMMA CrashPreserves ==
  ASSUME TypeOK, MonthInv, NEW r \in Runs, Crash(r)
  PROVE  MonthInv'
<1>1. /\ UNCHANGED <<today, day, lock, snapshot>>
      /\ holds' = [holds EXCEPT ![r] = FALSE]
      /\ pc' = [pc EXCEPT ![r] = "crashed"]
  BY DEF Crash, Goto, lineage
<1>2. QED
  BY <1>1
  DEF MonthInv, LockInv, CriticalInv, PromoteInv, DayInv, Published, Month, Critical,
      Computing, TypeOK

\* The steps of the environment.
LEMMA EnvironmentPreserves ==
  ASSUME TypeOK, MonthInv,
         NextDay \/ \E m \in Months : UnlockStale(m) \/ RepairLineage(m)
  PROVE  MonthInv' /\ UNCHANGED snapshot
<1>1. CASE NextDay
  <2>1. today' = today + 1 /\ today \in Nat /\ \A d \in Days : d \in Nat
    BY <1>1, CalendarAssumption DEF NextDay, TypeOK, Days
  <2>2. UNCHANGED <<day, pc, holds, lock, snapshot>>
    BY <1>1 DEF NextDay, lineage
  <2>3. LockInv' /\ CriticalInv' /\ PromoteInv'
    BY <2>2 DEF MonthInv, LockInv, CriticalInv, PromoteInv, Month
  <2>4. \A d \in Days : d <= today => d <= today'
    BY <2>1
  <2>5. \A d \in Days : snapshot'[d] # None => d <= today'
    BY <2>2, <2>4 DEF MonthInv, DayInv
  <2>6. \A r \in Runs : pc'[r] \in Computing =>
           /\ day[r] <= today'
           /\ \A e \in Published(Month(r)) : e <= day[r]
    BY <2>2, <2>4 DEF MonthInv, DayInv, TypeOK
  <2>7. DayInv'
    BY <2>2, <2>5, <2>6 DEF DayInv, Published, Month
  <2>8. QED
    BY <2>2, <2>3, <2>7 DEF MonthInv
<1>2. ASSUME NEW m \in Months, UnlockStale(m)
      PROVE  MonthInv' /\ UNCHANGED snapshot
  <2>1. /\ UNCHANGED <<today, day, pc, holds, snapshot>>
        /\ lock[m] # None /\ ~holds[lock[m]]
        /\ lock' = [lock EXCEPT ![m] = None]
    BY <1>2 DEF UnlockStale, lineage
  <2>2. \A s \in Runs : holds[s] => Month(s) # m /\ lock[Month(s)] = s
    BY <2>1 DEF MonthInv, LockInv
  <2>3. LockInv'
    BY <2>1, <2>2 DEF LockInv, Month, TypeOK
  <2>4. CriticalInv' /\ PromoteInv' /\ DayInv'
    BY <2>1 DEF MonthInv, CriticalInv, PromoteInv, DayInv, Published, Month
  <2>5. QED
    BY <2>1, <2>3, <2>4 DEF MonthInv
<1>3. ASSUME NEW m \in Months, RepairLineage(m)
      PROVE  MonthInv' /\ UNCHANGED snapshot
  BY <1>3
  DEF RepairLineage, MonthInv, LockInv, CriticalInv, PromoteInv, DayInv, Published,
      Month
<1>4. QED
  BY <1>1, <1>2, <1>3

\* What a step of the system does to the invariant and to the snapshots.
LEMMA MonthStep ==
  ASSUME TypeOK, MonthInv, [Next]_vars
  PROVE  /\ MonthInv'
         /\ \/ UNCHANGED snapshot
            \/ \E r \in Runs :
                 /\ snapshot' = [snapshot EXCEPT ![day[r]] = r]
                 /\ snapshot[day[r]] = None
                 /\ \A e \in Published(Month(r)) : e < day[r]
<1> DEFINE Good ==
      /\ MonthInv'
      /\ \/ UNCHANGED snapshot
         \/ \E r \in Runs :
              /\ snapshot' = [snapshot EXCEPT ![day[r]] = r]
              /\ snapshot[day[r]] = None
              /\ \A e \in Published(Month(r)) : e < day[r]
<1> SUFFICES Good
  OBVIOUS
<1>1. ASSUME NEW r \in Runs, NEW step \in Steps, Goto(r, step),
             UNCHANGED <<today, day, holds, lock, snapshot>>,
             step \in Critical => pc[r] \in Critical,
             step = "snapshot" => snapshot[day[r]] = None,
             step \in Computing => pc[r] \in Computing \/ day[r] = today
      PROVE  Good
  BY <1>1, QuietStep
<1> HIDE DEF Good
<1>2. ASSUME NEW r \in Runs, Start(r) PROVE Good
  BY <1>1, <1>2 DEF Start, lineage, Steps, Critical, Computing
<1>3. ASSUME NEW r \in Runs, Validate(r) PROVE Good
  BY <1>1, <1>3 DEF Validate, Handle, lineage, Steps, Critical, Computing
<1>4. ASSUME NEW r \in Runs, Preflight(r) PROVE Good
  BY <1>1, <1>4 DEF Preflight, Handle, lineage, Steps, Critical, Computing
<1>5. ASSUME NEW r \in Runs, Acquire(r) PROVE Good
  BY <1>5, AcquirePreserves DEF Good, Acquire, lineage
<1>6. ASSUME NEW r \in Runs, Stage(r) PROVE Good
  BY <1>1, <1>6 DEF Stage, HandleOSError, Handle, lineage, Steps, Critical, Computing
<1>7. ASSUME NEW r \in Runs, Command(r) PROVE Good
  BY <1>1, <1>7
  DEF Command, StillToday, HandleOSError, Handle, lineage, Steps, Critical, Computing
<1>8. ASSUME NEW r \in Runs, Legacy(r) PROVE Good
  BY <1>1, <1>8
  DEF Legacy, Conclude, HandleOSError, Handle, lineage, Steps, Critical, Computing
<1>9. ASSUME NEW r \in Runs, Outputs(r) PROVE Good
  BY <1>1, <1>9
  DEF Outputs, HandleOSError, Handle, lineage, Steps, Critical, Computing
<1>10. ASSUME NEW r \in Runs, Promote(r) PROVE Good
  <2>1. StoreBlocker(r) = "none" => snapshot[day[r]] = None
    BY DEF StoreBlocker, Blocker
  <2>2. QED
    BY <1>1, <1>10, <2>1
    DEF Promote, Handle, lineage, Steps, Critical, Computing
<1>11. ASSUME NEW r \in Runs, PublishSnapshot(r) PROVE Good
  BY <1>11, PublishSnapshotPreserves DEF Good
<1>12. ASSUME NEW r \in Runs, PublishCurrent(r) PROVE Good
  BY <1>1, <1>12 DEF PublishCurrent, Steps, Critical, Computing
<1>13. ASSUME NEW r \in Runs, PersistRecovery(r) PROVE Good
  BY <1>1, <1>13 DEF PersistRecovery, Handle, Steps, Critical, Computing
<1>14. ASSUME NEW r \in Runs, FinishBody(r) PROVE Good
  BY <1>1, <1>14
  DEF FinishBody, HandleOSError, Handle, lineage, Steps, Critical, Computing
<1>15. ASSUME NEW r \in Runs, FinishHandler(r) PROVE Good
  BY <1>1, <1>15 DEF FinishHandler, lineage, Steps, Critical, Computing
<1>16. ASSUME NEW r \in Runs, Release(r) PROVE Good
  BY <1>16, ReleasePreserves DEF Good, Release, lineage
<1>17. ASSUME NEW r \in Runs, Crash(r) PROVE Good
  BY <1>17, CrashPreserves DEF Good, Crash, lineage
<1>18. CASE NextDay \/ \E m \in Months : UnlockStale(m) \/ RepairLineage(m)
  BY <1>18, EnvironmentPreserves DEF Good
<1>19. CASE UNCHANGED vars
  BY <1>19
  DEF Good, vars, lineage, MonthInv, LockInv, CriticalInv, PromoteInv, DayInv,
      Published, Month
<1>20. QED
  BY <1>2, <1>3, <1>4, <1>5, <1>6, <1>7, <1>8, <1>9, <1>10, <1>11, <1>12, <1>13,
     <1>14, <1>15, <1>16, <1>17, <1>18, <1>19 DEF Next, Continue

\* The steps of execute between the acquisition of the lock and the publication
\* are protected by the lock of the month (service.py:56, state_store.py:168).
THEOREM MonthInvariant == Spec => [](TypeOK /\ MonthInv)
<1>1. Init => MonthInv
  <2> SUFFICES ASSUME Init PROVE MonthInv
    OBVIOUS
  <2>1. /\ \A r \in Runs : pc[r] = "idle" /\ ~holds[r]
        /\ \A d \in Days : snapshot[d] = None
    BY DEF Init
  <2>2. QED
    BY <2>1
    DEF MonthInv, LockInv, CriticalInv, PromoteInv, DayInv, Critical, Computing
<1>2. TypeOK /\ MonthInv /\ [Next]_vars => MonthInv'
  BY MonthStep
<1>3. QED
  BY <1>1, <1>2, TypeCorrect, PTL DEF Spec

\* Two runs of one month never hold its lock together, whatever fails and
\* whatever the operator repairs (service.py:56 and 107).
THEOREM MutualExclusionHolds == Spec => []MutualExclusion
<1>1. MonthInv => MutualExclusion
  BY OneHolder DEF MonthInv, MutualExclusion
<1>2. QED
  BY <1>1, MonthInvariant, PTL

\* No step replaces a published snapshot (state_store.py:168).
THEOREM SnapshotsAreImmutable == Spec => SnapshotsImmutable
<1>1. TypeOK /\ MonthInv /\ [Next]_vars =>
        [\A d \in Days : snapshot[d] # None => snapshot'[d] = snapshot[d]]_vars
  <2> SUFFICES ASSUME TypeOK, MonthInv, [Next]_vars,
                      NEW d \in Days, snapshot[d] # None
               PROVE  snapshot'[d] = snapshot[d]
    OBVIOUS
  <2>1. CASE UNCHANGED snapshot
    BY <2>1
  <2>2. ASSUME NEW r \in Runs, snapshot[day[r]] = None,
               snapshot' = [snapshot EXCEPT ![day[r]] = r]
        PROVE  snapshot'[d] = snapshot[d]
    BY <2>2 DEF TypeOK
  <2>3. QED
    BY <2>1, <2>2, MonthStep
<1>2. QED
  BY <1>1, MonthInvariant, PTL DEF Spec, SnapshotsImmutable

\* A snapshot is published after those of every earlier day of its month only
\* (contracts.py:50-71, run_store.py:96).
THEOREM DaysArePromotedInOrder == Spec => DaysInOrder
<1>1. TypeOK /\ MonthInv /\ [Next]_vars =>
        [\A d \in Days : snapshot'[d] # snapshot[d] =>
            \A e \in Published(MonthOf[d]) : e < d]_vars
  <2> SUFFICES ASSUME TypeOK, MonthInv, [Next]_vars,
                      NEW d \in Days, snapshot'[d] # snapshot[d]
               PROVE  \A e \in Published(MonthOf[d]) : e < d
    OBVIOUS
  <2>1. PICK r \in Runs : /\ snapshot' = [snapshot EXCEPT ![day[r]] = r]
                          /\ \A e \in Published(Month(r)) : e < day[r]
    BY MonthStep
  <2>2. d = day[r]
    BY <2>1 DEF TypeOK
  <2>3. QED
    BY <2>1, <2>2 DEF Month
<1>2. QED
  BY <1>1, MonthInvariant, PTL DEF Spec, DaysInOrder

-----------------------------------------------------------------------------
(***************************************************************************)
(* What succeeded means.  A run becomes succeeded only after it published  *)
(* its snapshot, and the snapshot stays; run.json never holds a document   *)
(* that the run did not have in memory.                                    *)
(***************************************************************************)
Working == Steps \ {"finish", "handler", "release", "done", "crashed"}

Honest(r, document) ==
  Stateful /\ document.status = "succeeded" =>
    snapshot[day[r]] = r /\ document.state = "promoted"

ReportInv ==
  \A r \in Runs :
    /\ pc[r] \in {"current", "evidence"} => snapshot[day[r]] = r
    /\ pc[r] \in Working => mem[r].status # "succeeded"
    /\ Honest(r, mem[r])
    /\ Honest(r, disk[r])

\* A step of one run.
LEMMA ReportStep ==
  ASSUME TypeOK, MonthInv, ReportInv, [Next]_vars, UNCHANGED day,
         NEW r \in Runs,
         \A s \in Runs \ {r} : /\ pc'[s] = pc[s]
                               /\ mem'[s] = mem[s]
                               /\ disk'[s] = disk[s],
         pc'[r] \in {"current", "evidence"} => snapshot'[day[r]] = r,
         pc'[r] \in Working => mem'[r].status # "succeeded",
         Honest(r, mem[r])',
         disk'[r].status = "succeeded" => disk'[r] \in {disk[r], mem[r]}
  PROVE  ReportInv'
<1>1. \A s \in Runs : snapshot[day[s]] = s => snapshot'[day[s]] = s
  <2> SUFFICES ASSUME NEW s \in Runs, snapshot[day[s]] = s
               PROVE  snapshot'[day[s]] = s
    OBVIOUS
  <2>1. day[s] \in Days /\ snapshot[day[s]] # None
    BY RunAssumption DEF TypeOK
  <2>2. QED
    BY <2>1, MonthStep DEF TypeOK
<1>2. ASSUME NEW s \in Runs \ {r}
      PROVE  /\ pc'[s] \in {"current", "evidence"} => snapshot'[day[s]] = s
             /\ pc'[s] \in Working => mem'[s].status # "succeeded"
             /\ Honest(s, mem[s])'
             /\ Honest(s, disk[s])'
  BY <1>1, <1>2 DEF ReportInv, Honest
<1>3. Honest(r, disk[r])'
  BY <1>1 DEF ReportInv, Honest
<1>4. QED
  BY <1>2, <1>3 DEF ReportInv

\* The document after Handle, Conclude or HandleOSError is not succeeded.
LEMMA HandleReport ==
  ASSUME TypeOK, NEW r \in Runs, NEW status, NEW code, status # "succeeded",
         Handle(r, status, code) \/ Conclude(r, status, code)
  PROVE  /\ pc'[r] \notin Working /\ pc'[r] \notin {"current", "evidence"}
         /\ mem'[r].status # "succeeded"
         /\ \A s \in Runs \ {r} : pc'[s] = pc[s] /\ mem'[s] = mem[s]
<1>1. mem[r] \in Document /\ mem \in [Runs -> Document] /\ pc \in [Runs -> Steps]
  BY DEF TypeOK
<1> DEFINE document == [mem[r] EXCEPT !.status = status, !.code = code]
<1>2. document.status = status
  BY <1>1 DEF Document
<1>3. /\ mem' = [mem EXCEPT ![r] = document]
      /\ pc' = [pc EXCEPT ![r] = "handler"] \/ pc' = [pc EXCEPT ![r] = "finish"]
  BY DEF Handle, Conclude, Goto
<1> HIDE DEF document
<1>4. QED
  BY <1>1, <1>2, <1>3 DEF Working

\* Nor is it after the last except clause.
LEMMA OSErrorReport ==
  ASSUME TypeOK, NEW r \in Runs, HandleOSError(r)
  PROVE  /\ pc'[r] \notin Working /\ pc'[r] \notin {"current", "evidence"}
         /\ mem'[r].status # "succeeded"
         /\ \A s \in Runs \ {r} : pc'[s] = pc[s] /\ mem'[s] = mem[s]
BY HandleReport DEF HandleOSError

\* run.json has the document of before or the one that was written.
LEMMA WriteReport ==
  ASSUME TypeOK, NEW r \in Runs, NEW document, NEW returns,
         WriteMetadata(r, document, returns)
  PROVE  /\ disk'[r] \in {disk[r], document}
         /\ \A s \in Runs \ {r} : disk'[s] = disk[s]
BY DEF WriteMetadata, TypeOK

\* What the documents say is preserved by every step.
LEMMA ReportInductive ==
  ASSUME TypeOK, MonthInv, ReportInv, [Next]_vars
  PROVE  ReportInv'
<1> DEFINE Good == ReportInv'
<1> SUFFICES Good
  OBVIOUS
<1> DEFINE Elsewhere(r) ==
      \A s \in Runs \ {r} : pc'[s] = pc[s] /\ mem'[s] = mem[s] /\ disk'[s] = disk[s]
<1>1. ASSUME NEW r \in Runs, UNCHANGED day, Elsewhere(r),
             pc'[r] \in {"current", "evidence"} => snapshot'[day[r]] = r,
             pc'[r] \in Working => mem'[r].status # "succeeded",
             Honest(r, mem[r])',
             disk'[r].status = "succeeded" => disk'[r] \in {disk[r], mem[r]}
      PROVE  Good
  BY <1>1, ReportStep
<1>2. ASSUME NEW r \in Runs, UNCHANGED <<day, disk>>, Elsewhere(r),
             pc'[r] \notin Working, mem'[r].status # "succeeded"
      PROVE  Good
  BY <1>1, <1>2 DEF Honest, Working, Steps
<1>3. ASSUME NEW r \in Runs, NEW step \in Steps, Goto(r, step),
             UNCHANGED <<day, mem, disk>>, pc[r] \in Working,
             step \notin {"current", "evidence"}
      PROVE  Good
  <2>1. pc'[r] = step /\ Elsewhere(r)
    BY <1>3 DEF Goto, TypeOK
  <2>2. mem'[r].status # "succeeded"
    BY <1>3 DEF ReportInv
  <2>3. QED
    BY <1>1, <1>3, <2>1, <2>2 DEF Honest
<1> HIDE DEF Good
<1>4. ASSUME NEW r \in Runs, UNCHANGED <<day, disk>>,
             \/ HandleOSError(r)
             \/ \E status \in TerminalStatuses \ {"succeeded"},
                   code \in ErrorCodes \cup {"none"} :
                  Handle(r, status, code) \/ Conclude(r, status, code)
      PROVE  Good
  BY <1>2, <1>4, HandleReport, OSErrorReport
<1>5. ASSUME NEW r \in Runs, Start(r) PROVE Good
  <2> DEFINE document == [NoDocument EXCEPT !.status = "preparing"]
  <2>1. /\ mem' = [mem EXCEPT ![r] = document]
        /\ UNCHANGED day
        /\ pc'[r] \in {"validate", "done"}
        /\ \A s \in Runs \ {r} : pc'[s] = pc[s]
    BY <1>5 DEF Start, Goto, TypeOK
  <2>2. disk'[r] \in {disk[r], document} /\ \A s \in Runs \ {r} : disk'[s] = disk[s]
    BY <1>5, WriteReport DEF Start
  <2>3. document.status = "preparing"
    BY DEF NoDocument
  <2> HIDE DEF document
  <2>4. mem'[r] = document /\ \A s \in Runs \ {r} : mem'[s] = mem[s]
    BY <2>1 DEF TypeOK
  <2>5. QED
    BY <1>1, <2>1, <2>2, <2>3, <2>4 DEF Honest
<1>6. ASSUME NEW r \in Runs, Validate(r) PROVE Good
  BY <1>3, <1>4, <1>6 DEF Validate, Working, Steps, TerminalStatuses, ErrorCodes
<1>7. ASSUME NEW r \in Runs, Preflight(r) PROVE Good
  BY <1>3, <1>4, <1>7, BlockerType DEF Preflight, Working, Steps, TerminalStatuses
<1>8. ASSUME NEW r \in Runs, Acquire(r) PROVE Good
  BY <1>3, <1>4, <1>8 DEF Acquire, Working, Steps, TerminalStatuses, ErrorCodes
<1>9. ASSUME NEW r \in Runs, Stage(r) PROVE Good
  <2>1. CASE HandleOSError(r)
    BY <1>4, <1>9, <2>1 DEF Stage
  <2>2. CASE ~HandleOSError(r)
    <3>1. /\ pc'[r] = "command" /\ pc[r] \in Working /\ UNCHANGED <<day, disk>>
          /\ Elsewhere(r)
          /\ mem'[r].status = mem[r].status
      BY <1>9, <2>2 DEF Stage, Goto, TypeOK, Document, Working, Steps
    <3>2. mem'[r].status # "succeeded"
      BY <3>1 DEF ReportInv
    <3>3. QED
      BY <1>1, <3>1, <3>2 DEF Honest
  <2>3. QED
    BY <2>1, <2>2
<1>10. ASSUME NEW r \in Runs, Command(r) PROVE Good
  <2>1. CASE Handle(r, "blocked", "validation_error") /\ UNCHANGED disk
    BY <1>4, <1>10, <2>1 DEF Command, TerminalStatuses, ErrorCodes
  <2>2. ASSUME NEW returns \in BOOLEAN,
               WriteMetadata(r, [mem[r] EXCEPT !.status = "running"], returns),
               IF returns
               THEN /\ mem' = [mem EXCEPT ![r].status = "running"]
                    /\ Goto(r, "legacy")
               ELSE HandleOSError(r)
        PROVE  Good
    <3> DEFINE document == [mem[r] EXCEPT !.status = "running"]
    <3>1. /\ disk'[r] \in {disk[r], document}
          /\ \A s \in Runs \ {r} : disk'[s] = disk[s]
      BY <2>2, WriteReport
    <3>2. document.status = "running"
      BY DEF TypeOK, Document
    <3>3. /\ mem'[r].status # "succeeded"
          /\ pc'[r] \notin {"current", "evidence"}
          /\ \A s \in Runs \ {r} : pc'[s] = pc[s] /\ mem'[s] = mem[s]
      <4>1. CASE HandleOSError(r)
        BY <4>1, OSErrorReport
      <4>2. CASE /\ mem' = [mem EXCEPT ![r].status = "running"]
                 /\ Goto(r, "legacy")
        BY <4>2 DEF Goto, TypeOK, Document
      <4>3. QED
        BY <2>2, <4>1, <4>2
    <3> HIDE DEF document
    <3>4. QED
      BY <1>1, <1>10, <3>1, <3>2, <3>3 DEF Honest, Command
  <2>3. QED
    BY <1>10, <2>1, <2>2 DEF Command
<1>11. ASSUME NEW r \in Runs, Legacy(r) PROVE Good
  BY <1>3, <1>4, <1>11 DEF Legacy, Working, Steps, TerminalStatuses, ErrorCodes
<1>12. ASSUME NEW r \in Runs, Outputs(r) PROVE Good
  <2>1. CASE Handle(r, "failed", "postcondition_failed") \/ HandleOSError(r)
    BY <1>4, <1>12, <2>1 DEF Outputs, TerminalStatuses, ErrorCodes
  <2>2. CASE Stateful /\ Goto(r, "promote")
                      /\ mem' = [mem EXCEPT ![r].passed = TRUE]
    <3>1. /\ pc'[r] = "promote" /\ pc[r] \in Working /\ UNCHANGED <<day, disk>>
          /\ Elsewhere(r)
          /\ mem'[r].status = mem[r].status
      BY <1>12, <2>2 DEF Outputs, Goto, TypeOK, Document, Working, Steps
    <3>2. mem'[r].status # "succeeded"
      BY <3>1 DEF ReportInv
    <3>3. QED
      BY <1>1, <3>1, <3>2 DEF Honest
  <2>3. CASE ~Stateful /\ Goto(r, "finish")
                       /\ mem' = [mem EXCEPT ![r] = [@ EXCEPT !.passed = TRUE,
                                                        !.status = "succeeded"]]
    <3>1. pc'[r] = "finish" /\ UNCHANGED <<day, disk>> /\ Elsewhere(r)
      BY <1>12, <2>3 DEF Outputs, Goto, TypeOK
    <3>2. QED
      BY <1>1, <2>3, <3>1 DEF Honest, Working
  <2>4. QED
    BY <1>12, <2>1, <2>2, <2>3 DEF Outputs
<1>13. ASSUME NEW r \in Runs, Promote(r) PROVE Good
  BY <1>3, <1>4, <1>13, BlockerType
  DEF Promote, Working, Steps, TerminalStatuses, ErrorCodes
<1>14. ASSUME NEW r \in Runs, PublishSnapshot(r) PROVE Good
  <2>1. CASE Handle(r, "failed", "promotion_failed")
    BY <1>4, <1>14, <2>1 DEF PublishSnapshot, TerminalStatuses, ErrorCodes
  <2>2. CASE /\ snapshot' = [snapshot EXCEPT ![day[r]] = r]
             /\ Goto(r, "current") \/ Goto(r, "evidence")
             /\ UNCHANGED mem
    <3>1. /\ Elsewhere(r) /\ UNCHANGED <<day, disk>>
          /\ snapshot'[day[r]] = r
          /\ pc[r] \in Working
      BY <1>14, <2>2 DEF PublishSnapshot, Goto, TypeOK, Working, Steps
    <3>2. mem'[r].status # "succeeded"
      BY <2>2, <3>1 DEF ReportInv
    <3>3. QED
      BY <1>1, <3>1, <3>2 DEF Honest
  <2>3. QED
    BY <1>14, <2>1, <2>2 DEF PublishSnapshot, HandlePublished
<1>15. ASSUME NEW r \in Runs, PublishCurrent(r) PROVE Good
  <2>1. /\ snapshot[day[r]] = r /\ pc[r] \in Working
        /\ UNCHANGED <<day, disk, snapshot>>
    BY <1>15 DEF PublishCurrent, ReportInv, Working, Steps
  <2>2. CASE Goto(r, "evidence") /\ UNCHANGED mem
    <3>1. Elsewhere(r) /\ mem'[r].status # "succeeded"
      BY <2>1, <2>2 DEF Goto, TypeOK, ReportInv
    <3>2. QED
      BY <1>1, <2>1, <3>1 DEF Honest
  <2>3. CASE /\ mem' = [mem EXCEPT ![r] = [@ EXCEPT !.state = "promoted",
                                                  !.status = "succeeded"]]
             /\ Goto(r, "finish")
    <3>1. Elsewhere(r) /\ pc'[r] = "finish" /\ mem'[r].state = "promoted"
      BY <2>1, <2>3 DEF Goto, TypeOK, Document
    <3>2. QED
      BY <1>1, <2>1, <3>1 DEF Honest, Working
  <2>4. QED
    BY <1>15, <2>2, <2>3 DEF PublishCurrent
<1>16. ASSUME NEW r \in Runs, PersistRecovery(r) PROVE Good
  <2>1. CASE Handle(r, "failed", "recovery_evidence_failed")
    BY <1>4, <1>16, <2>1 DEF PersistRecovery, TerminalStatuses, ErrorCodes
  <2>2. CASE /\ mem' = [mem EXCEPT ![r] = [@ EXCEPT !.state = "recovery_required",
                           !.status = "blocked", !.code = "recovery_required"]]
             /\ Goto(r, "handler")
    <3>1. /\ Elsewhere(r) /\ pc'[r] = "handler" /\ mem'[r].status = "blocked"
          /\ UNCHANGED <<day, disk>>
      BY <1>16, <2>2 DEF PersistRecovery, Goto, TypeOK, Document
    <3>2. QED
      BY <1>2, <3>1 DEF Working
  <2>3. QED
    BY <1>16, <2>1, <2>2 DEF PersistRecovery
<1>17. ASSUME NEW r \in Runs, FinishBody(r) PROVE Good
  <2>1. PICK returns \in BOOLEAN :
          /\ WriteMetadata(r, mem[r], returns)
          /\ IF returns THEN Goto(r, "release") /\ UNCHANGED mem
                        ELSE HandleOSError(r)
    BY <1>17 DEF FinishBody
  <2>2. /\ disk'[r] \in {disk[r], mem[r]}
        /\ \A s \in Runs \ {r} : disk'[s] = disk[s]
    BY <2>1, WriteReport
  <2>3. UNCHANGED <<day, snapshot>>
    BY <1>17 DEF FinishBody, lineage
  <2>4. CASE HandleOSError(r)
    BY <1>1, <2>2, <2>3, <2>4, OSErrorReport DEF Honest
  <2>5. CASE Goto(r, "release") /\ UNCHANGED mem
    <3>1. Elsewhere(r) /\ pc'[r] = "release"
      BY <2>2, <2>5 DEF Goto, TypeOK
    <3>2. Honest(r, mem[r])'
      BY <2>3, <2>5 DEF ReportInv, Honest
    <3>3. QED
      BY <1>1, <2>2, <2>3, <3>1, <3>2 DEF Working
  <2>6. QED
    BY <2>1, <2>4, <2>5
<1>18. ASSUME NEW r \in Runs, FinishHandler(r) PROVE Good
  <2>1. /\ disk'[r] \in {disk[r], mem[r]}
        /\ \A s \in Runs \ {r} : disk'[s] = disk[s]
    BY <1>18, WriteReport DEF FinishHandler
  <2>2. /\ UNCHANGED <<day, snapshot, mem>>
        /\ pc' = [pc EXCEPT ![r] = "release"]
    BY <1>18 DEF FinishHandler, lineage, Goto
  <2>3. Elsewhere(r) /\ pc'[r] = "release"
    BY <2>1, <2>2 DEF TypeOK
  <2>4. Honest(r, mem[r])'
    BY <2>2 DEF ReportInv, Honest
  <2>5. QED
    BY <1>1, <2>1, <2>2, <2>3, <2>4 DEF Working
<1>19. ASSUME NEW r \in Runs, Release(r) \/ Crash(r) PROVE Good
  <2>1. /\ UNCHANGED <<day, snapshot, mem, disk>>
        /\ pc' = [pc EXCEPT ![r] = "done"] \/ pc' = [pc EXCEPT ![r] = "crashed"]
    BY <1>19 DEF Release, Crash, lineage, Goto
  <2>2. Elsewhere(r) /\ pc'[r] \in {"done", "crashed"}
    BY <2>1 DEF TypeOK
  <2>3. Honest(r, mem[r])'
    BY <2>1 DEF ReportInv, Honest
  <2>4. QED
    BY <1>1, <2>1, <2>2, <2>3 DEF Working
<1>20. CASE \/ NextDay \/ UNCHANGED vars
            \/ \E m \in Months : UnlockStale(m) \/ RepairLineage(m)
  <2>1. UNCHANGED <<day, pc, mem, disk, snapshot>>
    BY <1>20 DEF NextDay, UnlockStale, RepairLineage, vars, lineage
  <2>2. QED
    BY <2>1 DEF Good, ReportInv, Honest
<1>21. QED
  BY <1>5, <1>6, <1>7, <1>8, <1>9, <1>10, <1>11, <1>12, <1>13, <1>14, <1>15, <1>16,
     <1>17, <1>18, <1>19, <1>20 DEF Next, Continue

\* A document says succeeded only after the promotion, and run.json only ever
\* receives the document in memory (service.py:82, run_store.py:74).
THEOREM ReportInvariant == Spec => []ReportInv
<1>1. Init => ReportInv
  <2>1. NoDocument.status = "absent"
    BY DEF NoDocument
  <2>2. ASSUME Init, NEW r \in Runs
        PROVE  pc[r] = "idle" /\ mem[r] = NoDocument /\ disk[r] = NoDocument
    BY <2>2 DEF Init
  <2>3. QED
    BY <2>1, <2>2 DEF ReportInv, Honest
<1>2. TypeOK /\ MonthInv /\ ReportInv /\ [Next]_vars => ReportInv'
  BY ReportInductive
<1>3. QED
  BY <1>1, <1>2, MonthInvariant, PTL DEF Spec

\* A run that run.json reports as succeeded is the one that published the
\* snapshot of its day, and run.json says promoted (service.py:82-90).
THEOREM SuccessMeansPublished == Spec => []SuccessIsPublished
<1>1. ReportInv => SuccessIsPublished
  BY DEF ReportInv, Honest, SuccessIsPublished
<1>2. QED
  BY <1>1, ReportInvariant, PTL


-----------------------------------------------------------------------------
(***************************************************************************)
(* The chain of states.  The run that publishes a snapshot computed it     *)
(* from current (BasedInv), and current was the latest snapshot of its     *)
(* month then, because only an open month lets a run through (OpenInv):    *)
(* one that is neither marked nor locked by a run that was between its two *)
(* replacements.  That run publishes after every other day of the month    *)
(* (LastInv), and what a run has published it does not change (KeptInv).   *)
(***************************************************************************)

\* A failed promotion can leave its marker, and nobody removes a lock by hand.
Undisturbed == "evidence" \notin Faults /\ "unlock" \notin Operator

Based == {"command", "legacy", "outputs", "promote", "snapshot"}
Halfway == {"current", "evidence"}
Over == {"finish", "handler", "release", "done", "crashed"}

Open(m) ==
  /\ ~marker[m]
  /\ \A r \in Runs :
       lock[m] = r /\ Month(r) = m => pc[r] \notin Halfway \cup {"crashed"}

OpenInv == \A m \in Months : Open(m) => current[m] = Latest(m)
LastInv ==
  \A r \in Runs : pc[r] \in Halfway =>
    snapshot[day[r]] = r /\ \A e \in Published(Month(r)) : e <= day[r]
BasedInv ==
  \A r \in Runs :
    /\ pc[r] \in {"promote", "snapshot"} \cup Halfway => Stateful
    /\ Stateful /\ pc[r] \in Based => parent[r] = current[Month(r)]
    /\ pc[r] = "snapshot" => ~marker[Month(r)] /\ ~Unchanged(r)
KeptInv ==
  /\ \A d \in Days : snapshot[d] # None => pc[snapshot[d]] \in Halfway \cup Over
  /\ \A m \in Months : current[m] # None => pc[current[m]] \in Halfway \cup Over

ChainInv == OpenInv /\ LastInv /\ BasedInv /\ KeptInv /\ LineageChain

\* The snapshots from a day on do not matter to what came before it.
LEMMA LatestBeforeKept ==
  ASSUME NEW m, NEW d,
         \A e \in Days : MonthOf[e] = m /\ e < d => snapshot'[e] = snapshot[e]
  PROVE  LatestBefore(m, d)' = LatestBefore(m, d)
<1> DEFINE S == {e \in Published(m) : e < d}
           last == CHOOSE e \in S : \A f \in S : f <= e
<1>1. {e \in Published(m)' : e < d} = S
  BY DEF Published
<1>2. S \in SUBSET Days /\ \A e \in S : snapshot'[e] = snapshot[e]
  BY DEF Published
<1>3. CASE S = {}
  BY <1>1, <1>3 DEF LatestBefore
<1>4. CASE S # {}
  <2>1. last \in S
    BY <1>2, <1>4, LastDayExists
  <2>2. LatestBefore(m, d) = snapshot[last]
    BY <1>4 DEF LatestBefore
  <2>3. LatestBefore(m, d)' = snapshot'[last]
    BY <1>1, <1>4 DEF LatestBefore
  <2> QED
    BY <1>2, <2>1, <2>2, <2>3
<1> QED
  BY <1>3, <1>4

\* The latest run before a day has published.
LEMMA LatestBeforeOver ==
  ASSUME KeptInv, NEW m, NEW d, LatestBefore(m, d) # None
  PROVE  pc[LatestBefore(m, d)] \in Halfway \cup Over
BY LatestBeforeIs DEF KeptInv, Published

\* A month whose snapshots are kept by the runs that wrote them keeps its chain.
LEMMA ChainKept ==
  ASSUME TypeOK, LineageChain, KeptInv, UNCHANGED snapshot,
         \A s \in Runs : pc[s] \in Halfway \cup Over =>
           parent'[s] = parent[s] /\ content'[s] = content[s]
  PROVE  LineageChain'
<1> SUFFICES ASSUME NEW d \in Days, snapshot[d] # None
             PROVE  LET previous == LatestBefore(MonthOf[d], d) IN
                    /\ parent'[snapshot[d]] = previous
                    /\ RequireChange /\ previous # None =>
                         content'[snapshot[d]] # content'[previous]
  <2>1. \A d \in Days : LatestBefore(MonthOf[d], d)' = LatestBefore(MonthOf[d], d)
    BY LatestBeforeKept
  <2> QED
    BY <2>1 DEF LineageChain
<1> DEFINE previous == LatestBefore(MonthOf[d], d)
<1>1. snapshot[d] \in Runs /\ pc[snapshot[d]] \in Halfway \cup Over
  BY DEF TypeOK, KeptInv
<1>2. previous # None => previous \in Runs /\ pc[previous] \in Halfway \cup Over
  BY LatestBeforeOver, LatestBeforeIs DEF TypeOK, Published
<1> QED
  BY <1>1, <1>2 DEF LineageChain

\* A step of one run that leaves the files of the lineage alone.
LEMMA ChainQuiet ==
  ASSUME TypeOK, MonthInv, ChainInv, NEW r \in Runs, NEW step \in Steps, Goto(r, step),
         UNCHANGED <<day, snapshot, current, marker>>,
         \A m \in Months : lock'[m] = lock[m] \/ lock[m] = None \/ pc[lock[m]] = "release",
         \A s \in Runs \ {r} : parent'[s] = parent[s] /\ content'[s] = content[s],
         pc[r] \in Halfway \cup {"crashed"} => step = "crashed",
         pc[r] \in Halfway \cup Over =>
           step \in Over /\ parent'[r] = parent[r] /\ content'[r] = content[r],
         step \notin Halfway,
         step \in {"promote", "snapshot"} => Stateful,
         Stateful /\ step \in Based => parent'[r] = current[Month(r)],
         step = "snapshot" =>
           content'[r] = content[r] /\ ~marker[Month(r)] /\ ~Unchanged(r)
  PROVE  ChainInv'
<1>1. \A s \in Runs : pc'[s] = IF s = r THEN step ELSE pc[s]
  BY DEF Goto, TypeOK
<1>2. \A s \in Runs : Month(s)' = Month(s) /\ Month(s) \in Months
  BY MonthType DEF Month
<1>3. \A m : Published(m)' = Published(m) /\ Latest(m)' = Latest(m)
  BY LatestBeforeKept DEF Published, Latest
<1>4. OpenInv'
  <2> SUFFICES ASSUME NEW m \in Months, Open(m)' PROVE Open(m)
    BY <1>3 DEF ChainInv, OpenInv
  <2> SUFFICES ASSUME NEW s \in Runs, lock[m] = s, Month(s) = m,
                      pc[s] \in Halfway \cup {"crashed"}
               PROVE  FALSE
    BY DEF Open
  <2>1. lock'[m] = s
    BY RunAssumption DEF Halfway
  <2>2. pc'[s] \in Halfway \cup {"crashed"}
    BY <1>1
  <2> QED
    BY <1>2, <2>1, <2>2 DEF Open
<1>5. LastInv'
  BY <1>1, <1>2, <1>3 DEF ChainInv, LastInv
<1>6. KeptInv'
  BY <1>1 DEF ChainInv, KeptInv, TypeOK
<1>7. BasedInv'
  <2> SUFFICES ASSUME NEW s \in Runs
               PROVE  /\ pc'[s] \in {"promote", "snapshot"} \cup Halfway => Stateful
                      /\ Stateful /\ pc'[s] \in Based => parent'[s] = current[Month(s)]
                      /\ pc'[s] = "snapshot" => ~marker[Month(s)] /\ ~Unchanged(s)'
    BY <1>2 DEF BasedInv
  <2>1. content'[s] = content[s] \/ pc'[s] # "snapshot"
    BY <1>1
  <2>2. current[Month(s)] # None => content'[current[Month(s)]] = content[current[Month(s)]]
    BY <1>2 DEF ChainInv, KeptInv, TypeOK
  <2>3. pc'[s] = "snapshot" => Unchanged(s)' = Unchanged(s)
    BY <1>2, <2>1, <2>2 DEF Unchanged, ContentOf
  <2> QED
    BY <1>1, <2>3 DEF ChainInv, BasedInv
<1>8. LineageChain'
  BY ChainKept DEF ChainInv
<1> QED
  BY <1>4, <1>5, <1>6, <1>7, <1>8 DEF ChainInv

\* The published days of a month lie before the end of the calendar.
LEMMA LatestIs ==
  ASSUME TypeOK, NEW m, NEW d \in Published(m), \A e \in Published(m) : e <= d
  PROVE  Latest(m) = snapshot[d]
<1>1. \A e \in Published(m) : e \in Nat /\ e < LastDay + 1
  BY CalendarAssumption DEF Published, Days
<1>2. PICK e \in Published(m) :
        (\A f \in Published(m) : f < LastDay + 1 => f <= e) /\ Latest(m) = snapshot[e]
  BY <1>1, LatestBeforeIs DEF Latest
<1>3. d = e
  BY <1>1, <1>2
<1> QED
  BY <1>2, <1>3

\* The publication of a snapshot adds the newest day to the chain of its month.
LEMMA PublishSnapshotChain ==
  ASSUME TypeOK, MonthInv, ChainInv, NEW r \in Runs, PublishSnapshot(r)
  PROVE  ChainInv'
<1> DEFINE m == Month(r)
<1>1. CASE UNCHANGED snapshot /\ pc' = [pc EXCEPT ![r] = "handler"]
  BY <1>1, ChainQuiet
     DEF PublishSnapshot, sandbox, Goto, Steps, Halfway, Over, Based
<1>2. CASE /\ snapshot' = [snapshot EXCEPT ![day[r]] = r]
           /\ Goto(r, "current") \/ Goto(r, "evidence")
  <2>1. /\ pc[r] = "snapshot" /\ holds[r] /\ lock[m] = r /\ m \in Months /\ day[r] \in Days
        /\ snapshot[day[r]] = None
        /\ UNCHANGED <<today, day, holds, lock, current, marker, parent, content>>
    BY <1>2, MonthType
       DEF PublishSnapshot, MonthInv, LockInv, CriticalInv, PromoteInv, Critical, TypeOK, sandbox
  <2>2. \A e \in Published(m) : e < day[r]
    BY <2>1, RunAssumption, PublishSnapshotPreserves, <1>2 DEF TypeOK
  <2>3. /\ Stateful /\ parent[r] = current[m] /\ ~marker[m] /\ ~Unchanged(r)
    BY <2>1 DEF ChainInv, BasedInv, Based
  <2>4. Open(m) /\ current[m] = Latest(m)
    BY <2>1, <2>3, RunAssumption DEF Open, Halfway, ChainInv, OpenInv
  <2>5. LatestBefore(m, day[r]) = Latest(m)
    <3>1. \A e \in Days : e \in Nat /\ e < LastDay + 1
      BY CalendarAssumption DEF Days
    <3>2. \A e \in Published(m) : e \in Nat /\ e < day[r] /\ e < LastDay + 1
      BY <2>2, <3>1 DEF Published
    <3>3. CASE Published(m) = {}
      BY <3>3, LatestBeforeIs DEF Latest
    <3>4. CASE Published(m) # {}
      <4>1. PICK e \in Published(m) :
              (\A f \in Published(m) : f <= e) /\ LatestBefore(m, day[r]) = snapshot[e]
        BY <3>2, <3>4, LatestBeforeIs
      <4> QED
        BY <4>1, LatestIs
    <3> QED
      BY <3>3, <3>4
  <2>6. \A s \in Runs : /\ Month(s)' = Month(s)
                        /\ s # r => pc'[s] = pc[s]
                        /\ s = r => pc'[s] \in Halfway
    BY <1>2, <2>1 DEF Month, Goto, TypeOK, Halfway
  <2>7. \A s \in Runs \ {r} : pc[s] \in Critical => Month(s) # m
    BY <2>1, OneHolder DEF MonthInv, CriticalInv
  <2>8. \A n : n # m => Published(n)' = Published(n) /\ Latest(n)' = Latest(n)
    <3> SUFFICES ASSUME NEW n, n # m
                 PROVE  Published(n)' = Published(n) /\ Latest(n)' = Latest(n)
      OBVIOUS
    <3>1. \A e \in Days : MonthOf[e] = n => snapshot'[e] = snapshot[e]
      BY <1>2, <2>1 DEF Month, TypeOK
    <3> QED
      BY <3>1, LatestBeforeKept DEF Published, Latest
  <2>9. OpenInv'
    <3> SUFFICES ASSUME NEW n \in Months, Open(n)' PROVE current[n] = Latest(n)'
      BY <2>1 DEF OpenInv
    <3>1. n # m
      BY <2>1, <2>6 DEF Open, Halfway
    <3>2. Open(n)
      BY <2>1, <2>6, <3>1 DEF Open
    <3> QED
      BY <2>8, <3>1, <3>2 DEF ChainInv, OpenInv
  <2>10. LastInv'
    <3> SUFFICES ASSUME NEW s \in Runs, pc'[s] \in Halfway
                 PROVE  snapshot'[day[s]] = s /\ \A e \in Published(Month(s))' : e <= day[s]
      BY <2>1, <2>6 DEF LastInv
    <3>1. CASE s = r
      <4>1. \A e \in Published(Month(r))' : e \in Published(Month(r)) \/ e = day[r]
        BY <1>2, <2>6 DEF Published, TypeOK
      <4>2. \A e \in Published(Month(r)) \cup {day[r]} : e <= day[r]
        BY <2>1, <2>2, CalendarAssumption DEF Days, Published
      <4>3. snapshot'[day[r]] = r
        BY <1>2, <2>1 DEF TypeOK
      <4> QED
        BY <3>1, <4>1, <4>2, <4>3
    <3>2. CASE s # r
      <4>1. pc[s] \in Halfway /\ Month(s) # m
        BY <2>6, <2>7, <3>2 DEF Halfway, Critical
      <4>2. snapshot[day[s]] = s /\ day[s] # day[r]
        BY <4>1 DEF ChainInv, LastInv, Month
      <4> QED
        BY <1>2, <2>1, <2>6, <2>8, <4>1, <4>2 DEF ChainInv, LastInv, TypeOK
    <3> QED
      BY <3>1, <3>2
  <2>11. KeptInv'
    BY <1>2, <2>1, <2>6 DEF ChainInv, KeptInv, TypeOK
  <2>12. BasedInv'
    BY <2>1, <2>3, <2>6 DEF ChainInv, BasedInv, Unchanged, ContentOf, Halfway, Based
  <2>13. LineageChain'
    <3> SUFFICES ASSUME NEW d \in Days, snapshot'[d] # None
                 PROVE  LET previous == LatestBefore(MonthOf[d], d)' IN
                        /\ parent[snapshot'[d]] = previous
                        /\ RequireChange /\ previous # None =>
                             content[snapshot'[d]] # content[previous]
      BY <2>1 DEF LineageChain
    <3>1. CASE d = day[r]
      <4>1. LatestBefore(MonthOf[d], d)' = LatestBefore(MonthOf[d], d)
        <5>1. \A e \in Days : e < d => snapshot'[e] = snapshot[e]
          BY <1>2, <3>1, CalendarAssumption DEF Days, TypeOK
        <5> QED
          BY <5>1, LatestBeforeKept
      <4>2. snapshot'[d] = r /\ MonthOf[d] = m
        BY <1>2, <3>1 DEF TypeOK, Month
      <4> QED
        BY <2>3, <2>4, <2>5, <3>1, <4>1, <4>2 DEF Unchanged, ContentOf
    <3>2. CASE d # day[r]
      <4>1. snapshot'[d] = snapshot[d] /\ snapshot[d] # None
        BY <1>2, <3>2 DEF TypeOK
      <4>2. \A e \in Days : MonthOf[e] = MonthOf[d] /\ e < d => e # day[r]
        <5>1. MonthOf[d] = m => d < day[r]
          BY <2>2, <4>1 DEF Published
        <5> QED
          BY <5>1, <2>1, CalendarAssumption DEF Days, Month
      <4>3. LatestBefore(MonthOf[d], d)' = LatestBefore(MonthOf[d], d)
        BY <1>2, <4>2, LatestBeforeKept DEF TypeOK
      <4> QED
        BY <4>1, <4>3 DEF ChainInv, LineageChain
    <3> QED
      BY <3>1, <3>2
  <2> QED
    BY <2>9, <2>10, <2>11, <2>12, <2>13 DEF ChainInv
<1> QED
  BY <1>1, <1>2 DEF PublishSnapshot, HandlePublished, Handle, Goto

\* What follows the publication, for the run that made it: current is replaced, or
\* may have been, or the marker is left.
LEMMA HalfwayChain ==
  ASSUME TypeOK, MonthInv, ChainInv, Undisturbed, NEW r \in Runs,
         PublishCurrent(r) \/ PersistRecovery(r)
  PROVE  ChainInv'
<1> DEFINE m == Month(r)
<1>1. /\ pc[r] \in Halfway /\ holds[r] /\ lock[m] = r /\ m \in Months /\ day[r] \in Days
      /\ UNCHANGED <<today, day, holds, lock, snapshot, parent, content>>
  BY MonthType
     DEF PublishCurrent, PersistRecovery, MonthInv, LockInv, CriticalInv, Critical, TypeOK,
         sandbox, Halfway
<1>2. /\ current' \in {current, [current EXCEPT ![m] = r]}
      /\ marker' \in {marker, [marker EXCEPT ![m] = TRUE]}
      /\ \/ pc' = [pc EXCEPT ![r] = "evidence"]
         \/ pc' = [pc EXCEPT ![r] = "finish"] /\ current'[m] = r
         \/ pc' = [pc EXCEPT ![r] = "handler"] /\ marker'[m]
  BY <1>1
     DEF PublishCurrent, PersistRecovery, Undisturbed, Handle, Goto, Marked, TypeOK
<1>3. \A s \in Runs : /\ Month(s)' = Month(s)
                      /\ s # r => pc'[s] = pc[s]
                      /\ s = r => pc'[s] \in {"evidence", "finish", "handler"}
  BY <1>1, <1>2 DEF Month, TypeOK
<1>4. \A s \in Runs \ {r} : pc[s] \in Critical => Month(s) # m
  BY <1>1, OneHolder DEF MonthInv, CriticalInv
<1>5. \A n \in Months \ {m} : current'[n] = current[n] /\ marker'[n] = marker[n]
  BY <1>2 DEF TypeOK
<1>6. \A n : Published(n)' = Published(n) /\ Latest(n)' = Latest(n)
  BY <1>1, LatestBeforeKept DEF Published, Latest
<1>7. Latest(m) = r
  <2>1. day[r] \in Published(m)
    BY <1>1, RunAssumption DEF ChainInv, LastInv, Published, Month
  <2> QED
    BY <1>1, <2>1, LatestIs DEF ChainInv, LastInv
<1>8. OpenInv'
  <2> SUFFICES ASSUME NEW n \in Months, Open(n)' PROVE current'[n] = Latest(n)
    BY <1>6 DEF OpenInv
  <2>1. CASE n = m
    <3>1. pc'[r] # "evidence" /\ ~marker'[m]
      BY <1>1, <1>3, <2>1 DEF Open, Halfway
    <3> QED
      BY <1>2, <1>7, <2>1, <3>1 DEF TypeOK
  <2>2. CASE n # m
    <3>1. Open(n)
      BY <1>1, <1>3, <1>5, <2>2 DEF Open
    <3> QED
      BY <1>5, <2>2, <3>1 DEF ChainInv, OpenInv
  <2> QED
    BY <2>1, <2>2
<1>9. LastInv'
  BY <1>1, <1>3, <1>6 DEF ChainInv, LastInv
<1>10. KeptInv'
  <2>1. \A d \in Days : snapshot[d] # None => pc'[snapshot[d]] \in Halfway \cup Over
    BY <1>3 DEF ChainInv, KeptInv, TypeOK, Halfway, Over
  <2>2. \A n \in Months : current'[n] # None => pc'[current'[n]] \in Halfway \cup Over
    BY <1>2, <1>3 DEF ChainInv, KeptInv, TypeOK, Halfway, Over
  <2> QED
    BY <1>1, <2>1, <2>2 DEF KeptInv
<1>11. BasedInv'
  <2> SUFFICES ASSUME NEW s \in Runs
               PROVE  /\ pc'[s] \in {"promote", "snapshot"} \cup Halfway => Stateful
                      /\ Stateful /\ pc'[s] \in Based => parent[s] = current'[Month(s)]
                      /\ pc'[s] = "snapshot" => ~marker'[Month(s)] /\ ~Unchanged(s)'
    BY <1>1, <1>3 DEF BasedInv
  <2>1. CASE s = r
    BY <1>1, <1>3, <2>1 DEF ChainInv, BasedInv, Based
  <2>2. CASE s # r /\ pc[s] \in Based
    <3>1. Month(s) \in Months \ {m}
      BY <1>4, <2>2, MonthType DEF Based, Critical
    <3>2. Unchanged(s)' = Unchanged(s)
      BY <1>1, <1>3, <1>5, <3>1 DEF Unchanged, ContentOf
    <3> QED
      BY <1>3, <1>5, <2>2, <3>1, <3>2 DEF ChainInv, BasedInv
  <2>3. CASE s # r /\ pc[s] \notin Based
    BY <1>3, <2>3 DEF ChainInv, BasedInv, Based
  <2> QED
    BY <2>1, <2>2, <2>3
<1>12. LineageChain'
  BY <1>1, ChainKept DEF ChainInv
<1> QED
  BY <1>8, <1>9, <1>10, <1>11, <1>12 DEF ChainInv

\* The operator brings current up to the latest snapshot of a month that no run holds.
LEMMA RepairChain ==
  ASSUME TypeOK, MonthInv, ChainInv, NEW m \in Months, RepairLineage(m)
  PROVE  ChainInv'
<1>1. /\ lock[m] = None /\ current' = [current EXCEPT ![m] = Latest(m)]
      /\ marker' = [marker EXCEPT ![m] = FALSE]
      /\ UNCHANGED <<day, pc, lock, snapshot, parent, content>>
  BY DEF RepairLineage, sandbox
<1>2. \A s \in Runs : Month(s)' = Month(s) /\ Month(s) \in Months
  BY <1>1, MonthType DEF Month
<1>3. \A n : Published(n)' = Published(n) /\ Latest(n)' = Latest(n)
  BY <1>1, LatestBeforeKept DEF Published, Latest
<1>4. /\ current'[m] = Latest(m)
      /\ \A n \in Months \ {m} : current'[n] = current[n] /\ marker'[n] = marker[n]
  BY <1>1 DEF TypeOK
<1>5. \A s \in Runs : pc[s] \in Critical => Month(s) # m
  BY <1>1, RunAssumption DEF MonthInv, LockInv, CriticalInv
<1>6. OpenInv'
  <2> SUFFICES ASSUME NEW n \in Months, Open(n)' PROVE current'[n] = Latest(n)
    BY <1>3 DEF OpenInv
  <2>1. n # m => Open(n)
    BY <1>1, <1>2, <1>4 DEF Open
  <2> QED
    BY <1>4, <2>1 DEF ChainInv, OpenInv
<1>7. LastInv'
  BY <1>1, <1>2, <1>3 DEF ChainInv, LastInv
<1>8. KeptInv'
  <2>1. Latest(m) # None => pc[Latest(m)] \in Halfway \cup Over
    BY LatestBeforeOver DEF ChainInv, Latest
  <2> QED
    BY <1>1, <1>4, <2>1 DEF ChainInv, KeptInv
<1>9. BasedInv'
  <2> SUFFICES ASSUME NEW s \in Runs
               PROVE  /\ Stateful /\ pc[s] \in Based => parent[s] = current'[Month(s)]
                      /\ pc[s] = "snapshot" => ~marker'[Month(s)] /\ ~Unchanged(s)'
    BY <1>1, <1>2 DEF ChainInv, BasedInv
  <2>1. CASE pc[s] \in Based
    <3>1. Month(s) \in Months \ {m}
      BY <1>2, <1>5, <2>1 DEF Based, Critical
    <3>2. Unchanged(s)' = Unchanged(s)
      BY <1>1, <1>2, <1>4, <3>1 DEF Unchanged, ContentOf
    <3> QED
      BY <1>4, <2>1, <3>1, <3>2 DEF ChainInv, BasedInv
  <2> QED
    BY <2>1 DEF Based
<1>10. LineageChain'
  BY <1>1, ChainKept DEF ChainInv
<1> QED
  BY <1>6, <1>7, <1>8, <1>9, <1>10 DEF ChainInv

\* The finally clause frees the lock of a run that does not promote any more.
LEMMA ReleaseChain ==
  ASSUME TypeOK, MonthInv, ChainInv, NEW r \in Runs, Release(r)
  PROVE  ChainInv'
<1>1. lock' = lock \/ (lock[Month(r)] = r /\ lock' = [lock EXCEPT ![Month(r)] = None])
  BY DEF Release, MustRelease, MonthInv, LockInv
<1>2. /\ pc[r] = "release" /\ Goto(r, "done")
      /\ UNCHANGED <<day, snapshot, current, marker, parent, content>>
  BY DEF Release, sandbox, lineage
<1>3. \A m \in Months : lock'[m] = lock[m] \/ lock[m] = None \/ pc[lock[m]] = "release"
  BY <1>1, <1>2 DEF TypeOK
<1> QED
  BY <1>2, <1>3, ChainQuiet DEF Steps, Halfway, Over, Based

\* A step of the system keeps the chain.
LEMMA ChainStep ==
  ASSUME TypeOK, MonthInv, ChainInv, Undisturbed, [Next]_vars
  PROVE  ChainInv'
<1> USE DEF sandbox, lineage, Handle, Conclude, HandleOSError, Steps, Halfway, Over, Based
<1>1. ASSUME NEW r \in Runs, Start(r) PROVE ChainInv'
  BY <1>1, ChainQuiet DEF Start
<1>2. ASSUME NEW r \in Runs, Validate(r) PROVE ChainInv'
  BY <1>2, ChainQuiet DEF Validate
<1>3. ASSUME NEW r \in Runs, Preflight(r) PROVE ChainInv'
  BY <1>3, ChainQuiet DEF Preflight
<1>4. ASSUME NEW r \in Runs, Acquire(r) PROVE ChainInv'
  <2>1. \A m \in Months : lock'[m] = lock[m] \/ lock[m] = None
    BY <1>4 DEF Acquire, TypeOK
  <2> QED
    BY <1>4, <2>1, ChainQuiet DEF Acquire
<1>5. ASSUME NEW r \in Runs, Stage(r) PROVE ChainInv'
  BY <1>5, ChainQuiet, MonthType DEF Stage, TypeOK
<1>6. ASSUME NEW r \in Runs, Command(r) PROVE ChainInv'
  BY <1>6, ChainQuiet DEF Command, ChainInv, BasedInv
<1>7. ASSUME NEW r \in Runs, Legacy(r) PROVE ChainInv'
  <2>1. /\ pc[r] = "legacy" /\ UNCHANGED <<day, parent, lock, snapshot, current, marker>>
        /\ Goto(r, "outputs") \/ Goto(r, "finish") \/ Goto(r, "handler")
        /\ \A s \in Runs \ {r} : content'[s] = content[s]
    BY <1>7 DEF Legacy, TypeOK
  <2> QED
    BY <2>1, ChainQuiet DEF ChainInv, BasedInv
<1>8. ASSUME NEW r \in Runs, Outputs(r) PROVE ChainInv'
  BY <1>8, ChainQuiet DEF Outputs, ChainInv, BasedInv
<1>9. ASSUME NEW r \in Runs, Promote(r) PROVE ChainInv'
  <2>1. StoreBlocker(r) = "none" => ~marker[Month(r)]
    BY DEF StoreBlocker, Blocker
  <2> QED
    BY <1>9, <2>1, ChainQuiet DEF Promote, ChainInv, BasedInv
<1>10. ASSUME NEW r \in Runs, PublishSnapshot(r) PROVE ChainInv'
  BY <1>10, PublishSnapshotChain
<1>11. ASSUME NEW r \in Runs, PublishCurrent(r) \/ PersistRecovery(r) PROVE ChainInv'
  BY <1>11, HalfwayChain
<1>12. ASSUME NEW r \in Runs, FinishBody(r) \/ FinishHandler(r) PROVE ChainInv'
  BY <1>12, ChainQuiet DEF FinishBody, FinishHandler
<1>13. ASSUME NEW r \in Runs, Release(r) PROVE ChainInv'
  BY <1>13, ReleaseChain
<1>14. ASSUME NEW r \in Runs, Crash(r) PROVE ChainInv'
  <2>1. pc[r] # "idle" /\ Goto(r, "crashed")
        /\ UNCHANGED <<day, parent, content, lock, snapshot, current, marker>>
    BY <1>14 DEF Crash, Active
  <2> QED
    BY <2>1, ChainQuiet
<1>15. ASSUME NEW m \in Months, UnlockStale(m) \/ RepairLineage(m) PROVE ChainInv'
  BY <1>15, RepairChain DEF Undisturbed, UnlockStale
<1>16. CASE NextDay \/ UNCHANGED vars
  <2>1. UNCHANGED <<day, pc, parent, content, lock, snapshot, current, marker>>
    BY <1>16 DEF NextDay, vars
  <2>2. \A n, d : Published(n)' = Published(n) /\ LatestBefore(n, d)' = LatestBefore(n, d)
    BY <2>1 DEF Published, LatestBefore
  <2> QED
    BY <2>1, <2>2
       DEF ChainInv, OpenInv, LastInv, BasedInv, KeptInv, LineageChain, Open, Latest, Month,
           Unchanged, ContentOf
<1> QED
  BY <1>1, <1>2, <1>3, <1>4, <1>5, <1>6, <1>7, <1>8, <1>9, <1>10, <1>11, <1>12, <1>13,
     <1>14, <1>15, <1>16 DEF Next, Continue

\* The invariant of the chain holds as long as markers can be written and no lock is
\* removed by hand (state_store.py:142, 181).
THEOREM ChainInvariant == ASSUME Undisturbed PROVE Spec => []ChainInv
<1>1. Init => ChainInv
  <2> SUFFICES ASSUME Init PROVE ChainInv
    OBVIOUS
  <2>1. \A d : \A m \in Months : LatestBefore(m, d) = None
    BY LatestBeforeIs DEF Init, Published
  <2> QED
    BY <2>1
       DEF Init, ChainInv, OpenInv, LastInv, BasedInv, KeptInv, LineageChain, Latest, Based,
           Halfway, Months
<1>2. TypeOK /\ MonthInv /\ ChainInv /\ [Next]_vars => ChainInv'
  BY ChainStep
<1>3. QED
  BY <1>1, <1>2, MonthInvariant, PTL DEF Spec

\* No update of the state of an ETL is lost, and a job that must change it changed it
\* (service.py:82, state_store.py:169).
THEOREM NoUpdateIsLost == ASSUME Undisturbed PROVE Spec => []LineageChain
<1>1. ChainInv => LineageChain
  BY DEF ChainInv
<1>2. QED
  BY <1>1, ChainInvariant, PTL

\* The next run of a month starts from its latest snapshot (state_store.py:181).
THEOREM CurrentIsKept == ASSUME Undisturbed PROVE Spec => []CurrentIsLatest
<1>1. TypeOK /\ ChainInv => CurrentIsLatest
  BY RunAssumption DEF ChainInv, OpenInv, Open, CurrentIsLatest
<1>2. QED
  BY <1>1, ChainInvariant, TypeCorrect, PTL

-----------------------------------------------------------------------------
(***************************************************************************)
(* The stores implement StateLineage.  A run between its two replacements  *)
(* is not visible yet: it still has the lock of its month (HiddenInv), so  *)
(* the next thing that happens to the month is the end of its promotion,   *)
(* which maps to Promote; every other step of a run maps to a stutter.     *)
(***************************************************************************)

DatedInv ==
  /\ \A d \in Days : snapshot[d] # None => day[snapshot[d]] = d
  /\ \A m \in Months : current[m] # None => Month(current[m]) = m
HalfwayInv ==
  \A r \in Runs : pc[r] \in Halfway =>
    /\ ~marker[Month(r)] /\ parent[r] # r
    /\ current[Month(r)] \in {parent[r], r}
StagedInv ==
  \A r \in Runs :
    /\ Stateful /\ pc[r] \in Based \cup Halfway => mem[r].state = "staged"
    /\ snapshot[day[r]] = r /\ mem[r].state = "staged" =>
         pc[r] \in Halfway \cup {"crashed"}
HiddenInv == \A r \in Runs : InFlight(r) => lock[Month(r)] = r

ViewInv == DatedInv /\ HalfwayInv /\ StagedInv /\ HiddenInv
View == <<VisibleChain, VisibleBases, VisibleCurrent, marker>>

\* What is visible of the files depends on who is in flight.
LEMMA SameView ==
  ASSUME TypeOK, UNCHANGED <<day, snapshot, current, marker>>,
         \A s \in Runs : InFlight(s)' = InFlight(s),
         \A s \in Runs : snapshot[day[s]] = s \/ InFlight(s) => parent'[s] = parent[s]
  PROVE  UNCHANGED View
<1>1. \A x \in Runs \cup {None} : InFlight(x)' = InFlight(x)
  BY RunAssumption DEF InFlight
<1>2. VisibleChain' = VisibleChain
  BY <1>1 DEF VisibleChain, Visible, TypeOK
<1>3. VisibleBases' = VisibleBases
  <2>1. \A r \in Runs : VisibleChain[day[r]] = r => snapshot[day[r]] = r
    BY RunAssumption DEF VisibleChain, Visible, TypeOK
  <2> QED
    BY <1>2, <2>1 DEF VisibleBases
<1>4. VisibleCurrent' = VisibleCurrent
  <2>1. \A m \in Months : current[m] \in Runs \cup {None}
    BY DEF TypeOK
  <2>2. \A m \in Months : InFlight(current[m]) => parent'[current[m]] = parent[current[m]]
    BY <2>1 DEF InFlight
  <2> QED
    BY <1>1, <2>1, <2>2 DEF VisibleCurrent
<1> QED
  BY <1>2, <1>3, <1>4 DEF View

\* A step of one run that leaves the files of the lineage alone is not seen.
LEMMA ViewQuiet ==
  ASSUME TypeOK, MonthInv, ChainInv, ViewInv,
         NEW r \in Runs, NEW step \in Steps, Goto(r, step),
         UNCHANGED <<day, snapshot, current, marker>>,
         \A m \in Months : lock'[m] = lock[m] \/ lock[m] = None \/ pc[lock[m]] = "release",
         \A s \in Runs \ {r} : parent'[s] = parent[s] /\ mem'[s] = mem[s],
         pc[r] \in Halfway \cup {"crashed"} => step = "crashed",
         pc[r] \in Halfway \cup Over => parent'[r] = parent[r] /\ mem'[r].state = mem[r].state,
         step \notin Halfway,
         Stateful /\ step \in Based => mem'[r].state = "staged"
  PROVE  ViewInv' /\ UNCHANGED View
<1>1. \A s \in Runs : pc'[s] = IF s = r THEN step ELSE pc[s]
  BY DEF Goto, TypeOK
<1>2. \A s \in Runs : /\ Month(s)' = Month(s) /\ Month(s) \in Months /\ day[s] \in Days
                      /\ snapshot[day[s]] = s => pc[s] \in Halfway \cup Over
  BY MonthType, RunAssumption DEF Month, ChainInv, KeptInv, TypeOK
<1>3. \A s \in Runs : snapshot[day[s]] = s =>
        parent'[s] = parent[s] /\ mem'[s].state = mem[s].state
  BY <1>2
<1>4. \A s \in Runs : InFlight(s)' = InFlight(s)
  <2> SUFFICES ASSUME NEW s \in Runs, snapshot[day[s]] = s, mem[s].state = "staged"
               PROVE  pc'[s] \in Halfway \cup {"crashed"} <=> pc[s] \in Halfway \cup {"crashed"}
    BY <1>3 DEF InFlight, Halfway
  <2> QED
    BY <1>1 DEF ViewInv, StagedInv
<1>5. UNCHANGED View
  BY <1>3, <1>4, SameView DEF InFlight
<1>6. DatedInv'
  BY <1>2 DEF ViewInv, DatedInv, Month
<1>7. HalfwayInv'
  BY <1>1, <1>2 DEF ViewInv, HalfwayInv
<1>8. StagedInv'
  <2> SUFFICES ASSUME NEW s \in Runs
               PROVE  /\ Stateful /\ pc'[s] \in Based \cup Halfway => mem'[s].state = "staged"
                      /\ snapshot[day[s]] = s /\ mem'[s].state = "staged" =>
                           pc'[s] \in Halfway \cup {"crashed"}
    BY DEF StagedInv
  <2> QED
    BY <1>1, <1>3 DEF ViewInv, StagedInv
<1>9. HiddenInv'
  <2> SUFFICES ASSUME NEW s \in Runs, InFlight(s) PROVE lock'[Month(s)] = s
    BY <1>2, <1>4 DEF HiddenInv
  <2>1. lock[Month(s)] = s /\ pc[s] # "release"
    BY DEF ViewInv, HiddenInv, InFlight
  <2> QED
    BY <1>2, <2>1, RunAssumption
<1> QED
  BY <1>5, <1>6, <1>7, <1>8, <1>9 DEF ViewInv

\* Nobody sees a snapshot before current is replaced.
LEMMA PublishSnapshotView ==
  ASSUME TypeOK, MonthInv, ChainInv, ViewInv, NEW r \in Runs, PublishSnapshot(r)
  PROVE  ViewInv' /\ UNCHANGED View
<1>1. CASE UNCHANGED snapshot /\ Handle(r, "failed", "promotion_failed")
  <2>1. /\ pc[r] = "snapshot" /\ Goto(r, "handler")
        /\ UNCHANGED <<day, lock, snapshot, current, marker, parent>>
        /\ \A s \in Runs \ {r} : mem'[s] = mem[s]
    BY <1>1 DEF PublishSnapshot, Handle, sandbox, TypeOK
  <2> QED
    BY <2>1, ViewQuiet DEF Steps, Halfway, Over, Based
<1>2. CASE /\ snapshot' = [snapshot EXCEPT ![day[r]] = r] /\ UNCHANGED mem
           /\ Goto(r, "current") \/ Goto(r, "evidence")
  <2>1. /\ pc[r] = "snapshot" /\ Stateful /\ day[r] \in Days /\ Month(r) \in Months
        /\ lock[Month(r)] = r /\ snapshot[day[r]] = None /\ mem[r].state = "staged"
        /\ UNCHANGED <<day, lock, current, marker, parent>>
    BY <1>2, MonthType
       DEF PublishSnapshot, MonthInv, LockInv, CriticalInv, PromoteInv, Critical, TypeOK, sandbox,
           ChainInv, BasedInv, ViewInv, StagedInv, Based
  <2>2. \A s \in Runs : /\ Month(s)' = Month(s)
                        /\ s # r => pc'[s] = pc[s]
                        /\ s = r => pc'[s] \in Halfway
    BY <1>2, <2>1 DEF Month, Goto, TypeOK, Halfway
  <2>3. /\ snapshot'[day[r]] = r
        /\ \A d \in Days \ {day[r]} : snapshot'[d] = snapshot[d]
    BY <1>2, <2>1 DEF TypeOK
  <2>4. \A s \in Runs \ {r} : snapshot'[day[s]] = s <=> snapshot[day[s]] = s
    BY <2>1, <2>3, RunAssumption DEF TypeOK
  <2>5. \A s \in Runs : InFlight(s)' <=> InFlight(s) \/ s = r
    BY <1>2, <2>1, <2>2, <2>3, <2>4, RunAssumption DEF InFlight, Halfway
  <2>6. ~InFlight(r) /\ ~InFlight(None) /\ ~InFlight(None)'
    BY <2>1 DEF InFlight
  <2>7. \A m \in Months : current[m] # r
    BY <2>1, RunAssumption DEF ChainInv, KeptInv, Halfway, Over
  <2>8. VisibleChain' = VisibleChain
    <3> SUFFICES ASSUME NEW d \in Days PROVE Visible(snapshot[d])' = Visible(snapshot[d])
      BY DEF VisibleChain
    <3>1. CASE d = day[r]
      BY <2>1, <2>3, <2>5, <2>6, <3>1 DEF Visible
    <3>2. CASE d # day[r]
      <4>1. snapshot'[d] = snapshot[d] /\ snapshot[d] # r
        BY <2>1, <2>3, <3>2, RunAssumption DEF ViewInv, DatedInv
      <4> QED
        BY <2>5, <2>6, <4>1 DEF Visible, TypeOK
    <3> QED
      BY <3>1, <3>2
  <2>9. VisibleBases' = VisibleBases
    BY <2>1, <2>8 DEF VisibleBases
  <2>10. VisibleCurrent' = VisibleCurrent
    <3>1. \A m \in Months : current'[m] = current[m] /\ (InFlight(current[m])' <=> InFlight(current[m]))
      BY <2>1, <2>5, <2>6, <2>7 DEF TypeOK
    <3> QED
      BY <2>1, <3>1 DEF VisibleCurrent
  <2>11. DatedInv'
    BY <2>1, <2>2, <2>3 DEF ViewInv, DatedInv, TypeOK
  <2>12. HalfwayInv'
    <3>1. parent[r] = current[Month(r)] /\ ~marker[Month(r)]
      BY <2>1 DEF ChainInv, BasedInv, Based
    <3> QED
      BY <2>1, <2>2, <2>7, <3>1 DEF ViewInv, HalfwayInv
  <2>13. StagedInv'
    BY <1>2, <2>1, <2>2, <2>4 DEF ViewInv, StagedInv
  <2>14. HiddenInv'
    BY <2>1, <2>2, <2>5 DEF ViewInv, HiddenInv
  <2> QED
    BY <2>1, <2>8, <2>9, <2>10, <2>11, <2>12, <2>13, <2>14 DEF ViewInv, View
<1> QED
  BY <1>1, <1>2 DEF PublishSnapshot, HandlePublished

\* The end of a promotion: nobody sees anything yet, or the version of the day appears.
LEMMA HalfwayView ==
  ASSUME TypeOK, MonthInv, ChainInv, ViewInv, Undisturbed, NEW r \in Runs,
         PublishCurrent(r) \/ PersistRecovery(r)
  PROVE  /\ ViewInv'
         /\ (\E d \in Days, v \in Runs : Lineage!Promote(d, v)) \/ UNCHANGED View
<1> DEFINE m == Month(r)
           d == day[r]
<1>1. /\ pc[r] \in Halfway /\ lock[m] = r /\ holds[r] /\ m \in Months /\ d \in Days
      /\ m = MonthOf[d] /\ Stateful /\ mem[r].state = "staged" /\ snapshot[d] = r
      /\ UNCHANGED <<day, lock, snapshot, parent>>
  BY MonthType
     DEF PublishCurrent, PersistRecovery, MonthInv, LockInv, CriticalInv, Critical, TypeOK,
         Month, sandbox, Halfway, ChainInv, BasedInv, LastInv, ViewInv, StagedInv
<1>2. /\ current' \in {current, [current EXCEPT ![m] = r]}
      /\ \/ pc' = [pc EXCEPT ![r] = "evidence"] /\ UNCHANGED <<mem, marker>>
         \/ /\ pc' = [pc EXCEPT ![r] = "finish"] /\ current' = [current EXCEPT ![m] = r]
            /\ UNCHANGED marker /\ mem'[r].state = "promoted"
         \/ /\ pc' = [pc EXCEPT ![r] = "handler"] /\ UNCHANGED current
            /\ marker' = [marker EXCEPT ![m] = TRUE] /\ mem'[r].state = "recovery_required"
      /\ \A s \in Runs \ {r} : mem'[s] = mem[s]
  <2>1. mem \in [Runs -> Document] /\ pc \in [Runs -> Steps]
    BY DEF TypeOK
  <2>2. CASE PublishCurrent(r)
    BY <2>1, <2>2 DEF PublishCurrent, Goto, Document
  <2>3. CASE PersistRecovery(r)
    <3>1. /\ pc' = [pc EXCEPT ![r] = "handler"] /\ marker' = [marker EXCEPT ![m] = TRUE]
          /\ UNCHANGED current
          /\ mem' = [mem EXCEPT ![r] = [@ EXCEPT !.state = "recovery_required",
                                   !.status = "blocked", !.code = "recovery_required"]]
      BY <2>3 DEF PersistRecovery, Undisturbed, Handle, Goto, Marked
    <3> QED
      BY <2>1, <3>1 DEF Document
  <2> QED
    BY <2>2, <2>3
<1>3. \A s \in Runs : /\ Month(s)' = Month(s)
                      /\ s # r => pc'[s] = pc[s]
                      /\ s = r => pc'[s] \in {"evidence", "finish", "handler"}
  BY <1>1, <1>2 DEF Month, TypeOK
<1>4. \A s \in Runs \ {r} : pc[s] \in Critical => Month(s) # m
  BY <1>1, OneHolder DEF MonthInv, CriticalInv
<1>5. \A n \in Months \ {m} : current'[n] = current[n] /\ marker'[n] = marker[n]
  BY <1>2 DEF TypeOK
<1>6. DatedInv'
  BY <1>1, <1>2, <1>3 DEF ViewInv, DatedInv, TypeOK
<1>7. HalfwayInv'
  <2> SUFFICES ASSUME NEW s \in Runs, pc'[s] \in Halfway
               PROVE  /\ ~marker'[Month(s)] /\ parent[s] # s
                      /\ current'[Month(s)] \in {parent[s], s}
    BY <1>1, <1>3 DEF HalfwayInv
  <2>1. CASE s = r
    <3>1. UNCHANGED marker /\ current'[m] \in {current[m], r}
      BY <1>1, <1>2, <1>3, <2>1 DEF Halfway, TypeOK
    <3> QED
      BY <1>1, <2>1, <3>1 DEF ViewInv, HalfwayInv
  <2>2. CASE s # r
    <3>1. pc[s] \in Halfway /\ Month(s) \in Months \ {m}
      BY <1>3, <1>4, <2>2, MonthType DEF Halfway, Critical
    <3> QED
      BY <1>5, <3>1 DEF ViewInv, HalfwayInv
  <2> QED
    BY <2>1, <2>2
<1>8. StagedInv'
  <2> SUFFICES ASSUME NEW s \in Runs
               PROVE  /\ Stateful /\ pc'[s] \in Based \cup Halfway => mem'[s].state = "staged"
                      /\ snapshot[day[s]] = s /\ mem'[s].state = "staged" =>
                           pc'[s] \in Halfway \cup {"crashed"}
    BY <1>1 DEF StagedInv
  <2>1. CASE s = r
    BY <1>1, <1>2, <2>1 DEF Based, Halfway, TypeOK
  <2>2. CASE s # r
    BY <1>2, <1>3, <2>2 DEF ViewInv, StagedInv
  <2> QED
    BY <2>1, <2>2
<1>9. \A s \in Runs : InFlight(s)' <=> InFlight(s) /\ (s = r => pc'[r] = "evidence")
  <2> SUFFICES ASSUME NEW s \in Runs
               PROVE  InFlight(s)' <=> InFlight(s) /\ (s = r => pc'[r] = "evidence")
    OBVIOUS
  <2>1. CASE s = r
    BY <1>1, <1>2, <2>1, RunAssumption DEF InFlight, Halfway, TypeOK
  <2>2. CASE s # r
    BY <1>1, <1>2, <1>3, <2>2 DEF InFlight
  <2> QED
    BY <2>1, <2>2
<1>10. HiddenInv'
  BY <1>1, <1>3, <1>9 DEF ViewInv, HiddenInv
<1>11. /\ InFlight(r) /\ ~InFlight(None) /\ ~InFlight(None)' /\ r # None
       /\ current[m] \in {parent[r], r} /\ parent[r] # r /\ ~marker[m]
       /\ ~InFlight(parent[r])
  <2>1. /\ current[m] \in {parent[r], r} /\ parent[r] # r /\ ~marker[m]
        /\ parent[r] \in Runs \cup {None}
    BY <1>1 DEF ViewInv, HalfwayInv, TypeOK
  <2>2. Latest(m) = r
    <3>1. d \in Published(m)
      BY <1>1, RunAssumption DEF Published
    <3> QED
      BY <1>1, <3>1, LatestIs DEF ChainInv, LastInv
  <2>3. ~InFlight(parent[r])
    <3> SUFFICES ASSUME InFlight(parent[r]) PROVE FALSE
      OBVIOUS
    <3>1. parent[r] \in Runs /\ lock[Month(parent[r])] = parent[r] /\ parent[r] # None
          /\ snapshot[day[parent[r]]] = parent[r]
      BY <2>1 DEF InFlight, ViewInv, HiddenInv
    <3>2. parent[r] = LatestBefore(m, d)
      BY <1>1, RunAssumption DEF ChainInv, LineageChain
    <3>3. PICK e \in Published(m) : parent[r] = snapshot[e]
      BY <3>1, <3>2, LatestBeforeIs
    <3>4. Month(parent[r]) = m
      BY <3>1, <3>3 DEF ViewInv, DatedInv, Published, Month
    <3> QED
      BY <1>1, <2>1, <3>1, <3>4
  <2> QED
    BY <1>1, <2>1, <2>3, RunAssumption DEF InFlight, Halfway
<1>12. VisibleCurrent[m] = parent[r] /\ VisibleChain[d] = None
  BY <1>1, <1>11 DEF VisibleCurrent, VisibleChain, Visible
<1>13. \A n \in Months \ {m} : InFlight(current[n])' <=> InFlight(current[n])
  <2> SUFFICES ASSUME NEW n \in Months \ {m}
               PROVE  InFlight(current[n])' <=> InFlight(current[n])
    OBVIOUS
  <2>1. current'[n] = current[n] /\ current[n] \in Runs \cup {None} /\ current[n] # r
    BY <1>5, <1>11 DEF ViewInv, DatedInv, TypeOK
  <2> QED
    BY <1>9, <1>11, <2>1
<1>14. CASE pc'[r] = "evidence"
  <2>1. \A s \in Runs \cup {None} : InFlight(s)' <=> InFlight(s)
    BY <1>9, <1>11, <1>14
  <2>2. VisibleChain' = VisibleChain
    <3>1. \A e \in Days : snapshot[e] \in Runs \cup {None}
      BY DEF TypeOK
    <3> QED
      BY <1>1, <2>1, <3>1 DEF VisibleChain, Visible
  <2>3. VisibleBases' = VisibleBases
    BY <1>1, <2>2 DEF VisibleBases
  <2>4. VisibleCurrent' = VisibleCurrent
    <3> SUFFICES ASSUME NEW n \in Months
                 PROVE  VisibleCurrent'[n] = VisibleCurrent[n]
      BY DEF VisibleCurrent
    <3>1. CASE n = m
      <4>1. current'[m] \in {parent[r], r}
        BY <1>1, <1>2, <1>11 DEF TypeOK
      <4>2. InFlight(r)' /\ ~InFlight(parent[r])'
        BY <1>9, <1>11, <1>14, <1>1 DEF TypeOK
      <4> QED
        BY <1>1, <1>12, <3>1, <4>1, <4>2 DEF VisibleCurrent
    <3>2. CASE n # m
      BY <1>1, <1>5, <1>13, <3>2 DEF VisibleCurrent
    <3> QED
      BY <3>1, <3>2
  <2>5. UNCHANGED marker
    BY <1>1, <1>2, <1>14 DEF TypeOK
  <2> QED
    BY <1>6, <1>7, <1>8, <1>10, <2>2, <2>3, <2>4, <2>5 DEF ViewInv, View
<1>15. CASE pc'[r] # "evidence"
  <2>1. \A s \in Runs \ {r} : InFlight(s)' <=> InFlight(s)
    BY <1>9
  <2>2. ~InFlight(r)'
    BY <1>9, <1>15
  <2>3. \A e \in Days \ {d} : snapshot[e] \in (Runs \ {r}) \cup {None}
    BY <1>11 DEF TypeOK, ViewInv, DatedInv
  <2>4. VisibleChain' = [VisibleChain EXCEPT ![d] = r]
    <3> SUFFICES ASSUME NEW e \in Days
                 PROVE  VisibleChain'[e] = IF e = d THEN r ELSE VisibleChain[e]
      BY <1>1 DEF VisibleChain
    <3>1. CASE e = d
      BY <1>1, <2>2, <3>1 DEF VisibleChain, Visible
    <3>2. CASE e # d
      <4>1. InFlight(snapshot[e])' <=> InFlight(snapshot[e])
        BY <1>1, <1>11, <2>1, <2>3, <3>2
      <4> QED
        BY <1>1, <3>2, <4>1 DEF VisibleChain, Visible
    <3> QED
      BY <3>1, <3>2
  <2>5. VisibleBases' = [VisibleBases EXCEPT ![r] = parent[r]]
    <3> SUFFICES ASSUME NEW s \in Runs
                 PROVE  VisibleBases'[s] = IF s = r THEN parent[r] ELSE VisibleBases[s]
      BY DEF VisibleBases
    <3>1. day[s] \in Days
      BY DEF TypeOK
    <3>2. CASE s = r
      BY <1>1, <2>4, <3>2 DEF VisibleBases, VisibleChain
    <3>3. CASE s # r
      <4>1. VisibleChain'[day[s]] = s <=> VisibleChain[day[s]] = s
        BY <1>1, <1>12, <2>4, <3>1, <3>3, RunAssumption DEF VisibleChain
      <4> QED
        BY <1>1, <3>3, <4>1 DEF VisibleBases
    <3> QED
      BY <3>2, <3>3
  <2>6. Lineage!Extend(d, r)
    <3>1. \A e \in Days : VisibleChain[e] # None => snapshot[e] = VisibleChain[e] /\ e # d
      BY <1>12 DEF VisibleChain, Visible
    <3>2. \A e \in Lineage!DaysOf(m) : e < d
      <4> SUFFICES ASSUME NEW e \in Days, MonthOf[e] = m, VisibleChain[e] # None PROVE e < d
        BY DEF Lineage!DaysOf, Lineage!Days, Days
      <4>1. e \in Published(m) /\ e # d
        BY <3>1 DEF Published
      <4> QED
        BY <1>1, <4>1, CalendarAssumption DEF ChainInv, LastInv, Days
    <3>3. \A e \in Days : VisibleChain[e] # r
      BY <1>11, <2>3, <3>1
    <3> QED
      BY <1>1, <1>11, <1>12, <2>4, <2>5, <3>2, <3>3 DEF Lineage!Extend, Lineage!Days, Days
  <2>7. \A n \in Months : VisibleCurrent'[n] =
          IF n = m THEN (IF current'[m] = r THEN r ELSE parent[r]) ELSE VisibleCurrent[n]
    <3> SUFFICES ASSUME NEW n \in Months
                 PROVE  VisibleCurrent'[n] =
                          IF n = m THEN (IF current'[m] = r THEN r ELSE parent[r])
                                   ELSE VisibleCurrent[n]
      OBVIOUS
    <3>1. CASE n = m
      <4>1. current'[m] \in {parent[r], r}
        BY <1>1, <1>2, <1>11 DEF TypeOK
      <4>2. ~InFlight(parent[r])'
        BY <1>1, <1>11, <2>1 DEF TypeOK
      <4> QED
        BY <1>1, <2>2, <3>1, <4>1, <4>2 DEF VisibleCurrent
    <3>2. CASE n # m
      BY <1>1, <1>5, <1>13, <3>2 DEF VisibleCurrent
    <3> QED
      BY <3>1, <3>2
  <2>8. Lineage!Complete(d, r) \/ Lineage!Seal(d, r)
    <3>1. current'[m] = r => VisibleCurrent' = [VisibleCurrent EXCEPT ![m] = r]
      BY <2>7 DEF VisibleCurrent
    <3>2. current'[m] # r => VisibleCurrent' = VisibleCurrent
      BY <1>12, <2>7 DEF VisibleCurrent
    <3>3. CASE pc' = [pc EXCEPT ![r] = "finish"]
      <4>1. UNCHANGED marker /\ current'[m] = r
        BY <1>1, <1>2, <3>3 DEF TypeOK
      <4> QED
        BY <1>1, <3>1, <4>1 DEF Lineage!Complete
    <3>4. CASE marker' = [marker EXCEPT ![m] = TRUE]
      BY <1>1, <3>1, <3>2, <3>4 DEF Lineage!Seal
    <3> QED
      BY <1>1, <1>2, <1>15, <3>3, <3>4 DEF TypeOK
  <2> QED
    BY <1>1, <1>6, <1>7, <1>8, <1>10, <2>6, <2>8 DEF ViewInv, Lineage!Promote
<1> QED
  BY <1>14, <1>15

\* The repair of a month brings the current version up to the newest one.
LEMMA RepairView ==
  ASSUME TypeOK, MonthInv, ChainInv, ViewInv, NEW m \in Months, RepairLineage(m)
  PROVE  ViewInv' /\ Lineage!Repair(m)
<1>1. /\ lock[m] = None /\ marker[m] /\ current' = [current EXCEPT ![m] = Latest(m)]
      /\ marker' = [marker EXCEPT ![m] = FALSE]
      /\ UNCHANGED <<day, pc, mem, lock, snapshot, parent>>
  BY DEF RepairLineage, sandbox
<1>2. \A s \in Runs : Month(s)' = Month(s) /\ Month(s) \in Months /\ (InFlight(s)' <=> InFlight(s))
  BY <1>1, MonthType DEF Month, InFlight
<1>3. \A s \in Runs : pc[s] \in Halfway \/ InFlight(s) => Month(s) # m
  BY <1>1, RunAssumption
     DEF MonthInv, LockInv, CriticalInv, Critical, Halfway, ViewInv, HiddenInv
<1>4. Latest(m) # None => Latest(m) \in Runs /\ Month(Latest(m)) = m
  BY LatestBeforeIs DEF Latest, Published, ViewInv, DatedInv, Month, TypeOK
<1>5. current'[m] = Latest(m)
      /\ \A n \in Months \ {m} : current'[n] = current[n] /\ marker'[n] = marker[n]
  BY <1>1 DEF TypeOK
<1>6. ViewInv'
  <2>1. DatedInv'
    BY <1>1, <1>2, <1>4, <1>5 DEF ViewInv, DatedInv, TypeOK
  <2>2. HalfwayInv'
    BY <1>1, <1>2, <1>3, <1>5 DEF ViewInv, HalfwayInv
  <2>3. StagedInv' /\ HiddenInv'
    BY <1>1, <1>2 DEF ViewInv, StagedInv, HiddenInv
  <2> QED
    BY <2>1, <2>2, <2>3 DEF ViewInv
<1>7. /\ \A x \in Runs \cup {None} : InFlight(x)' <=> InFlight(x)
      /\ ~InFlight(None) /\ ~InFlight(Latest(m))
  BY <1>2, <1>3, <1>4 DEF InFlight
<1>8. VisibleChain' = VisibleChain
  <2>1. \A e \in Days : snapshot[e] \in Runs \cup {None}
    BY DEF TypeOK
  <2> QED
    BY <1>1, <1>7, <2>1 DEF VisibleChain, Visible
<1>9. VisibleBases' = VisibleBases
  BY <1>1, <1>8 DEF VisibleBases
<1>10. \A e \in Published(m) : VisibleChain[e] = snapshot[e]
  <2> SUFFICES ASSUME NEW e \in Published(m) PROVE ~InFlight(snapshot[e])
    BY DEF VisibleChain, Visible, Published
  <2>1. snapshot[e] \in Runs /\ Month(snapshot[e]) = m
    BY DEF Published, ViewInv, DatedInv, Month, TypeOK
  <2> QED
    BY <1>3, <2>1
<1>11. Lineage!Newest(m) = Latest(m)
  <2>1. Lineage!DaysOf(m) = Published(m)
    BY <1>10 DEF Lineage!DaysOf, Lineage!Days, Days, Published, VisibleChain, Visible
  <2> DEFINE S == {e \in Published(m) : e < LastDay + 1}
             last == CHOOSE e \in S : \A f \in S : f <= e
  <2>2. CASE S = {}
    BY <2>1, <2>2 DEF Lineage!Newest, Lineage!Before, Latest, LatestBefore
  <2>3. CASE S # {}
    <3>1. last \in Published(m)
      BY <2>3, LastDayExists DEF Published
    <3>2. Latest(m) = snapshot[last]
      BY <2>3 DEF Latest, LatestBefore
    <3>3. Lineage!Newest(m) = VisibleChain[last]
      BY <2>1, <2>3 DEF Lineage!Newest, Lineage!Before
    <3> QED
      BY <1>10, <3>1, <3>2, <3>3
  <2> QED
    BY <2>2, <2>3
<1>12. VisibleCurrent' = [VisibleCurrent EXCEPT ![m] = Latest(m)]
  <2> SUFFICES ASSUME NEW n \in Months
               PROVE  VisibleCurrent'[n] = IF n = m THEN Latest(m) ELSE VisibleCurrent[n]
    BY DEF VisibleCurrent
  <2>1. CASE n = m
    <3>1. ~InFlight(current[m])'
      BY <1>4, <1>5, <1>7
    <3> QED
      BY <1>5, <2>1, <3>1 DEF VisibleCurrent
  <2>2. CASE n # m
    <3>1. current'[n] = current[n] /\ (InFlight(current[n])' <=> InFlight(current[n]))
      BY <1>5, <1>7, <2>2 DEF TypeOK
    <3> QED
      BY <1>1, <2>2, <3>1 DEF VisibleCurrent
  <2> QED
    BY <2>1, <2>2
<1> QED
  BY <1>1, <1>6, <1>8, <1>9, <1>11, <1>12 DEF Lineage!Repair

\* A step of the system is a promotion, a repair, or is not seen.
LEMMA ViewStep ==
  ASSUME TypeOK, MonthInv, ChainInv, ViewInv, Undisturbed, [Next]_vars
  PROVE  /\ ViewInv'
         /\ Lineage!Next \/ UNCHANGED View
<1> DEFINE Good == ViewInv' /\ (Lineage!Next \/ UNCHANGED View)
<1> SUFFICES Good
  OBVIOUS
<1>1. ASSUME NEW r \in Runs, NEW step \in Steps, Goto(r, step),
             UNCHANGED <<day, snapshot, current, marker>>,
             \A m \in Months : lock'[m] = lock[m] \/ lock[m] = None \/ pc[lock[m]] = "release",
             \A s \in Runs \ {r} : parent'[s] = parent[s] /\ mem'[s] = mem[s],
             pc[r] \in Halfway \cup {"crashed"} => step = "crashed",
             pc[r] \in Halfway \cup Over =>
               parent'[r] = parent[r] /\ mem'[r].state = mem[r].state,
             step \notin Halfway,
             Stateful /\ step \in Based => mem'[r].state = "staged"
      PROVE  Good
  BY <1>1, ViewQuiet
<1>2. \A r \in Runs : Stateful /\ pc[r] \in Based => mem[r].state = "staged"
  BY DEF ViewInv, StagedInv
<1> HIDE DEF Good
<1>3. mem \in [Runs -> Document]
  BY DEF TypeOK
<1> USE DEF sandbox, lineage, Handle, Conclude, HandleOSError, Steps, Halfway, Over, Based
<1>4. ASSUME NEW r \in Runs, Start(r) PROVE Good
  <2>1. /\ pc[r] = "idle"
        /\ Goto(r, "validate") \/ Goto(r, "done")
        /\ \A s \in Runs \ {r} : mem'[s] = mem[s]
    BY <1>3, <1>4 DEF Start
  <2> QED
    BY <1>1, <1>4, <2>1 DEF Start
<1>5. ASSUME NEW r \in Runs, Validate(r) PROVE Good
  BY <1>1, <1>3, <1>5 DEF Validate
<1>6. ASSUME NEW r \in Runs, Preflight(r) PROVE Good
  BY <1>1, <1>3, <1>6 DEF Preflight
<1>7. ASSUME NEW r \in Runs, Acquire(r) PROVE Good
  <2>1. \A m \in Months : lock'[m] = lock[m] \/ lock[m] = None
    BY <1>7 DEF Acquire, TypeOK
  <2>2. /\ pc[r] = "acquire"
        /\ Goto(r, "stage") \/ Goto(r, "handler")
        /\ UNCHANGED <<day, parent, snapshot, current, marker>>
        /\ \A s \in Runs \ {r} : mem'[s] = mem[s]
    BY <1>3, <1>7 DEF Acquire
  <2> QED
    BY <1>1, <2>1, <2>2
<1>8. ASSUME NEW r \in Runs, Stage(r) PROVE Good
  <2>1. /\ pc[r] = "stage"
        /\ UNCHANGED <<day, lock, snapshot, current, marker>>
        /\ \A s \in Runs \ {r} : parent'[s] = parent[s] /\ mem'[s] = mem[s]
        /\ \/ Goto(r, "command") /\ (Stateful => mem'[r].state = "staged")
           \/ Goto(r, "handler")
    BY <1>3, <1>8 DEF Stage, TypeOK, Document
  <2> QED
    BY <1>1, <2>1
<1>9. ASSUME NEW r \in Runs, Command(r) PROVE Good
  <2>1. /\ pc[r] = "command"
        /\ Goto(r, "legacy") \/ Goto(r, "handler")
        /\ UNCHANGED <<day, parent, lock, snapshot, current, marker>>
        /\ mem'[r].state = mem[r].state /\ \A s \in Runs \ {r} : mem'[s] = mem[s]
    BY <1>3, <1>9 DEF Command, Document
  <2> QED
    BY <1>1, <1>2, <2>1
<1>10. ASSUME NEW r \in Runs, Legacy(r) PROVE Good
  <2>1. /\ pc[r] = "legacy"
        /\ Goto(r, "outputs") \/ Goto(r, "finish") \/ Goto(r, "handler")
        /\ UNCHANGED <<day, parent, lock, snapshot, current, marker>>
        /\ mem'[r].state = mem[r].state /\ \A s \in Runs \ {r} : mem'[s] = mem[s]
    BY <1>3, <1>10 DEF Legacy, Document
  <2> QED
    BY <1>1, <1>2, <2>1
<1>11. ASSUME NEW r \in Runs, Outputs(r) PROVE Good
  <2>1. /\ pc[r] = "outputs"
        /\ Goto(r, "promote") \/ Goto(r, "finish") \/ Goto(r, "handler")
        /\ UNCHANGED <<day, parent, lock, snapshot, current, marker>>
        /\ mem'[r].state = mem[r].state /\ \A s \in Runs \ {r} : mem'[s] = mem[s]
    BY <1>3, <1>11 DEF Outputs, Document
  <2> QED
    BY <1>1, <1>2, <2>1
<1>12. ASSUME NEW r \in Runs, Promote(r) PROVE Good
  <2>1. /\ pc[r] = "promote"
        /\ Goto(r, "snapshot") \/ Goto(r, "handler")
        /\ UNCHANGED <<day, parent, lock, snapshot, current, marker>>
        /\ mem'[r].state = mem[r].state /\ \A s \in Runs \ {r} : mem'[s] = mem[s]
    BY <1>3, <1>12 DEF Promote, Document
  <2> QED
    BY <1>1, <1>2, <2>1
<1>13. ASSUME NEW r \in Runs, PublishSnapshot(r) PROVE Good
  BY <1>13, PublishSnapshotView DEF Good
<1>14. ASSUME NEW r \in Runs, PublishCurrent(r) \/ PersistRecovery(r) PROVE Good
  BY <1>14, HalfwayView DEF Good, Lineage!Next, Lineage!Days, Days
<1>15. ASSUME NEW r \in Runs, FinishBody(r) \/ FinishHandler(r) PROVE Good
  <2>1. /\ pc[r] \in {"finish", "handler"}
        /\ Goto(r, "release") \/ Goto(r, "handler")
        /\ UNCHANGED <<day, parent, lock, snapshot, current, marker>>
        /\ mem'[r].state = mem[r].state /\ \A s \in Runs \ {r} : mem'[s] = mem[s]
    BY <1>3, <1>15 DEF FinishBody, FinishHandler, Document
  <2> QED
    BY <1>1, <2>1
<1>16. ASSUME NEW r \in Runs, Release(r) PROVE Good
  <2>1. lock' = lock \/ (lock[Month(r)] = r /\ lock' = [lock EXCEPT ![Month(r)] = None])
    BY <1>16 DEF Release, MustRelease, MonthInv, LockInv
  <2>2. /\ pc[r] = "release" /\ Goto(r, "done")
        /\ UNCHANGED <<day, snapshot, current, marker, parent, mem>>
    BY <1>16 DEF Release
  <2>3. \A m \in Months : lock'[m] = lock[m] \/ lock[m] = None \/ pc[lock[m]] = "release"
    BY <2>1, <2>2 DEF TypeOK
  <2> QED
    BY <1>1, <2>2, <2>3
<1>17. ASSUME NEW r \in Runs, Crash(r) PROVE Good
  BY <1>1, <1>17 DEF Crash
<1>18. ASSUME NEW m \in Months, UnlockStale(m) \/ RepairLineage(m) PROVE Good
  BY <1>18, RepairView DEF Undisturbed, UnlockStale, Good, Lineage!Next, Lineage!Months, Months,
     Lineage!Days, Days
<1>19. CASE NextDay \/ UNCHANGED vars
  <2>1. UNCHANGED <<day, pc, mem, parent, lock, snapshot, current, marker>>
    BY <1>19 DEF NextDay, vars
  <2>2. \A r \in Runs : InFlight(r)' = InFlight(r)
    BY <2>1 DEF InFlight
  <2>3. UNCHANGED View
    BY <2>1, <2>2, SameView
  <2>4. ViewInv'
    BY <2>1, <2>2 DEF ViewInv, DatedInv, HalfwayInv, StagedInv, HiddenInv, Month
  <2> QED
    BY <2>3, <2>4 DEF Good
<1> QED
  BY <1>4, <1>5, <1>6, <1>7, <1>8, <1>9, <1>10, <1>11, <1>12, <1>13, <1>14, <1>15, <1>16,
     <1>17, <1>18, <1>19 DEF Next, Continue

\* Two files, a lock and a marker behave as one chain of versions per month, promoted all
\* at once, for every set of runs and calendar (state_store.py:160-183, service.py:80).
THEOREM StoresImplementLineage == ASSUME Undisturbed PROVE Spec => ImplementsLineage
<1>1. Init => ViewInv /\ Lineage!Init
  <2> SUFFICES ASSUME Init PROVE ViewInv /\ Lineage!Init
    OBVIOUS
  <2>1. \A x : InFlight(x) => x # None
    BY DEF InFlight
  <2>2. /\ \A d \in Days : snapshot[d] = None
        /\ \A m \in Months : current[m] = None /\ ~marker[m]
        /\ \A r \in Runs : pc[r] = "idle" /\ mem[r].state = "not_started" /\ day[r] \in Days
    BY DEF Init, NoDocument
  <2>3. ViewInv
    BY <2>2, RunAssumption
       DEF ViewInv, DatedInv, HalfwayInv, StagedInv, HiddenInv, InFlight, Halfway, Based
  <2>4. VisibleChain = [d \in Days |-> None]
    BY <2>1, <2>2 DEF VisibleChain, Visible
  <2>5. VisibleBases = [r \in Runs |-> None]
    BY <2>2, <2>4, RunAssumption DEF VisibleBases
  <2>6. VisibleCurrent = [m \in Months |-> None]
    BY <2>1, <2>2 DEF VisibleCurrent
  <2>7. marker = [m \in Months |-> FALSE]
    BY DEF Init
  <2> QED
    BY <2>3, <2>4, <2>5, <2>6, <2>7 DEF Lineage!Init, Lineage!Days, Lineage!Months, Days, Months
<1>2. TypeOK /\ MonthInv /\ ChainInv /\ ViewInv /\ [Next]_vars =>
        ViewInv' /\ [Lineage!Next]_(Lineage!lineageVars)
  BY ViewStep DEF View, Lineage!lineageVars
<1>3. QED
  BY <1>1, <1>2, MonthInvariant, ChainInvariant, PTL DEF Spec, ImplementsLineage, Lineage!Spec

-----------------------------------------------------------------------------
(***************************************************************************)
(* The lock of every month is a MonthLock.  Nothing is assumed here: a     *)
(* lock left behind by a dead run is one that is abandoned, and the        *)
(* operator only breaks a lock whose run has used the month.               *)
(***************************************************************************)
OwnerInv ==
  \A m \in Months : lock[m] # None =>
    Month(lock[m]) = m /\ Phase(lock[m]) # "before"

PhasesOf(m) == [r \in Runs |-> IF Month(r) = m THEN Phase(r) ELSE "before"]

\* A step of one run, seen by the months.
LEMMA PhaseMoves ==
  ASSUME TypeOK, NEW r \in Runs, NEW step \in Steps, Goto(r, step), UNCHANGED day,
         \A s \in Runs \ {r} : holds'[s] = holds[s]
  PROVE  /\ \A s \in Runs : Month(s)' = Month(s)
         /\ \A s \in Runs \ {r} : Phase(s)' = Phase(s)
         /\ Phase(r)' = IF step \in {"idle", "validate", "preflight", "acquire"} THEN "before"
                        ELSE IF holds'[r] THEN "using" ELSE "after"
         /\ \A m \in Months :
              PhasesOf(m)' = IF m = Month(r) THEN [PhasesOf(m) EXCEPT ![r] = Phase(r)']
                                             ELSE PhasesOf(m)
<1>1. \A s \in Runs : /\ Month(s)' = Month(s)
                      /\ pc'[s] = IF s = r THEN step ELSE pc[s]
  BY DEF Month, Goto, TypeOK
<1>2. \A s \in Runs \ {r} : Phase(s)' = Phase(s)
  BY <1>1 DEF Phase
<1>3. ASSUME NEW m \in Months
      PROVE  PhasesOf(m)' = IF m = Month(r) THEN [PhasesOf(m) EXCEPT ![r] = Phase(r)']
                                            ELSE PhasesOf(m)
  BY <1>1, <1>2 DEF PhasesOf
<1> QED
  BY <1>1, <1>2, <1>3 DEF Phase

\* A step of one run that ends as one of MonthLock, for the month of the run.
LEMMA MonthSteps ==
  ASSUME TypeOK, OwnerInv, NEW r \in Runs, NEW step \in Steps, Goto(r, step), UNCHANGED day,
         \A s \in Runs \ {r} : holds'[s] = holds[s],
         Phase(r) # "before" => Phase(r)' # "before",
         \/ UNCHANGED lock
         \/ lock' = [lock EXCEPT ![Month(r)] = None]
         \/ Phase(r)' # "before" /\ lock' = [lock EXCEPT ![Month(r)] = r],
         \/ Phase(r)' = Phase(r) /\ UNCHANGED lock
         \/ /\ Phase(r) = "before" /\ Phase(r)' = "using" /\ lock[Month(r)] = None
            /\ lock' = [lock EXCEPT ![Month(r)] = r]
         \/ /\ Phase(r) = "using" /\ Phase(r)' = "after" /\ lock[Month(r)] = r
            /\ lock' = [lock EXCEPT ![Month(r)] = None]
         \/ Phase(r) \in {"before", "using"} /\ Phase(r)' = "after" /\ UNCHANGED lock
         \/ /\ Phase(r) = "before" /\ Phase(r)' = "after" /\ lock[Month(r)] = None
            /\ lock' = [lock EXCEPT ![Month(r)] = r]
  PROVE  /\ OwnerInv'
         /\ \A m \in Months : [LockOf(m)!Next]_(LockOf(m)!lockVars)
<1>1. /\ \A s \in Runs : Month(s)' = Month(s)
      /\ \A s \in Runs \ {r} : Phase(s)' = Phase(s)
      /\ \A m \in Months :
           PhasesOf(m)' = IF m = Month(r) THEN [PhasesOf(m) EXCEPT ![r] = Phase(r)']
                                          ELSE PhasesOf(m)
  BY PhaseMoves
<1>2. Month(r) \in Months
  BY MonthType
<1>3. OwnerInv'
  BY <1>1, <1>2, RunAssumption DEF OwnerInv, TypeOK
<1>4. ASSUME NEW m \in Months PROVE [LockOf(m)!Next]_(LockOf(m)!lockVars)
  <2> DEFINE phases == [s \in Runs |-> IF Month(s) = m THEN Phase(s) ELSE "before"]
  <2>1. phases' = IF m = Month(r) THEN [phases EXCEPT ![r] = Phase(r)'] ELSE phases
    BY <1>1 DEF PhasesOf
  <2>2. m = Month(r) => phases[r] = Phase(r)
    OBVIOUS
  <2>3. CASE m # Month(r)
    <3>1. lock'[m] = lock[m]
      BY <1>2, <2>3 DEF TypeOK
    <3> QED
      BY <2>1, <2>3, <3>1 DEF LockOf!lockVars
  <2>4. CASE m = Month(r)
    <3> HIDE DEF phases
    <3>1. lock' \in {lock, [lock EXCEPT ![m] = None], [lock EXCEPT ![m] = r]}
          /\ lock \in [Months -> Runs \cup {None}]
      BY <2>4 DEF TypeOK
    <3>2. UNCHANGED <<lock[m], phases>> \/ LockOf(m)!Take(r) \/ LockOf(m)!Release(r)
          \/ LockOf(m)!Refuse(r) \/ LockOf(m)!Abandon(r) \/ LockOf(m)!Leak(r)
      BY <2>1, <2>2, <2>4, <3>1
         DEF LockOf!Take, LockOf!Release, LockOf!Refuse, LockOf!Abandon, LockOf!Leak, LockOf!Move,
             phases
    <3> QED
      BY <3>2 DEF LockOf!Next, LockOf!lockVars, phases
  <2> QED
    BY <2>3, <2>4
<1> QED
  BY <1>3, <1>4

\* Every step of the system is one of MonthLock, or a stutter, for every month.
LEMMA MonthLocksStep ==
  ASSUME TypeOK, MonthInv, OwnerInv, [Next]_vars
  PROVE  /\ OwnerInv'
         /\ \A m \in Months : [LockOf(m)!Next]_(LockOf(m)!lockVars)
<1> DEFINE Good == OwnerInv' /\ \A m \in Months : [LockOf(m)!Next]_(LockOf(m)!lockVars)
<1> SUFFICES Good
  OBVIOUS
<1>1. ASSUME NEW r \in Runs, NEW step \in Steps, Goto(r, step), UNCHANGED <<day, lock>>,
             \A s \in Runs \ {r} : holds'[s] = holds[s],
             \/ UNCHANGED holds
             \/ ~holds'[r] /\ step \in {"done", "crashed"},
             \/ step \in {"idle", "validate", "preflight", "acquire"} /\ Phase(r) = "before"
             \/ step \notin {"idle", "validate", "preflight", "acquire"}
                /\ (Phase(r) = "before" => ~holds[r])
      PROVE  Good
  <2>1. Phase(r)' = IF step \in {"idle", "validate", "preflight", "acquire"} THEN "before"
                    ELSE IF holds'[r] THEN "using" ELSE "after"
    BY <1>1, PhaseMoves
  <2>2. Phase(r) \in {"before", "using", "after"} /\ (Phase(r) = "using" => holds[r])
        /\ (Phase(r) = "after" => ~holds[r])
    BY DEF Phase
  <2>3. CASE Phase(r)' = Phase(r)
    BY <1>1, <2>1, <2>2, <2>3, MonthSteps
  <2>4. CASE Phase(r)' # Phase(r)
    <3>1. Phase(r) \in {"before", "using"} /\ Phase(r)' = "after"
      BY <1>1, <2>1, <2>2, <2>4
    <3> QED
      BY <1>1, <3>1, MonthSteps
  <2> QED
    BY <2>3, <2>4
<1> HIDE DEF Good
<1>2. \A r \in Runs : Phase(r) = "before" => ~holds[r]
  BY MonthType, RunAssumption DEF MonthInv, LockInv, OwnerInv
<1> USE DEF sandbox, lineage, Handle, Conclude, HandleOSError, Steps
<1>3. ASSUME NEW r \in Runs, Start(r) \/ Validate(r) \/ Preflight(r) PROVE Good
  BY <1>1, <1>2, <1>3 DEF Start, Validate, Preflight, Phase
<1>4. ASSUME NEW r \in Runs, Acquire(r) PROVE Good
  <2>1. /\ pc[r] = "acquire" /\ Phase(r) = "before" /\ ~holds[r] /\ UNCHANGED day
        /\ Month(r) \in Months
    BY <1>2, <1>4, MonthType DEF Acquire, Phase
  <2>2. CASE UNCHANGED <<lock, holds>> /\ Goto(r, "handler")
    BY <1>1, <2>1, <2>2
  <2>3. CASE /\ Goto(r, "stage") /\ holds' = [holds EXCEPT ![r] = TRUE]
             /\ lock[Month(r)] = None /\ lock' = [lock EXCEPT ![Month(r)] = r]
    <3>1. Phase(r)' = "using" /\ \A s \in Runs \ {r} : holds'[s] = holds[s]
      BY <2>1, <2>3, PhaseMoves DEF TypeOK
    <3> QED
      BY <2>1, <2>3, <3>1, MonthSteps DEF Good
  <2>4. CASE /\ Goto(r, "handler") /\ UNCHANGED holds
             /\ lock[Month(r)] = None /\ lock' = [lock EXCEPT ![Month(r)] = r]
    <3>1. Phase(r)' = "after"
      BY <2>1, <2>4, PhaseMoves
    <3> QED
      BY <2>1, <2>4, <3>1, MonthSteps DEF Good
  <2> QED
    BY <1>4, <2>2, <2>3, <2>4 DEF Acquire
<1>5. ASSUME NEW r \in Runs,
             \/ Stage(r) \/ Command(r) \/ Legacy(r) \/ Outputs(r) \/ Promote(r)
             \/ FinishBody(r) \/ FinishHandler(r)
      PROVE  Good
  <2>1. UNCHANGED <<day, lock, holds>> /\ Phase(r) # "before"
    BY <1>5 DEF Stage, Command, Legacy, Outputs, Promote, FinishBody, FinishHandler, Phase
  <2>2. \E step \in {"command", "legacy", "outputs", "promote", "snapshot", "finish", "handler",
                     "release"} : Goto(r, step)
    BY <1>5 DEF Stage, Command, Legacy, Outputs, Promote, FinishBody, FinishHandler
  <2> QED
    BY <1>1, <2>1, <2>2
<1>6. ASSUME NEW r \in Runs, PublishSnapshot(r) \/ PublishCurrent(r) \/ PersistRecovery(r)
      PROVE  Good
  <2>1. UNCHANGED <<day, lock, holds>> /\ Phase(r) # "before"
    BY <1>6 DEF PublishSnapshot, PublishCurrent, PersistRecovery, Phase
  <2>2. \E step \in {"current", "evidence", "finish", "handler"} : Goto(r, step)
    BY <1>6 DEF PublishSnapshot, HandlePublished, PublishCurrent, PersistRecovery
  <2> QED
    BY <1>1, <2>1, <2>2
<1>7. ASSUME NEW r \in Runs, Release(r) PROVE Good
  <2>1. /\ pc[r] = "release" /\ Phase(r) # "before" /\ Goto(r, "done") /\ UNCHANGED day
        /\ ~holds'[r] /\ \A s \in Runs \ {r} : holds'[s] = holds[s]
    BY <1>7 DEF Release, Phase, TypeOK
  <2>2. CASE UNCHANGED lock
    BY <1>1, <2>1, <2>2
  <2>3. CASE holds[r] /\ lock' = [lock EXCEPT ![Month(r)] = None]
    <3>1. Phase(r) = "using" /\ Phase(r)' = "after" /\ lock[Month(r)] = r
      BY <2>1, <2>3, PhaseMoves DEF Phase, MonthInv, LockInv
    <3> QED
      BY <2>1, <2>3, <3>1, MonthSteps DEF Good
  <2> QED
    BY <1>7, <2>2, <2>3 DEF Release, MustRelease
<1>8. ASSUME NEW r \in Runs, Crash(r) PROVE Good
  <2>1. /\ Goto(r, "crashed") /\ UNCHANGED <<day, lock>>
        /\ ~holds'[r] /\ \A s \in Runs \ {r} : holds'[s] = holds[s]
    BY <1>8 DEF Crash, TypeOK
  <2> QED
    BY <1>1, <1>2, <2>1
<1>9. ASSUME NEW n \in Months, UnlockStale(n) PROVE Good
  <2>1. /\ lock[n] # None /\ ~holds[lock[n]] /\ lock' = [lock EXCEPT ![n] = None]
        /\ UNCHANGED <<day, pc, holds>>
    BY <1>9 DEF UnlockStale
  <2>2. /\ \A s \in Runs : Month(s)' = Month(s) /\ Phase(s)' = Phase(s)
        /\ lock[n] \in Runs /\ Month(lock[n]) = n /\ Phase(lock[n]) = "after"
        /\ lock'[n] = None /\ \A m \in Months \ {n} : lock'[m] = lock[m]
    BY <2>1 DEF Month, Phase, TypeOK, OwnerInv
  <2>3. OwnerInv'
    BY <2>2 DEF OwnerInv, TypeOK
  <2>4. ASSUME NEW m \in Months PROVE [LockOf(m)!Next]_(LockOf(m)!lockVars)
    <3> DEFINE phases == [s \in Runs |-> IF Month(s) = m THEN Phase(s) ELSE "before"]
    <3>1. phases' = phases
      BY <2>2
    <3>2. m = n => phases[lock[m]] = "after"
      BY <2>2
    <3> HIDE DEF phases
    <3>3. UNCHANGED <<lock[m], phases>> \/ LockOf(m)!Break
      BY <2>1, <2>2, <3>1, <3>2 DEF LockOf!Break, phases
    <3> QED
      BY <3>3 DEF LockOf!Next, LockOf!lockVars, phases
  <2> QED
    BY <2>3, <2>4 DEF Good
<1>10. CASE NextDay \/ (\E m \in Months : RepairLineage(m)) \/ UNCHANGED vars
  <2>1. UNCHANGED <<day, pc, holds, lock>>
    BY <1>10 DEF NextDay, RepairLineage, vars
  <2>2. \A s \in Runs : Month(s)' = Month(s) /\ Phase(s)' = Phase(s)
    BY <2>1 DEF Month, Phase
  <2>3. OwnerInv'
    BY <2>1, <2>2 DEF OwnerInv, TypeOK
  <2>4. \A m \in Months : UNCHANGED LockOf(m)!lockVars
    BY <2>1, <2>2 DEF LockOf!lockVars
  <2> QED
    BY <2>3, <2>4 DEF Good
<1> QED
  BY <1>3, <1>4, <1>5, <1>6, <1>7, <1>8, <1>9, <1>10 DEF Next, Continue

\* The lock of every month is a MonthLock, whatever fails, dies or is done by hand
\* (run_store.py:96, service.py:107).
THEOREM StoresImplementMonthLocks == Spec => ImplementsMonthLocks
<1>1. Init => OwnerInv /\ \A m \in Months : LockOf(m)!Init
  BY DEF Init, OwnerInv, LockOf!Init, Phase
<1>2. TypeOK /\ MonthInv /\ OwnerInv /\ [Next]_vars =>
        OwnerInv' /\ [\A m \in Months : [LockOf(m)!Next]_(LockOf(m)!lockVars)]_vars
  BY MonthLocksStep
<1>3. QED
  BY <1>1, <1>2, MonthInvariant, PTL DEF Spec, ImplementsMonthLocks

-----------------------------------------------------------------------------
(***************************************************************************)
(* What promotion_failed means: the run failed before its snapshot was in  *)
(* place.  The last except clause gives this code to every late OSError,   *)
(* so it needs that of _finish never to happen after a success.            *)
(***************************************************************************)
FailedInv ==
  \A r \in Runs :
    /\ mem[r].passed => pc[r] \in {"promote", "snapshot"} \cup Halfway \cup Over
    /\ "promotion_failed" \in {mem[r].code, disk[r].code} =>
         pc[r] \in Over /\ snapshot[day[r]] # r

\* A step of one run.
LEMMA FailedQuiet ==
  ASSUME TypeOK, FailedInv, NEW r \in Runs, NEW step \in Steps, Goto(r, step), UNCHANGED day,
         UNCHANGED snapshot \/ snapshot' = [snapshot EXCEPT ![day[r]] = r],
         \A s \in Runs \ {r} : mem'[s] = mem[s] /\ disk'[s] = disk[s],
         pc[r] \in Over => step \in Over /\ UNCHANGED snapshot,
         pc[r] \in {"promote", "snapshot"} \cup Halfway =>
           step \in {"promote", "snapshot"} \cup Halfway \cup Over,
         mem'[r].passed =>
           mem[r].passed \/ step \in {"promote", "snapshot"} \cup Halfway \cup Over,
         mem'[r].code = "promotion_failed" =>
           mem[r].code = "promotion_failed" \/ (step \in Over /\ snapshot'[day[r]] # r),
         disk'[r].code = "promotion_failed" =>
           "promotion_failed" \in {disk[r].code, mem[r].code}
  PROVE  FailedInv'
<1>1. \A s \in Runs : pc'[s] = IF s = r THEN step ELSE pc[s]
  BY DEF Goto, TypeOK
<1>2. \A s \in Runs \ {r} : snapshot[day[s]] # s => snapshot'[day[s]] # s
  BY DEF TypeOK
<1> QED
  BY <1>1, <1>2 DEF FailedInv

\* What the helpers of the control flow do to the codes of the documents.
LEMMA HandleCode ==
  ASSUME TypeOK, NEW r \in Runs, NEW status \in TerminalStatuses,
         NEW code \in ErrorCodes \cup {"none"},
         Handle(r, status, code) \/ Conclude(r, status, code)
  PROVE  /\ Goto(r, "handler") \/ Goto(r, "finish")
         /\ mem'[r].code = code /\ mem'[r].passed = mem[r].passed
         /\ \A s \in Runs \ {r} : mem'[s] = mem[s]
<1>1. mem \in [Runs -> Document]
  BY DEF TypeOK
<1> QED
  BY <1>1 DEF Handle, Conclude, Document

\* A step of the system keeps what promotion_failed says.
LEMMA FailedStep ==
  ASSUME "metadata" \notin Faults, TypeOK, MonthInv, ReportInv, FailedInv, [Next]_vars
  PROVE  FailedInv'
<1>1. mem \in [Runs -> Document] /\ disk \in [Runs -> Document] /\ pc \in [Runs -> Steps]
  BY DEF TypeOK
<1>2. ASSUME NEW r \in Runs, mem[r].passed
      PROVE  pc[r] \in {"promote", "snapshot"} \cup Halfway \cup Over
  BY <1>2 DEF FailedInv
<1>3. ASSUME NEW r \in Runs, NEW status \in TerminalStatuses,
             NEW code \in ErrorCodes \cup {"none"}, code # "promotion_failed",
             Handle(r, status, code) \/ Conclude(r, status, code),
             UNCHANGED <<day, snapshot, disk>>
      PROVE  FailedInv'
  BY <1>3, HandleCode, FailedQuiet DEF Steps, Over, Halfway
<1>4. ASSUME NEW r \in Runs, ~mem[r].passed, HandleOSError(r), UNCHANGED <<day, snapshot, disk>>
      PROVE  FailedInv'
  BY <1>3, <1>4 DEF HandleOSError, TerminalStatuses, ErrorCodes
<1> USE DEF sandbox, lineage, Steps, Over, Halfway
<1>5. ASSUME NEW r \in Runs, Start(r) PROVE FailedInv'
  <2>1. /\ Goto(r, "validate") \/ Goto(r, "done")
        /\ UNCHANGED <<day, snapshot>> /\ pc[r] = "idle"
        /\ mem'[r].code = "none" /\ ~mem'[r].passed
        /\ disk'[r].code = "none" \/ disk'[r] = disk[r]
        /\ \A s \in Runs \ {r} : mem'[s] = mem[s] /\ disk'[s] = disk[s]
    BY <1>1, <1>5 DEF Start, WriteMetadata, NoDocument
  <2> QED
    BY <2>1, FailedQuiet
<1>6. ASSUME NEW r \in Runs, Validate(r) \/ Preflight(r) \/ Acquire(r) PROVE FailedInv'
  <2>1. /\ UNCHANGED <<day, snapshot, disk>> /\ ~mem[r].passed
        /\ pc[r] \in {"validate", "preflight", "acquire"}
    BY <1>2, <1>6 DEF Validate, Preflight, Acquire
  <2>2. CASE UNCHANGED mem /\ \E step \in {"preflight", "acquire", "stage"} : Goto(r, step)
    BY <2>1, <2>2, FailedQuiet
  <2>3. ASSUME NEW code \in {"validation_error", "recovery_required", "snapshot_exists",
                             "lock_exists"}, Handle(r, "blocked", code)
        PROVE  FailedInv'
    BY <1>3, <2>1, <2>3 DEF TerminalStatuses, ErrorCodes
  <2>4. CASE HandleOSError(r)
    BY <1>4, <2>1, <2>4
  <2> QED
    BY <1>6, <2>2, <2>3, <2>4 DEF Validate, Preflight, Acquire, Blocker
<1>7. ASSUME NEW r \in Runs, Stage(r) \/ Command(r) PROVE FailedInv'
  <2>1. UNCHANGED <<day, snapshot>> /\ ~mem[r].passed /\ pc[r] \in {"stage", "command"}
    BY <1>2, <1>7 DEF Stage, Command
  <2>2. CASE HandleOSError(r) /\ UNCHANGED disk
    BY <1>4, <2>1, <2>2
  <2>3. CASE Handle(r, "blocked", "validation_error") /\ UNCHANGED disk
    BY <1>3, <2>1, <2>3 DEF TerminalStatuses, ErrorCodes
  <2>4. CASE /\ Goto(r, "command") \/ Goto(r, "legacy")
             /\ mem'[r].code = mem[r].code /\ mem'[r].passed = mem[r].passed
             /\ disk'[r].code \in {disk[r].code, mem[r].code}
             /\ \A s \in Runs \ {r} : mem'[s] = mem[s] /\ disk'[s] = disk[s]
    BY <2>1, <2>4, FailedQuiet
  <2>5. CASE Stage(r)
    BY <1>1, <2>2, <2>4, <2>5 DEF Stage, Document
  <2>6. CASE Command(r)
    <3>1. CASE /\ WriteMetadata(r, [mem[r] EXCEPT !.status = "running"], TRUE)
               /\ mem' = [mem EXCEPT ![r].status = "running"]
               /\ Goto(r, "legacy")
      BY <1>1, <2>4, <3>1 DEF WriteMetadata, Document
    <3> QED
      BY <2>3, <2>6, <3>1 DEF Command, WriteMetadata
  <2> QED
    BY <1>7, <2>5, <2>6
<1>8. ASSUME NEW r \in Runs, Legacy(r) PROVE FailedInv'
  <2>1. UNCHANGED <<day, snapshot, disk>> /\ ~mem[r].passed /\ pc[r] = "legacy"
    BY <1>2, <1>8 DEF Legacy
  <2>2. CASE UNCHANGED mem /\ Goto(r, "outputs")
    BY <2>1, <2>2, FailedQuiet
  <2>3. CASE \/ Conclude(r, "failed", "spawn_failed") \/ Conclude(r, "timed_out", "timeout")
             \/ Conclude(r, "failed", "nonzero_exit")
    BY <1>3, <2>1, <2>3 DEF TerminalStatuses, ErrorCodes
  <2>4. CASE HandleOSError(r)
    BY <1>4, <2>1, <2>4
  <2> QED
    BY <1>8, <2>2, <2>3, <2>4 DEF Legacy
<1>9. ASSUME NEW r \in Runs, Outputs(r) PROVE FailedInv'
  <2>1. UNCHANGED <<day, snapshot, disk>> /\ ~mem[r].passed /\ pc[r] = "outputs"
    BY <1>2, <1>9 DEF Outputs
  <2>2. CASE /\ mem'[r].code = mem[r].code /\ \A s \in Runs \ {r} : mem'[s] = mem[s]
             /\ Goto(r, "promote") \/ Goto(r, "finish")
    BY <2>1, <2>2, FailedQuiet
  <2>3. CASE Handle(r, "failed", "postcondition_failed")
    BY <1>3, <2>1, <2>3 DEF TerminalStatuses, ErrorCodes
  <2>4. CASE HandleOSError(r)
    BY <1>4, <2>1, <2>4
  <2> QED
    BY <1>1, <1>9, <2>2, <2>3, <2>4 DEF Outputs, Document
<1>10. ASSUME NEW r \in Runs, Promote(r) PROVE FailedInv'
  <2>1. UNCHANGED <<day, snapshot, disk>> /\ pc[r] = "promote"
    BY <1>10 DEF Promote
  <2>2. CASE UNCHANGED mem /\ Goto(r, "snapshot")
    BY <2>1, <2>2, FailedQuiet
  <2>3. ASSUME NEW code \in {"recovery_required", "snapshot_exists", "state_unchanged"},
               NEW status \in {"blocked", "failed"}, Handle(r, status, code)
        PROVE  FailedInv'
    BY <1>3, <2>1, <2>3 DEF TerminalStatuses, ErrorCodes
  <2> QED
    BY <1>10, <2>2, <2>3 DEF Promote, StoreBlocker, Blocker
<1>11. ASSUME NEW r \in Runs, PublishSnapshot(r) PROVE FailedInv'
  <2>1. pc[r] = "snapshot" /\ UNCHANGED <<day, disk>> /\ snapshot[day[r]] # r
    BY <1>11, RunAssumption DEF PublishSnapshot, MonthInv, PromoteInv
  <2>2. CASE Handle(r, "failed", "promotion_failed") /\ UNCHANGED snapshot
    BY <2>1, <2>2, HandleCode, FailedQuiet DEF TerminalStatuses, ErrorCodes
  <2>3. CASE /\ snapshot' = [snapshot EXCEPT ![day[r]] = r] /\ UNCHANGED mem
             /\ Goto(r, "current") \/ Goto(r, "evidence")
    BY <2>1, <2>3, FailedQuiet
  <2> QED
    BY <1>11, <2>2, <2>3 DEF PublishSnapshot, HandlePublished
<1>12. ASSUME NEW r \in Runs, PublishCurrent(r) \/ PersistRecovery(r) PROVE FailedInv'
  <2>1. pc[r] \in Halfway /\ UNCHANGED <<day, disk, snapshot>>
    BY <1>12 DEF PublishCurrent, PersistRecovery
  <2>2. CASE /\ mem'[r].code \in {mem[r].code, "recovery_required"}
             /\ \A s \in Runs \ {r} : mem'[s] = mem[s]
             /\ \E step \in {"finish", "evidence", "handler"} : Goto(r, step)
    BY <2>1, <2>2, FailedQuiet
  <2>3. CASE Handle(r, "failed", "recovery_evidence_failed")
    BY <1>3, <2>1, <2>3 DEF TerminalStatuses, ErrorCodes
  <2> QED
    BY <1>1, <1>12, <2>2, <2>3 DEF PublishCurrent, PersistRecovery, Document
<1>13. ASSUME NEW r \in Runs, FinishBody(r) \/ FinishHandler(r) \/ Release(r) \/ Crash(r)
       PROVE  FailedInv'
  <2>1. /\ UNCHANGED <<day, mem, snapshot>>
        /\ Goto(r, "release") \/ Goto(r, "done") \/ Goto(r, "crashed")
        /\ disk'[r] \in {disk[r], mem[r]} /\ \A s \in Runs \ {r} : disk'[s] = disk[s]
        /\ Goto(r, "crashed") \/ pc[r] \in {"finish", "handler", "release"}
    BY <1>1, <1>13 DEF FinishBody, FinishHandler, Release, Crash, WriteMetadata
  <2> QED
    BY <2>1, FailedQuiet
<1>14. CASE NextDay \/ (\E m \in Months : UnlockStale(m) \/ RepairLineage(m)) \/ UNCHANGED vars
  BY <1>14 DEF NextDay, UnlockStale, RepairLineage, vars, FailedInv
<1> QED
  BY <1>5, <1>6, <1>7, <1>8, <1>9, <1>10, <1>11, <1>12, <1>13, <1>14 DEF Next, Continue

\* While run.json can be written, promotion_failed means that nothing was published
\* (docs/ARQUITECTURA.md:112, service.py:104).
THEOREM PromotionFailedIsHarmless ==
  ASSUME "metadata" \notin Faults PROVE Spec => []PromotionFailedPublishedNothing
<1>1. Init => FailedInv
  <2> SUFFICES ASSUME Init PROVE FailedInv
    OBVIOUS
  <2>1. \A r \in Runs : ~mem[r].passed /\ mem[r].code = "none" /\ disk[r].code = "none"
    BY DEF Init, NoDocument
  <2> QED
    BY <2>1 DEF FailedInv
<1>2. TypeOK /\ MonthInv /\ ReportInv /\ FailedInv /\ [Next]_vars => FailedInv'
  BY FailedStep
<1>3. FailedInv => PromotionFailedPublishedNothing
  BY DEF FailedInv, PromotionFailedPublishedNothing
<1>4. QED
  BY <1>1, <1>2, <1>3, MonthInvariant, ReportInvariant, PTL DEF Spec

-----------------------------------------------------------------------------
(***************************************************************************)
(* StateLineage, for every calendar and set of versions: what the stores   *)
(* implement keeps its chains.                                             *)
(***************************************************************************)
VARIABLES chain, based, cur, sealed

Chain == INSTANCE StateLineage WITH Versions <- Runs

LEMMA LastDayOfChain ==
  ASSUME NEW S \in SUBSET Chain!Days, S # {}
  PROVE  \E e \in S : \A f \in S : f <= e
BY LastDayExists DEF Chain!Days, Days

(* What Before returns. *)

\* e is the last day of the month before d.
IsLastBefore(e, m, d) ==
  e \in Chain!DaysOf(m) /\ e < d /\ \A f \in Chain!DaysOf(m) : f < d => f <= e

\* Before is the version of the last earlier day of the month, if there is one.
LEMMA BeforeIs ==
  ASSUME NEW m, NEW d
  PROVE  \/ /\ \A e \in Chain!DaysOf(m) : ~(e < d)
            /\ Chain!Before(m, d) = None
         \/ \E e : IsLastBefore(e, m, d) /\ Chain!Before(m, d) = chain[e]
<1> DEFINE S == {e \in Chain!DaysOf(m) : e < d}
<1>1. S \in SUBSET Chain!Days
  BY DEF Chain!DaysOf
<1>2. CASE S = {}
  BY <1>2 DEF Chain!Before
<1>3. CASE S # {}
  <2> DEFINE last == CHOOSE e \in S : \A f \in S : f <= e
  <2>1. last \in S /\ \A f \in S : f <= last
    BY <1>1, <1>3, LastDayOfChain
  <2>2. Chain!Before(m, d) = chain[last]
    BY <1>3 DEF Chain!Before
  <2>3. QED
    BY <2>1, <2>2 DEF IsLastBefore
<1>4. QED
  BY <1>2, <1>3

\* Before returns a version or None.
LEMMA BeforeType ==
  ASSUME Chain!LineageTypeOK, NEW m, NEW d
  PROVE  Chain!Before(m, d) \in Runs \cup {None}
BY BeforeIs DEF IsLastBefore, Chain!DaysOf, Chain!LineageTypeOK

\* Before depends on the chain only through the days before d of the month.
LEMMA BeforeSame ==
  ASSUME NEW m, NEW d, NEW c,
         {e \in Chain!DaysOf(m) : e < d} = {e \in Chain!DaysOf(m) : e < c}
  PROVE  Chain!Before(m, d) = Chain!Before(m, c)
<1> DEFINE S == {e \in Chain!DaysOf(m) : e < d}
           T == {e \in Chain!DaysOf(m) : e < c}
           Last(R) == IF R = {} THEN None
                      ELSE chain[CHOOSE e \in R : \A f \in R : f <= e]
<1>1. Chain!Before(m, d) = Last(S) /\ Chain!Before(m, c) = Last(T)
  BY DEF Chain!Before
<1>2. S = T
  OBVIOUS
<1> HIDE DEF S, T, Last
<1>3. QED
  BY <1>1, <1>2

\* A step that keeps the days before d of the month keeps Before.
LEMMA BeforeUnchanged ==
  ASSUME NEW m, NEW d,
         {e \in Chain!DaysOf(m) : e < d} = {e \in Chain!DaysOf(m)' : e < d},
         \A e \in Chain!DaysOf(m) : e < d => chain'[e] = chain[e]
  PROVE  Chain!Before(m, d)' = Chain!Before(m, d)
<1> DEFINE S == {e \in Chain!DaysOf(m) : e < d}
           T == {e \in Chain!DaysOf(m)' : e < d}
           Last(R) == CHOOSE e \in R : \A f \in R : f <= e
<1>1. Chain!Before(m, d) = IF S = {} THEN None ELSE chain[Last(S)]
  BY DEF Chain!Before
<1>2. Chain!Before(m, d)' = IF T = {} THEN None ELSE chain'[Last(T)]
  BY DEF Chain!Before
<1>3. S # {} => Last(S) \in S
  <2>1. S \in SUBSET Chain!Days
    BY DEF Chain!DaysOf
  <2>2. QED
    BY <2>1, LastDayOfChain
<1>4. S # {} => chain'[Last(S)] = chain[Last(S)]
  BY <1>3
<1>5. S = T
  OBVIOUS
<1> HIDE DEF S, T, Last
<1>6. QED
  BY <1>1, <1>2, <1>4, <1>5

-----------------------------------------------------------------------------
(* The invariant. *)

ChainIsWhole == Chain!LineageTypeOK /\ Chain!Chained /\ Chain!CurIsNewest

\* The empty chain satisfies the invariant.
LEMMA ChainStartsWhole ==
  ASSUME Chain!Init
  PROVE  ChainIsWhole
<1>1. Chain!LineageTypeOK
  BY DEF Chain!Init, Chain!LineageTypeOK
<1>2. Chain!Chained
  BY DEF Chain!Init, Chain!Chained
<1>3. \A m \in Chain!Months : Chain!DaysOf(m) = {}
  BY DEF Chain!Init, Chain!DaysOf
<1>4. Chain!CurIsNewest
  BY <1>3, BeforeIs DEF Chain!Init, Chain!CurIsNewest, Chain!Newest, IsLastBefore
<1>5. QED
  BY <1>1, <1>2, <1>4 DEF ChainIsWhole

\* What a promotion does to the chain: it adds one day after the others of its
\* month, so what stood before any other day still does.
LEMMA ExtendAppends ==
  ASSUME ChainIsWhole, NEW d \in Chain!Days, NEW v \in Runs, Chain!Extend(d, v)
  PROVE  /\ chain[d] = None /\ chain'[d] = v
         /\ \A e \in Chain!Days \ {d} : chain'[e] = chain[e]
         /\ Chain!DaysOf(MonthOf[d])' = Chain!DaysOf(MonthOf[d]) \cup {d}
         /\ \A m \in Chain!Months \ {MonthOf[d]} : Chain!DaysOf(m)' = Chain!DaysOf(m)
<1>1. chain'[d] = v /\ v # None /\ \A e \in Chain!Days \ {d} : chain'[e] = chain[e]
  BY RunAssumption, CalendarAssumption DEF Chain!Extend, ChainIsWhole, Chain!LineageTypeOK
<1>2. chain[d] = None
  <2>1. d \in Chain!DaysOf(MonthOf[d]) => d < d
    BY DEF Chain!Extend
  <2>2. d \in Nat
    BY RunAssumption, CalendarAssumption DEF Chain!Days
  <2>3. QED
    BY <2>1, <2>2 DEF Chain!DaysOf
<1>3. Chain!DaysOf(MonthOf[d])' = Chain!DaysOf(MonthOf[d]) \cup {d}
  BY <1>1 DEF Chain!DaysOf
<1>4. ASSUME NEW m \in Chain!Months \ {MonthOf[d]} PROVE Chain!DaysOf(m)' = Chain!DaysOf(m)
  BY <1>1 DEF Chain!DaysOf
<1>5. QED
  BY <1>1, <1>2, <1>3, <1>4

\* The new version stands on the current one and becomes the newest of its month;
\* nothing changes for the other days and months.
LEMMA ExtendBefore ==
  ASSUME ChainIsWhole, NEW d \in Chain!Days, NEW v \in Runs, Chain!Extend(d, v)
  PROVE  /\ Chain!Before(MonthOf[d], d)' = cur[MonthOf[d]]
         /\ \A e \in Chain!Days : chain[e] # None =>
              Chain!Before(MonthOf[e], e)' = Chain!Before(MonthOf[e], e)
         /\ \A m \in Chain!Months \ {MonthOf[d]} : Chain!Newest(m)' = Chain!Newest(m)
         /\ Chain!Newest(MonthOf[d])' = v
<1> DEFINE m == MonthOf[d]
<1>0. /\ m \in Chain!Months
      /\ \A e \in Chain!Days : e \in Nat /\ e < LastDay + 1 /\ MonthOf[e] \in Chain!Months
      /\ \A k : Chain!DaysOf(k) \subseteq Chain!Days
      /\ \A e \in Chain!DaysOf(m) : e < d
  BY RunAssumption, CalendarAssumption DEF Chain!Days, Chain!Months, Chain!DaysOf, Chain!Extend
<1>1. /\ chain[d] = None /\ chain'[d] = v
      /\ \A e \in Chain!Days \ {d} : chain'[e] = chain[e]
      /\ Chain!DaysOf(m)' = Chain!DaysOf(m) \cup {d}
      /\ \A k \in Chain!Months \ {m} : Chain!DaysOf(k)' = Chain!DaysOf(k)
  BY ExtendAppends
<1>2. \A k : d \notin Chain!DaysOf(k)
  BY <1>1 DEF Chain!DaysOf
<1>3. Chain!Before(m, d)' = cur[m]
  <2>1. {e \in Chain!DaysOf(m) : e < d} = {e \in Chain!DaysOf(m)' : e < d}
    BY <1>0, <1>1
  <2>2. Chain!Before(m, d)' = Chain!Before(m, d)
    BY <2>1, <1>0, <1>1, <1>2, BeforeUnchanged
  <2>3. {e \in Chain!DaysOf(m) : e < d} = {e \in Chain!DaysOf(m) : e < LastDay + 1}
    BY <1>0
  <2>4. Chain!Before(m, d) = Chain!Newest(m)
    BY <2>3, BeforeSame DEF Chain!Newest
  <2>5. cur[m] = Chain!Newest(m)
    BY <1>0 DEF Chain!Extend, ChainIsWhole, Chain!CurIsNewest
  <2>6. QED
    BY <2>2, <2>4, <2>5
<1>4. ASSUME NEW e \in Chain!Days, chain[e] # None
      PROVE  Chain!Before(MonthOf[e], e)' = Chain!Before(MonthOf[e], e)
  <2> DEFINE k == MonthOf[e]
  <2>1. e \in Chain!DaysOf(k) /\ k \in Chain!Months
    BY <1>0, <1>4 DEF Chain!DaysOf
  <2>2. k = m => ~(d < e)
    BY <2>1, <1>0
  <2>3. {f \in Chain!DaysOf(k) : f < e} = {f \in Chain!DaysOf(k)' : f < e}
    BY <2>1, <2>2, <1>1
  <2>4. \A f \in Chain!DaysOf(k) : f < e => chain'[f] = chain[f]
    BY <1>0, <1>1, <1>2
  <2>5. QED
    BY <2>3, <2>4, BeforeUnchanged
<1>5. ASSUME NEW k \in Chain!Months \ {m}
      PROVE  Chain!Newest(k)' = Chain!Newest(k)
  <2>1. {f \in Chain!DaysOf(k) : f < LastDay + 1} = {f \in Chain!DaysOf(k)' : f < LastDay + 1}
    BY <1>1
  <2>2. \A f \in Chain!DaysOf(k) : f < LastDay + 1 => chain'[f] = chain[f]
    BY <1>0, <1>1, <1>2
  <2>3. Chain!Before(k, LastDay + 1)' = Chain!Before(k, LastDay + 1)
    BY <2>1, <2>2, BeforeUnchanged
  <2>4. QED
    BY <2>3 DEF Chain!Newest
<1>6. Chain!Newest(m)' = v
  <2> DEFINE S == {e \in Chain!DaysOf(m)' : e < LastDay + 1}
             last == CHOOSE e \in S : \A f \in S : f <= e
  <2>1. d \in S /\ \A f \in S : f <= d
    BY <1>0, <1>1
  <2>2. S \in SUBSET Chain!Days /\ S # {}
    BY <2>1, <1>0, <1>1
  <2>3. last \in S /\ \A f \in S : f <= last
    <3> HIDE DEF S
    <3>1. QED
      BY <2>2, LastDayOfChain
  <2>4. last \in Nat /\ d \in Nat
    BY <2>2, <2>3, <1>0
  <2>5. last = d
    <3>1. last <= d /\ d <= last
      BY <2>1, <2>3
    <3> HIDE DEF last
    <3>2. QED
      BY <3>1, <2>4
  <2>6. Chain!Newest(m)' = IF S = {} THEN None ELSE chain'[last]
    BY DEF Chain!Newest, Chain!Before
  <2>7. QED
    BY <2>2, <2>5, <2>6, <1>1
<1>7. QED
  BY <1>3, <1>4, <1>5, <1>6

\* A promotion, complete or half, preserves the invariant.
LEMMA PromoteKeepsChain ==
  ASSUME ChainIsWhole, NEW d \in Chain!Days, NEW v \in Runs, Chain!Promote(d, v)
  PROVE  ChainIsWhole'
<1> DEFINE m == MonthOf[d]
<1>0. Chain!Extend(d, v) /\ (Chain!Complete(d, v) \/ Chain!Seal(d, v)) /\ m \in Chain!Months
  BY DEF Chain!Promote, Chain!Months
<1>1. /\ chain'[d] = v /\ v # None
      /\ \A e \in Chain!Days \ {d} : chain'[e] = chain[e]
  BY <1>0, ExtendAppends, RunAssumption, CalendarAssumption
<1>2. /\ Chain!Before(m, d)' = cur[m]
      /\ \A e \in Chain!Days : chain[e] # None =>
           Chain!Before(MonthOf[e], e)' = Chain!Before(MonthOf[e], e)
      /\ \A k \in Chain!Months \ {m} : Chain!Newest(k)' = Chain!Newest(k)
      /\ Chain!Newest(m)' = v
  BY <1>0, ExtendBefore
<1>3. Chain!LineageTypeOK'
  BY <1>0 DEF ChainIsWhole, Chain!LineageTypeOK, Chain!Extend, Chain!Complete, Chain!Seal
<1>4. Chain!Chained'
  <2>1. SUFFICES ASSUME NEW e \in Chain!Days, chain'[e] # None
                 PROVE  based'[chain'[e]] = Chain!Before(MonthOf[e], e)'
    BY DEF Chain!Chained
  <2>2. based' = [based EXCEPT ![v] = cur[m]] /\ v \in DOMAIN based
    BY <1>0 DEF Chain!Extend, ChainIsWhole, Chain!LineageTypeOK
  <2>3. CASE e = d
    BY <2>2, <2>3, <1>1, <1>2
  <2>4. CASE e # d
    <3>1. chain'[e] = chain[e] /\ chain[e] # None
      BY <2>1, <2>4, <1>1
    <3>2. chain[e] # v
      BY <1>0 DEF Chain!Extend
    <3>3. based'[chain[e]] = based[chain[e]]
      BY <2>2, <3>1, <3>2 DEF ChainIsWhole, Chain!LineageTypeOK
    <3>4. based[chain[e]] = Chain!Before(MonthOf[e], e)
      BY <3>1 DEF ChainIsWhole, Chain!Chained
    <3>5. QED
      BY <3>1, <3>3, <3>4, <1>2
  <2>5. QED
    BY <2>3, <2>4
<1>5. Chain!CurIsNewest'
  <2>1. SUFFICES ASSUME NEW k \in Chain!Months, ~sealed'[k]
                 PROVE  cur'[k] = Chain!Newest(k)'
    BY DEF Chain!CurIsNewest, Chain!Months
  <2>2. CASE k = m
    <3>1. Chain!Complete(d, v)
      BY <1>0, <2>1, <2>2 DEF Chain!Seal, ChainIsWhole, Chain!LineageTypeOK
    <3>2. cur'[k] = v
      BY <3>1, <2>2, <1>0 DEF Chain!Complete, ChainIsWhole, Chain!LineageTypeOK
    <3>3. QED
      BY <3>2, <2>2, <1>2
  <2>3. CASE k # m
    <3>1. cur'[k] = cur[k] /\ sealed'[k] = sealed[k]
      BY <1>0, <2>3 DEF Chain!Complete, Chain!Seal, ChainIsWhole, Chain!LineageTypeOK
    <3>2. cur[k] = Chain!Newest(k)
      BY <3>1, <2>1 DEF ChainIsWhole, Chain!CurIsNewest
    <3>3. QED
      BY <3>1, <3>2, <2>3, <1>2
  <2>4. QED
    BY <2>2, <2>3
<1>6. QED
  BY <1>3, <1>4, <1>5 DEF ChainIsWhole

\* So does a repair.
LEMMA RepairKeepsChain ==
  ASSUME ChainIsWhole, NEW m \in Chain!Months, Chain!Repair(m)
  PROVE  ChainIsWhole'
<1>1. Chain!Newest(m) \in Runs \cup {None}
  BY BeforeType DEF ChainIsWhole, Chain!Newest
<1>2. Chain!LineageTypeOK'
  BY <1>1 DEF ChainIsWhole, Chain!LineageTypeOK, Chain!Repair
<1>3. chain' = chain /\ based' = based
  BY DEF Chain!Repair
<1>4. \A k, d : Chain!Before(k, d)' = Chain!Before(k, d)
  BY <1>3 DEF Chain!Before, Chain!DaysOf
<1>5. Chain!Chained'
  BY <1>3, <1>4 DEF ChainIsWhole, Chain!Chained
<1>6. \A k \in Chain!Months : Chain!Newest(k)' = Chain!Newest(k)
  BY <1>4 DEF Chain!Newest
<1>7. Chain!CurIsNewest'
  <2>1. SUFFICES ASSUME NEW k \in Chain!Months, ~sealed'[k]
                 PROVE  cur'[k] = Chain!Newest(k)
    BY <1>6 DEF Chain!CurIsNewest, Chain!Months
  <2>2. CASE k = m
    BY <2>2 DEF Chain!Repair, ChainIsWhole, Chain!LineageTypeOK
  <2>3. CASE k # m
    BY <2>1, <2>3 DEF Chain!Repair, ChainIsWhole, Chain!LineageTypeOK, Chain!CurIsNewest
  <2>4. QED
    BY <2>2, <2>3
<1>8. QED
  BY <1>2, <1>5, <1>7 DEF ChainIsWhole

\* In every reachable state the chain of each month is unbroken and an unsealed
\* month continues from its newest version: what the ETLs read as "the last
\* accumulated file" (state_store.py) is the version of the last promoted day.
THEOREM LineageInvariant == Chain!Spec => []ChainIsWhole
<1>1. Chain!Init => ChainIsWhole
  BY ChainStartsWhole
<1>2. ChainIsWhole /\ [Chain!Next]_(Chain!lineageVars) => ChainIsWhole'
  <2> SUFFICES ASSUME ChainIsWhole, [Chain!Next]_(Chain!lineageVars) PROVE ChainIsWhole'
    OBVIOUS
  <2>1. CASE \E d \in Chain!Days, v \in Runs : Chain!Promote(d, v)
    BY <2>1, PromoteKeepsChain
  <2>2. CASE \E m \in Chain!Months : Chain!Repair(m)
    BY <2>2, RepairKeepsChain
  <2>3. CASE UNCHANGED Chain!lineageVars
    BY <2>3 DEF Chain!lineageVars, ChainIsWhole, Chain!LineageTypeOK, Chain!Chained, Chain!CurIsNewest,
                Chain!Newest, Chain!Before, Chain!DaysOf, Chain!Months
  <2>4. QED
    BY <2>1, <2>2, <2>3 DEF Chain!Next
<1>3. QED
  BY <1>1, <1>2, PTL DEF Chain!Spec

\* The version a day was given is never replaced.
THEOREM ChainIsKept == Chain!Spec => Chain!ChainOnlyGrows
<1>1. ChainIsWhole /\ [Chain!Next]_(Chain!lineageVars) =>
        [\A d \in Chain!Days : chain[d] # None => chain'[d] = chain[d]]_(Chain!lineageVars)
  <2> SUFFICES ASSUME ChainIsWhole, Chain!Next
               PROVE  \A d \in Chain!Days : chain[d] # None => chain'[d] = chain[d]
    BY DEF Chain!lineageVars
  <2>1. ASSUME NEW d \in Chain!Days, NEW v \in Runs, Chain!Promote(d, v)
        PROVE  \A e \in Chain!Days : chain[e] # None => chain'[e] = chain[e]
    BY <2>1, ExtendAppends DEF Chain!Promote
  <2>2. ASSUME NEW m \in Chain!Months, Chain!Repair(m)
        PROVE  \A e \in Chain!Days : chain[e] # None => chain'[e] = chain[e]
    BY <2>2 DEF Chain!Repair
  <2>3. QED
    BY <2>1, <2>2 DEF Chain!Next
<1>2. QED
  BY <1>1, LineageInvariant, PTL DEF Chain!Spec, Chain!ChainOnlyGrows
=============================================================================
