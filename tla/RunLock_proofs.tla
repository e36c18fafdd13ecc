---------------------------- MODULE RunLock_proofs ----------------------------
(***************************************************************************)
(* Proofs about RunLock, for any number of runs, whatever calls fail,      *)
(* whichever runs die and however often the API starts again: free_lock    *)
(* spares the holders; and while nobody removes a lock from outside, the   *)
(* directories implement MonthLock.                                        *)
(***************************************************************************)
EXTENDS RunLock, TLAPS

\* Neither the console nor the operator touches the lock.
Alone == "free_lock" \notin Moves /\ "manual" \notin Moves

Using == {"owner", "write", "sync", "staging", "running", "rename"}

\* The inductive invariant: whoever is between its mkdir and its rename has its own
\* directory at .lock.
OwnPath == \A p \in Procs : pc[p] \in Using => path = p
IInv == TypeOK /\ janitor = "idle" /\ OwnPath

LEMMA InitIInv == Init => IInv
BY DEF Init, IInv, TypeOK, OwnPath, Using, Steps

USE DEF files, vars, Goto

LEMMA TypeStep == TypeOK /\ [Next]_vars => TypeOK'
<1> SUFFICES ASSUME TypeOK, [Next]_vars PROVE TypeOK'
  OBVIOUS
<1> USE DEF TypeOK, Steps
<1>1. ASSUME NEW p \in Procs, Begin(p) PROVE TypeOK'
  BY <1>1 DEF Begin
<1>2. ASSUME NEW p \in Procs, MakeLock(p) PROVE TypeOK'
  BY <1>2 DEF MakeLock
<1>3. ASSUME NEW p \in Procs, MakeOwner(p) PROVE TypeOK'
  BY <1>3 DEF MakeOwner
<1>4. ASSUME NEW p \in Procs, WriteOwner(p) \/ Sync(p) PROVE TypeOK'
  BY <1>4 DEF WriteOwner, Sync
<1>5. ASSUME NEW p \in Procs, Execute(p) \/ Finish(p) \/ Fail(p) PROVE TypeOK'
  BY <1>5 DEF Execute, Finish, Fail, Conclude
<1>6. ASSUME NEW p \in Procs, Rename(p) PROVE TypeOK'
  BY <1>6 DEF Rename
<1>7. ASSUME NEW p \in Procs, Teardown(p) PROVE TypeOK'
  BY <1>7 DEF Teardown
<1>8. ASSUME NEW p \in Procs, Crash(p) PROVE TypeOK'
  BY <1>8 DEF Crash
<1>9. CASE Restart
  BY <1>9 DEF Restart
<1>10. CASE FreeScan \/ FreeExists \/ FreeRmdir
  BY <1>10 DEF FreeScan, FreeExists, FreeRmdir
<1>11. CASE RemoveByHand
  BY <1>11 DEF RemoveByHand
<1>12. CASE UNCHANGED vars
  BY <1>12
<1> QED
  BY <1>1, <1>2, <1>3, <1>4, <1>5, <1>6, <1>7, <1>8, <1>9, <1>10, <1>11, <1>12
     DEF Next, Continue

\* Every reachable state is well typed, whatever free_lock and the operator do.
THEOREM TypeCorrect == Spec => []TypeOK
<1>1. Init => TypeOK
  BY DEF Init, TypeOK, Steps
<1> QED
  BY <1>1, TypeStep, PTL DEF Spec

-----------------------------------------------------------------------------
(* What free_lock finds at .lock, whoever moves. *)

\* A directory is made once: at .lock it still has the token of its run, and one that
\* a release took away does not come back.
Marked ==
  /\ \A p \in Procs : path = p =>
       /\ pc[p] \notin {"idle", "mkdir"}
       /\ pc[p] \in Using \ {"owner"} => p \in tokens[p]
       /\ \A q \in Procs : claimed[q] # p
  /\ \A p, q \in Procs : claimed[q] = p => pc[p] \notin {"idle", "mkdir"}

LEMMA MarkedStep ==
  ASSUME TypeOK, Marked, [Next]_vars
  PROVE  Marked'
<1> USE ProcAssumption DEF TypeOK, Marked, Using, Steps
<1>1. ASSUME NEW p \in Procs, Begin(p) PROVE Marked'
  BY <1>1 DEF Begin
<1>2. ASSUME NEW p \in Procs, MakeLock(p) PROVE Marked'
  BY <1>2 DEF MakeLock, MayCreate
<1>3. ASSUME NEW p \in Procs, MakeOwner(p) PROVE Marked'
  BY <1>3 DEF MakeOwner
<1>4. ASSUME NEW p \in Procs, WriteOwner(p) \/ Sync(p) PROVE Marked'
  BY <1>4 DEF WriteOwner, Sync
<1>5. ASSUME NEW p \in Procs, Execute(p) \/ Finish(p) \/ Fail(p) PROVE Marked'
  BY <1>5 DEF Execute, Finish, Fail
<1>6. ASSUME NEW p \in Procs, Rename(p) PROVE Marked'
  BY <1>6 DEF Rename
<1>7. ASSUME NEW p \in Procs, Teardown(p) PROVE Marked'
  BY <1>7 DEF Teardown
<1>8. ASSUME NEW p \in Procs, Crash(p) PROVE Marked'
  BY <1>8 DEF Crash
<1>9. CASE Restart \/ FreeScan \/ FreeExists \/ FreeRmdir
  BY <1>9 DEF Restart, FreeScan, FreeExists, FreeRmdir
<1>10. CASE RemoveByHand
  BY <1>10 DEF RemoveByHand
<1>11. CASE UNCHANGED vars
  BY <1>11
<1> QED
  BY <1>1, <1>2, <1>3, <1>4, <1>5, <1>6, <1>7, <1>8, <1>9, <1>10, <1>11 DEF Next, Continue

\* free_lock does not remove the directory of a holder, which is not empty, whatever
\* the runs, the disk and the operator do meanwhile (main.py:412).
THEOREM FreeLockIsHarmless == Spec => FreeLockSparesHolders
<1>1. Init => Marked
  BY ProcAssumption DEF Init, Marked
<1>2. TypeOK /\ Marked /\ [Next]_vars =>
        [janitor = "rmdir" /\ janitor' = "idle" /\ path # None /\ path' = None =>
           ~Holding(path)]_vars
  <2> SUFFICES ASSUME TypeOK, Marked, Next, path \in Procs, janitor = "rmdir",
                      janitor' = "idle", path' = None
               PROVE  ~Holding(path)
    BY DEF TypeOK
  <2>1. FreeRmdir
    BY ProcAssumption
       DEF Next, Continue, Begin, MakeLock, MakeOwner, WriteOwner, Sync, Execute, Finish, Fail,
           Rename, Teardown, Crash, Restart, FreeScan, FreeExists, RemoveByHand
  <2>2. tokens[path] = {}
    BY <2>1, ProcAssumption DEF FreeRmdir, Removable
  <2> QED
    BY <2>2 DEF Marked, Holding, Using
<1>3. TypeOK /\ Marked /\ [Next]_vars => Marked'
  BY MarkedStep
<1> QED
  BY <1>1, <1>2, <1>3, TypeCorrect, PTL DEF Spec, FreeLockSparesHolders

-----------------------------------------------------------------------------
(* While nobody else touches the lock. *)

\* The steps of free_lock and of the operator are not taken.
LEMMA NobodyElse ==
  ASSUME Alone, janitor = "idle"
  PROVE  ~FreeScan /\ ~FreeExists /\ ~FreeRmdir /\ ~RemoveByHand
BY DEF Alone, FreeScan, FreeExists, FreeRmdir, RemoveByHand

LEMMA OwnPathStep ==
  ASSUME Alone, IInv, [Next]_vars
  PROVE  janitor' = "idle" /\ OwnPath'
<1> USE ProcAssumption DEF IInv, TypeOK, OwnPath, Using, Steps
<1>1. ASSUME NEW p \in Procs, Begin(p) PROVE janitor' = "idle" /\ OwnPath'
  BY <1>1 DEF Begin
<1>2. ASSUME NEW p \in Procs, MakeLock(p) PROVE janitor' = "idle" /\ OwnPath'
  BY <1>2 DEF MakeLock, MayCreate
<1>3. ASSUME NEW p \in Procs, MakeOwner(p) \/ WriteOwner(p) \/ Sync(p)
      PROVE janitor' = "idle" /\ OwnPath'
  BY <1>3 DEF MakeOwner, WriteOwner, Sync
<1>4. ASSUME NEW p \in Procs, Execute(p) \/ Finish(p) \/ Fail(p)
      PROVE janitor' = "idle" /\ OwnPath'
  BY <1>4 DEF Execute, Finish, Fail, Conclude
<1>5. ASSUME NEW p \in Procs, Rename(p) PROVE janitor' = "idle" /\ OwnPath'
  BY <1>5 DEF Rename
<1>6. ASSUME NEW p \in Procs, Teardown(p) \/ Crash(p) PROVE janitor' = "idle" /\ OwnPath'
  BY <1>6 DEF Teardown, Crash
<1>7. CASE Restart \/ UNCHANGED vars
  BY <1>7 DEF Restart
<1> QED
  BY <1>1, <1>2, <1>3, <1>4, <1>5, <1>6, <1>7, NobodyElse DEF Next, Continue

\* The inductive invariant holds of every run of the protocol that nobody disturbs.
THEOREM OwnPathInvariant == ASSUME Alone PROVE Spec => []IInv
<1>1. IInv /\ [Next]_vars => IInv'
  BY TypeStep, OwnPathStep DEF IInv
<1> QED
  BY <1>1, InitIInv, PTL DEF Spec

\* Two runs never hold the lock of the month together (acquire_lock, release_lock),
\* while nobody removes it from outside.
THEOREM DirectoriesExclude == ASSUME Alone PROVE Spec => []Exclusive
<1>1. IInv => Exclusive
  BY DEF IInv, OwnPath, Using, Exclusive, Holding
<1> QED
  BY <1>1, OwnPathInvariant, PTL

-----------------------------------------------------------------------------
(* The refinement *)

LEMMA RefinesInit == Init => Lock!Init
BY DEF Init, Lock!Init, Phase

\* A step of a run moves its phase and nobody else's.
LEMMA PhaseMoves ==
  ASSUME TypeOK, NEW p \in Procs, NEW step \in Steps, Goto(p, step)
  PROVE  [q \in Procs |-> Phase(q)]' =
           [[q \in Procs |-> Phase(q)] EXCEPT ![p] =
              IF step \in {"idle", "mkdir"} THEN "before"
              ELSE IF step \in Using THEN "using" ELSE "after"]
BY DEF TypeOK, Phase, Using

LEMMA RefinesStep ==
  ASSUME Alone, IInv, [Next]_vars
  PROVE  [Lock!Next]_(Lock!lockVars)
<1> DEFINE phases == [q \in Procs |-> Phase(q)]
<1> USE ProcAssumption DEF IInv, OwnPath, Using, Lock!Next, Lock!lockVars, Lock!Move
<1>0. \A p \in Procs : phases[p] = Phase(p)
  OBVIOUS
<1>1. ASSUME NEW p \in Procs, MakeLock(p) PROVE Lock!Take(p) \/ Lock!Refuse(p)
  <2>1. CASE path = None /\ path' = p /\ Goto(p, "owner")
    BY <1>1, <2>1, PhaseMoves DEF MakeLock, Lock!Take, Phase, Steps
  <2>2. CASE path' = path /\ Goto(p, "fail")
    BY <1>1, <2>2, PhaseMoves DEF MakeLock, Lock!Refuse, Phase, Steps
  <2> QED
    BY <1>1, <2>1, <2>2 DEF MakeLock, MayCreate
<1>2. ASSUME NEW p \in Procs, path' = path, NEW step \in Steps, Goto(p, step),
             \/ pc[p] \in Using /\ step \in Using
             \/ pc[p] = "idle" /\ step = "mkdir"
             \/ pc[p] \notin Using \cup {"idle", "mkdir"} /\ step \in {"done", "dead"}
      PROVE  UNCHANGED Lock!lockVars
  BY <1>2, PhaseMoves DEF Phase, TypeOK
<1>3. ASSUME NEW p \in Procs, Rename(p) PROVE [Lock!Next]_(Lock!lockVars)
  <2>1. path = p
    BY <1>3 DEF Rename
  <2>2. CASE path' = None /\ Goto(p, "teardown")
    <3>1. Lock!Release(p)
      BY <1>3, <2>1, <2>2, PhaseMoves DEF Rename, Lock!Release, Phase, Steps
    <3> QED
      BY <3>1
  <2>3. CASE path' = path /\ Goto(p, "done")
    <3>1. Lock!Abandon(p)
      BY <1>3, <2>3, PhaseMoves DEF Rename, Steps, Lock!Abandon, Phase
    <3> QED
      BY <3>1
  <2> QED
    BY <1>3, <2>1, <2>2, <2>3 DEF Rename
<1>4. ASSUME NEW p \in Procs, Crash(p) PROVE [Lock!Next]_(Lock!lockVars)
  <2>1. CASE pc[p] = "mkdir"
    <3>1. Lock!Refuse(p)
      BY <1>4, <2>1, PhaseMoves DEF Crash, Lock!Refuse, Phase, Steps
    <3> QED
      BY <3>1
  <2>2. CASE pc[p] \in Using
    <3>1. Lock!Abandon(p)
      BY <1>4, <2>2, PhaseMoves DEF Crash, Steps, Lock!Abandon, Phase
    <3> QED
      BY <3>1
  <2>3. CASE pc[p] \notin Using \cup {"idle", "mkdir"}
    BY <1>2, <1>4, <2>3 DEF Crash, Steps
  <2> QED
    BY <1>4, <2>1, <2>2, <2>3 DEF Crash
<1>5. ASSUME NEW p \in Procs, MakeOwner(p) \/ WriteOwner(p) \/ Sync(p)
      PROVE  [Lock!Next]_(Lock!lockVars)
  <2>1. path' = path /\ pc[p] \in Using
    BY <1>5 DEF MakeOwner, WriteOwner, Sync
  <2>2. Goto(p, "write") \/ Goto(p, "sync") \/ Goto(p, "staging") \/ Goto(p, "fail")
    BY <1>5 DEF MakeOwner, WriteOwner, Sync
  <2>3. CASE Goto(p, "fail")
    <3>1. Lock!Abandon(p)
      BY <2>1, <2>3, PhaseMoves DEF Steps, Lock!Abandon, Phase
    <3> QED
      BY <3>1
  <2>4. ASSUME NEW step \in {"write", "sync", "staging"}, Goto(p, step)
        PROVE  UNCHANGED Lock!lockVars
    BY <1>2, <2>1, <2>4 DEF Steps
  <2> QED
    BY <2>2, <2>3, <2>4
<1>6. ASSUME NEW p \in Procs, Begin(p) \/ Execute(p) \/ Finish(p) \/ Fail(p) \/ Teardown(p)
      PROVE  UNCHANGED Lock!lockVars
  <2>1. CASE Begin(p)
    BY <1>2, <2>1 DEF Begin, Steps
  <2>2. CASE Execute(p)
    BY <1>2, <2>2 DEF Execute, Steps
  <2>3. CASE Finish(p)
    BY <1>2, <2>3 DEF Finish, Steps
  <2>4. CASE Fail(p) \/ Teardown(p)
    BY <1>2, <2>4 DEF Fail, Teardown, Steps
  <2> QED
    BY <1>6, <2>1, <2>2, <2>3, <2>4
<1>7. CASE Restart \/ UNCHANGED vars
  BY <1>7 DEF Restart, Phase
<1> QED
  BY <1>1, <1>3, <1>4, <1>5, <1>6, <1>7, NobodyElse DEF Next, Continue

\* The directory protocol of acquire_lock and release_lock implements MonthLock for
\* every set of runs, disk failures, deaths and restarts included.
THEOREM DirectoriesImplementMonthLock == ASSUME Alone PROVE Spec => ImplementsLock
<1> QED
  BY OwnPathInvariant, RefinesInit, RefinesStep, PTL DEF Spec, ImplementsLock, Lock!Spec

-----------------------------------------------------------------------------
(***************************************************************************)
(* MonthLock, for every set of runs: what the directories implement        *)
(* excludes.                                                               *)
(***************************************************************************)
VARIABLES owner, phase

Month == INSTANCE MonthLock

\* Whoever uses the month is the owner of its lock.  Exclusive alone is not
\* inductive: Take looks at owner, not at who is using the month.
UserOwns == \A p \in Procs : phase[p] = "using" => owner = p

LockInv ==
  /\ owner \in Procs \cup {None}
  /\ phase \in [Procs -> {"before", "using", "after"}]
  /\ UserOwns

\* Every step keeps the user of the month its owner.
LEMMA LockStep ==
  ASSUME LockInv, [Month!Next]_(Month!lockVars)
  PROVE  LockInv'
<1>1. ASSUME NEW p \in Procs, Month!Take(p) PROVE LockInv'
  <2>1. \A q \in Procs : phase[q] # "using"
    BY <1>1, ProcAssumption DEF LockInv, UserOwns, Month!Take
  <2>2. QED
    BY <1>1, <2>1 DEF LockInv, UserOwns, Month!Take, Month!Move
<1>2. ASSUME NEW p \in Procs, Month!Release(p) PROVE LockInv'
  <2>1. \A q \in Procs \ {p} : phase[q] # "using"
    BY <1>2 DEF LockInv, UserOwns, Month!Release
  <2>2. QED
    BY <1>2, <2>1 DEF LockInv, UserOwns, Month!Release, Month!Move
<1>3. ASSUME NEW p \in Procs, Month!Refuse(p) PROVE LockInv'
  BY <1>3 DEF LockInv, UserOwns, Month!Refuse, Month!Move
<1>4. ASSUME NEW p \in Procs, Month!Abandon(p) PROVE LockInv'
  BY <1>4 DEF LockInv, UserOwns, Month!Abandon, Month!Move
<1>5. ASSUME NEW p \in Procs, Month!Leak(p) PROVE LockInv'
  <2>1. \A q \in Procs : phase[q] # "using"
    BY <1>5, ProcAssumption DEF LockInv, UserOwns, Month!Leak
  <2>2. QED
    BY <1>5, <2>1 DEF LockInv, UserOwns, Month!Leak, Month!Move
<1>6. ASSUME Month!Break PROVE LockInv'
  <2>1. \A q \in Procs : phase[q] # "using"
    BY <1>6 DEF LockInv, UserOwns, Month!Break
  <2>2. QED
    BY <1>6, <2>1 DEF LockInv, UserOwns, Month!Break
<1>7. CASE UNCHANGED Month!lockVars
  BY <1>7 DEF LockInv, UserOwns, Month!lockVars
<1>8. QED
  BY <1>1, <1>2, <1>3, <1>4, <1>5, <1>6, <1>7 DEF Month!Next

\* At most one run uses the month, however many runs compete, die, leak the
\* lock or have it broken: what acquire_lock promises (run_store.py).
THEOREM LockIsExclusive == Month!Spec => []Month!Exclusive
<1>1. Month!Init => LockInv
  BY DEF Month!Init, LockInv, UserOwns
<1>2. LockInv => Month!Exclusive
  BY DEF LockInv, UserOwns, Month!Exclusive
<1>3. QED
  BY <1>1, <1>2, LockStep, PTL DEF Month!Spec
=============================================================================
