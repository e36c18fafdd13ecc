------------------------------- MODULE RunLock -------------------------------
(***************************************************************************)
(* The lock of one ETL and month as the file system sees it:               *)
(*   - RunStore.acquire_lock: mkdir .lock, mkdir .lock/<token>, write      *)
(*     owner.json, fsync;                                                  *)
(*   - RunStore.release_lock: rename .lock away, check the token, tear the *)
(*     renamed directory down;                                             *)
(*   - the free_lock action of the console API and the orphan recovery it  *)
(*     runs at start, which work on run.json and on .lock from another     *)
(*     process;                                                            *)
(*   - the operator, who removes a lock by hand.                           *)
(*                                                                         *)
(* Every call resolves the path .lock again, so a call may meet a          *)
(* directory other than the one its run created.  A directory is named     *)
(* after the run that created it, a token after the run that drew it.      *)
(***************************************************************************)
CONSTANTS
  Procs,      \* the runs of the ETL in the month, each in a CLI process
  None,       \* no directory
  Moves       \* what this instance admits besides the runs themselves

MoveKinds == {"disk", "crash", "restart", "free_lock", "manual"}

ASSUME ProcAssumption == None \notin Procs
ASSUME MoveAssumption == Moves \subseteq MoveKinds

VARIABLES
  pc,         \* where each run is
  live,       \* whether its run.json says preparing or running
  path,       \* the directory at .lock, or None
  tokens,     \* the token directories inside each lock directory
  written,    \* the tokens whose owner.json is there
  claimed,    \* the directory each release renamed, or None
  janitor     \* where the free_lock handler is

files == <<path, tokens, written, claimed>>
vars == <<pc, live, files, janitor>>

Steps == {"idle", "mkdir", "owner", "write", "sync", "staging", "running",
          "fail", "rename", "teardown", "done", "dead"}

Init ==
  /\ pc = [p \in Procs |-> "idle"]
  /\ live = [p \in Procs |-> FALSE]
  /\ path = None
  /\ tokens = [p \in Procs |-> {}]
  /\ written = {}
  /\ claimed = [p \in Procs |-> None]
  /\ janitor = "idle"

Goto(p, step) == pc' = [pc EXCEPT ![p] = step]
DiskFails == "disk" \in Moves

\* The path .lock/<token of p> exists.
TokenAtPath(p) == path # None /\ p \in tokens[path]

-----------------------------------------------------------------------------
(* acquire_lock, within execute(). *)

\* The run writes its first run.json.
Begin(p) ==
  /\ pc[p] = "idle"
  /\ live' = [live EXCEPT ![p] = TRUE]
  /\ Goto(p, "mkdir")
  /\ UNCHANGED <<files, janitor>>

\* Mutant: an existing directory is not an error (exist_ok=True).
MayCreateAnyway == TRUE
\* mkdir of .lock fails when it exists.
MayCreate == path = None

MakeLock(p) ==
  /\ pc[p] = "mkdir"
  /\ IF MayCreate THEN path' = p /\ Goto(p, "owner")
                  ELSE UNCHANGED path /\ Goto(p, "fail")
  /\ UNCHANGED <<live, tokens, written, claimed, janitor>>

\* mkdir of .lock/<token>, inside whatever directory is at .lock by now.
MakeOwner(p) ==
  /\ pc[p] = "owner"
  /\ \/ /\ path # None
        /\ tokens' = [tokens EXCEPT ![path] = @ \cup {p}]
        /\ Goto(p, "write")
     \/ /\ path = None \/ DiskFails
        /\ Goto(p, "fail")
        /\ UNCHANGED tokens
  /\ UNCHANGED <<live, path, written, claimed, janitor>>

WriteOwner(p) ==
  /\ pc[p] = "write"
  /\ \/ /\ TokenAtPath(p)
        /\ written' = written \cup {p}
        /\ Goto(p, "sync")
     \/ /\ ~TokenAtPath(p) \/ DiskFails
        /\ Goto(p, "fail")
        /\ UNCHANGED written
  /\ UNCHANGED <<live, path, tokens, claimed, janitor>>

\* The three directory fsyncs, which open the paths once more.
Sync(p) ==
  /\ pc[p] = "sync"
  /\ \/ TokenAtPath(p) /\ Goto(p, "staging")
     \/ (~TokenAtPath(p) \/ DiskFails) /\ Goto(p, "fail")
  /\ UNCHANGED <<live, files, janitor>>

\* The run becomes running; it rewrites run.json.
Execute(p) ==
  /\ pc[p] = "staging"
  /\ live' = [live EXCEPT ![p] = TRUE]
  /\ Goto(p, "running")
  /\ UNCHANGED <<files, janitor>>

\* _finish writes the terminal status before the finally clause releases.
Conclude(p) ==
  \/ live' = [live EXCEPT ![p] = FALSE]
  \/ DiskFails /\ UNCHANGED live

Finish(p) ==
  /\ pc[p] \in {"staging", "running"}
  /\ Conclude(p)
  /\ Goto(p, "rename")
  /\ UNCHANGED <<files, janitor>>

\* Mutant: a run that did not get the lock releases it all the same.
FailReleasing(p) ==
  /\ pc[p] = "fail"
  /\ Conclude(p)
  /\ Goto(p, "rename")
  /\ UNCHANGED <<files, janitor>>

\* The run did not get the lock; it finishes and releases nothing.
Fail(p) ==
  /\ pc[p] = "fail"
  /\ Conclude(p)
  /\ Goto(p, "done")
  /\ UNCHANGED <<files, janitor>>

-----------------------------------------------------------------------------
(* release_lock. *)

\* os.replace of .lock, whosever it is by now; four PermissionErrors give up.
Rename(p) ==
  /\ pc[p] = "rename"
  /\ \/ /\ path # None
        /\ claimed' = [claimed EXCEPT ![p] = path]
        /\ path' = None
        /\ Goto(p, "teardown")
     \/ /\ path = None \/ DiskFails
        /\ Goto(p, "done")
        /\ UNCHANGED <<claimed, path>>
  /\ UNCHANGED <<live, tokens, written, janitor>>

\* Only now the token is verified, in the renamed directory.  A mismatch, or
\* a failure half way, leaves what is there.
Teardown(p) ==
  /\ pc[p] = "teardown"
  /\ \/ /\ p \in tokens[claimed[p]] \cap written
        /\ written' = written \ {p}
        /\ tokens' = [tokens EXCEPT ![claimed[p]] = @ \ {p}]
     \/ /\ p \notin tokens[claimed[p]] \cap written \/ DiskFails
        /\ UNCHANGED <<written, tokens>>
  /\ Goto(p, "done")
  /\ UNCHANGED <<live, path, claimed, janitor>>

-----------------------------------------------------------------------------
(* Other processes. *)

\* The process of the run dies; its files stay.
Crash(p) ==
  /\ "crash" \in Moves
  /\ pc[p] \notin {"idle", "done", "dead"}
  /\ Goto(p, "dead")
  /\ UNCHANGED <<live, files, janitor>>

\* recover_orphans at the start of the API marks every live run as failed,
\* those of running CLI processes too.
Restart ==
  /\ "restart" \in Moves
  /\ live' = [p \in Procs |-> FALSE]
  /\ UNCHANGED <<pc, files, janitor>>

\* free_lock: first it looks for a live run of the ETL ...
FreeScan ==
  /\ "free_lock" \in Moves
  /\ janitor = "idle"
  /\ \A p \in Procs : ~live[p]
  /\ janitor' = "exists"
  /\ UNCHANGED <<pc, live, files>>

\* ... then whether .lock exists ...
FreeExists ==
  /\ janitor = "exists"
  /\ janitor' = IF path = None THEN "idle" ELSE "rmdir"
  /\ UNCHANGED <<pc, live, files>>

\* Mutant: free_lock uses shutil.rmtree.
RemovableTree == path # None
\* rmdir fails, and the request with it, unless .lock is an empty directory.
Removable == path # None /\ tokens[path] = {}

\* ... and then it removes it.
FreeRmdir ==
  /\ janitor = "rmdir"
  /\ path' = IF Removable THEN None ELSE path
  /\ janitor' = "idle"
  /\ UNCHANGED <<pc, live, tokens, written, claimed>>

\* By hand: remove .lock with its contents, once run.json says that the run
\* that created it is over.
RemoveByHand ==
  /\ "manual" \in Moves
  /\ path # None
  /\ ~live[path]
  /\ tokens' = [tokens EXCEPT ![path] = {}]
  /\ written' = written \ tokens[path]
  /\ path' = None
  /\ UNCHANGED <<pc, live, claimed, janitor>>

-----------------------------------------------------------------------------
Continue(p) ==
  \/ MakeLock(p) \/ MakeOwner(p) \/ WriteOwner(p) \/ Sync(p) \/ Execute(p)
  \/ Finish(p) \/ Fail(p) \/ Rename(p) \/ Teardown(p)

Next ==
  \/ \E p \in Procs : Begin(p) \/ Continue(p) \/ Crash(p)
  \/ Restart \/ FreeScan \/ FreeExists \/ FreeRmdir \/ RemoveByHand

Spec == Init /\ [][Next]_vars

-----------------------------------------------------------------------------
(* Properties. *)

\* The variables stay in their sets, and release_lock only tears down a directory
\* that it renamed.
TypeOK ==
  /\ pc \in [Procs -> Steps]
  /\ live \in [Procs -> BOOLEAN]
  /\ path \in Procs \cup {None}
  /\ tokens \in [Procs -> SUBSET Procs]
  /\ written \in SUBSET Procs
  /\ claimed \in [Procs -> Procs \cup {None}]
  /\ \A p \in Procs : pc[p] = "teardown" => claimed[p] # None
  /\ janitor \in {"idle", "exists", "rmdir"}

Holding(p) == pc[p] \in {"staging", "running", "rename"}

\* The lock keeps two runs of the same ETL and month apart (README.md:261).
Exclusive == \A p, q \in Procs : Holding(p) /\ Holding(q) => p = q

\* free_lock never takes away the directory a holder created, not even when it
\* races with the runs: what it removes is empty.
FreeLockSparesHolders ==
  [][janitor = "rmdir" /\ janitor' = "idle" /\ path # None /\ path' = None =>
       ~Holding(path)]_vars

-----------------------------------------------------------------------------
(***************************************************************************)
(* The refinement of MonthLock: mkdir takes the lock, rename releases it.  *)
(***************************************************************************)
Phase(p) ==
  IF pc[p] \in {"idle", "mkdir"} THEN "before"
  ELSE IF pc[p] \in {"owner", "write", "sync", "staging", "running", "rename"}
       THEN "using" ELSE "after"

Lock == INSTANCE MonthLock WITH owner <- path, phase <- [p \in Procs |-> Phase(p)]

\* Without the console and the operator, the directories are a MonthLock.
ImplementsLock == Lock!Spec

=============================================================================
