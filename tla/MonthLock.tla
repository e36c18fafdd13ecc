------------------------------ MODULE MonthLock ------------------------------
(***************************************************************************)
(* What the lock of one ETL and month promises, whoever implements it: at  *)
(* most one run uses the month at a time.  A run that dies, or that fails  *)
(* inside acquire_lock or release_lock, may leave the lock taken for ever; *)
(* only a manual intervention breaks a lock nobody uses.                   *)
(*                                                                         *)
(* RunLock implements it with directories; RunService relies on it.        *)
(***************************************************************************)
CONSTANTS
  Procs,      \* the runs that want the month, each of them once
  None        \* the lock is free

VARIABLES
  owner,      \* the run that took the lock, or None
  phase       \* of each run: before, while or after using the month

lockVars == <<owner, phase>>

Init ==
  /\ owner = None
  /\ phase = [p \in Procs |-> "before"]

Move(p, from, to) ==
  /\ phase[p] = from
  /\ phase' = [phase EXCEPT ![p] = to]

Take(p) == owner = None /\ Move(p, "before", "using") /\ owner' = p
Release(p) == owner = p /\ Move(p, "using", "after") /\ owner' = None
Refuse(p) == Move(p, "before", "after") /\ UNCHANGED owner

\* The lock stays taken by a run that no longer uses it.
Abandon(p) == Move(p, "using", "after") /\ UNCHANGED owner
Leak(p) == owner = None /\ Move(p, "before", "after") /\ owner' = p
Break ==
  /\ owner # None
  /\ phase[owner] = "after"
  /\ owner' = None
  /\ UNCHANGED phase

Next ==
  \/ \E p \in Procs : Take(p) \/ Release(p) \/ Refuse(p) \/ Abandon(p) \/ Leak(p)
  \/ Break

Spec == Init /\ [][Next]_lockVars

-----------------------------------------------------------------------------
\* At most one run uses the month.
Exclusive ==
  \A p, q \in Procs : phase[p] = "using" /\ phase[q] = "using" => p = q
=============================================================================
