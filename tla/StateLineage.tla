---------------------------- MODULE StateLineage ----------------------------
(***************************************************************************)
(* What the state store promises to the ETLs: a month is a chain of daily  *)
(* versions of one file.  A promotion adds the version of a day that       *)
(* follows every day already there, computed from the version that was     *)
(* current, and makes it current, all at once.  A promotion that fails     *)
(* half way seals the month; nobody adds to a sealed month until it is     *)
(* repaired by hand.                                                       *)
(*                                                                         *)
(* RunService implements this with two files, a lock and a marker.         *)
(***************************************************************************)
EXTENDS Naturals

CONSTANTS
  Versions,   \* the versions of the file that can be promoted
  None,       \* no version
  LastDay,    \* the last day
  MonthOf     \* the month of a day, [Days -> Nat]

Days == 1 .. LastDay
Months == {MonthOf[d] : d \in Days}

VARIABLES
  chain,      \* the version promoted for each day, or None
  based,      \* the version each promoted version was computed from
  cur,        \* the current version of each month
  sealed      \* whether the month waits for a manual repair

lineageVars == <<chain, based, cur, sealed>>

DaysOf(m) == {d \in Days : MonthOf[d] = m /\ chain[d] # None}

\* The version of the last day before d, None if there is none.
Before(m, d) ==
  LET earlier == {e \in DaysOf(m) : e < d}
  IN  IF earlier = {} THEN None
      ELSE chain[CHOOSE e \in earlier : \A f \in earlier : f <= e]
Newest(m) == Before(m, LastDay + 1)

Init ==
  /\ chain = [d \in Days |-> None]
  /\ based = [v \in Versions |-> None]
  /\ cur = [m \in Months |-> None]
  /\ sealed = [m \in Months |-> FALSE]

\* v becomes the version of day d.
Extend(d, v) ==
  /\ chain' = [chain EXCEPT ![d] = v]
  /\ ~sealed[MonthOf[d]]
  /\ \A e \in DaysOf(MonthOf[d]) : e < d
  /\ \A e \in Days : chain[e] # v
  /\ based' = [based EXCEPT ![v] = cur[MonthOf[d]]]

Complete(d, v) ==
  /\ cur' = [cur EXCEPT ![MonthOf[d]] = v]
  /\ UNCHANGED sealed

\* Only the day's version got out for certain.
Seal(d, v) ==
  /\ cur' \in {cur, [cur EXCEPT ![MonthOf[d]] = v]}
  /\ sealed' = [sealed EXCEPT ![MonthOf[d]] = TRUE]

Promote(d, v) == Extend(d, v) /\ (Complete(d, v) \/ Seal(d, v))

Repair(m) ==
  /\ sealed[m]
  /\ cur' = [cur EXCEPT ![m] = Newest(m)]
  /\ sealed' = [sealed EXCEPT ![m] = FALSE]
  /\ UNCHANGED <<chain, based>>

Next ==
  \/ \E d \in Days, v \in Versions : Promote(d, v)
  \/ \E m \in Months : Repair(m)

Spec == Init /\ [][Next]_lineageVars

-----------------------------------------------------------------------------
(* Properties. *)

LineageTypeOK ==
  /\ chain \in [Days -> Versions \cup {None}]
  /\ based \in [Versions -> Versions \cup {None}]
  /\ cur \in [Months -> Versions \cup {None}]
  /\ sealed \in [Months -> BOOLEAN]

\* Every version of the chain was computed from the one before it.
Chained ==
  \A d \in Days : chain[d] # None => based[chain[d]] = Before(MonthOf[d], d)

\* A month that is not sealed continues from its newest version.
CurIsNewest == \A m \in Months : ~sealed[m] => cur[m] = Newest(m)

\* The version of a day is never replaced.
ChainOnlyGrows ==
  [][\A d \in Days : chain[d] # None => chain'[d] = chain[d]]_lineageVars
=============================================================================
