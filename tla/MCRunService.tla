---------------------------- MODULE MCRunService ----------------------------
(* Instances of RunService for TLC. *)
EXTENDS RunService, TLC

RunSymmetry == Permutations(Runs)

\* All the days in one month, and a month that ends after the second.
OneMonth == [d \in Days |-> 1]
MonthEndsOnDayTwo == [d \in Days |-> IF d <= 2 THEN 1 ELSE 2]
=============================================================================
