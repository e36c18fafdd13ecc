\* Two days of a month of legacy/ma and of legacy/chat, with daily files of up to
\* two rows, runs that are repeated and runs that die.
SPECIFICATION Spec
CONSTANTS
  Base <- MCBase
  PlanRows <- MCPlanRows
  PayRows <- MCPayRows
  MaxRows = 2
  MaxPlans = 2
  Cuotas = {3, 6}
  Days = 2
INVARIANTS RowsNeverMultiply DaysAppliedOnce
PROPERTIES OnlyAnEmptyStateBringsBack
