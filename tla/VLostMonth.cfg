\* The promotion of the first run of a month, and power lost at any time.
SPECIFICATION Spec
CONSTANT FailingCalls = {}
\* the run ends
CHECK_DEADLOCK FALSE
INVARIANT PromotionIsDurable
