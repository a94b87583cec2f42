CONSTANTS
  Child = {k1}
  Variable = {"uri", "GET", "POST"}
  MaxRules = 2
  MaxRestarts = 2
SPECIFICATION Spec
CHECK_DEADLOCK FALSE
INVARIANTS
  TypeOK
  SendHasQueue
  QueueKept
  ForbiddenReported
  ReportedOnce
  RuleVerdict
