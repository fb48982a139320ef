SPECIFICATION Spec
CONSTANTS
  Patterns <- MCPatterns
  MainPatterns <- MCMain
  Requests <- MCRequests
  MaxRoutes = 4
  None = None
INVARIANTS
  FindsItsRoute
  RefusesConflictsOnly
  RedirectsLead
CHECK_DEADLOCK FALSE
