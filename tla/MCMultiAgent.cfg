CONSTANTS
  r1 = r1
  r2 = r2
  echo = echo
  wipe = wipe
  Big = Big
  Adapter = Adapter
  Runs <- MCRuns
  Plans <- MCPlans
  Rules <- MCRules
  Registered = {echo}
  Limits = {1, 2}
  MaxCarried = 1
  MaxDirty = 1
SPECIFICATION Spec
SYMMETRY Symm
INVARIANTS OneExecutionPerApproval ReportIsTrue 
CHECK_DEADLOCK FALSE
