SPECIFICATION Spec
CONSTANTS
  Procs = {0, 1, 2}
  Root = 0
  Scale = 2
  MaxMsg = 3
  ListSettings <- MCLists
  RateSettings <- MCRates
  ErrorRates = {0, 1}
INVARIANTS NeverChanged DropsAsConfigured
CHECK_DEADLOCK FALSE
