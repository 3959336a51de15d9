CONSTANTS
  Boot = boot
  Shell = shell
  User = {u, v}
  MaxUse = 2
  Unset = Unset
SPECIFICATION UserSpec
INVARIANTS UserModeInv ResumesWhereItLeft ContextsIntact
