CONSTANTS
  Update = Update
  Assert = Assert
  Other = Other
  None = None
  Layouts <- MCLayouts
  MaxErrors = 1
  Expected = {Update}
  Unexpected = {Assert}
  Unknown = Other
  NotSet = None
  Width = 2
  MaxCrashes = 2
  MaxMarks = 1
  MaxResets = 1
  MaxCounts = 1
SPECIFICATION Spec
INVARIANTS CoredumpWhole ReportsFirst CountsCrashesReported
PROPERTY FirstCoredumpKept
