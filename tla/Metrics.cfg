CONSTANTS
  n1 = n1
  n2 = n2
  Session = {"wifi", "ble"}
  Net = {n1, n2}
  TIMER_MAX = 4
  UINT32 = 16
  HOUR = 3
  Builds <- Sound
SPECIFICATION Spec
INVARIANTS CountedOnce TimeReportedOnce SessionsReported HoursAccountForTime ConnectedWithinExpected
  DropWhileDischarging
