CONSTANTS
  t1 = t1
  t2 = t2
  Task = {t1, t2}
  Capacity = 7
  Lens = {3, 4, 8}
  Width = 64
  TimeLen = 1
  MaxLogs = 4
  MaxTriggers = 3
  MaxAborts = 1
  MaxRestores = 1
  Uses = {{"read", "send"}}
SPECIFICATION Spec
INVARIANT ItemsAnnounced
