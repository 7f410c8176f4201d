CONSTANTS
  task_1 = task_1
  task_2 = task_2
  Channel = {task_1, task_2}
  Timeout = 2
  Narrow = 16
  Wide = 64
  Preemption = {TRUE, FALSE}
  MaxTime = 5
SPECIFICATION FairSpec
INVARIANT NoFalseAlarm
PROPERTIES NeverMissed StuckIsCaught
