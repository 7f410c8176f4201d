---------------------------- MODULE MCTaskWatchdog ----------------------------
EXTENDS TaskWatchdog
CONSTANTS task_1, task_2
===============================================================================
