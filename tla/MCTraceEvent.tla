----------------------------- MODULE MCTraceEvent -----------------------------
EXTENDS TraceEvent
CONSTANTS t1, t2
Tasks == {t1, t2}
===============================================================================
