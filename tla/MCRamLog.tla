------------------------------- MODULE MCRamLog -------------------------------
EXTENDS RamLog
CONSTANTS t1, t2
===============================================================================
