--------------------------- MODULE MCCircularBuffer ---------------------------
EXTENDS CircularBuffer
===============================================================================
