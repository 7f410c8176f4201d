----------------------------- MODULE MCRleEncoder -----------------------------
EXTENDS RleEncoder
===============================================================================
