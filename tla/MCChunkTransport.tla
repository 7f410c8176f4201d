--------------------------- MODULE MCChunkTransport ---------------------------
EXTENDS ChunkTransport
===============================================================================
