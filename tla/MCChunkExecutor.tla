-------------------------- MODULE MCChunkExecutor --------------------------
EXTENDS ChunkExecutor
=============================================================================
