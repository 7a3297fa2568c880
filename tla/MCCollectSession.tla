-------------------------- MODULE MCCollectSession --------------------------
EXTENDS CollectSession, TLC
=============================================================================
