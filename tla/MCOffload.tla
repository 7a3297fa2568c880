----------------------------- MODULE MCOffload -----------------------------
EXTENDS Offload, TLC
=============================================================================
