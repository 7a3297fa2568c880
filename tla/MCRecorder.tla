----------------------------- MODULE MCRecorder -----------------------------
EXTENDS Recorder, TLC
=============================================================================
