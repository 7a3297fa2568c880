-------------------------- MODULE MCCollectSafety --------------------------
EXTENDS CollectSafety

Quiet    == [arm |-> {}, toggles |-> FALSE, release |-> TRUE]
Troubled == [arm |-> ArmTroubles, toggles |-> FALSE, release |-> TRUE]
Toggled  == [arm |-> {"wrench"}, toggles |-> TRUE, release |-> TRUE]
Stops    == [arm |-> {"pstop"}, toggles |-> FALSE, release |-> FALSE]

AllSetups  == {Quiet, Troubled, Toggled}
StopSetups == {Stops}
=============================================================================
