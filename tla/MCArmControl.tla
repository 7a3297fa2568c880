---------------------------- MODULE MCArmControl ----------------------------
(***************************************************************************)
(* ArmControl for TLC: one process that can have two URArm objects at once *)
(* (the second of a session after one that was dropped), and a rival.      *)
(***************************************************************************)
EXTENDS ArmControl, TLC
CONSTANTS a1, a2, b1, p, q

MCArms == {a1, a2, b1}
MCProcessOf == (a1 :> p) @@ (a2 :> p) @@ (b1 :> q)
=============================================================================
