------------------------------ MODULE ArmOwner ------------------------------
(***************************************************************************)
(* What the lease and the control interface promise for one robot, whoever *)
(* wants it: it has at most one owner, only the owner connects to it, and  *)
(* only the owner starts, commands or ends what plays on it.  A program    *)
(* may outlive its interface, in servo mode even, but then nobody commands *)
(* it, and the next to connect finds it silenced.                          *)
(***************************************************************************)
CONSTANTS Arms,      \* those who may own the robot
          NoArm,     \* nobody; no program
          Stray      \* a program nobody is connected to

VARIABLES owner,
          interfaces,  \* who is connected
          script,      \* whose program plays,
          streaming    \* and whether it is in servo mode

robot == <<script, streaming>>

Init ==
    /\ owner = NoArm
    /\ interfaces = {}
    /\ script \in {NoArm, Stray}
    /\ streaming \in BOOLEAN
    /\ streaming => script = Stray

Take(a) ==
    /\ owner = NoArm
    /\ owner' = a
    /\ UNCHANGED <<interfaces, robot>>

\* The owner silences the robot before it connects.
Silence(a) ==
    /\ owner = a
    /\ interfaces = {}
    /\ script' = NoArm
    /\ streaming' = FALSE
    /\ UNCHANGED <<owner, interfaces>>

Connect(a) ==
    /\ owner = a
    /\ interfaces = {}
    /\ script = NoArm
    /\ interfaces' = {a}
    /\ script' = a
    /\ streaming' = FALSE
    /\ UNCHANGED owner

Command(a) ==
    /\ owner = a
    /\ interfaces = {a}
    /\ script = a
    /\ streaming' \in BOOLEAN
    /\ UNCHANGED <<owner, interfaces, script>>

Abandon(a) ==
    IF script # a THEN UNCHANGED robot
    ELSE \/ script' = NoArm /\ streaming' = FALSE
         \/ script' = Stray /\ streaming' \in {FALSE, streaming}

Disconnect(a) ==
    /\ owner = a
    /\ interfaces = {a}
    /\ interfaces' = {}
    /\ Abandon(a)
    /\ UNCHANGED owner

\* The owner goes, with its interface if it still has one.
Release(a) ==
    /\ owner = a
    /\ owner' = NoArm
    /\ interfaces' = {}
    /\ Abandon(a)

RobotStops ==
    /\ script # NoArm
    /\ script' = NoArm
    /\ streaming' = FALSE
    /\ UNCHANGED <<owner, interfaces>>

Next ==
    \/ \E a \in Arms :
          \/ Take(a) \/ Silence(a) \/ Connect(a) \/ Command(a)
          \/ Disconnect(a) \/ Release(a)
    \/ RobotStops

Spec == Init /\ [][Next]_<<owner, interfaces, robot>>
=============================================================================
