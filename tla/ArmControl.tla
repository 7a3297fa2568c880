----------------------------- MODULE ArmControl -----------------------------
(***************************************************************************)
(* Who commands the arm: URArm (phantom/drivers/real/ur.py), the lease of  *)
(* rig_lease.py, and the part of Rig (drivers/base.py) that opens and      *)
(* closes them.  A process opens one session after the other, each with a  *)
(* new URArm; several processes of one host want the same arm.             *)
(*                                                                         *)
(* An URArm holds the lease (an flock), a slot of its process, and the     *)
(* control interface, whose script plays on the robot.  The main thread    *)
(* connects, rebuilds and disconnects; a servo thread streams.  All their  *)
(* calls are under _ctrl_lock, so a call is one step, except for the       *)
(* construction of an interface, which others can observe half way.        *)
(***************************************************************************)
EXTENDS Integers

CONSTANTS Arms,       \* URArm objects
          Processes,
          ProcessOf,  \* ProcessOf[a]: the process that makes a
          NoArm,      \* nobody holds the lease; no script is playing
          Stray       \* a script plays that nobody has an interface to

ASSUME ArmAssumption ==
    /\ ProcessOf \in [Arms -> Processes]
    /\ NoArm \notin Arms
    /\ Stray \notin Arms
    /\ NoArm # Stray

\* Where the main thread is in the life of an URArm.  "dropped": its session
\* ended by an exception that passed disconnect(); "closed": after it.
Building == {"reserve", "stop", "start", "configure"}
Session  == Building \cup {"lease", "idle", "close"}
Stages   == Session \cup {"absent", "dropped", "closed"}

VARIABLES
    at,         \* at[a]: the stage of a
    rebuilding, \* rebuilding[a]: the construction is that of reconnect_control
    ctrl,       \* ctrl[a]: _ctrl is not None
    active,     \* active[a]: _servo_active
    thread,     \* thread[a]: the servo thread of a runs, has ended, or is over
                \* ("off": there was none, or servo_stop was called after it)
    lease,      \* the URArm whose file has the flock
    slot,       \* slot[p]: _live_ctrl_count of process p
    script,     \* whose control script is playing on the robot
    streaming,  \* and whether it is in servo mode
    readable    \* the receive interface always answers (it does not change)

flags == <<ctrl, active>>
robot == <<script, streaming>>
vars  == <<at, rebuilding, flags, thread, lease, slot, robot, readable>>

Init ==
    /\ at = [a \in Arms |-> "absent"]
    /\ rebuilding = [a \in Arms |-> FALSE]
    /\ ctrl = [a \in Arms |-> FALSE]
    /\ active = [a \in Arms |-> FALSE]
    /\ thread = [a \in Arms |-> "off"]
    /\ lease = NoArm
    /\ slot = [p \in Processes |-> 0]
    /\ script \in {NoArm, Stray}
    /\ streaming \in BOOLEAN
    /\ streaming => script = Stray
    /\ readable \in BOOLEAN

Goto(a, stage) == at' = [at EXCEPT ![a] = stage]

\* What is left on the robot of a script that was playing when its interface
\* went.  servoStop and stopScript are attempts, and a killed process makes
\* none: the script may play on, and may play on in servo mode.
Abandon(a) ==
    IF script # a THEN UNCHANGED robot
    ELSE \/ script' = NoArm /\ streaming' = FALSE
         \/ script' = Stray /\ streaming' \in {FALSE, streaming}

-----------------------------------------------------------------------------
(* A session opens the arm: Rig.connect_all, URArm.connect.                *)

Open(a) ==
    /\ at[a] = "absent"
    /\ \A b \in Arms : ProcessOf[b] = ProcessOf[a] => at[b] \notin Session
    /\ Goto(a, "lease")
    /\ UNCHANGED <<rebuilding, flags, thread, lease, slot, robot, readable>>

LeaseIgnored(a) ==     \* mutant: whoever holds the lease, the connection goes on
    /\ at[a] = "lease"
    /\ lease' = IF lease = NoArm THEN a ELSE lease
    /\ Goto(a, "reserve")
    /\ UNCHANGED <<rebuilding, flags, thread, slot, robot, readable>>

Acquire(a) ==
    /\ at[a] = "lease"
    /\ lease = NoArm
    /\ lease' = a
    /\ Goto(a, "reserve")
    /\ UNCHANGED <<rebuilding, flags, thread, slot, robot, readable>>

RigBusy(a) ==
    /\ at[a] = "lease"
    /\ lease # NoArm
    /\ Goto(a, "dropped")
    /\ UNCHANGED <<rebuilding, flags, thread, lease, slot, robot, readable>>

ReserveFirstOnly(a) == \* mutant: a rebuild takes the slot of the first connection for its own
    /\ at[a] = "reserve"
    /\ slot[ProcessOf[a]] = 0
    /\ slot' = [slot EXCEPT ![ProcessOf[a]] = IF rebuilding[a] THEN @ ELSE 1]
    /\ Goto(a, "stop")
    /\ UNCHANGED <<rebuilding, flags, thread, lease, robot, readable>>

Reserve(a) ==
    /\ at[a] = "reserve"
    /\ slot[ProcessOf[a]] = 0
    /\ slot' = [slot EXCEPT ![ProcessOf[a]] = 1]
    /\ Goto(a, "stop")
    /\ UNCHANGED <<rebuilding, flags, thread, lease, robot, readable>>

\* The exception leaves connect() and with it the session, or comes back to
\* the caller of reconnect_control, who may call it again.
Raises(a) ==
    /\ Goto(a, IF rebuilding[a] THEN "idle" ELSE "dropped")
    /\ rebuilding' = [rebuilding EXCEPT ![a] = FALSE]

SlotTaken(a) ==
    /\ at[a] = "reserve"
    /\ slot[ProcessOf[a]] # 0
    /\ Raises(a)
    /\ UNCHANGED <<flags, thread, lease, slot, robot, readable>>

\* _preflight_stop_old_script and _probe_construct stop what is playing.  Both
\* are attempts: the dashboard may not answer.
StopOldScript(a) ==
    /\ at[a] = "stop"
    /\ \/ script' = NoArm /\ streaming' = FALSE
       \/ UNCHANGED robot
    /\ Goto(a, "start")
    /\ UNCHANGED <<rebuilding, flags, thread, lease, slot, readable>>

\* RTDEControlInterface(...): the robot runs one control script at a time.
StartScript(a) ==
    /\ at[a] = "start"
    /\ script = NoArm
    /\ script' = a
    /\ streaming' = FALSE
    /\ Goto(a, "configure")
    /\ UNCHANGED <<rebuilding, flags, thread, lease, slot, readable>>

\* None of the three attempts succeeds.
StartFails(a) ==
    /\ at[a] = "start"
    /\ slot' = [slot EXCEPT ![ProcessOf[a]] = 0]
    /\ Raises(a)
    /\ UNCHANGED <<flags, thread, lease, robot, readable>>

Configure(a) ==
    /\ at[a] = "configure"
    /\ ctrl' = [ctrl EXCEPT ![a] = TRUE]
    /\ rebuilding' = [rebuilding EXCEPT ![a] = FALSE]
    /\ Goto(a, "idle")
    /\ UNCHANGED <<active, thread, lease, slot, robot, readable>>

\* setTcp or setPayload fails: the half-built interface is released.
ConfigureFails(a) ==
    /\ at[a] = "configure"
    /\ slot' = [slot EXCEPT ![ProcessOf[a]] = 0]
    /\ Abandon(a)
    /\ Raises(a)
    /\ UNCHANGED <<flags, thread, lease, readable>>

-----------------------------------------------------------------------------
(* The session commands it.                                                *)

\* executor.start, streamer.start.
StartServo(a) ==
    /\ at[a] = "idle"
    /\ thread[a] # "runs"
    /\ thread' = [thread EXCEPT ![a] = "runs"]
    /\ UNCHANGED <<at, rebuilding, flags, lease, slot, robot, readable>>

\* The servo thread ends.  Nobody has to wait for it: joins time out.
ServoEnds(a) ==
    /\ thread[a] = "runs"
    /\ thread' = [thread EXCEPT ![a] = "ended"]
    /\ UNCHANGED <<at, rebuilding, flags, lease, slot, robot, readable>>

\* servo_j and servo_l raise the guard, then send: with no interface, a lost
\* stream or a dead script nothing is sent.
ServoTick(a) ==
    /\ thread[a] = "runs"
    /\ at[a] \notin Building
    /\ active' = [active EXCEPT ![a] = TRUE]
    /\ \/ ctrl[a] /\ script = a /\ streaming' = TRUE
       \/ UNCHANGED streaming
    /\ UNCHANGED <<at, rebuilding, ctrl, thread, lease, slot, script, readable>>

\* program_running(): asked of the receive interface.
ProgramRunning(a) == ctrl[a] /\ script # NoArm

\* servo_stop was called: of a servo thread that has ended nothing is owed.
IsOver(a) ==
    thread' = [thread EXCEPT ![a] = IF @ = "ended" THEN "off" ELSE @]

GuardFalls(a) ==       \* mutant: a servoStop that fails lowers the guard all the same
    /\ at[a] = "idle"
    /\ active' = [active EXCEPT ![a] = FALSE]
    /\ UNCHANGED streaming
    /\ IsOver(a)
    /\ UNCHANGED <<at, rebuilding, ctrl, lease, slot, script, readable>>

\* servo_stop: the guard falls when servoStop was delivered; when it was not,
\* only if no program is running.  A state that cannot be read counts as such.
ServoStop(a) ==
    /\ at[a] = "idle"
    /\ active' = [active EXCEPT ![a] = FALSE]
    /\ \/ streaming' = (streaming /\ script # a)
       \/ (~ProgramRunning(a) \/ ~readable) /\ UNCHANGED streaming
    /\ IsOver(a)
    /\ UNCHANGED <<at, rebuilding, ctrl, lease, slot, script, readable>>

\* servoStop was not delivered and a program is running: the guard stays up,
\* and the caller gets the exception.  The executor logs it and goes on.
ServoStopRaises(a) ==
    /\ at[a] = "idle"
    /\ ProgramRunning(a)
    /\ IsOver(a)
    /\ UNCHANGED <<at, rebuilding, flags, lease, slot, robot, readable>>

\* The moves of homing, made when the servo thread is over: move_j to the
\* joints of a demonstration, then move_l to its pose.  Each needs the control
\* script, and move_l is refused while the guard is up.
Moves == {"move_j", "move_l"}
MoveReaches(a, move) ==
    /\ at[a] = "idle"
    /\ thread[a] = "off"
    /\ ctrl[a]
    /\ script = a
    /\ move = "move_l" => ~active[a]

\* _teardown_ctrl: the guard falls with the script, and only an interface that
\* was there gives its slot back.
TeardownCtrl(a) ==
    /\ ctrl' = [ctrl EXCEPT ![a] = FALSE]
    /\ active' = [active EXCEPT ![a] = FALSE]
    /\ slot' = [slot EXCEPT ![ProcessOf[a]] = IF ctrl[a] THEN 0 ELSE @]
    /\ Abandon(a)

\* reconnect_control: tear down, settle, build.  The lease is kept.
Reconnect(a) ==
    /\ at[a] = "idle"
    /\ TeardownCtrl(a)
    /\ rebuilding' = [rebuilding EXCEPT ![a] = TRUE]
    /\ Goto(a, "reserve")
    /\ UNCHANGED <<thread, lease, readable>>

-----------------------------------------------------------------------------
(* The session ends.                                                       *)

DisconnectShallow(a) == \* mutant: the lease goes, the interface stays
    /\ at[a] = "idle"
    /\ Goto(a, "close")
    /\ UNCHANGED <<rebuilding, flags, thread, lease, slot, robot, readable>>

\* disconnect: the interface, then the lease.
Disconnect(a) ==
    /\ at[a] = "idle"
    /\ TeardownCtrl(a)
    /\ Goto(a, "close")
    /\ UNCHANGED <<rebuilding, thread, lease, readable>>

CloseLease(a) ==
    /\ at[a] = "close"
    /\ lease' = IF lease = a THEN NoArm ELSE lease
    /\ Goto(a, "closed")
    /\ UNCHANGED <<rebuilding, flags, thread, slot, robot, readable>>

\* connect_all fails at the gripper, a pad or a camera, so that __exit__ is
\* not called; or disconnect_all fails at one of them, before the arm.
Drop(a) ==
    /\ at[a] = "idle"
    /\ Goto(a, "dropped")
    /\ UNCHANGED <<rebuilding, flags, thread, lease, slot, robot, readable>>

\* An URArm that nothing refers to any more goes, with its file and its
\* interface.  Nobody tells _live_ctrl_count.
Collected(a) ==
    /\ at[a] \in {"dropped", "closed"}
    /\ thread[a] # "runs"
    /\ lease' = IF lease = a THEN NoArm ELSE lease
    /\ ctrl' = [ctrl EXCEPT ![a] = FALSE]
    /\ active' = [active EXCEPT ![a] = FALSE]
    /\ thread' = [thread EXCEPT ![a] = "off"]
    /\ Abandon(a)
    /\ Goto(a, "absent")
    /\ UNCHANGED <<rebuilding, slot, readable>>

\* A process is killed: the system closes its files.
Killed(p) ==
    LET its == {a \in Arms : ProcessOf[a] = p}
        Without(f) == [a \in Arms |-> a \notin its /\ f[a]]
    IN /\ \E a \in its : at[a] # "absent"
       /\ at' = [a \in Arms |-> IF a \in its THEN "absent" ELSE at[a]]
       /\ rebuilding' = Without(rebuilding)
       /\ ctrl' = Without(ctrl)
       /\ active' = Without(active)
       /\ thread' = [a \in Arms |-> IF a \in its THEN "off" ELSE thread[a]]
       /\ lease' = IF lease \in its THEN NoArm ELSE lease
       /\ slot' = [slot EXCEPT ![p] = 0]
       /\ IF script \in its THEN Abandon(script) ELSE UNCHANGED robot
       /\ UNCHANGED readable

\* A protective stop, an E-stop or the pendant ends the script.
RobotStops ==
    /\ script # NoArm
    /\ script' = NoArm
    /\ streaming' = FALSE
    /\ UNCHANGED <<at, rebuilding, flags, thread, lease, slot, readable>>

Connecting(a) ==
    \/ Open(a) \/ Acquire(a) \/ RigBusy(a) \/ Reserve(a) \/ SlotTaken(a) \/ StopOldScript(a)
    \/ StartScript(a) \/ StartFails(a) \/ Configure(a) \/ ConfigureFails(a)

Commanding(a) ==
    \/ StartServo(a) \/ ServoEnds(a) \/ ServoTick(a)
    \/ ServoStop(a) \/ ServoStopRaises(a) \/ Reconnect(a)

Ending(a) == Disconnect(a) \/ CloseLease(a) \/ Drop(a) \/ Collected(a)

Calls(a) == Connecting(a) \/ Commanding(a) \/ Ending(a)

Next ==
    \/ \E a \in Arms : Calls(a)
    \/ \E p \in Processes : Killed(p)
    \/ RobotStops

Spec == Init /\ [][Next]_vars

-----------------------------------------------------------------------------
(* Properties.                                                             *)

\* The types of the arms, the lease, the slots and the robot.
TypeOK ==
    /\ at \in [Arms -> Stages]
    /\ rebuilding \in [Arms -> BOOLEAN]
    /\ ctrl \in [Arms -> BOOLEAN]
    /\ active \in [Arms -> BOOLEAN]
    /\ thread \in [Arms -> {"off", "runs", "ended"}]
    /\ lease \in Arms \cup {NoArm}
    /\ slot \in [Processes -> {0, 1}]
    /\ script \in Arms \cup {NoArm, Stray}
    /\ streaming \in BOOLEAN
    /\ readable \in BOOLEAN

\* An interface exists from the constructor on, before _ctrl refers to it.
HasInterface(a) == ctrl[a] \/ at[a] = "configure"

\* rig_lease.py: "one robot-owning process per arm per host".  Over failed
\* rebuilds, sessions that were dropped with the arm connected, killed
\* processes and robots that stop, there is never a second interface.
OneController == \A a, b \in Arms : HasInterface(a) /\ HasInterface(b) => a = b

\* An interface always occupies the slot of its process, so that a second one
\* in that process would be refused even without the lease.
SlotCovers == \A a \in Arms : HasInterface(a) => slot[ProcessOf[a]] = 1

\* rig_lease.py: "A process that cannot get the lease makes NO robot call":
\* whatever an URArm without the lease does, the script of the owner plays on.
OwnerUndisturbed ==
    [][\A a \in Arms : Calls(a) /\ lease # a => UNCHANGED robot]_vars

\* The arm as one resource: the lease, the interfaces and the robot go the way
\* of ArmOwner, over every call, kill and robot stop.
Owner == INSTANCE ArmOwner WITH
             owner <- lease, interfaces <- {a \in Arms : HasInterface(a)}
ImplementsOwner == Owner!Spec

\* A homing move reaches a control script that is in servo mode.
MeetsStream(a, move) == MoveReaches(a, move) /\ streaming

\* How that comes about, over everything that may happen to servoStop, the
\* script and the servo threads: a servo_stop that raised and was followed by no
\* rebuild lets move_j through and no move_l; one that could not read the state of
\* the robot lets both.  No rebuild, new session or dying thread does.
StreamsMetBy ==
    [][\A a \in Arms, move \in Moves :
          ~MeetsStream(a, move) /\ MeetsStream(a, move)' =>
             \/ ServoStopRaises(a) /\ move = "move_j"
             \/ ~readable /\ (ServoStop(a) \/ ServoStopRaises(a))]_vars

\* ur.py: "a moveL while a servo stream is (possibly) live is an illegal mode
\* mix on the controller".  None reaches a script in servo mode, as long as the
\* receive interface answers.
NoMoveLIntoStream == readable => \A a \in Arms : ~MeetsStream(a, "move_l")

\* deployment_runtime.md: "a fresh script has no servo stream": one that was
\* rebuilt never meets the guard of its predecessor, even with a servo thread
\* that keeps trying; homing is not refused after a rebuild.
FreshScriptUnguarded ==
    [][\A a \in Arms : ~ctrl[a] /\ ctrl'[a] => ~active'[a]]_vars

\* The inductive invariant.
LeaseBacks == \A a \in Arms :
    HasInterface(a) \/ at[a] \in Building \cup {"idle", "close"} => lease = a
HolderIsThere == \A a \in Arms :
    /\ lease = a => at[a] \notin {"absent", "lease", "closed"}
    /\ ctrl[a] => at[a] \in {"idle", "dropped"}
    /\ rebuilding[a] => at[a] \in Building
SlotHeld == \A a \in Arms :
    HasInterface(a) \/ at[a] \in {"stop", "start"} => slot[ProcessOf[a]] = 1
BuiltUnguarded == \A a \in Arms : at[a] \in Building => ~active[a]
ScriptBacked == script \in Arms => HasInterface(script)
StreamGuarded == streaming =>
    \/ script = Stray
    \/ script \in Arms /\ ctrl[script] /\ (readable => active[script])
NoneLeftBehind == \A a \in Arms :
    at[a] \in {"absent", "lease"} => ~active[a] /\ thread[a] = "off"

ArmInv ==
    /\ LeaseBacks
    /\ HolderIsThere
    /\ SlotHeld
    /\ BuiltUnguarded
    /\ ScriptBacked
    /\ StreamGuarded
    /\ NoneLeftBehind

\* A slot that is taken, and not by an interface or the attempt to build one.
SlotLost(p) ==
    /\ slot[p] = 1
    /\ \A a \in Arms : ProcessOf[a] = p =>
          ~HasInterface(a) /\ at[a] \notin {"stop", "start"}

\* test_control_safety.py: "connect reserves the single slot; teardown frees
\* it, so sequential sessions never trip the invariant": no slot is lost.
SlotIsUsed == \A p \in Processes : ~SlotLost(p)

\* One way only leads to a lost slot: an URArm that was dropped with its
\* interface, and that nothing refers to any more.  No failed construction,
\* rebuild, disconnect or kill loses one.
LostByDropping ==
    [][\A p \in Processes : ~SlotLost(p) /\ SlotLost(p)' =>
          \E a \in Arms : /\ ProcessOf[a] = p
                         /\ at[a] = "dropped" /\ ctrl[a]
                         /\ Collected(a)]_vars

\* And it is lost until the process ends: whatever its later sessions do, none
\* of them gets the arm.
LostForGood ==
    [][\A p \in Processes : SlotLost(p) /\ ~SlotLost(p)' => Killed(p)]_vars
=============================================================================
