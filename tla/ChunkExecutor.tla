---------------------------- MODULE ChunkExecutor ----------------------------
(***************************************************************************)
(* phantom/deploy/executor.py: ChunkExecutor, with the threads that share  *)
(* it.  The servo thread plays the current plan and hands apertures to the *)
(* gripper worker through a one-place mailbox; the worker owns gripper     *)
(* I/O; the planner (planner.py, runtime.py, run_deploy.py) submits plans, *)
(* may halt the episode, tears the threads down and homes the arm for the  *)
(* next one.  Any of the three can run _halt, at any point of the others.  *)
(*                                                                         *)
(* A section under the executor's lock or its release lock never blocks    *)
(* and is one step; a section under the gripper I/O lock spans a socket    *)
(* transaction and is several.  A plan is reduced to the aperture of its   *)
(* current step, poses to whether the servo call was made.                 *)
(***************************************************************************)
EXTENDS Integers

CONSTANTS MaxGrip,      \* apertures are 0 (open) .. MaxGrip (closed)
          OpenAperture, \* where a let-go stop moves the fingers
          OpenMax,      \* open_command_max of the release controller
          Controllers   \* release controllers an episode may be configured with

ASSUME ExecutorAssumption ==
    /\ MaxGrip \in Nat
    /\ OpenAperture \in 0 .. MaxGrip
    /\ OpenMax \in 0 .. MaxGrip
    /\ Controllers \subseteq {"native", "release", "finish"}

Servo   == "servo"
Worker  == "worker"
Planner == "planner"
Threads == {Servo, Worker, Planner}

Grips  == 0 .. MaxGrip
NoGrip == -1                     \* None: no plan, no target, no latch
None   == "none"

\* What the campaign does after a stop reason, which is all it uses it for:
\* rebuild control (_CONTROL_DEAD_REASONS: protective_stop, safety_stop,
\* executor_crash, motion_stall, servo_stop_failed), end the process
\* (worker_died), or go on (lift_complete, veto_retry_cap, snapshot_invalid).
Reasons == {"rebuild", "fatal", "plain"}

HaltSteps     == {"halt", "unlatch", "invalidate", "set_stop", "release", "releasing"}
ServoSteps    == {"check", "judge", "control", "servo", "latch", "mail", "done"} \cup HaltSteps
WorkerSteps   == {"check", "want", "locked", "moving", "poll", "done"} \cup HaltSteps
TeardownSteps == {"stop", "clear", "join_servo", "join_worker", "servo_stop"}
PlannerSteps  == {"plan", "policy", "submit", "cap", "home", "start"}
                    \cup TeardownSteps \cup HaltSteps

VARIABLES pc,            \* where each thread is
          halting,       \* halting[t]: the arguments of t's _halt, if it ran
          stop,          \* _stop
          stoppedReason, \* stopped_reason
          plan,          \* _plan: the aperture it commands now
          target,        \* locals while in use: the servo tick's grip, the worker's tgt, the planner's chunk
          mailbox,       \* _grip_target
          latch,         \* _grip_latch
          rearmBlocked,  \* _latch_rearm_blocked
          controller,    \* release_controller.phase, "native" without one
          finishes,      \* config.finish_after_release
          finishGrip,    \* _finish_grip, and
          completed,     \* completed_reason is not None
          ioLock,        \* _grip_io_lock: its owner
          lastCommand,   \* last_sent of the worker, _last_grip_command
          gripper,       \* the aperture the device was last told
          release,       \* outcome of a let-go: none, done, failed
          streaming,     \* URArm._servo_active
          lateTicks,     \* history: servo calls made after _stop was set
          joinFailed     \* join_failed

halts   == <<halting, stop, stoppedReason>>
grips   == <<mailbox, latch, rearmBlocked>>
finish  == <<controller, finishes, finishGrip, completed>>
device  == <<ioLock, lastCommand, gripper, release>>
servos  == <<streaming, lateTicks>>
vars    == <<pc, halts, plan, target, grips, finish, device, servos, joinFailed>>

NoHalt == [reason |-> None, letgo |-> FALSE]

\* A fresh ChunkExecutor after start(): every episode builds its own.
Init ==
    /\ pc = [t \in Threads |-> IF t = Planner THEN "plan" ELSE "check"]
    /\ halting = [t \in Threads |-> NoHalt]
    /\ stop = FALSE
    /\ stoppedReason = None
    /\ plan = NoGrip
    /\ target = [t \in Threads |-> NoGrip]
    /\ mailbox = NoGrip
    /\ latch = NoGrip
    /\ rearmBlocked = FALSE
    /\ \E c \in Controllers :
          /\ controller = IF c = "native" THEN "native" ELSE "unarmed"
          /\ finishes = (c = "finish")
    /\ finishGrip = NoGrip
    /\ completed = FALSE
    /\ ioLock = None
    /\ lastCommand = NoGrip
    /\ gripper \in Grips
    /\ release = None
    /\ streaming = FALSE
    /\ lateTicks = 0
    /\ joinFailed = FALSE

Managed == controller # "native"

At(t, step) == pc[t] = step
Goto(t, step) == pc' = [pc EXCEPT ![t] = step]

\* The call _halt(reason, events): letgo says whether the reason or one of
\* the events means "let go".
Halts(t, reason, letgo) ==
    /\ Goto(t, "halt")
    /\ halting' = [halting EXCEPT ![t] = [reason |-> reason, letgo |-> letgo]]
    /\ target' = [target EXCEPT ![t] = NoGrip]

-----------------------------------------------------------------------------
(* _halt, in the thread t that called it.                                  *)

AfterHalt(t) == IF t = Planner THEN "stop" ELSE "done"

HaltSetReason(t) ==
    /\ At(t, "halt")
    /\ stoppedReason' = IF stoppedReason = None THEN halting[t].reason ELSE stoppedReason
    /\ halting' = [halting EXCEPT ![t].reason = None]
    /\ Goto(t, "unlatch")
    /\ UNCHANGED <<stop, plan, target, grips, finish, device, servos, joinFailed>>

HaltUnlatch(t) ==
    /\ At(t, "unlatch")
    /\ latch' = NoGrip
    /\ Goto(t, "invalidate")
    /\ UNCHANGED <<halts, plan, target, mailbox, rearmBlocked, finish, device, servos, joinFailed>>

HaltInvalidate(t) ==
    /\ At(t, "invalidate")
    /\ mailbox' = NoGrip
    /\ Goto(t, "set_stop")
    /\ UNCHANGED <<halts, plan, target, latch, rearmBlocked, finish, device, servos, joinFailed>>

\* (mutant) Only the halt that finds _stop clear lets go.
LetGoOnlyFirst(t) ==
    /\ At(t, "set_stop")
    /\ stop' = TRUE
    /\ Goto(t, IF halting[t].letgo /\ ~stop THEN "release" ELSE AfterHalt(t))
    /\ UNCHANGED <<halting, stoppedReason, plan, target, grips, finish, device, servos, joinFailed>>

HaltSetStop(t) ==
    /\ At(t, "set_stop")
    /\ stop' = TRUE
    /\ Goto(t, IF halting[t].letgo THEN "release" ELSE AfterHalt(t))
    /\ UNCHANGED <<halting, stoppedReason, plan, target, grips, finish, device, servos, joinFailed>>

\* (mutant) The release does not take the I/O lock.
ReleaseUnlocked(t) ==
    /\ At(t, "release")
    /\ Goto(t, "releasing")
    /\ UNCHANGED <<halts, plan, target, grips, finish, device, servos, joinFailed>>

\* _release_gripper: wait for the I/O lock, move open, swallow a failure.  A
\* move whose acknowledgement was lost may have reached the fingers.
ReleaseLock(t) ==
    /\ At(t, "release")
    /\ ioLock = None
    /\ ioLock' = t
    /\ Goto(t, "releasing")
    /\ UNCHANGED <<halts, plan, target, grips, finish, lastCommand, gripper, release, servos, joinFailed>>

\* (mutant) A failed move keeps the I/O lock.
ReleaseLeaksLock(t) ==
    /\ At(t, "releasing")
    /\ \/ gripper' = OpenAperture /\ release' = "done" /\ ioLock' = None
       \/ release' = "failed" /\ UNCHANGED <<gripper, ioLock>>
    /\ Goto(t, AfterHalt(t))
    /\ UNCHANGED <<halts, plan, target, grips, finish, lastCommand, servos, joinFailed>>

ReleaseMove(t) ==
    /\ At(t, "releasing")
    /\ \/ gripper' = OpenAperture /\ release' = "done"
       \/ gripper' \in {gripper, OpenAperture} /\ release' = IF release = None THEN "failed" ELSE release
    /\ ioLock' = None
    /\ Goto(t, AfterHalt(t))
    /\ UNCHANGED <<halts, plan, target, grips, finish, lastCommand, servos, joinFailed>>

Halt(t) ==
    \/ HaltSetReason(t)
    \/ HaltUnlatch(t)
    \/ HaltInvalidate(t)
    \/ HaltSetStop(t)
    \/ ReleaseLock(t)
    \/ ReleaseMove(t)

-----------------------------------------------------------------------------
(* The servo thread: _run inside _run_guarded.                             *)

ServoStopped ==
    /\ At(Servo, "check")
    /\ stop
    /\ Goto(Servo, "done")
    /\ UNCHANGED <<halts, plan, target, grips, finish, device, servos, joinFailed>>

\* (mutant) The loop does not look at _stop before a tick.
TickAfterStop ==
    /\ At(Servo, "check")
    /\ plan # NoGrip
    /\ \E grip \in IF completed THEN {finishGrip} ELSE {plan, NoGrip} :
          target' = [target EXCEPT ![Servo] = grip]
    /\ Goto(Servo, "judge")
    /\ UNCHANGED <<halts, plan, grips, finish, device, servos, joinFailed>>

\* Without a plan the loop sleeps.  A stale plan holds the arm and commands
\* no aperture; a completed episode holds the finish aperture.
ServoTick ==
    /\ At(Servo, "check")
    /\ ~stop
    /\ plan # NoGrip
    /\ \E grip \in IF completed THEN {finishGrip} ELSE {plan, NoGrip} :
          target' = [target EXCEPT ![Servo] = grip]
    /\ Goto(Servo, "judge")
    /\ UNCHANGED <<halts, plan, grips, finish, device, servos, joinFailed>>

SafetyPasses ==
    /\ At(Servo, "judge")
    /\ Goto(Servo, IF Managed THEN "control" ELSE "servo")
    /\ UNCHANGED <<halts, plan, target, grips, finish, device, servos, joinFailed>>

\* The verdict of SafetyMonitor.check: protective_stop or safety_stop, with or
\* without a let-go event, or lift_complete, which comes alone.
SafetyStops ==
    /\ At(Servo, "judge")
    /\ \/ \E letgo \in BOOLEAN : Halts(Servo, "rebuild", letgo)
       \/ Halts(Servo, "plain", FALSE)
    /\ UNCHANGED <<stop, stoppedReason, plan, grips, finish, device, servos, joinFailed>>

\* (mutant) The latch is kept but the proposal is commanded.
LatchIgnored(grip, result) ==
    /\ result = grip
    /\ latch' \in IF latch = NoGrip THEN {NoGrip, grip} ELSE {latch}
    /\ UNCHANGED rearmBlocked

\* _latched_grip(grip): result is the aperture to command.  The pads are both
\* loaded, both unloaded or neither; a native placement release needs a
\* lasting request to open.
LatchedGrip(grip, result) ==
    \/ /\ latch = NoGrip
       /\ result = grip
       /\ \/ UNCHANGED <<latch, rearmBlocked>>
          \/ rearmBlocked' = FALSE /\ UNCHANGED latch
          \/ ~rearmBlocked /\ latch' = grip /\ UNCHANGED rearmBlocked
    \/ /\ latch # NoGrip
       /\ \/ /\ latch' = IF grip > latch THEN grip ELSE latch
             /\ result = latch'
             /\ UNCHANGED rearmBlocked
          \/ /\ ~Managed
             /\ grip < latch
             /\ latch' = NoGrip
             /\ rearmBlocked' = TRUE
             /\ result = grip

Phases == {"unarmed", "holding", "releasing", "waiting_for_close", "finished"}

Suppressing(phase) == phase \in {"releasing", "waiting_for_close", "finished"}

NoteLatch(phase, held) == IF phase = "unarmed" /\ held # NoGrip THEN "holding" ELSE phase

\* release_controller.update(grip): from phase it stays or goes on to next.
\* Finishing needs the I/O lock and an accepted open command.
Updates(phase, grip, next) ==
    \/ next = phase
    \/ phase = "holding" /\ grip \in 0 .. OpenMax /\ next = "releasing"
    \/ phase = "releasing" /\ ~finishes /\ next = "waiting_for_close"
    \/ phase = "releasing" /\ finishes /\ ioLock = None /\ lastCommand \in 0 .. OpenMax /\ next = "finished"
    \/ phase = "waiting_for_close" /\ grip > OpenMax /\ next = "unarmed"

\* _apply_release_control once the episode is completed: hold the finish.
HoldFinish ==
    /\ At(Servo, "control")
    /\ completed
    /\ target' = [target EXCEPT ![Servo] = finishGrip]
    /\ Goto(Servo, "servo")
    /\ UNCHANGED <<halts, plan, grips, finish, device, servos, joinFailed>>

\* _apply_release_control when the controller is left in phase: suppress or
\* apply the latch; the finish freezes the aperture last accepted.
ReleaseControlTo(phase) ==
    /\ Updates(NoteLatch(controller, latch), target[Servo], phase)
    /\ \/ /\ Suppressing(phase)
          /\ latch' = NoGrip
          /\ UNCHANGED rearmBlocked
          /\ IF phase = "finished"
             THEN /\ completed' = TRUE
                  /\ finishGrip' = lastCommand
                  /\ mailbox' = lastCommand
                  /\ target' = [target EXCEPT ![Servo] = lastCommand]
             ELSE UNCHANGED <<completed, finishGrip, mailbox, target>>
       \/ /\ ~Suppressing(phase)
          /\ \/ /\ target[Servo] = NoGrip
                /\ UNCHANGED <<latch, rearmBlocked, target>>
             \/ /\ target[Servo] # NoGrip
                /\ \E result \in Grips :
                      /\ LatchedGrip(target[Servo], result)
                      /\ target' = [target EXCEPT ![Servo] = result]
          /\ UNCHANGED <<completed, finishGrip, mailbox>>
    /\ controller' = NoteLatch(phase, latch')

ReleaseControl ==
    /\ At(Servo, "control")
    /\ ~completed
    /\ \E phase \in Phases : ReleaseControlTo(phase)
    /\ Goto(Servo, "servo")
    /\ UNCHANGED <<halts, plan, finishes, device, servos, joinFailed>>

\* arm.servo_l: sent, or held by the driver.
ServoCommand ==
    /\ At(Servo, "servo")
    /\ streaming' \in {streaming, TRUE}
    /\ lateTicks' = IF stop THEN lateTicks + 1 ELSE lateTicks
    /\ Goto(Servo, IF target[Servo] = NoGrip THEN "check" ELSE IF Managed THEN "mail" ELSE "latch")
    /\ UNCHANGED <<halts, plan, target, grips, finish, device, joinFailed>>

\* (mutant) The servo thread dies without _halt.
CrashSilent ==
    /\ \/ At(Servo, "control")
       \/ At(Servo, "servo")
    /\ Goto(Servo, "done")
    /\ UNCHANGED <<halts, plan, target, grips, finish, device, servos, joinFailed>>

\* A driver fault or a failed feedback read: _run_guarded's crash net.
ServoCrash ==
    /\ \/ At(Servo, "control")
       \/ At(Servo, "servo")
    /\ Halts(Servo, "rebuild", FALSE)
    /\ UNCHANGED <<stop, stoppedReason, plan, grips, finish, device, servos, joinFailed>>

ApplyLatch ==
    /\ At(Servo, "latch")
    /\ \E result \in Grips :
          /\ LatchedGrip(target[Servo], result)
          /\ target' = [target EXCEPT ![Servo] = result]
    /\ Goto(Servo, "mail")
    /\ UNCHANGED <<halts, plan, mailbox, finish, device, servos, joinFailed>>

PostTarget ==
    /\ At(Servo, "mail")
    /\ mailbox' = target[Servo]
    /\ target' = [target EXCEPT ![Servo] = NoGrip]
    /\ Goto(Servo, "check")
    /\ UNCHANGED <<halts, plan, latch, rearmBlocked, finish, device, servos, joinFailed>>

ServoThread ==
    \/ ServoStopped
    \/ ServoTick
    \/ SafetyPasses
    \/ SafetyStops
    \/ HoldFinish
    \/ ReleaseControl
    \/ ServoCommand
    \/ ServoCrash
    \/ ApplyLatch
    \/ PostTarget
    \/ Halt(Servo)

-----------------------------------------------------------------------------
(* The gripper worker: _grip_worker.                                       *)

WorkerStopped ==
    /\ At(Worker, "check")
    /\ stop
    /\ Goto(Worker, "done")
    /\ UNCHANGED <<halts, plan, target, grips, finish, device, servos, joinFailed>>

Due(tgt) == tgt # NoGrip /\ tgt # lastCommand

\* Read the mailbox; a target is due when it is not the one last sent.
ReadMailbox ==
    /\ At(Worker, "check")
    /\ ~stop
    /\ target' = [target EXCEPT ![Worker] = IF Due(mailbox) THEN mailbox ELSE NoGrip]
    /\ Goto(Worker, IF Due(mailbox) THEN "want" ELSE "poll")
    /\ UNCHANGED <<halts, plan, grips, finish, device, servos, joinFailed>>

TakeIoLock ==
    /\ At(Worker, "want")
    /\ ioLock = None
    /\ ioLock' = Worker
    /\ Goto(Worker, "locked")
    /\ UNCHANGED <<halts, plan, target, grips, finish, lastCommand, gripper, release, servos, joinFailed>>

\* Under the lock: give up after a stop, and with a release controller look
\* at the mailbox again, which a finish may have replaced.
Recheck ==
    /\ At(Worker, "locked")
    /\ LET tgt == IF stop THEN NoGrip ELSE IF Managed THEN mailbox ELSE target[Worker]
           sends == tgt # NoGrip
       IN  /\ target' = [target EXCEPT ![Worker] = tgt]
           /\ Goto(Worker, IF stop THEN "poll" ELSE IF sends THEN "moving" ELSE "check")
           /\ ioLock' = IF sends THEN Worker ELSE None
    /\ UNCHANGED <<halts, plan, grips, finish, lastCommand, gripper, release, servos, joinFailed>>

SendTarget ==
    /\ At(Worker, "moving")
    /\ gripper' = target[Worker]
    /\ lastCommand' = target[Worker]
    /\ target' = [target EXCEPT ![Worker] = NoGrip]
    /\ ioLock' = None
    /\ Goto(Worker, "poll")
    /\ UNCHANGED <<halts, plan, grips, finish, release, servos, joinFailed>>

\* The socket failed under the move; the command may still have arrived.
SendFails ==
    /\ At(Worker, "moving")
    /\ gripper' \in {gripper, target[Worker]}
    /\ ioLock' = None
    /\ Halts(Worker, "rebuild", FALSE)
    /\ UNCHANGED <<stop, stoppedReason, plan, grips, finish, lastCommand, release, servos, joinFailed>>

PollState ==
    /\ At(Worker, "poll")
    /\ \/ Goto(Worker, "check") /\ UNCHANGED <<halting, target>>
       \/ Halts(Worker, "rebuild", FALSE)
    /\ UNCHANGED <<stop, stoppedReason, plan, grips, finish, device, servos, joinFailed>>

WorkerThread ==
    \/ WorkerStopped
    \/ ReadMailbox
    \/ TakeIoLock
    \/ Recheck
    \/ SendTarget
    \/ SendFails
    \/ PollState
    \/ Halt(Worker)

-----------------------------------------------------------------------------
(* The planner's thread: PlannerLoop.run, the teardown in run_episode and  *)
(* the campaign loop of run_deploy.                                        *)

SeesStop ==
    /\ pc[Planner] \in {"plan", "cap"}
    /\ stoppedReason # None
    /\ Goto(Planner, "stop")
    /\ UNCHANGED <<halts, plan, target, grips, finish, device, servos, joinFailed>>

\* A dead sensor worker, a rejected snapshot, or an arm that does not follow.
PlannerStops ==
    /\ At(Planner, "plan")
    /\ stoppedReason = None
    /\ \E reason \in {"fatal", "plain"} \cup IF completed THEN {} ELSE {"rebuild"} :
          Halts(Planner, reason, FALSE)
    /\ UNCHANGED <<stop, stoppedReason, plan, grips, finish, device, servos, joinFailed>>

StartInference ==
    /\ At(Planner, "plan")
    /\ stoppedReason = None
    /\ ~completed
    /\ Goto(Planner, "policy")
    /\ UNCHANGED <<halts, plan, target, grips, finish, device, servos, joinFailed>>

\* After a completion the planner only waits out the observation period.
ObservationOver ==
    /\ At(Planner, "plan")
    /\ stoppedReason = None
    /\ completed
    /\ Goto(Planner, "stop")
    /\ UNCHANGED <<halts, plan, target, grips, finish, device, servos, joinFailed>>

\* policy.replan raised: the exception unwinds into the teardown.
PolicyFails ==
    /\ At(Planner, "policy")
    /\ Goto(Planner, "stop")
    /\ UNCHANGED <<halts, plan, target, grips, finish, device, servos, joinFailed>>

Proposes ==
    /\ At(Planner, "policy")
    /\ \E grip \in Grips : target' = [target EXCEPT ![Planner] = grip]
    /\ Goto(Planner, "submit")
    /\ UNCHANGED <<halts, plan, grips, finish, device, servos, joinFailed>>

\* The terminal veto opens after a phantom grasp: an intended release, so
\* clear_grip_latch, which also resets a controller that has not finished.
VetoRecovers ==
    /\ At(Planner, "policy")
    /\ ~completed
    /\ target' = [target EXCEPT ![Planner] = OpenAperture]
    /\ latch' = NoGrip
    /\ controller' = IF Managed THEN "unarmed" ELSE controller
    /\ Goto(Planner, "submit")
    /\ UNCHANGED <<halts, plan, mailbox, rearmBlocked, finishes, finishGrip, completed, device, servos, joinFailed>>

VetoGivesUp ==
    /\ At(Planner, "policy")
    /\ ~completed
    /\ Halts(Planner, "plain", TRUE)
    /\ UNCHANGED <<stop, stoppedReason, plan, grips, finish, device, servos, joinFailed>>

\* submit: refused once the episode stopped or completed, or when too little
\* of the chunk lies ahead.
Submit ==
    /\ At(Planner, "submit")
    /\ \/ /\ stoppedReason = None
          /\ ~completed
          /\ plan' = target[Planner]
       \/ UNCHANGED plan
    /\ target' = [target EXCEPT ![Planner] = NoGrip]
    /\ Goto(Planner, "cap")
    /\ UNCHANGED <<halts, grips, finish, device, servos, joinFailed>>

NextReplan ==
    /\ At(Planner, "cap")
    /\ stoppedReason = None
    /\ Goto(Planner, "plan")
    /\ UNCHANGED <<halts, plan, target, grips, finish, device, servos, joinFailed>>

\* A cap, a confirmed grasp or the operator.
EpisodeOver ==
    /\ At(Planner, "cap")
    /\ Goto(Planner, "stop")
    /\ UNCHANGED <<halts, plan, target, grips, finish, device, servos, joinFailed>>

\* ChunkExecutor.stop().
TeardownStop ==
    /\ At(Planner, "stop")
    /\ stop' = TRUE
    /\ Goto(Planner, "clear")
    /\ UNCHANGED <<halting, stoppedReason, plan, target, grips, finish, device, servos, joinFailed>>

TeardownClear ==
    /\ At(Planner, "clear")
    /\ mailbox' = NoGrip
    /\ Goto(Planner, "join_servo")
    /\ UNCHANGED <<halts, plan, target, latch, rearmBlocked, finish, device, servos, joinFailed>>

\* (mutant) A join that timed out is taken for one that returned.
JoinAssumed(t) == t \in Threads /\ UNCHANGED <<stoppedReason, joinFailed>>

\* A join returns when the thread ended or when its budget ran out.
Joined(t) ==
    \/ At(t, "done") /\ UNCHANGED <<stoppedReason, joinFailed>>
    \/ /\ ~At(t, "done")
       /\ joinFailed' = TRUE
       /\ stoppedReason' = IF stoppedReason = None THEN "rebuild" ELSE stoppedReason

JoinServo ==
    /\ At(Planner, "join_servo")
    /\ Joined(Servo)
    /\ Goto(Planner, "join_worker")
    /\ UNCHANGED <<halting, stop, plan, target, grips, finish, device, servos>>

JoinWorker ==
    /\ At(Planner, "join_worker")
    /\ Joined(Worker)
    /\ Goto(Planner, "servo_stop")
    /\ UNCHANGED <<halting, stop, plan, target, grips, finish, device, servos>>

\* arm.servo_stop ends the stream, or fails against a script that still plays.
ServoStop ==
    /\ At(Planner, "servo_stop")
    /\ \/ streaming' = FALSE /\ UNCHANGED stoppedReason
       \/ /\ streaming
          /\ stoppedReason' = IF stoppedReason = None THEN "rebuild" ELSE stoppedReason
          /\ UNCHANGED streaming
    /\ Goto(Planner, "home")
    /\ UNCHANGED <<halting, stop, plan, target, grips, finish, device, lateTicks, joinFailed>>

\* fatal_reason: the process exits here instead of homing.
FatalReason == joinFailed \/ stoppedReason = "fatal"

\* recover_control, for the reasons that ask for it: a new control session has
\* its guard down.  If it cannot be had, the process exits here.
RecoverControl == streaming' = (streaming /\ stoppedReason # "rebuild")

\* Recover control, then home arm and gripper.
Home ==
    /\ At(Planner, "home")
    /\ ~FatalReason
    /\ RecoverControl
    /\ gripper' \in Grips
    /\ release' = None
    /\ Goto(Planner, "start")
    /\ UNCHANGED <<halts, plan, target, grips, finish, ioLock, lastCommand, lateTicks, joinFailed>>

\* A new ChunkExecutor, configured as the last one, and its start().
StartEpisode ==
    /\ At(Planner, "start")
    /\ pc' = [t \in Threads |-> IF t = Planner THEN "plan" ELSE "check"]
    /\ halting' = [t \in Threads |-> NoHalt]
    /\ stop' = FALSE
    /\ stoppedReason' = None
    /\ plan' = NoGrip
    /\ target' = [t \in Threads |-> NoGrip]
    /\ mailbox' = NoGrip
    /\ latch' = NoGrip
    /\ rearmBlocked' = FALSE
    /\ controller' = IF Managed THEN "unarmed" ELSE "native"
    /\ finishGrip' = NoGrip
    /\ completed' = FALSE
    /\ ioLock' = None
    /\ lastCommand' = NoGrip
    /\ lateTicks' = 0
    /\ UNCHANGED <<finishes, gripper, release, streaming, joinFailed>>

PlannerThread ==
    \/ SeesStop
    \/ PlannerStops
    \/ StartInference
    \/ ObservationOver
    \/ PolicyFails
    \/ Proposes
    \/ VetoRecovers
    \/ VetoGivesUp
    \/ Submit
    \/ NextReplan
    \/ EpisodeOver
    \/ TeardownStop
    \/ TeardownClear
    \/ JoinServo
    \/ JoinWorker
    \/ ServoStop
    \/ Home
    \/ StartEpisode
    \/ Halt(Planner)

Next == ServoThread \/ WorkerThread \/ PlannerThread

Spec == Init /\ [][Next]_vars

\* Each thread keeps being scheduled; a lock is released by its holder.
FairSpec ==
    /\ Spec
    /\ WF_vars(ServoThread)
    /\ WF_vars(WorkerThread)
    /\ WF_vars(PlannerThread)

-----------------------------------------------------------------------------
(* Properties.                                                             *)

\* The types of the executor's state.
TypeOK ==
    /\ pc \in [Threads -> ServoSteps \cup WorkerSteps \cup PlannerSteps]
    /\ pc[Servo] \in ServoSteps
    /\ pc[Worker] \in WorkerSteps
    /\ pc[Planner] \in PlannerSteps
    /\ halting \in [Threads -> [reason : Reasons \cup {None}, letgo : BOOLEAN]]
    /\ stop \in BOOLEAN
    /\ stoppedReason \in Reasons \cup {None}
    /\ plan \in Grips \cup {NoGrip}
    /\ target \in [Threads -> Grips \cup {NoGrip}]
    /\ At(Worker, "moving") => target[Worker] # NoGrip
    /\ mailbox \in Grips \cup {NoGrip}
    /\ latch \in Grips \cup {NoGrip}
    /\ rearmBlocked \in BOOLEAN
    /\ controller \in Phases \cup {"native"}
    /\ finishes \in BOOLEAN
    /\ finishGrip \in Grips \cup {NoGrip}
    /\ completed \in BOOLEAN
    /\ ioLock \in Threads \cup {None}
    /\ lastCommand \in Grips \cup {NoGrip}
    /\ gripper \in Grips
    /\ release \in {None, "done", "failed"}
    /\ streaming \in BOOLEAN
    /\ lateTicks \in Nat
    /\ joinFailed \in BOOLEAN

\* Once a let-go release has opened the fingers, no command already on its
\* way through the mailbox or the worker closes them again: they stay where
\* they are until the homing of the next episode.
ReleaseIsLast == [][release = "done" /\ release' = "done" => gripper' = gripper]_vars

\* The next episode homes, and reuses the one gripper socket and the arm,
\* only when both threads of the last one have ended and nothing of theirs
\* holds the I/O lock; a join that timed out ends the process instead.
HandingOver == pc[Planner] = "start" \/ (pc[Planner] = "home" /\ ~FatalReason)
CleanHandover ==
    HandingOver => At(Servo, "done") /\ At(Worker, "done") /\ ioLock = None

\* A stop that means "let go" commands the fingers open before the next
\* episode, whichever thread raised it and however the threads interleave.
LetGoHonoured ==
    HandingOver => ((\E t \in Threads : halting[t].letgo) => release # None) \/ pc[Planner] = "start"

\* After a measured placement release has completed the episode, and until
\* the homing of the next one, the fingers are never commanded to anything
\* but the let-go opening: a close that was in the mailbox or in the worker's
\* hands does not follow the finish.
FinishIsFinal ==
    [][completed /\ pc'[Planner] # "start" => gripper' \in {gripper, OpenAperture}]_vars

\* A stop ends the servo stream: at most the tick in progress still reaches
\* the arm after _stop is set.
OneLateTick == lateTicks <= 1

\* A thread never dies in silence: once the servo thread or the worker has
\* ended, the episode is stopped and, unless the planner is already tearing
\* it down, carries a reason the planner will read.
DeathSurfaces ==
    At(Servo, "done") \/ At(Worker, "done") =>
        stop /\ (stoppedReason # None \/ pc[Planner] \in TeardownSteps \cup {"home", "start"})

\* While the aperture latch is armed the worker is never left a target that
\* is more open, except within the tick that arms it.
LatchFloorsMailbox ==
    latch # NoGrip /\ mailbox # NoGrip /\ pc[Servo] \notin {"servo", "mail"} \cup HaltSteps \cup {"done"}
        => mailbox >= latch

\* A servo stream that could not be stopped is never silent: an episode that
\* leaves the guard up carries a stop reason.
StuckGuardHasReason == At(Planner, "home") /\ streaming => stoppedReason # None

\* The executor keeps the promise of EpisodeGrip, with whatever the worker has
\* under the lock as the move that is under way.
LetGoAsked   == \E t \in Threads : halting[t].letgo
MoveUnderway == IF At(Worker, "moving") THEN target[Worker] ELSE NoGrip
Grip == INSTANCE EpisodeGrip WITH
            Open <- OpenAperture, fingers <- gripper, stopped <- stop, letgo <- LetGoAsked,
            released <- release, finished <- completed, homed <- At(Planner, "start"),
            underway <- MoveUnderway
ImplementsGrip == Grip!Spec

\* The inductive invariant that carries the safety properties: who holds the
\* I/O lock, what a halt has done so far, what is settled when threads have
\* been joined, and what the worker may still send.
HoldsLock(t) == pc[t] = "releasing" \/ (t = Worker /\ pc[t] \in {"locked", "moving"})
LockOwned == \A t \in Threads : ioLock = t <=> HoldsLock(t)

HaltsInOrder ==
    \A t \in Threads :
        /\ At(t, "halt") => halting[t].reason # None
        /\ pc[t] \in HaltSteps \ {"halt"} => stoppedReason # None
        /\ pc[t] \in {"release", "releasing"} => stop
        /\ halting[t].letgo => pc[t] \in HaltSteps \/ release # None \/ At(Planner, "start")

HaltsOnce ==
    \A t \in Threads :
        /\ halting[t].letgo => pc[t] \in HaltSteps \cup TeardownSteps \cup {"done", "home", "start"}
        /\ pc[t] \in {"release", "releasing"} => halting[t].letgo

StopsExplained ==
    /\ At(Servo, "done") \/ At(Worker, "done") => stop
    /\ stop => stoppedReason # None \/ pc[Planner] \in TeardownSteps \cup {"home", "start"}

ReleaseHolds ==
    release = "done" => stop /\ gripper = OpenAperture /\ ~At(Worker, "moving")

JoinsSettle ==
    /\ pc[Planner] \in {"join_worker", "servo_stop", "home"} => At(Servo, "done") \/ joinFailed
    /\ pc[Planner] \in {"servo_stop", "home"} => At(Worker, "done") \/ joinFailed
    /\ joinFailed => pc[Planner] \in {"join_worker", "servo_stop", "home"} /\ stoppedReason # None
    /\ At(Planner, "start") => At(Servo, "done") /\ At(Worker, "done") /\ release = None

TicksCounted ==
    /\ lateTicks <= 1
    /\ lateTicks > 0 => stop /\ pc[Servo] \notin {"judge", "control", "servo"}

FinishFrozen ==
    /\ controller = "finished" => completed
    /\ At(Servo, "latch") => ~Managed
    /\ (~stop \/ At(Worker, "moving")) /\ pc[Worker] \notin HaltSteps /\ lastCommand # NoGrip
          => gripper = lastCommand
    /\ completed =>
          /\ Managed
          /\ latch = NoGrip
          /\ lastCommand # NoGrip
          /\ finishGrip = lastCommand
          /\ mailbox \in {NoGrip, finishGrip}
          /\ target[Servo] \in {NoGrip, finishGrip}
          /\ At(Worker, "moving") => target[Worker] = finishGrip

\* The tick has latched its aperture and not posted it yet.
Latching == target[Servo] # NoGrip /\ pc[Servo] \in (IF Managed THEN {"servo"} ELSE {}) \cup {"mail"}
LatchFloors ==
    latch # NoGrip /\ pc[Servo] \notin HaltSteps \cup {"done"} =>
        IF Latching THEN target[Servo] >= latch ELSE mailbox = NoGrip \/ mailbox >= latch

ExecInv ==
    /\ LockOwned
    /\ HaltsInOrder
    /\ HaltsOnce
    /\ StopsExplained
    /\ ReleaseHolds
    /\ JoinsSettle
    /\ TicksCounted
    /\ FinishFrozen
    /\ LatchFloors
    /\ StuckGuardHasReason

\* Every stop ends the episode and both threads: no cycle of locks, joins
\* and waits keeps one of them, not even after a join has given up on it.
StopEndsEpisode ==
    stop ~> /\ At(Servo, "done")
            /\ At(Worker, "done")
            /\ pc[Planner] \in {"home", "start"}
=============================================================================
