---------------------------- MODULE CollectSafety ----------------------------
(***************************************************************************)
(* phantom/data_collect: the four threads that share the motion of a       *)
(* collection session.  The streamer (teleop.py, DirectServoStreamer)      *)
(* servoes the arm at 125 Hz; the safeguard (safeguard.py) latches a pad   *)
(* overload, freezes the streamer and opens the gripper; the pilot         *)
(* (gripper.py) owns the gripper socket; the main loop (session.py, _loop) *)
(* runs at 10 Hz, handles the trip, the operator's buttons and the arm     *)
(* guard.  The panel's HTTP threads switch the safeguard on and off.       *)
(*                                                                         *)
(* A section under a lock that never blocks is one step.  Of a joint pose   *)
(* only its age is kept: whether it was taken before the operator last     *)
(* moved the arm by hand, so that servoing it would make the arm jump.     *)
(***************************************************************************)
EXTENDS Integers

\* What may happen in a session: what may go wrong with the arm, whether the
\* operator switches the safeguard off and on, and, of the configuration,
\* cc.safeguard.release_gripper.
ArmTroubles == {"pstop", "wrench", "rebuild_fails"}
SetupType   == [arm : SUBSET ArmTroubles, toggles : BOOLEAN, release : BOOLEAN]

CONSTANT Setups   \* the sessions to look at

ASSUME CollectAssumption == Setups \subseteq SetupType

Phases  == {"engage", "track", "hold", "fault"}   \* TrackPhase
NoHold  == "none"                                 \* arm_hold == ""
StreamerSteps  == {"sample", "judge", "park", "look", "frozen", "follow",
                   "reread", "command", "check", "send"}
SafeguardSteps == {"idle", "scan", "hold", "open"}
PilotSteps     == {"tick", "open", "pull"}
LoopSteps      == {"tick", "trip", "unfreeze", "button", "rearm", "reset",
                   "guard", "recover", "thaw", "reengage", "rebuild", "seed", "commit"}

VARIABLES
    setup,        \* the session this is: a member of Setups, for good
    phase, ctlLost, reseed, \* _phase, _ctl_lost, _reseed_flag of the streamer
    age,          \* age[p]: pose p is of now, of before the last jog, or None
    streamer,     \* where the streamer thread is, and
    seen,         \* its locals: the sampled pstop, the phase and reseed flag it read
    pstop,        \* the robot is protective-stopped, as the arm ring shows it
    scriptDead,   \* the control script is not running
    enabled, tripped, \* _enabled, _tripped of the safeguard
    safeguard,    \* where the safeguard thread is
    suspended, openPending, \* _suspended, _open_pending of the pilot
    pilot,        \* where the pilot thread is
    gripper,      \* what the device was last told: "open" or "leader"
    loop,         \* where the main loop is, and
    trip,         \* its locals: safeguard.tripped as read at the top of the tick,
    handled,      \* trip_handled
    armHold,      \* arm_hold
    caught        \* history: HOLD came while the streamer was about to send

\* The poses the streamer keeps: the arm sample of the cycle, the two
\* trackers, _last_cmd, _hold_q, and the pose on its way to servo_j.
Poses == {"sample", "tracker", "track", "last", "held", "q_cmd"}
Ages  == {"none", "now", "old"}

motion   == <<phase, ctlLost, reseed>>
cycle    == <<age, streamer, seen, caught>>
robot    == <<pstop, scriptDead>>
guardVars == <<enabled, tripped, safeguard>>
grip     == <<suspended, openPending, pilot, gripper>>
session  == <<loop, trip, handled, armHold>>
vars     == <<setup, motion, cycle, robot, guardVars, grip, session>>

NothingSeen == [pstop |-> FALSE, phase |-> "engage", reseed |-> FALSE]

\* After start() of the streamer, the pilot and the safeguard.
Init ==
    /\ setup \in Setups
    /\ phase = "engage" /\ ctlLost = FALSE /\ reseed = FALSE
    /\ age = [p \in Poses |-> IF p \in {"tracker", "track"} THEN "now" ELSE "none"]
    /\ streamer = "sample" /\ seen = NothingSeen
    /\ pstop = FALSE /\ scriptDead = FALSE
    /\ enabled \in {TRUE} \cup (IF setup.toggles THEN {FALSE} ELSE {})
    /\ tripped = FALSE /\ safeguard = "idle"
    /\ suspended = FALSE /\ openPending = FALSE /\ pilot = "tick"
    /\ gripper = "open"
    /\ loop = "tick" /\ trip = FALSE /\ handled = FALSE /\ armHold = NoHold
    /\ caught = FALSE

-----------------------------------------------------------------------------
(* The streamer's methods that other threads call, each under its lock.    *)

Hold ==
    /\ phase' = "hold"
    /\ age' = [age EXCEPT !["held"] = age["last"]]
    /\ caught' = (streamer = "send")

Unheld == [age EXCEPT !["held"] = "none"]

\* A resume that finds another phase than HOLD does nothing.
Resume ==
    IF phase = "hold"
      THEN phase' = "engage" /\ reseed' = TRUE /\ caught' = FALSE /\ age' = Unheld
      ELSE UNCHANGED <<phase, reseed, caught, age>>

-----------------------------------------------------------------------------
(* The streamer thread: _run_inner.                                        *)

StreamerGoto(step) == streamer' = step

\* The cycle is over: its locals are forgotten, the poses in keeps remain.
EndCycle(keeps) ==
    /\ streamer' = "sample"
    /\ seen' = NothingSeen
    /\ caught' = FALSE
    /\ age' = [keeps EXCEPT !["q_cmd"] = "none"]

Sample ==
    /\ streamer = "sample"
    /\ seen' = [seen EXCEPT !.pstop = pstop]
    /\ age' = [age EXCEPT !["sample"] = "now"]
    /\ StreamerGoto("judge")
    /\ UNCHANGED <<motion, caught>>

Judge ==
    /\ streamer = "judge"
    /\ ctlLost' = (ctlLost \/ seen.pstop)
    /\ StreamerGoto(IF ctlLost' THEN "park" ELSE "look")
    /\ UNCHANGED <<phase, reseed, age, seen, caught>>

Park ==
    /\ streamer = "park"
    /\ phase' = "fault"
    /\ EndCycle(Unheld)
    /\ UNCHANGED <<ctlLost, reseed>>

Look ==
    /\ streamer = "look"
    /\ seen' = [seen EXCEPT !.phase = phase, !.reseed = reseed]
    /\ reseed' = FALSE
    /\ age' = [age EXCEPT !["q_cmd"] = IF phase = "hold" THEN age["held"] ELSE @]
    /\ StreamerGoto(IF phase = "hold" THEN "frozen" ELSE "follow")
    /\ UNCHANGED <<phase, ctlLost, caught>>

\* The control lock is held by the main loop while it rebuilds the script.
CtlLockFree == loop # "rebuild"

\* Keep servoing the frozen pose, unless none was ever commanded.
Frozen ==
    /\ streamer = "frozen"
    /\ age["q_cmd"] = "none" \/ CtlLockFree
    /\ ctlLost' = (ctlLost \/ (scriptDead /\ age["q_cmd"] # "none"))
    /\ EndCycle(age)
    /\ UNCHANGED <<phase, reseed>>

SeedFromLast ==        \* mutant: the glide starts from the last command
    [age EXCEPT !["tracker"] = IF seen.reseed THEN age["last"] ELSE @]

\* A reseed restarts the glide at the sampled pose.
Seeded == [age EXCEPT !["tracker"] = IF seen.reseed THEN age["sample"] ELSE @]

\* The leader may not be streaming yet; the end of a long drop-out glides
\* back to it from the last command.
Follow ==
    /\ streamer = "follow"
    /\ \/ EndCycle(Seeded) /\ UNCHANGED phase
       \/ age' = Seeded /\ StreamerGoto("command") /\ UNCHANGED <<phase, seen, caught>>
       \/ /\ seen.phase = "track"
          /\ phase' = IF phase = "track" THEN "engage" ELSE phase
          /\ age' = [age EXCEPT !["tracker"] =
                          IF age["last"] = "none" THEN age["sample"] ELSE age["last"]]
          /\ StreamerGoto("reread")
          /\ UNCHANGED <<seen, caught>>
    /\ UNCHANGED <<ctlLost, reseed>>

Reread ==
    /\ streamer = "reread"
    /\ seen' = [seen EXCEPT !.phase = phase]
    /\ StreamerGoto("command")
    /\ UNCHANGED <<motion, age, caught>>

\* Glide towards the leader and hand over to direct tracking once converged,
\* if the phase still is ENGAGE; in every other phase, track it directly.
Glide ==
    /\ seen.phase = "engage"
    /\ \/ /\ age' = [age EXCEPT !["q_cmd"] = age["tracker"]]
          /\ UNCHANGED phase
       \/ /\ phase = "engage"
          /\ phase' = "track"
          /\ age' = [age EXCEPT !["q_cmd"] = age["tracker"], !["track"] = age["tracker"]]

TrackLeader ==
    /\ seen.phase # "engage"
    /\ age' = [age EXCEPT !["q_cmd"] = age["track"], !["tracker"] = age["track"]]
    /\ UNCHANGED phase

Command ==
    /\ streamer = "command"
    /\ Glide \/ TrackLeader
    /\ StreamerGoto("check")
    /\ UNCHANGED <<ctlLost, reseed, seen, caught>>

CheckNothing ==        \* mutant: _servo does not look at the phase again
    /\ streamer = "check"
    /\ age' = [age EXCEPT !["last"] = age["q_cmd"]]
    /\ StreamerGoto("send")
    /\ UNCHANGED <<motion, seen, caught>>

\* _servo: a HOLD that came since the cycle looked suppresses the command.
Check ==
    /\ streamer = "check"
    /\ IF phase = "hold"
         THEN EndCycle(age)
         ELSE /\ age' = [age EXCEPT !["last"] = age["q_cmd"]]
              /\ StreamerGoto("send")
              /\ UNCHANGED <<seen, caught>>
    /\ UNCHANGED motion

Send ==
    /\ streamer = "send"
    /\ CtlLockFree
    /\ ctlLost' = (ctlLost \/ scriptDead)
    /\ EndCycle(age)
    /\ UNCHANGED <<phase, reseed>>

StreamerThread ==
    /\ Sample \/ Judge \/ Park \/ Look \/ Frozen \/ Follow \/ Reread
         \/ Command \/ Check \/ Send
    /\ UNCHANGED <<robot, guardVars, grip, session>>

-----------------------------------------------------------------------------
(* The safeguard thread: check_once, _trip_now; and POST /api/safeguard.   *)

ReadLimits ==
    /\ safeguard = "idle"
    /\ enabled /\ ~tripped
    /\ safeguard' = "scan"
    /\ UNCHANGED <<enabled, tripped, suspended, openPending, phase, age, caught>>

\* The scan finds nothing, or an overload or a stale stream and latches it.
Latch ==
    /\ safeguard = "scan"
    /\ \/ safeguard' = "idle" /\ UNCHANGED tripped
       \/ safeguard' = "hold" /\ tripped' = TRUE
    /\ UNCHANGED <<enabled, suspended, openPending, phase, age, caught>>

TripHolds ==
    /\ safeguard = "hold"
    /\ Hold
    /\ safeguard' = "open"
    /\ UNCHANGED <<enabled, tripped, suspended, openPending>>

TripOpens ==
    /\ safeguard = "open"
    /\ suspended' = (suspended \/ setup.release)
    /\ openPending' = (openPending \/ setup.release)
    /\ safeguard' = "idle"
    /\ UNCHANGED <<enabled, tripped, phase, age, caught>>

SafeguardThread ==
    /\ ReadLimits \/ Latch \/ TripHolds \/ TripOpens
    /\ UNCHANGED <<ctlLost, reseed, streamer, seen, robot, pilot, gripper, session>>

\* configure(enabled): switching off clears the latch.
Configure ==
    /\ setup.toggles
    /\ enabled' = ~enabled
    /\ tripped' = (tripped /\ enabled')
    /\ UNCHANGED <<motion, cycle, robot, safeguard, grip, session>>

-----------------------------------------------------------------------------
(* The pilot thread: _run_inner, one tick.                                 *)

PilotSkips ==          \* mutant: a suspended pilot does not look for the open request
    /\ pilot = "tick"
    /\ openPending' = FALSE
    /\ pilot' = IF suspended THEN "tick" ELSE IF openPending THEN "open" ELSE "pull"
    /\ UNCHANGED <<suspended, gripper>>

PilotTick ==
    /\ pilot = "tick"
    /\ openPending' = FALSE
    /\ pilot' = IF openPending THEN "open" ELSE IF suspended THEN "tick" ELSE "pull"
    /\ UNCHANGED <<suspended, gripper>>

PilotOpens ==
    /\ pilot = "open"
    /\ gripper' = "open"
    /\ pilot' = "tick"
    /\ UNCHANGED <<suspended, openPending>>

\* The leader's squeeze, if it changed by more than the deadband.
PilotFollows ==
    /\ pilot = "pull"
    /\ gripper' \in {gripper, "leader"}
    /\ pilot' = "tick"
    /\ UNCHANGED <<suspended, openPending>>

PilotThread ==
    /\ PilotTick \/ PilotOpens \/ PilotFollows
    /\ UNCHANGED <<motion, cycle, robot, guardVars, session>>

\* release(), from the main loop.
PilotRelease ==
    /\ suspended' = FALSE
    /\ openPending' = FALSE
    /\ UNCHANGED <<pilot, gripper>>

-----------------------------------------------------------------------------
(* The main loop: the motion part of one tick of _loop.                    *)

LoopGoto(step) == loop' = step

TickStarts ==
    /\ loop = "tick"
    /\ trip' = tripped
    /\ LoopGoto("trip")
    /\ UNCHANGED <<motion, cycle, robot, guardVars, grip, handled, armHold>>

\* A new trip is booked; a latch that disappeared was switched off.
TripHandled ==
    /\ loop = "trip"
    /\ IF ~trip /\ handled
         THEN handled' = FALSE /\ PilotRelease /\ LoopGoto("unfreeze")
         ELSE handled' = (handled \/ trip) /\ LoopGoto("button") /\ UNCHANGED grip
    /\ UNCHANGED <<motion, cycle, robot, guardVars, trip, armHold>>

ResumeUnlessArmHold ==
    IF armHold = NoHold THEN Resume ELSE UNCHANGED <<phase, reseed, caught, age>>

SwitchedOff ==
    /\ loop = "unfreeze"
    /\ ResumeUnlessArmHold
    /\ LoopGoto("button")
    /\ UNCHANGED <<ctlLost, streamer, seen, robot, guardVars, grip, trip, handled, armHold>>

\* The Resume button counts only while the loop has seen the latch: motion
\* is re-armed first, the latch is cleared last.
ResumeButton ==
    /\ loop = "button"
    /\ \/ LoopGoto("guard") /\ UNCHANGED grip
       \/ trip /\ PilotRelease /\ LoopGoto("rearm")
    /\ UNCHANGED <<motion, cycle, robot, guardVars, trip, handled, armHold>>

RearmAfterReset ==     \* mutant: the latch is cleared before motion is re-armed
    /\ loop = "rearm"
    /\ IF handled
         THEN /\ tripped' = FALSE
              /\ handled' = FALSE
              /\ UNCHANGED <<loop, phase, reseed, caught, age>>
         ELSE ResumeUnlessArmHold /\ LoopGoto("guard") /\ UNCHANGED <<tripped, handled>>
    /\ UNCHANGED <<ctlLost, streamer, seen, robot, enabled, safeguard, grip, trip, armHold>>

Rearm ==
    /\ loop = "rearm"
    /\ ResumeUnlessArmHold
    /\ handled' = FALSE
    /\ LoopGoto("reset")
    /\ UNCHANGED <<ctlLost, streamer, seen, robot, guardVars, grip, trip, armHold>>

Reset ==
    /\ loop = "reset"
    /\ tripped' = FALSE
    /\ LoopGoto("guard")
    /\ UNCHANGED <<motion, cycle, robot, enabled, safeguard, grip, trip, handled, armHold>>

\* ArmGuard.check(): a protective stop, or a wrench that deviates for long.
Kinds ==
    IF pstop THEN {"pstop"}
    ELSE {NoHold} \cup (IF "wrench" \in setup.arm THEN {"wrench"} ELSE {})

ArmGuardStep ==
    /\ loop = "guard"
    /\ \E kind \in IF trip THEN {NoHold} ELSE Kinds :
          IF kind # NoHold /\ armHold = NoHold
            THEN armHold' = kind /\ Hold /\ LoopGoto("reengage")
            ELSE /\ LoopGoto(IF ~trip /\ kind = NoHold /\ armHold # NoHold
                               THEN "recover" ELSE "reengage")
                 /\ UNCHANGED <<armHold, phase, age, caught>>
    /\ UNCHANGED <<ctlLost, reseed, streamer, seen, robot, guardVars, grip, trip, handled>>

\* The arm hold ends by itself once the load is gone, except in FAULT.
Recovered ==
    /\ loop = "recover"
    /\ \/ ~pstop /\ phase # "fault" /\ armHold' = NoHold /\ LoopGoto("thaw")
       \/ UNCHANGED armHold /\ LoopGoto("reengage")
    /\ UNCHANGED <<motion, cycle, robot, guardVars, grip, trip, handled>>

Thaw ==
    /\ loop = "thaw"
    /\ Resume
    /\ LoopGoto("reengage")
    /\ UNCHANGED <<ctlLost, streamer, seen, robot, guardVars, grip, trip, handled, armHold>>

\* The Re-engage button: reengage() refuses a HOLD and a robot that is not
\* ready, then rebuilds the control script under the control lock.
ReengageButton ==
    /\ loop = "reengage"
    /\ \/ LoopGoto("tick") /\ UNCHANGED scriptDead
       \/ /\ phase # "hold" /\ ~pstop
          /\ scriptDead' = TRUE
          /\ LoopGoto("rebuild")
    /\ UNCHANGED <<motion, cycle, pstop, guardVars, grip, trip, handled, armHold>>

\* Bound on time: the rebuild settles for longer than a cycle of the streamer.
RebuildSettled == age["sample"] # "old"

RebuildScript ==
    /\ loop = "rebuild"
    /\ RebuildSettled
    /\ \/ scriptDead' = FALSE /\ ~pstop /\ LoopGoto("seed")
       \/ /\ pstop \/ "rebuild_fails" \in setup.arm
          /\ LoopGoto("tick")
          /\ UNCHANGED scriptDead
    /\ UNCHANGED <<motion, cycle, pstop, guardVars, grip, trip, handled, armHold>>

SeedGlide ==
    /\ loop = "seed"
    /\ age' = [age EXCEPT !["tracker"] = "now"]
    /\ LoopGoto("commit")
    /\ UNCHANGED <<motion, streamer, seen, caught, robot, guardVars, grip, trip, handled, armHold>>

\* A trip that landed during the rebuild wins.
Commit ==
    /\ loop = "commit"
    /\ IF phase = "hold"
         THEN UNCHANGED <<motion, age, armHold>>
         ELSE /\ age' = Unheld
              /\ ctlLost' = FALSE
              /\ phase' = "engage"
              /\ reseed' = TRUE
              /\ armHold' = NoHold
    /\ LoopGoto("tick")
    /\ UNCHANGED <<streamer, seen, caught, robot, guardVars, grip, trip, handled>>

LoopThread ==
    \/ TickStarts \/ TripHandled \/ SwitchedOff \/ ResumeButton \/ Rearm \/ Reset
    \/ ArmGuardStep \/ Recovered \/ Thaw \/ ReengageButton \/ RebuildScript \/ SeedGlide \/ Commit

-----------------------------------------------------------------------------
(* The robot and the operator's hands.                                     *)

ProtectiveStop ==
    /\ "pstop" \in setup.arm
    /\ ~pstop
    /\ pstop' = TRUE
    /\ scriptDead' = TRUE
    /\ UNCHANGED <<motion, cycle, guardVars, grip, session>>

\* Bound on time: hands are slower than a cycle of the streamer, which has
\* therefore noticed the stop before anybody clears it or moves the arm.
ClearStop ==
    /\ pstop /\ ctlLost
    /\ pstop' = FALSE
    /\ UNCHANGED <<scriptDead, motion, cycle, guardVars, grip, session>>

\* The arm is moved on the pendant: every pose kept so far is out of date.
Jog ==
    /\ scriptDead /\ ctlLost
    /\ loop \notin {"rebuild", "seed", "commit"}
    /\ age' = [p \in Poses |-> IF age[p] = "none" THEN "none" ELSE "old"]
    /\ UNCHANGED <<motion, streamer, seen, caught, robot, guardVars, grip, session>>

Next ==
    /\ \/ StreamerThread \/ SafeguardThread \/ PilotThread \/ LoopThread
       \/ Configure \/ ProtectiveStop \/ ClearStop \/ Jog
    /\ UNCHANGED setup

Spec == Init /\ [][Next]_vars

-----------------------------------------------------------------------------
(* Properties.                                                             *)

\* The types of the session's motion state.
TypeOK ==
    /\ setup \in Setups
    /\ phase \in Phases
    /\ seen \in [pstop : BOOLEAN, phase : Phases, reseed : BOOLEAN]
    /\ age \in [Poses -> Ages]
    /\ streamer \in StreamerSteps
    /\ safeguard \in SafeguardSteps
    /\ pilot \in PilotSteps
    /\ loop \in LoopSteps
    /\ {ctlLost, reseed, pstop, scriptDead, enabled, tripped, suspended, openPending,
        trip, handled} \subseteq BOOLEAN
    /\ gripper \in {"open", "leader"}
    /\ armHold \in {NoHold, "pstop", "wrench"}
    /\ caught \in BOOLEAN

\* A trip is in force: latched, its callback has run, and the operator's
\* Resume is not in the middle of re-arming motion.
TripInForce == tripped /\ safeguard = "idle" /\ loop \notin {"rearm", "reset"}

\* A safeguard that nobody switches off, and, in an undisturbed session, an arm
\* that gives no trouble of its own.
StaysOn     == ~setup.toggles
Undisturbed == setup.arm = {} /\ StaysOn

\* In an undisturbed session a trip in force means the streamer is frozen,
\* however the trip interleaves with Resume, Re-engage and the cycle of the
\* streamer.
LatchedMeansHeld == Undisturbed /\ TripInForce => phase = "hold"

\* Whatever becomes of the arm, a trip in force takes the gripper from the leader
\* and opens it: it is open, or the pilot opens it before it looks at the leader
\* again.
LatchedGripperOpens ==
    StaysOn /\ TripInForce /\ setup.release =>
        suspended /\ \/ openPending \/ pilot = "open"
                     \/ gripper = "open" /\ pilot # "pull"

\* After hold() nothing follows the leader but a command that had passed its
\* last check: a hold at any earlier point of the cycle suppresses it, and the
\* cycle after it is frozen.
OneLateServo == streamer = "send" /\ phase = "hold" => caught

\* A glide never starts from a pose of before the arm was moved by hand.
GlideIsFresh == streamer \in {"check", "send"} /\ seen.phase = "engage" => age["q_cmd"] # "old"

\* Why a glide is fresh: between a stop and the commit of a re-engagement the
\* streamer is parked, and whoever starts a glide asks for a reseed.
Gliding(steps) == streamer \in steps /\ seen.phase = "engage"
Fresh(p) == age[p] # "old"
Parked       == ctlLost => streamer \in {"sample", "judge", "park"}
SampleFresh  == Fresh("sample") \/ (ctlLost /\ loop \notin {"seed", "commit"})
GlideSeeded  ==
    /\ phase = "engage" /\ ~reseed /\ ~ctlLost =>
           Fresh("tracker") \/ (Gliding({"follow"}) /\ seen.reseed)
    /\ Gliding({"follow"}) => seen.reseed \/ Fresh("tracker")
    /\ Gliding({"command"}) \/ streamer = "reread" => Fresh("tracker")
    /\ streamer \in {"follow", "command"} /\ seen.phase # "engage" /\ phase = "engage" => reseed
TrackFresh   ==
    /\ phase = "track" /\ ~ctlLost =>
           Fresh("track") /\ (Fresh("last") \/ streamer = "check")
    /\ streamer \in {"follow", "command", "reread"} /\ seen.phase = "track" => Fresh("track")
    /\ streamer \in {"follow", "reread"} /\ seen.phase = "track" => Fresh("last")
    /\ streamer = "check" /\ phase = "track" => Fresh("q_cmd")
    /\ streamer \in {"follow", "command"} /\ seen.phase \in {"hold", "fault"} => phase # "track"
GlideInv == Parked /\ SampleFresh /\ GlideSeeded /\ TrackFresh

\* A trip has landed when its callback has frozen the streamer.
TripLanded == tripped /\ safeguard \in {"idle", "open"} /\ loop \notin {"rearm", "reset"}
Moving     == phase \in {"engage", "track"}

\* In every session, whatever goes wrong with the arm, a trip that lands freezes
\* the arm, and under it the arm starts to move in three ways only: Re-engage
\* commits from FAULT, the arm guard ends its own hold, or the loop finds that an
\* older trip was switched off.
MovesUnderTrip ==
    [][TripLanded' /\ Moving' =>
          \/ TripLanded /\ Moving
          \/ Commit \/ Thaw
          \/ setup.toggles /\ SwitchedOff]_vars

\* Why a trip in force holds: while the safeguard stays on, the loop books no
\* trip that is not latched; in an undisturbed session control is never lost
\* and the loop has no reason of its own to resume.
LoopSeesLatch ==
    /\ handled => tripped
    /\ loop = "trip" => (handled => trip) /\ (trip => tripped)
    /\ loop = "reset" => ~handled
    /\ loop # "unfreeze"
ScanUnlatched == safeguard = "scan" => ~tripped
NeverLost ==
    /\ ~pstop /\ ~ctlLost /\ ~seen.pstop /\ armHold = NoHold
    /\ phase # "fault" /\ streamer # "park"
    /\ scriptDead => loop = "rebuild"
    /\ loop \notin {"recover", "thaw"}
TripHeld == TripLanded => phase = "hold"
TripInv  ==
    /\ ScanUnlatched
    /\ StaysOn => LoopSeesLatch
    /\ Undisturbed => NeverLost /\ TripHeld
CollectInv == GlideInv /\ TripInv

\* docs/data_collect_app.md: after a trip "nothing auto-resumes".
NothingAutoResumes == TripInForce => phase \notin {"engage", "track"}
=============================================================================
