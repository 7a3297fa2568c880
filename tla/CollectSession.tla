--------------------------- MODULE CollectSession ---------------------------
(***************************************************************************)
(* The collect app: the panel that takes requests on HTTP threads          *)
(* (phantom/data_collect/panel.py, playback.py), the session thread with   *)
(* its 10 Hz loop and its teardown (session.py), and what both leave on    *)
(* the disk through the recorder.  Here are the life of an episode and the *)
(* exclusions between session, offload and playback; motion is in          *)
(* CollectSafety, the rows of an episode in Recorder, the files of a move  *)
(* in Offload.                                                             *)
(*                                                                         *)
(* Writes of meta.json, the final flush and the removal of a directory can *)
(* fail, and the process can be killed between any two steps.              *)
(***************************************************************************)
EXTENDS Naturals, FiniteSets

CONSTANTS Episodes,     \* the names episodes will get; none is used twice
          NoEpisode,
          MaxSessions,  \* bound: sessions that are begun
          MaxQueued,    \* bound: commands waiting in the panel's queue
          Targets       \* the target_episodes sessions are given, 0 for none

ASSUME SessionAssumption ==
    /\ NoEpisode \notin Episodes
    /\ MaxSessions \in Nat
    /\ MaxQueued \in Nat
    /\ Targets \subseteq Nat

Verdicts == {"success", "fail", "abort"}
Buttons  == Verdicts \cup {"start_stop", "quit"}
Requests == {"session", "offload", "playback"}
Judged   == {"success", "failure", "gone"}
Filed    == Judged \cup {"aborted", "unlabeled"}
Statuses == Filed \cup {"none", "recording", "unjudged"}
Stages   == {"poll", "died", "quit", "trip", "arm", "episode", "workers"}
Steps    == Stages \cup {"none", "bringup", "teardown", "offload"}

VARIABLES
    gate,        \* requests that hold the start lock and have been let through
    playing,     \* playback or verification is in flight
    offloading,  \* the offload thread of the panel runs
    sess,        \* sessions begun: the current one, and its staging directory
    lastStaging, \* last_staging_dir, 0 for None
    queue,       \* commands pushed and not yet popped
    pc,          \* where the session thread is; "none" when there is none
    popped,      \* buttons: what this tick has popped
    open,        \* the episode of the recorder's writer (recording)
    pending,     \* pending_path
    quitArmed,   \* quit_armed
    trip,        \* what this tick has read of the safeguard's latch
    tripHandled, \* trip_handled
    hold,        \* arm_hold
    count,       \* ep_count
    target,      \* s.target_episodes
    disk,        \* disk[e]: status and success in the meta.json of e
    home,        \* home[e]: the session whose staging directory e is in
    moved,       \* the episodes that are on the drive
    harmed,      \* history: episodes a write of which failed, or in hand at a kill
    warned       \* history: episodes for which a quit has been refused

gates   == <<gate, playing, offloading>>
staging == <<sess, lastStaging, target>>
desk    == <<open, pending, quitArmed, count>>
guards  == <<trip, tripHandled, hold>>
files   == <<disk, home, moved>>
history == <<harmed, warned>>
loop    == <<popped, desk, guards, files, history>>
vars    == <<gates, staging, queue, pc, loop>>

Init ==
    /\ gate = {}
    /\ playing = FALSE
    /\ offloading = FALSE
    /\ sess = 0
    /\ lastStaging = 0
    /\ queue = {}
    /\ pc = "none"
    /\ popped = {}
    /\ open = NoEpisode
    /\ pending = NoEpisode
    /\ quitArmed = FALSE
    /\ trip = FALSE
    /\ tripHandled = FALSE
    /\ hold = FALSE
    /\ count = 0
    /\ target = 0
    /\ disk = [e \in Episodes |-> "none"]
    /\ home = [e \in Episodes |-> 0]
    /\ moved = {}
    /\ harmed = {}
    /\ warned = {}

Goto(step) == pc' = step
Staged(n)  == {e \in Episodes \ moved : home[e] = n /\ disk[e] \notin {"none", "gone"}}

-----------------------------------------------------------------------------
(* The panel: each request is handled by an HTTP thread of its own.        *)

\* runner.busy() and playback.blocking().
Free == pc = "none" /\ ~offloading /\ ~playing

CheckUnlocked(r) ==    \* mutant: the start checks do not share a lock
    /\ r \notin gate
    /\ Free
    /\ gate' = gate \cup {r}
    /\ UNCHANGED <<playing, offloading, staging, queue, pc, loop>>

\* A request takes the lock and is let through; a refusal changes nothing.
Check(r) ==
    /\ gate = {}
    /\ Free
    /\ gate' = {r}
    /\ UNCHANGED <<playing, offloading, staging, queue, pc, loop>>

\* start_session: what is still queued goes, and the session thread begins,
\* with a staging directory of its own.
BeginSession ==
    /\ "session" \in gate
    /\ gate' = gate \ {"session"}
    /\ sess < MaxSessions
    /\ sess' = sess + 1
    /\ lastStaging' = sess + 1
    /\ target' \in Targets
    /\ queue' = {}
    /\ Goto("bringup")
    /\ UNCHANGED <<playing, offloading, loop>>

BeginOffload ==
    /\ "offload" \in gate
    /\ gate' = gate \ {"offload"}
    /\ offloading' = TRUE
    /\ UNCHANGED <<playing, staging, queue, pc, loop>>

BeginPlayback ==
    /\ "playback" \in gate
    /\ gate' = gate \ {"playback"}
    /\ playing' = TRUE
    /\ UNCHANGED <<offloading, staging, queue, pc, loop>>

EndPlayback ==
    /\ playing
    /\ playing' = FALSE
    /\ UNCHANGED <<gate, offloading, staging, queue, pc, loop>>

\* offload_session moves the episodes of a directory one after the other, and
\* may end before the last.
Offloaded(n) ==
    /\ \E some \in SUBSET Staged(n) : moved' = moved \cup some
    /\ UNCHANGED <<disk, home, history>>

\* "Offload now": offload() without a directory takes last_staging_dir.
OffloadNow ==
    /\ offloading
    /\ offloading' = FALSE
    /\ Offloaded(lastStaging)
    /\ UNCHANGED <<gate, playing, staging, queue, pc, popped, desk, guards>>

\* push_button drops a command when no session thread is alive.  One that is
\* pushed during a tick is popped by the next, as if it came at its Poll.
Press(b) ==
    /\ pc \in {"bringup", "poll", "offload"}
    /\ Cardinality(queue \cup {b}) <= MaxQueued
    /\ queue' = queue \cup {b}
    /\ UNCHANGED <<gates, staging, pc, loop>>

-----------------------------------------------------------------------------
(* The recorder, as the session thread sees it.                            *)

\* stop() ends the take in the writer and its meta.json says status.
CloseTake(status) ==
    /\ open # NoEpisode
    /\ disk' = [disk EXCEPT ![open] = status]
    /\ open' = NoEpisode
    /\ UNCHANGED <<home, moved, history>>

\* It raises: in the final flush, which keeps the writer, or in the write of
\* meta.json, after the writer was let go.
CloseFails ==
    /\ open # NoEpisode
    /\ open' \in {open, NoEpisode}
    /\ harmed' = harmed \cup {open}
    /\ UNCHANGED <<files, warned>>

\* It aborts the take and cannot remove its directory.
RemovalFails ==
    /\ open # NoEpisode
    /\ disk' = [disk EXCEPT ![open] = "aborted"]
    /\ open' = NoEpisode
    /\ harmed' = harmed \cup {open}
    /\ UNCHANGED <<home, moved, warned>>

\* relabel() rewrites the meta.json of the pending episode, or fails to.
Relabel(status) ==
    /\ disk' = [disk EXCEPT ![pending] = status]
    /\ UNCHANGED <<home, moved, history>>

RelabelFails ==
    /\ harmed' = harmed \cup {pending}
    /\ UNCHANGED <<files, warned>>

\* _file_unlabeled logs a failure and goes on.
FilePending ==
    /\ pending # NoEpisode
    /\ Relabel("unlabeled") \/ RelabelFails
    /\ pending' = NoEpisode

NothingInHand == open = NoEpisode /\ pending = NoEpisode /\ UNCHANGED <<open, pending, files, history>>

\* What the loop has in hand when it ends by itself: a take in the writer is
\* aborted, an unjudged one filed.
PutAway ==
    \/ NothingInHand
    \/ (CloseTake("aborted") \/ CloseFails) /\ UNCHANGED pending
    \/ open = NoEpisode /\ FilePending /\ UNCHANGED open

-----------------------------------------------------------------------------
(* The session thread.                                                     *)

Session == UNCHANGED <<gates, staging>>
Locals  == UNCHANGED <<guards, quitArmed, count>>
EndTick == Goto("poll") /\ popped' = {}
Leave   == Goto("teardown") /\ popped' = {}

\* The locals go with the loop.
ResetLocals ==
    /\ pending' = NoEpisode
    /\ quitArmed' = FALSE
    /\ count' = 0
    /\ trip' = FALSE
    /\ tripHandled' = FALSE
    /\ hold' = FALSE

\* The rig is brought up and the loop begins with fresh locals ...
BringUp ==
    /\ pc = "bringup"
    /\ Goto("poll")
    /\ Session /\ UNCHANGED <<queue, loop>>

\* ... or it cannot be, and there is no loop to tear down.
BringUpFails ==
    /\ pc = "bringup"
    /\ Goto("offload")
    /\ Session /\ UNCHANGED <<queue, loop>>

\* A tick pops the commands, and reads the errors of the motion threads.
Poll ==
    /\ pc = "poll"
    /\ popped' = queue
    /\ queue' = {}
    /\ Goto("died") \/ Goto("quit")
    /\ Session /\ UNCHANGED <<desk, guards, files, history>>

DiedUnfiled ==         \* mutant: a pending episode is left to the offload
    /\ pc = "died"
    /\ \/ open = NoEpisode /\ UNCHANGED <<open, pending, files, history>>
       \/ (CloseTake("aborted") \/ CloseFails) /\ UNCHANGED pending
    /\ Leave
    /\ Session /\ Locals /\ UNCHANGED queue

\* A motion thread has died since the last tick, and that comes before any
\* command.
MotionDied ==
    /\ pc = "died"
    /\ PutAway
    /\ Leave
    /\ Session /\ Locals /\ UNCHANGED queue

Judging == pending # NoEpisode /\ popped \cap Verdicts # {}

NoQuit ==
    /\ pc = "quit"
    /\ "quit" \notin popped
    /\ Goto("trip")
    /\ Session /\ UNCHANGED <<queue, loop>>

\* A verdict in the same pop comes first: the quit is queued again.
RequeueQuit ==
    /\ pc = "quit"
    /\ "quit" \in popped
    /\ Judging
    /\ queue' = queue \cup {"quit"}
    /\ popped' = popped \ {"quit"}
    /\ Goto("trip")
    /\ Session /\ UNCHANGED <<desk, guards, files, history>>

RefuseForever ==       \* mutant: quit_armed is not set
    /\ pc = "quit"
    /\ "quit" \in popped
    /\ pending # NoEpisode
    /\ ~Judging
    /\ warned' = warned \cup {pending}
    /\ EndTick
    /\ Session /\ UNCHANGED <<queue, desk, guards, files, harmed>>

\* With an unjudged episode the first quit is refused; the tick ends there.
RefuseQuit ==
    /\ pc = "quit"
    /\ "quit" \in popped
    /\ pending # NoEpisode
    /\ ~Judging
    /\ ~quitArmed
    /\ quitArmed' = TRUE
    /\ warned' = warned \cup {pending}
    /\ EndTick
    /\ Session /\ UNCHANGED <<queue, open, pending, count, guards, files, harmed>>

Quit ==
    /\ pc = "quit"
    /\ "quit" \in popped
    /\ pending # NoEpisode => ~Judging /\ quitArmed
    /\ PutAway
    /\ Leave
    /\ Session /\ Locals /\ UNCHANGED <<queue>>

\* The bookkeeping of a trip: a take that is being recorded is a failure.
\* The pads trip the latch, and the operator disables or resumes it, between
\* any two ticks, so a tick may read either.
BookTrip ==
    /\ pc = "trip"
    /\ ~tripHandled
    /\ trip' = TRUE
    /\ tripHandled' = TRUE
    /\ \/ open = NoEpisode /\ Goto("arm") /\ UNCHANGED <<popped, open, files, history>>
       \/ CloseTake("failure") /\ Goto("arm") /\ UNCHANGED popped
       \/ CloseFails /\ Leave
    /\ Session /\ UNCHANGED <<queue, pending, hold, quitArmed, count>>

NoNews ==
    /\ pc = "trip"
    /\ trip' \in {FALSE, tripHandled}
    /\ tripHandled' = trip'
    /\ Goto("arm")
    /\ Session /\ UNCHANGED <<queue, popped, desk, hold, files, history>>

\* Resume: the latch is cleared, this tick goes on as one of a trip.
ResumeTrip ==
    /\ pc = "arm"
    /\ trip
    /\ tripHandled' = FALSE
    /\ Goto("episode")
    /\ Session /\ UNCHANGED <<queue, popped, desk, trip, hold, files, history>>

ArmQuiet ==
    /\ pc = "arm"
    /\ Goto("episode")
    /\ Session /\ UNCHANGED <<queue, loop>>

\* A protective stop or a wrench overload: a take that is being recorded is
\* handed to the operator for a verdict.
ArmTrouble ==
    /\ pc = "arm"
    /\ ~trip
    /\ ~hold
    /\ hold' = TRUE
    /\ \/ open = NoEpisode /\ Goto("episode") /\ UNCHANGED <<popped, open, pending, files, history>>
       \/ CloseTake("unjudged") /\ pending' = open /\ Goto("episode") /\ UNCHANGED popped
       \/ CloseFails /\ Leave /\ UNCHANGED pending
    /\ Session /\ UNCHANGED <<queue, trip, tripHandled, quitArmed, count>>

\* The arm has recovered, or Re-engage has rebuilt its control script.
ArmClears ==
    /\ pc = "arm"
    /\ hold
    /\ hold' = FALSE
    /\ Goto("episode")
    /\ Session /\ UNCHANGED <<queue, popped, desk, trip, tripHandled, files, history>>

\* A discarded episode does not count.
Discount == IF count > 0 THEN count - 1 ELSE 0

\* Discard while recording: abort, then remove the directory; one that cannot
\* be removed stays, aborted.
DiscardOpen ==
    /\ pc = "episode"
    /\ "abort" \in popped
    /\ \/ /\ CloseTake("gone") \/ RemovalFails
          /\ count' = Discount
          /\ Goto("workers")
          /\ UNCHANGED popped
       \/ CloseFails /\ Leave /\ UNCHANGED count
    /\ Session /\ UNCHANGED <<queue, pending, quitArmed, guards>>

\* Stop: the episode is finalized without a verdict.
StopOpen ==
    /\ pc = "episode"
    /\ "start_stop" \in popped
    /\ "abort" \notin popped
    /\ \/ CloseTake("unjudged") /\ pending' = open /\ Goto("workers") /\ UNCHANGED popped
       \/ CloseFails /\ Leave /\ UNCHANGED pending
    /\ Session /\ UNCHANGED <<queue, quitArmed, count, guards>>

DiscardUncounted ==    \* mutant: a discarded episode still counts
    /\ pc = "episode"
    /\ Judging
    /\ "abort" \in popped
    /\ Relabel("gone") \/ RelabelFails
    /\ pending' = NoEpisode
    /\ quitArmed' = FALSE
    /\ Goto("workers")
    /\ Session /\ UNCHANGED <<queue, popped, open, count, guards>>

\* Discard of the pending episode: whether its directory could be removed or
\* not, it counts as discarded.
DiscardPending ==
    /\ pc = "episode"
    /\ Judging
    /\ "abort" \in popped
    /\ Relabel("gone") \/ RelabelFails
    /\ pending' = NoEpisode
    /\ quitArmed' = FALSE
    /\ count' = Discount
    /\ Goto("workers")
    /\ Session /\ UNCHANGED <<queue, popped, open, guards>>

JudgeKeepsArmed ==     \* mutant: a verdict does not clear quit_armed
    /\ pc = "episode"
    /\ Judging
    /\ "abort" \notin popped
    /\ Relabel(IF "success" \in popped THEN "success" ELSE "failure")
    /\ pending' = NoEpisode
    /\ Goto("workers")
    /\ Session /\ UNCHANGED <<queue, popped, open, quitArmed, count, guards>>

JudgeKeepsPending ==   \* mutant: a verdict does not clear pending_path
    /\ pc = "episode"
    /\ Judging
    /\ "abort" \notin popped
    /\ Relabel(IF "success" \in popped THEN "success" ELSE "failure")
    /\ Goto("workers")
    /\ Session /\ UNCHANGED <<queue, popped, desk, guards>>

\* Success or Fail; the session closes when that makes its target.
Judge ==
    /\ pc = "episode"
    /\ Judging
    /\ "abort" \notin popped
    /\ Relabel(IF "success" \in popped THEN "success" ELSE "failure")
    /\ pending' = NoEpisode
    /\ quitArmed' = FALSE
    /\ IF target > 0 /\ count >= target THEN Leave ELSE Goto("workers") /\ UNCHANGED popped
    /\ Session /\ UNCHANGED <<queue, open, count, guards>>

\* The verdict cannot be written: the exception ends the loop.
JudgeFails ==
    /\ pc = "episode"
    /\ Judging
    /\ "abort" \notin popped
    /\ RelabelFails
    /\ Leave
    /\ Session /\ UNCHANGED <<queue, desk, guards>>

Starting ==
    /\ pc = "episode"
    /\ open = NoEpisode
    /\ pending = NoEpisode
    /\ "start_stop" \in popped
    /\ ~trip
    /\ ~hold

TargetMade ==
    /\ Starting
    /\ target > 0
    /\ count >= target
    /\ EndTick
    /\ Session /\ UNCHANGED <<queue, desk, guards, files, history>>

\* recorder.start, with a name that was never used ...
Begin ==
    /\ Starting
    /\ target > 0 => count < target
    /\ \E e \in Episodes :
          /\ disk[e] = "none"
          /\ disk' = [disk EXCEPT ![e] = "recording"]
          /\ home' = [home EXCEPT ![e] = sess]
          /\ open' = e
    /\ count' = count + 1
    /\ Goto("workers")
    /\ Session /\ UNCHANGED <<queue, popped, pending, quitArmed, guards, moved, history>>

\* ... or not: a worker is dead, or the directory cannot be made.
BeginFails ==
    /\ Starting
    /\ target > 0 => count < target
    /\ Leave
    /\ Session /\ UNCHANGED <<queue, desk, guards, files, history>>

NoEpisodeCommand ==
    /\ pc = "episode"
    /\ ~(open # NoEpisode /\ popped \cap {"start_stop", "abort"} # {})
    /\ ~Judging
    /\ ~Starting
    /\ Goto("workers")
    /\ Session /\ UNCHANGED <<queue, loop>>

\* A take cut short by a dead worker is saved as a failure, and the loop ends.
WorkerDied ==
    /\ pc = "workers"
    /\ CloseTake("failure") \/ CloseFails
    /\ Leave
    /\ Session /\ Locals /\ UNCHANGED <<queue, pending>>

TickEnds ==
    /\ pc = "workers"
    /\ EndTick
    /\ Session /\ UNCHANGED <<queue, desk, guards, files, history>>

\* A take that is still in the writer is aborted, or stays as it is; with the
\* locals goes what was pending.
Teardown ==
    /\ pc = "teardown"
    /\ \/ open = NoEpisode /\ UNCHANGED <<files, history>>
       \/ CloseTake("aborted")
       \/ CloseFails
    /\ open' = NoEpisode
    /\ ResetLocals
    /\ Goto("offload")
    /\ Session /\ UNCHANGED <<queue, popped>>

OffloadFirst ==        \* mutant: the session is offloaded before its teardown
    /\ pc \in {"teardown", "offload"}
    /\ Offloaded(sess)
    /\ queue' = IF pc = "offload" THEN {} ELSE queue
    /\ IF pc = "offload" THEN Goto("none") ELSE UNCHANGED pc
    /\ Session /\ UNCHANGED <<popped, desk, guards>>

\* The automatic offload ends the session; what was queued goes.
AutoOffload ==
    /\ pc = "offload"
    /\ Offloaded(sess)
    /\ queue' = {}
    /\ Goto("none")
    /\ Session /\ UNCHANGED <<popped, desk, guards>>

-----------------------------------------------------------------------------
\* The process is killed: the directories stay, and nobody remembers them.
Killed ==
    /\ gate' = {}
    /\ playing' = FALSE
    /\ offloading' = FALSE
    /\ lastStaging' = 0
    /\ queue' = {}
    /\ popped' = {}
    /\ harmed' = harmed \cup ({open, pending} \ {NoEpisode})
    /\ open' = NoEpisode
    /\ ResetLocals
    /\ Goto("none")
    /\ UNCHANGED <<sess, target, files, warned>>

Requested ==
    \/ \E r \in Requests : Check(r)
    \/ BeginSession \/ BeginOffload \/ BeginPlayback \/ EndPlayback \/ OffloadNow
    \/ \E b \in Buttons : Press(b)

SessionThread ==
    \/ BringUp \/ BringUpFails \/ Poll \/ MotionDied
    \/ NoQuit \/ RequeueQuit \/ RefuseQuit \/ Quit
    \/ BookTrip \/ NoNews \/ ResumeTrip \/ ArmQuiet \/ ArmTrouble \/ ArmClears
    \/ DiscardOpen \/ StopOpen \/ DiscardPending \/ Judge \/ JudgeFails
    \/ TargetMade \/ Begin \/ BeginFails \/ NoEpisodeCommand
    \/ WorkerDied \/ TickEnds \/ Teardown \/ AutoOffload

Next == Requested \/ SessionThread \/ Killed

Spec == Init /\ [][Next]_vars

\* The session thread is scheduled.  Nobody has to press anything, and nothing
\* has to fail.
FairSpec == Spec /\ WF_vars(SessionThread)

-----------------------------------------------------------------------------
(* Properties.                                                             *)

\* The types of the panel, the loop and the disk.
TypeOK ==
    /\ gate \subseteq Requests
    /\ playing \in BOOLEAN /\ offloading \in BOOLEAN
    /\ sess \in Nat /\ lastStaging \in {0, sess}
    /\ queue \subseteq Buttons /\ popped \subseteq Buttons
    /\ pc \in Steps
    /\ open \in Episodes \cup {NoEpisode} /\ pending \in Episodes \cup {NoEpisode}
    /\ quitArmed \in BOOLEAN /\ count \in Nat /\ target \in Nat
    /\ trip \in BOOLEAN /\ tripHandled \in BOOLEAN /\ hold \in BOOLEAN
    /\ disk \in [Episodes -> Statuses]
    /\ home \in [Episodes -> 0 .. sess]
    /\ moved \subseteq Episodes /\ harmed \subseteq Episodes /\ warned \subseteq Episodes

\* However a session ends, each of its takes is judged, excluded or gone: one
\* that is still "recording", or finalized without a verdict and so a
\* full-weight demo to every lister, had a write of its own fail or was in
\* hand when the process was killed.
InHand  == {open, pending} \ {NoEpisode}
Settled == \A e \in Episodes : disk[e] \in {"recording", "unjudged"} => e \in InHand \cup harmed

\* One thing at a time reads or moves episodes and owns the devices: session,
\* offload or playback, whichever HTTP threads ask for them at once.
Activities == {r \in Requests : \/ r = "session" /\ pc # "none"
                                \/ r = "offload" /\ offloading
                                \/ r = "playback" /\ playing}
OneAtATime ==
    /\ gate \cap Activities = {}
    /\ \A r, q \in gate \cup Activities : r = q

\* What the panel counts towards the target is what the session has kept, as
\* long as no write has failed.
Kept == {e \in Episodes : home[e] = sess /\ disk[e] \notin {"none", "gone"}}
CountIsKept == pc \in Stages /\ harmed = {} => count = Cardinality(Kept)

\* The operator's judgment is not thrown away by the end of a session: unless
\* a motion thread died, an episode is filed as unlabeled only if an earlier
\* quit was refused for this very episode and no verdict on it came with this
\* one.
FiledBehind ==
    \E e \in Episodes :
        /\ disk[e] = "unjudged" /\ disk'[e] = "unlabeled"
        /\ e \notin warned \/ popped \cap Verdicts # {}
NeverFiledBehind == [][FiledBehind => pc = "died"]_vars

\* An offload takes an episode as it will stay: none is moved that the session
\* still writes or files.
MovedAsFiled == [][\A e \in moved : disk'[e] = disk[e]]_vars

\* The desk: one take at a time, and what is filed stays as it was filed.
Filing == INSTANCE EpisodeFiling WITH
              file <- disk, desk <- IF open # NoEpisode THEN open ELSE pending
ImplementsFiling == Filing!Spec

\* "The session must never be strandable on the rig": an operator who keeps
\* pressing End session ends it, judged or not.
QuitEnds == []<>("quit" \in queue) => []<>(pc = "none")

\* session.py: the offload on every exit path is there "so episodes are never
\* stranded in local staging by a failure"; collect.py: after a forced exit
\* "episodes in staging may need a manual 'Offload now' next start".  So when
\* nothing runs, what is in staging is what that button would move.
NeverStranded ==
    pc = "none" => \A n \in 1 .. sess : Staged(n) # {} => n = lastStaging

\* The inductive invariant: what is in hand is on the disk as the loop takes it
\* to be, in the directory of this session, and nothing is in hand outside the
\* loop and its teardown; no take is recorded whose trip would pass for one
\* that has been booked; and a quit that is armed was refused for the episode
\* that is pending, and an episode that is still pending at the teardown is one
\* whose verdict could not be written.
HandOnDisk ==
    /\ open # NoEpisode => disk[open] = "recording" /\ pending = NoEpisode
    /\ pending # NoEpisode => disk[pending] = "unjudged"
HandStaged == \A e \in InHand : home[e] = sess /\ e \notin moved
HandEmpty  == pc \notin Stages \cup {"teardown"} => InHand = {}
TripBooked ==
    /\ pc \in Stages /\ tripHandled => open = NoEpisode
    /\ pc \in {"arm", "episode"} /\ tripHandled => trip
ArmedFor ==
    /\ quitArmed /\ pc \in Stages => pending \in warned
    /\ quitArmed => pc \in Stages \cup {"teardown"}
TornDown   == pc = "teardown" => pending \in harmed \cup {NoEpisode}
MovedExist == \A e \in moved : disk[e] # "none"
SessionInv ==
    /\ Settled
    /\ OneAtATime
    /\ HandOnDisk
    /\ HandStaged
    /\ HandEmpty
    /\ TripBooked
    /\ ArmedFor
    /\ TornDown
    /\ MovedExist

\* The same for the count: a session is brought up with none of its own, and
\* with a counter of zero.
CountInv ==
    /\ IsFiniteSet(Kept)
    /\ CountIsKept
    /\ pc = "bringup" => Kept = {}
    /\ pc \notin Stages \cup {"teardown"} => count = 0
=============================================================================
