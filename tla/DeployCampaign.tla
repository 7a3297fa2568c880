--------------------------- MODULE DeployCampaign ---------------------------
(***************************************************************************)
(* A campaign of policy episodes: the loop of scripts/run_deploy.py and    *)
(* DeploymentRuntime.run_episode (phantom/deploy/runtime.py), from the     *)
(* queue of episode indices over the recovery of control, the homing and   *)
(* the start gate to the take on the disk and its verdict.  What happens   *)
(* within an episode is in ChunkExecutor; here it is a reason to stop.     *)
(*                                                                         *)
(* The control script of the arm and the worker processes can die, a write *)
(* can fail, and the process can be killed or interrupted at any time.     *)
(***************************************************************************)
EXTENDS Naturals, Integers, Sequences, FiniteSets

CONSTANTS NumEpisodes,  \* --episodes
          MaxTakes      \* bound on the takes a campaign makes

ASSUME CampaignAssumption ==
    /\ NumEpisodes \in Nat
    /\ MaxTakes \in Nat

Indices == 1 .. NumEpisodes
Takes   == 1 .. MaxTakes   \* a take is named by the time and a counter: in order
NoTake  == 0
LastAttempt == 3   \* the last index of AUTO_HOME_JITTER: the mean itself
Prompts  == {"mandatory", "optional", "none"}
\* "dead": one of _CONTROL_DEAD_REASONS; "raised": an exception or Ctrl-C is
\* on its way out of run_episode
Reasons  == {"fine", "dead", "worker_died", "raised"}
Statuses == {"none", "recording", "unjudged", "unlabeled", "success", "failure", "aborted", "gone"}
Approach == {"home", "gate", "regain", "fix", "confirm", "check", "begin"}
Ending   == {"save", "provision", "report", "label"}
Steps    == {"next", "recover", "run", "over"} \cup Approach \cup Ending
Codes    == {"none", "done", "no_control", "fatal", "raised", "killed"}

VARIABLES
    pending,   \* pending: the indices still to run
    idx,       \* i, 0 when there is none
    pc,        \* where main is
    code,      \* how the process ended: exit code 0, 4, 5, an exception, a kill
    prompt,    \* --label-prompt and PHANTOM_ALLOW_SKIP_VERDICT
    recovered, \* recovered_from is not None
    attempt,   \* home_attempt
    reason,    \* prev_reason; the stopped_reason of the last episode
    fatal,     \* res.fatal_reason is not None
    take,      \* the episode in the recorder, or whose verdict is due
    disk,      \* disk[e]: status and success in the meta.json of e
    of,        \* of[e]: the index e was recorded for
    alive,     \* every worker is alive
    script,    \* the control script is playing
    suspect,   \* history: an episode ended with the script in doubt, not rebuilt since
    late,      \* history: takes that were begun when a worker was dead already
    harmed     \* history: takes a write of which failed, or in hand at a kill

queue   == <<pending, idx>>
exit    == <<pc, code>>
homing  == <<recovered, attempt>>
outcome == <<reason, fatal>>
files   == <<take, disk, of>>
rig     == <<alive, script>>
history == <<suspect, late, harmed>>
vars    == <<queue, exit, prompt, homing, outcome, files, rig, history>>

Init ==
    /\ pending = [k \in Indices |-> k]
    /\ idx = 0
    /\ pc = "next"
    /\ code = "none"
    /\ prompt \in Prompts
    /\ recovered = FALSE
    /\ attempt = 0
    /\ reason = "fine"
    /\ fatal = FALSE
    /\ take = NoTake
    /\ disk = [e \in Takes |-> "none"]
    /\ of = [e \in Takes |-> 0]
    /\ alive = TRUE
    /\ script = TRUE
    /\ suspect = FALSE
    /\ late = 0
    /\ harmed = {}

Goto(step) == pc' = step /\ UNCHANGED code
Exit(how)  == pc' = "over" /\ code' = how
Harm == harmed' = harmed \cup ({take} \ {NoTake})

-----------------------------------------------------------------------------
(* Before an episode.                                                      *)

RedoSkipsRecovery ==   \* mutant: a redo, like a first episode, needs no recovery
    /\ pc = "next"
    /\ pending # <<>>
    /\ idx' = Head(pending)
    /\ pending' = Tail(pending)
    /\ attempt' = 0
    /\ recovered' = FALSE
    /\ Goto(IF reason = "dead" /\ Head(pending) # idx THEN "recover" ELSE "home")
    /\ UNCHANGED <<prompt, outcome, files, rig, history>>

\* The next index; control is restored first if the last episode ended with a
\* reason that leaves it in doubt.
PopIndex ==
    /\ pc = "next"
    /\ pending # <<>>
    /\ idx' = Head(pending)
    /\ pending' = Tail(pending)
    /\ attempt' = 0
    /\ recovered' = FALSE
    /\ Goto(IF reason # "fine" THEN "recover" ELSE "home")
    /\ UNCHANGED <<prompt, outcome, files, rig, history>>

Finish ==
    /\ pc = "next"
    /\ pending = <<>>
    /\ Exit("done")
    /\ UNCHANGED <<queue, prompt, homing, outcome, files, rig, history>>

\* recover_control: it waits for the pendant, rebuilds the control session and
\* sees the new script play, or gives up after its tries.
Rebuilt ==
    /\ script' = TRUE
    /\ suspect' = FALSE
    /\ UNCHANGED <<alive, late, harmed>>

Recover ==
    /\ pc = "recover"
    /\ Rebuilt
    /\ recovered' = TRUE
    /\ reason' = "fine"
    /\ Goto("home")
    /\ UNCHANGED <<queue, prompt, attempt, fatal, files>>

RecoveryFails ==
    /\ pc = "recover"
    /\ Exit("no_control")
    /\ UNCHANGED <<queue, prompt, homing, outcome, files, rig, history>>

\* move_to_start needs a script that plays, and may be rejected with one.
Home ==
    /\ pc = "home"
    /\ script
    /\ recovered' = FALSE
    /\ Goto("gate")
    /\ UNCHANGED <<queue, prompt, attempt, outcome, files, rig, history>>

\* Right after a rebuild that ends the campaign; else the operator may jog.
HomeFails ==
    /\ pc = "home"
    /\ IF recovered THEN Exit("no_control") ELSE Goto("gate")
    /\ UNCHANGED <<queue, prompt, homing, outcome, files, rig, history>>

\* _gate: the pose, which the operator may have jogged, and the gripper.
GatePasses ==
    /\ pc = "gate"
    /\ Goto("confirm")
    /\ UNCHANGED <<queue, prompt, homing, outcome, files, rig, history>>

\* The gate does not pass.  Each automatic homing is an attempt with less
\* jitter.  A rejection because the script is dead leads to a rebuild, any
\* other to the operator.
AutoHome ==
    /\ pc = "gate"
    /\ attempt < LastAttempt
    /\ attempt' = attempt + 1
    /\ \/ script /\ Goto("gate")
       \/ ~script /\ Goto("regain")
       \/ Goto("fix")
    /\ UNCHANGED <<queue, prompt, recovered, outcome, files, rig, history>>

Regain ==
    /\ pc = "regain"
    /\ \/ Rebuilt /\ attempt' = -1 /\ Goto("gate")
       \/ Goto("fix") /\ UNCHANGED <<attempt, rig, history>>
    /\ UNCHANGED <<queue, prompt, recovered, outcome, files>>

NoAttemptLeft ==
    /\ pc = "gate"
    /\ attempt >= LastAttempt
    /\ Goto("fix")
    /\ UNCHANGED <<queue, prompt, homing, outcome, files, rig, history>>

\* The operator fixes the start by hand, and a dead script is rebuilt.
FixByHand ==
    /\ pc = "fix"
    /\ \/ UNCHANGED <<attempt, rig, history>>
       \/ ~script /\ Rebuilt /\ attempt' = -1
    /\ Goto("gate")
    /\ UNCHANGED <<queue, prompt, recovered, outcome, files>>

\* The arm was bumped or jogged while the operator set the scene: the second
\* gate homes too, but its rejections rebuild nothing.
HomeAgain ==
    /\ pc = "confirm"
    /\ attempt' = IF attempt < LastAttempt THEN attempt + 1 ELSE LastAttempt
    /\ UNCHANGED <<queue, exit, prompt, recovered, outcome, files, rig, history>>

\* From here on homing has no say; its locals are forgotten.
Confirm ==
    /\ pc = "confirm"
    /\ attempt' = 0
    /\ Goto("check")
    /\ UNCHANGED <<queue, prompt, recovered, outcome, files, rig, history>>

-----------------------------------------------------------------------------
(* run_episode.                                                            *)

NoWorkerCheck ==       \* mutant: the workers are not looked at
    /\ pc = "check"
    /\ Goto("begin")
    /\ UNCHANGED <<queue, prompt, homing, outcome, files, rig, history>>

WorkersAlive ==
    /\ pc = "check"
    /\ alive
    /\ Goto("begin")
    /\ UNCHANGED <<queue, prompt, homing, outcome, files, rig, history>>

AwaitWorkers ==        \* mutant: wait for the worker instead
    /\ pc = "check"
    /\ ~alive
    /\ UNCHANGED vars

\* With a dead worker nothing is recorded, and the process ends.
WorkersDead ==
    /\ pc = "check"
    /\ ~alive
    /\ reason' = "worker_died"
    /\ fatal' = TRUE
    /\ Exit("fatal")
    /\ UNCHANGED <<queue, prompt, homing, files, rig, history>>

BeginSameName ==       \* mutant: named by the second only, as the take before
    /\ pc = "begin"
    /\ \E e \in Takes :
          /\ disk[e] \in {"none", "unlabeled"}
          /\ \A d \in 1 .. e - 1 : disk[d] # "none"
          /\ disk' = [disk EXCEPT ![e] = "recording"]
          /\ of' = [of EXCEPT ![e] = idx]
          /\ take' = e
    /\ late' = IF alive THEN late ELSE late + 1
    /\ Goto("run")
    /\ UNCHANGED <<queue, prompt, homing, outcome, rig, suspect, harmed>>

\* recorder.start, and with it the executor.
Begin ==
    /\ pc = "begin"
    /\ \E e \in Takes :
          /\ disk[e] = "none"
          /\ \A d \in 1 .. e - 1 : disk[d] # "none"
          /\ disk' = [disk EXCEPT ![e] = "recording"]
          /\ of' = [of EXCEPT ![e] = idx]
          /\ take' = e
    /\ late' = IF alive THEN late ELSE late + 1
    /\ Goto("run")
    /\ UNCHANGED <<queue, prompt, homing, outcome, rig, suspect, harmed>>

BeginFails ==
    /\ pc = "begin"
    /\ Exit("raised")
    /\ UNCHANGED <<queue, prompt, homing, outcome, files, rig, history>>

\* The executor cannot be started: nothing is there yet to end the take.
ExecutorFails ==
    /\ pc = "run"
    /\ Harm
    /\ take' = NoTake
    /\ Exit("raised")
    /\ UNCHANGED <<queue, prompt, homing, outcome, disk, of, rig, suspect, late>>

\* The episode ends.  A dead worker is the reason only if no other stop came
\* first; a join that times out is fatal whatever the reason; and an exception
\* or Ctrl-C goes on after the take is put away.
EpisodeOver ==
    /\ pc = "run"
    /\ \E r \in Reasons, f \in BOOLEAN :
          /\ r = "worker_died" => ~alive /\ f
          /\ reason' = r
          /\ fatal' = f
          /\ suspect' = (suspect \/ r # "fine")
    /\ Goto("save")
    /\ UNCHANGED <<queue, prompt, homing, files, rig, late, harmed>>

\* recorder.stop(success=None)
Save ==
    /\ pc = "save"
    /\ disk' = [disk EXCEPT ![take] = "unjudged"]
    /\ Goto("provision")
    /\ UNCHANGED <<queue, prompt, homing, outcome, take, of, rig, history>>

SaveFails ==
    /\ pc = "save"
    /\ Harm
    /\ take' = NoTake
    /\ Exit("raised")
    /\ UNCHANGED <<queue, prompt, homing, outcome, disk, of, rig, suspect, late>>

ProvisionLater ==      \* mutant: an exception passes the provisional verdict by
    /\ pc = "provision"
    /\ IF reason = "raised"
       THEN Exit("raised") /\ take' = NoTake /\ UNCHANGED <<disk, harmed>>
       ELSE /\ disk' = [disk EXCEPT ![take] = "unlabeled"]
            /\ Goto("report")
            /\ UNCHANGED <<take, harmed>>
    /\ UNCHANGED <<queue, prompt, homing, outcome, of, rig, suspect, late>>

\* The provisional verdict: aborted and unlabeled, so that nothing trains on a
\* take nobody has accepted.  A failure is logged.
Provision ==
    /\ pc = "provision"
    /\ \/ disk' = [disk EXCEPT ![take] = "unlabeled"] /\ UNCHANGED harmed
       \/ Harm /\ UNCHANGED disk
    /\ IF reason = "raised" THEN Exit("raised") /\ take' = NoTake ELSE Goto("report") /\ UNCHANGED take
    /\ UNCHANGED <<queue, prompt, homing, outcome, of, rig, suspect, late>>

-----------------------------------------------------------------------------
(* After an episode.                                                       *)

\* A fatal reason ends the process, after the verdict.
Onward == IF fatal THEN Exit("fatal") ELSE Goto("next")

\* persist_stop adds tags.  Without a prompt the provisional verdict stays.
Report ==
    /\ pc = "report"
    /\ IF prompt # "none" THEN Goto("label") /\ UNCHANGED take ELSE Onward /\ take' = NoTake
    /\ UNCHANGED <<queue, prompt, homing, outcome, disk, of, rig, history>>

\* label_episode: a success (that may have crushed the object) or a failure.
Promote ==
    /\ pc = "label"
    /\ \E v \in {"success", "failure"} : disk' = [disk EXCEPT ![take] = v]
    /\ take' = NoTake
    /\ Onward
    /\ UNCHANGED <<queue, prompt, homing, outcome, of, rig, history>>

SkipVerdict ==
    /\ pc = "label"
    /\ prompt = "optional"
    /\ take' = NoTake
    /\ Onward
    /\ UNCHANGED <<queue, prompt, homing, outcome, disk, of, rig, history>>

\* Bound: a redo needs one more name.
Unused == {e \in Takes : disk[e] = "none"}
Spare  == Cardinality(Unused) > Len(pending)

RedoLost ==            \* mutant: the index of a redo is not put back
    /\ pc = "label"
    /\ Spare
    /\ \E v \in {"gone", "aborted"} : disk' = [disk EXCEPT ![take] = v]
    /\ take' = NoTake
    /\ Onward
    /\ UNCHANGED <<queue, prompt, homing, outcome, of, rig, history>>

\* Redo: the take is deleted, or marked when it cannot be, and its index runs
\* next, unless the process has to end.
Redo ==
    /\ pc = "label"
    /\ Spare
    /\ \E v \in {"gone", "aborted"} : disk' = [disk EXCEPT ![take] = v]
    /\ take' = NoTake
    /\ pending' = IF fatal THEN pending ELSE <<idx>> \o pending
    /\ Onward
    /\ UNCHANGED <<idx, prompt, homing, outcome, of, rig, history>>

\* The verdict cannot be written: the exception ends the process.
LabelFails ==
    /\ pc = "label"
    /\ Harm
    /\ take' = NoTake
    /\ Exit("raised")
    /\ UNCHANGED <<queue, prompt, homing, outcome, disk, of, rig, suspect, late>>

\* Ctrl-C at a prompt.
Interrupt ==
    /\ pc \in {"recover", "home", "regain", "fix", "confirm", "label"}
    /\ take' = NoTake
    /\ Exit("raised")
    /\ UNCHANGED <<queue, prompt, homing, outcome, disk, of, rig, history>>

-----------------------------------------------------------------------------
(* The rig and the process.                                                *)

ScriptDies ==
    /\ pc # "over"
    /\ script
    /\ script' = FALSE
    /\ UNCHANGED <<queue, exit, prompt, homing, outcome, files, alive, history>>

WorkerDies ==
    /\ pc # "over"
    /\ alive
    /\ alive' = FALSE
    /\ UNCHANGED <<queue, exit, prompt, homing, outcome, files, script, history>>

Killed ==
    /\ pc # "over"
    /\ Harm
    /\ take' = NoTake
    /\ Exit("killed")
    /\ UNCHANGED <<queue, prompt, homing, outcome, disk, of, rig, suspect, late>>

Main ==
    \/ PopIndex \/ Finish \/ Recover \/ RecoveryFails \/ Home \/ HomeFails
    \/ GatePasses \/ AutoHome \/ Regain \/ NoAttemptLeft \/ FixByHand
    \/ HomeAgain \/ Confirm
    \/ WorkersAlive \/ WorkersDead \/ Begin \/ BeginFails \/ ExecutorFails
    \/ EpisodeOver \/ Save \/ SaveFails \/ Provision
    \/ Report \/ Promote \/ SkipVerdict \/ Redo \/ LabelFails

Next == Main \/ Interrupt \/ ScriptDies \/ WorkerDies \/ Killed

Spec == Init /\ [][Next]_vars

\* The main thread runs, and the operator answers its prompts.
FairSpec == Spec /\ WF_vars(Main)

-----------------------------------------------------------------------------
(* Properties.                                                             *)

TypeOK ==
    /\ pending \in Seq(Indices) /\ idx \in Indices \cup {0}
    /\ pc \notin {"next", "over"} => idx # 0
    /\ pc \in Steps /\ code \in Codes
    /\ prompt \in Prompts
    /\ recovered \in BOOLEAN /\ attempt \in -1 .. LastAttempt
    /\ reason \in Reasons /\ fatal \in BOOLEAN
    /\ take \in Takes \cup {NoTake}
    /\ disk \in [Takes -> Statuses] /\ of \in [Takes -> Indices \cup {0}]
    /\ alive \in BOOLEAN /\ script \in BOOLEAN
    /\ suspect \in BOOLEAN /\ late \in Nat /\ harmed \subseteq Takes

\* "A process that dies before the prompt would train on-air closes": outside
\* of the two writes that end an episode, a take that is still "recording", or
\* finalized without a verdict, is one a write of which failed, or that was in
\* hand when the process was killed.
Settled ==
    \A e \in Takes : disk[e] \in {"recording", "unjudged"} =>
        e \in harmed \/ (e = take /\ pc \in {"run", "save", "provision"})

\* Each index is represented by one take: never by two, whatever was done over
\* again, and by none only while it is still to come.  A campaign that ends
\* well has one of each.
Kept(e) == disk[e] \notin {"none", "gone", "aborted"}
ToCome  == {pending[k] : k \in DOMAIN pending}
OneTakePerIndex ==
    /\ \A e, d \in Takes : Kept(e) /\ Kept(d) /\ of[e] = of[d] => e = d
    /\ code = "done" => \A i \in Indices : \E e \in Takes : Kept(e) /\ of[e] = i

\* A dead worker spoils one take at most, whether the safety stop that beat it
\* to the reason hides it or not: one that began between the look at the
\* workers and the death.
OneLateTake == late <= 1

\* After an episode that leaves control in doubt nothing moves the arm, nor is
\* an episode begun, before the control script was rebuilt and seen to play.
RebuiltFirst == suspect => pc \notin Approach \cup {"run"}

\* The desk of EpisodeFiling: a take is in hand until its verdict, and until
\* then the provisional one is none.  So each take is filed once, and what was
\* filed stays.
Provisional == [e \in Takes |->
    IF e = take /\ disk[e] = "unlabeled" THEN "unjudged" ELSE disk[e]]
Filing == INSTANCE EpisodeFiling WITH
              Episodes <- Takes, NoEpisode <- NoTake, file <- Provisional, desk <- take
ImplementsFiling == Filing!Spec

\* Why the campaign is correct: what the take in hand is, stage by stage, where
\* each index is, and what a doubt about the control script leaves behind.
HandOnDisk ==
    /\ take # NoTake <=> pc \in Ending \cup {"run"}
    /\ take # NoTake => of[take] = idx /\ idx # 0
    /\ pc \in {"run", "save"} => disk[take] = "recording"
    /\ pc = "provision" => disk[take] = "unjudged"
    /\ pc \in {"report", "label"} => disk[take] \in {"unlabeled", "unjudged"}
IndexPlaced ==
    /\ \A j, k \in DOMAIN pending : pending[j] = pending[k] => j = k
    /\ pc \notin {"next", "over"} => idx \notin ToCome
    /\ pc \notin {"next", "over"} \cup Ending \cup {"run"} =>
           \A e \in Takes : Kept(e) => of[e] # idx
    /\ \A e \in Takes : Kept(e) => of[e] \notin ToCome
    /\ pc # "over" => \A i \in Indices :
           i \in ToCome \/ (i = idx /\ pc # "next") \/ \E e \in Takes : Kept(e) /\ of[e] = i
    /\ code = "done" => pc = "over"
LateIsLast  == late # 0 => ~alive /\ pc # "begin"
DoubtIsTold == suspect => reason # "fine"
CampaignInv ==
    /\ Settled /\ OneTakePerIndex /\ OneLateTake /\ RebuiltFirst
    /\ HandOnDisk /\ IndexPlaced /\ LateIsLast /\ DoubtIsTold

\* The campaign ends, or stays before a start gate that the arm does not pass.
CampaignEnds == <>(pc = "over") \/ []<>(pc \in {"gate", "fix", "confirm"})
=============================================================================
