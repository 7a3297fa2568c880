# HapticWAM: TLA+ models and proofs

This directory holds a TLA+ development of the parts of `phantom` (HapticWAM)
where threads, processes, files and a physical robot share state: the
shared-memory ring and the recorder that drains it, the deployment executor and
the campaign around it, a collection session (its motion, and the life of its
episodes), the move of a recorded session to its drive, and the ownership of the
arm. The neural models, the training code and the numeric simulator are not
modelled: their difficulty is not in the order of steps.

Paths below are relative to `src/phantom/` unless they start with `docs/`.

## 1. The system and its parts

Two programs drive the rig. *Deployment* (`scripts/run_deploy.py`) runs a
campaign of policy episodes; *collection* (`data_collect/`) lets an operator
drive the arm with a leader and record demonstrations. Both start the same
sensor worker processes, which publish into shared-memory rings.

```
 sensors -> worker processes --ring--> planner, safety monitor, recorder, streamer
 policy  -> planner thread --plan--> servo thread --mailbox--> gripper worker -> socket
 leader  -> streamer thread -> arm;   pads -> safeguard thread --hold/open--> streamer, pilot
 operator (HTTP) -> command queue -> main loop -> streamer, pilot, safeguard, recorder
```

| Component | State it keeps | Operations | What is hard | What makes it correct |
|---|---|---|---|---|
| Ring (`recording/ringbuffer.py`) | columns, timestamps, write index in shared memory | push; latest, latest_ts, window, drain | no lock: a reader copies columns one by one while the writer wraps | published rows are whole until due for overwriting; damage only ever replaces a row by a later one |
| Executor (`deploy/executor.py`) | plan, mailbox, aperture latch, stop flag, reason, finish | servo tick, gripper worker iteration, `_halt`, submit, stop | three threads may halt at any point of each other; a socket move blocks | release is last; finish is final; every stop ends both threads; no death is silent |
| Planner (`deploy/planner.py`) | policy clock, veto counters, stop conditions | snapshot, replan, veto, submit | everything it read may be stale after `policy.replan` | nothing is submitted to an ended episode |
| Runtime, campaign (`deploy/runtime.py`, `scripts/run_deploy.py`) | queue of indices, stop reason, take, verdict | run episode, tear down, rebuild, home, gate, label, redo | joins that time out; the next episode reuses arm and socket; provisional verdicts | clean hand-over; each index has one take; doubtful control is rebuilt first; it ends |
| Release controller (`deploy/release_controller.py`) | phase, evidence | note_latch, update, clear | its finish races an older aperture | see finish above |
| Safety monitors (`deploy/safety.py`) | debounce, grace and latch counters | check | sample loss, sensor staleness | a persistent overload stops within its window |
| Streamer (`data_collect/teleop.py`) | phase, trackers, frozen pose, control-lost flag | servo cycle; hold, resume, reengage | check and send are apart; hand-moved arm | frozen while tripped; no jump |
| Safeguard (`data_collect/safeguard.py`) | enabled, tripped | check, trip, reset, configure | latch, freeze and open are three steps | a fresh trip always sticks |
| Pilot (`data_collect/gripper.py`) | suspended, open request, last command | tick; open, release | owns the gripper socket | a trip opens the gripper |
| Session (`data_collect/session.py`), panel gate (`panel.py`) | open episode, pending verdict, armed quit, trip, arm hold, count | 10 Hz loop over queued buttons; start of session, offload, playback | decides on values read at the top of a tick; several buttons in one tick; writes that fail | every take is settled; one activity at a time; nothing resumes without the operator |
| Recorder, store (`recording/recorder.py`, `data/episode_store.py`) | drain cursors, action buffer, open writer, `meta.json` | start, record_action, drain, stop, abort, relabel | the drain thread and the final flush append to the same arrays; an append fails half way; the ring overruns | no row lost or doubled; data and timestamps agree; a closed episode stays |
| Sensor workers (`recording/workers.py`) | process table, heartbeats | spawn, supervise, stop | a process dies during an episode | death is noticed |
| Offload (`data_collect/offload.py`) | files on two disks | copy, verify, remove | crash between copy, verify and delete | an episode always has a complete copy |
| Arm driver, lease (`drivers/real/ur.py`, `rig_lease.py`, `drivers/base.py`) | lease, controller slot, interface, `_servo_active` | connect, rebuild, disconnect, servo, servo_stop, move_j, move_l | a controller has one control slot; an interface is built in steps that fail; a session is dropped; a script survives its interface | one owner, one interface; no moveL meets a stream, and no move but after a failed servo_stop |
| Gripper driver (`drivers/real/robotiq.py`) | one socket | command, poll | a reply that comes late | replies belong to their commands |

## 2. Modules

| Module | Models | Kind |
|---|---|---|
| `RowLog` | what the ring promises its readers: an append-only log of rows | abstract specification |
| `RingBuffer` | `SharedRingBuffer`, one load or store of a column per step; `Abstract` maps it to `RowLog` | detailed specification |
| `EpisodeGrip` | what deployment promises for the fingers, episode after episode: moves, stop, let-go, finish, homing | abstract specification |
| `ChunkExecutor` | servo thread, gripper worker and planner thread over episode after episode; `Grip` maps it to `EpisodeGrip` | composition of three threads |
| `CollectSafety` | streamer, safeguard, pilot, main loop, HTTP switch, robot and operator's hands | composition of four threads and their environment |
| `EpisodeFiling` | what collecting promises about the takes: one at a time is on the desk, and what is filed stays as filed | abstract specification |
| `CollectSession` | the panel's HTTP threads, the session thread and what both leave on the disk; `Filing` maps it to `EpisodeFiling` | detailed specification with failing writes and kills |
| `DeployCampaign` | the campaign loop and `run_episode`; its `Filing` maps it to the same `EpisodeFiling` | detailed specification with failures |
| `EpisodeTape` | what the recorder promises for the tape of an episode: it grows at its end, without a hole, and closes with all that was due | abstract specification |
| `Recorder` | the drain thread and the final flush of `EpisodeRecorder` over take after take; `Tape` maps it to `EpisodeTape` | composition of two flushers and the caller |
| `EpisodeMove` | what the offload promises for each episode: it arrives, then it leaves | abstract specification |
| `Offload` | `offload_session`, one change of a file or directory per step; `Move` maps it to `EpisodeMove` | detailed specification with crashes |
| `ArmOwner` | what lease and interface promise for one robot: one owner, who alone connects, commands and ends | abstract specification |
| `ArmControl` | `URArm`, the lease and the rig's connect and disconnect, in several processes; `Owner` maps it to `ArmOwner` | composition of processes, servo threads and the robot |
| `*_proofs` (eight) | theorems about `RingBuffer`, `ChunkExecutor`, `CollectSafety`, `CollectSession`, `Recorder`, `DeployCampaign`, `Offload`, `ArmControl` | proofs |
| `MC*` (eight) | instances for TLC | model checking |

How they fit together. `Recorder` reads rings, of which it keeps the row numbers
that `RingBuffer` shows a drain to deliver. `CollectSession` and `DeployCampaign`
take start and stop of the recorder as one step each, which succeeds or fails:
`Recorder` is the inside of that step. `CollectSafety` is the motion half of the
session loop whose episode half is `CollectSession`; the trip and the arm hold are
in both. `ChunkExecutor` is one episode of `DeployCampaign`, which keeps of it the
reason to stop. `Offload` is the inside of the offload step of `CollectSession`.
`ArmControl` is what `ChunkExecutor` calls the servo guard and the rebuild of
control. The halves are checked apart, because a product of two would be out of
TLC's reach; what one assumes of the other is named in its comments.

A definition marked *mutant* is a plausible bug in the definition after it.
No specification uses it; the mutation runs listed in `PROJECT.json` put it in
place of the original to show that each property can fail.

### 2.1 `RowLog` and `RingBuffer`

`push` stores the fields of a row, then its timestamp, then advances
`write_index` (`StoreColumn`, `PublishRow`). A reader loads `write_index` and
copies cells in any order of its columns and rows (`Begin...`, `CopyCell`,
`EndCall`). A cell holds the number of the push that last stored it, which is
all a reader can tell rows apart by. `Readers`, `Capacity`, `NumFields` and
`MaxPush` are constants. Memory is assumed to be sequentially consistent for
the stores of one writer, which is what x86 gives the NumPy stores.

### 2.2 `ChunkExecutor`

Each thread has a program counter. One step is one section under a lock that
never blocks, or one access outside of the locks. The gripper I/O lock is held
over a blocking socket transaction and is a variable with several steps.
`_halt` is six steps in whichever thread called it, because the stop flag, the
reason, the latch, the mailbox and the release are set one after the other.

- A stop reason is kept as what the campaign does with it: `rebuild` (the
  reasons in `_CONTROL_DEAD_REASONS`), `fatal` (`worker_died`), or `plain`.
- A plan is the aperture of its current step. A pose is whether the servo call
  was made. The deadband of the worker is equality of apertures.
- A move whose acknowledgement is lost may or may not have reached the fingers.
- Locals of a thread are reset once they are dead, to keep the states few.
- The verdict of the safety monitor, the outcome of the policy, the veto and
  the evidence of the release controller are choices.
- Left out: boundary projection, placement descent, relative release, the
  variants of the finish without a latch, and the snapshot `halt_state` that is
  only reported.

`EpisodeGrip` is the same as the robot sees it. Its `underway` is what the worker is
sending under the I/O lock, its `letgo` whether any thread halted with a reason or an
event that lets go, its `homed` the moment between `Home` and `StartEpisode`.
Mailbox, latch, controller and the threads are gone.

Homing between episodes is one step (`Home`): it happens with one thread alive.
The program ends at `home` after a fatal reason, or when control cannot be
recovered or the campaign is over, and there it may stop, so the
runs of this module set `CHECK_DEADLOCK FALSE`.

### 2.3 `CollectSafety`

The streamer's cycle is sample, judge, look, compute, check, send: the phase is
read under the lock in `Look` and again in `Check`, and the send is outside of
it. `Hold`, `Resume` and `Commit` are what other threads do to the streamer
under the same lock. A joint pose is reduced to its *age*: `"old"` says it was
taken before the arm was last moved by hand, so that servoing it is a jump.

- `Setups` is the set of sessions the model considers; the variable `setup` picks
  one and never changes. `setup.arm` selects what may go wrong with the arm:
  `pstop`, `wrench` and `rebuild_fails`. `setup.toggles` lets an HTTP thread switch
  the safeguard off and on. `setup.release` is the configuration flag that opens
  the gripper on a trip.
- Operator commands may come at any tick: `/api/cmd` queues them in any state.
- Two facts about time are guards, and are named. `RebuildSettled`: a rebuild of
  the control script takes longer than one cycle of the streamer.
  `ClearStop`/`Jog`: an operator's hands are slower than one cycle, so the
  streamer has noticed the stop. Without these TLC finds behaviours that would
  need a person to clear a stop within 8 ms.
- Left out: the workspace box, drop-out prediction, the force ceiling and
  deadband of the grasp, the death of a thread, and the life of the episode.

`Next` has no terminating state, so deadlock is checked.

### 2.4 `CollectSession` and `EpisodeFiling`

A request is checked under the panel's start lock and then acts (`Check`, then
`BeginSession`, `BeginOffload` or `BeginPlayback`), so that what happens between
the two is visible. A tick of the session loop is a walk through the stages `poll`, `died`,
`quit`, `trip`, `arm`, `episode`, `workers`, one action per branch, with the
returns and `continue`s of the code as jumps. `popped` is what the tick took out of
the queue, which is a set: the loop asks only which buttons are in it, and a
second press of the same button in one tick does nothing.

- `disk[e]` is what `meta.json` of an episode says: `unjudged` is finalized with
  `success=None`, which every lister takes for a full-weight demonstration.
- Every write may fail; the episode is then in the history variable `harmed`, as is
  one that was in hand when the process was `Killed`. `warned` remembers for
  which episode a quit was refused.
- The pads, the arm and the motion threads are choices: a tick may read any of
  their values. Their interplay with motion is in `CollectSafety`.
- Teardown is one step: it runs with the session thread alone and no button is
  popped in it.
- Left out: gripper calibration, the rows of actions, everything shown.
- Bounds: `MaxSessions`, `MaxQueued`, the set `Targets`, and the names `Episodes`.

When names and sessions are used up the session may stop at `none`, so deadlock is
not checked.

### 2.5 `Recorder`

Rows of a channel are numbered; what a drain copies is a batch `[lo, hi)`; an array
of an episode is a sequence of such runs. That keeps order, loss and duplication, and
drops the payload. `data` and `stamps` are the two arrays of a stream. An append
may raise before, between or after them. A stream for which it raised halfway is
`torn` and its arrays are not told apart any more; a stream that lost rows, by an overrun or with
the actions of a failed drain, is in `gap`. Both are history. `mark` is where an
episode began and `owed` what had been published when `stop()` was called for it.

`EpisodeTape` keeps of the two arrays how far the tape goes (`upto`). Its `open` is the
writer, `stopping` a `stop()` under way; a channel that is torn or has a gap is `lost`,
and only lost channels are not vouched for. A step of the drain that appends is its
`Copy`, whichever of the two flushers makes it.

A pass of `_drain_once` does one channel after the other, the streams in any order
and the actions last, and `f \in {"drain", "final"}` says whether the thread or
`stop()` runs it. `Start` is refused while a drain thread lives, because a
failed `stop()` leaves the writer and an old thread behind. `Capacity` and
`MaxRows` bound the ring and the rows. After the last take nothing is left to
do, so deadlock is not checked.

### 2.6 `DeployCampaign`

One action per outcome of each step of `main`'s loop: the next index, the recovery
of control, homing, the two gates, the look at the workers, `run_episode` with its three writes
(finalize, file as aborted, tags), the prompt, and the redo.

- `prompt` is the labelling mode: `mandatory`, `optional` (a verdict may be
  skipped) or `none`. `reason` is what the campaign does with the stop: `fine`, `dead`
  (`_CONTROL_DEAD_REASONS`), `worker_died`, or `raised` for an exception on its way out.
- `ScriptDies` and `WorkerDies` may come at any time, as may `Killed`; `Interrupt`
  is Ctrl-C at a prompt.
- `suspect`, `late` and `harmed` are history. `MaxTakes` bounds the takes.
- A campaign on the real arm with `--home` and start statistics is assumed: without
  them the steps between two episodes do not exist.
- Left out: arguments, the building of policy and rig, the sampler seeds, and the values
  the gate measures.

The campaign ends, so deadlock is not checked.

### 2.7 `ArmControl`

An `URArm` goes through the stages of `connect`: the lease, the slot of its process,
the stop of an old script, the constructor, the configuration. The construction is
split because others can observe it half way and each part can fail;
`rebuilding` says that the failure goes to the caller of `reconnect_control`
and not out of the session. Any other call is under `_ctrl_lock` and is a step.

- `script` is whose control script plays on the robot (`Stray`: one that nobody
  has an interface to, such as the one of a killed process), `streaming` that it
  is in servo mode. `_teardown_ctrl` swallows a `servoStop` or `stopScript` that fails, and a
  kill sends nothing, so a `Stray` script may be in servo mode too (`Abandon`), and one is found so at the start.
- `thread` is `"ended"` between the end of a servo thread and the `servo_stop` that
  follows it, and `"off"` after that. Homing is made in `"off"`: `move_j` first, which has no guard, then
  `move_l`, which has. A `servo_stop` that fails raises (`ServoStopRaises`); the
  executor logs it, and whether a rebuild comes before the homing is a choice.
- A session may be dropped with its arm connected, and its object is collected
  later, if no servo thread keeps it alive. A process may be killed.
- `readable`, chosen once, says that the receive interface always answers; what
  the guard promises without that is in section 5.

`ArmOwner` has one `owner` where `ArmControl` has a lease, the set of `interfaces` where it has stages and
references, and the same robot. The whole connect is there `Take`, `Silence`, `Connect`; slot, guard,
servo threads and processes are gone.

`Next` always has a step, so deadlock is checked.

### 2.8 `EpisodeMove` and `Offload`

`offload_session` removes a stale `.part`, sets a copy aside that does not
mirror the local episode, copies into `.part`, flushes, verifies, renames, and
clears the local directory. A directory is the set of what is whole in it, its
own name (`Dir`) included, so that "exists but is empty" and "does not exist"
differ; each file is removed or copied by a step.

- `Interrupted` ends the call between any two steps: an exception that leaves
  it, or the end of the process. `Start` calls it again on what is left.
- `Init` allows an unfinished directory at the destination, which
  `tests/test_data_collect_offload.py` sets up as the remains of an older
  version. It never allows a complete one.
- Comparing by size and comparing by checksum are one comparison: a file that
  arrived short is not in the set.
- A call that is refused (drive missing, drive full, same disk) changes nothing
  and is no step.
- The drive keeps what it was told: a failure of power is not modelled (section 5).

When everything is moved, nothing is left to call, so deadlock is not checked.

## 3. What the runs check

| Run | Bounds | Shows |
|---|---|---|
| `ring` | 1 reader, capacity 2, 1 field and the timestamp, 6 pushes; 7 thousand states | young rows are copied whole, damage is only ever by a later row, and `RingBuffer` implements `RowLog` |
| `exec_halts` | 2 apertures, no controller or one that finishes the episode; 4.8 million | `ChunkExecutor` implements `EpisodeGrip` (release is last, finish is final, homing waits for the let-go); hand-over, let-go, late tick, silent death, latch |
| `exec_stops` | 1 aperture, no controller or one that does not finish, fair; 460 thousand | every stop ends the episode and both threads |
| `collect` | three sessions: a quiet arm; an arm with every trouble; a safeguard that is switched; 8.2 million | a trip freezes a quiet arm, and opens the gripper whatever the arm does, through every race with Resume and Re-engage; how the arm starts to move under a trip; one checked command at most after a hold; glides start from fresh poses |
| `offload` | 2 episodes, 2 files, fair; 24 thousand | no episode without a whole copy, `Offload` implements `EpisodeMove`, retrying succeeds |
| `session` | 2 episodes, 2 sessions, 2 queued buttons, target 0 or 1, fair; 1.5 million | takes are settled, one activity at a time, the count agrees with the disk, no judgment is lost by a quit, offload moves what is settled, `CollectSession` implements `EpisodeFiling`, a quit ends the session |
| `recorder` | 1 stream and the actions, 2 takes, capacity 1, 2 rows, fair; 1.2 million | arrays agree, no gap but by overrun or failure, `Recorder` implements `EpisodeTape` (a take closes complete), a closed one stays, `stop()` returns |
| `deploy` | 3 episodes, 4 takes, fair; 740 thousand | takes are settled, one take per index, one late take at most, control rebuilt first, `DeployCampaign` implements `EpisodeFiling`, the campaign ends |
| `arm` | 2 `URArm`s of one process, 1 of a rival; 73 thousand | `ArmControl` implements `ArmOwner` (one owner, one interface), the slot covers it, the owner is undisturbed, and by what a homing move comes to meet a stream |
| `collect_reengage` | an arm with protective stops | *violation*: Re-engage moves with the latch set |
| `session_stranded` | 1 episode, 2 sessions | *violation*: an episode in staging that no button reaches |
| `arm_slot` | as `arm` | *violation*: a slot that nobody uses stays taken |

A property has a mutation run each. `TypeOK` and the inductive invariants were
checked on the same instances while the proofs were written; they are theorems now.
So are `ReleaseIsLast`, `FinishIsFinal`, `FinalizedComplete` and `OneController`, which say for
one variable what the refinement of that module says for all of them, and `LostByDropping` and
`LostForGood`, which say when the situation of `arm_slot` arises.

Why these bounds are enough to be interesting. With six
pushes into two slots every slot is overwritten twice while a reader may hold it,
and a cursor falls behind by more than the capacity. Readers do not write, so a
second one adds nothing to what the first may see. Two apertures separate
"open" from "closed", which is what the latch, the release and the finish
compare. Episodes of the executor follow each other without a bound: `StartEpisode` leads back
to a state of the first episode, except for what the arm and the gripper carry
over. `CollectSafety` has no bound but its sessions; its state is finite.
In `session` two episodes let one be judged while the next is recorded, and two
sessions let one leave something for the next; two buttons in one tick are enough for
each pair the loop orders. In `recorder` a ring of one row overruns as soon as
two rows come between two drains, and the second take starts with a thread, a writer
and actions that the first may have left. In `deploy` four takes for three indices are one redo of any
of them. In `arm` a process has two sessions in a row, and a rival at any time.
`Offload` bounds neither the calls nor the failures. Two files let one arrive and
the other not, two episodes let one be done and the other not.

**Fairness.** `ChunkExecutor`: weak fairness of each of the three threads. The operating
system schedules every thread that can run. A step that waits for the I/O lock is
enabled only when the lock is free, and the holder always gets out: its move ends in
success or in an exception, because the socket has a timeout. `policy.replan` and a submit do
return, which is the fairness of the planner thread; a policy that hangs would void
it. `Offload`: a call that has begun goes on; it is one sequential function over local
files. `CollectSession`: the session thread is scheduled; nobody has to press a
button, and nothing has to fail or to succeed. `Recorder`: the drain thread and a
`stop()` that has been called are scheduled; appends may fail for ever. `DeployCampaign`:
the main thread is scheduled, and the operator answers its prompts, which the code waits for
without a timeout. Nowhere is a choice fair: not that a join succeeds, a
plan comes, a gate passes or a rebuild works. `CampaignEnds` says therefore that the
campaign ends *or* stays before a start gate the arm does not pass (nothing in the code bounds that loop), and `RetrySucceeds` has
the end of failures and another call as its premise.

## 4. What is proved

The theorems hold for every value of the constants that satisfies the named
assumptions of the modules (`RingAssumption`, `ExecutorAssumption`,
`OffloadAssumption`, `SessionAssumption`, `RecorderAssumption`,
`CampaignAssumption`, `ArmAssumption`): any capacity, columns, readers and number of
pushes; any apertures and set of controllers; any setups; any episodes, files, sessions, targets and
queue lengths; any streams, takes and rows; any number of indices and takes; any
processes and arms. Type correctness is a theorem of each module.

**Ring.** That published rows are held is not inductive: it says nothing about the
store in progress or about a reader half way. `RingInv` adds the shape of a slot (which
push it was last stored by, as a function of `writeIndex` and `written`) and,
for a reader in the middle of a call, that what it has copied is the row it asked
for or a later one of the same slot. Its arithmetic core is the lemma that two
row numbers with the same slot differ by at least the capacity. From `RingInv`
follow `PublishedRowsStayHeld`, `YoungRowsNeverTorn` and `DamageOnlyLater`.
`RingImplementsRowLog` maps each step to a step of `RowLog` or to a stutter.

**Executor.** `ExecInv` is a conjunction of named parts: `LockOwned` (the I/O lock is held exactly by
the thread whose counter says so), `HaltsInOrder` (what a halt has done by each of its
steps), `StopsExplained` (a thread that ended, and a stop flag, have a cause), `ReleaseHolds`
(after the release no worker is past its check of the stop flag), `JoinsSettle` (what
is known at each step of the teardown), `TicksCounted`, `FinishFrozen` (after
a finish every place an aperture can sit holds the finish aperture or nothing) and
`LatchFloors`. `LockOwned` is what makes `ReleaseHolds` inductive, and
`FinishFrozen` needs the relation of `last_sent` to the device. `HaltsOnce` says that a thread halts once in an
episode, so that nobody overwrites what it asked for. `ExecutorKeepsGrip` maps every step to a step of `EpisodeGrip`
or a stutter: `LockOwned` gives that no move is under way when a release or a finish comes, `FinishFrozen` that
what the worker sends after a finish is where the fingers are, `JoinsSettle` that homing finds the worker ended.

**Collect safety.** `CollectInv` has two halves. `GlideInv` follows a pose from the arm to the servo
command: between a stop and the commit of a re-engagement the streamer is parked
(`Parked`), the sample the glide is seeded with is of after the stop (`SampleFresh`), and
whoever starts a glide asks for a reseed (`GlideSeeded`, `TrackFresh`). It holds
whatever goes wrong with the arm. `TripInv` has three premises, each needed for what it carries. In every session a scan that is
under way has no latch (`ScanUnlatched`). While the safeguard stays on, the loop books no trip that is
not latched (`LoopSeesLatch`), which is what keeps the gripper with the trip whatever the arm
does (`TripOpensGripper`); a safeguard that is switched off and on again
lets the loop release a newer trip with an older one. In an undisturbed session control is never lost
(`NeverLost`), and a trip that has landed has frozen the streamer (`TripHeld`); without
that premise it need not, as `collect_reengage` shows. `TripMovesBy` closes the list of what can happen then: in any
session, a trip lands frozen, and the arm starts to move under it by the commit of
Re-engage, by the end of an arm hold, or by an older trip that was switched off, and by nothing else.

**Collect session.** `SessionInv` ties the locals of the loop to the disk: what is
in hand is on the disk as the loop takes it to be (`HandOnDisk`), in the directory of this
session (`HandStaged`), and nothing is in hand outside the loop and its teardown
(`HandEmpty`); a trip that is booked has no take (`TripBooked`); an armed quit was refused for
the pending episode (`ArmedFor`); what is pending at the teardown is one whose verdict could not be
written (`TornDown`). `OneAtATime` is inductive together with the lock. `CountAgreesWithDisk`
needs `CountInv`: the set of counted files is finite, a session is brought up with none of
its own, and the counter is zero outside of a session. Each stage of a tick then changes the
count and the set together, as long as no write has failed; the lemmas
`KeptStays`, `KeptRewritten` and `CountedOff` reduce a step to what it does to the
cardinality of that set. The
refinement maps the desk of `EpisodeFiling` to whichever of `open` and `pending` is taken.

**Recorder.** `FlushControl` says who runs and into which episode: the thread, then the
final flush, then the close. `TapeReaches` says that the tape of the open episode ends where its channel has got to
(`Reached`: the cursor, or for actions that were swapped out and not yet appended, the
beginning of their batch), which with `BatchRead` gives that the next batch
continues the tape; the lemma about `Extended` turns that into order and gaplessness.
`FlushDelivers` follows the final flush channel by channel to what `stop()` owes.
`RecorderKeepsTape` rests on the same facts: `UptoValue` and `UptoStays` say what a step does to the end of a
tape, `QuietStep` collects the steps that touch no tape, and `LoseChannel` those that give up a channel.

**Campaign.** `HandOnDisk` says what the take is at each step, `IndexPlaced` that each
index is to come, in hand, or represented by one kept take, and in no two of these places;
`LateIsLast` that after a late take the workers stay dead and no further take is begun;
`DoubtIsTold` that a suspect script is told to the next index by `reason`. The
refinement reads the provisional verdict as none.

**Arm.** `LeaseBacks`: who builds or has an interface has the lease, so two interfaces
are one. `SlotHeld` carries the slot through failures and rebuilds; `ScriptBacked` and
`StreamGuarded` say that a servo stream is the one of an interface whose guard is up, or of a script nobody has an interface to;
`BuiltUnguarded` and `NoneLeftBehind` that a guard does not survive its script or its session. `ArmImplementsOwner` follows: `LeaseBacks` gives
that whoever has an interface is the owner, and what an arm without the lease does leaves owner,
interfaces and robot as they are (`OwnerUndisturbed`). `MovesMeetStreamBy` closes the list of how a homing move comes to meet a live stream: `servo_stop` raised, and then
`move_j` alone gets through, or the robot could not be read. `LinearMovesMeetNoStream` is what the guard of `move_l`
gives as long as the robot can be read. The finding `arm_slot` is bounded from the other side:
`SlotsLostByDropping` says that a slot without an interface and without a connect that will give it back arises only
when a dropped arm is collected with its interface, and `SlotsLostForGood` that only the
end of the process frees it.

**Offload.** `EpisodeKept` alone does not survive `ClearLocal` or `SetAside`. `OffloadInv` adds
what the call has established: `ClearsBacked` (the local directory is cleared only
with a whole copy on the drive), `CopyVerified` (the `.part` about to be renamed is
the local directory), and `CopyUnderway` (nothing is at the destination while a copy
is under way, so the rename replaces nothing). That the local directory is whole
when it is copied is not a check of the code: it follows from `EpisodeKept`, since
there is no copy at the destination then.

**Only model-checked.** The liveness properties (`StopEndsEpisode`, `RetrySucceeds`, `QuitEnds`,
`StopReturns`, `CampaignEnds`) are out of the prover's reach, as is anything about
`ENABLED`. Every other property of a passing run is a theorem. No
recursive operator is used: what a recursive computation returns for every input needs
an induction theorem whose parameter is an operator, which the installed provers
cannot instantiate.

## 5. Where the code and its documents disagree

Three are runs that end in a counterexample; `PROJECT.json` quotes both sides.

1. `collect_reengage`. Parking in FAULT erases HOLD, and Re-engage refuses only
   HOLD: after a protective stop it moves the arm with the latch set. The run
   stops at its first counterexample; a second way to the same violation is that
   the main loop reads the latch at the top of a tick and ends its own arm hold
   further down, so that a trip in between is resumed with it.
2. `session_stranded`. Only the last staging directory is remembered. What an
   offload left behind is reached by no button once another session has begun, or after a restart.
3. `arm_slot`. `connect_all` connects the arm first; when a later device fails,
   nobody disconnects it. The lease goes with the object, the slot of the process does
   not, and every later session of the process is refused. It is the only way to lose a slot (section 4).

The following were met while modelling and have no run of their own.

- `recording/ringbuffer.py:96`: `drain` promises every row still in the ring, and the
  oldest one may be half overwritten by the push in progress. `CopiedRowsWhole`
  excludes exactly that row.
- `deploy/executor.py:1199`: `servo_stop_failed` is recorded only if the episode
  has no reason yet, so after `veto_retry_cap` or `lift_complete` a guard that stays up
  is carried into the next episode without the documented rebuild. `StuckGuardsSurface`
  proves what does hold: such a guard never goes without *some* reason.
- `drivers/real/ur.py:814`: in that situation homing begins with `move_j`
  (`deploy/start_pose.py:295`), which does not look at `_servo_active`, and `moveJ` is sent to a script in servo
  mode. `drivers/base.py:235` wants servo mode left before `move_j`, and `MockArm.move_j` (`drivers/mock/ur.py:103`)
  refuses, so a dry run does not show it. In `ArmControl` the states are: `StartServo`, `ServoTick`, `ServoEnds`,
  `ServoStopRaises`. `MovesMeetStreamBy` proves that this is the only way as long as the robot can be read.
- `data_collect/session.py:504`: a safeguard that is switched off before the loop has booked
  the trip leaves the arm in HOLD without a latch, and both buttons are refused
  (`docs/data_collect_app.md:137` has a way out of every hold).
- `data_collect/teleop.py:207`: a trip in the first cycle after Re-engage freezes the arm at the
  last command of before the fault. And `teleop.py:375`: Re-engage commits while the streamer is about to
  park, FAULT is entered with control restored, and the leader is tracked from a pose of before the jog.
- `data_collect/offload.py:185`: the rename of `.part` is not flushed before the local episode
  is cleared. After a power failure in the middle of that, the drive may be back at
  `.part`, which the next call removes as stale.
- `drivers/real/ur.py:305`: `program_running()` returns `False` when the receive state cannot be read,
  so `servo_stop` lowers the guard with a stream that may be alive; its own
  docstring keeps the guard unless the script is known to be dead. `NoMoveLIntoStream` has `readable` as its premise, and `StreamsMetBy` names the case.
- `data_collect/panel.py:291`: buttons pressed during bring-up are said to be dropped; the session
  thread is alive by then, so they are queued and fire on its first tick.
- `data_collect/session.py:420`: a verdict popped by the tick that finds a motion thread dead is
  lost, and the episode is filed as unlabeled. `NeverFiledBehind` leaves that tick out.
- `scripts/run_deploy.py:963`: the docstring of `label_episode` says of `c` that success stays `None`;
  the code sets it.
- `drivers/real/rig_lease.py:86`: between the lock and the rewrite of the file a rival may be told
  the name of the previous owner.

## 6. Plan

What is done: the ring and its log, the recorder, the executor and the campaign around it, the motion and
the episodes of a collection session, the offload, and the ownership of the arm, each with its
invariants proved. What is left, in order of importance:

1. `GripperSocket`: commands and replies of the Robotiq socket with a late reply, which
   `ChunkExecutor` takes as an acknowledgement that may be lost.
2. `SafetyMonitor`: debounce, grace and latch of the monitors in `deploy/safety.py`, whose verdict is
   a choice of the planner thread.
3. The composition of `Recorder` with `CollectSession` by refinement, in place of the named steps they share.
4. The trial ledger of the campaign, and the tags of an episode.

**Not modelled.** The complete list, with the reason for each part, is in `PROJECT.json`. Neural models,
policies, training, data windows and offline evaluation are numeric and share no state
between threads. Servo limiting, inverse kinematics and the release and placement
heuristics compute on real vectors, which TLC does not enumerate; their outcome is a choice where a module uses it.
The simulator is a sequential program over a numeric engine. Panels, live view and
playback display state. The drivers of cameras, pads and leader are
device I/O behind interfaces that are modelled where they are called. The older
`teleop/` path is replaced by the collection package. These parts are most of the lines of the
repository, and few of its interleavings.
