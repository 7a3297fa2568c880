------------------------ MODULE ChunkExecutor_proofs ------------------------
(***************************************************************************)
(* The safety of ChunkExecutor for every set of apertures and every        *)
(* configuration of the release controller.                                *)
(***************************************************************************)
EXTENDS ChunkExecutor, TLAPS

LEMMA InitType == Init => TypeOK
<1> SUFFICES ASSUME Init PROVE TypeOK
  OBVIOUS
<1>1. controller \in Phases \cup {"native"} /\ finishes \in BOOLEAN
  BY DEF Init, Phases
<1>2. ~At(Worker, "moving")
  BY DEF Init, At, Threads, Worker, Planner
<1> QED  BY <1>1, <1>2, ExecutorAssumption DEF Init, TypeOK, Threads, Servo, Worker, Planner, ServoSteps,
            WorkerSteps, PlannerSteps, TeardownSteps, HaltSteps, NoHalt, Grips, NoGrip, None, Reasons, Phases

\* The latch and its re-arm flag keep their types through _latched_grip.
LEMMA LatchedGripType ==
    ASSUME TypeOK, NEW grip \in Grips \cup {NoGrip}, NEW result, LatchedGrip(grip, result)
    PROVE  latch' \in Grips \cup {NoGrip} /\ rearmBlocked' \in BOOLEAN
<1>1. CASE latch = NoGrip
  BY <1>1 DEF TypeOK, LatchedGrip
<1>2. CASE latch # NoGrip
  BY <1>2 DEF TypeOK, LatchedGrip
<1> QED  BY <1>1, <1>2

LEMMA StepType == TypeOK /\ [Next]_vars => TypeOK'
<1> SUFFICES ASSUME TypeOK, [Next]_vars PROVE TypeOK'
  OBVIOUS
<1> USE ExecutorAssumption DEF TypeOK, Threads, Servo, Worker, Planner, ServoSteps,
        WorkerSteps, PlannerSteps, TeardownSteps, HaltSteps, NoHalt, Grips, NoGrip, None, Reasons, Phases,
        halts, grips, finish, device, servos, At, Goto
<1>1. ASSUME NEW t \in Threads, Halt(t) PROVE TypeOK'
  <2>1. CASE HaltSetReason(t)  BY <2>1 DEF HaltSetReason
  <2>2. CASE HaltUnlatch(t)  BY <2>2 DEF HaltUnlatch
  <2>3. CASE HaltInvalidate(t)  BY <2>3 DEF HaltInvalidate
  <2>4. CASE HaltSetStop(t)  BY <2>4 DEF HaltSetStop, AfterHalt
  <2>5. CASE ReleaseLock(t)  BY <2>5 DEF ReleaseLock
  <2>6. CASE ReleaseMove(t)  BY <2>6 DEF ReleaseMove, AfterHalt
  <2> QED  BY <1>1, <2>1, <2>2, <2>3, <2>4, <2>5, <2>6 DEF Halt
<1>2. CASE ServoThread
  <2>1. CASE ServoStopped  BY <2>1 DEF ServoStopped
  <2>2. CASE ServoTick  BY <2>2 DEF ServoTick
  <2>3. CASE SafetyPasses  BY <2>3 DEF SafetyPasses, Managed
  <2>4. CASE SafetyStops
    <3>1. ASSUME NEW letgo \in BOOLEAN, Halts(Servo, "rebuild", letgo) PROVE TypeOK'
      BY <2>4, <3>1 DEF SafetyStops, Halts
    <3>2. CASE Halts(Servo, "plain", FALSE)
      BY <2>4, <3>2 DEF SafetyStops, Halts
    <3> QED  BY <2>4, <3>1, <3>2 DEF SafetyStops
  <2>5. CASE HoldFinish  BY <2>5 DEF HoldFinish
  <2>6. CASE ReleaseControl
    <3>1. PICK phase \in Phases : ReleaseControlTo(phase)
      BY <2>6 DEF ReleaseControl
    <3>2. controller' \in Phases
      BY <3>1 DEF ReleaseControlTo, NoteLatch
    <3>3. CASE Suppressing(phase)
      <4>1. CASE phase = "finished"
        BY <2>6, <3>1, <3>2, <3>3, <4>1 DEF ReleaseControl, ReleaseControlTo
      <4>2. CASE phase # "finished"
        BY <2>6, <3>1, <3>2, <3>3, <4>2 DEF ReleaseControl, ReleaseControlTo
      <4> QED  BY <4>1, <4>2
    <3>4. CASE ~Suppressing(phase) /\ target[Servo] = NoGrip
      BY <2>6, <3>1, <3>2, <3>4 DEF ReleaseControl, ReleaseControlTo
    <3>5. CASE ~Suppressing(phase) /\ target[Servo] # NoGrip
      <4>1. PICK result \in Grips : LatchedGrip(target[Servo], result) /\ target' = [target EXCEPT ![Servo] = result]
        BY <3>1, <3>5 DEF ReleaseControlTo
      <4>2. latch' \in Grips \cup {NoGrip} /\ rearmBlocked' \in BOOLEAN
        BY <4>1, LatchedGripType
      <4> QED  BY <2>6, <3>1, <3>2, <3>5, <4>1, <4>2 DEF ReleaseControl, ReleaseControlTo
    <3> QED  BY <3>3, <3>4, <3>5
  <2>7. CASE ServoCommand
    <3>1. streaming' \in BOOLEAN
      BY <2>7 DEF ServoCommand
    <3>2. lateTicks' \in Nat
      BY <2>7 DEF ServoCommand
    <3>3. pc' \in [Threads -> ServoSteps \cup WorkerSteps \cup PlannerSteps] /\ pc'[Servo] \in ServoSteps
          /\ pc'[Worker] \in WorkerSteps /\ pc'[Planner] \in PlannerSteps
      BY <2>7 DEF ServoCommand
    <3> QED  BY <2>7, <3>1, <3>2, <3>3 DEF ServoCommand
  <2>8. CASE ServoCrash  BY <2>8 DEF ServoCrash, Halts
  <2>9. CASE ApplyLatch
    <3>1. PICK result \in Grips : LatchedGrip(target[Servo], result) /\ target' = [target EXCEPT ![Servo] = result]
      BY <2>9 DEF ApplyLatch
    <3>2. latch' \in Grips \cup {NoGrip} /\ rearmBlocked' \in BOOLEAN
      BY <3>1, LatchedGripType
    <3> QED  BY <2>9, <3>1, <3>2 DEF ApplyLatch
  <2>10. CASE PostTarget  BY <2>10 DEF PostTarget
  <2> QED  BY <1>1, <1>2, <2>1, <2>2, <2>3, <2>4, <2>5, <2>6, <2>7, <2>8, <2>9, <2>10 DEF ServoThread
<1>3. CASE WorkerThread
  <2>1. CASE WorkerStopped  BY <2>1 DEF WorkerStopped
  <2>2. CASE ReadMailbox  BY <2>2 DEF ReadMailbox, Due
  <2>3. CASE TakeIoLock  BY <2>3 DEF TakeIoLock
  <2>4. CASE Recheck  BY <2>4 DEF Recheck, Managed
  <2>5. CASE SendTarget  BY <2>5 DEF SendTarget
  <2>6. CASE SendFails  BY <2>6 DEF SendFails, Halts
  <2>7. CASE PollState
    <3>1. CASE Goto(Worker, "check") /\ UNCHANGED <<halting, target>>
      BY <2>7, <3>1 DEF PollState
    <3>2. CASE Halts(Worker, "rebuild", FALSE)
      BY <2>7, <3>2 DEF PollState, Halts
    <3> QED  BY <2>7, <3>1, <3>2 DEF PollState
  <2> QED  BY <1>1, <1>3, <2>1, <2>2, <2>3, <2>4, <2>5, <2>6, <2>7 DEF WorkerThread
<1>4. CASE PlannerThread
  <2>1. CASE SeesStop  BY <2>1 DEF SeesStop
  <2>2. CASE PlannerStops  BY <2>2 DEF PlannerStops, Halts
  <2>3. CASE StartInference  BY <2>3 DEF StartInference
  <2>4. CASE ObservationOver  BY <2>4 DEF ObservationOver
  <2>5. CASE PolicyFails  BY <2>5 DEF PolicyFails
  <2>6. CASE Proposes  BY <2>6 DEF Proposes
  <2>7. CASE VetoRecovers  BY <2>7 DEF VetoRecovers, Managed
  <2>8. CASE VetoGivesUp  BY <2>8 DEF VetoGivesUp, Halts
  <2>9. CASE Submit  BY <2>9 DEF Submit
  <2>10. CASE NextReplan  BY <2>10 DEF NextReplan
  <2>11. CASE EpisodeOver  BY <2>11 DEF EpisodeOver
  <2>12. CASE TeardownStop  BY <2>12 DEF TeardownStop
  <2>13. CASE TeardownClear  BY <2>13 DEF TeardownClear
  <2>14. CASE JoinServo
    <3>1. CASE At(Servo, "done") /\ UNCHANGED <<stoppedReason, joinFailed>>
      BY <2>14, <3>1 DEF JoinServo
    <3>2. CASE joinFailed' = TRUE /\ stoppedReason' = IF stoppedReason = None THEN "rebuild" ELSE stoppedReason
      BY <2>14, <3>2 DEF JoinServo
    <3> QED  BY <2>14, <3>1, <3>2 DEF JoinServo, Joined
  <2>15. CASE JoinWorker
    <3>1. CASE At(Worker, "done") /\ UNCHANGED <<stoppedReason, joinFailed>>
      BY <2>15, <3>1 DEF JoinWorker
    <3>2. CASE joinFailed' = TRUE /\ stoppedReason' = IF stoppedReason = None THEN "rebuild" ELSE stoppedReason
      BY <2>15, <3>2 DEF JoinWorker
    <3> QED  BY <2>15, <3>1, <3>2 DEF JoinWorker, Joined
  <2>16. CASE ServoStop
    <3>1. streaming' \in BOOLEAN
      BY <2>16 DEF ServoStop
    <3>2. stoppedReason' \in Reasons \cup {None}
      BY <2>16 DEF ServoStop
    <3> QED  BY <2>16, <3>1, <3>2 DEF ServoStop
  <2>17. CASE Home  BY <2>17 DEF Home, FatalReason, RecoverControl
  <2>18. CASE StartEpisode  BY <2>18 DEF StartEpisode, Managed
  <2> QED  BY <1>1, <1>4, <2>1, <2>2, <2>3, <2>4, <2>5, <2>6, <2>7, <2>8, <2>9, <2>10, <2>11, <2>12, <2>13, <2>14, <2>15, <2>16, <2>17, <2>18 DEF PlannerThread
<1>5. CASE UNCHANGED vars  BY <1>5 DEF vars
<1> QED  BY <1>2, <1>3, <1>4, <1>5 DEF Next

\* The executor's state keeps its types.
THEOREM ExecTypeCorrect == Spec => []TypeOK
BY InitType, StepType, PTL DEF Spec

-----------------------------------------------------------------------------
(* The parts of ExecInv, one lemma each: what a step preserves it from.    *)

\* The I/O lock has the owner its holder believes in.
LEMMA StepLock == TypeOK /\ LockOwned /\ [Next]_vars => LockOwned'
<1> SUFFICES ASSUME TypeOK, LockOwned, [Next]_vars PROVE LockOwned'
  OBVIOUS
<1> USE DEF Threads, Servo, Worker, Planner, ServoSteps, WorkerSteps, PlannerSteps, TeardownSteps, HaltSteps,
       None, halts, grips, finish, device, servos, At, Goto, TypeOK,
       LockOwned, HoldsLock
<1>1. ASSUME NEW t \in Threads, Halt(t) PROVE LockOwned'
  <2>1. CASE HaltSetReason(t)  BY <2>1 DEF HaltSetReason
  <2>2. CASE HaltUnlatch(t)  BY <2>2 DEF HaltUnlatch
  <2>3. CASE HaltInvalidate(t)  BY <2>3 DEF HaltInvalidate
  <2>4. CASE HaltSetStop(t)  BY <2>4 DEF HaltSetStop, AfterHalt
  <2>5. CASE ReleaseLock(t)  BY <2>5 DEF ReleaseLock
  <2>6. CASE ReleaseMove(t)  BY <2>6 DEF ReleaseMove, AfterHalt
  <2> QED  BY <1>1, <2>1, <2>2, <2>3, <2>4, <2>5, <2>6 DEF Halt
<1>2. CASE ServoThread
  <2>1. CASE ServoStopped  BY <2>1 DEF ServoStopped
  <2>2. CASE ServoTick  BY <2>2 DEF ServoTick
  <2>3. CASE SafetyPasses  BY <2>3 DEF SafetyPasses
  <2>4. CASE SafetyStops  BY <2>4 DEF SafetyStops, Halts
  <2>5. CASE HoldFinish  BY <2>5 DEF HoldFinish
  <2>6. CASE ReleaseControl  BY <2>6 DEF ReleaseControl, ReleaseControlTo, LatchedGrip, Suppressing, NoteLatch, Updates
  <2>7. CASE ServoCommand  BY <2>7 DEF ServoCommand
  <2>8. CASE ServoCrash  BY <2>8 DEF ServoCrash, Halts
  <2>9. CASE ApplyLatch  BY <2>9 DEF ApplyLatch, LatchedGrip
  <2>10. CASE PostTarget  BY <2>10 DEF PostTarget
  <2> QED  BY <1>1, <1>2, <2>1, <2>2, <2>3, <2>4, <2>5, <2>6, <2>7, <2>8, <2>9, <2>10 DEF ServoThread
<1>3. CASE WorkerThread
  <2>1. CASE WorkerStopped  BY <2>1 DEF WorkerStopped
  <2>2. CASE ReadMailbox  BY <2>2 DEF ReadMailbox, Due
  <2>3. CASE TakeIoLock  BY <2>3 DEF TakeIoLock
  <2>4. CASE Recheck  BY <2>4 DEF Recheck
  <2>5. CASE SendTarget  BY <2>5 DEF SendTarget
  <2>6. CASE SendFails  BY <2>6 DEF SendFails, Halts
  <2>7. CASE PollState  BY <2>7 DEF PollState, Halts
  <2> QED  BY <1>1, <1>3, <2>1, <2>2, <2>3, <2>4, <2>5, <2>6, <2>7 DEF WorkerThread
<1>4. CASE PlannerThread
  <2>1. CASE SeesStop  BY <2>1 DEF SeesStop
  <2>2. CASE PlannerStops  BY <2>2 DEF PlannerStops, Halts
  <2>3. CASE StartInference  BY <2>3 DEF StartInference
  <2>4. CASE ObservationOver  BY <2>4 DEF ObservationOver
  <2>5. CASE PolicyFails  BY <2>5 DEF PolicyFails
  <2>6. CASE Proposes  BY <2>6 DEF Proposes
  <2>7. CASE VetoRecovers  BY <2>7 DEF VetoRecovers
  <2>8. CASE VetoGivesUp  BY <2>8 DEF VetoGivesUp, Halts
  <2>9. CASE Submit  BY <2>9 DEF Submit
  <2>10. CASE NextReplan  BY <2>10 DEF NextReplan
  <2>11. CASE EpisodeOver  BY <2>11 DEF EpisodeOver
  <2>12. CASE TeardownStop  BY <2>12 DEF TeardownStop
  <2>13. CASE TeardownClear  BY <2>13 DEF TeardownClear
  <2>14. CASE JoinServo  BY <2>14 DEF JoinServo, Joined
  <2>15. CASE JoinWorker  BY <2>15 DEF JoinWorker, Joined
  <2>16. CASE ServoStop  BY <2>16 DEF ServoStop
  <2>17. CASE Home  BY <2>17 DEF Home, FatalReason, RecoverControl
  <2>18. CASE StartEpisode  BY <2>18 DEF StartEpisode
  <2> QED  BY <1>1, <1>4, <2>1, <2>2, <2>3, <2>4, <2>5, <2>6, <2>7, <2>8, <2>9, <2>10, <2>11, <2>12, <2>13, <2>14, <2>15, <2>16, <2>17, <2>18 DEF PlannerThread
<1>5. CASE UNCHANGED vars  BY <1>5 DEF vars
<1> QED  BY <1>2, <1>3, <1>4, <1>5 DEF Next

\* A halt sets its reason before it stops and stops before it releases.
LEMMA StepHalts == TypeOK /\ LockOwned /\ JoinsSettle /\ HaltsInOrder /\ [Next]_vars => HaltsInOrder'
<1> SUFFICES ASSUME TypeOK, LockOwned, JoinsSettle, HaltsInOrder, [Next]_vars PROVE HaltsInOrder'
  OBVIOUS
<1> USE DEF Threads, Servo, Worker, Planner, ServoSteps, WorkerSteps, PlannerSteps, TeardownSteps, HaltSteps,
       None, halts, grips, finish, device, servos, At, Goto, TypeOK,
       HaltsInOrder, JoinsSettle, Reasons
<1>1. ASSUME NEW t \in Threads, Halt(t) PROVE HaltsInOrder'
  <2>1. CASE HaltSetReason(t)  BY <2>1 DEF HaltSetReason
  <2>2. CASE HaltUnlatch(t)  BY <2>2 DEF HaltUnlatch
  <2>3. CASE HaltInvalidate(t)  BY <2>3 DEF HaltInvalidate
  <2>4. CASE HaltSetStop(t)  BY <2>4 DEF HaltSetStop, AfterHalt
  <2>5. CASE ReleaseLock(t)  BY <2>5 DEF ReleaseLock
  <2>6. CASE ReleaseMove(t)  BY <2>6 DEF ReleaseMove, AfterHalt
  <2> QED  BY <1>1, <2>1, <2>2, <2>3, <2>4, <2>5, <2>6 DEF Halt
<1>2. CASE ServoThread
  <2>1. CASE ServoStopped  BY <2>1 DEF ServoStopped
  <2>2. CASE ServoTick  BY <2>2 DEF ServoTick
  <2>3. CASE SafetyPasses  BY <2>3 DEF SafetyPasses
  <2>4. CASE SafetyStops  BY <2>4 DEF SafetyStops, Halts
  <2>5. CASE HoldFinish  BY <2>5 DEF HoldFinish
  <2>6. CASE ReleaseControl  BY <2>6 DEF ReleaseControl, ReleaseControlTo, LatchedGrip, Suppressing, NoteLatch, Updates
  <2>7. CASE ServoCommand  BY <2>7 DEF ServoCommand
  <2>8. CASE ServoCrash  BY <2>8 DEF ServoCrash, Halts
  <2>9. CASE ApplyLatch  BY <2>9 DEF ApplyLatch, LatchedGrip
  <2>10. CASE PostTarget  BY <2>10 DEF PostTarget
  <2> QED  BY <1>1, <1>2, <2>1, <2>2, <2>3, <2>4, <2>5, <2>6, <2>7, <2>8, <2>9, <2>10 DEF ServoThread
<1>3. CASE WorkerThread
  <2>1. CASE WorkerStopped  BY <2>1 DEF WorkerStopped
  <2>2. CASE ReadMailbox  BY <2>2 DEF ReadMailbox, Due
  <2>3. CASE TakeIoLock  BY <2>3 DEF TakeIoLock
  <2>4. CASE Recheck  BY <2>4 DEF Recheck
  <2>5. CASE SendTarget  BY <2>5 DEF SendTarget
  <2>6. CASE SendFails  BY <2>6 DEF SendFails, Halts
  <2>7. CASE PollState  BY <2>7 DEF PollState, Halts
  <2> QED  BY <1>1, <1>3, <2>1, <2>2, <2>3, <2>4, <2>5, <2>6, <2>7 DEF WorkerThread
<1>4. CASE PlannerThread
  <2>1. CASE SeesStop  BY <2>1 DEF SeesStop
  <2>2. CASE PlannerStops  BY <2>2 DEF PlannerStops, Halts
  <2>3. CASE StartInference  BY <2>3 DEF StartInference
  <2>4. CASE ObservationOver  BY <2>4 DEF ObservationOver
  <2>5. CASE PolicyFails  BY <2>5 DEF PolicyFails
  <2>6. CASE Proposes  BY <2>6 DEF Proposes
  <2>7. CASE VetoRecovers  BY <2>7 DEF VetoRecovers
  <2>8. CASE VetoGivesUp  BY <2>8 DEF VetoGivesUp, Halts
  <2>9. CASE Submit  BY <2>9 DEF Submit
  <2>10. CASE NextReplan  BY <2>10 DEF NextReplan
  <2>11. CASE EpisodeOver  BY <2>11 DEF EpisodeOver
  <2>12. CASE TeardownStop  BY <2>12 DEF TeardownStop
  <2>13. CASE TeardownClear  BY <2>13 DEF TeardownClear
  <2>14. CASE JoinServo  BY <2>14 DEF JoinServo, Joined
  <2>15. CASE JoinWorker  BY <2>15 DEF JoinWorker, Joined
  <2>16. CASE ServoStop  BY <2>16 DEF ServoStop
  <2>17. CASE Home  BY <2>17 DEF Home, FatalReason, RecoverControl
  <2>18. CASE StartEpisode  BY <2>18 DEF StartEpisode, NoHalt
  <2> QED  BY <1>1, <1>4, <2>1, <2>2, <2>3, <2>4, <2>5, <2>6, <2>7, <2>8, <2>9, <2>10, <2>11, <2>12, <2>13, <2>14, <2>15, <2>16, <2>17, <2>18 DEF PlannerThread
<1>5. CASE UNCHANGED vars  BY <1>5 DEF vars
<1> QED  BY <1>2, <1>3, <1>4, <1>5 DEF Next

\* A thread ends only in a stopped episode, and a stop has a reason.
LEMMA StepStops == TypeOK /\ HaltsInOrder /\ JoinsSettle /\ StopsExplained /\ [Next]_vars => StopsExplained'
<1> SUFFICES ASSUME TypeOK, HaltsInOrder, JoinsSettle, StopsExplained, [Next]_vars PROVE StopsExplained'
  OBVIOUS
<1> USE DEF Threads, Servo, Worker, Planner, ServoSteps, WorkerSteps, PlannerSteps, TeardownSteps, HaltSteps,
       None, halts, grips, finish, device, servos, At, Goto, TypeOK,
       HaltsInOrder, JoinsSettle, StopsExplained, Reasons
<1>1. ASSUME NEW t \in Threads, Halt(t) PROVE StopsExplained'
  <2>1. CASE HaltSetReason(t)  BY <2>1 DEF HaltSetReason
  <2>2. CASE HaltUnlatch(t)  BY <2>2 DEF HaltUnlatch
  <2>3. CASE HaltInvalidate(t)  BY <2>3 DEF HaltInvalidate
  <2>4. CASE HaltSetStop(t)  BY <2>4 DEF HaltSetStop, AfterHalt
  <2>5. CASE ReleaseLock(t)  BY <2>5 DEF ReleaseLock
  <2>6. CASE ReleaseMove(t)  BY <2>6 DEF ReleaseMove, AfterHalt
  <2> QED  BY <1>1, <2>1, <2>2, <2>3, <2>4, <2>5, <2>6 DEF Halt
<1>2. CASE ServoThread
  <2>1. CASE ServoStopped  BY <2>1 DEF ServoStopped
  <2>2. CASE ServoTick  BY <2>2 DEF ServoTick
  <2>3. CASE SafetyPasses  BY <2>3 DEF SafetyPasses
  <2>4. CASE SafetyStops  BY <2>4 DEF SafetyStops, Halts
  <2>5. CASE HoldFinish  BY <2>5 DEF HoldFinish
  <2>6. CASE ReleaseControl  BY <2>6 DEF ReleaseControl, ReleaseControlTo, LatchedGrip, Suppressing, NoteLatch, Updates
  <2>7. CASE ServoCommand  BY <2>7 DEF ServoCommand
  <2>8. CASE ServoCrash  BY <2>8 DEF ServoCrash, Halts
  <2>9. CASE ApplyLatch  BY <2>9 DEF ApplyLatch, LatchedGrip
  <2>10. CASE PostTarget  BY <2>10 DEF PostTarget
  <2> QED  BY <1>1, <1>2, <2>1, <2>2, <2>3, <2>4, <2>5, <2>6, <2>7, <2>8, <2>9, <2>10 DEF ServoThread
<1>3. CASE WorkerThread
  <2>1. CASE WorkerStopped  BY <2>1 DEF WorkerStopped
  <2>2. CASE ReadMailbox  BY <2>2 DEF ReadMailbox, Due
  <2>3. CASE TakeIoLock  BY <2>3 DEF TakeIoLock
  <2>4. CASE Recheck  BY <2>4 DEF Recheck
  <2>5. CASE SendTarget  BY <2>5 DEF SendTarget
  <2>6. CASE SendFails  BY <2>6 DEF SendFails, Halts
  <2>7. CASE PollState  BY <2>7 DEF PollState, Halts
  <2> QED  BY <1>1, <1>3, <2>1, <2>2, <2>3, <2>4, <2>5, <2>6, <2>7 DEF WorkerThread
<1>4. CASE PlannerThread
  <2>1. CASE SeesStop  BY <2>1 DEF SeesStop
  <2>2. CASE PlannerStops  BY <2>2 DEF PlannerStops, Halts
  <2>3. CASE StartInference  BY <2>3 DEF StartInference
  <2>4. CASE ObservationOver  BY <2>4 DEF ObservationOver
  <2>5. CASE PolicyFails  BY <2>5 DEF PolicyFails
  <2>6. CASE Proposes  BY <2>6 DEF Proposes
  <2>7. CASE VetoRecovers  BY <2>7 DEF VetoRecovers
  <2>8. CASE VetoGivesUp  BY <2>8 DEF VetoGivesUp, Halts
  <2>9. CASE Submit  BY <2>9 DEF Submit
  <2>10. CASE NextReplan  BY <2>10 DEF NextReplan
  <2>11. CASE EpisodeOver  BY <2>11 DEF EpisodeOver
  <2>12. CASE TeardownStop  BY <2>12 DEF TeardownStop
  <2>13. CASE TeardownClear  BY <2>13 DEF TeardownClear
  <2>14. CASE JoinServo  BY <2>14 DEF JoinServo, Joined
  <2>15. CASE JoinWorker  BY <2>15 DEF JoinWorker, Joined
  <2>16. CASE ServoStop  BY <2>16 DEF ServoStop
  <2>17. CASE Home  BY <2>17 DEF Home, FatalReason, RecoverControl
  <2>18. CASE StartEpisode  BY <2>18 DEF StartEpisode
  <2> QED  BY <1>1, <1>4, <2>1, <2>2, <2>3, <2>4, <2>5, <2>6, <2>7, <2>8, <2>9, <2>10, <2>11, <2>12, <2>13, <2>14, <2>15, <2>16, <2>17, <2>18 DEF PlannerThread
<1>5. CASE UNCHANGED vars  BY <1>5 DEF vars
<1> QED  BY <1>2, <1>3, <1>4, <1>5 DEF Next

\* The lock and the stop flag keep the worker from moving after a release.
LEMMA StepRelease == TypeOK /\ LockOwned /\ HaltsInOrder /\ JoinsSettle /\ ReleaseHolds /\ [Next]_vars => ReleaseHolds'
<1> SUFFICES ASSUME TypeOK, LockOwned, HaltsInOrder, JoinsSettle, ReleaseHolds, [Next]_vars PROVE ReleaseHolds'
  OBVIOUS
<1> USE DEF Threads, Servo, Worker, Planner, ServoSteps, WorkerSteps, PlannerSteps, TeardownSteps, HaltSteps,
       None, halts, grips, finish, device, servos, At, Goto, TypeOK,
       ReleaseHolds, JoinsSettle, HaltsInOrder, LockOwned, HoldsLock
<1>1. ASSUME NEW t \in Threads, Halt(t) PROVE ReleaseHolds'
  <2>1. CASE HaltSetReason(t)  BY <2>1 DEF HaltSetReason
  <2>2. CASE HaltUnlatch(t)  BY <2>2 DEF HaltUnlatch
  <2>3. CASE HaltInvalidate(t)  BY <2>3 DEF HaltInvalidate
  <2>4. CASE HaltSetStop(t)  BY <2>4 DEF HaltSetStop, AfterHalt
  <2>5. CASE ReleaseLock(t)  BY <2>5 DEF ReleaseLock
  <2>6. CASE ReleaseMove(t)  BY <2>6 DEF ReleaseMove, AfterHalt
  <2> QED  BY <1>1, <2>1, <2>2, <2>3, <2>4, <2>5, <2>6 DEF Halt
<1>2. CASE ServoThread
  <2>1. CASE ServoStopped  BY <2>1 DEF ServoStopped
  <2>2. CASE ServoTick  BY <2>2 DEF ServoTick
  <2>3. CASE SafetyPasses  BY <2>3 DEF SafetyPasses
  <2>4. CASE SafetyStops  BY <2>4 DEF SafetyStops, Halts
  <2>5. CASE HoldFinish  BY <2>5 DEF HoldFinish
  <2>6. CASE ReleaseControl  BY <2>6 DEF ReleaseControl, ReleaseControlTo, LatchedGrip, Suppressing, NoteLatch, Updates
  <2>7. CASE ServoCommand  BY <2>7 DEF ServoCommand
  <2>8. CASE ServoCrash  BY <2>8 DEF ServoCrash, Halts
  <2>9. CASE ApplyLatch  BY <2>9 DEF ApplyLatch, LatchedGrip
  <2>10. CASE PostTarget  BY <2>10 DEF PostTarget
  <2> QED  BY <1>1, <1>2, <2>1, <2>2, <2>3, <2>4, <2>5, <2>6, <2>7, <2>8, <2>9, <2>10 DEF ServoThread
<1>3. CASE WorkerThread
  <2>1. CASE WorkerStopped  BY <2>1 DEF WorkerStopped
  <2>2. CASE ReadMailbox  BY <2>2 DEF ReadMailbox, Due
  <2>3. CASE TakeIoLock  BY <2>3 DEF TakeIoLock
  <2>4. CASE Recheck  BY <2>4 DEF Recheck
  <2>5. CASE SendTarget  BY <2>5 DEF SendTarget
  <2>6. CASE SendFails  BY <2>6 DEF SendFails, Halts
  <2>7. CASE PollState  BY <2>7 DEF PollState, Halts
  <2> QED  BY <1>1, <1>3, <2>1, <2>2, <2>3, <2>4, <2>5, <2>6, <2>7 DEF WorkerThread
<1>4. CASE PlannerThread
  <2>1. CASE SeesStop  BY <2>1 DEF SeesStop
  <2>2. CASE PlannerStops  BY <2>2 DEF PlannerStops, Halts
  <2>3. CASE StartInference  BY <2>3 DEF StartInference
  <2>4. CASE ObservationOver  BY <2>4 DEF ObservationOver
  <2>5. CASE PolicyFails  BY <2>5 DEF PolicyFails
  <2>6. CASE Proposes  BY <2>6 DEF Proposes
  <2>7. CASE VetoRecovers  BY <2>7 DEF VetoRecovers
  <2>8. CASE VetoGivesUp  BY <2>8 DEF VetoGivesUp, Halts
  <2>9. CASE Submit  BY <2>9 DEF Submit
  <2>10. CASE NextReplan  BY <2>10 DEF NextReplan
  <2>11. CASE EpisodeOver  BY <2>11 DEF EpisodeOver
  <2>12. CASE TeardownStop  BY <2>12 DEF TeardownStop
  <2>13. CASE TeardownClear  BY <2>13 DEF TeardownClear
  <2>14. CASE JoinServo  BY <2>14 DEF JoinServo, Joined
  <2>15. CASE JoinWorker  BY <2>15 DEF JoinWorker, Joined
  <2>16. CASE ServoStop  BY <2>16 DEF ServoStop
  <2>17. CASE Home  BY <2>17 DEF Home, FatalReason, RecoverControl
  <2>18. CASE StartEpisode  BY <2>18 DEF StartEpisode
  <2> QED  BY <1>1, <1>4, <2>1, <2>2, <2>3, <2>4, <2>5, <2>6, <2>7, <2>8, <2>9, <2>10, <2>11, <2>12, <2>13, <2>14, <2>15, <2>16, <2>17, <2>18 DEF PlannerThread
<1>5. CASE UNCHANGED vars  BY <1>5 DEF vars
<1> QED  BY <1>2, <1>3, <1>4, <1>5 DEF Next

\* A thread that has been joined has ended, or the join is known to have failed.
LEMMA StepJoins == TypeOK /\ JoinsSettle /\ [Next]_vars => JoinsSettle'
<1> SUFFICES ASSUME TypeOK, JoinsSettle, [Next]_vars PROVE JoinsSettle'
  OBVIOUS
<1> USE DEF Threads, Servo, Worker, Planner, ServoSteps, WorkerSteps, PlannerSteps, TeardownSteps, HaltSteps,
       None, halts, grips, finish, device, servos, At, Goto, TypeOK,
       JoinsSettle, Reasons
<1>1. ASSUME NEW t \in Threads, Halt(t) PROVE JoinsSettle'
  <2>1. CASE HaltSetReason(t)  BY <2>1 DEF HaltSetReason
  <2>2. CASE HaltUnlatch(t)  BY <2>2 DEF HaltUnlatch
  <2>3. CASE HaltInvalidate(t)  BY <2>3 DEF HaltInvalidate
  <2>4. CASE HaltSetStop(t)  BY <2>4 DEF HaltSetStop, AfterHalt
  <2>5. CASE ReleaseLock(t)  BY <2>5 DEF ReleaseLock
  <2>6. CASE ReleaseMove(t)  BY <2>6 DEF ReleaseMove, AfterHalt
  <2> QED  BY <1>1, <2>1, <2>2, <2>3, <2>4, <2>5, <2>6 DEF Halt
<1>2. CASE ServoThread
  <2>1. CASE ServoStopped  BY <2>1 DEF ServoStopped
  <2>2. CASE ServoTick  BY <2>2 DEF ServoTick
  <2>3. CASE SafetyPasses  BY <2>3 DEF SafetyPasses
  <2>4. CASE SafetyStops  BY <2>4 DEF SafetyStops, Halts
  <2>5. CASE HoldFinish  BY <2>5 DEF HoldFinish
  <2>6. CASE ReleaseControl  BY <2>6 DEF ReleaseControl, ReleaseControlTo, LatchedGrip, Suppressing, NoteLatch, Updates
  <2>7. CASE ServoCommand  BY <2>7 DEF ServoCommand
  <2>8. CASE ServoCrash  BY <2>8 DEF ServoCrash, Halts
  <2>9. CASE ApplyLatch  BY <2>9 DEF ApplyLatch, LatchedGrip
  <2>10. CASE PostTarget  BY <2>10 DEF PostTarget
  <2> QED  BY <1>1, <1>2, <2>1, <2>2, <2>3, <2>4, <2>5, <2>6, <2>7, <2>8, <2>9, <2>10 DEF ServoThread
<1>3. CASE WorkerThread
  <2>1. CASE WorkerStopped  BY <2>1 DEF WorkerStopped
  <2>2. CASE ReadMailbox  BY <2>2 DEF ReadMailbox, Due
  <2>3. CASE TakeIoLock  BY <2>3 DEF TakeIoLock
  <2>4. CASE Recheck  BY <2>4 DEF Recheck
  <2>5. CASE SendTarget  BY <2>5 DEF SendTarget
  <2>6. CASE SendFails  BY <2>6 DEF SendFails, Halts
  <2>7. CASE PollState  BY <2>7 DEF PollState, Halts
  <2> QED  BY <1>1, <1>3, <2>1, <2>2, <2>3, <2>4, <2>5, <2>6, <2>7 DEF WorkerThread
<1>4. CASE PlannerThread
  <2>1. CASE SeesStop  BY <2>1 DEF SeesStop
  <2>2. CASE PlannerStops  BY <2>2 DEF PlannerStops, Halts
  <2>3. CASE StartInference  BY <2>3 DEF StartInference
  <2>4. CASE ObservationOver  BY <2>4 DEF ObservationOver
  <2>5. CASE PolicyFails  BY <2>5 DEF PolicyFails
  <2>6. CASE Proposes  BY <2>6 DEF Proposes
  <2>7. CASE VetoRecovers  BY <2>7 DEF VetoRecovers
  <2>8. CASE VetoGivesUp  BY <2>8 DEF VetoGivesUp, Halts
  <2>9. CASE Submit  BY <2>9 DEF Submit
  <2>10. CASE NextReplan  BY <2>10 DEF NextReplan
  <2>11. CASE EpisodeOver  BY <2>11 DEF EpisodeOver
  <2>12. CASE TeardownStop  BY <2>12 DEF TeardownStop
  <2>13. CASE TeardownClear  BY <2>13 DEF TeardownClear
  <2>14. CASE JoinServo  BY <2>14 DEF JoinServo, Joined
  <2>15. CASE JoinWorker  BY <2>15 DEF JoinWorker, Joined
  <2>16. CASE ServoStop  BY <2>16 DEF ServoStop
  <2>17. CASE Home  BY <2>17 DEF Home, FatalReason, RecoverControl
  <2>18. CASE StartEpisode  BY <2>18 DEF StartEpisode
  <2> QED  BY <1>1, <1>4, <2>1, <2>2, <2>3, <2>4, <2>5, <2>6, <2>7, <2>8, <2>9, <2>10, <2>11, <2>12, <2>13, <2>14, <2>15, <2>16, <2>17, <2>18 DEF PlannerThread
<1>5. CASE UNCHANGED vars  BY <1>5 DEF vars
<1> QED  BY <1>2, <1>3, <1>4, <1>5 DEF Next

\* Only the tick in progress reaches the arm after a stop.
LEMMA StepTicks == TypeOK /\ TicksCounted /\ JoinsSettle /\ [Next]_vars => TicksCounted'
<1> SUFFICES ASSUME TypeOK, TicksCounted, JoinsSettle, [Next]_vars PROVE TicksCounted'
  OBVIOUS
<1> USE DEF Threads, Servo, Worker, Planner, ServoSteps, WorkerSteps, PlannerSteps, TeardownSteps, HaltSteps,
       None, halts, grips, finish, device, servos, At, Goto, TypeOK,
       TicksCounted, JoinsSettle
<1>1. ASSUME NEW t \in Threads, Halt(t) PROVE TicksCounted'
  <2>1. CASE HaltSetReason(t)  BY <2>1 DEF HaltSetReason
  <2>2. CASE HaltUnlatch(t)  BY <2>2 DEF HaltUnlatch
  <2>3. CASE HaltInvalidate(t)  BY <2>3 DEF HaltInvalidate
  <2>4. CASE HaltSetStop(t)  BY <2>4 DEF HaltSetStop, AfterHalt
  <2>5. CASE ReleaseLock(t)  BY <2>5 DEF ReleaseLock
  <2>6. CASE ReleaseMove(t)  BY <2>6 DEF ReleaseMove, AfterHalt
  <2> QED  BY <1>1, <2>1, <2>2, <2>3, <2>4, <2>5, <2>6 DEF Halt
<1>2. CASE ServoThread
  <2>1. CASE ServoStopped  BY <2>1 DEF ServoStopped
  <2>2. CASE ServoTick  BY <2>2 DEF ServoTick
  <2>3. CASE SafetyPasses  BY <2>3 DEF SafetyPasses
  <2>4. CASE SafetyStops  BY <2>4 DEF SafetyStops, Halts
  <2>5. CASE HoldFinish  BY <2>5 DEF HoldFinish
  <2>6. CASE ReleaseControl  BY <2>6 DEF ReleaseControl, ReleaseControlTo, LatchedGrip, Suppressing, NoteLatch, Updates
  <2>7. CASE ServoCommand  BY <2>7 DEF ServoCommand
  <2>8. CASE ServoCrash  BY <2>8 DEF ServoCrash, Halts
  <2>9. CASE ApplyLatch  BY <2>9 DEF ApplyLatch, LatchedGrip
  <2>10. CASE PostTarget  BY <2>10 DEF PostTarget
  <2> QED  BY <1>1, <1>2, <2>1, <2>2, <2>3, <2>4, <2>5, <2>6, <2>7, <2>8, <2>9, <2>10 DEF ServoThread
<1>3. CASE WorkerThread
  <2>1. CASE WorkerStopped  BY <2>1 DEF WorkerStopped
  <2>2. CASE ReadMailbox  BY <2>2 DEF ReadMailbox, Due
  <2>3. CASE TakeIoLock  BY <2>3 DEF TakeIoLock
  <2>4. CASE Recheck  BY <2>4 DEF Recheck
  <2>5. CASE SendTarget  BY <2>5 DEF SendTarget
  <2>6. CASE SendFails  BY <2>6 DEF SendFails, Halts
  <2>7. CASE PollState  BY <2>7 DEF PollState, Halts
  <2> QED  BY <1>1, <1>3, <2>1, <2>2, <2>3, <2>4, <2>5, <2>6, <2>7 DEF WorkerThread
<1>4. CASE PlannerThread
  <2>1. CASE SeesStop  BY <2>1 DEF SeesStop
  <2>2. CASE PlannerStops  BY <2>2 DEF PlannerStops, Halts
  <2>3. CASE StartInference  BY <2>3 DEF StartInference
  <2>4. CASE ObservationOver  BY <2>4 DEF ObservationOver
  <2>5. CASE PolicyFails  BY <2>5 DEF PolicyFails
  <2>6. CASE Proposes  BY <2>6 DEF Proposes
  <2>7. CASE VetoRecovers  BY <2>7 DEF VetoRecovers
  <2>8. CASE VetoGivesUp  BY <2>8 DEF VetoGivesUp, Halts
  <2>9. CASE Submit  BY <2>9 DEF Submit
  <2>10. CASE NextReplan  BY <2>10 DEF NextReplan
  <2>11. CASE EpisodeOver  BY <2>11 DEF EpisodeOver
  <2>12. CASE TeardownStop  BY <2>12 DEF TeardownStop
  <2>13. CASE TeardownClear  BY <2>13 DEF TeardownClear
  <2>14. CASE JoinServo  BY <2>14 DEF JoinServo, Joined
  <2>15. CASE JoinWorker  BY <2>15 DEF JoinWorker, Joined
  <2>16. CASE ServoStop  BY <2>16 DEF ServoStop
  <2>17. CASE Home  BY <2>17 DEF Home, FatalReason, RecoverControl
  <2>18. CASE StartEpisode  BY <2>18 DEF StartEpisode
  <2> QED  BY <1>1, <1>4, <2>1, <2>2, <2>3, <2>4, <2>5, <2>6, <2>7, <2>8, <2>9, <2>10, <2>11, <2>12, <2>13, <2>14, <2>15, <2>16, <2>17, <2>18 DEF PlannerThread
<1>5. CASE UNCHANGED vars  BY <1>5 DEF vars
<1> QED  BY <1>2, <1>3, <1>4, <1>5 DEF Next

\* The finish freezes the aperture the device was last told.
LEMMA StepFinish == TypeOK /\ LockOwned /\ HaltsInOrder /\ ReleaseHolds /\ JoinsSettle /\ StopsExplained /\ FinishFrozen /\ [Next]_vars => FinishFrozen'
<1> SUFFICES ASSUME TypeOK, LockOwned, HaltsInOrder, ReleaseHolds, JoinsSettle, StopsExplained, FinishFrozen, [Next]_vars PROVE FinishFrozen'
  OBVIOUS
<1> USE DEF Threads, Servo, Worker, Planner, ServoSteps, WorkerSteps, PlannerSteps, TeardownSteps, HaltSteps,
       None, halts, grips, finish, device, servos, At, Goto, TypeOK,
       Managed, FinishFrozen, HaltsInOrder, StopsExplained, LockOwned, HoldsLock, ReleaseHolds,
       JoinsSettle, NoGrip, Grips, Phases
<1>1. ASSUME NEW t \in Threads, Halt(t) PROVE FinishFrozen'
  <2>1. CASE HaltSetReason(t)  BY <2>1 DEF HaltSetReason
  <2>2. CASE HaltUnlatch(t)  BY <2>2 DEF HaltUnlatch
  <2>3. CASE HaltInvalidate(t)  BY <2>3 DEF HaltInvalidate
  <2>4. CASE HaltSetStop(t)  BY <2>4 DEF HaltSetStop, AfterHalt
  <2>5. CASE ReleaseLock(t)  BY <2>5 DEF ReleaseLock
  <2>6. CASE ReleaseMove(t)  BY <2>6 DEF ReleaseMove, AfterHalt
  <2> QED  BY <1>1, <2>1, <2>2, <2>3, <2>4, <2>5, <2>6 DEF Halt
<1>2. CASE ServoThread
  <2>1. CASE ServoStopped  BY <2>1 DEF ServoStopped
  <2>2. CASE ServoTick  BY <2>2 DEF ServoTick
  <2>3. CASE SafetyPasses  BY <2>3 DEF SafetyPasses
  <2>4. CASE SafetyStops  BY <2>4 DEF SafetyStops, Halts
  <2>5. CASE HoldFinish  BY <2>5 DEF HoldFinish
  <2>6. CASE ReleaseControl
    <3>1. PICK phase \in Phases : ReleaseControlTo(phase)
      BY <2>6 DEF ReleaseControl
    <3>2. ~completed /\ UNCHANGED <<halts, plan, finishes, device, servos, joinFailed>>
          /\ pc' = [pc EXCEPT ![Servo] = "servo"]
      BY <2>6 DEF ReleaseControl
    <3>3. CASE phase = "finished"
      <4>1. controller = "releasing" /\ ioLock = None /\ lastCommand \in 0 .. OpenMax
        BY <3>1, <3>2, <3>3 DEF ReleaseControlTo, Updates, NoteLatch
      <4>2. /\ completed' = TRUE /\ finishGrip' = lastCommand /\ mailbox' = lastCommand /\ latch' = NoGrip
            /\ target' = [target EXCEPT ![Servo] = lastCommand] /\ controller' = "finished"
        BY <3>1, <3>3 DEF ReleaseControlTo, Suppressing, NoteLatch
      <4>3. lastCommand # NoGrip /\ lastCommand \in Grips
        BY <4>1, ExecutorAssumption
      <4> QED  BY <3>2, <4>1, <4>2, <4>3
    <3>4. CASE phase # "finished"
      <4>1. completed' = FALSE
        BY <3>1, <3>2, <3>4 DEF ReleaseControlTo
      <4>2. controller' # "finished"
        BY <3>1, <3>2, <3>4 DEF ReleaseControlTo, NoteLatch
      <4>3. UNCHANGED <<gripper, lastCommand, stop, joinFailed>> /\ target'[Worker] = target[Worker]
            /\ controller' # "native"
        BY <3>1, <3>2 DEF ReleaseControlTo, Updates, NoteLatch
      <4> QED  BY <3>2, <4>1, <4>2, <4>3
    <3> QED  BY <3>3, <3>4
  <2>7. CASE ServoCommand  BY <2>7 DEF ServoCommand
  <2>8. CASE ServoCrash  BY <2>8 DEF ServoCrash, Halts
  <2>9. CASE ApplyLatch
    <3>1. PICK result \in Grips : LatchedGrip(target[Servo], result) /\ target' = [target EXCEPT ![Servo] = result]
      BY <2>9 DEF ApplyLatch
    <3>2. ~completed
      BY <2>9 DEF ApplyLatch
    <3> QED  BY <2>9, <3>1, <3>2 DEF ApplyLatch
  <2>10. CASE PostTarget  BY <2>10 DEF PostTarget
  <2> QED  BY <1>1, <1>2, <2>1, <2>2, <2>3, <2>4, <2>5, <2>6, <2>7, <2>8, <2>9, <2>10 DEF ServoThread
<1>3. CASE WorkerThread
  <2>1. CASE WorkerStopped  BY <2>1 DEF WorkerStopped
  <2>2. CASE ReadMailbox  BY <2>2 DEF ReadMailbox, Due
  <2>3. CASE TakeIoLock  BY <2>3 DEF TakeIoLock
  <2>4. CASE Recheck  BY <2>4 DEF Recheck
  <2>5. CASE SendTarget  BY <2>5 DEF SendTarget
  <2>6. CASE SendFails  BY <2>6 DEF SendFails, Halts
  <2>7. CASE PollState  BY <2>7 DEF PollState, Halts
  <2> QED  BY <1>1, <1>3, <2>1, <2>2, <2>3, <2>4, <2>5, <2>6, <2>7 DEF WorkerThread
<1>4. CASE PlannerThread
  <2>1. CASE SeesStop  BY <2>1 DEF SeesStop
  <2>2. CASE PlannerStops  BY <2>2 DEF PlannerStops, Halts
  <2>3. CASE StartInference  BY <2>3 DEF StartInference
  <2>4. CASE ObservationOver  BY <2>4 DEF ObservationOver
  <2>5. CASE PolicyFails  BY <2>5 DEF PolicyFails
  <2>6. CASE Proposes  BY <2>6 DEF Proposes
  <2>7. CASE VetoRecovers  BY <2>7 DEF VetoRecovers
  <2>8. CASE VetoGivesUp  BY <2>8 DEF VetoGivesUp, Halts
  <2>9. CASE Submit  BY <2>9 DEF Submit
  <2>10. CASE NextReplan  BY <2>10 DEF NextReplan
  <2>11. CASE EpisodeOver  BY <2>11 DEF EpisodeOver
  <2>12. CASE TeardownStop  BY <2>12 DEF TeardownStop
  <2>13. CASE TeardownClear  BY <2>13 DEF TeardownClear
  <2>14. CASE JoinServo  BY <2>14 DEF JoinServo, Joined
  <2>15. CASE JoinWorker  BY <2>15 DEF JoinWorker, Joined
  <2>16. CASE ServoStop  BY <2>16 DEF ServoStop
  <2>17. CASE Home  BY <2>17 DEF Home, FatalReason, RecoverControl
  <2>18. CASE StartEpisode  BY <2>18 DEF StartEpisode
  <2> QED  BY <1>1, <1>4, <2>1, <2>2, <2>3, <2>4, <2>5, <2>6, <2>7, <2>8, <2>9, <2>10, <2>11, <2>12, <2>13, <2>14, <2>15, <2>16, <2>17, <2>18 DEF PlannerThread
<1>5. CASE UNCHANGED vars  BY <1>5 DEF vars
<1> QED  BY <1>2, <1>3, <1>4, <1>5 DEF Next

\* The latch floors what the tick posts.
LEMMA StepFloors == TypeOK /\ FinishFrozen /\ LatchFloors /\ [Next]_vars => LatchFloors'
<1> SUFFICES ASSUME TypeOK, FinishFrozen, LatchFloors, [Next]_vars PROVE LatchFloors'
  OBVIOUS
<1> USE DEF Threads, Servo, Worker, Planner, ServoSteps, WorkerSteps, PlannerSteps, TeardownSteps, HaltSteps,
       None, halts, grips, finish, device, servos, At, Goto, TypeOK,
       Managed, LatchFloors, Latching, FinishFrozen, NoGrip, Grips, Phases
<1>1. ASSUME NEW t \in Threads, Halt(t) PROVE LatchFloors'
  <2>1. CASE HaltSetReason(t)  BY <2>1 DEF HaltSetReason
  <2>2. CASE HaltUnlatch(t)  BY <2>2 DEF HaltUnlatch
  <2>3. CASE HaltInvalidate(t)  BY <2>3 DEF HaltInvalidate
  <2>4. CASE HaltSetStop(t)  BY <2>4 DEF HaltSetStop, AfterHalt
  <2>5. CASE ReleaseLock(t)  BY <2>5 DEF ReleaseLock
  <2>6. CASE ReleaseMove(t)  BY <2>6 DEF ReleaseMove, AfterHalt
  <2> QED  BY <1>1, <2>1, <2>2, <2>3, <2>4, <2>5, <2>6 DEF Halt
<1>2. CASE ServoThread
  <2>1. CASE ServoStopped  BY <2>1 DEF ServoStopped
  <2>2. CASE ServoTick  BY <2>2 DEF ServoTick
  <2>3. CASE SafetyPasses  BY <2>3 DEF SafetyPasses
  <2>4. CASE SafetyStops  BY <2>4 DEF SafetyStops, Halts
  <2>5. CASE HoldFinish  BY <2>5 DEF HoldFinish
  <2>6. CASE ReleaseControl  BY <2>6 DEF ReleaseControl, ReleaseControlTo, LatchedGrip, Suppressing, NoteLatch, Updates
  <2>7. CASE ServoCommand  BY <2>7 DEF ServoCommand
  <2>8. CASE ServoCrash  BY <2>8 DEF ServoCrash, Halts
  <2>9. CASE ApplyLatch  BY <2>9 DEF ApplyLatch, LatchedGrip
  <2>10. CASE PostTarget  BY <2>10 DEF PostTarget
  <2> QED  BY <1>1, <1>2, <2>1, <2>2, <2>3, <2>4, <2>5, <2>6, <2>7, <2>8, <2>9, <2>10 DEF ServoThread
<1>3. CASE WorkerThread
  <2>1. CASE WorkerStopped  BY <2>1 DEF WorkerStopped
  <2>2. CASE ReadMailbox  BY <2>2 DEF ReadMailbox, Due
  <2>3. CASE TakeIoLock  BY <2>3 DEF TakeIoLock
  <2>4. CASE Recheck  BY <2>4 DEF Recheck
  <2>5. CASE SendTarget  BY <2>5 DEF SendTarget
  <2>6. CASE SendFails  BY <2>6 DEF SendFails, Halts
  <2>7. CASE PollState  BY <2>7 DEF PollState, Halts
  <2> QED  BY <1>1, <1>3, <2>1, <2>2, <2>3, <2>4, <2>5, <2>6, <2>7 DEF WorkerThread
<1>4. CASE PlannerThread
  <2>1. CASE SeesStop  BY <2>1 DEF SeesStop
  <2>2. CASE PlannerStops  BY <2>2 DEF PlannerStops, Halts
  <2>3. CASE StartInference  BY <2>3 DEF StartInference
  <2>4. CASE ObservationOver  BY <2>4 DEF ObservationOver
  <2>5. CASE PolicyFails  BY <2>5 DEF PolicyFails
  <2>6. CASE Proposes  BY <2>6 DEF Proposes
  <2>7. CASE VetoRecovers  BY <2>7 DEF VetoRecovers
  <2>8. CASE VetoGivesUp  BY <2>8 DEF VetoGivesUp, Halts
  <2>9. CASE Submit  BY <2>9 DEF Submit
  <2>10. CASE NextReplan  BY <2>10 DEF NextReplan
  <2>11. CASE EpisodeOver  BY <2>11 DEF EpisodeOver
  <2>12. CASE TeardownStop  BY <2>12 DEF TeardownStop
  <2>13. CASE TeardownClear  BY <2>13 DEF TeardownClear
  <2>14. CASE JoinServo  BY <2>14 DEF JoinServo, Joined
  <2>15. CASE JoinWorker  BY <2>15 DEF JoinWorker, Joined
  <2>16. CASE ServoStop  BY <2>16 DEF ServoStop
  <2>17. CASE Home  BY <2>17 DEF Home, FatalReason, RecoverControl
  <2>18. CASE StartEpisode  BY <2>18 DEF StartEpisode
  <2> QED  BY <1>1, <1>4, <2>1, <2>2, <2>3, <2>4, <2>5, <2>6, <2>7, <2>8, <2>9, <2>10, <2>11, <2>12, <2>13, <2>14, <2>15, <2>16, <2>17, <2>18 DEF PlannerThread
<1>5. CASE UNCHANGED vars  BY <1>5 DEF vars
<1> QED  BY <1>2, <1>3, <1>4, <1>5 DEF Next

\* A thread halts once in an episode, so what it asked for is not overwritten.
LEMMA StepOnce == TypeOK /\ HaltsOnce /\ [Next]_vars => HaltsOnce'
<1> SUFFICES ASSUME TypeOK, HaltsOnce, [Next]_vars PROVE HaltsOnce'
  OBVIOUS
<1> USE DEF Threads, Servo, Worker, Planner, ServoSteps, WorkerSteps, PlannerSteps, TeardownSteps, HaltSteps,
       None, halts, grips, finish, device, servos, At, Goto, TypeOK,
       HaltsOnce
<1>1. ASSUME NEW t \in Threads, Halt(t) PROVE HaltsOnce'
  <2>1. CASE HaltSetReason(t)  BY <2>1 DEF HaltSetReason
  <2>2. CASE HaltUnlatch(t)  BY <2>2 DEF HaltUnlatch
  <2>3. CASE HaltInvalidate(t)  BY <2>3 DEF HaltInvalidate
  <2>4. CASE HaltSetStop(t)  BY <2>4 DEF HaltSetStop, AfterHalt
  <2>5. CASE ReleaseLock(t)  BY <2>5 DEF ReleaseLock
  <2>6. CASE ReleaseMove(t)  BY <2>6 DEF ReleaseMove, AfterHalt
  <2> QED  BY <1>1, <2>1, <2>2, <2>3, <2>4, <2>5, <2>6 DEF Halt
<1>2. CASE ServoThread
  <2>1. CASE ServoStopped  BY <2>1 DEF ServoStopped
  <2>2. CASE ServoTick  BY <2>2 DEF ServoTick
  <2>3. CASE SafetyPasses  BY <2>3 DEF SafetyPasses
  <2>4. CASE SafetyStops  BY <2>4 DEF SafetyStops, Halts
  <2>5. CASE HoldFinish  BY <2>5 DEF HoldFinish
  <2>6. CASE ReleaseControl  BY <2>6 DEF ReleaseControl, ReleaseControlTo, LatchedGrip, Suppressing, NoteLatch, Updates
  <2>7. CASE ServoCommand  BY <2>7 DEF ServoCommand
  <2>8. CASE ServoCrash  BY <2>8 DEF ServoCrash, Halts
  <2>9. CASE ApplyLatch  BY <2>9 DEF ApplyLatch, LatchedGrip
  <2>10. CASE PostTarget  BY <2>10 DEF PostTarget
  <2> QED  BY <1>1, <1>2, <2>1, <2>2, <2>3, <2>4, <2>5, <2>6, <2>7, <2>8, <2>9, <2>10 DEF ServoThread
<1>3. CASE WorkerThread
  <2>1. CASE WorkerStopped  BY <2>1 DEF WorkerStopped
  <2>2. CASE ReadMailbox  BY <2>2 DEF ReadMailbox, Due
  <2>3. CASE TakeIoLock  BY <2>3 DEF TakeIoLock
  <2>4. CASE Recheck  BY <2>4 DEF Recheck
  <2>5. CASE SendTarget  BY <2>5 DEF SendTarget
  <2>6. CASE SendFails  BY <2>6 DEF SendFails, Halts
  <2>7. CASE PollState  BY <2>7 DEF PollState, Halts
  <2> QED  BY <1>1, <1>3, <2>1, <2>2, <2>3, <2>4, <2>5, <2>6, <2>7 DEF WorkerThread
<1>4. CASE PlannerThread
  <2>1. CASE SeesStop  BY <2>1 DEF SeesStop
  <2>2. CASE PlannerStops  BY <2>2 DEF PlannerStops, Halts
  <2>3. CASE StartInference  BY <2>3 DEF StartInference
  <2>4. CASE ObservationOver  BY <2>4 DEF ObservationOver
  <2>5. CASE PolicyFails  BY <2>5 DEF PolicyFails
  <2>6. CASE Proposes  BY <2>6 DEF Proposes
  <2>7. CASE VetoRecovers  BY <2>7 DEF VetoRecovers
  <2>8. CASE VetoGivesUp  BY <2>8 DEF VetoGivesUp, Halts
  <2>9. CASE Submit  BY <2>9 DEF Submit
  <2>10. CASE NextReplan  BY <2>10 DEF NextReplan
  <2>11. CASE EpisodeOver  BY <2>11 DEF EpisodeOver
  <2>12. CASE TeardownStop  BY <2>12 DEF TeardownStop
  <2>13. CASE TeardownClear  BY <2>13 DEF TeardownClear
  <2>14. CASE JoinServo  BY <2>14 DEF JoinServo, Joined
  <2>15. CASE JoinWorker  BY <2>15 DEF JoinWorker, Joined
  <2>16. CASE ServoStop  BY <2>16 DEF ServoStop
  <2>17. CASE Home  BY <2>17 DEF Home, FatalReason, RecoverControl
  <2>18. CASE StartEpisode  BY <2>18 DEF StartEpisode, NoHalt
  <2> QED  BY <1>1, <1>4, <2>1, <2>2, <2>3, <2>4, <2>5, <2>6, <2>7, <2>8, <2>9, <2>10, <2>11, <2>12, <2>13, <2>14, <2>15, <2>16, <2>17, <2>18 DEF PlannerThread
<1>5. CASE UNCHANGED vars  BY <1>5 DEF vars
<1> QED  BY <1>2, <1>3, <1>4, <1>5 DEF Next

\* A stream that could not be stopped leaves a reason.
LEMMA StepGuard == TypeOK /\ JoinsSettle /\ StuckGuardHasReason /\ [Next]_vars => StuckGuardHasReason'
<1> SUFFICES ASSUME TypeOK, JoinsSettle, StuckGuardHasReason, [Next]_vars PROVE StuckGuardHasReason'
  OBVIOUS
<1> USE DEF Threads, Servo, Worker, Planner, ServoSteps, WorkerSteps, PlannerSteps, TeardownSteps, HaltSteps,
       None, halts, grips, finish, device, servos, At, Goto, TypeOK,
       StuckGuardHasReason, JoinsSettle
<1>1. ASSUME NEW t \in Threads, Halt(t) PROVE StuckGuardHasReason'
  <2>1. CASE HaltSetReason(t)  BY <2>1 DEF HaltSetReason
  <2>2. CASE HaltUnlatch(t)  BY <2>2 DEF HaltUnlatch
  <2>3. CASE HaltInvalidate(t)  BY <2>3 DEF HaltInvalidate
  <2>4. CASE HaltSetStop(t)  BY <2>4 DEF HaltSetStop, AfterHalt
  <2>5. CASE ReleaseLock(t)  BY <2>5 DEF ReleaseLock
  <2>6. CASE ReleaseMove(t)  BY <2>6 DEF ReleaseMove, AfterHalt
  <2> QED  BY <1>1, <2>1, <2>2, <2>3, <2>4, <2>5, <2>6 DEF Halt
<1>2. CASE ServoThread
  <2>1. CASE ServoStopped  BY <2>1 DEF ServoStopped
  <2>2. CASE ServoTick  BY <2>2 DEF ServoTick
  <2>3. CASE SafetyPasses  BY <2>3 DEF SafetyPasses
  <2>4. CASE SafetyStops  BY <2>4 DEF SafetyStops, Halts
  <2>5. CASE HoldFinish  BY <2>5 DEF HoldFinish
  <2>6. CASE ReleaseControl  BY <2>6 DEF ReleaseControl, ReleaseControlTo, LatchedGrip, Suppressing, NoteLatch, Updates
  <2>7. CASE ServoCommand  BY <2>7 DEF ServoCommand
  <2>8. CASE ServoCrash  BY <2>8 DEF ServoCrash, Halts
  <2>9. CASE ApplyLatch  BY <2>9 DEF ApplyLatch, LatchedGrip
  <2>10. CASE PostTarget  BY <2>10 DEF PostTarget
  <2> QED  BY <1>1, <1>2, <2>1, <2>2, <2>3, <2>4, <2>5, <2>6, <2>7, <2>8, <2>9, <2>10 DEF ServoThread
<1>3. CASE WorkerThread
  <2>1. CASE WorkerStopped  BY <2>1 DEF WorkerStopped
  <2>2. CASE ReadMailbox  BY <2>2 DEF ReadMailbox, Due
  <2>3. CASE TakeIoLock  BY <2>3 DEF TakeIoLock
  <2>4. CASE Recheck  BY <2>4 DEF Recheck
  <2>5. CASE SendTarget  BY <2>5 DEF SendTarget
  <2>6. CASE SendFails  BY <2>6 DEF SendFails, Halts
  <2>7. CASE PollState  BY <2>7 DEF PollState, Halts
  <2> QED  BY <1>1, <1>3, <2>1, <2>2, <2>3, <2>4, <2>5, <2>6, <2>7 DEF WorkerThread
<1>4. CASE PlannerThread
  <2>1. CASE SeesStop  BY <2>1 DEF SeesStop
  <2>2. CASE PlannerStops  BY <2>2 DEF PlannerStops, Halts
  <2>3. CASE StartInference  BY <2>3 DEF StartInference
  <2>4. CASE ObservationOver  BY <2>4 DEF ObservationOver
  <2>5. CASE PolicyFails  BY <2>5 DEF PolicyFails
  <2>6. CASE Proposes  BY <2>6 DEF Proposes
  <2>7. CASE VetoRecovers  BY <2>7 DEF VetoRecovers
  <2>8. CASE VetoGivesUp  BY <2>8 DEF VetoGivesUp, Halts
  <2>9. CASE Submit  BY <2>9 DEF Submit
  <2>10. CASE NextReplan  BY <2>10 DEF NextReplan
  <2>11. CASE EpisodeOver  BY <2>11 DEF EpisodeOver
  <2>12. CASE TeardownStop  BY <2>12 DEF TeardownStop
  <2>13. CASE TeardownClear  BY <2>13 DEF TeardownClear
  <2>14. CASE JoinServo  BY <2>14 DEF JoinServo, Joined
  <2>15. CASE JoinWorker  BY <2>15 DEF JoinWorker, Joined
  <2>16. CASE ServoStop  BY <2>16 DEF ServoStop
  <2>17. CASE Home  BY <2>17 DEF Home, FatalReason, RecoverControl
  <2>18. CASE StartEpisode  BY <2>18 DEF StartEpisode
  <2> QED  BY <1>1, <1>4, <2>1, <2>2, <2>3, <2>4, <2>5, <2>6, <2>7, <2>8, <2>9, <2>10, <2>11, <2>12, <2>13, <2>14, <2>15, <2>16, <2>17, <2>18 DEF PlannerThread
<1>5. CASE UNCHANGED vars  BY <1>5 DEF vars
<1> QED  BY <1>2, <1>3, <1>4, <1>5 DEF Next

-----------------------------------------------------------------------------
(* The inductive invariant and what follows from it.                       *)

LEMMA InitExecInv == Init => ExecInv
<1> SUFFICES ASSUME Init PROVE ExecInv
  OBVIOUS
<1>1. \A t \in Threads : pc[t] \in {"plan", "check"}
  BY DEF Init
<1>2. pc[Planner] = "plan" /\ pc[Servo] = "check" /\ pc[Worker] = "check"
  BY DEF Init, Threads, Servo, Worker, Planner
<1>3. LockOwned
  BY <1>1, <1>2 DEF Init, LockOwned, HoldsLock, Threads, Servo, Worker, Planner, None
<1>4. HaltsInOrder /\ HaltsOnce /\ StopsExplained
  BY <1>1, <1>2 DEF Init, HaltsInOrder, HaltsOnce, StopsExplained, HaltSteps, At, NoHalt
<1>5. ReleaseHolds /\ JoinsSettle /\ TicksCounted /\ StuckGuardHasReason
  BY <1>2 DEF Init, ReleaseHolds, JoinsSettle, TicksCounted, StuckGuardHasReason, At, None
<1>6. FinishFrozen
  BY <1>2 DEF Init, FinishFrozen, At
<1>7. LatchFloors
  BY DEF Init, LatchFloors
<1> QED  BY <1>3, <1>4, <1>5, <1>6, <1>7 DEF ExecInv

\* ExecInv is inductive together with the types.
THEOREM ExecCorrect == Spec => []ExecInv
<1>1. TypeOK /\ ExecInv /\ [Next]_vars => ExecInv'
  BY StepLock, StepHalts, StepOnce, StepStops, StepRelease, StepJoins, StepTicks, StepFinish,
     StepFloors, StepGuard DEF ExecInv
<1> QED  BY InitExecInv, ExecTypeCorrect, <1>1, PTL DEF Spec

\* Homing for the next episode finds both threads of the last one ended.
THEOREM HandoverIsClean == Spec => []CleanHandover
<1>1. TypeOK /\ ExecInv => CleanHandover
  BY DEF TypeOK, ExecInv, CleanHandover, HandingOver, FatalReason, JoinsSettle, LockOwned,
         HoldsLock, At, Threads, Servo, Worker, Planner, None
<1> QED  BY ExecCorrect, ExecTypeCorrect, <1>1, PTL

\* A stop that means "let go" commands the fingers open before the next
\* episode.
THEOREM LetGoIsHonoured == Spec => []LetGoHonoured
<1>1. TypeOK /\ ExecInv => LetGoHonoured
  BY DEF TypeOK, ExecInv, LetGoHonoured, HandingOver, FatalReason, JoinsSettle, HaltsInOrder,
         HaltSteps, At, Threads, Servo, Worker, Planner
<1> QED  BY ExecCorrect, ExecTypeCorrect, <1>1, PTL

\* At most one servo call follows a stop.
THEOREM AtMostOneLateTick == Spec => []OneLateTick
<1>1. ExecInv => OneLateTick
  BY DEF ExecInv, TicksCounted, OneLateTick
<1> QED  BY ExecCorrect, <1>1, PTL

\* A dead servo thread or worker is visible to the planner.
THEOREM DeathsSurface == Spec => []DeathSurfaces
<1>1. ExecInv => DeathSurfaces
  BY DEF ExecInv, StopsExplained, DeathSurfaces
<1> QED  BY ExecCorrect, <1>1, PTL

\* The armed latch floors what is left for the worker.
THEOREM LatchIsFloor == Spec => []LatchFloorsMailbox
<1>1. ExecInv => LatchFloorsMailbox
  BY DEF ExecInv, LatchFloors, Latching, LatchFloorsMailbox
<1> QED  BY ExecCorrect, <1>1, PTL

\* A servo stream that could not be stopped leaves a stop reason behind.
THEOREM StuckGuardsSurface == Spec => []StuckGuardHasReason
<1>1. ExecInv => StuckGuardHasReason
  BY DEF ExecInv
<1> QED  BY ExecCorrect, <1>1, PTL

\* The steps that command the device.
Moves == SendTarget \/ SendFails \/ Home \/ \E t \in Threads : ReleaseMove(t)

LEMMA OnlyMoves == [Next]_vars => UNCHANGED gripper \/ Moves
<1> SUFFICES ASSUME [Next]_vars PROVE UNCHANGED gripper \/ Moves
  OBVIOUS
<1> USE DEF halts, grips, finish, device, servos, Moves
<1>1. ASSUME NEW t \in Threads, Halt(t) PROVE UNCHANGED gripper \/ Moves
  BY <1>1 DEF Halt, HaltSetReason, HaltUnlatch, HaltInvalidate, HaltSetStop, ReleaseLock
<1>2. CASE ServoThread
  BY <1>1, <1>2 DEF Threads, ServoThread, ServoStopped, ServoTick, SafetyPasses, SafetyStops, HoldFinish, ReleaseControl, ServoCommand, ServoCrash, ApplyLatch, PostTarget
<1>3. CASE WorkerThread
  BY <1>1, <1>3 DEF Threads, WorkerThread, WorkerStopped, ReadMailbox, TakeIoLock, Recheck, PollState
<1>4. CASE PlannerThread
  BY <1>1, <1>4 DEF Threads, PlannerThread, SeesStop, PlannerStops, StartInference, ObservationOver, PolicyFails, Proposes, VetoRecovers, VetoGivesUp, Submit, NextReplan, EpisodeOver, TeardownStop, TeardownClear, JoinServo, JoinWorker, ServoStop, StartEpisode
<1>5. CASE UNCHANGED vars  BY <1>5 DEF vars
<1> QED  BY <1>2, <1>3, <1>4, <1>5 DEF Next

\* After a let-go release nothing moves the fingers until the next homing.
THEOREM NothingFollowsRelease == Spec => ReleaseIsLast
<1> DEFINE Holds == release = "done" /\ release' = "done" => gripper' = gripper
<1>1. ASSUME TypeOK, ExecInv, [Next]_vars PROVE Holds
  <2>1. CASE SendTarget \/ SendFails
    BY <1>1, <2>1 DEF ExecInv, ReleaseHolds, SendTarget, SendFails
  <2>2. ASSUME NEW t \in Threads, ReleaseMove(t) PROVE Holds
    BY <1>1, <2>2 DEF ExecInv, ReleaseHolds, ReleaseMove
  <2>3. CASE Home
    BY <2>3 DEF Home, None
  <2> QED  BY <1>1, <2>1, <2>2, <2>3, OnlyMoves DEF Moves
<1>2. TypeOK /\ ExecInv /\ [Next]_vars => [release = "done" /\ release' = "done" => gripper' = gripper]_vars
  BY <1>1
<1> QED  BY ExecCorrect, ExecTypeCorrect, <1>2, PTL DEF Spec, ReleaseIsLast

\* After a completed placement only a let-go moves the fingers.
THEOREM NothingFollowsFinish == Spec => FinishIsFinal
<1> DEFINE Holds == completed /\ pc'[Planner] # "start" => gripper' \in {gripper, OpenAperture}
<1>1. ASSUME TypeOK, ExecInv, [Next]_vars PROVE Holds
  <2>1. CASE SendTarget \/ SendFails
    BY <1>1, <2>1 DEF TypeOK, ExecInv, FinishFrozen, SendTarget, SendFails, HaltSteps, At
  <2>2. ASSUME NEW t \in Threads, ReleaseMove(t) PROVE Holds
    BY <2>2 DEF ReleaseMove
  <2>3. CASE Home
    BY <1>1, <2>3 DEF Home, Goto, TypeOK, Threads, Planner
  <2> QED  BY <1>1, <2>1, <2>2, <2>3, OnlyMoves DEF Moves
<1>2. TypeOK /\ ExecInv /\ [Next]_vars
        => [completed /\ pc'[Planner] # "start" => gripper' \in {gripper, OpenAperture}]_vars
  BY <1>1
<1> QED  BY ExecCorrect, ExecTypeCorrect, <1>2, PTL DEF Spec, FinishIsFinal

-----------------------------------------------------------------------------
(* The refinement of EpisodeGrip.                                          *)

\* Homing ends an episode and nothing but StartEpisode follows it.
LEMMA HomedOnly ==
  ASSUME TypeOK, ExecInv, Next
  PROVE  /\ At(Planner, "start") => StartEpisode
         /\ At(Planner, "start")' => Home
<1> USE DEF Threads, Servo, Worker, Planner, HaltSteps, At, Goto, TypeOK
<1>0. pc[Planner] = "start" => pc[Servo] = "done" /\ pc[Worker] = "done"
  BY DEF ExecInv, JoinsSettle
<1>1. ASSUME NEW t \in Threads, Halt(t) PROVE pc[Planner] # "start" /\ pc'[Planner] # "start"
  BY <1>0, <1>1 DEF Halt, HaltSetReason, HaltUnlatch, HaltInvalidate, HaltSetStop, ReleaseLock, ReleaseMove, AfterHalt
<1>2. ASSUME ServoThread PROVE pc[Planner] # "start" /\ pc'[Planner] # "start"
  BY <1>0, <1>1, <1>2 DEF ServoThread, ServoStopped, ServoTick, SafetyPasses, SafetyStops, HoldFinish, ReleaseControl, ServoCommand, ServoCrash, ApplyLatch, PostTarget, Halts
<1>3. ASSUME WorkerThread PROVE pc[Planner] # "start" /\ pc'[Planner] # "start"
  BY <1>0, <1>1, <1>3 DEF WorkerThread, WorkerStopped, ReadMailbox, TakeIoLock, Recheck, SendTarget, SendFails, PollState, Halts
<1>4. ASSUME PlannerThread PROVE (pc[Planner] = "start" => StartEpisode) /\ (pc'[Planner] = "start" => Home)
  <2>1. CASE SeesStop \/ PlannerStops \/ StartInference \/ ObservationOver \/ PolicyFails \/ Proposes \/ VetoRecovers \/ VetoGivesUp
    BY <2>1 DEF SeesStop, PlannerStops, StartInference, ObservationOver, PolicyFails, Proposes, VetoRecovers, VetoGivesUp, Halts
  <2>2. CASE Submit \/ NextReplan \/ EpisodeOver \/ TeardownStop \/ TeardownClear \/ JoinServo \/ JoinWorker \/ ServoStop
    BY <2>2 DEF Submit, NextReplan, EpisodeOver, TeardownStop, TeardownClear, JoinServo, JoinWorker, ServoStop
  <2>3. CASE Home
    BY <2>3 DEF Home
  <2>4. CASE StartEpisode
    BY <2>4 DEF StartEpisode
  <2> QED  BY <1>1, <1>4, <2>1, <2>2, <2>3, <2>4 DEF PlannerThread
<1> QED  BY <1>2, <1>3, <1>4 DEF Next

\* A step inside an episode.
Inside == ~At(Planner, "start") /\ ~At(Planner, "start")'

LEMMA WorkerStays ==
  ASSUME UNCHANGED <<pc[Worker], target[Worker]>>
  PROVE  UNCHANGED MoveUnderway
<1> QED  BY DEF MoveUnderway, At

LEMMA WordStays ==
  ASSUME UNCHANGED halting
  PROVE  UNCHANGED LetGoAsked
<1> QED  BY DEF LetGoAsked

\* A call of _halt by a thread that has not halted yet asks for a let-go or
\* changes nothing about it.
LEMMA HaltAsks ==
  ASSUME TypeOK, ExecInv, NEW t \in Threads, NEW reason \in Reasons, NEW letgo \in BOOLEAN,
         pc[t] \notin HaltSteps \cup TeardownSteps \cup {"done", "home", "start"},
         Halts(t, reason, letgo)
  PROVE  LetGoAsked' = (LetGoAsked \/ letgo)
<1>1. halting' = [halting EXCEPT ![t] = [reason |-> reason, letgo |-> letgo]]
  BY DEF Halts
<1>2. ~halting[t].letgo
  BY DEF ExecInv, HaltsOnce
<1>3. halting \in [Threads -> [reason : Reasons \cup {None}, letgo : BOOLEAN]]
  BY DEF TypeOK
<1>4. halting'[t].letgo = letgo /\ \A u \in Threads \ {t} : halting'[u] = halting[u]
  BY <1>1, <1>3
<1>5. CASE letgo
  <2>1. LetGoAsked'
    BY <1>4, <1>5 DEF LetGoAsked
  <2> QED  BY <2>1, <1>5 DEF LetGoAsked
<1>6. CASE ~letgo
  <2>1. ASSUME NEW u \in Threads PROVE halting'[u].letgo <=> halting[u].letgo
    BY <1>2, <1>4, <1>6
  <2> QED  BY <2>1, <1>6 DEF LetGoAsked
<1> QED  BY <1>5, <1>6

\* Each thread step is a step of the abstract grip or a stutter.
LEMMA GripHalt ==
  ASSUME TypeOK, ExecInv, NEW t \in Threads, Halt(t), Inside
  PROVE  [Grip!Next]_(Grip!vars)
<1> USE DEF Grip!Next, Grip!vars, Inside, At
<1>0. /\ pc[Worker] \in HaltSteps \/ t # Worker
      /\ t = Worker => pc[Worker] # "moving"
  BY DEF Halt, HaltSetReason, HaltUnlatch, HaltInvalidate, HaltSetStop, ReleaseLock, ReleaseMove, At, HaltSteps
<1>1. UNCHANGED MoveUnderway
  BY <1>0 DEF MoveUnderway, At, Goto, TypeOK, Threads, Worker, Halt, HaltSetReason, HaltUnlatch, HaltInvalidate, HaltSetStop, ReleaseLock, ReleaseMove, AfterHalt
<1>2. UNCHANGED LetGoAsked
  <2>1. ASSUME NEW u \in Threads PROVE halting'[u].letgo = halting[u].letgo
    BY DEF TypeOK, Halt, HaltSetReason, HaltUnlatch, HaltInvalidate, HaltSetStop, ReleaseLock, ReleaseMove, halts
  <2> QED  BY <2>1 DEF LetGoAsked
<1>3. CASE HaltSetReason(t) \/ HaltUnlatch(t) \/ HaltInvalidate(t) \/ ReleaseLock(t)
  BY <1>1, <1>2, <1>3 DEF HaltSetReason, HaltUnlatch, HaltInvalidate, ReleaseLock, halts, device, finish
<1>4. CASE HaltSetStop(t)
  <2>1. Grip!Stop
    BY <1>1, <1>2, <1>4 DEF Grip!Stop, HaltSetStop, device, finish
  <2> QED  BY <2>1
<1>5. CASE ReleaseMove(t)
  <2>1. stop /\ MoveUnderway = NoGrip
    BY <1>5 DEF ReleaseMove, ExecInv, HaltsInOrder, LockOwned, HoldsLock, At, MoveUnderway, Threads, Servo, Worker, Planner
  <2>2. halting[t].letgo
    BY <1>5 DEF ReleaseMove, ExecInv, HaltsOnce, At
  <2>3. Grip!LetGo
    BY <1>1, <1>2, <1>5, <2>1, <2>2 DEF Grip!LetGo, LetGoAsked, ReleaseMove, halts, finish, None
  <2> QED  BY <2>3
<1> QED  BY <1>3, <1>4, <1>5 DEF Halt

LEMMA GripServo ==
  ASSUME TypeOK, ExecInv, ServoThread, Inside
  PROVE  [Grip!Next]_(Grip!vars)
<1> USE DEF Grip!Next, Grip!vars, Inside, At
<1>1. ASSUME Halt(Servo) PROVE [Grip!Next]_(Grip!vars)
  BY <1>1, GripHalt DEF Threads
<1>2. ASSUME ~Halt(Servo) PROVE [Grip!Next]_(Grip!vars)
  <2>1. pc'[Worker] = pc[Worker] /\ target'[Worker] = target[Worker] /\ UNCHANGED <<gripper, release, stop>>
    BY <1>2 DEF TypeOK, Threads, Servo, Worker, Goto, Halts, ServoThread, ServoStopped, ServoTick, SafetyPasses, SafetyStops, HoldFinish, ReleaseControl, ReleaseControlTo, ServoCommand, ServoCrash, ApplyLatch, PostTarget, halts, device
  <2>2. UNCHANGED MoveUnderway
    BY <2>1 DEF MoveUnderway, At
  <2>3. CASE SafetyStops \/ ServoCrash
    <3>1. UNCHANGED completed
      BY <2>3 DEF SafetyStops, ServoCrash, finish
    <3>2. PICK reason \in Reasons, letgo \in BOOLEAN : Halts(Servo, reason, letgo)
      BY <2>3 DEF SafetyStops, ServoCrash, Reasons
    <3>3. pc[Servo] \notin HaltSteps \cup TeardownSteps \cup {"done", "home", "start"}
      BY <2>3 DEF SafetyStops, ServoCrash, At, HaltSteps, TeardownSteps
    <3>4. LetGoAsked' = (LetGoAsked \/ letgo)
      BY <3>2, <3>3, HaltAsks DEF Threads
    <3>5. CASE letgo
      <4>1. Grip!AskLetGo
        BY <2>1, <2>2, <3>1, <3>4, <3>5 DEF Grip!AskLetGo
      <4> QED  BY <4>1
    <3>6. CASE ~letgo
      <4>1. UNCHANGED LetGoAsked
        BY <3>4, <3>6 DEF LetGoAsked
      <4> QED  BY <2>1, <2>2, <3>1, <4>1
    <3> QED  BY <3>5, <3>6
  <2>4. CASE ReleaseControl
    <3>1. UNCHANGED LetGoAsked
      BY <2>4 DEF ReleaseControl, halts, LetGoAsked
    <3>2. CASE completed' = completed
      BY <2>1, <2>2, <3>1, <3>2
    <3>3. CASE completed' # completed
      <4>1. ~completed /\ completed' = TRUE /\ ioLock = None
        <5>1. PICK phase \in Phases : ReleaseControlTo(phase)
          BY <2>4 DEF ReleaseControl
        <5>2. phase = "finished" /\ completed'
          BY <5>1, <3>3 DEF ReleaseControlTo
        <5>3. controller # "finished"
          BY <2>4 DEF ReleaseControl, ExecInv, FinishFrozen
        <5>4. Updates(NoteLatch(controller, latch), target[Servo], phase)
          BY <5>1 DEF ReleaseControlTo
        <5>5. ioLock = None
          BY <5>2, <5>3, <5>4 DEF Updates, NoteLatch
        <5> QED  BY <2>4, <5>2, <5>5, <5>1 DEF ReleaseControl, ReleaseControlTo
      <4>2. MoveUnderway = NoGrip
        BY <4>1 DEF ExecInv, LockOwned, HoldsLock, At, MoveUnderway, Threads, Servo, Worker, Planner, None
      <4>3. Grip!Finish
        BY <2>1, <2>2, <3>1, <4>1, <4>2 DEF Grip!Finish
      <4> QED  BY <4>3
    <3> QED  BY <3>2, <3>3
  <2>5. CASE ServoStopped \/ ServoTick \/ SafetyPasses \/ HoldFinish \/ ServoCommand \/ ApplyLatch \/ PostTarget
    <3>1. UNCHANGED <<completed, halting>>
      BY <2>5 DEF ServoStopped, ServoTick, SafetyPasses, HoldFinish, ServoCommand, ApplyLatch, PostTarget, halts, finish
    <3>2. UNCHANGED LetGoAsked
      BY <3>1 DEF LetGoAsked
    <3> QED  BY <2>1, <2>2, <3>1, <3>2
  <2> QED  BY <1>2, <2>3, <2>4, <2>5 DEF ServoThread
<1> QED  BY <1>1, <1>2

LEMMA GripWorker ==
  ASSUME TypeOK, ExecInv, WorkerThread, Inside
  PROVE  [Grip!Next]_(Grip!vars)
<1> USE DEF Grip!Next, Grip!vars, Inside, At
<1>1. ASSUME Halt(Worker) PROVE [Grip!Next]_(Grip!vars)
  BY <1>1, GripHalt DEF Threads
\* The worker asks for no let-go.
<1>2. ASSUME ~Halt(Worker) PROVE UNCHANGED <<LetGoAsked, stop, release, completed>>
  <2>1. UNCHANGED <<stop, release, completed>>
    BY <1>2 DEF WorkerThread, WorkerStopped, ReadMailbox, TakeIoLock, Recheck, SendTarget, SendFails, PollState, halts, device, finish
  <2>2. CASE SendFails \/ PollState
    <3>1. pc[Worker] \notin HaltSteps \cup TeardownSteps \cup {"done", "home", "start"}
      BY <2>2 DEF SendFails, PollState, At, HaltSteps, TeardownSteps
    <3>2. CASE Halts(Worker, "rebuild", FALSE)
      <4>1. LetGoAsked' = (LetGoAsked \/ FALSE)
        BY <3>1, <3>2, HaltAsks DEF Threads, Reasons
      <4> QED  BY <2>1, <4>1 DEF LetGoAsked
    <3>3. CASE UNCHANGED halting
      BY <2>1, <3>3 DEF LetGoAsked
    <3> QED  BY <2>2, <3>2, <3>3 DEF SendFails, PollState
  <2>3. CASE WorkerStopped \/ ReadMailbox \/ TakeIoLock \/ Recheck \/ SendTarget
    BY <2>1, <2>3 DEF WorkerStopped, ReadMailbox, TakeIoLock, Recheck, SendTarget, halts, LetGoAsked
  <2> QED  BY <1>2, <2>2, <2>3 DEF WorkerThread
<1>3. ASSUME WorkerStopped \/ ReadMailbox \/ TakeIoLock \/ PollState PROVE UNCHANGED <<gripper, MoveUnderway>>
  BY <1>3 DEF WorkerStopped, ReadMailbox, TakeIoLock, PollState, Halts, Goto, At, MoveUnderway, TypeOK, Threads, Worker, device
<1>4. ASSUME Recheck PROVE [Grip!Next]_(Grip!vars)
  <2>0. UNCHANGED <<gripper, LetGoAsked, stop, release, completed>>
    BY <1>4 DEF Recheck, halts, finish, LetGoAsked
  <2>1. MoveUnderway = NoGrip
    BY <1>4 DEF Recheck, At, MoveUnderway
  <2>2. CASE pc'[Worker] # "moving"
    BY <2>0, <2>1, <2>2 DEF MoveUnderway, At
  <2>3. CASE pc'[Worker] = "moving"
    <3>1. ~stop /\ target'[Worker] # NoGrip /\ (completed => target'[Worker] = mailbox)
      BY <1>4, <2>3 DEF Recheck, Goto, TypeOK, Threads, Worker, ExecInv, FinishFrozen
    <3>2. target'[Worker] \in Grips
      BY <1>4, <3>1 DEF Recheck, TypeOK, Threads, Worker
    <3>3. completed => target'[Worker] = gripper
      BY <1>4, <3>1 DEF Recheck, At, HaltSteps, ExecInv, FinishFrozen
    <3>4. MoveUnderway' = target'[Worker]
      BY <2>3 DEF MoveUnderway, At
    <3>5. Grip!StartMove(target'[Worker])
      BY <2>0, <2>1, <3>1, <3>3, <3>4 DEF Grip!StartMove
    <3> QED  BY <3>2, <3>5
  <2> QED  BY <2>2, <2>3
<1>5. ASSUME SendTarget \/ SendFails PROVE [Grip!Next]_(Grip!vars)
  <2>1. MoveUnderway = target[Worker] /\ target[Worker] # NoGrip
    BY <1>5 DEF SendTarget, SendFails, At, MoveUnderway, TypeOK
  <2>2. MoveUnderway' = NoGrip
    BY <1>5 DEF SendTarget, SendFails, Halts, Goto, At, MoveUnderway, TypeOK, Threads, Worker
  <2>3. gripper' \in {gripper, target[Worker]}
    BY <1>5 DEF SendTarget, SendFails
  <2>4. ~Halt(Worker)
    BY <1>5 DEF SendTarget, SendFails, Halt, HaltSetReason, HaltUnlatch, HaltInvalidate, HaltSetStop, ReleaseLock, ReleaseMove, At
  <2>5. Grip!EndMove
    BY <1>2, <2>1, <2>2, <2>3, <2>4 DEF Grip!EndMove
  <2> QED  BY <2>5
<1> QED  BY <1>1, <1>2, <1>3, <1>4, <1>5 DEF WorkerThread

LEMMA GripPlanner ==
  ASSUME TypeOK, ExecInv, PlannerThread, Inside
  PROVE  [Grip!Next]_(Grip!vars)
<1> USE DEF Grip!Next, Grip!vars, Inside, At
<1>1. ASSUME Halt(Planner) PROVE [Grip!Next]_(Grip!vars)
  BY <1>1, GripHalt DEF Threads
<1>2. ASSUME ~Halt(Planner) PROVE [Grip!Next]_(Grip!vars)
  <2>0. ~Home /\ ~StartEpisode
    BY DEF Home, StartEpisode, Goto, At, TypeOK, Threads, Planner
  <2>1. pc'[Worker] = pc[Worker] /\ target'[Worker] = target[Worker] /\ UNCHANGED <<gripper, release, completed>>
    BY <1>2, <2>0 DEF TypeOK, Threads, Planner, Worker, Goto, Halts, PlannerThread, SeesStop, PlannerStops, StartInference, ObservationOver, PolicyFails, Proposes, VetoRecovers, VetoGivesUp, Submit, NextReplan, EpisodeOver, TeardownStop, TeardownClear, JoinServo, JoinWorker, ServoStop, device, finish
  <2>2. UNCHANGED MoveUnderway
    BY <2>1 DEF MoveUnderway, At
  <2>3. CASE PlannerStops \/ VetoGivesUp
    <3>1. UNCHANGED stop
      BY <2>3 DEF PlannerStops, VetoGivesUp
    <3>2. PICK reason \in Reasons, letgo \in BOOLEAN : Halts(Planner, reason, letgo)
      BY <2>3 DEF PlannerStops, VetoGivesUp, Reasons
    <3>3. pc[Planner] \notin HaltSteps \cup TeardownSteps \cup {"done", "home", "start"}
      BY <2>3 DEF PlannerStops, VetoGivesUp, At, HaltSteps, TeardownSteps
    <3>4. LetGoAsked' = (LetGoAsked \/ letgo)
      BY <3>2, <3>3, HaltAsks DEF Threads
    <3>5. CASE letgo
      <4>1. Grip!AskLetGo
        BY <2>1, <2>2, <3>1, <3>4, <3>5 DEF Grip!AskLetGo
      <4> QED  BY <4>1
    <3>6. CASE ~letgo
      <4>1. UNCHANGED LetGoAsked
        BY <3>4, <3>6 DEF LetGoAsked
      <4> QED  BY <2>1, <2>2, <3>1, <4>1
    <3> QED  BY <3>5, <3>6
  <2>4. CASE TeardownStop
    <3>1. UNCHANGED LetGoAsked /\ stop' = TRUE
      BY <2>4 DEF TeardownStop, LetGoAsked
    <3>2. Grip!Stop
      BY <2>1, <2>2, <3>1 DEF Grip!Stop
    <3> QED  BY <3>2
  <2>5. ASSUME SeesStop \/ StartInference \/ ObservationOver \/ PolicyFails \/ Proposes \/ VetoRecovers
                 \/ Submit \/ NextReplan \/ EpisodeOver \/ TeardownClear \/ JoinServo \/ JoinWorker \/ ServoStop
        PROVE  [Grip!Next]_(Grip!vars)
    <3>1. UNCHANGED <<stop, halting>>
      BY <2>5 DEF SeesStop, StartInference, ObservationOver, PolicyFails, Proposes, VetoRecovers, Submit, NextReplan, EpisodeOver, TeardownClear, JoinServo, JoinWorker, ServoStop, halts
    <3>2. UNCHANGED LetGoAsked
      BY <3>1 DEF LetGoAsked
    <3> QED  BY <2>1, <2>2, <3>1, <3>2
  <2> QED  BY <1>2, <2>0, <2>3, <2>4, <2>5 DEF PlannerThread
<1> QED  BY <1>1, <1>2

\* Homing and the start of the next episode are steps of the abstract grip.
LEMMA GripBetween ==
  ASSUME TypeOK, ExecInv, Home \/ StartEpisode
  PROVE  [Grip!Next]_(Grip!vars)
<1> USE DEF Grip!Next, Grip!vars
<1>1. CASE Home
  <2>1. /\ pc[Planner] = "home" /\ pc'[Planner] = "start"
        /\ pc[Servo] = "done" /\ pc[Worker] = "done" /\ pc'[Worker] = "done"
    BY <1>1 DEF Home, FatalReason, At, Goto, TypeOK, ExecInv, JoinsSettle, Threads, Servo, Worker, Planner
  <2>2. MoveUnderway = NoGrip /\ UNCHANGED MoveUnderway
    BY <2>1 DEF MoveUnderway, At
  <2>3. stop /\ (LetGoAsked => release # "none")
    BY <2>1 DEF ExecInv, StopsExplained, HaltsInOrder, HaltSteps, LetGoAsked, At, Threads, Servo, Worker, Planner, None
  <2>4. UNCHANGED <<stop, LetGoAsked, completed>> /\ gripper' \in Grips /\ release' = "none"
    BY <1>1 DEF Home, halts, finish, LetGoAsked, None
  <2>5. Grip!Home
    BY <2>1, <2>2, <2>3, <2>4 DEF Grip!Home, At
  <2> QED  BY <2>5
<1>2. CASE StartEpisode
  <2>1. pc[Planner] = "start" /\ pc'[Planner] = "plan" /\ pc'[Worker] = "check" /\ pc[Worker] = "done"
    BY <1>2 DEF StartEpisode, At, ExecInv, JoinsSettle, Threads, Servo, Worker, Planner
  <2>2. MoveUnderway = NoGrip /\ UNCHANGED MoveUnderway
    BY <2>1 DEF MoveUnderway, At
  <2>3. LetGoAsked' = FALSE /\ stop' = FALSE /\ completed' = FALSE /\ UNCHANGED <<gripper, release>>
    BY <1>2 DEF StartEpisode, LetGoAsked, NoHalt
  <2>4. Grip!Begin
    BY <2>1, <2>2, <2>3 DEF Grip!Begin, At
  <2> QED  BY <2>4
<1> QED  BY <1>1, <1>2

\* The executor implements the abstract grip, episode after episode.
THEOREM ExecutorKeepsGrip == Spec => ImplementsGrip
<1>1. Init => Grip!Init
  BY DEF Init, Grip!Init, MoveUnderway, LetGoAsked, NoHalt, At, None, Threads, Worker, Planner
<1>2. TypeOK /\ ExecInv /\ [Next]_vars => [Grip!Next]_(Grip!vars)
  <2> SUFFICES ASSUME TypeOK, ExecInv, [Next]_vars PROVE [Grip!Next]_(Grip!vars)
    OBVIOUS
  <2>1. CASE UNCHANGED vars
    BY <2>1 DEF vars, halts, device, finish, Grip!vars, MoveUnderway, LetGoAsked, At
  <2>2. ASSUME Next, Home \/ StartEpisode PROVE [Grip!Next]_(Grip!vars)
    BY <2>2, GripBetween
  <2>3. ASSUME Next, ~Home, ~StartEpisode PROVE [Grip!Next]_(Grip!vars)
    <3>1. Inside
      BY <2>3, HomedOnly DEF Inside
    <3> QED  BY <2>3, <3>1, GripServo, GripWorker, GripPlanner DEF Next
  <2> QED  BY <2>1, <2>2, <2>3
<1> QED  BY <1>1, <1>2, ExecCorrect, ExecTypeCorrect, PTL DEF Spec, ImplementsGrip, Grip!Spec
=============================================================================
