------------------------ MODULE CollectSession_proofs ------------------------
(***************************************************************************)
(* Theorems about CollectSession, for every set of episodes and of targets *)
(* and whatever the bounds.                                                *)
(***************************************************************************)
EXTENDS CollectSession, FiniteSetTheorems, TLAPS

USE SessionAssumption DEF SessionAssumption

-----------------------------------------------------------------------------
(* Types.                                                                  *)

LEMMA InitTypes == Init => TypeOK
<1> SUFFICES ASSUME Init PROVE TypeOK
  OBVIOUS
<1> USE DEF Init
<1>1. disk \in [Episodes -> Statuses]
  BY DEF Statuses
<1>2. home \in [Episodes -> 0 .. sess]
  OBVIOUS
<1>3. pc \in Steps
  BY DEF Steps
<1>4. /\ playing \in BOOLEAN /\ offloading \in BOOLEAN /\ quitArmed \in BOOLEAN
      /\ trip \in BOOLEAN /\ tripHandled \in BOOLEAN /\ hold \in BOOLEAN
  BY Zenon
<1> QED  BY <1>1, <1>2, <1>3, <1>4 DEF TypeOK

LEMMA DiscountType == count \in Nat => Discount \in Nat
BY DEF Discount

LEMMA StepTypes == TypeOK /\ [Next]_vars => TypeOK'
<1> SUFFICES ASSUME TypeOK, [Next]_vars PROVE TypeOK'
  OBVIOUS
<1> USE DEF TypeOK, Goto, gates, staging, desk, guards, files, history, loop, Session,
            Steps, Stages, Requests, Buttons, Verdicts, Statuses, Filed, Judged
<1>1. ASSUME NEW r \in Requests, Check(r) PROVE TypeOK'
  BY <1>1 DEF Check
<1>2. CASE BeginSession
  BY <1>2 DEF BeginSession
<1>3. CASE BeginOffload
  BY <1>3 DEF BeginOffload
<1>4. CASE BeginPlayback
  BY <1>4 DEF BeginPlayback
<1>5. CASE EndPlayback
  <2>1. playing' \in BOOLEAN
    BY <1>5 DEF EndPlayback
  <2>2. UNCHANGED <<gate, offloading, staging, queue, pc, loop>>
    BY <1>5 DEF EndPlayback
  <2> QED  BY <2>1, <2>2
<1>6. CASE OffloadNow
  <2>1. moved' \subseteq Episodes
    BY <1>6 DEF OffloadNow, Offloaded, Staged
  <2>2. offloading' \in BOOLEAN
    BY <1>6, Zenon DEF OffloadNow
  <2> QED  BY <1>6, <2>1, <2>2 DEF OffloadNow, Offloaded
<1>7. ASSUME NEW b \in Buttons, Press(b) PROVE TypeOK'
  BY <1>7 DEF Press
<1>8. CASE BringUp
  BY <1>8 DEF BringUp
<1>9. CASE BringUpFails
  BY <1>9 DEF BringUpFails
<1>10. CASE Poll
  BY <1>10 DEF Poll
<1>11. CASE MotionDied
  BY <1>11 DEF MotionDied, PutAway, NothingInHand, CloseTake, CloseFails, FilePending, Relabel, RelabelFails, Leave, Locals
<1>12. CASE NoQuit
  BY <1>12 DEF NoQuit
<1>13. CASE RequeueQuit
  BY <1>13 DEF RequeueQuit
<1>14. CASE RefuseQuit
  BY <1>14 DEF RefuseQuit, EndTick
<1>15. CASE Quit
  BY <1>15 DEF Quit, PutAway, NothingInHand, CloseTake, CloseFails, FilePending, Relabel, RelabelFails, Leave, Locals
<1>16. CASE BookTrip
  BY <1>16 DEF BookTrip, CloseTake, CloseFails, Leave
<1>17. CASE NoNews
  BY <1>17 DEF NoNews
<1>18. CASE ResumeTrip
  BY <1>18 DEF ResumeTrip
<1>19. CASE ArmQuiet
  BY <1>19 DEF ArmQuiet
<1>20. CASE ArmTrouble
  BY <1>20 DEF ArmTrouble, CloseTake, CloseFails, Leave
<1>21. CASE ArmClears
  BY <1>21 DEF ArmClears
<1>22. CASE DiscardOpen
  BY <1>22, DiscountType DEF DiscardOpen, CloseTake, CloseFails, RemovalFails, Leave
<1>23. CASE StopOpen
  BY <1>23 DEF StopOpen, CloseTake, CloseFails, Leave
<1>24. CASE DiscardPending
  BY <1>24, DiscountType DEF DiscardPending, Judging, Relabel, RelabelFails
<1>25. CASE Judge
  BY <1>25 DEF Judge, Judging, Relabel, Leave
<1>26. CASE JudgeFails
  BY <1>26 DEF JudgeFails, Judging, RelabelFails, Leave
<1>27. CASE TargetMade
  BY <1>27 DEF TargetMade, Starting, EndTick
<1>28. CASE Begin
  BY <1>28 DEF Begin, Starting
<1>29. CASE BeginFails
  BY <1>29 DEF BeginFails, Starting, Leave
<1>30. CASE NoEpisodeCommand
  BY <1>30 DEF NoEpisodeCommand
<1>31. CASE WorkerDied
  BY <1>31 DEF WorkerDied, CloseTake, CloseFails, Leave, Locals
<1>32. CASE TickEnds
  BY <1>32 DEF TickEnds, EndTick
<1>33. CASE Teardown
  BY <1>33 DEF Teardown, CloseTake, CloseFails, ResetLocals
<1>34. CASE AutoOffload
  BY <1>34 DEF AutoOffload, Offloaded, Staged
<1>35. CASE Killed
  BY <1>35 DEF Killed, ResetLocals
<1>36. CASE UNCHANGED vars
  BY <1>36 DEF vars
<1> QED
  BY <1>1, <1>2, <1>3, <1>4, <1>5, <1>6, <1>7, <1>8, <1>9, <1>10, <1>11, <1>12, <1>13, <1>14, <1>15, <1>16, <1>17, <1>18, <1>19, <1>20, <1>21, <1>22, <1>23, <1>24, <1>25, <1>26, <1>27, <1>28, <1>29, <1>30, <1>31, <1>32, <1>33, <1>34, <1>35, <1>36
  DEF Next, Requested, SessionThread

\* Types hold in every reachable state.
THEOREM SessionTypeCorrect == Spec => []TypeOK
BY InitTypes, StepTypes, PTL DEF Spec

-----------------------------------------------------------------------------
(* What is in hand.                                                        *)

LEMMA InitInv == Init => SessionInv
BY DEF Init, SessionInv, Settled, OneAtATime, Activities, HandOnDisk, HandStaged, HandEmpty,
       InHand, TripBooked, ArmedFor, TornDown, MovedExist, Stages

LEMMA StepInv == TypeOK /\ SessionInv /\ [Next]_vars => SessionInv'
<1> SUFFICES ASSUME TypeOK, SessionInv, [Next]_vars PROVE SessionInv'
  OBVIOUS
<1> USE DEF TypeOK, SessionInv, Settled, OneAtATime, Activities, HandOnDisk, HandStaged,
            HandEmpty, InHand, TripBooked, ArmedFor, TornDown, MovedExist, Goto, gates, staging, desk,
            guards, files, history, loop, Session, Stages, Requests
<1>1. ASSUME NEW r \in Requests, Check(r) PROVE SessionInv'
  BY <1>1 DEF Check, Free
<1>2. CASE BeginSession
  BY <1>2 DEF BeginSession
<1>3. CASE BeginOffload
  BY <1>3 DEF BeginOffload
<1>4. CASE BeginPlayback
  BY <1>4 DEF BeginPlayback
<1>5. CASE EndPlayback
  BY <1>5 DEF EndPlayback
<1>6. CASE OffloadNow
  BY <1>6 DEF OffloadNow, Offloaded, Staged
<1>7. ASSUME NEW b \in Buttons, Press(b) PROVE SessionInv'
  BY <1>7 DEF Press
<1>8. CASE BringUp
  BY <1>8 DEF BringUp
<1>9. CASE BringUpFails
  BY <1>9 DEF BringUpFails
<1>10. CASE Poll
  BY <1>10 DEF Poll
<1>11. CASE MotionDied
  BY <1>11 DEF MotionDied, PutAway, NothingInHand, CloseTake, CloseFails, FilePending, Relabel, RelabelFails, Leave, Locals
<1>12. CASE NoQuit
  BY <1>12 DEF NoQuit
<1>13. CASE RequeueQuit
  BY <1>13 DEF RequeueQuit
<1>14. CASE RefuseQuit
  BY <1>14 DEF RefuseQuit, EndTick
<1>15. CASE Quit
  BY <1>15 DEF Quit, PutAway, NothingInHand, CloseTake, CloseFails, FilePending, Relabel, RelabelFails, Leave, Locals
<1>16. CASE BookTrip
  BY <1>16 DEF BookTrip, CloseTake, CloseFails, Leave
<1>17. CASE NoNews
  <2>1. TripBooked'
    <3>1. CASE trip' = FALSE
      BY <1>17, <3>1 DEF NoNews
    <3>2. CASE trip' = tripHandled
      BY <1>17, <3>2 DEF NoNews
    <3> QED  BY <1>17, <3>1, <3>2 DEF NoNews
  <2>2. Settled' /\ OneAtATime' /\ HandOnDisk' /\ HandStaged' /\ HandEmpty' /\ ArmedFor' /\ TornDown' /\ MovedExist'
    BY <1>17 DEF NoNews
  <2> QED  BY <2>1, <2>2
<1>18. CASE ResumeTrip
  BY <1>18 DEF ResumeTrip
<1>19. CASE ArmQuiet
  BY <1>19 DEF ArmQuiet
<1>20. CASE ArmTrouble
  <2>1. Settled'
    BY <1>20 DEF ArmTrouble, CloseTake, CloseFails, Leave
  <2>2. OneAtATime'
    BY <1>20 DEF ArmTrouble, CloseTake, CloseFails, Leave
  <2>3. HandOnDisk'
    BY <1>20 DEF ArmTrouble, CloseTake, CloseFails, Leave
  <2>4. HandStaged'
    BY <1>20 DEF ArmTrouble, CloseTake, CloseFails, Leave
  <2>5. HandEmpty'
    BY <1>20 DEF ArmTrouble, CloseTake, CloseFails, Leave
  <2>6. TripBooked'
    BY <1>20 DEF ArmTrouble, CloseTake, CloseFails, Leave
  <2>7. ArmedFor'
    BY <1>20 DEF ArmTrouble, CloseTake, CloseFails, Leave
  <2>8. MovedExist'
    BY <1>20 DEF ArmTrouble, CloseTake, CloseFails, Leave
  <2>9. TornDown'
    BY <1>20 DEF ArmTrouble, CloseTake, CloseFails, Leave
  <2> QED  BY <2>1, <2>2, <2>3, <2>4, <2>5, <2>6, <2>7, <2>8, <2>9
<1>21. CASE ArmClears
  BY <1>21 DEF ArmClears
<1>22. CASE DiscardOpen
  BY <1>22 DEF DiscardOpen, CloseTake, CloseFails, RemovalFails, Leave
<1>23. CASE StopOpen
  <2>1. Settled'
    BY <1>23 DEF StopOpen, CloseTake, CloseFails, Leave
  <2>2. OneAtATime'
    BY <1>23 DEF StopOpen, CloseTake, CloseFails, Leave
  <2>3. HandOnDisk'
    BY <1>23 DEF StopOpen, CloseTake, CloseFails, Leave
  <2>4. HandStaged'
    BY <1>23 DEF StopOpen, CloseTake, CloseFails, Leave
  <2>5. HandEmpty'
    BY <1>23 DEF StopOpen, CloseTake, CloseFails, Leave
  <2>6. TripBooked'
    BY <1>23 DEF StopOpen, CloseTake, CloseFails, Leave
  <2>7. ArmedFor'
    BY <1>23 DEF StopOpen, CloseTake, CloseFails, Leave
  <2>8. MovedExist'
    BY <1>23 DEF StopOpen, CloseTake, CloseFails, Leave
  <2>9. TornDown'
    BY <1>23 DEF StopOpen, CloseTake, CloseFails, Leave
  <2> QED  BY <2>1, <2>2, <2>3, <2>4, <2>5, <2>6, <2>7, <2>8, <2>9
<1>24. CASE DiscardPending
  BY <1>24 DEF DiscardPending, Judging, Relabel, RelabelFails
<1>25. CASE Judge
  BY <1>25 DEF Judge, Judging, Relabel, Leave
<1>26. CASE JudgeFails
  BY <1>26 DEF JudgeFails, Judging, RelabelFails, Leave
<1>27. CASE TargetMade
  BY <1>27 DEF TargetMade, Starting, EndTick
<1>28. CASE Begin
  BY <1>28 DEF Begin, Starting
<1>29. CASE BeginFails
  BY <1>29 DEF BeginFails, Starting, Leave
<1>30. CASE NoEpisodeCommand
  BY <1>30 DEF NoEpisodeCommand
<1>31. CASE WorkerDied
  BY <1>31 DEF WorkerDied, CloseTake, CloseFails, Leave, Locals
<1>32. CASE TickEnds
  BY <1>32 DEF TickEnds, EndTick
<1>33. CASE Teardown
  <2>1. Settled'
    BY <1>33 DEF Teardown, CloseTake, CloseFails, ResetLocals
  <2>2. OneAtATime'
    BY <1>33 DEF Teardown, CloseTake, CloseFails, ResetLocals
  <2>3. HandOnDisk'
    BY <1>33 DEF Teardown, CloseTake, CloseFails, ResetLocals
  <2>4. HandStaged'
    BY <1>33 DEF Teardown, CloseTake, CloseFails, ResetLocals
  <2>5. HandEmpty'
    BY <1>33 DEF Teardown, CloseTake, CloseFails, ResetLocals
  <2>6. TripBooked'
    BY <1>33 DEF Teardown, CloseTake, CloseFails, ResetLocals
  <2>7. ArmedFor'
    BY <1>33 DEF Teardown, CloseTake, CloseFails, ResetLocals
  <2>8. MovedExist'
    BY <1>33 DEF Teardown, CloseTake, CloseFails, ResetLocals
  <2>9. TornDown'
    BY <1>33 DEF Teardown, CloseTake, CloseFails, ResetLocals
  <2> QED  BY <2>1, <2>2, <2>3, <2>4, <2>5, <2>6, <2>7, <2>8, <2>9
<1>34. CASE AutoOffload
  BY <1>34 DEF AutoOffload, Offloaded, Staged
<1>35. CASE Killed
  BY <1>35 DEF Killed, ResetLocals
<1>36. CASE UNCHANGED vars
  BY <1>36 DEF vars
<1> QED
  BY <1>1, <1>2, <1>3, <1>4, <1>5, <1>6, <1>7, <1>8, <1>9, <1>10, <1>11, <1>12, <1>13, <1>14, <1>15, <1>16, <1>17, <1>18, <1>19, <1>20, <1>21, <1>22, <1>23, <1>24, <1>25, <1>26, <1>27, <1>28, <1>29, <1>30, <1>31, <1>32, <1>33, <1>34, <1>35, <1>36
  DEF Next, Requested, SessionThread

\* The inductive invariant holds in every reachable state.
THEOREM SessionInvariant == Spec => []SessionInv
<1>1. Init => TypeOK /\ SessionInv
  BY InitTypes, InitInv
<1>2. TypeOK /\ SessionInv /\ [Next]_vars => (TypeOK /\ SessionInv)'
  BY StepTypes, StepInv
<1> QED  BY <1>1, <1>2, PTL DEF Spec

\* Every take is judged, excluded or gone when its session is over, unless a
\* write of its own failed or it was in hand at a kill.
THEOREM TakesSettle == Spec => []Settled
<1>1. SessionInv => Settled
  BY DEF SessionInv
<1> QED  BY <1>1, SessionInvariant, PTL

\* Session, offload and playback exclude each other, however many HTTP threads
\* ask for them at once.
THEOREM RequestsExclude == Spec => []OneAtATime
<1>1. SessionInv => OneAtATime
  BY DEF SessionInv
<1> QED  BY <1>1, SessionInvariant, PTL

-----------------------------------------------------------------------------
(* Filing.                                                                 *)

Hand == IF open # NoEpisode THEN open ELSE pending

LEMMA FilingStep == TypeOK /\ SessionInv /\ [Next]_vars => [Filing!Next]_<<disk, Hand>>
<1> SUFFICES ASSUME TypeOK, SessionInv, [Next]_vars PROVE [Filing!Next]_<<disk, Hand>>
  OBVIOUS
<1> USE DEF TypeOK, SessionInv, HandOnDisk, HandEmpty, InHand, Goto, desk, files, loop, Stages
<1>1. ASSUME NEW r \in Requests, Check(r) PROVE [Filing!Next]_<<disk, Hand>>
  BY <1>1 DEF Check, Free, Hand
<1>2. CASE BeginSession
  BY <1>2 DEF BeginSession, Hand
<1>3. CASE BeginOffload
  BY <1>3 DEF BeginOffload, Hand
<1>4. CASE BeginPlayback
  BY <1>4 DEF BeginPlayback, Hand
<1>5. CASE EndPlayback
  BY <1>5 DEF EndPlayback, Hand
<1>6. CASE OffloadNow
  BY <1>6 DEF OffloadNow, Offloaded, Staged, Hand
<1>7. ASSUME NEW b \in Buttons, Press(b) PROVE [Filing!Next]_<<disk, Hand>>
  BY <1>7 DEF Press, Hand
<1>8. CASE BringUp
  BY <1>8 DEF BringUp, Hand
<1>9. CASE BringUpFails
  BY <1>9 DEF BringUpFails, Hand
<1>10. CASE Poll
  BY <1>10 DEF Poll, Hand
<1>11. CASE MotionDied
  BY <1>11 DEF MotionDied, PutAway, NothingInHand, CloseTake, CloseFails, FilePending, Relabel, RelabelFails, Leave, Locals, Hand,
     Filing!Next, Filing!Begin, Filing!AwaitVerdict, Filing!FileTake, Filing!Drop, Filing!Filed
<1>12. CASE NoQuit
  BY <1>12 DEF NoQuit, Hand
<1>13. CASE RequeueQuit
  BY <1>13 DEF RequeueQuit, Hand
<1>14. CASE RefuseQuit
  BY <1>14 DEF RefuseQuit, EndTick, Hand
<1>15. CASE Quit
  BY <1>15 DEF Quit, PutAway, NothingInHand, CloseTake, CloseFails, FilePending, Relabel, RelabelFails, Leave, Locals, Hand,
     Filing!Next, Filing!Begin, Filing!AwaitVerdict, Filing!FileTake, Filing!Drop, Filing!Filed
<1>16. CASE BookTrip
  BY <1>16 DEF BookTrip, CloseTake, CloseFails, Leave, Hand,
     Filing!Next, Filing!Begin, Filing!AwaitVerdict, Filing!FileTake, Filing!Drop, Filing!Filed
<1>17. CASE NoNews
  BY <1>17 DEF NoNews, Hand
<1>18. CASE ResumeTrip
  BY <1>18 DEF ResumeTrip, Hand
<1>19. CASE ArmQuiet
  BY <1>19 DEF ArmQuiet, Hand
<1>20. CASE ArmTrouble
  BY <1>20 DEF ArmTrouble, CloseTake, CloseFails, Leave, Hand,
     Filing!Next, Filing!Begin, Filing!AwaitVerdict, Filing!FileTake, Filing!Drop, Filing!Filed
<1>21. CASE ArmClears
  BY <1>21 DEF ArmClears, Hand
<1>22. CASE DiscardOpen
  BY <1>22 DEF DiscardOpen, CloseTake, CloseFails, RemovalFails, Leave, Hand,
     Filing!Next, Filing!Begin, Filing!AwaitVerdict, Filing!FileTake, Filing!Drop, Filing!Filed
<1>23. CASE StopOpen
  BY <1>23 DEF StopOpen, CloseTake, CloseFails, Leave, Hand,
     Filing!Next, Filing!Begin, Filing!AwaitVerdict, Filing!FileTake, Filing!Drop, Filing!Filed
<1>24. CASE DiscardPending
  BY <1>24 DEF DiscardPending, Judging, Relabel, RelabelFails, Hand,
     Filing!Next, Filing!Begin, Filing!AwaitVerdict, Filing!FileTake, Filing!Drop, Filing!Filed
<1>25. CASE Judge
  BY <1>25 DEF Judge, Judging, Relabel, Leave, Hand,
     Filing!Next, Filing!Begin, Filing!AwaitVerdict, Filing!FileTake, Filing!Drop, Filing!Filed
<1>26. CASE JudgeFails
  BY <1>26 DEF JudgeFails, Judging, RelabelFails, Leave, Hand
<1>27. CASE TargetMade
  BY <1>27 DEF TargetMade, Starting, EndTick, Hand
<1>28. CASE Begin
  BY <1>28 DEF Begin, Starting, Hand,
     Filing!Next, Filing!Begin, Filing!AwaitVerdict, Filing!FileTake, Filing!Drop, Filing!Filed
<1>29. CASE BeginFails
  BY <1>29 DEF BeginFails, Starting, Leave, Hand
<1>30. CASE NoEpisodeCommand
  BY <1>30 DEF NoEpisodeCommand, Hand
<1>31. CASE WorkerDied
  BY <1>31 DEF WorkerDied, CloseTake, CloseFails, Leave, Locals, Hand,
     Filing!Next, Filing!Begin, Filing!AwaitVerdict, Filing!FileTake, Filing!Drop, Filing!Filed
<1>32. CASE TickEnds
  BY <1>32 DEF TickEnds, EndTick, Hand
<1>33. CASE Teardown
  BY <1>33 DEF Teardown, CloseTake, CloseFails, ResetLocals, Hand,
     Filing!Next, Filing!Begin, Filing!AwaitVerdict, Filing!FileTake, Filing!Drop, Filing!Filed
<1>34. CASE AutoOffload
  BY <1>34 DEF AutoOffload, Offloaded, Staged, Hand
<1>35. CASE Killed
  BY <1>35 DEF Killed, ResetLocals, Hand,
     Filing!Next, Filing!Begin, Filing!AwaitVerdict, Filing!FileTake, Filing!Drop, Filing!Filed
<1>36. CASE UNCHANGED vars
  BY <1>36 DEF vars, Hand
<1> QED
  BY <1>1, <1>2, <1>3, <1>4, <1>5, <1>6, <1>7, <1>8, <1>9, <1>10, <1>11, <1>12, <1>13, <1>14, <1>15, <1>16, <1>17, <1>18, <1>19, <1>20, <1>21, <1>22, <1>23, <1>24, <1>25, <1>26, <1>27, <1>28, <1>29, <1>30, <1>31, <1>32, <1>33, <1>34, <1>35, <1>36
  DEF Next, Requested, SessionThread

\* Collecting implements EpisodeFiling: one take at a time on the desk, and
\* what has been filed stays as it was filed.
THEOREM SessionFilesEpisodes == Spec => ImplementsFiling
<1>1. Init => Filing!Init
  BY DEF Init, Filing!Init
<1>2. Spec => []TypeOK /\ []SessionInv
  BY SessionTypeCorrect, SessionInvariant, PTL
<1>3. TypeOK /\ SessionInv /\ [Next]_vars => [Filing!Next]_<<disk, IF open # NoEpisode THEN open ELSE pending>>
  BY FilingStep DEF Hand
<1> QED  BY <1>1, <1>2, <1>3, PTL DEF Spec, ImplementsFiling, Filing!Spec

\* What an offload has moved is not written any more.
LEMMA MovedStep ==
    TypeOK /\ SessionInv /\ [Next]_vars => \A e \in moved : disk'[e] = disk[e]
<1> SUFFICES ASSUME TypeOK, SessionInv, [Next]_vars PROVE \A e \in moved : disk'[e] = disk[e]
  OBVIOUS
<1> USE DEF TypeOK, SessionInv, HandStaged, InHand, MovedExist, desk, files, loop
<1>1. ASSUME NEW r \in Requests, Check(r) PROVE \A e \in moved : disk'[e] = disk[e]
  BY <1>1 DEF Check, Free
<1>2. CASE BeginSession
  BY <1>2 DEF BeginSession
<1>3. CASE BeginOffload
  BY <1>3 DEF BeginOffload
<1>4. CASE BeginPlayback
  BY <1>4 DEF BeginPlayback
<1>5. CASE EndPlayback
  BY <1>5 DEF EndPlayback
<1>6. CASE OffloadNow
  BY <1>6 DEF OffloadNow, Offloaded, Staged
<1>7. ASSUME NEW b \in Buttons, Press(b) PROVE \A e \in moved : disk'[e] = disk[e]
  BY <1>7 DEF Press
<1>8. CASE BringUp
  BY <1>8 DEF BringUp
<1>9. CASE BringUpFails
  BY <1>9 DEF BringUpFails
<1>10. CASE Poll
  BY <1>10 DEF Poll
<1>11. CASE MotionDied
  BY <1>11 DEF MotionDied, PutAway, NothingInHand, CloseTake, CloseFails, FilePending, Relabel, RelabelFails, Leave, Locals
<1>12. CASE NoQuit
  BY <1>12 DEF NoQuit
<1>13. CASE RequeueQuit
  BY <1>13 DEF RequeueQuit
<1>14. CASE RefuseQuit
  BY <1>14 DEF RefuseQuit, EndTick
<1>15. CASE Quit
  BY <1>15 DEF Quit, PutAway, NothingInHand, CloseTake, CloseFails, FilePending, Relabel, RelabelFails, Leave, Locals
<1>16. CASE BookTrip
  BY <1>16 DEF BookTrip, CloseTake, CloseFails, Leave
<1>17. CASE NoNews
  BY <1>17 DEF NoNews
<1>18. CASE ResumeTrip
  BY <1>18 DEF ResumeTrip
<1>19. CASE ArmQuiet
  BY <1>19 DEF ArmQuiet
<1>20. CASE ArmTrouble
  BY <1>20 DEF ArmTrouble, CloseTake, CloseFails, Leave
<1>21. CASE ArmClears
  BY <1>21 DEF ArmClears
<1>22. CASE DiscardOpen
  BY <1>22 DEF DiscardOpen, CloseTake, CloseFails, RemovalFails, Leave
<1>23. CASE StopOpen
  BY <1>23 DEF StopOpen, CloseTake, CloseFails, Leave
<1>24. CASE DiscardPending
  BY <1>24 DEF DiscardPending, Judging, Relabel, RelabelFails
<1>25. CASE Judge
  BY <1>25 DEF Judge, Judging, Relabel, Leave
<1>26. CASE JudgeFails
  BY <1>26 DEF JudgeFails, Judging, RelabelFails, Leave
<1>27. CASE TargetMade
  BY <1>27 DEF TargetMade, Starting, EndTick
<1>28. CASE Begin
  BY <1>28 DEF Begin, Starting
<1>29. CASE BeginFails
  BY <1>29 DEF BeginFails, Starting, Leave
<1>30. CASE NoEpisodeCommand
  BY <1>30 DEF NoEpisodeCommand
<1>31. CASE WorkerDied
  BY <1>31 DEF WorkerDied, CloseTake, CloseFails, Leave, Locals
<1>32. CASE TickEnds
  BY <1>32 DEF TickEnds, EndTick
<1>33. CASE Teardown
  BY <1>33 DEF Teardown, CloseTake, CloseFails, ResetLocals
<1>34. CASE AutoOffload
  BY <1>34 DEF AutoOffload, Offloaded, Staged
<1>35. CASE Killed
  BY <1>35 DEF Killed, ResetLocals
<1>36. CASE UNCHANGED vars
  BY <1>36 DEF vars
<1> QED
  BY <1>1, <1>2, <1>3, <1>4, <1>5, <1>6, <1>7, <1>8, <1>9, <1>10, <1>11, <1>12, <1>13, <1>14, <1>15, <1>16, <1>17, <1>18, <1>19, <1>20, <1>21, <1>22, <1>23, <1>24, <1>25, <1>26, <1>27, <1>28, <1>29, <1>30, <1>31, <1>32, <1>33, <1>34, <1>35, <1>36
  DEF Next, Requested, SessionThread

\* An offload takes an episode as it will stay.
THEOREM OffloadTakesSettled == Spec => MovedAsFiled
<1>1. TypeOK /\ SessionInv /\ [Next]_vars => [\A e \in moved : disk'[e] = disk[e]]_vars
  BY MovedStep
<1> QED  BY <1>1, SessionTypeCorrect, SessionInvariant, PTL DEF Spec, MovedAsFiled

\* Only a quit files a pending episode while the motion threads live, and it
\* was refused before for this episode.
LEMMA FiledStep == TypeOK /\ SessionInv /\ [Next]_vars => (FiledBehind => pc = "died")
<1> SUFFICES ASSUME TypeOK, SessionInv, [Next]_vars, FiledBehind PROVE pc = "died"
  OBVIOUS
<1> USE DEF TypeOK, SessionInv, HandOnDisk, HandEmpty, ArmedFor, InHand, FiledBehind, desk, files, loop,
            Stages, Judging
<1>1. ASSUME NEW r \in Requests, Check(r) PROVE pc = "died"
  BY <1>1 DEF Check, Free
<1>2. CASE BeginSession
  BY <1>2 DEF BeginSession
<1>3. CASE BeginOffload
  BY <1>3 DEF BeginOffload
<1>4. CASE BeginPlayback
  BY <1>4 DEF BeginPlayback
<1>5. CASE EndPlayback
  BY <1>5 DEF EndPlayback
<1>6. CASE OffloadNow
  BY <1>6 DEF OffloadNow, Offloaded, Staged
<1>7. ASSUME NEW b \in Buttons, Press(b) PROVE pc = "died"
  BY <1>7 DEF Press
<1>8. CASE BringUp
  BY <1>8 DEF BringUp
<1>9. CASE BringUpFails
  BY <1>9 DEF BringUpFails
<1>10. CASE Poll
  BY <1>10 DEF Poll
<1>11. CASE MotionDied
  BY <1>11 DEF MotionDied, PutAway, NothingInHand, CloseTake, CloseFails, FilePending, Relabel, RelabelFails, Leave, Locals
<1>12. CASE NoQuit
  BY <1>12 DEF NoQuit
<1>13. CASE RequeueQuit
  BY <1>13 DEF RequeueQuit
<1>14. CASE RefuseQuit
  BY <1>14 DEF RefuseQuit, EndTick
<1>15. CASE Quit
  BY <1>15 DEF Quit, PutAway, NothingInHand, CloseTake, CloseFails, FilePending, Relabel, RelabelFails, Leave, Locals
<1>16. CASE BookTrip
  BY <1>16 DEF BookTrip, CloseTake, CloseFails, Leave
<1>17. CASE NoNews
  BY <1>17 DEF NoNews
<1>18. CASE ResumeTrip
  BY <1>18 DEF ResumeTrip
<1>19. CASE ArmQuiet
  BY <1>19 DEF ArmQuiet
<1>20. CASE ArmTrouble
  BY <1>20 DEF ArmTrouble, CloseTake, CloseFails, Leave
<1>21. CASE ArmClears
  BY <1>21 DEF ArmClears
<1>22. CASE DiscardOpen
  BY <1>22 DEF DiscardOpen, CloseTake, CloseFails, RemovalFails, Leave
<1>23. CASE StopOpen
  BY <1>23 DEF StopOpen, CloseTake, CloseFails, Leave
<1>24. CASE DiscardPending
  BY <1>24 DEF DiscardPending, Judging, Relabel, RelabelFails
<1>25. CASE Judge
  BY <1>25 DEF Judge, Judging, Relabel, Leave
<1>26. CASE JudgeFails
  BY <1>26 DEF JudgeFails, Judging, RelabelFails, Leave
<1>27. CASE TargetMade
  BY <1>27 DEF TargetMade, Starting, EndTick
<1>28. CASE Begin
  BY <1>28 DEF Begin, Starting
<1>29. CASE BeginFails
  BY <1>29 DEF BeginFails, Starting, Leave
<1>30. CASE NoEpisodeCommand
  BY <1>30 DEF NoEpisodeCommand
<1>31. CASE WorkerDied
  BY <1>31 DEF WorkerDied, CloseTake, CloseFails, Leave, Locals
<1>32. CASE TickEnds
  BY <1>32 DEF TickEnds, EndTick
<1>33. CASE Teardown
  BY <1>33 DEF Teardown, CloseTake, CloseFails, ResetLocals
<1>34. CASE AutoOffload
  BY <1>34 DEF AutoOffload, Offloaded, Staged
<1>35. CASE Killed
  BY <1>35 DEF Killed, ResetLocals
<1>36. CASE UNCHANGED vars
  BY <1>36 DEF vars
<1> QED
  BY <1>1, <1>2, <1>3, <1>4, <1>5, <1>6, <1>7, <1>8, <1>9, <1>10, <1>11, <1>12, <1>13, <1>14, <1>15, <1>16, <1>17, <1>18, <1>19, <1>20, <1>21, <1>22, <1>23, <1>24, <1>25, <1>26, <1>27, <1>28, <1>29, <1>30, <1>31, <1>32, <1>33, <1>34, <1>35, <1>36
  DEF Next, Requested, SessionThread

\* The end of a session does not throw away a judgment of the operator.
THEOREM JudgmentKept == Spec => NeverFiledBehind
<1>1. TypeOK /\ SessionInv /\ [Next]_vars => [FiledBehind => pc = "died"]_vars
  BY FiledStep
<1> QED  BY <1>1, SessionTypeCorrect, SessionInvariant, PTL DEF Spec, NeverFiledBehind
-----------------------------------------------------------------------------
(* The count.                                                              *)

\* What is kept changes only with what the disk says, and with the session.
LEMMA KeptStays == UNCHANGED <<disk, home, sess>> => Kept' = Kept
BY DEF Kept

\* Another status for an episode that is there: it is kept, or taken out.
LEMMA KeptRewritten ==
    ASSUME disk \in [Episodes -> Statuses], NEW e \in Episodes,
           disk[e] \notin {"none", "gone"}, home[e] = sess, UNCHANGED <<home, sess>>
    PROVE  /\ e \in Kept
           /\ disk' = [disk EXCEPT ![e] = "gone"] => Kept' = Kept \ {e}
           /\ \A status \in Statuses \ {"none", "gone"} :
                 disk' = [disk EXCEPT ![e] = status] => Kept' = Kept
BY DEF Kept, Statuses, Filed, Judged

\* The count is right after a step that changes neither it nor what is kept.
LEMMA CountCarried ==
    ASSUME CountInv, Kept' = Kept, count' = count, harmed \subseteq harmed',
           pc' \in Stages => pc \in Stages \cup {"bringup"},
           pc' = "bringup" => pc = "bringup",
           pc' \notin Stages \cup {"teardown"} => pc \notin Stages \cup {"teardown"}
    PROVE  CountInv'
<1>1. IsFiniteSet(Kept)'
  BY DEF CountInv
<1>2. CountIsKept'
  <2>1. CASE pc \in Stages
    BY <2>1 DEF CountInv, CountIsKept
  <2>2. CASE pc = "bringup"
    BY <2>2, FS_EmptySet DEF CountInv, CountIsKept, Stages
  <2> QED  BY <2>1, <2>2 DEF CountIsKept
<1> QED  BY <1>1, <1>2 DEF CountInv

\* ... and after one that takes an episode out and counts it off.
LEMMA CountedOff ==
    ASSUME CountInv, TypeOK, pc = "episode", NEW e \in Kept,
           Kept' = Kept \ {e}, count' = Discount, harmed' = harmed,
           pc' \in Stages
    PROVE  CountInv'
<1>1. /\ IsFiniteSet(Kept)'
      /\ Cardinality(Kept') = Cardinality(Kept) - 1
  BY FS_RemoveElement DEF CountInv
<1>2. Cardinality(Kept) \in Nat /\ Cardinality(Kept) # 0
  BY FS_CardinalityType, FS_EmptySet DEF CountInv
<1>3. CountIsKept'
  <2> SUFFICES ASSUME harmed' = {} PROVE count' = Cardinality(Kept')
    BY DEF CountIsKept
  <2>1. count = Cardinality(Kept)
    BY DEF CountInv, CountIsKept, Stages
  <2> QED  BY <1>1, <1>2, <2>1 DEF Discount
<1> QED  BY <1>1, <1>3 DEF CountInv, Stages

\* A write that fails leaves nothing to be counted against.
LEMMA CountHarmed ==
    ASSUME CountInv, Kept' = Kept, harmed' # {}, pc \in Stages,
           pc' \in Stages \cup {"teardown"}
    PROVE  CountInv'
BY DEF CountInv, CountIsKept, Stages

LEMMA InitCount == Init => CountInv
<1> SUFFICES ASSUME Init PROVE CountInv
  OBVIOUS
<1>1. Kept = {}
  BY DEF Init, Kept
<1> QED  BY <1>1, FS_EmptySet DEF Init, CountInv, CountIsKept, Stages

LEMMA StepCount == TypeOK /\ SessionInv /\ CountInv /\ [Next]_vars => CountInv'
<1> SUFFICES ASSUME TypeOK, SessionInv, CountInv, [Next]_vars PROVE CountInv'
  OBVIOUS
<1> USE DEF Goto, gates, staging, desk, guards, files, history, loop, Session
<1>1. ASSUME NEW r \in Requests, Check(r) PROVE CountInv'
  BY <1>1, KeptStays, CountCarried DEF Check, Free, Stages
<1>2. CASE BeginOffload
  BY <1>2, KeptStays, CountCarried DEF BeginOffload, Stages
<1>3. CASE BeginPlayback
  BY <1>3, KeptStays, CountCarried DEF BeginPlayback, Stages
<1>4. CASE EndPlayback
  BY <1>4, KeptStays, CountCarried DEF EndPlayback, Stages
<1>5. CASE OffloadNow
  BY <1>5, KeptStays, CountCarried DEF OffloadNow, Offloaded, Stages
<1>6. ASSUME NEW b \in Buttons, Press(b) PROVE CountInv'
  BY <1>6, KeptStays, CountCarried DEF Press, Stages
<1>7. CASE BringUp
  BY <1>7, KeptStays, CountCarried DEF BringUp, Stages
<1>8. CASE BringUpFails
  BY <1>8, KeptStays, CountCarried DEF BringUpFails, Stages
<1>9. CASE Poll
  BY <1>9, KeptStays, CountCarried DEF Poll, Stages
<1>10. CASE NoQuit
  BY <1>10, KeptStays, CountCarried DEF NoQuit, Stages
<1>11. CASE RequeueQuit
  BY <1>11, KeptStays, CountCarried DEF RequeueQuit, Stages
<1>12. CASE RefuseQuit
  BY <1>12, KeptStays, CountCarried DEF RefuseQuit, EndTick, Stages
<1>13. CASE NoNews
  BY <1>13, KeptStays, CountCarried DEF NoNews, Stages
<1>14. CASE ResumeTrip
  BY <1>14, KeptStays, CountCarried DEF ResumeTrip, Stages
<1>15. CASE ArmQuiet
  BY <1>15, KeptStays, CountCarried DEF ArmQuiet, Stages
<1>16. CASE ArmClears
  BY <1>16, KeptStays, CountCarried DEF ArmClears, Stages
<1>17. CASE JudgeFails
  BY <1>17, KeptStays, CountCarried DEF JudgeFails, Judging, RelabelFails, Leave, Stages
<1>18. CASE TargetMade
  BY <1>18, KeptStays, CountCarried DEF TargetMade, Starting, EndTick, Stages
<1>19. CASE BeginFails
  BY <1>19, KeptStays, CountCarried DEF BeginFails, Starting, Leave, Stages
<1>20. CASE NoEpisodeCommand
  BY <1>20, KeptStays, CountCarried DEF NoEpisodeCommand, Stages
<1>21. CASE TickEnds
  BY <1>21, KeptStays, CountCarried DEF TickEnds, EndTick, Stages
<1>22. CASE AutoOffload
  BY <1>22, KeptStays, CountCarried DEF AutoOffload, Offloaded, Stages
<1>23. CASE BeginSession
  <2>1. Kept' = {}
    BY <1>23 DEF BeginSession, Kept, TypeOK
  <2>2. count = 0
    BY <1>23 DEF BeginSession, SessionInv, OneAtATime, Activities, Requests, CountInv, Stages
  <2> QED  BY <1>23, <2>1, <2>2, FS_EmptySet DEF BeginSession, CountInv, CountIsKept, Stages
<1>24. CASE MotionDied
  <2> USE DEF TypeOK, SessionInv, HandOnDisk, HandStaged, InHand, Statuses, Filed, Judged
  <2>1. CASE NothingInHand
    BY <1>24, <2>1, KeptStays, CountCarried DEF MotionDied, NothingInHand, Locals, Leave, Stages
  <2>2. CASE CloseTake("aborted")
    <3>1. /\ open \in Episodes /\ disk[open] \notin {"none", "gone"} /\ home[open] = sess
          /\ disk' = [disk EXCEPT ![open] = "aborted"]
          /\ UNCHANGED <<home, sess>>
      BY <1>24, <2>2 DEF MotionDied, CloseTake, Locals
    <3>2. Kept' = Kept
      BY <3>1, KeptRewritten
    <3>3. count' = count /\ harmed' = harmed /\ pc \in Stages /\ pc' \in Stages \cup {"teardown"}
      BY <1>24, <2>2 DEF MotionDied, CloseTake, Locals, Leave, Stages
    <3> QED  BY <3>2, <3>3, CountCarried DEF Stages
  <2>3. CASE CloseFails \/ (pending # NoEpisode /\ RelabelFails)
    <3>1. Kept' = Kept
      BY <1>24, <2>3, KeptStays DEF MotionDied, CloseFails, RelabelFails
    <3> QED  BY <1>24, <2>3, <3>1, CountHarmed DEF MotionDied, CloseFails, RelabelFails, Leave, Stages
  <2>4. CASE pending # NoEpisode /\ Relabel("unlabeled")
    <3>1. /\ pending \in Episodes /\ disk[pending] \notin {"none", "gone"} /\ home[pending] = sess
          /\ disk' = [disk EXCEPT ![pending] = "unlabeled"]
          /\ UNCHANGED <<home, sess>>
      BY <1>24, <2>4 DEF MotionDied, Relabel, Locals
    <3>2. Kept' = Kept
      BY <3>1, KeptRewritten
    <3>3. count' = count /\ harmed' = harmed /\ pc \in Stages /\ pc' \in Stages \cup {"teardown"}
      BY <1>24, <2>4 DEF MotionDied, Relabel, Locals, Leave, Stages
    <3> QED  BY <3>2, <3>3, CountCarried DEF Stages
  <2> QED  BY <1>24, <2>1, <2>2, <2>3, <2>4 DEF MotionDied, PutAway, FilePending
<1>25. CASE Quit
  <2> USE DEF TypeOK, SessionInv, HandOnDisk, HandStaged, InHand, Statuses, Filed, Judged
  <2>1. CASE NothingInHand
    BY <1>25, <2>1, KeptStays, CountCarried DEF Quit, NothingInHand, Locals, Leave, Stages
  <2>2. CASE CloseTake("aborted")
    <3>1. /\ open \in Episodes /\ disk[open] \notin {"none", "gone"} /\ home[open] = sess
          /\ disk' = [disk EXCEPT ![open] = "aborted"]
          /\ UNCHANGED <<home, sess>>
      BY <1>25, <2>2 DEF Quit, CloseTake, Locals
    <3>2. Kept' = Kept
      BY <3>1, KeptRewritten
    <3>3. count' = count /\ harmed' = harmed /\ pc \in Stages /\ pc' \in Stages \cup {"teardown"}
      BY <1>25, <2>2 DEF Quit, CloseTake, Locals, Leave, Stages
    <3> QED  BY <3>2, <3>3, CountCarried DEF Stages
  <2>3. CASE CloseFails \/ (pending # NoEpisode /\ RelabelFails)
    <3>1. Kept' = Kept
      BY <1>25, <2>3, KeptStays DEF Quit, CloseFails, RelabelFails
    <3> QED  BY <1>25, <2>3, <3>1, CountHarmed DEF Quit, CloseFails, RelabelFails, Leave, Stages
  <2>4. CASE pending # NoEpisode /\ Relabel("unlabeled")
    <3>1. /\ pending \in Episodes /\ disk[pending] \notin {"none", "gone"} /\ home[pending] = sess
          /\ disk' = [disk EXCEPT ![pending] = "unlabeled"]
          /\ UNCHANGED <<home, sess>>
      BY <1>25, <2>4 DEF Quit, Relabel, Locals
    <3>2. Kept' = Kept
      BY <3>1, KeptRewritten
    <3>3. count' = count /\ harmed' = harmed /\ pc \in Stages /\ pc' \in Stages \cup {"teardown"}
      BY <1>25, <2>4 DEF Quit, Relabel, Locals, Leave, Stages
    <3> QED  BY <3>2, <3>3, CountCarried DEF Stages
  <2> QED  BY <1>25, <2>1, <2>2, <2>3, <2>4 DEF Quit, PutAway, FilePending
<1>26. CASE BookTrip
  <2> USE DEF TypeOK, SessionInv, HandOnDisk, HandStaged, InHand, Statuses, Filed, Judged
  <2>1. CASE CloseTake("failure")
    <3>1. /\ open \in Episodes /\ disk[open] \notin {"none", "gone"} /\ home[open] = sess
          /\ disk' = [disk EXCEPT ![open] = "failure"]
          /\ UNCHANGED <<home, sess>>
      BY <1>26, <2>1 DEF BookTrip, CloseTake
    <3>2. Kept' = Kept
      BY <3>1, KeptRewritten
    <3>3. count' = count /\ harmed' = harmed /\ pc \in Stages /\ pc' \in Stages \cup {"teardown"}
      BY <1>26, <2>1 DEF BookTrip, CloseTake, Leave, Stages
    <3> QED  BY <3>2, <3>3, CountCarried DEF Stages
  <2>2. CASE CloseFails
    <3>1. Kept' = Kept
      BY <1>26, <2>2, KeptStays DEF BookTrip, CloseFails
    <3> QED  BY <1>26, <2>2, <3>1, CountHarmed DEF BookTrip, CloseFails, Leave, Stages
  <2>3. CASE open = NoEpisode /\ UNCHANGED <<files, history>>
    <3>1. Kept' = Kept
      BY <1>26, <2>3, KeptStays DEF BookTrip
    <3>2. count' = count /\ harmed' = harmed /\ pc \in Stages /\ pc' \in Stages \cup {"teardown"}
      BY <1>26, <2>3 DEF BookTrip, Leave, CloseFails, Stages
    <3> QED  BY <3>1, <3>2, CountCarried DEF Stages
  <2> QED  BY <1>26, <2>1, <2>2, <2>3 DEF BookTrip
<1>27. CASE ArmTrouble
  <2> USE DEF TypeOK, SessionInv, HandOnDisk, HandStaged, InHand, Statuses, Filed, Judged
  <2>1. CASE CloseTake("unjudged")
    <3>1. /\ open \in Episodes /\ disk[open] \notin {"none", "gone"} /\ home[open] = sess
          /\ disk' = [disk EXCEPT ![open] = "unjudged"]
          /\ UNCHANGED <<home, sess>>
      BY <1>27, <2>1 DEF ArmTrouble, CloseTake
    <3>2. Kept' = Kept
      BY <3>1, KeptRewritten
    <3>3. count' = count /\ harmed' = harmed /\ pc \in Stages /\ pc' \in Stages \cup {"teardown"}
      BY <1>27, <2>1 DEF ArmTrouble, CloseTake, Leave, Stages
    <3> QED  BY <3>2, <3>3, CountCarried DEF Stages
  <2>2. CASE CloseFails
    <3>1. Kept' = Kept
      BY <1>27, <2>2, KeptStays DEF ArmTrouble, CloseFails
    <3> QED  BY <1>27, <2>2, <3>1, CountHarmed DEF ArmTrouble, CloseFails, Leave, Stages
  <2>3. CASE open = NoEpisode /\ UNCHANGED <<files, history>>
    <3>1. Kept' = Kept
      BY <1>27, <2>3, KeptStays DEF ArmTrouble
    <3>2. count' = count /\ harmed' = harmed /\ pc \in Stages /\ pc' \in Stages \cup {"teardown"}
      BY <1>27, <2>3 DEF ArmTrouble, Leave, CloseFails, Stages
    <3> QED  BY <3>1, <3>2, CountCarried DEF Stages
  <2> QED  BY <1>27, <2>1, <2>2, <2>3 DEF ArmTrouble
<1>28. CASE StopOpen
  <2> USE DEF TypeOK, SessionInv, HandOnDisk, HandStaged, InHand, Statuses, Filed, Judged
  <2>1. CASE CloseTake("unjudged")
    <3>1. /\ open \in Episodes /\ disk[open] \notin {"none", "gone"} /\ home[open] = sess
          /\ disk' = [disk EXCEPT ![open] = "unjudged"]
          /\ UNCHANGED <<home, sess>>
      BY <1>28, <2>1 DEF StopOpen, CloseTake
    <3>2. Kept' = Kept
      BY <3>1, KeptRewritten
    <3>3. count' = count /\ harmed' = harmed /\ pc \in Stages /\ pc' \in Stages \cup {"teardown"}
      BY <1>28, <2>1 DEF StopOpen, CloseTake, Leave, Stages
    <3> QED  BY <3>2, <3>3, CountCarried DEF Stages
  <2>2. CASE CloseFails
    <3>1. Kept' = Kept
      BY <1>28, <2>2, KeptStays DEF StopOpen, CloseFails
    <3> QED  BY <1>28, <2>2, <3>1, CountHarmed DEF StopOpen, CloseFails, Leave, Stages
  <2> QED  BY <1>28, <2>1, <2>2 DEF StopOpen
<1>29. CASE WorkerDied
  <2> USE DEF TypeOK, SessionInv, HandOnDisk, HandStaged, InHand, Statuses, Filed, Judged
  <2>1. CASE CloseTake("failure")
    <3>1. /\ open \in Episodes /\ disk[open] \notin {"none", "gone"} /\ home[open] = sess
          /\ disk' = [disk EXCEPT ![open] = "failure"]
          /\ UNCHANGED <<home, sess>>
      BY <1>29, <2>1 DEF WorkerDied, Locals, CloseTake
    <3>2. Kept' = Kept
      BY <3>1, KeptRewritten
    <3>3. count' = count /\ harmed' = harmed /\ pc \in Stages /\ pc' \in Stages \cup {"teardown"}
      BY <1>29, <2>1 DEF WorkerDied, Locals, CloseTake, Leave, Stages
    <3> QED  BY <3>2, <3>3, CountCarried DEF Stages
  <2>2. CASE CloseFails
    <3>1. Kept' = Kept
      BY <1>29, <2>2, KeptStays DEF WorkerDied, Locals, CloseFails
    <3> QED  BY <1>29, <2>2, <3>1, CountHarmed DEF WorkerDied, Locals, CloseFails, Leave, Stages
  <2> QED  BY <1>29, <2>1, <2>2 DEF WorkerDied
<1>30. CASE DiscardOpen
  <2> USE DEF TypeOK, SessionInv, HandOnDisk, HandStaged, InHand, Statuses, Filed, Judged
  <2>1. CASE CloseTake("gone")
    <3>1. open \in Kept /\ Kept' = Kept \ {open}
      BY <1>30, <2>1, KeptRewritten DEF DiscardOpen, CloseTake
    <3> QED  BY <1>30, <2>1, <3>1, CountedOff DEF DiscardOpen, CloseTake, Leave, CloseFails, Stages
  <2>2. CASE RemovalFails
    <3>1. Kept' = Kept
      <4>1. /\ open \in Episodes /\ disk[open] \notin {"none", "gone"} /\ home[open] = sess
            /\ disk' = [disk EXCEPT ![open] = "aborted"]
            /\ UNCHANGED <<home, sess>>
        BY <1>30, <2>2 DEF DiscardOpen, RemovalFails
      <4> QED  BY <4>1, KeptRewritten
    <3> QED  BY <1>30, <2>2, <3>1, CountHarmed DEF DiscardOpen, RemovalFails, Leave, Stages
  <2>3. CASE CloseFails
    <3>1. Kept' = Kept
      BY <1>30, <2>3, KeptStays DEF DiscardOpen, CloseFails
    <3> QED  BY <1>30, <2>3, <3>1, CountHarmed DEF DiscardOpen, CloseFails, Leave, Stages
  <2> QED  BY <1>30, <2>1, <2>2, <2>3 DEF DiscardOpen
<1>31. CASE DiscardPending
  <2> USE DEF TypeOK, SessionInv, HandOnDisk, HandStaged, InHand, Statuses, Filed, Judged
  <2>1. CASE Relabel("gone")
    <3>1. pending \in Kept /\ Kept' = Kept \ {pending}
      BY <1>31, <2>1, KeptRewritten DEF DiscardPending, Judging, Relabel
    <3> QED  BY <1>31, <2>1, <3>1, CountedOff DEF DiscardPending, Relabel, Stages
  <2>2. CASE RelabelFails
    <3>1. Kept' = Kept
      BY <1>31, <2>2, KeptStays DEF DiscardPending, RelabelFails
    <3> QED  BY <1>31, <2>2, <3>1, CountHarmed DEF DiscardPending, Judging, RelabelFails, Stages
  <2> QED  BY <1>31, <2>1, <2>2 DEF DiscardPending
<1>32. CASE Judge
  <2> USE DEF TypeOK, SessionInv, HandOnDisk, HandStaged, InHand, Statuses, Filed, Judged
  <2>1. PICK status \in {"success", "failure"} : Relabel(status)
    BY <1>32 DEF Judge
  <2>2. Kept' = Kept
    BY <1>32, <2>1, KeptRewritten DEF Judge, Judging, Relabel
  <2> QED  BY <1>32, <2>1, <2>2, CountCarried DEF Judge, Relabel, Leave, Stages
<1>33. CASE Begin
  <2>1. PICK e \in Episodes : /\ disk[e] = "none"
                              /\ disk' = [disk EXCEPT ![e] = "recording"]
                              /\ home' = [home EXCEPT ![e] = sess]
    BY <1>33 DEF Begin
  <2>2. e \notin Kept /\ Kept' = Kept \cup {e}
    BY <1>33, <2>1 DEF Begin, Kept, TypeOK
  <2>3. IsFiniteSet(Kept) /\ Cardinality(Kept) \in Nat
    BY FS_CardinalityType DEF CountInv
  <2>4. IsFiniteSet(Kept') /\ Cardinality(Kept') = Cardinality(Kept) + 1
    BY <2>2, <2>3, FS_AddElement
  <2> QED  BY <1>33, <2>4 DEF Begin, Starting, CountInv, CountIsKept, Stages
<1>34. CASE Teardown
  <2>1. Kept' = Kept
    BY <1>34, KeptStays, KeptRewritten DEF Teardown, CloseTake, CloseFails, TypeOK, SessionInv, HandOnDisk, HandStaged,
       InHand, Statuses, Filed, Judged
  <2> QED  BY <1>34, <2>1 DEF Teardown, ResetLocals, CountInv, CountIsKept, Stages
<1>35. CASE Killed
  <2>1. Kept' = Kept
    BY <1>35, KeptStays DEF Killed
  <2> QED  BY <1>35, <2>1 DEF Killed, ResetLocals, CountInv, CountIsKept, Stages
<1>36. CASE UNCHANGED vars
  <2> QED  BY <1>36, KeptStays, CountCarried DEF vars
<1> QED
  BY <1>1, <1>2, <1>3, <1>4, <1>5, <1>6, <1>7, <1>8, <1>9, <1>10, <1>11, <1>12, <1>13, <1>14, <1>15, <1>16, <1>17, <1>18, <1>19, <1>20, <1>21, <1>22, <1>23, <1>24, <1>25, <1>26, <1>27, <1>28, <1>29, <1>30, <1>31, <1>32, <1>33, <1>34, <1>35, <1>36
  DEF Next, Requested, SessionThread

\* The panel's count is the number of episodes this session has kept on the
\* disk, until a write fails: begun, stopped, judged, discarded or filed.
THEOREM CountAgreesWithDisk == Spec => []CountIsKept
<1>1. Init => CountInv
  BY InitCount
<1>2. TypeOK /\ SessionInv /\ CountInv /\ [Next]_vars => CountInv'
  BY StepCount
<1>3. Spec => []TypeOK /\ []SessionInv
  BY SessionTypeCorrect, SessionInvariant, PTL
<1>4. CountInv => CountIsKept
  BY DEF CountInv
<1> QED  BY <1>1, <1>2, <1>3, <1>4, PTL DEF Spec
=============================================================================
