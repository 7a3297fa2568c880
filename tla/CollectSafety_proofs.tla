----------------------- MODULE CollectSafety_proofs -----------------------
(***************************************************************************)
(* Proofs about CollectSafety, for every set of sessions.                  *)
(***************************************************************************)
EXTENDS CollectSafety, TLAPS

(* Types: the flags, the sampled record and the poses, the steps.          *)

FlagTypes ==
    /\ ctlLost \in BOOLEAN /\ reseed \in BOOLEAN /\ pstop \in BOOLEAN
    /\ scriptDead \in BOOLEAN /\ enabled \in BOOLEAN /\ tripped \in BOOLEAN
    /\ suspended \in BOOLEAN /\ openPending \in BOOLEAN /\ trip \in BOOLEAN
    /\ handled \in BOOLEAN /\ caught \in BOOLEAN
SeenTypes == phase \in Phases /\ seen \in [pstop : BOOLEAN, phase : Phases, reseed : BOOLEAN]
StepTypes ==
    /\ setup \in Setups /\ streamer \in StreamerSteps
    /\ safeguard \in SafeguardSteps /\ pilot \in PilotSteps /\ loop \in LoopSteps
    /\ gripper \in {"open", "leader"} /\ armHold \in {NoHold, "pstop", "wrench"}
AgeTypes == age \in [Poses -> Ages]

LEMMA TypeParts == TypeOK <=> FlagTypes /\ SeenTypes /\ StepTypes /\ AgeTypes
<1> QED  BY DEF TypeOK, FlagTypes, SeenTypes, StepTypes, AgeTypes

LEMMA TypePartsNext == TypeOK' <=> FlagTypes' /\ SeenTypes' /\ StepTypes' /\ AgeTypes'
<1> QED  BY DEF TypeOK, FlagTypes, SeenTypes, StepTypes, AgeTypes

LEMMA InitTypes == Init => TypeOK
<1> SUFFICES ASSUME Init PROVE TypeOK
  OBVIOUS
<1>1. FlagTypes
  BY DEF Init, FlagTypes
<1>2. SeenTypes
  BY DEF Init, SeenTypes, NothingSeen, Phases
<1>3. StepTypes
  BY DEF Init, StepTypes, StreamerSteps, SafeguardSteps, PilotSteps, LoopSteps, NoHold
<1>4. AgeTypes
  BY DEF Init, AgeTypes, Ages, Poses
<1> QED  BY <1>1, <1>2, <1>3, <1>4, TypeParts

LEMMA FlagStep == FlagTypes /\ SeenTypes /\ [Next]_vars => FlagTypes'
<1> SUFFICES ASSUME FlagTypes, SeenTypes, [Next]_vars PROVE FlagTypes'
  OBVIOUS
<1>0. seen.pstop \in BOOLEAN /\ seen.reseed \in BOOLEAN
  BY DEF SeenTypes
<1> USE DEF motion, cycle, robot, guardVars, grip, session, FlagTypes
<1>1. CASE Sample /\ UNCHANGED <<robot, guardVars, grip, session>>
  BY <1>1, <1>0 DEF Sample, StreamerGoto
<1>2. CASE Judge /\ UNCHANGED <<robot, guardVars, grip, session>>
  BY <1>2, <1>0 DEF Judge, StreamerGoto
<1>3. CASE Park /\ UNCHANGED <<robot, guardVars, grip, session>>
  BY <1>3, <1>0 DEF Park, EndCycle, Unheld
<1>4. CASE Look /\ UNCHANGED <<robot, guardVars, grip, session>>
  BY <1>4, <1>0 DEF Look, StreamerGoto
<1>5. CASE Frozen /\ UNCHANGED <<robot, guardVars, grip, session>>
  BY <1>5, <1>0 DEF Frozen, EndCycle, CtlLockFree
<1>6. CASE Follow /\ UNCHANGED <<robot, guardVars, grip, session>>
  <2>1. caught' = FALSE \/ caught' = caught
    BY <1>6 DEF Follow, EndCycle, Seeded, StreamerGoto
  <2>2. UNCHANGED <<ctlLost, reseed, pstop, scriptDead, enabled, tripped, suspended, openPending, trip, handled>>
    BY <1>6 DEF Follow, EndCycle, Seeded, StreamerGoto
  <2> QED  BY <2>1, <2>2
<1>7. CASE Reread /\ UNCHANGED <<robot, guardVars, grip, session>>
  BY <1>7, <1>0 DEF Reread, StreamerGoto
<1>8. CASE Command /\ UNCHANGED <<robot, guardVars, grip, session>>
  BY <1>8, <1>0 DEF Command, Glide, TrackLeader, StreamerGoto
<1>9. CASE Check /\ UNCHANGED <<robot, guardVars, grip, session>>
  <2>1. caught' = FALSE \/ caught' = caught
    BY <1>9 DEF Check, EndCycle, StreamerGoto
  <2>2. UNCHANGED <<ctlLost, reseed, pstop, scriptDead, enabled, tripped, suspended, openPending, trip, handled>>
    BY <1>9 DEF Check, EndCycle, StreamerGoto
  <2> QED  BY <2>1, <2>2
<1>10. CASE Send /\ UNCHANGED <<robot, guardVars, grip, session>>
  BY <1>10, <1>0 DEF Send, EndCycle, CtlLockFree
<1>11. CASE ReadLimits /\ UNCHANGED <<ctlLost, reseed, streamer, seen, robot, pilot, gripper, session>>
  BY <1>11, <1>0 DEF ReadLimits
<1>12. CASE Latch /\ UNCHANGED <<ctlLost, reseed, streamer, seen, robot, pilot, gripper, session>>
  BY <1>12, <1>0 DEF Latch
<1>13. CASE TripHolds /\ UNCHANGED <<ctlLost, reseed, streamer, seen, robot, pilot, gripper, session>>
  BY <1>13, <1>0 DEF TripHolds, Hold
<1>14. CASE TripOpens /\ UNCHANGED <<ctlLost, reseed, streamer, seen, robot, pilot, gripper, session>>
  BY <1>14, <1>0 DEF TripOpens
<1>15. CASE PilotTick /\ UNCHANGED <<motion, cycle, robot, guardVars, session>>
  BY <1>15, <1>0 DEF PilotTick
<1>16. CASE PilotOpens /\ UNCHANGED <<motion, cycle, robot, guardVars, session>>
  BY <1>16, <1>0 DEF PilotOpens
<1>17. CASE PilotFollows /\ UNCHANGED <<motion, cycle, robot, guardVars, session>>
  BY <1>17, <1>0 DEF PilotFollows
<1>18. CASE TickStarts
  BY <1>18, <1>0 DEF TickStarts, LoopGoto
<1>19. CASE TripHandled
  BY <1>19, <1>0 DEF TripHandled, LoopGoto, PilotRelease
<1>20. CASE SwitchedOff
  BY <1>20, <1>0 DEF SwitchedOff, ResumeUnlessArmHold, Resume, Unheld, LoopGoto
<1>21. CASE ResumeButton
  BY <1>21, <1>0 DEF ResumeButton, LoopGoto, PilotRelease
<1>22. CASE Rearm
  BY <1>22, <1>0 DEF Rearm, ResumeUnlessArmHold, Resume, Unheld, LoopGoto
<1>23. CASE Reset
  BY <1>23, <1>0 DEF Reset, LoopGoto
<1>24. CASE ArmGuardStep
  BY <1>24, <1>0 DEF ArmGuardStep, Kinds, Hold, LoopGoto
<1>25. CASE Recovered
  BY <1>25, <1>0 DEF Recovered, LoopGoto
<1>26. CASE Thaw
  BY <1>26, <1>0 DEF Thaw, Resume, Unheld, LoopGoto
<1>27. CASE ReengageButton
  BY <1>27, <1>0 DEF ReengageButton, LoopGoto
<1>28. CASE RebuildScript
  BY <1>28, <1>0 DEF RebuildScript, LoopGoto, RebuildSettled
<1>29. CASE SeedGlide
  BY <1>29, <1>0 DEF SeedGlide, LoopGoto
<1>30. CASE Commit
  BY <1>30, <1>0 DEF Commit, Unheld, LoopGoto
<1>31. CASE Configure
  BY <1>31, <1>0 DEF Configure
<1>32. CASE ProtectiveStop
  BY <1>32, <1>0 DEF ProtectiveStop
<1>33. CASE ClearStop
  BY <1>33, <1>0 DEF ClearStop
<1>34. CASE Jog
  BY <1>34, <1>0 DEF Jog
<1>35. CASE UNCHANGED vars
  BY <1>35, <1>0 DEF vars
<1> QED
  BY <1>1, <1>2, <1>3, <1>4, <1>5, <1>6, <1>7, <1>8, <1>9, <1>10, <1>11, <1>12, <1>13, <1>14, <1>15, <1>16, <1>17, <1>18, <1>19, <1>20, <1>21, <1>22, <1>23, <1>24, <1>25, <1>26, <1>27, <1>28, <1>29, <1>30, <1>31, <1>32, <1>33, <1>34, <1>35
  DEF Next, StreamerThread, SafeguardThread, PilotThread, LoopThread

LEMMA SeenStep == FlagTypes /\ SeenTypes /\ [Next]_vars => SeenTypes'
<1> SUFFICES ASSUME FlagTypes, SeenTypes, [Next]_vars PROVE SeenTypes'
  OBVIOUS
<1>0. pstop \in BOOLEAN /\ reseed \in BOOLEAN
  BY DEF FlagTypes
<1> USE DEF motion, cycle, robot, guardVars, grip, session, SeenTypes, Phases, NothingSeen
<1>1. CASE Sample /\ UNCHANGED <<robot, guardVars, grip, session>>
  BY <1>1, <1>0 DEF Sample, StreamerGoto
<1>2. CASE Judge /\ UNCHANGED <<robot, guardVars, grip, session>>
  BY <1>2, <1>0 DEF Judge, StreamerGoto
<1>3. CASE Park /\ UNCHANGED <<robot, guardVars, grip, session>>
  BY <1>3, <1>0 DEF Park, EndCycle, Unheld
<1>4. CASE Look /\ UNCHANGED <<robot, guardVars, grip, session>>
  BY <1>4, <1>0 DEF Look, StreamerGoto
<1>5. CASE Frozen /\ UNCHANGED <<robot, guardVars, grip, session>>
  BY <1>5, <1>0 DEF Frozen, EndCycle, CtlLockFree
<1>6. CASE Follow /\ UNCHANGED <<robot, guardVars, grip, session>>
  <2>1. seen' = seen \/ seen' = [pstop |-> FALSE, phase |-> "engage", reseed |-> FALSE]
    BY <1>6 DEF Follow, EndCycle, Seeded, StreamerGoto
  <2>2. phase' = phase \/ phase' = "engage"
    BY <1>6 DEF Follow, EndCycle, Seeded, StreamerGoto
  <2>3. [pstop |-> FALSE, phase |-> "engage", reseed |-> FALSE]
           \in [pstop : BOOLEAN, phase : Phases, reseed : BOOLEAN]
    OBVIOUS
  <2>4. seen' \in [pstop : BOOLEAN, phase : Phases, reseed : BOOLEAN]
    <3> HIDE DEF Phases
    <3> QED  BY <2>1, <2>3
  <2>5. phase' \in Phases
    BY <2>2
  <2> QED  BY <2>4, <2>5
<1>7. CASE Reread /\ UNCHANGED <<robot, guardVars, grip, session>>
  BY <1>7, <1>0 DEF Reread, StreamerGoto
<1>8. CASE Command /\ UNCHANGED <<robot, guardVars, grip, session>>
  BY <1>8, <1>0 DEF Command, Glide, TrackLeader, StreamerGoto
<1>9. CASE Check /\ UNCHANGED <<robot, guardVars, grip, session>>
  <2>1. seen' = seen \/ seen' = [pstop |-> FALSE, phase |-> "engage", reseed |-> FALSE]
    BY <1>9 DEF Check, EndCycle, StreamerGoto
  <2>2. phase' = phase \/ phase' = "engage"
    BY <1>9 DEF Check, EndCycle, StreamerGoto
  <2>3. [pstop |-> FALSE, phase |-> "engage", reseed |-> FALSE]
           \in [pstop : BOOLEAN, phase : Phases, reseed : BOOLEAN]
    OBVIOUS
  <2>4. seen' \in [pstop : BOOLEAN, phase : Phases, reseed : BOOLEAN]
    <3> HIDE DEF Phases
    <3> QED  BY <2>1, <2>3
  <2>5. phase' \in Phases
    BY <2>2
  <2> QED  BY <2>4, <2>5
<1>10. CASE Send /\ UNCHANGED <<robot, guardVars, grip, session>>
  BY <1>10, <1>0 DEF Send, EndCycle, CtlLockFree
<1>11. CASE ReadLimits /\ UNCHANGED <<ctlLost, reseed, streamer, seen, robot, pilot, gripper, session>>
  BY <1>11, <1>0 DEF ReadLimits
<1>12. CASE Latch /\ UNCHANGED <<ctlLost, reseed, streamer, seen, robot, pilot, gripper, session>>
  BY <1>12, <1>0 DEF Latch
<1>13. CASE TripHolds /\ UNCHANGED <<ctlLost, reseed, streamer, seen, robot, pilot, gripper, session>>
  BY <1>13, <1>0 DEF TripHolds, Hold
<1>14. CASE TripOpens /\ UNCHANGED <<ctlLost, reseed, streamer, seen, robot, pilot, gripper, session>>
  BY <1>14, <1>0 DEF TripOpens
<1>15. CASE PilotTick /\ UNCHANGED <<motion, cycle, robot, guardVars, session>>
  BY <1>15, <1>0 DEF PilotTick
<1>16. CASE PilotOpens /\ UNCHANGED <<motion, cycle, robot, guardVars, session>>
  BY <1>16, <1>0 DEF PilotOpens
<1>17. CASE PilotFollows /\ UNCHANGED <<motion, cycle, robot, guardVars, session>>
  BY <1>17, <1>0 DEF PilotFollows
<1>18. CASE TickStarts
  BY <1>18, <1>0 DEF TickStarts, LoopGoto
<1>19. CASE TripHandled
  BY <1>19, <1>0 DEF TripHandled, LoopGoto, PilotRelease
<1>20. CASE SwitchedOff
  BY <1>20, <1>0 DEF SwitchedOff, ResumeUnlessArmHold, Resume, Unheld, LoopGoto
<1>21. CASE ResumeButton
  BY <1>21, <1>0 DEF ResumeButton, LoopGoto, PilotRelease
<1>22. CASE Rearm
  BY <1>22, <1>0 DEF Rearm, ResumeUnlessArmHold, Resume, Unheld, LoopGoto
<1>23. CASE Reset
  BY <1>23, <1>0 DEF Reset, LoopGoto
<1>24. CASE ArmGuardStep
  BY <1>24, <1>0 DEF ArmGuardStep, Kinds, Hold, LoopGoto
<1>25. CASE Recovered
  BY <1>25, <1>0 DEF Recovered, LoopGoto
<1>26. CASE Thaw
  BY <1>26, <1>0 DEF Thaw, Resume, Unheld, LoopGoto
<1>27. CASE ReengageButton
  BY <1>27, <1>0 DEF ReengageButton, LoopGoto
<1>28. CASE RebuildScript
  BY <1>28, <1>0 DEF RebuildScript, LoopGoto, RebuildSettled
<1>29. CASE SeedGlide
  BY <1>29, <1>0 DEF SeedGlide, LoopGoto
<1>30. CASE Commit
  BY <1>30, <1>0 DEF Commit, Unheld, LoopGoto
<1>31. CASE Configure
  BY <1>31, <1>0 DEF Configure
<1>32. CASE ProtectiveStop
  BY <1>32, <1>0 DEF ProtectiveStop
<1>33. CASE ClearStop
  BY <1>33, <1>0 DEF ClearStop
<1>34. CASE Jog
  BY <1>34, <1>0 DEF Jog
<1>35. CASE UNCHANGED vars
  BY <1>35, <1>0 DEF vars
<1> QED
  BY <1>1, <1>2, <1>3, <1>4, <1>5, <1>6, <1>7, <1>8, <1>9, <1>10, <1>11, <1>12, <1>13, <1>14, <1>15, <1>16, <1>17, <1>18, <1>19, <1>20, <1>21, <1>22, <1>23, <1>24, <1>25, <1>26, <1>27, <1>28, <1>29, <1>30, <1>31, <1>32, <1>33, <1>34, <1>35
  DEF Next, StreamerThread, SafeguardThread, PilotThread, LoopThread

LEMMA PlaceStep == StepTypes /\ [Next]_vars => StepTypes'
<1> SUFFICES ASSUME StepTypes, [Next]_vars PROVE StepTypes'
  OBVIOUS
<1>0. UNCHANGED setup
  BY DEF Next, vars
<1> USE DEF motion, cycle, robot, guardVars, grip, session, StepTypes, StreamerSteps, SafeguardSteps, PilotSteps, LoopSteps, NoHold
<1>1. CASE Sample /\ UNCHANGED <<robot, guardVars, grip, session>>
  BY <1>1, <1>0 DEF Sample, StreamerGoto
<1>2. CASE Judge /\ UNCHANGED <<robot, guardVars, grip, session>>
  BY <1>2, <1>0 DEF Judge, StreamerGoto
<1>3. CASE Park /\ UNCHANGED <<robot, guardVars, grip, session>>
  BY <1>3, <1>0 DEF Park, EndCycle, Unheld
<1>4. CASE Look /\ UNCHANGED <<robot, guardVars, grip, session>>
  BY <1>4, <1>0 DEF Look, StreamerGoto
<1>5. CASE Frozen /\ UNCHANGED <<robot, guardVars, grip, session>>
  BY <1>5, <1>0 DEF Frozen, EndCycle, CtlLockFree
<1>6. CASE Follow /\ UNCHANGED <<robot, guardVars, grip, session>>
  BY <1>6, <1>0 DEF Follow, EndCycle, Seeded, StreamerGoto
<1>7. CASE Reread /\ UNCHANGED <<robot, guardVars, grip, session>>
  BY <1>7, <1>0 DEF Reread, StreamerGoto
<1>8. CASE Command /\ UNCHANGED <<robot, guardVars, grip, session>>
  BY <1>8, <1>0 DEF Command, Glide, TrackLeader, StreamerGoto
<1>9. CASE Check /\ UNCHANGED <<robot, guardVars, grip, session>>
  BY <1>9, <1>0 DEF Check, EndCycle, StreamerGoto
<1>10. CASE Send /\ UNCHANGED <<robot, guardVars, grip, session>>
  BY <1>10, <1>0 DEF Send, EndCycle, CtlLockFree
<1>11. CASE ReadLimits /\ UNCHANGED <<ctlLost, reseed, streamer, seen, robot, pilot, gripper, session>>
  BY <1>11, <1>0 DEF ReadLimits
<1>12. CASE Latch /\ UNCHANGED <<ctlLost, reseed, streamer, seen, robot, pilot, gripper, session>>
  BY <1>12, <1>0 DEF Latch
<1>13. CASE TripHolds /\ UNCHANGED <<ctlLost, reseed, streamer, seen, robot, pilot, gripper, session>>
  BY <1>13, <1>0 DEF TripHolds, Hold
<1>14. CASE TripOpens /\ UNCHANGED <<ctlLost, reseed, streamer, seen, robot, pilot, gripper, session>>
  BY <1>14, <1>0 DEF TripOpens
<1>15. CASE PilotTick /\ UNCHANGED <<motion, cycle, robot, guardVars, session>>
  BY <1>15, <1>0 DEF PilotTick
<1>16. CASE PilotOpens /\ UNCHANGED <<motion, cycle, robot, guardVars, session>>
  BY <1>16, <1>0 DEF PilotOpens
<1>17. CASE PilotFollows /\ UNCHANGED <<motion, cycle, robot, guardVars, session>>
  BY <1>17, <1>0 DEF PilotFollows
<1>18. CASE TickStarts
  BY <1>18, <1>0 DEF TickStarts, LoopGoto
<1>19. CASE TripHandled
  BY <1>19, <1>0 DEF TripHandled, LoopGoto, PilotRelease
<1>20. CASE SwitchedOff
  BY <1>20, <1>0 DEF SwitchedOff, ResumeUnlessArmHold, Resume, Unheld, LoopGoto
<1>21. CASE ResumeButton
  BY <1>21, <1>0 DEF ResumeButton, LoopGoto, PilotRelease
<1>22. CASE Rearm
  BY <1>22, <1>0 DEF Rearm, ResumeUnlessArmHold, Resume, Unheld, LoopGoto
<1>23. CASE Reset
  BY <1>23, <1>0 DEF Reset, LoopGoto
<1>24. CASE ArmGuardStep
  BY <1>24, <1>0 DEF ArmGuardStep, Kinds, Hold, LoopGoto
<1>25. CASE Recovered
  BY <1>25, <1>0 DEF Recovered, LoopGoto
<1>26. CASE Thaw
  BY <1>26, <1>0 DEF Thaw, Resume, Unheld, LoopGoto
<1>27. CASE ReengageButton
  BY <1>27, <1>0 DEF ReengageButton, LoopGoto
<1>28. CASE RebuildScript
  BY <1>28, <1>0 DEF RebuildScript, LoopGoto, RebuildSettled
<1>29. CASE SeedGlide
  BY <1>29, <1>0 DEF SeedGlide, LoopGoto
<1>30. CASE Commit
  BY <1>30, <1>0 DEF Commit, Unheld, LoopGoto
<1>31. CASE Configure
  BY <1>31, <1>0 DEF Configure
<1>32. CASE ProtectiveStop
  BY <1>32, <1>0 DEF ProtectiveStop
<1>33. CASE ClearStop
  BY <1>33, <1>0 DEF ClearStop
<1>34. CASE Jog
  BY <1>34, <1>0 DEF Jog
<1>35. CASE UNCHANGED vars
  BY <1>35, <1>0 DEF vars
<1> QED
  BY <1>1, <1>2, <1>3, <1>4, <1>5, <1>6, <1>7, <1>8, <1>9, <1>10, <1>11, <1>12, <1>13, <1>14, <1>15, <1>16, <1>17, <1>18, <1>19, <1>20, <1>21, <1>22, <1>23, <1>24, <1>25, <1>26, <1>27, <1>28, <1>29, <1>30, <1>31, <1>32, <1>33, <1>34, <1>35
  DEF Next, StreamerThread, SafeguardThread, PilotThread, LoopThread

LEMMA AgeStep == AgeTypes /\ [Next]_vars => AgeTypes'
<1> SUFFICES ASSUME AgeTypes, [Next]_vars PROVE AgeTypes'
  OBVIOUS
<1> USE DEF motion, cycle, robot, guardVars, grip, session, AgeTypes, Poses, Ages
<1>1. CASE Sample /\ UNCHANGED <<robot, guardVars, grip, session>>
  BY <1>1 DEF Sample, StreamerGoto
<1>2. CASE Judge /\ UNCHANGED <<robot, guardVars, grip, session>>
  BY <1>2 DEF Judge, StreamerGoto
<1>3. CASE Park /\ UNCHANGED <<robot, guardVars, grip, session>>
  BY <1>3 DEF Park, EndCycle, Unheld
<1>4. CASE Look /\ UNCHANGED <<robot, guardVars, grip, session>>
  BY <1>4 DEF Look, StreamerGoto
<1>5. CASE Frozen /\ UNCHANGED <<robot, guardVars, grip, session>>
  BY <1>5 DEF Frozen, EndCycle, CtlLockFree
<1>6. CASE Follow /\ UNCHANGED <<robot, guardVars, grip, session>>
  BY <1>6 DEF Follow, EndCycle, Seeded, StreamerGoto
<1>7. CASE Reread /\ UNCHANGED <<robot, guardVars, grip, session>>
  BY <1>7 DEF Reread, StreamerGoto
<1>8. CASE Command /\ UNCHANGED <<robot, guardVars, grip, session>>
  BY <1>8 DEF Command, Glide, TrackLeader, StreamerGoto
<1>9. CASE Check /\ UNCHANGED <<robot, guardVars, grip, session>>
  BY <1>9 DEF Check, EndCycle, StreamerGoto
<1>10. CASE Send /\ UNCHANGED <<robot, guardVars, grip, session>>
  BY <1>10 DEF Send, EndCycle, CtlLockFree
<1>11. CASE ReadLimits /\ UNCHANGED <<ctlLost, reseed, streamer, seen, robot, pilot, gripper, session>>
  BY <1>11 DEF ReadLimits
<1>12. CASE Latch /\ UNCHANGED <<ctlLost, reseed, streamer, seen, robot, pilot, gripper, session>>
  BY <1>12 DEF Latch
<1>13. CASE TripHolds /\ UNCHANGED <<ctlLost, reseed, streamer, seen, robot, pilot, gripper, session>>
  BY <1>13 DEF TripHolds, Hold
<1>14. CASE TripOpens /\ UNCHANGED <<ctlLost, reseed, streamer, seen, robot, pilot, gripper, session>>
  BY <1>14 DEF TripOpens
<1>15. CASE PilotTick /\ UNCHANGED <<motion, cycle, robot, guardVars, session>>
  BY <1>15 DEF PilotTick
<1>16. CASE PilotOpens /\ UNCHANGED <<motion, cycle, robot, guardVars, session>>
  BY <1>16 DEF PilotOpens
<1>17. CASE PilotFollows /\ UNCHANGED <<motion, cycle, robot, guardVars, session>>
  BY <1>17 DEF PilotFollows
<1>18. CASE TickStarts
  BY <1>18 DEF TickStarts, LoopGoto
<1>19. CASE TripHandled
  BY <1>19 DEF TripHandled, LoopGoto, PilotRelease
<1>20. CASE SwitchedOff
  BY <1>20 DEF SwitchedOff, ResumeUnlessArmHold, Resume, Unheld, LoopGoto
<1>21. CASE ResumeButton
  BY <1>21 DEF ResumeButton, LoopGoto, PilotRelease
<1>22. CASE Rearm
  BY <1>22 DEF Rearm, ResumeUnlessArmHold, Resume, Unheld, LoopGoto
<1>23. CASE Reset
  BY <1>23 DEF Reset, LoopGoto
<1>24. CASE ArmGuardStep
  BY <1>24 DEF ArmGuardStep, Kinds, Hold, LoopGoto
<1>25. CASE Recovered
  BY <1>25 DEF Recovered, LoopGoto
<1>26. CASE Thaw
  BY <1>26 DEF Thaw, Resume, Unheld, LoopGoto
<1>27. CASE ReengageButton
  BY <1>27 DEF ReengageButton, LoopGoto
<1>28. CASE RebuildScript
  BY <1>28 DEF RebuildScript, LoopGoto, RebuildSettled
<1>29. CASE SeedGlide
  BY <1>29 DEF SeedGlide, LoopGoto
<1>30. CASE Commit
  BY <1>30 DEF Commit, Unheld, LoopGoto
<1>31. CASE Configure
  BY <1>31 DEF Configure
<1>32. CASE ProtectiveStop
  BY <1>32 DEF ProtectiveStop
<1>33. CASE ClearStop
  BY <1>33 DEF ClearStop
<1>34. CASE Jog
  BY <1>34 DEF Jog
<1>35. CASE UNCHANGED vars
  BY <1>35 DEF vars
<1> QED
  BY <1>1, <1>2, <1>3, <1>4, <1>5, <1>6, <1>7, <1>8, <1>9, <1>10, <1>11, <1>12, <1>13, <1>14, <1>15, <1>16, <1>17, <1>18, <1>19, <1>20, <1>21, <1>22, <1>23, <1>24, <1>25, <1>26, <1>27, <1>28, <1>29, <1>30, <1>31, <1>32, <1>33, <1>34, <1>35
  DEF Next, StreamerThread, SafeguardThread, PilotThread, LoopThread

LEMMA StepTyped == TypeOK /\ [Next]_vars => TypeOK'
<1> QED  BY TypeParts, TypePartsNext, FlagStep, SeenStep, PlaceStep, AgeStep

\* Every variable stays in its range.
THEOREM CollectTypeCorrect == Spec => []TypeOK
<1> QED  BY InitTypes, StepTyped, PTL DEF Spec

-----------------------------------------------------------------------------
(* Gliding.                                                                *)

GlideAll == GlideInv /\ GlideIsFresh /\ OneLateServo

LEMMA InitGlide == Init => GlideAll
<1> SUFFICES ASSUME Init PROVE GlideAll
  OBVIOUS
<1> QED  BY DEF Init, GlideAll, Gliding, Fresh, Parked, SampleFresh, GlideSeeded, TrackFresh, GlideInv, GlideIsFresh, OneLateServo, NothingSeen, Poses

LEMMA GlideStep == TypeOK /\ GlideAll /\ [Next]_vars => GlideAll'
<1> SUFFICES ASSUME TypeOK, GlideAll, [Next]_vars PROVE GlideAll'
  OBVIOUS
<1>0. /\ ctlLost \in BOOLEAN /\ reseed \in BOOLEAN /\ seen.pstop \in BOOLEAN /\ seen.reseed \in BOOLEAN
      /\ caught \in BOOLEAN /\ seen \in [pstop : BOOLEAN, phase : Phases, reseed : BOOLEAN]
      /\ phase \in Phases /\ age \in [Poses -> Ages]
  BY DEF TypeOK
<1> USE DEF motion, cycle, robot, guardVars, grip, session, GlideAll, Gliding, Fresh, Parked, SampleFresh, GlideSeeded, TrackFresh, GlideInv, GlideIsFresh, OneLateServo, NothingSeen, Poses, Ages, Phases
<1>1. CASE Sample /\ UNCHANGED <<robot, guardVars, grip, session>>
  BY <1>1, <1>0 DEF Sample, StreamerGoto
<1>2. CASE Judge /\ UNCHANGED <<robot, guardVars, grip, session>>
  <2>1. /\ streamer = "judge" /\ UNCHANGED <<phase, reseed, age, seen, caught, loop>>
        /\ ctlLost' = (ctlLost \/ seen.pstop)
        /\ streamer' \in {"park", "look"} /\ (ctlLost' => streamer' = "park")
    BY <1>2, <1>0 DEF Judge, StreamerGoto
  <2>2. ctlLost => ctlLost'
    BY <1>0, <2>1
  <2>3. Parked' /\ SampleFresh'
    BY <2>1, <2>2
  <2>4. GlideSeeded'
    BY <2>1, <2>2
  <2>5. TrackFresh'
    BY <2>1, <2>2
  <2>6. GlideIsFresh' /\ OneLateServo'
    BY <2>1
  <2> QED  BY <2>3, <2>4, <2>5, <2>6
<1>3. CASE Park /\ UNCHANGED <<robot, guardVars, grip, session>>
  BY <1>3, <1>0 DEF Park, EndCycle, Unheld
<1>4. CASE Look /\ UNCHANGED <<robot, guardVars, grip, session>>
  BY <1>4, <1>0 DEF Look, StreamerGoto
<1>5. CASE Frozen /\ UNCHANGED <<robot, guardVars, grip, session>>
  BY <1>5, <1>0 DEF Frozen, EndCycle, CtlLockFree
<1>6. CASE Follow /\ UNCHANGED <<robot, guardVars, grip, session>>
  BY <1>6, <1>0 DEF Follow, EndCycle, Seeded, StreamerGoto
<1>7. CASE Reread /\ UNCHANGED <<robot, guardVars, grip, session>>
  BY <1>7, <1>0 DEF Reread, StreamerGoto
<1>8. CASE Command /\ UNCHANGED <<robot, guardVars, grip, session>>
  BY <1>8, <1>0 DEF Command, Glide, TrackLeader, StreamerGoto
<1>9. CASE Check /\ UNCHANGED <<robot, guardVars, grip, session>>
  BY <1>9, <1>0 DEF Check, EndCycle, StreamerGoto
<1>10. CASE Send /\ UNCHANGED <<robot, guardVars, grip, session>>
  BY <1>10, <1>0 DEF Send, EndCycle, CtlLockFree
<1>11. CASE ReadLimits /\ UNCHANGED <<ctlLost, reseed, streamer, seen, robot, pilot, gripper, session>>
  BY <1>11, <1>0 DEF ReadLimits
<1>12. CASE Latch /\ UNCHANGED <<ctlLost, reseed, streamer, seen, robot, pilot, gripper, session>>
  BY <1>12, <1>0 DEF Latch
<1>13. CASE TripHolds /\ UNCHANGED <<ctlLost, reseed, streamer, seen, robot, pilot, gripper, session>>
  BY <1>13, <1>0 DEF TripHolds, Hold
<1>14. CASE TripOpens /\ UNCHANGED <<ctlLost, reseed, streamer, seen, robot, pilot, gripper, session>>
  BY <1>14, <1>0 DEF TripOpens
<1>15. CASE PilotTick /\ UNCHANGED <<motion, cycle, robot, guardVars, session>>
  BY <1>15, <1>0 DEF PilotTick
<1>16. CASE PilotOpens /\ UNCHANGED <<motion, cycle, robot, guardVars, session>>
  BY <1>16, <1>0 DEF PilotOpens
<1>17. CASE PilotFollows /\ UNCHANGED <<motion, cycle, robot, guardVars, session>>
  BY <1>17, <1>0 DEF PilotFollows
<1>18. CASE TickStarts
  BY <1>18, <1>0 DEF TickStarts, LoopGoto
<1>19. CASE TripHandled
  BY <1>19, <1>0 DEF TripHandled, LoopGoto, PilotRelease
<1>20. CASE SwitchedOff
  BY <1>20, <1>0 DEF SwitchedOff, ResumeUnlessArmHold, Resume, Unheld, LoopGoto
<1>21. CASE ResumeButton
  BY <1>21, <1>0 DEF ResumeButton, LoopGoto, PilotRelease
<1>22. CASE Rearm
  BY <1>22, <1>0 DEF Rearm, ResumeUnlessArmHold, Resume, Unheld, LoopGoto
<1>23. CASE Reset
  BY <1>23, <1>0 DEF Reset, LoopGoto
<1>24. CASE ArmGuardStep
  BY <1>24, <1>0 DEF ArmGuardStep, Kinds, Hold, LoopGoto
<1>25. CASE Recovered
  BY <1>25, <1>0 DEF Recovered, LoopGoto
<1>26. CASE Thaw
  BY <1>26, <1>0 DEF Thaw, Resume, Unheld, LoopGoto
<1>27. CASE ReengageButton
  BY <1>27, <1>0 DEF ReengageButton, LoopGoto
<1>28. CASE RebuildScript
  BY <1>28, <1>0 DEF RebuildScript, LoopGoto, RebuildSettled
<1>29. CASE SeedGlide
  BY <1>29, <1>0 DEF SeedGlide, LoopGoto
<1>30. CASE Commit
  BY <1>30, <1>0 DEF Commit, Unheld, LoopGoto
<1>31. CASE Configure
  BY <1>31, <1>0 DEF Configure
<1>32. CASE ProtectiveStop
  BY <1>32, <1>0 DEF ProtectiveStop
<1>33. CASE ClearStop
  BY <1>33, <1>0 DEF ClearStop
<1>34. CASE Jog
  BY <1>34, <1>0 DEF Jog
<1>35. CASE UNCHANGED vars
  BY <1>35, <1>0 DEF vars
<1> QED
  BY <1>1, <1>2, <1>3, <1>4, <1>5, <1>6, <1>7, <1>8, <1>9, <1>10, <1>11, <1>12, <1>13, <1>14, <1>15, <1>16, <1>17, <1>18, <1>19, <1>20, <1>21, <1>22, <1>23, <1>24, <1>25, <1>26, <1>27, <1>28, <1>29, <1>30, <1>31, <1>32, <1>33, <1>34, <1>35
  DEF Next, StreamerThread, SafeguardThread, PilotThread, LoopThread

-----------------------------------------------------------------------------
(* Trips.                                                                  *)

TripAll == TripInv /\ LatchedMeansHeld /\ LatchedGripperOpens

LEMMA InitTrip == Init => TripAll
<1> SUFFICES ASSUME Init PROVE TripAll
  OBVIOUS
<1> QED  BY DEF Init, TripAll, StaysOn, Undisturbed, ScanUnlatched, NeverLost, LoopSeesLatch, TripHeld, TripLanded, TripInForce, LatchedMeansHeld, LatchedGripperOpens, TripInv, NothingSeen, Poses, NoHold

LEMMA TripStep == TypeOK /\ TripAll /\ [Next]_vars => TripAll'
<1> SUFFICES ASSUME TypeOK, TripAll, [Next]_vars PROVE TripAll'
  OBVIOUS
<1>0. /\ tripped \in BOOLEAN /\ trip \in BOOLEAN /\ handled \in BOOLEAN /\ suspended \in BOOLEAN
      /\ openPending \in BOOLEAN /\ ctlLost \in BOOLEAN /\ pstop \in BOOLEAN /\ scriptDead \in BOOLEAN
      /\ seen \in [pstop : BOOLEAN, phase : Phases, reseed : BOOLEAN] /\ phase \in Phases
      /\ pilot \in PilotSteps /\ gripper \in {"open", "leader"} /\ age \in [Poses -> Ages]
      /\ setup \in Setups /\ Setups \subseteq SetupType
  BY CollectAssumption DEF TypeOK
<1>u. UNCHANGED setup
  BY DEF Next, vars
<1> USE DEF motion, cycle, robot, guardVars, grip, session, TripAll, StaysOn, Undisturbed, ScanUnlatched, NeverLost, LoopSeesLatch, TripHeld, TripLanded, TripInForce, LatchedMeansHeld, LatchedGripperOpens, TripInv, NothingSeen, Poses, NoHold, Phases
<1>1. CASE Sample /\ UNCHANGED <<robot, guardVars, grip, session>>
  BY <1>1, <1>0, <1>u DEF Sample, StreamerGoto, PilotSteps, SetupType
<1>2. CASE Judge /\ UNCHANGED <<robot, guardVars, grip, session>>
  BY <1>2, <1>0, <1>u DEF Judge, StreamerGoto, PilotSteps, SetupType
<1>3. CASE Park /\ UNCHANGED <<robot, guardVars, grip, session>>
  BY <1>3, <1>0, <1>u DEF Park, EndCycle, Unheld, PilotSteps, SetupType
<1>4. CASE Look /\ UNCHANGED <<robot, guardVars, grip, session>>
  BY <1>4, <1>0, <1>u DEF Look, StreamerGoto, PilotSteps, SetupType
<1>5. CASE Frozen /\ UNCHANGED <<robot, guardVars, grip, session>>
  BY <1>5, <1>0, <1>u DEF Frozen, EndCycle, CtlLockFree, PilotSteps, SetupType
<1>6. CASE Follow /\ UNCHANGED <<robot, guardVars, grip, session>>
  BY <1>6, <1>0, <1>u DEF Follow, EndCycle, Seeded, StreamerGoto, PilotSteps, SetupType
<1>7. CASE Reread /\ UNCHANGED <<robot, guardVars, grip, session>>
  BY <1>7, <1>0, <1>u DEF Reread, StreamerGoto, PilotSteps, SetupType
<1>8. CASE Command /\ UNCHANGED <<robot, guardVars, grip, session>>
  BY <1>8, <1>0, <1>u DEF Command, Glide, TrackLeader, StreamerGoto, PilotSteps, SetupType
<1>9. CASE Check /\ UNCHANGED <<robot, guardVars, grip, session>>
  BY <1>9, <1>0, <1>u DEF Check, EndCycle, StreamerGoto, PilotSteps, SetupType
<1>10. CASE Send /\ UNCHANGED <<robot, guardVars, grip, session>>
  BY <1>10, <1>0, <1>u DEF Send, EndCycle, CtlLockFree, PilotSteps, SetupType
<1>11. CASE ReadLimits /\ UNCHANGED <<ctlLost, reseed, streamer, seen, robot, pilot, gripper, session>>
  BY <1>11, <1>0, <1>u DEF ReadLimits, PilotSteps, SetupType
<1>12. CASE Latch /\ UNCHANGED <<ctlLost, reseed, streamer, seen, robot, pilot, gripper, session>>
  BY <1>12, <1>0, <1>u DEF Latch, PilotSteps, SetupType
<1>13. CASE TripHolds /\ UNCHANGED <<ctlLost, reseed, streamer, seen, robot, pilot, gripper, session>>
  BY <1>13, <1>0, <1>u DEF TripHolds, Hold, PilotSteps, SetupType
<1>14. CASE TripOpens /\ UNCHANGED <<ctlLost, reseed, streamer, seen, robot, pilot, gripper, session>>
  BY <1>14, <1>0, <1>u DEF TripOpens, PilotSteps, SetupType
<1>15. CASE PilotTick /\ UNCHANGED <<motion, cycle, robot, guardVars, session>>
  BY <1>15, <1>0, <1>u DEF PilotTick, PilotSteps, SetupType
<1>16. CASE PilotOpens /\ UNCHANGED <<motion, cycle, robot, guardVars, session>>
  BY <1>16, <1>0, <1>u DEF PilotOpens, PilotSteps, SetupType
<1>17. CASE PilotFollows /\ UNCHANGED <<motion, cycle, robot, guardVars, session>>
  BY <1>17, <1>0, <1>u DEF PilotFollows, PilotSteps, SetupType
<1>18. CASE TickStarts
  BY <1>18, <1>0, <1>u DEF TickStarts, LoopGoto, PilotSteps, SetupType
<1>19. CASE TripHandled
  BY <1>19, <1>0, <1>u DEF TripHandled, LoopGoto, PilotRelease, PilotSteps, SetupType
<1>20. CASE SwitchedOff
  BY <1>20, <1>0, <1>u DEF SwitchedOff, ResumeUnlessArmHold, Resume, Unheld, LoopGoto, PilotSteps, SetupType
<1>21. CASE ResumeButton
  BY <1>21, <1>0, <1>u DEF ResumeButton, LoopGoto, PilotRelease, PilotSteps, SetupType
<1>22. CASE Rearm
  BY <1>22, <1>0, <1>u DEF Rearm, ResumeUnlessArmHold, Resume, Unheld, LoopGoto, PilotSteps, SetupType
<1>23. CASE Reset
  BY <1>23, <1>0, <1>u DEF Reset, LoopGoto, PilotSteps, SetupType
<1>24. CASE ArmGuardStep
  BY <1>24, <1>0, <1>u DEF ArmGuardStep, Kinds, Hold, LoopGoto, PilotSteps, SetupType
<1>25. CASE Recovered
  BY <1>25, <1>0, <1>u DEF Recovered, LoopGoto, PilotSteps, SetupType
<1>26. CASE Thaw
  BY <1>26, <1>0, <1>u DEF Thaw, Resume, Unheld, LoopGoto, PilotSteps, SetupType
<1>27. CASE ReengageButton
  BY <1>27, <1>0, <1>u DEF ReengageButton, LoopGoto, PilotSteps, SetupType
<1>28. CASE RebuildScript
  BY <1>28, <1>0, <1>u DEF RebuildScript, LoopGoto, RebuildSettled, PilotSteps, SetupType
<1>29. CASE SeedGlide
  BY <1>29, <1>0, <1>u DEF SeedGlide, LoopGoto, PilotSteps, SetupType
<1>30. CASE Commit
  BY <1>30, <1>0, <1>u DEF Commit, Unheld, LoopGoto, PilotSteps, SetupType
<1>31. CASE Configure
  BY <1>31, <1>0, <1>u DEF Configure, PilotSteps, SetupType
<1>32. CASE ProtectiveStop
  BY <1>32, <1>0, <1>u DEF ProtectiveStop, PilotSteps, SetupType
<1>33. CASE ClearStop
  BY <1>33, <1>0, <1>u DEF ClearStop, PilotSteps, SetupType
<1>34. CASE Jog
  BY <1>34, <1>0, <1>u DEF Jog, PilotSteps, SetupType
<1>35. CASE UNCHANGED vars
  BY <1>35, <1>0, <1>u DEF vars, PilotSteps, SetupType
<1> QED
  BY <1>1, <1>2, <1>3, <1>4, <1>5, <1>6, <1>7, <1>8, <1>9, <1>10, <1>11, <1>12, <1>13, <1>14, <1>15, <1>16, <1>17, <1>18, <1>19, <1>20, <1>21, <1>22, <1>23, <1>24, <1>25, <1>26, <1>27, <1>28, <1>29, <1>30, <1>31, <1>32, <1>33, <1>34, <1>35
  DEF Next, StreamerThread, SafeguardThread, PilotThread, LoopThread

-----------------------------------------------------------------------------
(* How the arm starts to move under a trip.                                *)

StartsUnderTrip == TripLanded' /\ Moving' /\ ~(TripLanded /\ Moving)

LEMMA StartStep ==
  ASSUME TypeOK, TripAll, [Next]_vars, StartsUnderTrip
  PROVE  Commit \/ Thaw \/ (setup.toggles /\ SwitchedOff)
<1>0. /\ phase \in Phases /\ seen.phase \in Phases /\ tripped \in BOOLEAN /\ enabled \in BOOLEAN
      /\ setup.toggles \in BOOLEAN
  BY CollectAssumption DEF TypeOK, SetupType
<1> USE DEF motion, cycle, robot, guardVars, grip, session, StartsUnderTrip, TripLanded, Moving, Phases
\* The streamer parks, glides on or is as it was.
<1>1. ASSUME StreamerThread PROVE FALSE
  <2>1. UNCHANGED <<tripped, safeguard, loop>>
    BY <1>1 DEF StreamerThread
  <2>2. Moving' => Moving
    <3>1. ASSUME Park PROVE ~Moving'
      BY <3>1 DEF Park
    <3>2. ASSUME Follow PROVE phase' = phase \/ Moving
      BY <3>2 DEF Follow
    <3>3. ASSUME Command PROVE phase' = phase \/ Moving
      BY <3>3 DEF Command, Glide, TrackLeader
    <3>4. ASSUME Sample \/ Judge \/ Look \/ Frozen \/ Reread \/ Check \/ Send PROVE phase' = phase
      BY <3>4 DEF Sample, Judge, Look, Frozen, Reread, Check, Send
    <3> QED  BY <1>1, <3>1, <3>2, <3>3, <3>4 DEF StreamerThread
  <2> QED  BY <2>1, <2>2
\* A trip lands frozen, and is not latched by a scan before it is.
<1>2. ASSUME SafeguardThread PROVE FALSE
  <2>0. UNCHANGED loop
    BY <1>2 DEF SafeguardThread
  <2>1. ASSUME ReadLimits PROVE FALSE
    BY <2>1, <2>0 DEF ReadLimits
  <2>2. ASSUME Latch PROVE FALSE
    BY <2>2, <2>0 DEF Latch, TripAll, TripInv, ScanUnlatched
  <2>3. ASSUME TripHolds PROVE FALSE
    BY <2>3, <2>0 DEF TripHolds, Hold
  <2>4. ASSUME TripOpens PROVE FALSE
    BY <2>4, <2>0 DEF TripOpens
  <2> QED  BY <1>2, <2>1, <2>2, <2>3, <2>4 DEF SafeguardThread
<1>3. ASSUME PilotThread PROVE FALSE
  BY <1>3 DEF PilotThread
<1>4. ASSUME LoopThread PROVE Commit \/ Thaw \/ (setup.toggles /\ SwitchedOff)
  <2>1. ASSUME TickStarts \/ TripHandled PROVE FALSE
    BY <2>1 DEF TickStarts, TripHandled, LoopGoto
  <2>2. ASSUME SwitchedOff PROVE setup.toggles
    BY <2>2, <1>0 DEF SwitchedOff, TripAll, TripInv, StaysOn, LoopSeesLatch
  <2>3. ASSUME ResumeButton PROVE FALSE
    BY <2>3 DEF ResumeButton, LoopGoto
  <2>4. ASSUME Rearm \/ Reset PROVE FALSE
    BY <2>4 DEF Rearm, Reset, LoopGoto
  <2>5. ASSUME ArmGuardStep PROVE FALSE
    BY <2>5 DEF ArmGuardStep, Hold, LoopGoto
  <2>6. ASSUME Recovered \/ ReengageButton \/ RebuildScript \/ SeedGlide PROVE FALSE
    BY <2>6 DEF Recovered, ReengageButton, RebuildScript, SeedGlide, LoopGoto
  <2> QED  BY <1>4, <2>1, <2>2, <2>3, <2>4, <2>5, <2>6 DEF LoopThread
<1>5. ASSUME Configure \/ ProtectiveStop \/ ClearStop \/ Jog PROVE FALSE
  BY <1>5, <1>0 DEF Configure, ProtectiveStop, ClearStop, Jog
<1>6. ASSUME UNCHANGED vars PROVE FALSE
  BY <1>6 DEF vars
<1> QED  BY <1>1, <1>2, <1>3, <1>4, <1>5, <1>6 DEF Next

-----------------------------------------------------------------------------
(* The theorems.                                                           *)

LEMMA AllHold == Spec => [](GlideAll /\ TripAll)
<1>1. Init => TypeOK /\ GlideAll /\ TripAll
  BY InitTypes, InitGlide, InitTrip
<1>2. (TypeOK /\ GlideAll /\ TripAll) /\ [Next]_vars => (TypeOK /\ GlideAll /\ TripAll)'
  BY StepTyped, GlideStep, TripStep
<1> QED  BY <1>1, <1>2, PTL DEF Spec

\* The inductive invariant holds in every reachable state.
THEOREM CollectCorrect == Spec => []CollectInv
<1>1. GlideAll /\ TripAll => CollectInv
  BY DEF GlideAll, TripAll, CollectInv
<1> QED  BY <1>1, AllHold, PTL

\* A trip freezes the arm, and a fresh trip in the middle of a Resume sticks.
THEOREM TripFreezes == Spec => []LatchedMeansHeld
<1>1. GlideAll /\ TripAll => LatchedMeansHeld
  BY DEF TripAll
<1> QED  BY <1>1, AllHold, PTL

\* A trip opens the gripper before the pilot looks at the leader again.
THEOREM TripOpensGripper == Spec => []LatchedGripperOpens
<1>1. GlideAll /\ TripAll => LatchedGripperOpens
  BY DEF TripAll
<1> QED  BY <1>1, AllHold, PTL

\* Under a trip the arm starts to move by a commit, the end of an arm hold or an
\* older trip that was switched off.
THEOREM TripMovesBy == Spec => MovesUnderTrip
<1>1. TypeOK /\ GlideAll /\ TripAll /\ [Next]_vars =>
        [TripLanded' /\ Moving' =>
           \/ TripLanded /\ Moving
           \/ Commit \/ Thaw
           \/ setup.toggles /\ SwitchedOff]_vars
  BY StartStep DEF StartsUnderTrip
<1> QED  BY <1>1, AllHold, CollectTypeCorrect, PTL DEF Spec, MovesUnderTrip

\* After a hold one command at most still reaches the arm.
THEOREM HoldLetsOnePass == Spec => []OneLateServo
<1>1. GlideAll /\ TripAll => OneLateServo
  BY DEF GlideAll
<1> QED  BY <1>1, AllHold, PTL

\* No glide starts from a pose of before the arm was moved by hand.
THEOREM GlidesAreFresh == Spec => []GlideIsFresh
<1>1. GlideAll /\ TripAll => GlideIsFresh
  BY DEF GlideAll
<1> QED  BY <1>1, AllHold, PTL
=============================================================================
