------------------------- MODULE ArmControl_proofs -------------------------
(***************************************************************************)
(* Theorems about ArmControl, for every set of arms and processes.         *)
(***************************************************************************)
EXTENDS ArmControl, TLAPS

LEMMA InitCorrect == Init => TypeOK /\ ArmInv
<1> SUFFICES ASSUME Init PROVE TypeOK /\ ArmInv
  OBVIOUS
<1>1. TypeOK
  BY ArmAssumption DEF Init, TypeOK, Stages, Session, Building
<1>2. ArmInv
  BY ArmAssumption DEF Init, ArmInv, LeaseBacks, HolderIsThere, SlotHeld, BuiltUnguarded,
     ScriptBacked, StreamGuarded, NoneLeftBehind, HasInterface, Building, Session
<1> QED BY <1>1, <1>2

-----------------------------------------------------------------------------
(* Types.  A step gives every variable a value of its type.                *)

LEMMA OpenTypes == ASSUME TypeOK, NEW a \in Arms, Open(a) PROVE TypeOK'
  BY ArmAssumption DEF TypeOK, Open, Goto, Session, Stages, Building, vars, flags, robot

LEMMA AcquireTypes == ASSUME TypeOK, NEW a \in Arms, Acquire(a) PROVE TypeOK'
  BY ArmAssumption DEF TypeOK, Acquire, Goto, Session, Stages, Building, vars, flags, robot

LEMMA RigBusyTypes == ASSUME TypeOK, NEW a \in Arms, RigBusy(a) PROVE TypeOK'
  BY ArmAssumption DEF TypeOK, RigBusy, Goto, Session, Stages, Building, vars, flags, robot

LEMMA ReserveTypes == ASSUME TypeOK, NEW a \in Arms, Reserve(a) PROVE TypeOK'
  BY ArmAssumption DEF TypeOK, Reserve, Goto, Session, Stages, Building, vars, flags, robot

LEMMA SlotTakenTypes == ASSUME TypeOK, NEW a \in Arms, SlotTaken(a) PROVE TypeOK'
  BY ArmAssumption DEF TypeOK, SlotTaken, Goto, Raises, Session, Stages, Building, vars, flags, robot

LEMMA StopOldScriptTypes == ASSUME TypeOK, NEW a \in Arms, StopOldScript(a) PROVE TypeOK'
  BY ArmAssumption DEF TypeOK, StopOldScript, Goto, Session, Stages, Building, vars, flags, robot

LEMMA StartScriptTypes == ASSUME TypeOK, NEW a \in Arms, StartScript(a) PROVE TypeOK'
  BY ArmAssumption DEF TypeOK, StartScript, Goto, Session, Stages, Building, vars, flags, robot

LEMMA StartFailsTypes == ASSUME TypeOK, NEW a \in Arms, StartFails(a) PROVE TypeOK'
  BY ArmAssumption DEF TypeOK, StartFails, Goto, Raises, Session, Stages, Building, vars, flags, robot

LEMMA ConfigureTypes == ASSUME TypeOK, NEW a \in Arms, Configure(a) PROVE TypeOK'
  BY ArmAssumption DEF TypeOK, Configure, Goto, Session, Stages, Building, vars, flags, robot

LEMMA ConfigureFailsTypes == ASSUME TypeOK, NEW a \in Arms, ConfigureFails(a) PROVE TypeOK'
  BY ArmAssumption DEF TypeOK, ConfigureFails, Goto, Raises, Abandon, Session, Stages, Building, vars, flags, robot

LEMMA StartServoTypes == ASSUME TypeOK, NEW a \in Arms, StartServo(a) PROVE TypeOK'
  BY ArmAssumption DEF TypeOK, StartServo, Goto, Session, Stages, Building, vars, flags, robot

LEMMA ServoEndsTypes == ASSUME TypeOK, NEW a \in Arms, ServoEnds(a) PROVE TypeOK'
  BY ArmAssumption DEF TypeOK, ServoEnds, Goto, Session, Stages, Building, vars, flags, robot

LEMMA ServoTickTypes == ASSUME TypeOK, NEW a \in Arms, ServoTick(a) PROVE TypeOK'
  BY ArmAssumption DEF TypeOK, ServoTick, Goto, Session, Stages, Building, vars, flags, robot

LEMMA ServoStopTypes == ASSUME TypeOK, NEW a \in Arms, ServoStop(a) PROVE TypeOK'
  BY ArmAssumption DEF TypeOK, ServoStop, IsOver, Goto, ProgramRunning, Session, Stages, Building, vars, flags, robot

LEMMA ServoStopRaisesTypes == ASSUME TypeOK, NEW a \in Arms, ServoStopRaises(a) PROVE TypeOK'
  BY ArmAssumption DEF TypeOK, ServoStopRaises, IsOver, Goto, ProgramRunning, Session, Stages, Building, vars, flags, robot

LEMMA ReconnectTypes == ASSUME TypeOK, NEW a \in Arms, Reconnect(a) PROVE TypeOK'
  BY ArmAssumption DEF TypeOK, Reconnect, Goto, TeardownCtrl, Abandon, Session, Stages, Building, vars, flags, robot

LEMMA DisconnectTypes == ASSUME TypeOK, NEW a \in Arms, Disconnect(a) PROVE TypeOK'
  BY ArmAssumption DEF TypeOK, Disconnect, Goto, TeardownCtrl, Abandon, Session, Stages, Building, vars, flags, robot

LEMMA CloseLeaseTypes == ASSUME TypeOK, NEW a \in Arms, CloseLease(a) PROVE TypeOK'
  BY ArmAssumption DEF TypeOK, CloseLease, Goto, Session, Stages, Building, vars, flags, robot

LEMMA DropTypes == ASSUME TypeOK, NEW a \in Arms, Drop(a) PROVE TypeOK'
  BY ArmAssumption DEF TypeOK, Drop, Goto, Session, Stages, Building, vars, flags, robot

LEMMA CollectedTypes == ASSUME TypeOK, NEW a \in Arms, Collected(a) PROVE TypeOK'
  BY ArmAssumption DEF TypeOK, Collected, Goto, Abandon, Session, Stages, Building, vars, flags, robot

LEMMA KilledTypes == ASSUME TypeOK, NEW p \in Processes, Killed(p) PROVE TypeOK'
<1>1. at' \in [Arms -> Stages] /\ lease' \in Arms \cup {NoArm} /\ slot' \in [Processes -> {0, 1}]
  BY DEF TypeOK, Killed, Abandon, Stages
<1>2. script' \in Arms \cup {NoArm, Stray} /\ streaming' \in BOOLEAN /\ readable' \in BOOLEAN
  BY DEF TypeOK, Killed, Abandon, robot
<1>3. /\ rebuilding' \in [Arms -> BOOLEAN]
      /\ ctrl' \in [Arms -> BOOLEAN]
      /\ active' \in [Arms -> BOOLEAN]
  BY DEF TypeOK, Killed
<1>4. thread' \in [Arms -> {"off", "runs", "ended"}]
  BY DEF TypeOK, Killed
<1> QED BY <1>1, <1>2, <1>3, <1>4 DEF TypeOK

LEMMA RobotTypes == ASSUME TypeOK, RobotStops PROVE TypeOK'
  BY DEF TypeOK, RobotStops, flags

-----------------------------------------------------------------------------
(* The invariant.                                                          *)

LEMMA OpenKeeps == ASSUME TypeOK, ArmInv, NEW a \in Arms, Open(a) PROVE ArmInv'
<1>1. LeaseBacks'
  BY ArmAssumption DEF TypeOK, ArmInv, LeaseBacks, HolderIsThere, HasInterface, Building, Open, Goto, Session, flags, robot
<1>2. HolderIsThere'
  BY ArmAssumption DEF TypeOK, ArmInv, LeaseBacks, HolderIsThere, HasInterface, Building, Open, Goto, Session, flags, robot
<1>3. SlotHeld'
  BY ArmAssumption DEF TypeOK, ArmInv, SlotHeld, LeaseBacks, HolderIsThere, HasInterface, Building, Open, Goto, Session, flags, robot
<1>4. BuiltUnguarded'
  BY ArmAssumption DEF TypeOK, ArmInv, BuiltUnguarded, HolderIsThere, NoneLeftBehind, HasInterface, Building, Open, Goto, Session, flags, robot
<1>5. ScriptBacked'
  BY ArmAssumption DEF TypeOK, ArmInv, ScriptBacked, LeaseBacks, HolderIsThere, HasInterface, Building, Open, Goto, Session, flags, robot
<1>6. StreamGuarded'
  BY ArmAssumption DEF TypeOK, ArmInv, StreamGuarded, ScriptBacked, LeaseBacks, HolderIsThere, BuiltUnguarded, HasInterface, Building, Open, Goto, Session, flags, robot
<1>7. NoneLeftBehind'
  BY ArmAssumption DEF TypeOK, ArmInv, NoneLeftBehind, HasInterface, Building, Open, Goto, Session, flags, robot
<1> QED BY <1>1, <1>2, <1>3, <1>4, <1>5, <1>6, <1>7 DEF ArmInv

LEMMA AcquireKeeps == ASSUME TypeOK, ArmInv, NEW a \in Arms, Acquire(a) PROVE ArmInv'
<1>1. LeaseBacks'
  BY ArmAssumption DEF TypeOK, ArmInv, LeaseBacks, HolderIsThere, HasInterface, Building, Acquire, Goto, flags, robot
<1>2. HolderIsThere'
  BY ArmAssumption DEF TypeOK, ArmInv, LeaseBacks, HolderIsThere, HasInterface, Building, Acquire, Goto, flags, robot
<1>3. SlotHeld'
  BY ArmAssumption DEF TypeOK, ArmInv, SlotHeld, LeaseBacks, HolderIsThere, HasInterface, Building, Acquire, Goto, flags, robot
<1>4. BuiltUnguarded'
  BY ArmAssumption DEF TypeOK, ArmInv, BuiltUnguarded, HolderIsThere, NoneLeftBehind, HasInterface, Building, Acquire, Goto, flags, robot
<1>5. ScriptBacked'
  BY ArmAssumption DEF TypeOK, ArmInv, ScriptBacked, LeaseBacks, HolderIsThere, HasInterface, Building, Acquire, Goto, flags, robot
<1>6. StreamGuarded'
  BY ArmAssumption DEF TypeOK, ArmInv, StreamGuarded, ScriptBacked, LeaseBacks, HolderIsThere, BuiltUnguarded, HasInterface, Building, Acquire, Goto, flags, robot
<1>7. NoneLeftBehind'
  BY ArmAssumption DEF TypeOK, ArmInv, NoneLeftBehind, HasInterface, Building, Acquire, Goto, flags, robot
<1> QED BY <1>1, <1>2, <1>3, <1>4, <1>5, <1>6, <1>7 DEF ArmInv

LEMMA RigBusyKeeps == ASSUME TypeOK, ArmInv, NEW a \in Arms, RigBusy(a) PROVE ArmInv'
<1>1. LeaseBacks'
  BY ArmAssumption DEF TypeOK, ArmInv, LeaseBacks, HolderIsThere, HasInterface, Building, RigBusy, Goto, flags, robot
<1>2. HolderIsThere'
  BY ArmAssumption DEF TypeOK, ArmInv, LeaseBacks, HolderIsThere, HasInterface, Building, RigBusy, Goto, flags, robot
<1>3. SlotHeld'
  BY ArmAssumption DEF TypeOK, ArmInv, SlotHeld, LeaseBacks, HolderIsThere, HasInterface, Building, RigBusy, Goto, flags, robot
<1>4. BuiltUnguarded'
  BY ArmAssumption DEF TypeOK, ArmInv, BuiltUnguarded, HolderIsThere, NoneLeftBehind, HasInterface, Building, RigBusy, Goto, flags, robot
<1>5. ScriptBacked'
  BY ArmAssumption DEF TypeOK, ArmInv, ScriptBacked, LeaseBacks, HolderIsThere, HasInterface, Building, RigBusy, Goto, flags, robot
<1>6. StreamGuarded'
  BY ArmAssumption DEF TypeOK, ArmInv, StreamGuarded, ScriptBacked, LeaseBacks, HolderIsThere, BuiltUnguarded, HasInterface, Building, RigBusy, Goto, flags, robot
<1>7. NoneLeftBehind'
  BY ArmAssumption DEF TypeOK, ArmInv, NoneLeftBehind, HasInterface, Building, RigBusy, Goto, flags, robot
<1> QED BY <1>1, <1>2, <1>3, <1>4, <1>5, <1>6, <1>7 DEF ArmInv

LEMMA ReserveKeeps == ASSUME TypeOK, ArmInv, NEW a \in Arms, Reserve(a) PROVE ArmInv'
<1>1. LeaseBacks'
  BY ArmAssumption DEF TypeOK, ArmInv, LeaseBacks, HolderIsThere, HasInterface, Building, Reserve, Goto, flags, robot
<1>2. HolderIsThere'
  BY ArmAssumption DEF TypeOK, ArmInv, LeaseBacks, HolderIsThere, HasInterface, Building, Reserve, Goto, flags, robot
<1>3. SlotHeld'
  BY ArmAssumption DEF TypeOK, ArmInv, SlotHeld, LeaseBacks, HolderIsThere, HasInterface, Building, Reserve, Goto, flags, robot
<1>4. BuiltUnguarded'
  BY ArmAssumption DEF TypeOK, ArmInv, BuiltUnguarded, HolderIsThere, NoneLeftBehind, HasInterface, Building, Reserve, Goto, flags, robot
<1>5. ScriptBacked'
  BY ArmAssumption DEF TypeOK, ArmInv, ScriptBacked, LeaseBacks, HolderIsThere, HasInterface, Building, Reserve, Goto, flags, robot
<1>6. StreamGuarded'
  BY ArmAssumption DEF TypeOK, ArmInv, StreamGuarded, ScriptBacked, LeaseBacks, HolderIsThere, BuiltUnguarded, HasInterface, Building, Reserve, Goto, flags, robot
<1>7. NoneLeftBehind'
  BY ArmAssumption DEF TypeOK, ArmInv, NoneLeftBehind, HasInterface, Building, Reserve, Goto, flags, robot
<1> QED BY <1>1, <1>2, <1>3, <1>4, <1>5, <1>6, <1>7 DEF ArmInv

LEMMA SlotTakenKeeps == ASSUME TypeOK, ArmInv, NEW a \in Arms, SlotTaken(a) PROVE ArmInv'
<1>1. LeaseBacks'
  BY ArmAssumption DEF TypeOK, ArmInv, LeaseBacks, HolderIsThere, HasInterface, Building, SlotTaken, Goto, Raises, flags, robot
<1>2. HolderIsThere'
  BY ArmAssumption DEF TypeOK, ArmInv, LeaseBacks, HolderIsThere, HasInterface, Building, SlotTaken, Goto, Raises, flags, robot
<1>3. SlotHeld'
  BY ArmAssumption DEF TypeOK, ArmInv, SlotHeld, LeaseBacks, HolderIsThere, HasInterface, Building, SlotTaken, Goto, Raises, flags, robot
<1>4. BuiltUnguarded'
  BY ArmAssumption DEF TypeOK, ArmInv, BuiltUnguarded, HolderIsThere, NoneLeftBehind, HasInterface, Building, SlotTaken, Goto, Raises, flags, robot
<1>5. ScriptBacked'
  BY ArmAssumption DEF TypeOK, ArmInv, ScriptBacked, LeaseBacks, HolderIsThere, HasInterface, Building, SlotTaken, Goto, Raises, flags, robot
<1>6. StreamGuarded'
  BY ArmAssumption DEF TypeOK, ArmInv, StreamGuarded, ScriptBacked, LeaseBacks, HolderIsThere, BuiltUnguarded, HasInterface, Building, SlotTaken, Goto, Raises, flags, robot
<1>7. NoneLeftBehind'
  BY ArmAssumption DEF TypeOK, ArmInv, NoneLeftBehind, HasInterface, Building, SlotTaken, Goto, Raises, flags, robot
<1> QED BY <1>1, <1>2, <1>3, <1>4, <1>5, <1>6, <1>7 DEF ArmInv

LEMMA StopOldScriptKeeps == ASSUME TypeOK, ArmInv, NEW a \in Arms, StopOldScript(a) PROVE ArmInv'
<1>1. LeaseBacks'
  BY ArmAssumption DEF TypeOK, ArmInv, LeaseBacks, HolderIsThere, HasInterface, Building, StopOldScript, Goto, flags, robot
<1>2. HolderIsThere'
  BY ArmAssumption DEF TypeOK, ArmInv, LeaseBacks, HolderIsThere, HasInterface, Building, StopOldScript, Goto, flags, robot
<1>3. SlotHeld'
  BY ArmAssumption DEF TypeOK, ArmInv, SlotHeld, LeaseBacks, HolderIsThere, HasInterface, Building, StopOldScript, Goto, flags, robot
<1>4. BuiltUnguarded'
  BY ArmAssumption DEF TypeOK, ArmInv, BuiltUnguarded, HolderIsThere, NoneLeftBehind, HasInterface, Building, StopOldScript, Goto, flags, robot
<1>5. ScriptBacked'
  BY ArmAssumption DEF TypeOK, ArmInv, ScriptBacked, LeaseBacks, HolderIsThere, HasInterface, Building, StopOldScript, Goto, flags, robot
<1>6. StreamGuarded'
  BY ArmAssumption DEF TypeOK, ArmInv, StreamGuarded, ScriptBacked, LeaseBacks, HolderIsThere, BuiltUnguarded, HasInterface, Building, StopOldScript, Goto, flags, robot
<1>7. NoneLeftBehind'
  BY ArmAssumption DEF TypeOK, ArmInv, NoneLeftBehind, HasInterface, Building, StopOldScript, Goto, flags, robot
<1> QED BY <1>1, <1>2, <1>3, <1>4, <1>5, <1>6, <1>7 DEF ArmInv

LEMMA StartScriptKeeps == ASSUME TypeOK, ArmInv, NEW a \in Arms, StartScript(a) PROVE ArmInv'
<1>1. LeaseBacks'
  BY ArmAssumption DEF TypeOK, ArmInv, LeaseBacks, HolderIsThere, HasInterface, Building, StartScript, Goto, flags, robot
<1>2. HolderIsThere'
  BY ArmAssumption DEF TypeOK, ArmInv, LeaseBacks, HolderIsThere, HasInterface, Building, StartScript, Goto, flags, robot
<1>3. SlotHeld'
  BY ArmAssumption DEF TypeOK, ArmInv, SlotHeld, LeaseBacks, HolderIsThere, HasInterface, Building, StartScript, Goto, flags, robot
<1>4. BuiltUnguarded'
  BY ArmAssumption DEF TypeOK, ArmInv, BuiltUnguarded, HolderIsThere, NoneLeftBehind, HasInterface, Building, StartScript, Goto, flags, robot
<1>5. ScriptBacked'
  BY ArmAssumption DEF TypeOK, ArmInv, ScriptBacked, LeaseBacks, HolderIsThere, HasInterface, Building, StartScript, Goto, flags, robot
<1>6. StreamGuarded'
  BY ArmAssumption DEF TypeOK, ArmInv, StreamGuarded, ScriptBacked, LeaseBacks, HolderIsThere, BuiltUnguarded, HasInterface, Building, StartScript, Goto, flags, robot
<1>7. NoneLeftBehind'
  BY ArmAssumption DEF TypeOK, ArmInv, NoneLeftBehind, HasInterface, Building, StartScript, Goto, flags, robot
<1> QED BY <1>1, <1>2, <1>3, <1>4, <1>5, <1>6, <1>7 DEF ArmInv

LEMMA StartFailsKeeps == ASSUME TypeOK, ArmInv, NEW a \in Arms, StartFails(a) PROVE ArmInv'
<1>1. LeaseBacks'
  BY ArmAssumption DEF TypeOK, ArmInv, LeaseBacks, HolderIsThere, HasInterface, Building, StartFails, Goto, Raises, flags, robot
<1>2. HolderIsThere'
  BY ArmAssumption DEF TypeOK, ArmInv, LeaseBacks, HolderIsThere, HasInterface, Building, StartFails, Goto, Raises, flags, robot
<1>3. SlotHeld'
  BY ArmAssumption DEF TypeOK, ArmInv, SlotHeld, LeaseBacks, HolderIsThere, HasInterface, Building, StartFails, Goto, Raises, flags, robot
<1>4. BuiltUnguarded'
  BY ArmAssumption DEF TypeOK, ArmInv, BuiltUnguarded, HolderIsThere, NoneLeftBehind, HasInterface, Building, StartFails, Goto, Raises, flags, robot
<1>5. ScriptBacked'
  BY ArmAssumption DEF TypeOK, ArmInv, ScriptBacked, LeaseBacks, HolderIsThere, HasInterface, Building, StartFails, Goto, Raises, flags, robot
<1>6. StreamGuarded'
  BY ArmAssumption DEF TypeOK, ArmInv, StreamGuarded, ScriptBacked, LeaseBacks, HolderIsThere, BuiltUnguarded, HasInterface, Building, StartFails, Goto, Raises, flags, robot
<1>7. NoneLeftBehind'
  BY ArmAssumption DEF TypeOK, ArmInv, NoneLeftBehind, HasInterface, Building, StartFails, Goto, Raises, flags, robot
<1> QED BY <1>1, <1>2, <1>3, <1>4, <1>5, <1>6, <1>7 DEF ArmInv

LEMMA ConfigureKeeps == ASSUME TypeOK, ArmInv, NEW a \in Arms, Configure(a) PROVE ArmInv'
<1>1. LeaseBacks'
  BY ArmAssumption DEF TypeOK, ArmInv, LeaseBacks, HolderIsThere, HasInterface, Building, Configure, Goto, flags, robot
<1>2. HolderIsThere'
  BY ArmAssumption DEF TypeOK, ArmInv, LeaseBacks, HolderIsThere, HasInterface, Building, Configure, Goto, flags, robot
<1>3. SlotHeld'
  BY ArmAssumption DEF TypeOK, ArmInv, SlotHeld, LeaseBacks, HolderIsThere, HasInterface, Building, Configure, Goto, flags, robot
<1>4. BuiltUnguarded'
  BY ArmAssumption DEF TypeOK, ArmInv, BuiltUnguarded, HolderIsThere, NoneLeftBehind, HasInterface, Building, Configure, Goto, flags, robot
<1>5. ScriptBacked'
  BY ArmAssumption DEF TypeOK, ArmInv, ScriptBacked, LeaseBacks, HolderIsThere, HasInterface, Building, Configure, Goto, flags, robot
<1>6. StreamGuarded'
  BY ArmAssumption DEF TypeOK, ArmInv, StreamGuarded, ScriptBacked, LeaseBacks, HolderIsThere, BuiltUnguarded, HasInterface, Building, Configure, Goto, flags, robot
<1>7. NoneLeftBehind'
  BY ArmAssumption DEF TypeOK, ArmInv, NoneLeftBehind, HasInterface, Building, Configure, Goto, flags, robot
<1> QED BY <1>1, <1>2, <1>3, <1>4, <1>5, <1>6, <1>7 DEF ArmInv

LEMMA ConfigureFailsKeeps == ASSUME TypeOK, ArmInv, NEW a \in Arms, ConfigureFails(a) PROVE ArmInv'
<1>1. LeaseBacks'
  BY ArmAssumption DEF TypeOK, ArmInv, LeaseBacks, HolderIsThere, HasInterface, Building, ConfigureFails, Goto, Raises, Abandon, flags, robot
<1>2. HolderIsThere'
  BY ArmAssumption DEF TypeOK, ArmInv, LeaseBacks, HolderIsThere, HasInterface, Building, ConfigureFails, Goto, Raises, Abandon, flags, robot
<1>3. SlotHeld'
  BY ArmAssumption DEF TypeOK, ArmInv, SlotHeld, LeaseBacks, HolderIsThere, HasInterface, Building, ConfigureFails, Goto, Raises, Abandon, flags, robot
<1>4. BuiltUnguarded'
  BY ArmAssumption DEF TypeOK, ArmInv, BuiltUnguarded, HolderIsThere, NoneLeftBehind, HasInterface, Building, ConfigureFails, Goto, Raises, Abandon, flags, robot
<1>5. ScriptBacked'
  BY ArmAssumption DEF TypeOK, ArmInv, ScriptBacked, LeaseBacks, HolderIsThere, HasInterface, Building, ConfigureFails, Goto, Raises, Abandon, flags, robot
<1>6. StreamGuarded'
  BY ArmAssumption DEF TypeOK, ArmInv, StreamGuarded, ScriptBacked, LeaseBacks, HolderIsThere, BuiltUnguarded, HasInterface, Building, ConfigureFails, Goto, Raises, Abandon, flags, robot
<1>7. NoneLeftBehind'
  BY ArmAssumption DEF TypeOK, ArmInv, NoneLeftBehind, HasInterface, Building, ConfigureFails, Goto, Raises, Abandon, flags, robot
<1> QED BY <1>1, <1>2, <1>3, <1>4, <1>5, <1>6, <1>7 DEF ArmInv

LEMMA StartServoKeeps == ASSUME TypeOK, ArmInv, NEW a \in Arms, StartServo(a) PROVE ArmInv'
<1>1. LeaseBacks'
  BY ArmAssumption DEF TypeOK, ArmInv, LeaseBacks, HolderIsThere, HasInterface, Building, StartServo, Goto, flags, robot
<1>2. HolderIsThere'
  BY ArmAssumption DEF TypeOK, ArmInv, LeaseBacks, HolderIsThere, HasInterface, Building, StartServo, Goto, flags, robot
<1>3. SlotHeld'
  BY ArmAssumption DEF TypeOK, ArmInv, SlotHeld, LeaseBacks, HolderIsThere, HasInterface, Building, StartServo, Goto, flags, robot
<1>4. BuiltUnguarded'
  BY ArmAssumption DEF TypeOK, ArmInv, BuiltUnguarded, HolderIsThere, NoneLeftBehind, HasInterface, Building, StartServo, Goto, flags, robot
<1>5. ScriptBacked'
  BY ArmAssumption DEF TypeOK, ArmInv, ScriptBacked, LeaseBacks, HolderIsThere, HasInterface, Building, StartServo, Goto, flags, robot
<1>6. StreamGuarded'
  BY ArmAssumption DEF TypeOK, ArmInv, StreamGuarded, ScriptBacked, LeaseBacks, HolderIsThere, BuiltUnguarded, HasInterface, Building, StartServo, Goto, flags, robot
<1>7. NoneLeftBehind'
  BY ArmAssumption DEF TypeOK, ArmInv, NoneLeftBehind, HasInterface, Building, StartServo, Goto, flags, robot
<1> QED BY <1>1, <1>2, <1>3, <1>4, <1>5, <1>6, <1>7 DEF ArmInv

LEMMA ServoEndsKeeps == ASSUME TypeOK, ArmInv, NEW a \in Arms, ServoEnds(a) PROVE ArmInv'
<1>1. LeaseBacks'
  BY ArmAssumption DEF TypeOK, ArmInv, LeaseBacks, HolderIsThere, HasInterface, Building, ServoEnds, Goto, flags, robot
<1>2. HolderIsThere'
  BY ArmAssumption DEF TypeOK, ArmInv, LeaseBacks, HolderIsThere, HasInterface, Building, ServoEnds, Goto, flags, robot
<1>3. SlotHeld'
  BY ArmAssumption DEF TypeOK, ArmInv, SlotHeld, LeaseBacks, HolderIsThere, HasInterface, Building, ServoEnds, Goto, flags, robot
<1>4. BuiltUnguarded'
  BY ArmAssumption DEF TypeOK, ArmInv, BuiltUnguarded, HolderIsThere, NoneLeftBehind, HasInterface, Building, ServoEnds, Goto, flags, robot
<1>5. ScriptBacked'
  BY ArmAssumption DEF TypeOK, ArmInv, ScriptBacked, LeaseBacks, HolderIsThere, HasInterface, Building, ServoEnds, Goto, flags, robot
<1>6. StreamGuarded'
  BY ArmAssumption DEF TypeOK, ArmInv, StreamGuarded, ScriptBacked, LeaseBacks, HolderIsThere, BuiltUnguarded, HasInterface, Building, ServoEnds, Goto, flags, robot
<1>7. NoneLeftBehind'
  BY ArmAssumption DEF TypeOK, ArmInv, NoneLeftBehind, HasInterface, Building, ServoEnds, Goto, flags, robot
<1> QED BY <1>1, <1>2, <1>3, <1>4, <1>5, <1>6, <1>7 DEF ArmInv

LEMMA ServoTickKeeps == ASSUME TypeOK, ArmInv, NEW a \in Arms, ServoTick(a) PROVE ArmInv'
<1>1. LeaseBacks'
  BY ArmAssumption DEF TypeOK, ArmInv, LeaseBacks, HolderIsThere, HasInterface, Building, ServoTick, Goto, flags, robot
<1>2. HolderIsThere'
  BY ArmAssumption DEF TypeOK, ArmInv, LeaseBacks, HolderIsThere, HasInterface, Building, ServoTick, Goto, flags, robot
<1>3. SlotHeld'
  BY ArmAssumption DEF TypeOK, ArmInv, SlotHeld, LeaseBacks, HolderIsThere, HasInterface, Building, ServoTick, Goto, flags, robot
<1>4. BuiltUnguarded'
  BY ArmAssumption DEF TypeOK, ArmInv, BuiltUnguarded, HolderIsThere, NoneLeftBehind, HasInterface, Building, ServoTick, Goto, flags, robot
<1>5. ScriptBacked'
  BY ArmAssumption DEF TypeOK, ArmInv, ScriptBacked, LeaseBacks, HolderIsThere, HasInterface, Building, ServoTick, Goto, flags, robot
<1>6. StreamGuarded'
  BY ArmAssumption DEF TypeOK, ArmInv, StreamGuarded, ScriptBacked, LeaseBacks, HolderIsThere, BuiltUnguarded, HasInterface, Building, ServoTick, Goto, flags, robot
<1>7. NoneLeftBehind'
  BY ArmAssumption DEF TypeOK, ArmInv, NoneLeftBehind, HasInterface, Building, ServoTick, Goto, flags, robot
<1> QED BY <1>1, <1>2, <1>3, <1>4, <1>5, <1>6, <1>7 DEF ArmInv

LEMMA ServoStopKeeps == ASSUME TypeOK, ArmInv, NEW a \in Arms, ServoStop(a) PROVE ArmInv'
<1>1. LeaseBacks'
  BY ArmAssumption DEF TypeOK, ArmInv, LeaseBacks, HolderIsThere, HasInterface, Building, ServoStop, IsOver, Goto, ProgramRunning, flags, robot
<1>2. HolderIsThere'
  BY ArmAssumption DEF TypeOK, ArmInv, LeaseBacks, HolderIsThere, HasInterface, Building, ServoStop, IsOver, Goto, ProgramRunning, flags, robot
<1>3. SlotHeld'
  BY ArmAssumption DEF TypeOK, ArmInv, SlotHeld, LeaseBacks, HolderIsThere, HasInterface, Building, ServoStop, IsOver, Goto, ProgramRunning, flags, robot
<1>4. BuiltUnguarded'
  BY ArmAssumption DEF TypeOK, ArmInv, BuiltUnguarded, HolderIsThere, NoneLeftBehind, HasInterface, Building, ServoStop, IsOver, Goto, ProgramRunning, flags, robot
<1>5. ScriptBacked'
  BY ArmAssumption DEF TypeOK, ArmInv, ScriptBacked, LeaseBacks, HolderIsThere, HasInterface, Building, ServoStop, IsOver, Goto, ProgramRunning, flags, robot
<1>6. StreamGuarded'
  BY ArmAssumption DEF TypeOK, ArmInv, StreamGuarded, ScriptBacked, LeaseBacks, HolderIsThere, BuiltUnguarded, HasInterface, Building, ServoStop, IsOver, Goto, ProgramRunning, flags, robot
<1>7. NoneLeftBehind'
  BY ArmAssumption DEF TypeOK, ArmInv, NoneLeftBehind, HasInterface, Building, ServoStop, IsOver, Goto, ProgramRunning, flags, robot
<1> QED BY <1>1, <1>2, <1>3, <1>4, <1>5, <1>6, <1>7 DEF ArmInv

LEMMA ServoStopRaisesKeeps == ASSUME TypeOK, ArmInv, NEW a \in Arms, ServoStopRaises(a) PROVE ArmInv'
<1>1. LeaseBacks'
  BY ArmAssumption DEF TypeOK, ArmInv, LeaseBacks, HolderIsThere, HasInterface, Building, ServoStopRaises, IsOver, Goto, ProgramRunning, flags, robot
<1>2. HolderIsThere'
  BY ArmAssumption DEF TypeOK, ArmInv, LeaseBacks, HolderIsThere, HasInterface, Building, ServoStopRaises, IsOver, Goto, ProgramRunning, flags, robot
<1>3. SlotHeld'
  BY ArmAssumption DEF TypeOK, ArmInv, SlotHeld, LeaseBacks, HolderIsThere, HasInterface, Building, ServoStopRaises, IsOver, Goto, ProgramRunning, flags, robot
<1>4. BuiltUnguarded'
  BY ArmAssumption DEF TypeOK, ArmInv, BuiltUnguarded, HolderIsThere, NoneLeftBehind, HasInterface, Building, ServoStopRaises, IsOver, Goto, ProgramRunning, flags, robot
<1>5. ScriptBacked'
  BY ArmAssumption DEF TypeOK, ArmInv, ScriptBacked, LeaseBacks, HolderIsThere, HasInterface, Building, ServoStopRaises, IsOver, Goto, ProgramRunning, flags, robot
<1>6. StreamGuarded'
  BY ArmAssumption DEF TypeOK, ArmInv, StreamGuarded, ScriptBacked, LeaseBacks, HolderIsThere, BuiltUnguarded, HasInterface, Building, ServoStopRaises, IsOver, Goto, ProgramRunning, flags, robot
<1>7. NoneLeftBehind'
  BY ArmAssumption DEF TypeOK, ArmInv, NoneLeftBehind, HasInterface, Building, ServoStopRaises, IsOver, Goto, ProgramRunning, flags, robot
<1> QED BY <1>1, <1>2, <1>3, <1>4, <1>5, <1>6, <1>7 DEF ArmInv

LEMMA ReconnectKeeps == ASSUME TypeOK, ArmInv, NEW a \in Arms, Reconnect(a) PROVE ArmInv'
<1>1. LeaseBacks'
  BY ArmAssumption DEF TypeOK, ArmInv, LeaseBacks, HolderIsThere, HasInterface, Building, Reconnect, Goto, TeardownCtrl, Abandon, flags, robot
<1>2. HolderIsThere'
  BY ArmAssumption DEF TypeOK, ArmInv, LeaseBacks, HolderIsThere, HasInterface, Building, Reconnect, Goto, TeardownCtrl, Abandon, flags, robot
<1>3. SlotHeld'
  BY ArmAssumption DEF TypeOK, ArmInv, SlotHeld, LeaseBacks, HolderIsThere, HasInterface, Building, Reconnect, Goto, TeardownCtrl, Abandon, flags, robot
<1>4. BuiltUnguarded'
  BY ArmAssumption DEF TypeOK, ArmInv, BuiltUnguarded, HolderIsThere, NoneLeftBehind, HasInterface, Building, Reconnect, Goto, TeardownCtrl, Abandon, flags, robot
<1>5. ScriptBacked'
  BY ArmAssumption DEF TypeOK, ArmInv, ScriptBacked, LeaseBacks, HolderIsThere, HasInterface, Building, Reconnect, Goto, TeardownCtrl, Abandon, flags, robot
<1>6. StreamGuarded'
  BY ArmAssumption DEF TypeOK, ArmInv, StreamGuarded, ScriptBacked, LeaseBacks, HolderIsThere, BuiltUnguarded, HasInterface, Building, Reconnect, Goto, TeardownCtrl, Abandon, flags, robot
<1>7. NoneLeftBehind'
  BY ArmAssumption DEF TypeOK, ArmInv, NoneLeftBehind, HasInterface, Building, Reconnect, Goto, TeardownCtrl, Abandon, flags, robot
<1> QED BY <1>1, <1>2, <1>3, <1>4, <1>5, <1>6, <1>7 DEF ArmInv

LEMMA DisconnectKeeps == ASSUME TypeOK, ArmInv, NEW a \in Arms, Disconnect(a) PROVE ArmInv'
<1>1. LeaseBacks'
  BY ArmAssumption DEF TypeOK, ArmInv, LeaseBacks, HolderIsThere, HasInterface, Building, Disconnect, Goto, TeardownCtrl, Abandon, flags, robot
<1>2. HolderIsThere'
  BY ArmAssumption DEF TypeOK, ArmInv, LeaseBacks, HolderIsThere, HasInterface, Building, Disconnect, Goto, TeardownCtrl, Abandon, flags, robot
<1>3. SlotHeld'
  BY ArmAssumption DEF TypeOK, ArmInv, SlotHeld, LeaseBacks, HolderIsThere, HasInterface, Building, Disconnect, Goto, TeardownCtrl, Abandon, flags, robot
<1>4. BuiltUnguarded'
  BY ArmAssumption DEF TypeOK, ArmInv, BuiltUnguarded, HolderIsThere, NoneLeftBehind, HasInterface, Building, Disconnect, Goto, TeardownCtrl, Abandon, flags, robot
<1>5. ScriptBacked'
  BY ArmAssumption DEF TypeOK, ArmInv, ScriptBacked, LeaseBacks, HolderIsThere, HasInterface, Building, Disconnect, Goto, TeardownCtrl, Abandon, flags, robot
<1>6. StreamGuarded'
  BY ArmAssumption DEF TypeOK, ArmInv, StreamGuarded, ScriptBacked, LeaseBacks, HolderIsThere, BuiltUnguarded, HasInterface, Building, Disconnect, Goto, TeardownCtrl, Abandon, flags, robot
<1>7. NoneLeftBehind'
  BY ArmAssumption DEF TypeOK, ArmInv, NoneLeftBehind, HasInterface, Building, Disconnect, Goto, TeardownCtrl, Abandon, flags, robot
<1> QED BY <1>1, <1>2, <1>3, <1>4, <1>5, <1>6, <1>7 DEF ArmInv

LEMMA CloseLeaseKeeps == ASSUME TypeOK, ArmInv, NEW a \in Arms, CloseLease(a) PROVE ArmInv'
<1>1. LeaseBacks'
  BY ArmAssumption DEF TypeOK, ArmInv, LeaseBacks, HolderIsThere, HasInterface, Building, CloseLease, Goto, flags, robot
<1>2. HolderIsThere'
  BY ArmAssumption DEF TypeOK, ArmInv, LeaseBacks, HolderIsThere, HasInterface, Building, CloseLease, Goto, flags, robot
<1>3. SlotHeld'
  BY ArmAssumption DEF TypeOK, ArmInv, SlotHeld, LeaseBacks, HolderIsThere, HasInterface, Building, CloseLease, Goto, flags, robot
<1>4. BuiltUnguarded'
  BY ArmAssumption DEF TypeOK, ArmInv, BuiltUnguarded, HolderIsThere, NoneLeftBehind, HasInterface, Building, CloseLease, Goto, flags, robot
<1>5. ScriptBacked'
  BY ArmAssumption DEF TypeOK, ArmInv, ScriptBacked, LeaseBacks, HolderIsThere, HasInterface, Building, CloseLease, Goto, flags, robot
<1>6. StreamGuarded'
  BY ArmAssumption DEF TypeOK, ArmInv, StreamGuarded, ScriptBacked, LeaseBacks, HolderIsThere, BuiltUnguarded, HasInterface, Building, CloseLease, Goto, flags, robot
<1>7. NoneLeftBehind'
  BY ArmAssumption DEF TypeOK, ArmInv, NoneLeftBehind, HasInterface, Building, CloseLease, Goto, flags, robot
<1> QED BY <1>1, <1>2, <1>3, <1>4, <1>5, <1>6, <1>7 DEF ArmInv

LEMMA DropKeeps == ASSUME TypeOK, ArmInv, NEW a \in Arms, Drop(a) PROVE ArmInv'
<1>1. LeaseBacks'
  BY ArmAssumption DEF TypeOK, ArmInv, LeaseBacks, HolderIsThere, HasInterface, Building, Drop, Goto, flags, robot
<1>2. HolderIsThere'
  BY ArmAssumption DEF TypeOK, ArmInv, LeaseBacks, HolderIsThere, HasInterface, Building, Drop, Goto, flags, robot
<1>3. SlotHeld'
  BY ArmAssumption DEF TypeOK, ArmInv, SlotHeld, LeaseBacks, HolderIsThere, HasInterface, Building, Drop, Goto, flags, robot
<1>4. BuiltUnguarded'
  BY ArmAssumption DEF TypeOK, ArmInv, BuiltUnguarded, HolderIsThere, NoneLeftBehind, HasInterface, Building, Drop, Goto, flags, robot
<1>5. ScriptBacked'
  BY ArmAssumption DEF TypeOK, ArmInv, ScriptBacked, LeaseBacks, HolderIsThere, HasInterface, Building, Drop, Goto, flags, robot
<1>6. StreamGuarded'
  BY ArmAssumption DEF TypeOK, ArmInv, StreamGuarded, ScriptBacked, LeaseBacks, HolderIsThere, BuiltUnguarded, HasInterface, Building, Drop, Goto, flags, robot
<1>7. NoneLeftBehind'
  BY ArmAssumption DEF TypeOK, ArmInv, NoneLeftBehind, HasInterface, Building, Drop, Goto, flags, robot
<1> QED BY <1>1, <1>2, <1>3, <1>4, <1>5, <1>6, <1>7 DEF ArmInv

LEMMA CollectedKeeps == ASSUME TypeOK, ArmInv, NEW a \in Arms, Collected(a) PROVE ArmInv'
<1>1. LeaseBacks'
  BY ArmAssumption DEF TypeOK, ArmInv, LeaseBacks, HolderIsThere, HasInterface, Building, Collected, Goto, Abandon, flags, robot
<1>2. HolderIsThere'
  BY ArmAssumption DEF TypeOK, ArmInv, LeaseBacks, HolderIsThere, HasInterface, Building, Collected, Goto, Abandon, flags, robot
<1>3. SlotHeld'
  BY ArmAssumption DEF TypeOK, ArmInv, SlotHeld, LeaseBacks, HolderIsThere, HasInterface, Building, Collected, Goto, Abandon, flags, robot
<1>4. BuiltUnguarded'
  BY ArmAssumption DEF TypeOK, ArmInv, BuiltUnguarded, HolderIsThere, NoneLeftBehind, HasInterface, Building, Collected, Goto, Abandon, flags, robot
<1>5. ScriptBacked'
  BY ArmAssumption DEF TypeOK, ArmInv, ScriptBacked, LeaseBacks, HolderIsThere, HasInterface, Building, Collected, Goto, Abandon, flags, robot
<1>6. StreamGuarded'
  BY ArmAssumption DEF TypeOK, ArmInv, StreamGuarded, ScriptBacked, LeaseBacks, HolderIsThere, BuiltUnguarded, HasInterface, Building, Collected, Goto, Abandon, flags, robot
<1>7. NoneLeftBehind'
  BY ArmAssumption DEF TypeOK, ArmInv, NoneLeftBehind, HasInterface, Building, Collected, Goto, Abandon, flags, robot
<1> QED BY <1>1, <1>2, <1>3, <1>4, <1>5, <1>6, <1>7 DEF ArmInv

LEMMA KilledKeeps == ASSUME TypeOK, ArmInv, NEW p \in Processes, Killed(p) PROVE ArmInv'
<1>1. LeaseBacks'
  BY ArmAssumption DEF TypeOK, ArmInv, LeaseBacks, HolderIsThere, HasInterface, Building, Killed, Abandon, flags, robot
<1>2. HolderIsThere'
  BY ArmAssumption DEF TypeOK, ArmInv, LeaseBacks, HolderIsThere, HasInterface, Building, Killed, Abandon, flags, robot
<1>3. SlotHeld'
  BY ArmAssumption DEF TypeOK, ArmInv, SlotHeld, LeaseBacks, HolderIsThere, HasInterface, Building, Killed, Abandon, flags, robot
<1>4. BuiltUnguarded'
  BY ArmAssumption DEF TypeOK, ArmInv, BuiltUnguarded, HolderIsThere, NoneLeftBehind, HasInterface, Building, Killed, Abandon, flags, robot
<1>5. ScriptBacked'
  BY ArmAssumption DEF TypeOK, ArmInv, ScriptBacked, LeaseBacks, HolderIsThere, HasInterface, Building, Killed, Abandon, flags, robot
<1>6. StreamGuarded'
  BY ArmAssumption DEF TypeOK, ArmInv, StreamGuarded, ScriptBacked, LeaseBacks, HolderIsThere, BuiltUnguarded, HasInterface, Building, Killed, Abandon, flags, robot
<1>7. NoneLeftBehind'
  BY ArmAssumption DEF TypeOK, ArmInv, NoneLeftBehind, HasInterface, Building, Killed, Abandon, flags, robot
<1> QED BY <1>1, <1>2, <1>3, <1>4, <1>5, <1>6, <1>7 DEF ArmInv

LEMMA RobotKeeps == ASSUME TypeOK, ArmInv, RobotStops PROVE ArmInv'
<1>1. LeaseBacks'
  BY ArmAssumption DEF TypeOK, ArmInv, LeaseBacks, HolderIsThere, HasInterface, Building, RobotStops, flags, robot
<1>2. HolderIsThere'
  BY ArmAssumption DEF TypeOK, ArmInv, LeaseBacks, HolderIsThere, HasInterface, Building, RobotStops, flags, robot
<1>3. SlotHeld'
  BY ArmAssumption DEF TypeOK, ArmInv, SlotHeld, LeaseBacks, HolderIsThere, HasInterface, Building, RobotStops, flags, robot
<1>4. BuiltUnguarded'
  BY ArmAssumption DEF TypeOK, ArmInv, BuiltUnguarded, HolderIsThere, NoneLeftBehind, HasInterface, Building, RobotStops, flags, robot
<1>5. ScriptBacked'
  BY ArmAssumption DEF TypeOK, ArmInv, ScriptBacked, LeaseBacks, HolderIsThere, HasInterface, Building, RobotStops, flags, robot
<1>6. StreamGuarded'
  BY ArmAssumption DEF TypeOK, ArmInv, StreamGuarded, ScriptBacked, LeaseBacks, HolderIsThere, BuiltUnguarded, HasInterface, Building, RobotStops, flags, robot
<1>7. NoneLeftBehind'
  BY ArmAssumption DEF TypeOK, ArmInv, NoneLeftBehind, HasInterface, Building, RobotStops, flags, robot
<1> QED BY <1>1, <1>2, <1>3, <1>4, <1>5, <1>6, <1>7 DEF ArmInv

-----------------------------------------------------------------------------
LEMMA StepTypes == TypeOK /\ [Next]_vars => TypeOK'
<1> SUFFICES ASSUME TypeOK, [Next]_vars PROVE TypeOK'
  OBVIOUS
<1>1. ASSUME NEW a \in Arms, Calls(a) PROVE TypeOK'
  <2>1. CASE Open(a)
    BY <2>1, OpenTypes
  <2>2. CASE Acquire(a)
    BY <2>2, AcquireTypes
  <2>3. CASE RigBusy(a)
    BY <2>3, RigBusyTypes
  <2>4. CASE Reserve(a)
    BY <2>4, ReserveTypes
  <2>5. CASE SlotTaken(a)
    BY <2>5, SlotTakenTypes
  <2>6. CASE StopOldScript(a)
    BY <2>6, StopOldScriptTypes
  <2>7. CASE StartScript(a)
    BY <2>7, StartScriptTypes
  <2>8. CASE StartFails(a)
    BY <2>8, StartFailsTypes
  <2>9. CASE Configure(a)
    BY <2>9, ConfigureTypes
  <2>10. CASE ConfigureFails(a)
    BY <2>10, ConfigureFailsTypes
  <2>11. CASE StartServo(a)
    BY <2>11, StartServoTypes
  <2>12. CASE ServoEnds(a)
    BY <2>12, ServoEndsTypes
  <2>13. CASE ServoTick(a)
    BY <2>13, ServoTickTypes
  <2>14. CASE ServoStop(a)
    BY <2>14, ServoStopTypes
  <2>15. CASE Reconnect(a)
    BY <2>15, ReconnectTypes
  <2>16. CASE Disconnect(a)
    BY <2>16, DisconnectTypes
  <2>17. CASE CloseLease(a)
    BY <2>17, CloseLeaseTypes
  <2>18. CASE Drop(a)
    BY <2>18, DropTypes
  <2>19. CASE Collected(a)
    BY <2>19, CollectedTypes
  <2>20. CASE ServoStopRaises(a)
    BY <2>20, ServoStopRaisesTypes
  <2> QED
    BY <1>1, <2>1, <2>2, <2>3, <2>4, <2>5, <2>6, <2>7, <2>8, <2>9, <2>10, <2>11, <2>12, <2>13, <2>14, <2>15, <2>16, <2>17, <2>18, <2>19, <2>20 DEF Calls, Connecting, Commanding, Ending
<1>2. CASE UNCHANGED vars
  BY <1>2 DEF TypeOK, vars, flags, robot
<1> QED
  BY <1>1, <1>2, KilledTypes, RobotTypes DEF Next

LEMMA StepKeeps == TypeOK /\ ArmInv /\ [Next]_vars => ArmInv'
<1> SUFFICES ASSUME TypeOK, ArmInv, [Next]_vars PROVE ArmInv'
  OBVIOUS
<1>1. ASSUME NEW a \in Arms, Calls(a) PROVE ArmInv'
  <2>1. CASE Open(a)
    BY <2>1, OpenKeeps
  <2>2. CASE Acquire(a)
    BY <2>2, AcquireKeeps
  <2>3. CASE RigBusy(a)
    BY <2>3, RigBusyKeeps
  <2>4. CASE Reserve(a)
    BY <2>4, ReserveKeeps
  <2>5. CASE SlotTaken(a)
    BY <2>5, SlotTakenKeeps
  <2>6. CASE StopOldScript(a)
    BY <2>6, StopOldScriptKeeps
  <2>7. CASE StartScript(a)
    BY <2>7, StartScriptKeeps
  <2>8. CASE StartFails(a)
    BY <2>8, StartFailsKeeps
  <2>9. CASE Configure(a)
    BY <2>9, ConfigureKeeps
  <2>10. CASE ConfigureFails(a)
    BY <2>10, ConfigureFailsKeeps
  <2>11. CASE StartServo(a)
    BY <2>11, StartServoKeeps
  <2>12. CASE ServoEnds(a)
    BY <2>12, ServoEndsKeeps
  <2>13. CASE ServoTick(a)
    BY <2>13, ServoTickKeeps
  <2>14. CASE ServoStop(a)
    BY <2>14, ServoStopKeeps
  <2>15. CASE Reconnect(a)
    BY <2>15, ReconnectKeeps
  <2>16. CASE Disconnect(a)
    BY <2>16, DisconnectKeeps
  <2>17. CASE CloseLease(a)
    BY <2>17, CloseLeaseKeeps
  <2>18. CASE Drop(a)
    BY <2>18, DropKeeps
  <2>19. CASE Collected(a)
    BY <2>19, CollectedKeeps
  <2>20. CASE ServoStopRaises(a)
    BY <2>20, ServoStopRaisesKeeps
  <2> QED
    BY <1>1, <2>1, <2>2, <2>3, <2>4, <2>5, <2>6, <2>7, <2>8, <2>9, <2>10, <2>11, <2>12, <2>13, <2>14, <2>15, <2>16, <2>17, <2>18, <2>19, <2>20 DEF Calls, Connecting, Commanding, Ending
<1>2. CASE UNCHANGED vars
  BY <1>2 DEF ArmInv, LeaseBacks, HolderIsThere, SlotHeld, BuiltUnguarded, ScriptBacked,
     StreamGuarded, NoneLeftBehind, HasInterface, vars, flags, robot
<1> QED
  BY <1>1, <1>2, KilledKeeps, RobotKeeps DEF Next

-----------------------------------------------------------------------------
\* Every variable has its type in every reachable state.
THEOREM ArmTypeCorrect == Spec => []TypeOK
<1>1. TypeOK /\ [Next]_vars => TypeOK'
  BY StepTypes
<1> QED
  BY InitCorrect, <1>1, PTL DEF Spec

\* The inductive invariant: what the lease, the slot and the guard say of the
\* interface, the script and the stream.
THEOREM ArmCorrect == Spec => []ArmInv
<1>1. TypeOK /\ ArmInv /\ [Next]_vars => ArmInv'
  BY StepKeeps
<1> QED
  BY InitCorrect, <1>1, ArmTypeCorrect, PTL DEF Spec

\* There is never a second control interface, in this process or another.
THEOREM ControllersExclude == Spec => []OneController
<1>1. ArmInv => OneController
  BY DEF ArmInv, LeaseBacks, OneController
<1> QED
  BY <1>1, ArmCorrect, PTL

\* An interface always occupies the slot of its process.
THEOREM SlotsCover == Spec => []SlotCovers
<1>1. ArmInv => SlotCovers
  BY DEF ArmInv, SlotHeld, SlotCovers
<1> QED
  BY <1>1, ArmCorrect, PTL

\* A moveL never reaches a script in servo mode, if the receive interface
\* always answers.
THEOREM LinearMovesMeetNoStream == Spec => []NoMoveLIntoStream
<1>1. ArmInv => NoMoveLIntoStream
  BY ArmAssumption DEF ArmInv, StreamGuarded, NoMoveLIntoStream, MeetsStream, MoveReaches
<1> QED
  BY <1>1, ArmCorrect, PTL

\* A step that lets a homing move meet a stream.
LEMMA MeetingStep ==
    ASSUME TypeOK, ArmInv, Next, NEW a \in Arms, NEW move \in Moves,
           ~MeetsStream(a, move), MeetsStream(a, move)'
    PROVE  \/ ServoStopRaises(a) /\ move = "move_j"
           \/ ~readable /\ (ServoStop(a) \/ ServoStopRaises(a))
<1> DEFINE Allowed == \/ ServoStopRaises(a) /\ move = "move_j"
                      \/ ~readable /\ (ServoStop(a) \/ ServoStopRaises(a))
<1> SUFFICES Allowed
  OBVIOUS
<1>1. /\ at'[a] = "idle" /\ thread'[a] = "off" /\ ctrl'[a] /\ script' = a /\ streaming'
      /\ move = "move_l" => ~active'[a]
  BY DEF MeetsStream, MoveReaches
<1>2. ~(/\ at[a] = "idle" /\ thread[a] = "off" /\ ctrl[a] /\ script = a /\ streaming
        /\ move = "move_l" => ~active[a])
  BY DEF MeetsStream, MoveReaches
<1>3. /\ script = a /\ streaming => ctrl[a] /\ (readable => active[a])
      /\ ctrl[a] => at[a] \in {"idle", "dropped"}
      /\ a # NoArm /\ a # Stray
  BY ArmAssumption DEF ArmInv, StreamGuarded, HolderIsThere
<1>4. move \in {"move_j", "move_l"}
  BY DEF Moves
<1>5. ASSUME NEW b \in Arms, Calls(b) PROVE Allowed
  <2> HIDE DEF Allowed
  <2>1. CASE Open(b)
    BY <1>1, <1>2, <1>3, <1>4, <2>1, ArmAssumption DEF TypeOK, Open, Goto, Session, flags, robot
  <2>2. CASE Acquire(b)
    BY <1>1, <1>2, <1>3, <1>4, <2>2, ArmAssumption DEF TypeOK, Acquire, Goto, flags, robot
  <2>3. CASE RigBusy(b)
    BY <1>1, <1>2, <1>3, <1>4, <2>3, ArmAssumption DEF TypeOK, RigBusy, Goto, flags, robot
  <2>4. CASE Reserve(b)
    BY <1>1, <1>2, <1>3, <1>4, <2>4, ArmAssumption DEF TypeOK, Reserve, Goto, flags, robot
  <2>5. CASE SlotTaken(b)
    BY <1>1, <1>2, <1>3, <1>4, <2>5, ArmAssumption DEF TypeOK, SlotTaken, Goto, Raises, flags, robot
  <2>6. CASE StopOldScript(b)
    BY <1>1, <1>2, <1>3, <1>4, <2>6, ArmAssumption DEF TypeOK, StopOldScript, Goto, flags, robot
  <2>7. CASE StartScript(b)
    BY <1>1, <1>2, <1>3, <1>4, <2>7, ArmAssumption DEF TypeOK, StartScript, Goto, flags, robot
  <2>8. CASE StartFails(b)
    BY <1>1, <1>2, <1>3, <1>4, <2>8, ArmAssumption DEF TypeOK, StartFails, Goto, Raises, flags, robot
  <2>9. CASE Configure(b)
    BY <1>1, <1>2, <1>3, <1>4, <2>9, ArmAssumption DEF TypeOK, Configure, Goto, flags, robot
  <2>10. CASE ConfigureFails(b)
    BY <1>1, <1>2, <1>3, <1>4, <2>10, ArmAssumption DEF TypeOK, ConfigureFails, Goto, Raises, Abandon, flags, robot
  <2>11. CASE StartServo(b)
    BY <1>1, <1>2, <1>3, <1>4, <2>11, ArmAssumption DEF TypeOK, StartServo, Goto, flags, robot
  <2>12. CASE ServoEnds(b)
    BY <1>1, <1>2, <1>3, <1>4, <2>12, ArmAssumption DEF TypeOK, ServoEnds, Goto, flags, robot
  <2>13. CASE ServoTick(b)
    BY <1>1, <1>2, <1>3, <1>4, <2>13, ArmAssumption DEF TypeOK, ServoTick, Goto, flags, robot
  <2>14. CASE ServoStop(b)
    BY <1>1, <1>2, <1>3, <1>4, <2>14, ArmAssumption DEF TypeOK, ServoStop, Goto, ProgramRunning, IsOver, flags, robot, Allowed
  <2>15. CASE Reconnect(b)
    BY <1>1, <1>2, <1>3, <1>4, <2>15, ArmAssumption DEF TypeOK, Reconnect, Goto, TeardownCtrl, Abandon, flags, robot
  <2>16. CASE Disconnect(b)
    BY <1>1, <1>2, <1>3, <1>4, <2>16, ArmAssumption DEF TypeOK, Disconnect, Goto, TeardownCtrl, Abandon, flags, robot
  <2>17. CASE CloseLease(b)
    BY <1>1, <1>2, <1>3, <1>4, <2>17, ArmAssumption DEF TypeOK, CloseLease, Goto, flags, robot
  <2>18. CASE Drop(b)
    BY <1>1, <1>2, <1>3, <1>4, <2>18, ArmAssumption DEF TypeOK, Drop, Goto, flags, robot
  <2>19. CASE Collected(b)
    BY <1>1, <1>2, <1>3, <1>4, <2>19, ArmAssumption DEF TypeOK, Collected, Goto, Abandon, flags, robot
  <2>20. CASE ServoStopRaises(b)
    BY <1>1, <1>2, <1>3, <1>4, <2>20, ArmAssumption DEF TypeOK, ServoStopRaises, Goto, ProgramRunning, IsOver, flags, robot, Allowed
  <2> QED
    BY <1>5, <2>1, <2>2, <2>3, <2>4, <2>5, <2>6, <2>7, <2>8, <2>9, <2>10, <2>11, <2>12, <2>13, <2>14, <2>15, <2>16, <2>17, <2>18, <2>19, <2>20 DEF Calls, Connecting, Commanding, Ending
<1>6. ASSUME NEW p \in Processes, Killed(p) PROVE FALSE
  BY <1>1, <1>2, <1>3, <1>6, ArmAssumption DEF TypeOK, Killed, Abandon, robot
<1>7. CASE RobotStops
  BY <1>1, <1>3, <1>7 DEF RobotStops
<1> QED
  BY <1>5, <1>6, <1>7 DEF Next

\* A homing move comes to meet a servo stream by a servo_stop that raised or
\* that could not read the robot, and by nothing else.
THEOREM MovesMeetStreamBy == Spec => StreamsMetBy
<1>1. TypeOK /\ ArmInv /\ [Next]_vars =>
        [\A a \in Arms, move \in Moves :
            ~MeetsStream(a, move) /\ MeetsStream(a, move)' =>
               \/ ServoStopRaises(a) /\ move = "move_j"
               \/ ~readable /\ (ServoStop(a) \/ ServoStopRaises(a))]_vars
  BY MeetingStep
<1> QED
  BY <1>1, ArmTypeCorrect, ArmCorrect, PTL DEF Spec, StreamsMetBy
\* An URArm without the lease does nothing to the robot.
THEOREM OwnersUndisturbed == Spec => OwnerUndisturbed
<1>1. ASSUME ArmInv, NEW a \in Arms, Calls(a), lease # a PROVE UNCHANGED robot

  <2>1. CASE Open(a)
    BY <1>1, <2>1 DEF ArmInv, LeaseBacks, ScriptBacked, StreamGuarded, HasInterface, Building, Open, Goto, Session, robot
  <2>2. CASE Acquire(a)
    BY <1>1, <2>2 DEF ArmInv, LeaseBacks, ScriptBacked, StreamGuarded, HasInterface, Building, Acquire, Goto, robot
  <2>3. CASE RigBusy(a)
    BY <1>1, <2>3 DEF ArmInv, LeaseBacks, ScriptBacked, StreamGuarded, HasInterface, Building, RigBusy, Goto, robot
  <2>4. CASE Reserve(a)
    BY <1>1, <2>4 DEF ArmInv, LeaseBacks, ScriptBacked, StreamGuarded, HasInterface, Building, Reserve, Goto, robot
  <2>5. CASE SlotTaken(a)
    BY <1>1, <2>5 DEF ArmInv, LeaseBacks, ScriptBacked, StreamGuarded, HasInterface, Building, SlotTaken, Goto, Raises, robot
  <2>6. CASE StopOldScript(a)
    BY <1>1, <2>6 DEF ArmInv, LeaseBacks, ScriptBacked, StreamGuarded, HasInterface, Building, StopOldScript, Goto, robot
  <2>7. CASE StartScript(a)
    BY <1>1, <2>7 DEF ArmInv, LeaseBacks, ScriptBacked, StreamGuarded, HasInterface, Building, StartScript, Goto, robot
  <2>8. CASE StartFails(a)
    BY <1>1, <2>8 DEF ArmInv, LeaseBacks, ScriptBacked, StreamGuarded, HasInterface, Building, StartFails, Goto, Raises, robot
  <2>9. CASE Configure(a)
    BY <1>1, <2>9 DEF ArmInv, LeaseBacks, ScriptBacked, StreamGuarded, HasInterface, Building, Configure, Goto, robot
  <2>10. CASE ConfigureFails(a)
    BY <1>1, <2>10 DEF ArmInv, LeaseBacks, ScriptBacked, StreamGuarded, HasInterface, Building, ConfigureFails, Goto, Raises, Abandon, robot
  <2>11. CASE StartServo(a)
    BY <1>1, <2>11 DEF ArmInv, LeaseBacks, ScriptBacked, StreamGuarded, HasInterface, Building, StartServo, Goto, robot
  <2>12. CASE ServoEnds(a)
    BY <1>1, <2>12 DEF ArmInv, LeaseBacks, ScriptBacked, StreamGuarded, HasInterface, Building, ServoEnds, Goto, robot
  <2>13. CASE ServoTick(a)
    BY <1>1, <2>13 DEF ArmInv, LeaseBacks, ScriptBacked, StreamGuarded, HasInterface, Building, ServoTick, Goto, robot
  <2>14. CASE ServoStop(a)
    BY <1>1, <2>14 DEF ArmInv, LeaseBacks, ScriptBacked, StreamGuarded, HasInterface, Building, ServoStop, IsOver, Goto, ProgramRunning, robot
  <2>15. CASE Reconnect(a)
    BY <1>1, <2>15 DEF ArmInv, LeaseBacks, ScriptBacked, StreamGuarded, HasInterface, Building, Reconnect, Goto, TeardownCtrl, Abandon, robot
  <2>16. CASE Disconnect(a)
    BY <1>1, <2>16 DEF ArmInv, LeaseBacks, ScriptBacked, StreamGuarded, HasInterface, Building, Disconnect, Goto, TeardownCtrl, Abandon, robot
  <2>17. CASE CloseLease(a)
    BY <1>1, <2>17 DEF ArmInv, LeaseBacks, ScriptBacked, StreamGuarded, HasInterface, Building, CloseLease, Goto, robot
  <2>18. CASE Drop(a)
    BY <1>1, <2>18 DEF ArmInv, LeaseBacks, ScriptBacked, StreamGuarded, HasInterface, Building, Drop, Goto, robot
  <2>19. CASE Collected(a)
    BY <1>1, <2>19 DEF ArmInv, LeaseBacks, ScriptBacked, StreamGuarded, HasInterface, Building, Collected, Goto, Abandon, robot
  <2>20. CASE ServoStopRaises(a)
    BY <1>1, <2>20 DEF ArmInv, LeaseBacks, ScriptBacked, StreamGuarded, HasInterface, Building, ServoStopRaises, IsOver, Goto, ProgramRunning, robot
  <2> QED
    BY <1>1, <2>1, <2>2, <2>3, <2>4, <2>5, <2>6, <2>7, <2>8, <2>9, <2>10, <2>11, <2>12, <2>13, <2>14, <2>15, <2>16, <2>17, <2>18, <2>19, <2>20 DEF Calls, Connecting, Commanding, Ending
<1>2. ArmInv /\ [Next]_vars => [\A a \in Arms : Calls(a) /\ lease # a => UNCHANGED robot]_vars
  BY <1>1
<1> QED
  BY <1>2, ArmCorrect, PTL DEF Spec, OwnerUndisturbed

\* A script that was built or rebuilt never meets the guard of the one before.
THEOREM FreshScriptsUnguarded == Spec => FreshScriptUnguarded
<1>1. ASSUME TypeOK, ArmInv, NEW a \in Arms, Next, ~ctrl[a], ctrl'[a] PROVE ~active'[a]
  <2>1. ASSUME NEW b \in Arms, Calls(b) PROVE ~active'[a]

    <3>1. CASE Open(b)
      BY <1>1, <2>1, <3>1 DEF TypeOK, ArmInv, BuiltUnguarded, Building, Open, Session, flags
    <3>2. CASE Acquire(b)
      BY <1>1, <2>1, <3>2 DEF TypeOK, ArmInv, BuiltUnguarded, Building, Acquire, flags
    <3>3. CASE RigBusy(b)
      BY <1>1, <2>1, <3>3 DEF TypeOK, ArmInv, BuiltUnguarded, Building, RigBusy, flags
    <3>4. CASE Reserve(b)
      BY <1>1, <2>1, <3>4 DEF TypeOK, ArmInv, BuiltUnguarded, Building, Reserve, flags
    <3>5. CASE SlotTaken(b)
      BY <1>1, <2>1, <3>5 DEF TypeOK, ArmInv, BuiltUnguarded, Building, SlotTaken, Raises, flags
    <3>6. CASE StopOldScript(b)
      BY <1>1, <2>1, <3>6 DEF TypeOK, ArmInv, BuiltUnguarded, Building, StopOldScript, flags
    <3>7. CASE StartScript(b)
      BY <1>1, <2>1, <3>7 DEF TypeOK, ArmInv, BuiltUnguarded, Building, StartScript, flags
    <3>8. CASE StartFails(b)
      BY <1>1, <2>1, <3>8 DEF TypeOK, ArmInv, BuiltUnguarded, Building, StartFails, Raises, flags
    <3>9. CASE Configure(b)
      BY <1>1, <2>1, <3>9 DEF TypeOK, ArmInv, BuiltUnguarded, Building, Configure, flags
    <3>10. CASE ConfigureFails(b)
      BY <1>1, <2>1, <3>10 DEF TypeOK, ArmInv, BuiltUnguarded, Building, ConfigureFails, Raises, Abandon, flags
    <3>11. CASE StartServo(b)
      BY <1>1, <2>1, <3>11 DEF TypeOK, ArmInv, BuiltUnguarded, Building, StartServo, flags
    <3>12. CASE ServoEnds(b)
      BY <1>1, <2>1, <3>12 DEF TypeOK, ArmInv, BuiltUnguarded, Building, ServoEnds, flags
    <3>13. CASE ServoTick(b)
      BY <1>1, <2>1, <3>13 DEF TypeOK, ArmInv, BuiltUnguarded, Building, ServoTick, flags
    <3>14. CASE ServoStop(b)
      BY <1>1, <2>1, <3>14 DEF TypeOK, ArmInv, BuiltUnguarded, Building, ServoStop, ProgramRunning, flags
    <3>15. CASE Reconnect(b)
      BY <1>1, <2>1, <3>15 DEF TypeOK, ArmInv, BuiltUnguarded, Building, Reconnect, TeardownCtrl, Abandon, flags
    <3>16. CASE Disconnect(b)
      BY <1>1, <2>1, <3>16 DEF TypeOK, ArmInv, BuiltUnguarded, Building, Disconnect, TeardownCtrl, Abandon, flags
    <3>17. CASE CloseLease(b)
      BY <1>1, <2>1, <3>17 DEF TypeOK, ArmInv, BuiltUnguarded, Building, CloseLease, flags
    <3>18. CASE Drop(b)
      BY <1>1, <2>1, <3>18 DEF TypeOK, ArmInv, BuiltUnguarded, Building, Drop, flags
    <3>19. CASE Collected(b)
      BY <1>1, <2>1, <3>19 DEF TypeOK, ArmInv, BuiltUnguarded, Building, Collected, Abandon, flags
    <3>20. CASE ServoStopRaises(b)
      BY <1>1, <2>1, <3>20 DEF TypeOK, ArmInv, BuiltUnguarded, Building, ServoStopRaises, ProgramRunning, flags
    <3> QED
      BY <2>1, <3>1, <3>2, <3>3, <3>4, <3>5, <3>6, <3>7, <3>8, <3>9, <3>10, <3>11, <3>12, <3>13, <3>14, <3>15, <3>16, <3>17, <3>18, <3>19, <3>20 DEF Calls, Connecting, Commanding, Ending
  <2>2. ASSUME NEW p \in Processes, Killed(p) PROVE FALSE
    BY <1>1, <2>2 DEF TypeOK, Killed, Abandon
  <2>3. CASE RobotStops
    BY <1>1, <2>3 DEF RobotStops, flags
  <2> QED
    BY <1>1, <2>1, <2>2, <2>3 DEF Next
<1>2. TypeOK /\ ArmInv /\ [Next]_vars => [\A a \in Arms : ~ctrl[a] /\ ctrl'[a] => ~active'[a]]_vars
  BY <1>1
<1> QED
  BY <1>2, ArmTypeCorrect, ArmCorrect, PTL DEF Spec, FreshScriptUnguarded
-----------------------------------------------------------------------------
(* The robot as one resource.                                              *)

Interfaces == {a \in Arms : HasInterface(a)}

\* Who has an interface is alone with it, and has the lease.
LEMMA OwnInterface ==
    ASSUME TypeOK, ArmInv, NEW a \in Arms
    PROVE  /\ HasInterface(a) => lease = a /\ Interfaces = {a}
           /\ lease = a /\ ~HasInterface(a) => Interfaces = {}
           /\ script = a => HasInterface(a)
           /\ lease = NoArm => Interfaces = {}
<1>1. \A b \in Arms : HasInterface(b) => lease = b
  BY DEF ArmInv, LeaseBacks
<1>2. script = a => HasInterface(a)
  BY DEF ArmInv, ScriptBacked
<1>3. NoArm \notin Arms
  BY ArmAssumption
<1> QED  BY <1>1, <1>2, <1>3 DEF Interfaces

\* What is abandoned at the one level is abandoned at the other.
LEMMA AbandonMaps == ASSUME NEW a, Abandon(a) PROVE Owner!Abandon(a)
  BY DEF Abandon, Owner!Abandon, robot, Owner!robot

\* A step is one of the owner, or none of it.
LEMMA OwnerStep ==
    ASSUME TypeOK, ArmInv, [Next]_vars
    PROVE  [Owner!Next]_<<lease, Interfaces, Owner!robot>>
<1> USE DEF Owner!Next, Owner!robot
<1>1. ASSUME NEW a \in Arms, Calls(a) PROVE [Owner!Next]_<<lease, Interfaces, Owner!robot>>
  <2>1. CASE Open(a)
    BY <2>1, OwnInterface, ArmAssumption DEF Open, Goto, Session, flags, robot, ArmInv, LeaseBacks, HolderIsThere, ScriptBacked, HasInterface, Building, TypeOK, Interfaces
  <2>2. CASE Acquire(a)
    BY <2>2, OwnInterface, ArmAssumption DEF Acquire, Goto, flags, robot, ArmInv, LeaseBacks, HolderIsThere, ScriptBacked, HasInterface, Building, TypeOK, Interfaces, Owner!Take
  <2>3. CASE RigBusy(a)
    BY <2>3, OwnInterface, ArmAssumption DEF RigBusy, Goto, flags, robot, ArmInv, LeaseBacks, HolderIsThere, ScriptBacked, HasInterface, Building, TypeOK, Interfaces
  <2>4. CASE Reserve(a)
    BY <2>4, OwnInterface, ArmAssumption DEF Reserve, Goto, flags, robot, ArmInv, LeaseBacks, HolderIsThere, ScriptBacked, HasInterface, Building, TypeOK, Interfaces
  <2>5. CASE SlotTaken(a)
    BY <2>5, OwnInterface, ArmAssumption DEF SlotTaken, Goto, Raises, flags, robot, ArmInv, LeaseBacks, HolderIsThere, ScriptBacked, HasInterface, Building, TypeOK, Interfaces
  <2>6. CASE StopOldScript(a)
    BY <2>6, OwnInterface, ArmAssumption DEF StopOldScript, Goto, flags, robot, ArmInv, LeaseBacks, HolderIsThere, ScriptBacked, HasInterface, Building, TypeOK, Interfaces, Owner!Silence
  <2>7. CASE StartScript(a)
    BY <2>7, OwnInterface, ArmAssumption DEF StartScript, Goto, flags, robot, ArmInv, LeaseBacks, HolderIsThere, ScriptBacked, HasInterface, Building, TypeOK, Interfaces, Owner!Connect
  <2>8. CASE StartFails(a)
    BY <2>8, OwnInterface, ArmAssumption DEF StartFails, Goto, Raises, flags, robot, ArmInv, LeaseBacks, HolderIsThere, ScriptBacked, HasInterface, Building, TypeOK, Interfaces
  <2>9. CASE Configure(a)
    BY <2>9, OwnInterface, ArmAssumption DEF Configure, Goto, flags, robot, ArmInv, LeaseBacks, HolderIsThere, ScriptBacked, HasInterface, Building, TypeOK, Interfaces
  <2>10. CASE ConfigureFails(a)
    <3>1. HasInterface(a)
      BY <2>10 DEF ConfigureFails, HasInterface
    <3>2. lease = a /\ Interfaces = {a} /\ ~ctrl[a]
      BY <2>10, <3>1, OwnInterface DEF ConfigureFails, ArmInv, HolderIsThere
    <3>3. lease' = lease /\ ~HasInterface(a)'
      BY <2>10, <3>2 DEF ConfigureFails, Raises, Goto, flags, HasInterface, TypeOK
    <3>4. \A b \in Arms : b # a => HasInterface(b)' = HasInterface(b)
      BY <2>10 DEF ConfigureFails, Raises, Goto, flags, HasInterface, TypeOK
    <3>5. Interfaces' = {}
      BY <3>2, <3>3, <3>4 DEF Interfaces
    <3>6. Owner!Abandon(a)
      BY <2>10, AbandonMaps DEF ConfigureFails
    <3> QED  BY <3>2, <3>3, <3>5, <3>6 DEF Owner!Disconnect, Interfaces
  <2>11. CASE StartServo(a)
    BY <2>11, OwnInterface, ArmAssumption DEF StartServo, Goto, flags, robot, ArmInv, LeaseBacks, HolderIsThere, ScriptBacked, HasInterface, Building, TypeOK, Interfaces
  <2>12. CASE ServoEnds(a)
    BY <2>12, OwnInterface, ArmAssumption DEF ServoEnds, Goto, flags, robot, ArmInv, LeaseBacks, HolderIsThere, ScriptBacked, HasInterface, Building, TypeOK, Interfaces
  <2>13. CASE ServoTick(a)
    BY <2>13, OwnInterface, ArmAssumption DEF ServoTick, Goto, flags, robot, ArmInv, LeaseBacks, HolderIsThere, ScriptBacked, HasInterface, Building, TypeOK, Interfaces, Owner!Command
  <2>14. CASE ServoStop(a)
    BY <2>14, OwnInterface, ArmAssumption DEF ServoStop, IsOver, Goto, ProgramRunning, flags, robot, ArmInv, LeaseBacks, HolderIsThere, ScriptBacked, HasInterface, Building, TypeOK, Interfaces, Owner!Command
  <2>15. CASE Reconnect(a)
    <3>1. lease = a /\ lease' = lease
      BY <2>15 DEF Reconnect, ArmInv, LeaseBacks
    <3>2. Interfaces' = {}
      BY <2>15, <3>1, OwnInterface, ArmAssumption DEF Reconnect, TeardownCtrl, Goto, flags, ArmInv, LeaseBacks, HolderIsThere, ScriptBacked, HasInterface, Building, TypeOK, Interfaces
    <3>3. Owner!Abandon(a)
      BY <2>15, AbandonMaps DEF Reconnect, TeardownCtrl
    <3>4. CASE HasInterface(a)
      BY <3>1, <3>2, <3>3, <3>4, OwnInterface DEF Owner!Disconnect, Interfaces
    <3>5. CASE ~HasInterface(a)
      <4>1. script # a /\ Interfaces = {}
        BY <3>1, <3>5, OwnInterface
      <4> QED
        BY <3>1, <3>2, <3>3, <4>1 DEF Owner!Abandon, Owner!robot
    <3> QED  BY <3>4, <3>5
  <2>16. CASE Disconnect(a)
    <3>1. lease = a /\ lease' = lease
      BY <2>16 DEF Disconnect, ArmInv, LeaseBacks
    <3>2. Interfaces' = {}
      BY <2>16, <3>1, OwnInterface, ArmAssumption DEF Disconnect, TeardownCtrl, Goto, flags, ArmInv, LeaseBacks, HolderIsThere, ScriptBacked, HasInterface, Building, TypeOK, Interfaces
    <3>3. Owner!Abandon(a)
      BY <2>16, AbandonMaps DEF Disconnect, TeardownCtrl
    <3>4. CASE HasInterface(a)
      BY <3>1, <3>2, <3>3, <3>4, OwnInterface DEF Owner!Disconnect, Interfaces
    <3>5. CASE ~HasInterface(a)
      <4>1. script # a /\ Interfaces = {}
        BY <3>1, <3>5, OwnInterface
      <4> QED
        BY <3>1, <3>2, <3>3, <4>1 DEF Owner!Abandon, Owner!robot
    <3> QED  BY <3>4, <3>5
  <2>17. CASE CloseLease(a)
    BY <2>17, OwnInterface, ArmAssumption DEF CloseLease, Goto, flags, robot, ArmInv, LeaseBacks, HolderIsThere, ScriptBacked, HasInterface, Building, TypeOK, Interfaces, Owner!Release, Owner!Abandon
  <2>18. CASE Drop(a)
    BY <2>18, OwnInterface, ArmAssumption DEF Drop, Goto, flags, robot, ArmInv, LeaseBacks, HolderIsThere, ScriptBacked, HasInterface, Building, TypeOK, Interfaces
  <2>19. CASE Collected(a)
    <3>1. Owner!Abandon(a)
      BY <2>19, AbandonMaps DEF Collected
    <3>2. CASE lease = a
      <4>1. lease' = NoArm /\ Interfaces' = {}
        BY <2>19, <3>2, OwnInterface, ArmAssumption DEF Collected, Goto, flags, ArmInv, LeaseBacks, HolderIsThere, ScriptBacked, HasInterface, Building, TypeOK, Interfaces
      <4> QED
        BY <3>1, <3>2, <4>1 DEF Owner!Release, Interfaces
    <3>3. CASE lease # a
      <4>1. script # a /\ ~HasInterface(a)
        BY <3>3, OwnInterface
      <4>2. lease' = lease /\ Interfaces' = Interfaces
        BY <2>19, <3>3, <4>1 DEF Collected, Goto, flags, TypeOK, HasInterface, Interfaces
      <4> QED
        BY <3>1, <4>1, <4>2 DEF Owner!Abandon, Owner!robot
    <3> QED  BY <3>2, <3>3
  <2>20. CASE ServoStopRaises(a)
    BY <2>20, OwnInterface, ArmAssumption DEF ServoStopRaises, IsOver, Goto, ProgramRunning, flags, robot, ArmInv, LeaseBacks, HolderIsThere, ScriptBacked, HasInterface, Building, TypeOK, Interfaces, Owner!Command
  <2> QED
    BY <1>1, <2>1, <2>2, <2>3, <2>4, <2>5, <2>6, <2>7, <2>8, <2>9, <2>10, <2>11, <2>12, <2>13, <2>14, <2>15, <2>16, <2>17, <2>18, <2>19, <2>20 DEF Calls, Connecting, Commanding, Ending
<1>2. ASSUME NEW p \in Processes, Killed(p) PROVE [Owner!Next]_<<lease, Interfaces, Owner!robot>>
  <2>1. CASE lease \in Arms /\ ProcessOf[lease] = p
    <3>1. lease' = NoArm /\ Interfaces' = {}
      BY <1>2, <2>1, OwnInterface, ArmAssumption DEF Killed, flags, ArmInv, LeaseBacks, HolderIsThere, ScriptBacked, HasInterface, Building, TypeOK, Interfaces
    <3>2. script # lease => script \notin Arms
      BY <2>1, OwnInterface
    <3>3. Owner!Abandon(lease)
      BY <1>2, <2>1, <3>2, AbandonMaps DEF Killed, Owner!Abandon, robot, Owner!robot
    <3> QED  BY <2>1, <3>1, <3>3 DEF Owner!Release, Interfaces
  <2>2. CASE ~(lease \in Arms /\ ProcessOf[lease] = p)
    <3>1. \A a \in Arms : HasInterface(a) \/ script = a => ProcessOf[a] # p
      BY <2>2, OwnInterface
    <3>2. lease' = lease /\ UNCHANGED robot
      BY <1>2, <2>2, <3>1 DEF Killed, TypeOK
    <3>3. Interfaces' = Interfaces
      BY <1>2, <3>1, OwnInterface DEF Killed, TypeOK, HasInterface, Interfaces
    <3> QED  BY <3>2, <3>3 DEF robot, Owner!robot
  <2> QED  BY <2>1, <2>2
<1>3. CASE RobotStops
  BY <1>3 DEF RobotStops, flags, robot, HasInterface, Interfaces, Owner!RobotStops
<1>4. CASE UNCHANGED vars
  BY <1>4 DEF vars, flags, robot, HasInterface, Interfaces
<1> QED
  BY <1>1, <1>2, <1>3, <1>4 DEF Next

\* The arm implements ArmOwner: one owner, one interface, and only the owner's
\* own steps start, command or end what plays on the robot.
THEOREM ArmImplementsOwner == Spec => ImplementsOwner
<1>1. Init => Owner!Init
  BY DEF Init, Owner!Init, HasInterface
<1>2. TypeOK /\ ArmInv /\ [Next]_vars => [Owner!Next]_<<lease, {a \in Arms : HasInterface(a)}, Owner!robot>>
  BY OwnerStep DEF Interfaces
<1> QED  BY <1>1, <1>2, ArmTypeCorrect, ArmCorrect, PTL DEF Spec, ImplementsOwner, Owner!Spec

-----------------------------------------------------------------------------
(* Slots that are lost.                                                    *)

\* Which steps lose a slot, and which end the loss.
LEMMA LossStep ==
    ASSUME TypeOK, ArmInv, Next, NEW p \in Processes
    PROVE  /\ ~SlotLost(p) /\ SlotLost(p)' =>
                 \E a \in Arms : ProcessOf[a] = p /\ at[a] = "dropped" /\ ctrl[a] /\ Collected(a)
           /\ SlotLost(p) /\ ~SlotLost(p)' => Killed(p)
<1> DEFINE Drops == \E a \in Arms : ProcessOf[a] = p /\ at[a] = "dropped" /\ ctrl[a] /\ Collected(a)
<1> SUFFICES /\ ~SlotLost(p) /\ SlotLost(p)' => Drops
             /\ SlotLost(p) /\ ~SlotLost(p)' => Killed(p)
  OBVIOUS
<1> HIDE DEF Drops
<1>1. ASSUME NEW a \in Arms, Calls(a)
      PROVE  (~SlotLost(p) /\ SlotLost(p)' => Drops) /\ (SlotLost(p) => SlotLost(p)')
  <2>1. CASE Open(a)
    BY <2>1, ArmAssumption DEF Open, Goto, Session, flags, ArmInv, SlotHeld, HolderIsThere, HasInterface, SlotLost, TypeOK
  <2>2. CASE Acquire(a)
    BY <2>2, ArmAssumption DEF Acquire, Goto, flags, ArmInv, SlotHeld, HolderIsThere, HasInterface, SlotLost, TypeOK
  <2>3. CASE RigBusy(a)
    BY <2>3, ArmAssumption DEF RigBusy, Goto, flags, ArmInv, SlotHeld, HolderIsThere, HasInterface, SlotLost, TypeOK
  <2>4. CASE Reserve(a)
    BY <2>4, ArmAssumption DEF Reserve, Goto, flags, ArmInv, SlotHeld, HolderIsThere, HasInterface, SlotLost, TypeOK
  <2>5. CASE SlotTaken(a)
    BY <2>5, ArmAssumption DEF SlotTaken, Goto, Raises, flags, ArmInv, SlotHeld, HolderIsThere, HasInterface, SlotLost, TypeOK
  <2>6. CASE StopOldScript(a)
    BY <2>6, ArmAssumption DEF StopOldScript, Goto, flags, ArmInv, SlotHeld, HolderIsThere, HasInterface, SlotLost, TypeOK
  <2>7. CASE StartScript(a)
    BY <2>7, ArmAssumption DEF StartScript, Goto, flags, ArmInv, SlotHeld, HolderIsThere, HasInterface, SlotLost, TypeOK
  <2>8. CASE StartFails(a)
    BY <2>8, ArmAssumption DEF StartFails, Goto, Raises, flags, ArmInv, SlotHeld, HolderIsThere, HasInterface, SlotLost, TypeOK
  <2>9. CASE Configure(a)
    BY <2>9, ArmAssumption DEF Configure, Goto, flags, ArmInv, SlotHeld, HolderIsThere, HasInterface, SlotLost, TypeOK
  <2>10. CASE ConfigureFails(a)
    BY <2>10, ArmAssumption DEF ConfigureFails, Goto, Raises, Abandon, flags, ArmInv, SlotHeld, HolderIsThere, HasInterface, SlotLost, TypeOK
  <2>11. CASE StartServo(a)
    BY <2>11, ArmAssumption DEF StartServo, Goto, flags, ArmInv, SlotHeld, HolderIsThere, HasInterface, SlotLost, TypeOK
  <2>12. CASE ServoEnds(a)
    BY <2>12, ArmAssumption DEF ServoEnds, Goto, flags, ArmInv, SlotHeld, HolderIsThere, HasInterface, SlotLost, TypeOK
  <2>13. CASE ServoTick(a)
    BY <2>13, ArmAssumption DEF ServoTick, Goto, flags, ArmInv, SlotHeld, HolderIsThere, HasInterface, SlotLost, TypeOK
  <2>14. CASE ServoStop(a)
    BY <2>14, ArmAssumption DEF ServoStop, IsOver, Goto, ProgramRunning, flags, ArmInv, SlotHeld, HolderIsThere, HasInterface, SlotLost, TypeOK
  <2>15. CASE Reconnect(a)
    BY <2>15, ArmAssumption DEF Reconnect, Goto, TeardownCtrl, Abandon, flags, ArmInv, SlotHeld, HolderIsThere, HasInterface, SlotLost, TypeOK
  <2>16. CASE Disconnect(a)
    BY <2>16, ArmAssumption DEF Disconnect, Goto, TeardownCtrl, Abandon, flags, ArmInv, SlotHeld, HolderIsThere, HasInterface, SlotLost, TypeOK
  <2>17. CASE CloseLease(a)
    BY <2>17, ArmAssumption DEF CloseLease, Goto, flags, ArmInv, SlotHeld, HolderIsThere, HasInterface, SlotLost, TypeOK
  <2>18. CASE Drop(a)
    BY <2>18, ArmAssumption DEF Drop, Goto, flags, ArmInv, SlotHeld, HolderIsThere, HasInterface, SlotLost, TypeOK
  <2>19. CASE Collected(a)
    BY <2>19, ArmAssumption DEF Collected, Goto, Abandon, flags, ArmInv, SlotHeld, HolderIsThere, HasInterface, SlotLost, TypeOK, Drops
  <2>20. CASE ServoStopRaises(a)
    BY <2>20, ArmAssumption DEF ServoStopRaises, IsOver, Goto, ProgramRunning, flags, ArmInv, SlotHeld, HolderIsThere, HasInterface, SlotLost, TypeOK
  <2> QED
    BY <1>1, <2>1, <2>2, <2>3, <2>4, <2>5, <2>6, <2>7, <2>8, <2>9, <2>10, <2>11, <2>12, <2>13, <2>14, <2>15, <2>16, <2>17, <2>18, <2>19, <2>20 DEF Calls, Connecting, Commanding, Ending
<1>2. ASSUME NEW q \in Processes, Killed(q)
      PROVE  (~SlotLost(p) /\ SlotLost(p)' => Drops) /\ (SlotLost(p) /\ ~SlotLost(p)' => Killed(p))
  <2>1. CASE q = p
    BY <1>2, <2>1 DEF Killed, SlotLost, TypeOK
  <2>2. CASE q # p
    <3>1. slot'[p] = slot[p]
      BY <1>2, <2>2 DEF Killed, Abandon, TypeOK
    <3>2. \A a \in Arms : ProcessOf[a] = p => at'[a] = at[a] /\ ctrl'[a] = ctrl[a]
      BY <1>2, <2>2 DEF Killed, Abandon, TypeOK
    <3> QED  BY <3>1, <3>2 DEF SlotLost, HasInterface
  <2> QED  BY <2>1, <2>2
<1>3. CASE RobotStops
  BY <1>3 DEF RobotStops, flags, HasInterface, SlotLost
<1> QED
  BY <1>1, <1>2, <1>3 DEF Next

\* The only way to lose the slot of a process: an URArm that was dropped with
\* its interface is collected.
THEOREM SlotsLostByDropping == Spec => LostByDropping
<1>1. TypeOK /\ ArmInv /\ [Next]_vars =>
        [\A p \in Processes : ~SlotLost(p) /\ SlotLost(p)' =>
            \E a \in Arms : /\ ProcessOf[a] = p
                           /\ at[a] = "dropped" /\ ctrl[a]
                           /\ Collected(a)]_vars
  BY LossStep
<1> QED  BY <1>1, ArmTypeCorrect, ArmCorrect, PTL DEF Spec, LostByDropping

\* A slot that is lost stays lost until its process is killed.
THEOREM SlotsLostForGood == Spec => LostForGood
<1>1. TypeOK /\ ArmInv /\ [Next]_vars =>
        [\A p \in Processes : SlotLost(p) /\ ~SlotLost(p)' => Killed(p)]_vars
  BY LossStep
<1> QED  BY <1>1, ArmTypeCorrect, ArmCorrect, PTL DEF Spec, LostForGood
=============================================================================
