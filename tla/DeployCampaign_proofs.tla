---------------------- MODULE DeployCampaign_proofs ----------------------
(***************************************************************************)
(* Proofs about DeployCampaign, for every number of episodes and takes.    *)
(***************************************************************************)
EXTENDS DeployCampaign, SequenceTheorems, TLAPS

(* The queue of indices.                                                   *)

Elements(s) == {s[k] : k \in DOMAIN s}
Distinct(s) == \A j, k \in DOMAIN s : s[j] = s[k] => j = k

\* Taking the head off a sequence leaves the other elements.
LEMMA TailElements ==
    ASSUME NEW S, NEW s \in Seq(S), s # <<>>
    PROVE  /\ Head(s) \in S
           /\ Tail(s) \in Seq(S)
           /\ Elements(s) = {Head(s)} \cup Elements(Tail(s))
           /\ Distinct(s) => Distinct(Tail(s)) /\ Head(s) \notin Elements(Tail(s))
<1>1. /\ Len(s) \in Nat \ {0}
      /\ DOMAIN s = 1 .. Len(s)
      /\ Head(s) = s[1]
      /\ Tail(s) \in Seq(S)
      /\ DOMAIN Tail(s) = 1 .. Len(s) - 1
      /\ \A k \in 1 .. Len(s) - 1 : Tail(s)[k] = s[k + 1]
  OBVIOUS
<1>2. \A k \in 2 .. Len(s) : k - 1 \in 1 .. Len(s) - 1 /\ Tail(s)[k - 1] = s[k]
  BY <1>1
<1>3. Elements(s) = {Head(s)} \cup Elements(Tail(s))
  <2>1. ASSUME NEW x \in Elements(s) PROVE x \in {Head(s)} \cup Elements(Tail(s))
    <3>1. PICK k \in 1 .. Len(s) : x = s[k]
      BY <1>1 DEF Elements
    <3>2. CASE k = 1
      BY <1>1, <3>1, <3>2
    <3>3. CASE k \in 2 .. Len(s)
      BY <1>1, <1>2, <3>1, <3>3 DEF Elements
    <3> QED  BY <1>1, <3>1, <3>2, <3>3
  <2>2. Head(s) \in Elements(s)
    BY <1>1 DEF Elements
  <2>3. ASSUME NEW x \in Elements(Tail(s)) PROVE x \in Elements(s)
    <3>1. PICK k \in 1 .. Len(s) - 1 : x = Tail(s)[k]
      BY <1>1 DEF Elements
    <3> QED  BY <1>1, <3>1 DEF Elements
  <2> QED  BY <2>1, <2>2, <2>3
<1>4. ASSUME Distinct(s) PROVE Distinct(Tail(s))
  BY <1>1, <1>4 DEF Distinct
<1>5. ASSUME Distinct(s) PROVE Head(s) \notin Elements(Tail(s))
  BY <1>1, <1>5 DEF Distinct, Elements
<1> QED  BY <1>1, <1>3, <1>4, <1>5

\* Putting an index back adds it in front.
LEMMA PutBackElements ==
    ASSUME NEW S, NEW s \in Seq(S), NEW i \in S
    PROVE  /\ <<i>> \o s \in Seq(S)
           /\ Elements(<<i>> \o s) = {i} \cup Elements(s)
           /\ Distinct(s) /\ i \notin Elements(s) => Distinct(<<i>> \o s)
<1> DEFINE t == <<i>> \o s
<1>1. /\ Len(s) \in Nat
      /\ DOMAIN s = 1 .. Len(s)
      /\ t \in Seq(S)
      /\ DOMAIN t = 1 .. Len(s) + 1
      /\ t[1] = i
      /\ \A k \in 2 .. Len(s) + 1 : k - 1 \in 1 .. Len(s) /\ t[k] = s[k - 1]
  OBVIOUS
<1>2. \A k \in 1 .. Len(s) : k + 1 \in 2 .. Len(s) + 1 /\ t[k + 1] = s[k]
  BY <1>1
<1> HIDE DEF t
<1>3. ASSUME NEW x \in Elements(t) PROVE x \in {i} \cup Elements(s)
  <2>1. PICK k \in 1 .. Len(s) + 1 : x = t[k]
    BY <1>1, <1>3 DEF Elements
  <2>2. CASE k = 1
    BY <1>1, <2>1, <2>2
  <2>3. CASE k \in 2 .. Len(s) + 1
    BY <1>1, <2>1, <2>3 DEF Elements
  <2> QED  BY <1>1, <2>1, <2>2, <2>3
<1>4. i \in Elements(t)
  BY <1>1 DEF Elements
<1>5. ASSUME NEW x \in Elements(s) PROVE x \in Elements(t)
  <2>1. PICK k \in 1 .. Len(s) : x = s[k]
    BY <1>1, <1>5 DEF Elements
  <2> QED  BY <1>1, <1>2, <2>1 DEF Elements
<1>6. ASSUME Distinct(s), i \notin Elements(s) PROVE Distinct(t)
  <2> SUFFICES ASSUME NEW j \in 1 .. Len(s) + 1, NEW k \in 1 .. Len(s) + 1, t[j] = t[k]
               PROVE  j = k
    BY <1>1 DEF Distinct
  <2>1. \A m \in 2 .. Len(s) + 1 : t[m] # i
    BY <1>1, <1>6 DEF Elements
  <2>2. CASE j = 1 \/ k = 1
    BY <1>1, <2>1, <2>2
  <2>3. CASE j \in 2 .. Len(s) + 1 /\ k \in 2 .. Len(s) + 1
    BY <1>1, <1>6, <2>3 DEF Distinct
  <2> QED  BY <1>1, <2>2, <2>3
<1> QED  BY <1>1, <1>3, <1>4, <1>5, <1>6 DEF t

-----------------------------------------------------------------------------
(* Types.                                                                  *)

LEMMA InitTypes == Init => TypeOK
<1> SUFFICES ASSUME Init PROVE TypeOK
  OBVIOUS
<1>1. pending \in Seq(Indices)
  BY CampaignAssumption DEF Init, Indices
<1>2. prompt \in Prompts /\ recovered \in BOOLEAN /\ fatal \in BOOLEAN /\ alive \in BOOLEAN
      /\ script \in BOOLEAN /\ suspect \in BOOLEAN
  BY DEF Init
<1> QED
  BY <1>1, <1>2 DEF Init, TypeOK, LastAttempt, Steps, Approach, Ending, Codes, Reasons, Statuses, Takes, NoTake, Indices

FlagTypes ==
    /\ recovered \in BOOLEAN /\ fatal \in BOOLEAN /\ alive \in BOOLEAN
    /\ script \in BOOLEAN /\ suspect \in BOOLEAN
PlainTypes ==
    /\ pending \in Seq(Indices) /\ idx \in Indices \cup {0}
    /\ pc \notin {"next", "over"} => idx # 0
    /\ pc \in Steps /\ code \in Codes /\ prompt \in Prompts
    /\ attempt \in -1 .. LastAttempt /\ reason \in Reasons
    /\ take \in Takes \cup {NoTake} /\ late \in Nat /\ harmed \subseteq Takes
    /\ disk \in [Takes -> Statuses] /\ of \in [Takes -> Indices \cup {0}]

LEMMA TypeParts == TypeOK <=> FlagTypes /\ PlainTypes
<1> QED  BY DEF TypeOK, FlagTypes, PlainTypes

LEMMA TypePartsNext == TypeOK' <=> FlagTypes' /\ PlainTypes'
<1> QED  BY DEF TypeOK, FlagTypes, PlainTypes

LEMMA FlagStep == FlagTypes /\ [Next]_vars => FlagTypes'
<1> SUFFICES ASSUME FlagTypes, [Next]_vars PROVE FlagTypes'
  OBVIOUS
<1> USE DEF Goto, Exit, queue, exit, homing, outcome, files, rig, history
<1> USE DEF FlagTypes
<1>1. CASE PopIndex
  BY <1>1 DEF PopIndex
<1>2. CASE Finish
  BY <1>2 DEF Finish
<1>3. CASE Recover
  BY <1>3 DEF Recover, Rebuilt
<1>4. CASE RecoveryFails
  BY <1>4 DEF RecoveryFails
<1>5. CASE Home
  BY <1>5 DEF Home
<1>6. CASE HomeFails
  BY <1>6 DEF HomeFails
<1>7. CASE GatePasses
  BY <1>7 DEF GatePasses
<1>8. CASE AutoHome
  BY <1>8 DEF AutoHome
<1>9. CASE Regain
  BY <1>9 DEF Regain, Rebuilt
<1>10. CASE NoAttemptLeft
  BY <1>10 DEF NoAttemptLeft
<1>11. CASE FixByHand
  BY <1>11 DEF FixByHand, Rebuilt
<1>12. CASE HomeAgain
  BY <1>12 DEF HomeAgain
<1>13. CASE Confirm
  BY <1>13 DEF Confirm
<1>14. CASE WorkersAlive
  BY <1>14 DEF WorkersAlive
<1>15. CASE WorkersDead
  BY <1>15 DEF WorkersDead
<1>16. CASE Begin
  BY <1>16 DEF Begin
<1>17. CASE BeginFails
  BY <1>17 DEF BeginFails
<1>18. CASE ExecutorFails
  BY <1>18 DEF ExecutorFails, Harm
<1>19. CASE EpisodeOver
  BY <1>19 DEF EpisodeOver
<1>20. CASE Save
  BY <1>20 DEF Save
<1>21. CASE SaveFails
  BY <1>21 DEF SaveFails, Harm
<1>22. CASE Provision
  BY <1>22 DEF Provision, Harm
<1>23. CASE Report
  BY <1>23 DEF Report, Onward
<1>24. CASE Promote
  BY <1>24 DEF Promote, Onward
<1>25. CASE SkipVerdict
  BY <1>25 DEF SkipVerdict, Onward
<1>26. CASE Redo
  BY <1>26 DEF Redo, Onward
<1>27. CASE LabelFails
  BY <1>27 DEF LabelFails, Harm
<1>28. CASE Interrupt
  BY <1>28 DEF Interrupt
<1>29. CASE ScriptDies
  BY <1>29 DEF ScriptDies
<1>30. CASE WorkerDies
  BY <1>30 DEF WorkerDies
<1>31. CASE Killed
  BY <1>31 DEF Killed, Harm
<1>32. CASE UNCHANGED vars
  BY <1>32 DEF vars
<1> QED
  BY <1>1, <1>2, <1>3, <1>4, <1>5, <1>6, <1>7, <1>8, <1>9, <1>10, <1>11, <1>12, <1>13, <1>14, <1>15, <1>16, <1>17, <1>18, <1>19, <1>20, <1>21, <1>22, <1>23, <1>24, <1>25, <1>26, <1>27, <1>28, <1>29, <1>30, <1>31, <1>32
  DEF Next, Main

LEMMA PlainStep == PlainTypes /\ [Next]_vars => PlainTypes'
<1> SUFFICES ASSUME PlainTypes, [Next]_vars PROVE PlainTypes'
  OBVIOUS
<1> USE DEF Goto, Exit, queue, exit, homing, outcome, files, rig, history
<1> USE DEF PlainTypes
<1>1. CASE PopIndex
  <2>1. pending # <<>> /\ idx' = Head(pending) /\ pending' = Tail(pending)
    BY <1>1 DEF PopIndex
  <2>2. idx' \in Indices /\ pending' \in Seq(Indices)
    BY <2>1, TailElements
  <2> QED  BY <1>1, <2>2 DEF PopIndex, LastAttempt, Steps, Approach, Ending, Codes, Reasons, Statuses, Takes, NoTake, Indices
<1>2. CASE Finish
  BY <1>2 DEF Finish, LastAttempt, Steps, Approach, Ending, Codes, Reasons, Statuses, Takes, NoTake, Indices
<1>3. CASE Recover
  BY <1>3 DEF Recover, Rebuilt, LastAttempt, Steps, Approach, Ending, Codes, Reasons, Statuses, Takes, NoTake, Indices
<1>4. CASE RecoveryFails
  BY <1>4 DEF RecoveryFails, LastAttempt, Steps, Approach, Ending, Codes, Reasons, Statuses, Takes, NoTake, Indices
<1>5. CASE Home
  BY <1>5 DEF Home, LastAttempt, Steps, Approach, Ending, Codes, Reasons, Statuses, Takes, NoTake, Indices
<1>6. CASE HomeFails
  BY <1>6 DEF HomeFails, LastAttempt, Steps, Approach, Ending, Codes, Reasons, Statuses, Takes, NoTake, Indices
<1>7. CASE GatePasses
  BY <1>7 DEF GatePasses, LastAttempt, Steps, Approach, Ending, Codes, Reasons, Statuses, Takes, NoTake, Indices
<1>8. CASE AutoHome
  BY <1>8 DEF AutoHome, LastAttempt, Steps, Approach, Ending, Codes, Reasons, Statuses, Takes, NoTake, Indices
<1>9. CASE Regain
  <2>1. attempt' = -1 \/ attempt' = attempt
    BY <1>9 DEF Regain
  <2>2. (pc' = "gate" \/ pc' = "fix") /\ pc = "regain"
    BY <1>9 DEF Regain
  <2>3. UNCHANGED <<pending, idx, code, prompt, reason, take, late, harmed, disk, of>>
    BY <1>9 DEF Regain, Rebuilt
  <2> QED  BY <2>1, <2>2, <2>3 DEF LastAttempt, Steps, Approach, Ending, Codes, Reasons, Statuses, Takes, NoTake, Indices
<1>10. CASE NoAttemptLeft
  BY <1>10 DEF NoAttemptLeft, LastAttempt, Steps, Approach, Ending, Codes, Reasons, Statuses, Takes, NoTake, Indices
<1>11. CASE FixByHand
  <2>1. attempt' = -1 \/ attempt' = attempt
    BY <1>11 DEF FixByHand
  <2>2. pc' = "gate" /\ pc = "fix"
    BY <1>11 DEF FixByHand
  <2>3. UNCHANGED <<pending, idx, code, prompt, reason, take, late, harmed, disk, of>>
    BY <1>11 DEF FixByHand, Rebuilt
  <2> QED  BY <2>1, <2>2, <2>3 DEF LastAttempt, Steps, Approach, Ending, Codes, Reasons, Statuses, Takes, NoTake, Indices
<1>12. CASE HomeAgain
  BY <1>12 DEF HomeAgain, LastAttempt, Steps, Approach, Ending, Codes, Reasons, Statuses, Takes, NoTake, Indices
<1>13. CASE Confirm
  BY <1>13 DEF Confirm, LastAttempt, Steps, Approach, Ending, Codes, Reasons, Statuses, Takes, NoTake, Indices
<1>14. CASE WorkersAlive
  BY <1>14 DEF WorkersAlive, LastAttempt, Steps, Approach, Ending, Codes, Reasons, Statuses, Takes, NoTake, Indices
<1>15. CASE WorkersDead
  BY <1>15 DEF WorkersDead, LastAttempt, Steps, Approach, Ending, Codes, Reasons, Statuses, Takes, NoTake, Indices
<1>16. CASE Begin
  BY <1>16 DEF Begin, LastAttempt, Steps, Approach, Ending, Codes, Reasons, Statuses, Takes, NoTake, Indices
<1>17. CASE BeginFails
  BY <1>17 DEF BeginFails, LastAttempt, Steps, Approach, Ending, Codes, Reasons, Statuses, Takes, NoTake, Indices
<1>18. CASE ExecutorFails
  BY <1>18 DEF ExecutorFails, Harm, LastAttempt, Steps, Approach, Ending, Codes, Reasons, Statuses, Takes, NoTake, Indices
<1>19. CASE EpisodeOver
  BY <1>19 DEF EpisodeOver, LastAttempt, Steps, Approach, Ending, Codes, Reasons, Statuses, Takes, NoTake, Indices
<1>20. CASE Save
  BY <1>20 DEF Save, LastAttempt, Steps, Approach, Ending, Codes, Reasons, Statuses, Takes, NoTake, Indices
<1>21. CASE SaveFails
  BY <1>21 DEF SaveFails, Harm, LastAttempt, Steps, Approach, Ending, Codes, Reasons, Statuses, Takes, NoTake, Indices
<1>22. CASE Provision
  BY <1>22 DEF Provision, Harm, LastAttempt, Steps, Approach, Ending, Codes, Reasons, Statuses, Takes, NoTake, Indices
<1>23. CASE Report
  BY <1>23 DEF Report, Onward, LastAttempt, Steps, Approach, Ending, Codes, Reasons, Statuses, Takes, NoTake, Indices
<1>24. CASE Promote
  BY <1>24 DEF Promote, Onward, LastAttempt, Steps, Approach, Ending, Codes, Reasons, Statuses, Takes, NoTake, Indices
<1>25. CASE SkipVerdict
  BY <1>25 DEF SkipVerdict, Onward, LastAttempt, Steps, Approach, Ending, Codes, Reasons, Statuses, Takes, NoTake, Indices
<1>26. CASE Redo
  <2>1. pending' = pending \/ pending' = <<idx>> \o pending
    BY <1>26 DEF Redo
  <2>2. pending' \in Seq(Indices)
    BY <1>26, <2>1, PutBackElements DEF Redo
  <2> QED  BY <1>26, <2>2 DEF Redo, Onward, LastAttempt, Steps, Approach, Ending, Codes, Reasons, Statuses, Takes, NoTake, Indices
<1>27. CASE LabelFails
  BY <1>27 DEF LabelFails, Harm, LastAttempt, Steps, Approach, Ending, Codes, Reasons, Statuses, Takes, NoTake, Indices
<1>28. CASE Interrupt
  BY <1>28 DEF Interrupt, LastAttempt, Steps, Approach, Ending, Codes, Reasons, Statuses, Takes, NoTake, Indices
<1>29. CASE ScriptDies
  BY <1>29 DEF ScriptDies, LastAttempt, Steps, Approach, Ending, Codes, Reasons, Statuses, Takes, NoTake, Indices
<1>30. CASE WorkerDies
  BY <1>30 DEF WorkerDies, LastAttempt, Steps, Approach, Ending, Codes, Reasons, Statuses, Takes, NoTake, Indices
<1>31. CASE Killed
  BY <1>31 DEF Killed, Harm, LastAttempt, Steps, Approach, Ending, Codes, Reasons, Statuses, Takes, NoTake, Indices
<1>32. CASE UNCHANGED vars
  BY <1>32 DEF vars
<1> QED
  BY <1>1, <1>2, <1>3, <1>4, <1>5, <1>6, <1>7, <1>8, <1>9, <1>10, <1>11, <1>12, <1>13, <1>14, <1>15, <1>16, <1>17, <1>18, <1>19, <1>20, <1>21, <1>22, <1>23, <1>24, <1>25, <1>26, <1>27, <1>28, <1>29, <1>30, <1>31, <1>32
  DEF Next, Main

LEMMA StepTypes == TypeOK /\ [Next]_vars => TypeOK'
<1> QED  BY TypeParts, TypePartsNext, FlagStep, PlainStep

\* Every variable stays in its range.
THEOREM CampaignTypeCorrect == Spec => []TypeOK
<1> QED  BY InitTypes, StepTypes, PTL DEF Spec

-----------------------------------------------------------------------------
(* The inductive invariant: first the flags, then the takes and the queue. *)

FlagInv == OneLateTake /\ RebuiltFirst /\ LateIsLast /\ DoubtIsTold
TakeInv == Settled /\ OneTakePerIndex /\ HandOnDisk /\ IndexPlaced

LEMMA InitInv == Init => CampaignInv
<1> SUFFICES ASSUME Init PROVE CampaignInv
  OBVIOUS
<1> USE DEF Init, Takes, NoTake, Ending, Approach
<1>1. Settled
  BY DEF Settled
<1>2. OneTakePerIndex
  BY DEF OneTakePerIndex, Kept
<1>3. HandOnDisk
  BY DEF HandOnDisk
<1>4. ToCome = Indices
  BY DEF ToCome
<1>5. IndexPlaced
  BY <1>4 DEF IndexPlaced, Kept
<1> QED
  BY <1>1, <1>2, <1>3, <1>5 DEF CampaignInv, OneLateTake, RebuiltFirst, LateIsLast, DoubtIsTold

LEMMA FlagInvStep == TypeOK /\ FlagInv /\ [Next]_vars => FlagInv'
<1> SUFFICES ASSUME TypeOK, FlagInv, [Next]_vars PROVE FlagInv'
  OBVIOUS
<1>0. alive \in BOOLEAN /\ suspect \in BOOLEAN /\ late \in Nat /\ pc \in Steps
  BY DEF TypeOK
<1> USE DEF Goto, Exit, queue, exit, homing, outcome, files, rig, history
<1> USE <1>0 DEF FlagInv, OneLateTake, RebuiltFirst, LateIsLast, DoubtIsTold
<1>1. CASE PopIndex
  BY <1>1 DEF PopIndex, Steps, Approach, Ending, NoTake
<1>2. CASE Finish
  BY <1>2 DEF Finish, Steps, Approach, Ending, NoTake
<1>3. CASE Recover
  BY <1>3 DEF Recover, Rebuilt, Steps, Approach, Ending, NoTake
<1>4. CASE RecoveryFails
  BY <1>4 DEF RecoveryFails, Steps, Approach, Ending, NoTake
<1>5. CASE Home
  BY <1>5 DEF Home, Steps, Approach, Ending, NoTake
<1>6. CASE HomeFails
  BY <1>6 DEF HomeFails, Steps, Approach, Ending, NoTake
<1>7. CASE GatePasses
  BY <1>7 DEF GatePasses, Steps, Approach, Ending, NoTake
<1>8. CASE AutoHome
  BY <1>8 DEF AutoHome, Steps, Approach, Ending, NoTake
<1>9. CASE Regain
  BY <1>9 DEF Regain, Rebuilt, Steps, Approach, Ending, NoTake
<1>10. CASE NoAttemptLeft
  BY <1>10 DEF NoAttemptLeft, Steps, Approach, Ending, NoTake
<1>11. CASE FixByHand
  BY <1>11 DEF FixByHand, Rebuilt, Steps, Approach, Ending, NoTake
<1>12. CASE HomeAgain
  BY <1>12 DEF HomeAgain, Steps, Approach, Ending, NoTake
<1>13. CASE Confirm
  BY <1>13 DEF Confirm, Steps, Approach, Ending, NoTake
<1>14. CASE WorkersAlive
  BY <1>14 DEF WorkersAlive, Steps, Approach, Ending, NoTake
<1>15. CASE WorkersDead
  BY <1>15 DEF WorkersDead, Steps, Approach, Ending, NoTake
<1>16. CASE Begin
  BY <1>16 DEF Begin, Steps, Approach, Ending, NoTake
<1>17. CASE BeginFails
  BY <1>17 DEF BeginFails, Steps, Approach, Ending, NoTake
<1>18. CASE ExecutorFails
  BY <1>18 DEF ExecutorFails, Harm, Steps, Approach, Ending, NoTake
<1>19. CASE EpisodeOver
  BY <1>19 DEF EpisodeOver, Steps, Approach, Ending, NoTake
<1>20. CASE Save
  BY <1>20 DEF Save, Steps, Approach, Ending, NoTake
<1>21. CASE SaveFails
  BY <1>21 DEF SaveFails, Harm, Steps, Approach, Ending, NoTake
<1>22. CASE Provision
  BY <1>22 DEF Provision, Harm, Steps, Approach, Ending, NoTake
<1>23. CASE Report
  BY <1>23 DEF Report, Onward, Steps, Approach, Ending, NoTake
<1>24. CASE Promote
  BY <1>24 DEF Promote, Onward, Steps, Approach, Ending, NoTake
<1>25. CASE SkipVerdict
  BY <1>25 DEF SkipVerdict, Onward, Steps, Approach, Ending, NoTake
<1>26. CASE Redo
  BY <1>26 DEF Redo, Onward, Steps, Approach, Ending, NoTake
<1>27. CASE LabelFails
  BY <1>27 DEF LabelFails, Harm, Steps, Approach, Ending, NoTake
<1>28. CASE Interrupt
  BY <1>28 DEF Interrupt, Steps, Approach, Ending, NoTake
<1>29. CASE ScriptDies
  BY <1>29 DEF ScriptDies, Steps, Approach, Ending, NoTake
<1>30. CASE WorkerDies
  BY <1>30 DEF WorkerDies, Steps, Approach, Ending, NoTake
<1>31. CASE Killed
  BY <1>31 DEF Killed, Harm, Steps, Approach, Ending, NoTake
<1>32. CASE UNCHANGED vars
  BY <1>32 DEF vars
<1> QED
  BY <1>1, <1>2, <1>3, <1>4, <1>5, <1>6, <1>7, <1>8, <1>9, <1>10, <1>11, <1>12, <1>13, <1>14, <1>15, <1>16, <1>17, <1>18, <1>19, <1>20, <1>21, <1>22, <1>23, <1>24, <1>25, <1>26, <1>27, <1>28, <1>29, <1>30, <1>31, <1>32
  DEF Next, Main

LEMMA TakeInvStep == TypeOK /\ TakeInv /\ [Next]_vars => TakeInv'
<1> SUFFICES ASSUME TypeOK, TakeInv, [Next]_vars PROVE TakeInv'
  OBVIOUS
<1>0. PlainTypes
  BY TypeParts
<1> USE DEF Goto, Exit, queue, exit, homing, outcome, files, rig, history
<1> USE <1>0 DEF PlainTypes, TakeInv, Settled, OneTakePerIndex, HandOnDisk, IndexPlaced, Kept, ToCome
<1>1. CASE PopIndex
  <2>1. pending # <<>> /\ idx' = Head(pending) /\ pending' = Tail(pending) /\ pc = "next"
    BY <1>1 DEF PopIndex
  <2>2. pc' \in {"recover", "home"} /\ UNCHANGED <<code, take, disk, of, harmed>>
    BY <1>1 DEF PopIndex
  <2>3. /\ Head(pending) \in Indices
        /\ Elements(pending) = {Head(pending)} \cup Elements(Tail(pending))
        /\ Distinct(pending) => Distinct(Tail(pending)) /\ Head(pending) \notin Elements(Tail(pending))
    BY <2>1, TailElements
  <2>4. Distinct(pending) /\ ToCome = Elements(pending) /\ ToCome' = Elements(pending')
    BY DEF Distinct, Elements
  <2>5. Distinct(pending') /\ ToCome = {idx'} \cup ToCome' /\ idx' \notin ToCome' /\ idx' # 0
    <3> HIDE DEF ToCome
    <3> QED  BY <2>1, <2>3, <2>4 DEF Indices
  <2>6. (Settled /\ OneTakePerIndex /\ HandOnDisk)'
    BY <2>1, <2>2 DEF NoTake, Ending
  <2> HIDE DEF ToCome, TakeInv, Settled, OneTakePerIndex, HandOnDisk, Kept
  <2>7. UNCHANGED Kept(1) /\ \A e \in Takes : Kept(e)' = Kept(e)
    BY <2>2 DEF Kept
  <2>8. IndexPlaced'
    <3>1. \A j, k \in DOMAIN pending' : pending'[j] = pending'[k] => j = k
      BY <2>5 DEF Distinct
    <3>2. \A e \in Takes : Kept(e)' => of'[e] \notin ToCome
      BY <2>2, <2>7 DEF TakeInv
    <3>3. \A i \in Indices : i \in ToCome \/ \E e \in Takes : Kept(e)' /\ of'[e] = i
      BY <2>1, <2>2, <2>7 DEF TakeInv
    <3>4. code' # "done"
      BY <2>1, <2>2 DEF TakeInv
    <3> QED  BY <2>2, <2>5, <3>1, <3>2, <3>3, <3>4 DEF Ending
  <2> QED  BY <2>6, <2>8 DEF TakeInv
<1>2. CASE Finish
  BY <1>2 DEF Finish, Steps, Approach, Ending, Codes, Reasons, Statuses, Takes, NoTake, Indices
<1>3. CASE Recover
  BY <1>3 DEF Recover, Rebuilt, Steps, Approach, Ending, Codes, Reasons, Statuses, Takes, NoTake, Indices
<1>4. CASE RecoveryFails
  BY <1>4 DEF RecoveryFails, Steps, Approach, Ending, Codes, Reasons, Statuses, Takes, NoTake, Indices
<1>5. CASE Home
  BY <1>5 DEF Home, Steps, Approach, Ending, Codes, Reasons, Statuses, Takes, NoTake, Indices
<1>6. CASE HomeFails
  BY <1>6 DEF HomeFails, Steps, Approach, Ending, Codes, Reasons, Statuses, Takes, NoTake, Indices
<1>7. CASE GatePasses
  BY <1>7 DEF GatePasses, Steps, Approach, Ending, Codes, Reasons, Statuses, Takes, NoTake, Indices
<1>8. CASE AutoHome
  BY <1>8 DEF AutoHome, Steps, Approach, Ending, Codes, Reasons, Statuses, Takes, NoTake, Indices
<1>9. CASE Regain
  BY <1>9 DEF Regain, Rebuilt, Steps, Approach, Ending, Codes, Reasons, Statuses, Takes, NoTake, Indices
<1>10. CASE NoAttemptLeft
  BY <1>10 DEF NoAttemptLeft, Steps, Approach, Ending, Codes, Reasons, Statuses, Takes, NoTake, Indices
<1>11. CASE FixByHand
  BY <1>11 DEF FixByHand, Rebuilt, Steps, Approach, Ending, Codes, Reasons, Statuses, Takes, NoTake, Indices
<1>12. CASE HomeAgain
  BY <1>12 DEF HomeAgain, Steps, Approach, Ending, Codes, Reasons, Statuses, Takes, NoTake, Indices
<1>13. CASE Confirm
  BY <1>13 DEF Confirm, Steps, Approach, Ending, Codes, Reasons, Statuses, Takes, NoTake, Indices
<1>14. CASE WorkersAlive
  BY <1>14 DEF WorkersAlive, Steps, Approach, Ending, Codes, Reasons, Statuses, Takes, NoTake, Indices
<1>15. CASE WorkersDead
  BY <1>15 DEF WorkersDead, Steps, Approach, Ending, Codes, Reasons, Statuses, Takes, NoTake, Indices
<1>16. CASE Begin
  BY <1>16 DEF Begin, Steps, Approach, Ending, Codes, Reasons, Statuses, Takes, NoTake, Indices
<1>17. CASE BeginFails
  BY <1>17 DEF BeginFails, Steps, Approach, Ending, Codes, Reasons, Statuses, Takes, NoTake, Indices
<1>18. CASE ExecutorFails
  BY <1>18 DEF ExecutorFails, Harm, Steps, Approach, Ending, Codes, Reasons, Statuses, Takes, NoTake, Indices
<1>19. CASE EpisodeOver
  BY <1>19 DEF EpisodeOver, Steps, Approach, Ending, Codes, Reasons, Statuses, Takes, NoTake, Indices
<1>20. CASE Save
  BY <1>20 DEF Save, Steps, Approach, Ending, Codes, Reasons, Statuses, Takes, NoTake, Indices
<1>21. CASE SaveFails
  BY <1>21 DEF SaveFails, Harm, Steps, Approach, Ending, Codes, Reasons, Statuses, Takes, NoTake, Indices
<1>22. CASE Provision
  <2>1. /\ pc = "provision" /\ take # NoTake
        /\ UNCHANGED <<pending, idx, of>>
        /\ \/ pc' = "report" /\ UNCHANGED <<take, code>>
           \/ pc' = "over" /\ take' = NoTake /\ code' = "raised"
        /\ \/ disk' = [disk EXCEPT ![take] = "unlabeled"] /\ UNCHANGED harmed
           \/ UNCHANGED disk /\ harmed' = harmed \cup {take}
    BY <1>22 DEF Provision, Harm, Ending
  <2>2. take \in Takes /\ disk[take] = "unjudged"
    BY <2>1
  <2>3. Settled'
    BY <2>1, <2>2 DEF NoTake
  <2>4. OneTakePerIndex'
    BY <2>1, <2>2
  <2>5. HandOnDisk'
    BY <2>1, <2>2 DEF NoTake, Ending
  <2>6. \A e \in Takes : Kept(e)' <=> Kept(e)
    BY <2>1, <2>2
  <2>7. IndexPlaced'
    BY <2>1, <2>2, <2>6 DEF Ending
  <2> QED  BY <2>3, <2>4, <2>5, <2>7
<1>23. CASE Report
  BY <1>23 DEF Report, Onward, Steps, Approach, Ending, Codes, Reasons, Statuses, Takes, NoTake, Indices
<1>24. CASE Promote
  BY <1>24 DEF Promote, Onward, Steps, Approach, Ending, Codes, Reasons, Statuses, Takes, NoTake, Indices
<1>25. CASE SkipVerdict
  BY <1>25 DEF SkipVerdict, Onward, Steps, Approach, Ending, Codes, Reasons, Statuses, Takes, NoTake, Indices
<1>26. CASE Redo
  <2>1. PICK v \in {"gone", "aborted"} : disk' = [disk EXCEPT ![take] = v]
    BY <1>26 DEF Redo
  <2>2. /\ pc = "label" /\ take' = NoTake /\ take # NoTake
        /\ pc' \in {"next", "over"} /\ UNCHANGED <<idx, of, harmed>>
        /\ pc' = "over" => code' = "fatal"
        /\ pc' = "next" => pending' = <<idx>> \o pending /\ UNCHANGED code
        /\ pending' # pending => pending' = <<idx>> \o pending
    BY <1>26 DEF Redo, Onward, Ending, NoTake
  <2>3. Settled' /\ OneTakePerIndex' /\ HandOnDisk'
    BY <2>1, <2>2 DEF Ending, NoTake
  <2>4. idx \in Indices /\ ToCome = Elements(pending) /\ Distinct(pending) /\ idx \notin ToCome
        /\ ToCome' = Elements(pending')
    BY <2>2 DEF Elements, Distinct
  <2>5. Elements(<<idx>> \o pending) = {idx} \cup Elements(pending) /\ Distinct(<<idx>> \o pending)
    <3> HIDE DEF ToCome
    <3> QED  BY <2>4, PutBackElements
  <2>6. pc' = "next" => ToCome' = {idx} \cup ToCome
    <3> HIDE DEF ToCome
    <3> QED  BY <2>2, <2>4, <2>5
  <2>7. Distinct(pending') /\ ToCome' \subseteq {idx} \cup ToCome
    <3> HIDE DEF ToCome
    <3> QED  BY <2>2, <2>4, <2>5
  <2>8. \A e \in Takes : Kept(e)' <=> Kept(e) /\ e # take
    BY <2>1
  <2>9. IndexPlaced'
    <3>1. \A j, k \in DOMAIN pending' : pending'[j] = pending'[k] => j = k
      BY <2>7 DEF Distinct
    <3>2. \A e \in Takes : Kept(e)' => of'[e] \notin ToCome'
      BY <2>2, <2>7, <2>8 DEF NoTake
    <3>3. ASSUME pc' = "next", NEW i \in Indices
          PROVE  i \in ToCome' \/ \E e \in Takes : Kept(e)' /\ of'[e] = i
      <4>1. i \in ToCome \/ i = idx \/ \E e \in Takes : Kept(e) /\ of[e] = i
        BY <2>2
      <4>2. CASE i \in ToCome \/ i = idx
        BY <2>6, <3>3, <4>2
      <4>3. CASE \E e \in Takes : Kept(e) /\ of[e] = i
        <5>1. PICK e \in Takes : Kept(e) /\ of[e] = i
          BY <4>3
        <5>2. CASE e = take
          BY <2>2, <4>2, <5>1, <5>2
        <5>3. CASE e # take
          BY <2>2, <2>8, <5>1, <5>3
        <5> QED  BY <5>2, <5>3
      <4> QED  BY <4>1, <4>2, <4>3
    <3> QED  BY <2>2, <3>1, <3>2, <3>3
  <2> QED  BY <2>3, <2>9
<1>27. CASE LabelFails
  BY <1>27 DEF LabelFails, Harm, Steps, Approach, Ending, Codes, Reasons, Statuses, Takes, NoTake, Indices
<1>28. CASE Interrupt
  BY <1>28 DEF Interrupt, Steps, Approach, Ending, Codes, Reasons, Statuses, Takes, NoTake, Indices
<1>29. CASE ScriptDies
  BY <1>29 DEF ScriptDies, Steps, Approach, Ending, Codes, Reasons, Statuses, Takes, NoTake, Indices
<1>30. CASE WorkerDies
  BY <1>30 DEF WorkerDies, Steps, Approach, Ending, Codes, Reasons, Statuses, Takes, NoTake, Indices
<1>31. CASE Killed
  BY <1>31 DEF Killed, Harm, Steps, Approach, Ending, Codes, Reasons, Statuses, Takes, NoTake, Indices
<1>32. CASE UNCHANGED vars
  BY <1>32 DEF vars
<1> QED
  BY <1>1, <1>2, <1>3, <1>4, <1>5, <1>6, <1>7, <1>8, <1>9, <1>10, <1>11, <1>12, <1>13, <1>14, <1>15, <1>16, <1>17, <1>18, <1>19, <1>20, <1>21, <1>22, <1>23, <1>24, <1>25, <1>26, <1>27, <1>28, <1>29, <1>30, <1>31, <1>32
  DEF Next, Main

LEMMA CampaignStep == TypeOK /\ CampaignInv /\ [Next]_vars => CampaignInv'
<1>1. CampaignInv <=> FlagInv /\ TakeInv
  BY DEF CampaignInv, FlagInv, TakeInv
<1>2. CampaignInv' <=> FlagInv' /\ TakeInv'
  BY DEF CampaignInv, FlagInv, TakeInv
<1> QED  BY <1>1, <1>2, FlagInvStep, TakeInvStep

\* The inductive invariant holds in every reachable state.
THEOREM CampaignCorrect == Spec => []CampaignInv
<1>1. Init => TypeOK /\ CampaignInv
  BY InitTypes, InitInv
<1>2. TypeOK /\ CampaignInv /\ [Next]_vars => (TypeOK /\ CampaignInv)'
  BY StepTypes, CampaignStep
<1> QED  BY <1>1, <1>2, PTL DEF Spec

\* A take without a verdict is out of the training data at once, unless a write
\* of its own failed or the process was killed within that write.
THEOREM TakesSettle == Spec => []Settled
<1>1. CampaignInv => Settled
  BY DEF CampaignInv
<1> QED  BY <1>1, CampaignCorrect, PTL

\* No index of a campaign is represented twice, and at its end each one is.
THEOREM IndicesRepresented == Spec => []OneTakePerIndex
<1>1. CampaignInv => OneTakePerIndex
  BY DEF CampaignInv
<1> QED  BY <1>1, CampaignCorrect, PTL

\* A dead worker spoils one take at most.
THEOREM DeadWorkerSpoilsOne == Spec => []OneLateTake
<1>1. CampaignInv => OneLateTake
  BY DEF CampaignInv
<1> QED  BY <1>1, CampaignCorrect, PTL

\* Nothing moves the arm after a doubtful end before the script was rebuilt.
THEOREM DoubtIsSettledFirst == Spec => []RebuiltFirst
<1>1. CampaignInv => RebuiltFirst
  BY DEF CampaignInv
<1> QED  BY <1>1, CampaignCorrect, PTL

-----------------------------------------------------------------------------
(* Filing.                                                                 *)

\* Putting the take in hand down files it, or drops it as it is.
LEMMA PutDown ==
    ASSUME PlainTypes, take \in Takes, take' = NoTake,
           disk[take] \in {"recording", "unjudged", "unlabeled"},
           UNCHANGED disk \/ \E v \in Filing!Filed : disk' = [disk EXCEPT ![take] = v]
    PROVE  Filing!Next
<1> USE DEF PlainTypes, Takes, NoTake
<1>1. Provisional[take] \notin Filing!Filed /\ take # NoTake
  BY DEF Provisional, Filing!Filed
<1>2. CASE \E v \in Filing!Filed : disk' = [disk EXCEPT ![take] = v]
  <2>1. PICK v \in Filing!Filed : disk' = [disk EXCEPT ![take] = v]
    BY <1>2
  <2>2. Provisional' = [Provisional EXCEPT ![take] = v]
    <3>1. \A e \in Takes : Provisional'[e] = IF e = take THEN v ELSE Provisional[e]
      BY <2>1 DEF Provisional
    <3> QED  BY <3>1 DEF Provisional
  <2> QED  BY <1>1, <2>2 DEF Filing!Next, Filing!FileTake
<1>3. CASE UNCHANGED disk /\ disk[take] = "unlabeled"
  <2>1. Provisional' = [Provisional EXCEPT ![take] = "unlabeled"]
    <3>1. \A e \in Takes : Provisional'[e] = IF e = take THEN "unlabeled" ELSE Provisional[e]
      BY <1>3 DEF Provisional
    <3> QED  BY <3>1 DEF Provisional
  <2>2. "unlabeled" \in Filing!Filed
    BY DEF Filing!Filed
  <2> QED  BY <1>1, <2>1, <2>2 DEF Filing!Next, Filing!FileTake
<1>4. CASE UNCHANGED disk /\ disk[take] # "unlabeled"
  <2>1. Provisional' = Provisional
    BY <1>4 DEF Provisional
  <2> QED  BY <1>1, <2>1 DEF Filing!Next, Filing!Drop
<1> QED  BY <1>2, <1>3, <1>4

LEMMA FilingStep == TypeOK /\ CampaignInv /\ [Next]_vars => [Filing!Next]_<<Provisional, take>>
<1> SUFFICES ASSUME TypeOK, CampaignInv, [Next]_vars PROVE [Filing!Next]_<<Provisional, take>>
  OBVIOUS
<1>0. PlainTypes /\ HandOnDisk
  BY TypeParts DEF CampaignInv
<1> USE DEF Goto, Exit, queue, exit, homing, outcome, files, rig, history
<1> USE <1>0 DEF PlainTypes, HandOnDisk, Provisional
<1>1. CASE PopIndex
  BY <1>1 DEF PopIndex, NoTake, Takes, Ending
<1>2. CASE Finish
  BY <1>2 DEF Finish, NoTake, Takes, Ending
<1>3. CASE Recover
  BY <1>3 DEF Recover, Rebuilt, NoTake, Takes, Ending
<1>4. CASE RecoveryFails
  BY <1>4 DEF RecoveryFails, NoTake, Takes, Ending
<1>5. CASE Home
  BY <1>5 DEF Home, NoTake, Takes, Ending
<1>6. CASE HomeFails
  BY <1>6 DEF HomeFails, NoTake, Takes, Ending
<1>7. CASE GatePasses
  BY <1>7 DEF GatePasses, NoTake, Takes, Ending
<1>8. CASE AutoHome
  BY <1>8 DEF AutoHome, NoTake, Takes, Ending
<1>9. CASE Regain
  BY <1>9 DEF Regain, Rebuilt, NoTake, Takes, Ending
<1>10. CASE NoAttemptLeft
  BY <1>10 DEF NoAttemptLeft, NoTake, Takes, Ending
<1>11. CASE FixByHand
  BY <1>11 DEF FixByHand, Rebuilt, NoTake, Takes, Ending
<1>12. CASE HomeAgain
  BY <1>12 DEF HomeAgain, NoTake, Takes, Ending
<1>13. CASE Confirm
  BY <1>13 DEF Confirm, NoTake, Takes, Ending
<1>14. CASE WorkersAlive
  BY <1>14 DEF WorkersAlive, NoTake, Takes, Ending
<1>15. CASE WorkersDead
  BY <1>15 DEF WorkersDead, NoTake, Takes, Ending
<1>16. CASE Begin
  <2>1. take = NoTake
    BY <1>16 DEF Begin, NoTake, Ending
  <2>2. PICK e \in Takes : /\ disk[e] = "none" /\ take' = e
                           /\ disk' = [disk EXCEPT ![e] = "recording"]
    BY <1>16 DEF Begin
  <2>3. Provisional = disk /\ Provisional' = disk'
    <3>1. \A d \in Takes : Provisional[d] = disk[d] /\ Provisional'[d] = disk'[d]
      BY <2>1, <2>2 DEF NoTake, Takes
    <3> QED  BY <2>2, <3>1
  <2>4. Filing!Begin(e)
    BY <2>1, <2>2, <2>3 DEF Filing!Begin, NoTake
  <2> QED  BY <2>4 DEF Filing!Next
<1>17. CASE BeginFails
  BY <1>17 DEF BeginFails, NoTake, Takes, Ending
<1>18. CASE ExecutorFails
  BY <1>18 DEF ExecutorFails, Harm, NoTake, Takes, Ending,
     Filing!Next, Filing!Begin, Filing!AwaitVerdict, Filing!FileTake, Filing!Drop, Filing!Filed
<1>19. CASE EpisodeOver
  BY <1>19 DEF EpisodeOver, NoTake, Takes, Ending
<1>20. CASE Save
  BY <1>20 DEF Save, NoTake, Takes, Ending,
     Filing!Next, Filing!Begin, Filing!AwaitVerdict, Filing!FileTake, Filing!Drop, Filing!Filed
<1>21. CASE SaveFails
  BY <1>21 DEF SaveFails, Harm, NoTake, Takes, Ending,
     Filing!Next, Filing!Begin, Filing!AwaitVerdict, Filing!FileTake, Filing!Drop, Filing!Filed
<1>22. CASE Provision
  <2>1. /\ take \in Takes /\ disk[take] = "unjudged"
        /\ take' = take \/ take' = NoTake
        /\ UNCHANGED disk \/ disk' = [disk EXCEPT ![take] = "unlabeled"]
    BY <1>22 DEF Provision, NoTake, Ending
  <2>2. CASE take' = take
    BY <2>1, <2>2
  <2>3. CASE take' = NoTake
    <3>1. "unlabeled" \in Filing!Filed
      BY DEF Filing!Filed
    <3> QED  BY <1>0, <2>1, <2>3, <3>1, PutDown
  <2> QED  BY <2>1, <2>2, <2>3
<1>23. CASE Report
  <2>1. pc = "report" /\ UNCHANGED disk
    BY <1>23 DEF Report
  <2>2. take' = take \/ take' = NoTake
    BY <1>23 DEF Report
  <2>3. take \in Takes /\ disk[take] \in {"recording", "unjudged", "unlabeled"}
    BY <2>1 DEF NoTake, Ending
  <2>4. CASE take' = take
    BY <2>1, <2>4
  <2>5. CASE take' = NoTake
    BY <1>0, <2>1, <2>3, <2>5, PutDown
  <2> QED  BY <2>2, <2>4, <2>5
<1>24. CASE Promote
  <2>1. take = NoTake \/ (take \in Takes /\ disk[take] \in {"recording", "unjudged", "unlabeled"})
    BY DEF NoTake, Ending
  <2>2. take' = NoTake /\ (UNCHANGED disk \/ (take # NoTake /\ \E v \in Filing!Filed : disk' = [disk EXCEPT ![take] = v]))
    <3>1. take # NoTake
      BY <1>24 DEF Promote, Ending
    <3>2. PICK v \in {"success", "failure"} : disk' = [disk EXCEPT ![take] = v]
      BY <1>24 DEF Promote
    <3>3. v \in Filing!Filed
      BY <3>2 DEF Filing!Filed
    <3>4. take' = NoTake
      BY <1>24 DEF Promote
    <3> QED  BY <3>1, <3>2, <3>3, <3>4
  <2>3. CASE take = NoTake
    BY <2>2, <2>3 DEF NoTake
  <2>4. CASE take # NoTake
    BY <1>0, <2>1, <2>2, <2>4, PutDown
  <2> QED  BY <2>3, <2>4
<1>25. CASE SkipVerdict
  <2>1. take = NoTake \/ (take \in Takes /\ disk[take] \in {"recording", "unjudged", "unlabeled"})
    BY DEF NoTake, Ending
  <2>2. take' = NoTake /\ (UNCHANGED disk \/ (take # NoTake /\ \E v \in Filing!Filed : disk' = [disk EXCEPT ![take] = v]))
    BY <1>25 DEF SkipVerdict, Ending, NoTake
  <2>3. CASE take = NoTake
    BY <2>2, <2>3 DEF NoTake
  <2>4. CASE take # NoTake
    BY <1>0, <2>1, <2>2, <2>4, PutDown
  <2> QED  BY <2>3, <2>4
<1>26. CASE Redo
  <2>1. take = NoTake \/ (take \in Takes /\ disk[take] \in {"recording", "unjudged", "unlabeled"})
    BY DEF NoTake, Ending
  <2>2. take' = NoTake /\ (UNCHANGED disk \/ (take # NoTake /\ \E v \in Filing!Filed : disk' = [disk EXCEPT ![take] = v]))
    <3>1. take # NoTake
      BY <1>26 DEF Redo, Ending
    <3>2. PICK v \in {"gone", "aborted"} : disk' = [disk EXCEPT ![take] = v]
      BY <1>26 DEF Redo
    <3>3. v \in Filing!Filed
      BY <3>2 DEF Filing!Filed
    <3>4. take' = NoTake
      BY <1>26 DEF Redo
    <3> QED  BY <3>1, <3>2, <3>3, <3>4
  <2>3. CASE take = NoTake
    BY <2>2, <2>3 DEF NoTake
  <2>4. CASE take # NoTake
    BY <1>0, <2>1, <2>2, <2>4, PutDown
  <2> QED  BY <2>3, <2>4
<1>27. CASE LabelFails
  <2>1. take = NoTake \/ (take \in Takes /\ disk[take] \in {"recording", "unjudged", "unlabeled"})
    BY DEF NoTake, Ending
  <2>2. take' = NoTake /\ (UNCHANGED disk \/ (take # NoTake /\ \E v \in Filing!Filed : disk' = [disk EXCEPT ![take] = v]))
    BY <1>27 DEF LabelFails, Ending, NoTake
  <2>3. CASE take = NoTake
    BY <2>2, <2>3 DEF NoTake
  <2>4. CASE take # NoTake
    BY <1>0, <2>1, <2>2, <2>4, PutDown
  <2> QED  BY <2>3, <2>4
<1>28. CASE Interrupt
  <2>1. take = NoTake \/ (take \in Takes /\ disk[take] \in {"recording", "unjudged", "unlabeled"})
    BY DEF NoTake, Ending
  <2>2. take' = NoTake /\ (UNCHANGED disk \/ (take # NoTake /\ \E v \in Filing!Filed : disk' = [disk EXCEPT ![take] = v]))
    BY <1>28 DEF Interrupt, Ending, NoTake
  <2>3. CASE take = NoTake
    BY <2>2, <2>3 DEF NoTake
  <2>4. CASE take # NoTake
    BY <1>0, <2>1, <2>2, <2>4, PutDown
  <2> QED  BY <2>3, <2>4
<1>29. CASE ScriptDies
  BY <1>29 DEF ScriptDies, NoTake, Takes, Ending
<1>30. CASE WorkerDies
  BY <1>30 DEF WorkerDies, NoTake, Takes, Ending
<1>31. CASE Killed
  <2>1. take = NoTake \/ (take \in Takes /\ disk[take] \in {"recording", "unjudged", "unlabeled"})
    BY DEF NoTake, Ending
  <2>2. take' = NoTake /\ (UNCHANGED disk \/ (take # NoTake /\ \E v \in Filing!Filed : disk' = [disk EXCEPT ![take] = v]))
    BY <1>31 DEF Killed, Ending, NoTake
  <2>3. CASE take = NoTake
    BY <2>2, <2>3 DEF NoTake
  <2>4. CASE take # NoTake
    BY <1>0, <2>1, <2>2, <2>4, PutDown
  <2> QED  BY <2>3, <2>4
<1>32. CASE UNCHANGED vars
  BY <1>32 DEF vars
<1> QED
  BY <1>1, <1>2, <1>3, <1>4, <1>5, <1>6, <1>7, <1>8, <1>9, <1>10, <1>11, <1>12, <1>13, <1>14, <1>15, <1>16, <1>17, <1>18, <1>19, <1>20, <1>21, <1>22, <1>23, <1>24, <1>25, <1>26, <1>27, <1>28, <1>29, <1>30, <1>31, <1>32
  DEF Next, Main

\* A campaign implements EpisodeFiling: each take is filed once, and what was
\* filed stays as it was filed.
THEOREM CampaignFilesEpisodes == Spec => ImplementsFiling
<1>1. Init => Filing!Init
  BY DEF Init, Filing!Init, Provisional, NoTake
<1>2. TypeOK /\ CampaignInv /\ [Next]_vars => [Filing!Next]_<<[e \in Takes |-> IF e = take /\ disk[e] = "unlabeled" THEN "unjudged" ELSE disk[e]], take>>
  BY FilingStep DEF Provisional
<1> QED  BY <1>1, <1>2, CampaignTypeCorrect, CampaignCorrect, PTL DEF Spec, ImplementsFiling, Filing!Spec, Provisional
=============================================================================
