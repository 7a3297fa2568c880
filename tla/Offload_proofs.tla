--------------------------- MODULE Offload_proofs ---------------------------
(***************************************************************************)
(* Theorems about Offload, for every set of episodes and files, with and   *)
(* without keep_local.                                                     *)
(***************************************************************************)
EXTENDS Offload, TLAPS

-----------------------------------------------------------------------------
(* Directories.                                                            *)

\* What is left of a directory after rmtree has removed one of its entries is
\* a directory.
LEMMA RemovalKeepsDirectory ==
    ASSUME NEW d \in Directories, NEW f \in Removable(d)
    PROVE  d \ {f} \in Directories
BY DEF Directories, Removable

\* copytree makes a directory with nothing in it and adds files.
LEMMA CopyMakesDirectory ==
    /\ {} \in Directories
    /\ Whole \in Directories
    /\ {Dir} \in Directories
    /\ \A d \in Directories, f \in Files : Dir \in d => d \cup {f} \in Directories
BY DEF Directories, Whole

-----------------------------------------------------------------------------
(* Types.                                                                  *)

\* Where a copy is under way there is a directory to copy into.
TypesInv == TypeOK /\ (pc = "copy" => Dir \in part[ep])

LEMMA InitTypes == Init => TypesInv
<1> SUFFICES ASSUME Init PROVE TypesInv
  OBVIOUS
<1> USE CopyMakesDirectory DEF Init, drive
<1>1. TypeOK
  BY DEF TypeOK, Steps
<1> QED  BY <1>1 DEF TypesInv

LEMMA StepTypes == TypesInv /\ [Next]_vars => TypesInv'
<1> SUFFICES ASSUME TypesInv, [Next]_vars PROVE TypesInv'
  OBVIOUS
<1> USE DEF TypesInv, TypeOK, drive, call, Goto, Steps
<1>1. CASE Start
  BY <1>1 DEF Start
<1>2. CASE NextEpisode
  BY <1>2 DEF NextEpisode
<1>3. CASE Finished
  BY <1>3 DEF Finished
<1>4. CASE RemoveStale
  BY <1>4, RemovalKeepsDirectory DEF RemoveStale
<1>5. CASE SetAside
  BY <1>5, CopyMakesDirectory DEF SetAside
<1>6. CASE AlreadyThere
  BY <1>6 DEF AlreadyThere, Moved
<1>7. CASE BeginCopy
  <2>1. left' \subseteq Files
    BY <1>7 DEF BeginCopy, Directories, Whole
  <2> QED  BY <1>7, <2>1, CopyMakesDirectory DEF BeginCopy
<1>8. CASE CopyFile
  <2>1. PICK f \in left : part' \in {part, [part EXCEPT ![ep] = @ \cup {f}]}
    BY <1>8 DEF CopyFile
  <2>2. f \in Files /\ part[ep] \in Directories /\ Dir \in part[ep]
    BY <1>8 DEF CopyFile
  <2>3. part' \in [Episodes -> Directories] /\ Dir \in part'[ep]
    BY <2>1, <2>2, CopyMakesDirectory
  <2>4. left' \subseteq Files
    BY <1>8 DEF CopyFile
  <2> QED  BY <1>8, <2>3, <2>4 DEF CopyFile
<1>9. CASE GiveUp
  BY <1>9 DEF GiveUp
<1>10. CASE Flush
  BY <1>10 DEF Flush
<1>11. CASE VerifyMatches
  BY <1>11 DEF VerifyMatches
<1>12. CASE Replace
  BY <1>12, CopyMakesDirectory DEF Replace, Moved
<1>13. CASE ClearLocal
  BY <1>13, RemovalKeepsDirectory DEF ClearLocal
<1>14. CASE Cleared
  BY <1>14 DEF Cleared
<1>15. CASE Interrupted
  BY <1>15 DEF Interrupted
<1>16. CASE UNCHANGED vars
  BY <1>16 DEF vars
<1> QED
  BY <1>1, <1>2, <1>3, <1>4, <1>5, <1>6, <1>7, <1>8, <1>9, <1>10, <1>11, <1>12,
     <1>13, <1>14, <1>15, <1>16
  DEF Next, OffloadSession, CopyFails, VerifyFails

\* Types hold in every reachable state.
THEOREM OffloadTypeCorrect == Spec => []TypeOK
<1>1. Init => TypesInv
  BY InitTypes
<1>2. TypesInv /\ [Next]_vars => TypesInv'
  BY StepTypes
<1>3. TypesInv => TypeOK
  BY DEF TypesInv
<1> QED  BY <1>1, <1>2, <1>3, PTL DEF Spec

-----------------------------------------------------------------------------
(* No episode is lost.                                                     *)

\* Two copies mirror each other only if both are whole or neither is.
LEMMA SupersetOfWhole ==
    ASSUME NEW d \in Directories, Whole \subseteq d
    PROVE  d = Whole
BY DEF Directories

LEMMA InitOffloadInv == Init => OffloadInv
BY DEF Init, OffloadInv, EpisodeKept, MovedIsWhole, CopyUnderway, CopyVerified, ClearsBacked

LEMMA StepOffloadInv == TypesInv /\ OffloadInv /\ [Next]_vars => OffloadInv'
<1> SUFFICES ASSUME TypesInv, OffloadInv, [Next]_vars PROVE OffloadInv'
  OBVIOUS
<1> USE DEF TypesInv, TypeOK, drive, call, Goto, OffloadInv, EpisodeKept, MovedIsWhole,
            CopyUnderway, CopyVerified, ClearsBacked
<1>1. CASE Start
  BY <1>1 DEF Start
<1>2. CASE NextEpisode
  BY <1>2 DEF NextEpisode
<1>3. CASE Finished
  BY <1>3 DEF Finished
<1>4. CASE RemoveStale
  BY <1>4 DEF RemoveStale
\* The local episode is whole: what is set aside is not.
<1>5. CASE SetAside
  <2>1. dst[ep] # Whole
    BY <1>5 DEF SetAside, Directories
  <2> QED  BY <1>5, <2>1 DEF SetAside
\* Either the copy on the drive is whole, or it has a whole episode in it.
<1>6. CASE AlreadyThere
  <2>1. dst[ep] = Whole
    BY <1>6, SupersetOfWhole DEF AlreadyThere
  <2> QED  BY <1>6, <2>1 DEF AlreadyThere, Moved
<1>7. CASE BeginCopy
  BY <1>7 DEF BeginCopy
<1>8. CASE CopyFile
  <2>1. Dir \in part'[ep]
    BY <1>8 DEF CopyFile
  <2> QED  BY <1>8, <2>1 DEF CopyFile
<1>9. CASE GiveUp
  BY <1>9 DEF GiveUp
<1>10. CASE Flush
  BY <1>10 DEF Flush
<1>11. CASE VerifyMatches
  BY <1>11 DEF VerifyMatches
\* Nothing was on the drive, so the local episode is whole, and the copy too.
<1>12. CASE Replace
  <2>1. dst[ep] # Whole
    BY <1>12 DEF Replace, Whole
  <2>2. part[ep] = Whole
    BY <1>12, <2>1 DEF Replace
  <2>3. dst' = [dst EXCEPT ![ep] = Whole]
    BY <1>12, <2>2 DEF Replace
  <2> QED  BY <1>12, <2>3 DEF Replace, Moved
<1>13. CASE ClearLocal
  BY <1>13 DEF ClearLocal
<1>14. CASE Cleared
  BY <1>14 DEF Cleared
<1>15. CASE Interrupted
  BY <1>15 DEF Interrupted
<1>16. CASE UNCHANGED vars
  BY <1>16 DEF vars
<1> QED
  BY <1>1, <1>2, <1>3, <1>4, <1>5, <1>6, <1>7, <1>8, <1>9, <1>10, <1>11, <1>12,
     <1>13, <1>14, <1>15, <1>16
  DEF Next, OffloadSession, CopyFails, VerifyFails

\* The inductive invariant: what each step of the call has established.
THEOREM OffloadCorrect == Spec => []OffloadInv
<1>1. Init => TypesInv /\ OffloadInv
  BY InitTypes, InitOffloadInv
<1>2. TypesInv /\ OffloadInv /\ [Next]_vars => (TypesInv /\ OffloadInv)'
  BY StepTypes, StepOffloadInv
<1> QED  BY <1>1, <1>2, PTL DEF Spec

\* Wherever a call ends and however often it is made again, every episode is
\* whole in staging or in its place on the drive.
THEOREM EveryEpisodeKept == Spec => []EpisodeKept
<1>1. OffloadInv => EpisodeKept
  BY DEF OffloadInv
<1> QED  BY <1>1, OffloadCorrect, PTL

\* An episode reported as moved is whole on the drive.
THEOREM ReportedIsWhole == Spec => []MovedIsWhole
<1>1. OffloadInv => MovedIsWhole
  BY DEF OffloadInv
<1> QED  BY <1>1, OffloadCorrect, PTL

-----------------------------------------------------------------------------
(* The offload is a move.                                                  *)

\* The places of an episode, one by one.
LEMMA HoldersOf ==
    ASSUME NEW e \in Episodes
    PROVE  /\ "staging" \in Holders[e] <=> staging[e] = Whole
           /\ "drive" \in Holders[e] <=> dst[e] = Whole
           /\ Holders[e] \subseteq {"staging", "drive"}
BY DEF Holders

\* A step that makes no episode whole or unwhole anywhere stutters.
LEMMA SameHolders ==
    ASSUME \A e \in Episodes : /\ (staging[e] = Whole) <=> (staging'[e] = Whole)
                               /\ (dst[e] = Whole) <=> (dst'[e] = Whole)
    PROVE  Holders' = Holders
BY DEF Holders

LEMMA InitMoves == Init => Move!Init
<1> SUFFICES ASSUME Init PROVE Move!Init
  OBVIOUS
<1>1. \A e \in Episodes : staging[e] = Whole /\ dst[e] # Whole
  BY DEF Init
<1>2. \A e \in Episodes : Holders[e] = {"staging"}
  BY <1>1 DEF Holders
<1> QED  BY <1>2 DEF Move!Init, Holders

LEMMA StepMoves == TypesInv /\ OffloadInv /\ [Next]_vars => [Move!Next]_Holders
<1> SUFFICES ASSUME TypesInv, OffloadInv, [Next]_vars
             PROVE  Move!Next \/ Holders' = Holders
  OBVIOUS
<1> USE DEF TypesInv, TypeOK, drive
\* What is set aside is not whole, or the local episode would have matched.
<1>1. CASE SetAside
  <2>1. dst[ep] # Whole /\ {} # Whole
    BY <1>1 DEF SetAside, Directories, Whole
  <2> QED  BY <1>1, <2>1, SameHolders DEF SetAside
<1>2. CASE Replace
  <2>1. dst[ep] # Whole /\ part[ep] = Whole /\ staging[ep] = Whole
    BY <1>2 DEF Replace, OffloadInv, EpisodeKept, CopyUnderway, CopyVerified, Whole
  <2>2. dst' = [dst EXCEPT ![ep] = Whole] /\ staging' = staging
    BY <1>2, <2>1 DEF Replace
  <2>3. Holders[ep] = {"staging"} /\ Holders'[ep] = {"staging", "drive"}
    BY <2>1, <2>2 DEF Holders
  <2>4. Holders' = [Holders EXCEPT ![ep] = Holders[ep] \cup {"drive"}]
    BY <2>2, <2>3 DEF Holders
  <2> QED  BY <2>3, <2>4 DEF Move!Next, Move!Arrive
\* The first entry that is removed is the end of a whole local episode.
<1>3. CASE ClearLocal
  <2>1. PICK f \in staging[ep] : staging' = [staging EXCEPT ![ep] = staging[ep] \ {f}]
    BY <1>3 DEF ClearLocal, Removable
  <2>2. dst[ep] = Whole /\ dst' = dst /\ staging'[ep] # Whole
    BY <1>3, <2>1 DEF ClearLocal, OffloadInv, ClearsBacked, Directories
  <2>3. CASE staging[ep] = Whole
    <3>1. Holders[ep] = {"staging", "drive"} /\ Holders'[ep] = {"drive"}
      BY <2>2, <2>3 DEF Holders
    <3>2. Holders' = [Holders EXCEPT ![ep] = {"drive"}]
      BY <2>1, <2>2, <3>1 DEF Holders
    <3> QED  BY <3>1, <3>2 DEF Move!Next, Move!Leave
  <2>4. CASE staging[ep] # Whole
    BY <2>1, <2>2, <2>4, SameHolders
  <2> QED  BY <2>3, <2>4
<1>4. CASE staging' = staging /\ dst' = dst
  BY <1>4 DEF Holders
<1>5. SetAside \/ Replace \/ ClearLocal \/ (staging' = staging /\ dst' = dst)
  BY DEF Next, OffloadSession, Start, NextEpisode, Finished, RemoveStale, AlreadyThere,
         BeginCopy, CopyFile, CopyFails, Flush, VerifyMatches, VerifyFails, GiveUp,
         Cleared, Interrupted, vars
<1> QED  BY <1>1, <1>2, <1>3, <1>4, <1>5

\* Refinement: for each episode the offload is a move that is never without a
\* whole copy.
THEOREM OffloadImplementsMove == Spec => ImplementsMove
<1>1. Init => TypesInv /\ OffloadInv /\ Move!Init
  BY InitTypes, InitOffloadInv, InitMoves
<1>2. TypesInv /\ OffloadInv /\ [Next]_vars => (TypesInv /\ OffloadInv)'
  BY StepTypes, StepOffloadInv
<1>3. TypesInv /\ OffloadInv /\ [Next]_vars => [Move!Next]_Holders
  BY StepMoves
<1> QED  BY <1>1, <1>2, <1>3, PTL DEF Spec, ImplementsMove, Move!Spec
=============================================================================
