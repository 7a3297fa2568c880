---------------------------- MODULE EpisodeGrip ----------------------------
(***************************************************************************)
(* What deployment promises for the fingers, episode after episode.  Moves *)
(* follow each other, and none starts after the stop.  A let-go that was   *)
(* asked for opens the fingers once the last move is over, and after that  *)
(* they are left alone.  Once the placement is finished they are moved to  *)
(* nowhere but where they are, or open by a let-go.  Homing for the next   *)
(* episode waits for all of it.                                            *)
(***************************************************************************)
CONSTANTS Grips, NoGrip,
          Open       \* where a let-go moves the fingers

VARIABLES fingers,   \* where the device was last told to be,
          underway,  \* and the move it has not answered yet, or NoGrip
          stopped,   \* the episode was told to stop
          letgo,     \* somebody asked for the fingers to be opened:
          released,  \* "none", "done" or "failed" so far
          finished,  \* the placement is complete
          homed      \* between two episodes

vars == <<fingers, underway, stopped, letgo, released, finished, homed>>

Init ==
    /\ fingers \in Grips
    /\ underway = NoGrip
    /\ released = "none"
    /\ stopped = FALSE /\ letgo = FALSE /\ finished = FALSE /\ homed = FALSE

StartMove(g) ==
    /\ ~stopped /\ ~homed
    /\ underway = NoGrip
    /\ finished => g = fingers
    /\ underway' = g
    /\ UNCHANGED <<fingers, stopped, letgo, released, finished, homed>>

\* A move that fails may have reached the fingers.
EndMove ==
    /\ underway # NoGrip
    /\ fingers' \in {fingers, underway}
    /\ underway' = NoGrip
    /\ UNCHANGED <<stopped, letgo, released, finished, homed>>

AskLetGo ==
    /\ ~homed
    /\ letgo' = TRUE
    /\ UNCHANGED <<fingers, underway, stopped, released, finished, homed>>

Stop ==
    /\ ~homed
    /\ stopped' = TRUE
    /\ UNCHANGED <<fingers, underway, letgo, released, finished, homed>>

\* Several halts may let go; one success is enough.
LetGo ==
    /\ stopped /\ letgo /\ ~homed
    /\ underway = NoGrip
    /\ \/ fingers' = Open /\ released' = "done"
       \/ fingers' \in {fingers, Open} /\ released' = IF released = "none" THEN "failed" ELSE released
    /\ UNCHANGED <<underway, stopped, letgo, finished, homed>>

Finish ==
    /\ ~finished /\ ~homed
    /\ underway = NoGrip
    /\ finished' = TRUE
    /\ UNCHANGED <<fingers, underway, stopped, letgo, released, homed>>

Home ==
    /\ stopped /\ ~homed
    /\ underway = NoGrip
    /\ letgo => released # "none"
    /\ homed' = TRUE
    /\ fingers' \in Grips
    /\ released' = "none"
    /\ UNCHANGED <<underway, stopped, letgo, finished>>

\* The next episode.
Begin ==
    /\ homed
    /\ stopped' = FALSE /\ letgo' = FALSE /\ finished' = FALSE /\ homed' = FALSE
    /\ UNCHANGED <<fingers, underway, released>>

Next ==
    \/ \E g \in Grips : StartMove(g)
    \/ EndMove \/ AskLetGo \/ Stop \/ LetGo \/ Finish \/ Home \/ Begin

Spec == Init /\ [][Next]_vars
=============================================================================
