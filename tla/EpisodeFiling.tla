---------------------------- MODULE EpisodeFiling ----------------------------
(***************************************************************************)
(* What collecting promises about the files of the episodes: one take at a *)
(* time is on the desk, it is taped, then judged or put away, and what has *)
(* been filed stays as it was filed.  A take can also be dropped from the  *)
(* desk as it is, when its file could not be written.                      *)
(***************************************************************************)
CONSTANTS Episodes, NoEpisode

VARIABLES file,   \* file[e]: what the disk says of e
          desk    \* the take in hand, or NoEpisode

Filed  == {"success", "failure", "aborted", "unlabeled", "gone"}

Init ==
    /\ file = [e \in Episodes |-> "none"]
    /\ desk = NoEpisode

Begin(e) ==
    /\ desk = NoEpisode
    /\ file[e] = "none"
    /\ file' = [file EXCEPT ![e] = "recording"]
    /\ desk' = e

AwaitVerdict ==
    /\ desk # NoEpisode
    /\ file[desk] = "recording"
    /\ file' = [file EXCEPT ![desk] = "unjudged"]
    /\ UNCHANGED desk

FileTake ==
    /\ desk # NoEpisode
    /\ file[desk] \notin Filed
    /\ \E f \in Filed : file' = [file EXCEPT ![desk] = f]
    /\ desk' = NoEpisode

Drop ==
    /\ desk # NoEpisode
    /\ desk' = NoEpisode
    /\ UNCHANGED file

Next == (\E e \in Episodes : Begin(e)) \/ AwaitVerdict \/ FileTake \/ Drop

Spec == Init /\ [][Next]_<<file, desk>>
=============================================================================
