----------------------------- MODULE EpisodeMove -----------------------------
(***************************************************************************)
(* What the offload of a session promises for each of its episodes: a move *)
(* that never leaves the episode without a whole copy where it is looked   *)
(* for.  The copy on the drive appears before the one in staging goes, and *)
(* once it is on the drive it stays there.                                 *)
(***************************************************************************)
CONSTANT Episodes

VARIABLE holders      \* holders[e]: the places that hold episode e whole

Init == holders = [e \in Episodes |-> {"staging"}]

Arrive(e) ==
    /\ "drive" \notin holders[e]
    /\ holders' = [holders EXCEPT ![e] = @ \cup {"drive"}]

Leave(e) ==
    /\ holders[e] = {"staging", "drive"}
    /\ holders' = [holders EXCEPT ![e] = {"drive"}]

Next == \E e \in Episodes : Arrive(e) \/ Leave(e)

Spec == Init /\ [][Next]_holders
=============================================================================
