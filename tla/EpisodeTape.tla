----------------------------- MODULE EpisodeTape -----------------------------
(***************************************************************************)
(* What the recorder promises for the tape of an episode.  One is open at  *)
(* a time.  Channel by channel it holds the rows from the begin of the     *)
(* episode up to some row, without a hole, and grows at that end only.  It *)
(* is closed only after a stop, with every row that had been published by  *)
(* the time of that stop, and after that it does not change.  A channel    *)
(* that lost rows or whose arrays were torn is excepted for that episode.  *)
(***************************************************************************)
EXTENDS Integers

CONSTANTS Takes, NoTake, Channels

VARIABLES published,  \* published[c]: rows of channel c so far
          open,       \* the episode whose tape is open, or NoTake
          stopping,   \* a stop has been asked for
          status,     \* status[e]: what the disk says of e
          from,       \* from[e][c]: the first row that belongs to e
          upto,       \* upto[e][c]: the tape has the rows before that one
          due,        \* due[e][c]: published when the last stop was asked for
          lost        \* lost[e]: the channels that are excepted

vars == <<published, open, stopping, status, from, upto, due, lost>>

Nowhere == [c \in Channels |-> 0]

Init ==
    /\ published = Nowhere
    /\ open = NoTake
    /\ stopping = FALSE
    /\ status = [e \in Takes |-> "none"]
    /\ from = [e \in Takes |-> Nowhere]
    /\ upto = [e \in Takes |-> Nowhere]
    /\ due = [e \in Takes |-> Nowhere]
    /\ lost = [e \in Takes |-> {}]

Publish(c) ==
    /\ published' = [published EXCEPT ![c] = @ + 1]
    /\ UNCHANGED <<open, stopping, status, from, upto, due, lost>>

Begin(e) ==
    /\ open = NoTake
    /\ status[e] = "none"
    /\ open' = e
    /\ status' = [status EXCEPT ![e] = "recording"]
    /\ from' = [from EXCEPT ![e] = published]
    /\ upto' = [upto EXCEPT ![e] = published]
    /\ UNCHANGED <<published, stopping, due, lost>>

Copy(c) ==
    /\ open # NoTake
    /\ c \notin lost[open]
    /\ \E n \in upto[open][c] .. published[c] :
          upto' = [upto EXCEPT ![open][c] = n]
    /\ UNCHANGED <<published, open, stopping, status, from, due, lost>>

\* Channel c is not vouched for any more.
Loses(c) ==
    /\ lost' = [lost EXCEPT ![open] = @ \cup {c}]
    /\ upto' = [upto EXCEPT ![open][c] = 0]

Lose(c) ==
    /\ open # NoTake
    /\ Loses(c)
    /\ UNCHANGED <<published, open, stopping, status, from, due>>

AskStop ==
    /\ open # NoTake
    /\ stopping' = TRUE
    /\ due' = [due EXCEPT ![open] = published]
    /\ UNCHANGED <<published, open, status, from, upto, lost>>

\* The stop fails, and can be asked for again.
StopFails ==
    /\ stopping
    /\ stopping' = FALSE
    /\ UNCHANGED <<upto, lost>> \/ \E c \in Channels : Loses(c)
    /\ UNCHANGED <<published, open, status, from, due>>

\* What is due is on the tape.  That it is closed may not get to the disk.
Close ==
    /\ stopping
    /\ \A c \in Channels \ lost[open] : due[open][c] <= upto[open][c]
    /\ \E s \in {"finalized", "aborted", "recording"} :
          status' = [status EXCEPT ![open] = s]
    /\ open' = NoTake
    /\ stopping' = FALSE
    /\ UNCHANGED <<published, from, upto, due, lost>>

Next ==
    \/ \E c \in Channels : Publish(c) \/ Copy(c) \/ Lose(c)
    \/ \E e \in Takes : Begin(e)
    \/ AskStop \/ StopFails \/ Close

Spec == Init /\ [][Next]_vars
=============================================================================
