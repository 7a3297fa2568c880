------------------------------- MODULE Offload -------------------------------
(***************************************************************************)
(* phantom/data_collect/offload.py: offload_session, which moves the       *)
(* episodes of a session from local staging to the external drive.  Each   *)
(* change of a file or a directory is a step, so the call can end between  *)
(* any two of them, by an exception or with the process that made it,      *)
(* and be made again on what it left behind.                               *)
(*                                                                         *)
(* A directory is the set of what is whole in it, with Dir for the         *)
(* directory itself; {} is one that does not exist.                        *)
(***************************************************************************)
CONSTANTS Episodes,   \* the ep_* directories of the session
          Files,      \* the files of an episode
          Dir,        \* the directory of an episode itself
          KeepLocal   \* storage.keep_local

ASSUME OffloadAssumption ==
    /\ Dir \notin Files
    /\ KeepLocal \in BOOLEAN

Whole       == Files \cup {Dir}
Directories == {d \in SUBSET Whole : d # {} => Dir \in d}
Steps       == {"idle", "next", "prepare", "copy", "verify", "replace", "clear"}

VARIABLES
    staging, \* staging[e]: the local directory of episode e
    part,    \* part[e]: its .part on the drive
    dst,     \* dst[e]: its directory on the drive
    aside,   \* aside[e]: the directories set aside as .mismatch-*
    pc,      \* where the call is, and
    todo,    \* its locals: the episodes it has not reached,
    ep,      \* the one it is at,
    left,    \* the files copytree has still to copy,
    moved    \* result.moved

drive == <<part, dst, aside>>
call  == <<pc, todo, ep, left, moved>>
vars  == <<staging, drive, call>>

\* A session was recorded; an attempt of before .part existed may have left
\* an unfinished directory on the drive.
Init ==
    /\ staging = [e \in Episodes |-> Whole]
    /\ part = [e \in Episodes |-> {}]
    /\ dst \in [Episodes -> Directories \ {Whole}]
    /\ aside = [e \in Episodes |-> {}]
    /\ pc = "idle"
    /\ todo = {}
    /\ ep \in Episodes
    /\ left = {}
    /\ moved = {}

Goto(step) == pc' = step

\* rmtree removes what is in a directory before the directory.
Removable(d) == {f \in d : f = Dir => d = {Dir}}

-----------------------------------------------------------------------------
\* offload_session is called; it refuses a drive that is missing, full or the
\* local disk, which changes nothing.
Start ==
    /\ pc = "idle"
    /\ todo' = {e \in Episodes : staging[e] # {}}
    /\ todo' # {}
    /\ moved' = {}
    /\ Goto("next")
    /\ UNCHANGED <<staging, drive, ep, left>>

NextEpisode ==
    /\ pc = "next"
    /\ \E e \in todo :
          /\ ep' = e
          /\ todo' = todo \ {e}
    /\ Goto("prepare")
    /\ UNCHANGED <<staging, drive, left, moved>>

Finished ==
    /\ pc = "next"
    /\ todo = {}
    /\ Goto("idle")
    /\ UNCHANGED <<staging, drive, todo, ep, left, moved>>

PassOver ==            \* mutant: an episode with a stale .part is left for later
    /\ pc = "prepare"
    /\ part[ep] # {}
    /\ Goto("next")
    /\ UNCHANGED <<staging, drive, todo, ep, left, moved>>

\* A stale .part is removed.
RemoveStale ==
    /\ pc = "prepare"
    /\ \E f \in Removable(part[ep]) : part' = [part EXCEPT ![ep] = @ \ {f}]
    /\ UNCHANGED <<staging, dst, aside, call>>

BlindDelete ==         \* mutant: what is on the drive makes way for the new copy
    /\ pc = "prepare"
    /\ part[ep] = {}
    /\ dst[ep] # {}
    /\ dst' = [dst EXCEPT ![ep] = {}]
    /\ UNCHANGED <<staging, part, aside, call>>

\* An existing copy that does not mirror the local episode is kept for review.
SetAside ==
    /\ pc = "prepare"
    /\ part[ep] = {}
    /\ dst[ep] # {}
    /\ ~(staging[ep] \subseteq dst[ep])
    /\ aside' = [aside EXCEPT ![ep] = @ \cup {dst[ep]}]
    /\ dst' = [dst EXCEPT ![ep] = {}]
    /\ UNCHANGED <<staging, part, call>>

\* After the episode is on the drive its local directory goes, or stays.
Moved ==
    /\ moved' = moved \cup {ep}
    /\ Goto(IF KeepLocal THEN "next" ELSE "clear")

\* The copy on the drive has all that is left of the local one: an earlier
\* move was interrupted, and is finished.
AlreadyThere ==
    /\ pc = "prepare"
    /\ part[ep] = {}
    /\ dst[ep] # {}
    /\ staging[ep] \subseteq dst[ep]
    /\ Moved
    /\ UNCHANGED <<staging, drive, todo, ep, left>>

\* copytree: the directory, then one file after the other.
BeginCopy ==
    /\ pc = "prepare"
    /\ part[ep] = {}
    /\ dst[ep] = {}
    /\ part' = [part EXCEPT ![ep] = {Dir}]
    /\ left' = staging[ep] \ {Dir}
    /\ Goto("copy")
    /\ UNCHANGED <<staging, dst, aside, todo, ep, moved>>

\* A file may arrive short.
CopyFile ==
    /\ pc = "copy"
    /\ \E f \in left :
          /\ left' = left \ {f}
          /\ part' \in {part, [part EXCEPT ![ep] = @ \cup {f}]}
    /\ UNCHANGED <<staging, dst, aside, pc, todo, ep, moved>>

\* rmtree(part, ignore_errors) may leave some of it; the call returns.
GiveUp ==
    /\ \E rest \in Directories :
          /\ rest \subseteq part[ep]
          /\ part' = [part EXCEPT ![ep] = rest]
    /\ left' = {}
    /\ Goto("idle")
    /\ UNCHANGED <<staging, dst, aside, todo, ep, moved>>

CopyFails ==
    /\ pc = "copy"
    /\ left # {}
    /\ GiveUp

\* _flush_to_disk writes the page cache back, which changes no file.
Flush ==
    /\ pc = "copy"
    /\ left = {}
    /\ Goto("verify")
    /\ UNCHANGED <<staging, drive, todo, ep, left, moved>>

VerifyNothing ==       \* mutant: the copy is not compared with the episode
    /\ pc = "verify"
    /\ Goto("replace")
    /\ UNCHANGED <<staging, drive, todo, ep, left, moved>>

VerifyMatches ==
    /\ pc = "verify"
    /\ part[ep] = staging[ep]
    /\ Goto("replace")
    /\ UNCHANGED <<staging, drive, todo, ep, left, moved>>

VerifyFails ==
    /\ pc = "verify"
    /\ part[ep] # staging[ep]
    /\ GiveUp

\* os.replace(part, dst), atomic on the drive.
Replace ==
    /\ pc = "replace"
    /\ dst' = [dst EXCEPT ![ep] = part[ep]]
    /\ part' = [part EXCEPT ![ep] = {}]
    /\ Moved
    /\ UNCHANGED <<staging, aside, todo, ep, left>>

ClearLocal ==
    /\ pc = "clear"
    /\ \E f \in Removable(staging[ep]) : staging' = [staging EXCEPT ![ep] = @ \ {f}]
    /\ UNCHANGED <<drive, call>>

Cleared ==
    /\ pc = "clear"
    /\ staging[ep] = {}
    /\ Goto("next")
    /\ UNCHANGED <<staging, drive, todo, ep, left, moved>>

-----------------------------------------------------------------------------
\* The call ends where it is: an exception of the file system, or the end of
\* the process.  It is made again later.
Interrupted ==
    /\ pc # "idle"
    /\ left' = {}
    /\ Goto("idle")
    /\ UNCHANGED <<staging, drive, todo, ep, moved>>

OffloadSession ==
    \/ Start \/ NextEpisode \/ Finished \/ RemoveStale \/ SetAside \/ AlreadyThere
    \/ BeginCopy \/ CopyFile \/ CopyFails \/ Flush \/ VerifyMatches \/ VerifyFails
    \/ Replace \/ ClearLocal \/ Cleared

Next == OffloadSession \/ Interrupted

Spec == Init /\ [][Next]_vars

\* A call that has begun goes on.  Nobody is obliged to make one.
Running == pc # "idle" /\ OffloadSession
FairSpec == Spec /\ WF_vars(Running)

-----------------------------------------------------------------------------
(* Properties.                                                             *)

\* The types of the two disks and of the call.
TypeOK ==
    /\ staging \in [Episodes -> Directories]
    /\ part \in [Episodes -> Directories]
    /\ dst \in [Episodes -> Directories]
    /\ aside \in [Episodes -> SUBSET Directories]
    /\ pc \in Steps
    /\ todo \subseteq Episodes
    /\ ep \in Episodes
    /\ left \subseteq Files
    /\ moved \subseteq Episodes

\* Wherever the call ends, and however often it is made again, an episode is
\* whole in staging or in its place on the drive.
EpisodeKept == \A e \in Episodes : staging[e] = Whole \/ dst[e] = Whole

\* An episode reported as moved is whole on the drive: a truncated local
\* directory or a short copy is never filed as the episode.
MovedIsWhole == \A e \in moved : dst[e] = Whole

\* The offload is a move: an episode arrives on the drive, then leaves
\* staging, and never leaves the drive again.
Holders == [e \in Episodes |->
               {p \in {"staging", "drive"} :
                   (IF p = "staging" THEN staging[e] ELSE dst[e]) = Whole}]

Move == INSTANCE EpisodeMove WITH holders <- Holders

ImplementsMove == Move!Spec

\* Whatever earlier attempts have left on the two disks, an operator who keeps
\* retrying gets every episode moved once the attempts stop failing.  (The end
\* of a call that had nothing left to do is not a failure of it.)
Failure == (Interrupted /\ ~Finished) \/ CopyFails \/ VerifyFails
AllMoved == \A e \in Episodes : dst[e] = Whole /\ (KeepLocal \/ staging[e] = {})
RetrySucceeds == WF_vars(Start) /\ <>[][~Failure]_vars => <>AllMoved

\* The inductive invariant: what the call has established at each of its steps.
CopyUnderway == pc \in {"copy", "verify", "replace"} => dst[ep] = {} /\ Dir \in part[ep]
CopyVerified == pc = "replace" => part[ep] = staging[ep]
ClearsBacked == pc = "clear" => dst[ep] = Whole

OffloadInv ==
    /\ EpisodeKept
    /\ MovedIsWhole
    /\ CopyUnderway
    /\ CopyVerified
    /\ ClearsBacked
=============================================================================
