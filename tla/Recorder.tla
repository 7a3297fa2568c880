------------------------------ MODULE Recorder ------------------------------
(***************************************************************************)
(* phantom/recording/recorder.py: EpisodeRecorder, and the EpisodeWriter   *)
(* of phantom/data/episode_store.py it appends with.  The drain thread     *)
(* copies the rows of the rings and the recorded actions to the disk on an *)
(* interval; stop() waits for it, flushes once more and closes the         *)
(* episode.  Rows are numbered per channel, and what one drain copies is a *)
(* batch [lo, hi): the rows lo, ..., hi - 1.  How a ring hands out rows is *)
(* in RingBuffer.                                                          *)
(*                                                                         *)
(* A write can fail at any append, before, between or after the two arrays *)
(* of a stream.                                                            *)
(***************************************************************************)
EXTENDS Integers, Sequences

CONSTANTS Streams,   \* the (ring, field) pairs that are recorded
          Actions,   \* the channel of the recorded actions
          Takes,     \* the episodes
          NoTake,
          Capacity,  \* rows a ring holds
          MaxRows    \* bound: rows of a channel

ASSUME RecorderAssumption ==
    /\ Actions \notin Streams
    /\ NoTake \notin Takes
    /\ Capacity \in Nat \ {0}
    /\ MaxRows \in Nat

Channels == Streams \cup {Actions}
Flushers == {"drain", "final"}   \* who runs _drain_once: the thread, or stop()
Batch    == [lo : Nat, hi : Nat]
Closed   == {"finalized", "aborted"}

VARIABLES
    index,   \* index[c]: rows published (write_index), actions recorded
    cursor,  \* cursor[c]: _cursors; for the actions, the first one in the buffer
    writer,  \* the episode of _writer
    stop,    \* the _stop event
    alive,   \* the drain thread is alive
    owner,   \* where the caller of start and stop is
    at,      \* at[f]: where flusher f is in _drain_once,
    todo,    \* todo[f]: the channels it has still to do,
    into,    \* into[f]: the writer it took,
    chan,    \* chan[f], batch[f]: what it has read and is about to append
    batch,
    status,  \* status[e]: in the meta.json of e
    data,    \* data[e][c], stamps[e][c]: the batches in the arrays of e
    stamps,
    mark,    \* history: mark[e] is index when e was started,
    owed,    \* owed[e]: index when stop() was last called for e
    torn,    \* history: channels an append to which failed halfway,
    gap      \* and channels that lost rows

rows   == <<index, cursor>>
flush  == <<at, todo, into, chan, batch>>
tape   == <<data, stamps, torn, gap>>
marks  == <<mark, owed>>
vars   == <<rows, writer, stop, alive, owner, flush, status, tape, marks>>

NoRows  == [lo |-> 0, hi |-> 0]
Nowhere == [c \in Channels |-> 0]

Init ==
    /\ index = Nowhere
    /\ cursor = Nowhere
    /\ writer = NoTake
    /\ stop = FALSE
    /\ alive = FALSE
    /\ owner = "idle"
    /\ at = [f \in Flushers |-> "off"]
    /\ todo = [f \in Flushers |-> {}]
    /\ into = [f \in Flushers |-> NoTake]
    /\ chan = [f \in Flushers |-> Actions]
    /\ batch = [f \in Flushers |-> NoRows]
    /\ status = [e \in Takes |-> "none"]
    /\ data = [e \in Takes |-> [c \in Channels |-> <<>>]]
    /\ stamps = [e \in Takes |-> [c \in Channels |-> <<>>]]
    /\ mark = [e \in Takes |-> Nowhere]
    /\ owed = [e \in Takes |-> Nowhere]
    /\ torn = [e \in Takes |-> {}]
    /\ gap = [e \in Takes |-> {}]

-----------------------------------------------------------------------------
\* A worker pushes a row, or record_action is called: at any time.
Publish(c) ==
    /\ index[c] < MaxRows
    /\ index' = [index EXCEPT ![c] = @ + 1]
    /\ UNCHANGED <<cursor, writer, stop, alive, owner, flush, status, tape, marks>>

StartFromOldest(e) ==  \* mutant: the actions in the buffer are kept
    /\ owner = "idle"
    /\ writer = NoTake
    /\ ~alive
    /\ status[e] = "none"
    /\ status' = [status EXCEPT ![e] = "recording"]
    /\ writer' = e
    /\ cursor' = [index EXCEPT ![Actions] = cursor[Actions]]
    /\ mark' = [mark EXCEPT ![e] = index]
    /\ stop' = FALSE
    /\ alive' = TRUE
    /\ UNCHANGED <<index, owner, flush, tape, owed>>

\* start: an episode of a new name; what is in the rings and in the action
\* buffer belongs to nobody.
Start(e) ==
    /\ owner = "idle"
    /\ writer = NoTake
    /\ ~alive
    /\ status[e] = "none"
    /\ status' = [status EXCEPT ![e] = "recording"]
    /\ writer' = e
    /\ cursor' = index
    /\ mark' = [mark EXCEPT ![e] = index]
    /\ stop' = FALSE
    /\ alive' = TRUE
    /\ UNCHANGED <<index, owner, flush, tape, owed>>

\* stop: with no writer it returns at once.
Stop ==
    /\ owner = "idle"
    /\ writer # NoTake
    /\ stop' = TRUE
    /\ owed' = [owed EXCEPT ![writer] = index]
    /\ owner' = "join"
    /\ UNCHANGED <<rows, writer, alive, flush, status, tape, mark>>

-----------------------------------------------------------------------------
(* _drain_once.                                                            *)

EnterPass(f) ==
    /\ at' = [at EXCEPT ![f] = "next"]
    /\ todo' = [todo EXCEPT ![f] = Channels]
    /\ into' = [into EXCEPT ![f] = writer]
    /\ UNCHANGED <<chan, batch>>

JoinTimesOut ==        \* mutant: the join of the drain thread is timed
    /\ owner = "join"
    /\ EnterPass("final")
    /\ owner' = "flush"
    /\ UNCHANGED <<rows, writer, stop, alive, status, tape, marks>>

\* stop() goes on when the drain thread is really dead.
Joined ==
    /\ owner = "join"
    /\ ~alive
    /\ EnterPass("final")
    /\ owner' = "flush"
    /\ UNCHANGED <<rows, writer, stop, alive, status, tape, marks>>

DrainForever ==        \* mutant: the loop does not look at the event
    /\ alive
    /\ at["drain"] = "off"
    /\ EnterPass("drain")
    /\ UNCHANGED <<rows, writer, stop, alive, owner, status, tape, marks>>

\* The interval of the drain loop is over.
DrainAgain ==
    /\ alive
    /\ at["drain"] = "off"
    /\ ~stop
    /\ EnterPass("drain")
    /\ UNCHANGED <<rows, writer, stop, alive, owner, status, tape, marks>>

DrainEnds ==
    /\ alive
    /\ at["drain"] = "off"
    /\ stop
    /\ alive' = FALSE
    /\ UNCHANGED <<rows, writer, stop, owner, flush, status, tape, marks>>

\* The rows since the cursor that the ring still holds.
Oldest(c) ==
    IF index[c] - cursor[c] > Capacity THEN index[c] - Capacity ELSE cursor[c]

\* ring.drain: rows that were overwritten since the last drain are lost.
ReadStream(f, c) ==
    /\ at[f] = "next"
    /\ c \in todo[f] \cap Streams
    /\ todo' = [todo EXCEPT ![f] = @ \ {c}]
    /\ chan' = [chan EXCEPT ![f] = c]
    /\ batch' = [batch EXCEPT ![f] = [lo |-> Oldest(c), hi |-> index[c]]]
    /\ gap' = IF Oldest(c) > cursor[c] THEN [gap EXCEPT ![into[f]] = @ \cup {c}] ELSE gap
    /\ at' = [at EXCEPT ![f] = "append"]
    /\ UNCHANGED <<rows, writer, stop, alive, owner, into, status, data, stamps, torn, marks>>

\* The action buffer is swapped for an empty one, after the rings.
SwapActions(f) ==
    /\ at[f] = "next"
    /\ todo[f] = {Actions}
    /\ todo' = [todo EXCEPT ![f] = {}]
    /\ chan' = [chan EXCEPT ![f] = Actions]
    /\ batch' = [batch EXCEPT ![f] = [lo |-> cursor[Actions], hi |-> index[Actions]]]
    /\ cursor' = [cursor EXCEPT ![Actions] = index[Actions]]
    /\ at' = [at EXCEPT ![f] = "append"]
    /\ UNCHANGED <<index, writer, stop, alive, owner, into, status, tape, marks>>

\* The rows of a tape are a sequence of runs; a batch that begins where the
\* last run ends lengthens it.
Extended(q, b) ==
    IF q # <<>> /\ q[Len(q)].hi = b.lo
    THEN [q EXCEPT ![Len(q)].hi = b.hi]
    ELSE Append(q, b)

\* Both arrays of the stream grow by the batch.  Those of a torn stream are not
\* told apart any more.
Longer(arrays, f) == [arrays EXCEPT ![into[f]][chan[f]] = Extended(@, batch[f])]
Grow(f) ==
    IF batch[f].lo = batch[f].hi \/ chan[f] \in torn[into[f]]
    THEN UNCHANGED <<data, stamps>>
    ELSE data' = Longer(data, f) /\ stamps' = Longer(stamps, f)

\* The cursor of a ring moves to where the drain ended, after the append.
Advance(f) ==
    cursor' = IF chan[f] = Actions THEN cursor
              ELSE [cursor EXCEPT ![chan[f]] = batch[f].hi]

AdvanceToIndex(f) ==   \* mutant: the cursor moves to the present write_index
    cursor' = IF chan[f] = Actions THEN cursor
              ELSE [cursor EXCEPT ![chan[f]] = index[chan[f]]]

Appended(f) ==
    /\ at[f] = "append"
    /\ at' = [at EXCEPT ![f] = "next"]
    /\ Grow(f)
    /\ batch' = [batch EXCEPT ![f] = NoRows]
    /\ UNCHANGED <<index, writer, stop, alive, owner, todo, into, chan, status,
                   torn, gap, marks>>

AppendSkipsRows(f) ==  \* mutant: rows pushed during the append are passed over
    Appended(f) /\ AdvanceToIndex(f)

AppendBatch(f) == Appended(f) /\ Advance(f)

\* The pass ends: the drain thread goes back to its interval, stop() to close.
Leave(f, next) ==
    /\ at' = [at EXCEPT ![f] = "off"]
    /\ todo' = [todo EXCEPT ![f] = {}]
    /\ into' = [into EXCEPT ![f] = NoTake]
    /\ chan' = [chan EXCEPT ![f] = Actions]
    /\ batch' = [batch EXCEPT ![f] = NoRows]
    /\ owner' = IF f = "final" THEN next ELSE owner

Tear(f) ==
    /\ torn' = [torn EXCEPT ![into[f]] = @ \cup {chan[f]}]
    /\ data' = [data EXCEPT ![into[f]][chan[f]] = <<>>]
    /\ stamps' = [stamps EXCEPT ![into[f]][chan[f]] = <<>>]

\* The append raises: either array may have grown, the cursor of a ring stays
\* where it was, and the actions were swapped out already.  The drain thread
\* logs it; out of stop() it goes to the caller, and the writer stays.
AppendFails(f) ==
    /\ at[f] = "append"
    /\ batch[f].lo # batch[f].hi
    /\ UNCHANGED <<data, stamps, torn>> \/ Tear(f)
    /\ gap' = IF chan[f] = Actions THEN [gap EXCEPT ![into[f]] = @ \cup {Actions}] ELSE gap
    /\ Leave(f, "idle")
    /\ UNCHANGED <<rows, writer, stop, alive, status, marks>>

EndPass(f) ==
    /\ at[f] = "next"
    /\ todo[f] = {}
    /\ Leave(f, "close")
    /\ UNCHANGED <<rows, writer, stop, alive, status, tape, marks>>

FlushFailureIgnored == \* mutant: stop() closes the episode whatever the flush did
    /\ owner = "idle"
    /\ stop
    /\ writer # NoTake
    /\ writer' = NoTake
    /\ status' = [status EXCEPT ![writer] = "finalized"]
    /\ UNCHANGED <<rows, stop, alive, owner, flush, tape, marks>>

\* The writer is let go, then meta.json is written, or cannot be.
Close ==
    /\ owner = "close"
    /\ \E s \in Closed \cup {"recording"} : status' = [status EXCEPT ![writer] = s]
    /\ writer' = NoTake
    /\ owner' = "idle"
    /\ UNCHANGED <<rows, stop, alive, flush, tape, marks>>

-----------------------------------------------------------------------------
Flush(f) ==
    \/ \E c \in Streams : ReadStream(f, c)
    \/ SwapActions(f) \/ AppendBatch(f) \/ AppendFails(f) \/ EndPass(f)

DrainThread == DrainAgain \/ DrainEnds \/ Flush("drain")
StopCall    == Joined \/ Flush("final") \/ Close

Next ==
    \/ \E c \in Channels : Publish(c)
    \/ \E e \in Takes : Start(e)
    \/ Stop \/ StopCall \/ DrainThread

Spec == Init /\ [][Next]_vars

\* The drain thread and a stop() that has been called are scheduled.
FairSpec == Spec /\ WF_vars(DrainThread) /\ WF_vars(StopCall)

-----------------------------------------------------------------------------
(* Properties.                                                             *)

TypeOK ==
    /\ index \in [Channels -> Nat]
    /\ cursor \in [Channels -> Nat]
    /\ writer \in Takes \cup {NoTake}
    /\ stop \in BOOLEAN /\ alive \in BOOLEAN
    /\ owner \in {"idle", "join", "flush", "close"}
    /\ at \in [Flushers -> {"off", "next", "append"}]
    /\ todo \in [Flushers -> SUBSET Channels]
    /\ into \in [Flushers -> Takes \cup {NoTake}]
    /\ chan \in [Flushers -> Channels]
    /\ batch \in [Flushers -> Batch]
    /\ status \in [Takes -> Closed \cup {"none", "recording"}]
    /\ data \in [Takes -> [Channels -> Seq(Batch)]]
    /\ stamps \in [Takes -> [Channels -> Seq(Batch)]]
    /\ mark \in [Takes -> [Channels -> Nat]]
    /\ owed \in [Takes -> [Channels -> Nat]]
    /\ torn \in [Takes -> SUBSET Channels]
    /\ gap \in [Takes -> SUBSET Channels]

\* The rows of a tape, in order, and where it ends.
Ordered(q)  == \A i, j \in 1 .. Len(q) : i < j => q[i].hi <= q[j].lo
Runs(q)     == \A i \in 1 .. Len(q) : q[i].lo < q[i].hi
End(q, from) == IF q = <<>> THEN from ELSE q[Len(q)].hi
Gapless(q, from) ==
    /\ q # <<>> => q[1].lo = from
    /\ \A i \in 1 .. Len(q) - 1 : q[i].hi = q[i + 1].lo

\* As long as no append to a stream has failed halfway, each of its rows has
\* its own timestamp, none is there twice or out of order, and none is from
\* before the episode.
TapeAligned ==
    \A e \in Takes : \A c \in Channels \ torn[e] :
        /\ data[e][c] = stamps[e][c]
        /\ Ordered(data[e][c]) /\ Runs(data[e][c])
        /\ data[e][c] # <<>> => data[e][c][1].lo >= mark[e][c]

\* Nothing is missing either, unless the ring was overrun between two drains
\* or the actions of a failed drain were dropped.
TapeGapless ==
    \A e \in Takes, c \in Channels :
        c \notin torn[e] \cup gap[e] => Gapless(data[e][c], mark[e][c])

\* A finalized episode has every row that was published before stop() was
\* called.
FinalizedComplete ==
    \A e \in Takes, c \in Channels :
        status[e] = "finalized" /\ c \notin torn[e] \cup gap[e] =>
            End(data[e][c], mark[e][c]) >= owed[e][c]

\* The thread and the final flush never append at once.
OneFlusher == at["drain"] = "off" \/ at["final"] = "off"

\* A closed episode is not appended to, by nobody.
ClosedStays ==
    [][\A e \in Takes : status[e] \in Closed =>
          data'[e] = data[e] /\ stamps'[e] = stamps[e] /\ status'[e] = status[e]]_vars

\* The recorder keeps the promise of EpisodeTape for every episode: what a
\* tape is said to hold is what its arrays hold, unless its channel was torn or
\* lost rows.
Lost     == [e \in Takes |-> torn[e] \cup gap[e]]
Upto     == [e \in Takes |-> [c \in Channels |->
                IF c \in Lost[e] THEN 0 ELSE End(data[e][c], mark[e][c])]]
Stopping == owner # "idle"
Tape == INSTANCE EpisodeTape WITH
            published <- index, open <- writer, stopping <- Stopping,
            from <- mark, upto <- Upto, due <- owed, lost <- Lost
ImplementsTape == Tape!Spec

\* stop() returns, or raises, even if every append fails.
StopReturns == owner # "idle" ~> owner = "idle"

-----------------------------------------------------------------------------
(* The inductive invariant.                                                *)

\* Who runs, and into which episode: the drain thread, then the final flush,
\* then the close, all into the episode that is open.
FlushControl ==
    /\ owner # "idle" => stop /\ writer # NoTake
    /\ owner \in {"flush", "close"} => ~alive
    /\ alive => writer # NoTake
    /\ at["drain"] # "off" => alive
    /\ at["final"] # "off" => owner = "flush"
    /\ writer # NoTake => status[writer] = "recording"
    /\ \A f \in Flushers : at[f] # "off" => into[f] = writer

\* A batch that is about to be appended begins at the cursor, or rows were
\* lost; the one of the actions ends there.
BatchRead ==
    \A f \in Flushers : at[f] = "append" =>
        /\ chan[f] \notin todo[f]
        /\ batch[f].lo <= batch[f].hi
        /\ chan[f] = Actions => todo[f] = {} /\ batch[f].hi = cursor[Actions]
        /\ chan[f] # Actions =>
              /\ cursor[chan[f]] <= batch[f].lo /\ batch[f].hi <= index[chan[f]]
              /\ batch[f].lo # cursor[chan[f]] =>
                    chan[f] \in gap[writer] /\ batch[f].lo < batch[f].hi

\* How far channel c has been dealt with: actions that were swapped out and
\* are not appended yet are still to come.
SwappedOut(f) == at[f] = "append" /\ chan[f] = Actions
Reached(c) ==
    IF c = Actions /\ SwappedOut("drain") THEN batch["drain"].lo
    ELSE IF c = Actions /\ SwappedOut("final") THEN batch["final"].lo
    ELSE cursor[c]

\* The tape of the open episode ends where its channel has got to.
TapeReaches ==
    writer # NoTake => \A c \in Channels :
        /\ mark[writer][c] <= Reached(c)
        /\ c \notin torn[writer] => End(data[writer][c], mark[writer][c]) <= Reached(c)
        /\ c \notin torn[writer] \cup gap[writer] =>
              End(data[writer][c], mark[writer][c]) = Reached(c)

\* An episode that was not started has no tape.
BlankTape ==
    \A e \in Takes : status[e] = "none" =>
        /\ \A c \in Channels : data[e][c] = <<>> /\ stamps[e][c] = <<>>
        /\ torn[e] = {} /\ gap[e] = {}

\* What the final flush has been over, it has got as far as stop() owes.
Delivered(c) ==
    IF at["final"] = "append" /\ chan["final"] = c THEN batch["final"].hi ELSE cursor[c]
FlushDelivers ==
    /\ \A c \in Channels : cursor[c] <= index[c]
    /\ owner # "idle" => \A c \in Channels : owed[writer][c] <= index[c]
    /\ owner = "flush" => \A c \in Channels \ todo["final"] : owed[writer][c] <= Delivered(c)
    /\ owner = "flush" => at["final"] # "off"
    /\ owner = "close" => \A c \in Channels : owed[writer][c] <= cursor[c]

RecorderInv ==
    /\ FlushControl
    /\ BatchRead
    /\ TapeReaches
    /\ BlankTape
    /\ FlushDelivers
    /\ TapeAligned
    /\ TapeGapless
    /\ FinalizedComplete
=============================================================================
