----------------------------- MODULE RingBuffer -----------------------------
(***************************************************************************)
(* phantom/recording/ringbuffer.py: SharedRingBuffer, the single-writer,   *)
(* many-reader ring in shared memory between a driver worker and the       *)
(* recorder, the planner and the safety monitor.  There is no lock: the    *)
(* only order is that push stores the fields of a row, then its timestamp, *)
(* then write_index, and that a reader loads write_index first.            *)
(*                                                                         *)
(* A cell holds the number of the push that last stored it.  Every store   *)
(* of a column of a row and every load of one is a step of its own, so the *)
(* writer and the readers interleave inside push, latest and drain.        *)
(***************************************************************************)
EXTENDS Integers

CONSTANTS Readers,     \* the threads and processes that read the ring
          Capacity,    \* rows in the ring
          NumFields,   \* payload fields of a row
          MaxPush      \* bound: rows the writer pushes

ASSUME RingAssumption ==
    /\ Capacity \in Nat \ {0}
    /\ NumFields \in Nat
    /\ MaxPush \in Nat

TS       == 0                      \* the column of timestamps
Columns  == 0 .. NumFields         \* TS and the fields 1 .. NumFields
Slots    == 0 .. (Capacity - 1)
Zeroed   == -1                     \* shared memory nobody has written yet
Row      == Nat \cup {Zeroed}
Cell     == [col : Columns, row : Nat, val : Row]

VARIABLES writeIndex,  \* _idx[0]: rows published
          cell,        \* cell[c][slot]: the column arrays
          written,     \* columns of row writeIndex that push has stored so far
          read,        \* read[r]: the call reader r is in, or its last result
          cursor       \* cursor[r]: the next_seq the reader passes to drain

vars == <<writeIndex, cell, written, read, cursor>>

NoRead == [busy |-> FALSE, drain |-> FALSE, lo |-> 0, hi |-> 0, cols |-> {},
           todo |-> {}, got |-> {}]

Init ==
    /\ writeIndex = 0
    /\ cell = [c \in Columns |-> [i \in Slots |-> Zeroed]]
    /\ written = 0
    /\ read = [r \in Readers |-> NoRead]
    /\ cursor = [r \in Readers |-> 0]

Slot(s) == s % Capacity
Larger(a, b) == IF a > b THEN a ELSE b
Smaller(a, b) == IF a < b THEN a ELSE b

-----------------------------------------------------------------------------
(* The writer: push(ts, **values).                                         *)

\* push stores the fields in turn and the timestamp last.
NextColumn == IF written < NumFields THEN written + 1 ELSE TS

Stored(c) == IF c = TS THEN written > NumFields ELSE c <= written

StoreColumn ==
    /\ writeIndex < MaxPush
    /\ written <= NumFields
    /\ cell' = [cell EXCEPT ![NextColumn][Slot(writeIndex)] = writeIndex]
    /\ written' = written + 1
    /\ UNCHANGED <<writeIndex, read, cursor>>

PublishEarly ==        \* mutant: the index is bumped before the timestamp
    /\ written >= NumFields
    /\ writeIndex' = writeIndex + 1
    /\ written' = 0
    /\ UNCHANGED <<cell, read, cursor>>

PublishRow ==
    /\ written > NumFields
    /\ writeIndex' = writeIndex + 1
    /\ written' = 0
    /\ UNCHANGED <<cell, read, cursor>>

-----------------------------------------------------------------------------
(* A reader: load write_index, then copy the run column by column.         *)

BeginPastIndex(r, drain, lo, cols) ==     \* mutant: the run includes row write_index
    /\ ~read[r].busy
    /\ read' = [read EXCEPT ![r] =
                  [busy |-> TRUE, drain |-> drain, lo |-> lo, hi |-> writeIndex + 1,
                   cols |-> cols, todo |-> cols \X (lo .. writeIndex), got |-> {}]]
    /\ UNCHANGED <<writeIndex, cell, written, cursor>>

Begin(r, drain, lo, cols) ==
    /\ ~read[r].busy
    /\ read' = [read EXCEPT ![r] =
                  [busy |-> TRUE, drain |-> drain, lo |-> lo, hi |-> writeIndex,
                   cols |-> cols, todo |-> cols \X (lo .. (writeIndex - 1)),
                   got |-> {}]]
    /\ UNCHANGED <<writeIndex, cell, written, cursor>>

\* latest(n); window(t0, t1) is latest(capacity) and a filter on its result.
BeginLatest(r) ==
    \E n \in 1 .. (Capacity + 1) :
        Begin(r, FALSE, Larger(0, writeIndex - Smaller(n, Capacity)), Columns)

\* latest_ts() copies no payload; it returns None while the ring is empty.
BeginLatestTs(r) ==
    /\ writeIndex > 0
    /\ Begin(r, FALSE, writeIndex - 1, {TS})

DrainUnclamped(r) ==    \* mutant: a reader that fell behind copies rows twice
    Begin(r, TRUE, cursor[r], Columns)

\* drain(since_seq) with the cursor the previous drain returned.
BeginDrain(r) ==
    Begin(r, TRUE, Larger(cursor[r], writeIndex - Capacity), Columns)

\* _rows copies the timestamps first, then each field, each in row order.
IsNext(p, todo) ==
    \A q \in todo : p[1] < q[1] \/ (p[1] = q[1] /\ p[2] <= q[2])

CopyCell(r) ==
    \E p \in read[r].todo :
        /\ IsNext(p, read[r].todo)
        /\ read' = [read EXCEPT
              ![r].todo = @ \ {p},
              ![r].got = @ \cup {[col |-> p[1], row |-> p[2],
                                  val |-> cell[p[1]][Slot(p[2])]]}]
        /\ UNCHANGED <<writeIndex, cell, written, cursor>>

Return(r) ==
    /\ read[r].busy
    /\ read[r].todo = {}
    /\ read' = [read EXCEPT ![r].busy = FALSE]
    /\ cursor' = [cursor EXCEPT ![r] = IF read[r].drain THEN read[r].hi ELSE @]
    /\ UNCHANGED <<writeIndex, cell, written>>

-----------------------------------------------------------------------------
Writer == StoreColumn \/ PublishRow

Reader(r) == \/ BeginLatest(r) \/ BeginLatestTs(r) \/ BeginDrain(r)
             \/ CopyCell(r) \/ Return(r)

Next == Writer \/ \E r \in Readers : Reader(r)

Spec == Init /\ [][Next]_vars

-----------------------------------------------------------------------------
(* Properties.                                                             *)

Call == [busy : BOOLEAN, drain : BOOLEAN, lo : Nat, hi : Nat,
         cols : SUBSET Columns, todo : SUBSET (Columns \X Nat),
         got : SUBSET Cell]

\* Types of the ring's shared words and of the readers' private state.
TypeOK ==
    /\ writeIndex \in Nat
    /\ cell \in [Columns -> [Slots -> Row]]
    /\ written \in 0 .. (NumFields + 1)
    /\ read \in [Readers -> Call]
    /\ cursor \in [Readers -> Nat]

\* A published row stays complete until push starts to store the row one
\* capacity later, and then it loses its columns one by one to that row only:
\* "the writer bumps write_index AFTER the row is fully written".
PublishedRowsHeld ==
    \A s \in Larger(0, writeIndex - Capacity) .. (writeIndex - 1), c \in Columns :
        cell[c][Slot(s)] =
            IF s = writeIndex - Capacity /\ Stored(c) THEN writeIndex ELSE s

\* Whatever a reader has copied for a row that is younger than the oldest one
\* the ring still holds is that row's own data, in every column, however the
\* copy interleaved with pushes: latest(1) of the safety loop is never torn
\* unless the whole ring was rewritten during the copy.
CopiedRowsWhole ==
    \A r \in Readers : \A t \in read[r].got :
        t.row > writeIndex - Capacity => t.val = t.row

\* A damaged cell is never older than the row asked for, never unwritten
\* memory and never beyond the push in progress: staleness is only ever
\* underestimated by one ring's worth of rows.
DamageIsLater ==
    \A r \in Readers : \A t \in read[r].got : t.row <= t.val /\ t.val <= writeIndex

\* The strengthening that makes the two properties above inductive.
RowInProgress ==
    \A c \in Columns : Stored(c) => cell[c][Slot(writeIndex)] = writeIndex

SlotsOnlyRise ==
    \A c \in Columns, s \in 0 .. (writeIndex - 1) :
        s <= cell[c][Slot(s)] /\ cell[c][Slot(s)] <= writeIndex

\* A call covers a run of published rows, and each of its cells is either
\* still to be copied or copied exactly once.
CallCoversRun(r) ==
    LET call == read[r]
    IN  /\ cursor[r] <= writeIndex
        /\ call.lo <= call.hi /\ call.hi <= writeIndex
        /\ call.hi - call.lo <= Capacity
        /\ call.todo \subseteq call.cols \X (call.lo .. (call.hi - 1))
        /\ \A t \in call.got : <<t.col, t.row>> \in
                                   call.cols \X (call.lo .. (call.hi - 1)) \ call.todo
        /\ \A p \in call.cols \X (call.lo .. (call.hi - 1)) :
               p \notin call.todo => \E t \in call.got : t.col = p[1] /\ t.row = p[2]
        /\ \A t, u \in call.got : t.col = u.col /\ t.row = u.row => t = u
        /\ ~call.busy => call.todo = {}

\* The inductive invariant of RingBuffer_proofs: everything above together.
RingInv ==
    /\ TypeOK
    /\ PublishedRowsHeld
    /\ RowInProgress
    /\ SlotsOnlyRise
    /\ \A r \in Readers : CallCoversRun(r)
    /\ CopiedRowsWhole
    /\ DamageIsLater

\* The ring implements the row log: index load = Open, return = Deliver.
View(r) == [open |-> read[r].busy, lo |-> read[r].lo, hi |-> read[r].hi,
            cols |-> read[r].cols,
            cells |-> IF read[r].busy THEN {} ELSE read[r].got]

Views == [r \in Readers |-> View(r)]

Log == INSTANCE RowLog WITH length <- writeIndex, view <- Views

\* Refinement: every behaviour of the ring is one of the row log.
ImplementsRowLog == Log!Spec
=============================================================================
