------------------------------- MODULE RowLog -------------------------------
(***************************************************************************)
(* What the transport between one driver worker and its readers promises,  *)
(* with no shared memory in it: the worker publishes rows 0, 1, 2, ... one *)
(* at a time; a reader opens a view on a run of published rows and later   *)
(* receives one value per column of every row of the run.                  *)
(*                                                                         *)
(* A value is the number of the row it belongs to.  The promise: every     *)
(* column of a row that is younger than the oldest one the ring still      *)
(* holds when the view is delivered is the value of that very row.  A row  *)
(* that has become the oldest, or has dropped out of the ring, may arrive  *)
(* damaged, but only by LATER rows, never by stale or unwritten memory.    *)
(***************************************************************************)
EXTENDS Integers

CONSTANTS Readers,    \* the threads and processes that read the ring
          Columns,    \* the columns of a row: the timestamp and the fields
          Capacity    \* how many rows the ring keeps

VARIABLES length,     \* how many rows have been published
          view        \* view[r]: the run reader r has open, or its last result

vars == <<length, view>>

\* The run of rows lo, lo+1, ..., hi-1.
Run(lo, hi) == lo .. (hi - 1)

\* What a column of row s may hold in a result delivered now.
Deliverable(s) ==
    IF s > length - Capacity THEN {s} ELSE s .. length

Init ==
    /\ length = 0
    /\ view = [r \in Readers |->
                 [open |-> FALSE, lo |-> 0, hi |-> 0, cols |-> {}, cells |-> {}]]

Publish ==
    /\ length' = length + 1
    /\ UNCHANGED view

\* The run ends at the newest published row and is no longer than the ring.
Open(r) ==
    /\ ~view[r].open
    /\ \E lo \in 0 .. length, cols \in SUBSET Columns :
          /\ length - lo <= Capacity
          /\ view' = [view EXCEPT ![r] = [open |-> TRUE, lo |-> lo, hi |-> length,
                                          cols |-> cols, cells |-> {}]]
    /\ UNCHANGED length

\* Every cell of the run arrives, each with one admissible value.
Deliver(r) ==
    /\ view[r].open
    /\ \E val \in [view[r].cols \X Run(view[r].lo, view[r].hi) -> 0 .. length] :
          /\ \A p \in DOMAIN val : val[p] \in Deliverable(p[2])
          /\ view' = [view EXCEPT
                ![r].open = FALSE,
                ![r].cells = {[col |-> p[1], row |-> p[2], val |-> val[p]] :
                                p \in DOMAIN val}]
    /\ UNCHANGED length

Next == Publish \/ \E r \in Readers : Open(r) \/ Deliver(r)

Spec == Init /\ [][Next]_vars
=============================================================================
