-------------------------- MODULE Recorder_proofs --------------------------
(***************************************************************************)
(* Theorems about the recorder, for any streams, episodes, ring capacity   *)
(* and number of rows.                                                     *)
(***************************************************************************)
EXTENDS Recorder, TLAPS

USE RecorderAssumption

-----------------------------------------------------------------------------
(* Runs of rows.                                                           *)

LEMMA ExtendedType ==
    ASSUME NEW q \in Seq(Batch), NEW b \in Batch
    PROVE  Extended(q, b) \in Seq(Batch)
<1>1. CASE q # <<>> /\ q[Len(q)].hi = b.lo
  <2>1. Len(q) \in 1 .. Len(q) /\ q[Len(q)] \in Batch
    BY <1>1
  <2>2. [q[Len(q)] EXCEPT !.hi = b.hi] \in Batch
    BY <2>1 DEF Batch
  <2> QED  BY <1>1, <2>1, <2>2 DEF Extended
<1>2. CASE ~(q # <<>> /\ q[Len(q)].hi = b.lo)
  BY <1>2 DEF Extended
<1> QED  BY <1>1, <1>2

\* A batch that comes after all that is on a tape lengthens it to the end of
\* the batch, in order; without a gap if it begins where the tape ends.
LEMMA ExtendedTape ==
    ASSUME NEW q \in Seq(Batch), NEW b \in Batch, NEW m \in Nat,
           Ordered(q), Runs(q), q # <<>> => q[1].lo >= m,
           b.lo < b.hi, m <= b.lo, End(q, m) <= b.lo
    PROVE  /\ Ordered(Extended(q, b)) /\ Runs(Extended(q, b))
           /\ Extended(q, b) # <<>> => Extended(q, b)[1].lo >= m
           /\ End(Extended(q, b), m) = b.hi
           /\ Gapless(q, m) /\ End(q, m) = b.lo => Gapless(Extended(q, b), m)
<1> DEFINE r == Extended(q, b)
<1>0. b.lo \in Nat /\ b.hi \in Nat
  BY DEF Batch
<1>1. CASE q # <<>> /\ q[Len(q)].hi = b.lo
  <2>1. Len(q) \in 1 .. Len(q) /\ q[Len(q)] \in Batch
    BY <1>1
  <2>2. r = [q EXCEPT ![Len(q)] = [q[Len(q)] EXCEPT !.hi = b.hi]]
    BY <1>1 DEF Extended
  <2> DEFINE x == [q[Len(q)] EXCEPT !.hi = b.hi]
  <2>20. x \in Batch
    BY <2>1, <1>0 DEF Batch
  <2> HIDE DEF x
  <2>21. Len([q EXCEPT ![Len(q)] = x]) = Len(q) /\ [q EXCEPT ![Len(q)] = x] \in Seq(Batch)
    BY <2>1, <2>20
  <2>3. Len(r) = Len(q) /\ r \in Seq(Batch) /\ r # <<>>
    BY <1>1, <2>1, <2>2, <2>21 DEF x
  <2>4. r[Len(q)].hi = b.hi /\ r[Len(q)].lo = q[Len(q)].lo
    BY <2>1, <2>2 DEF Batch
  <2>5. \A i \in 1 .. Len(q) - 1 : r[i] = q[i]
    BY <2>2
  <2>60. \A i \in 1 .. Len(q) : q[i] \in Batch
    OBVIOUS
  <2>6. \A i \in 1 .. Len(q) : q[i] \in Batch /\ q[i].lo \in Nat /\ q[i].hi \in Nat
    BY <2>60 DEF Batch
  <2>7. \A i \in 1 .. Len(q) : r[i].lo = q[i].lo
    BY <2>4, <2>5
  <2>8. Ordered(r)
    <3> SUFFICES ASSUME NEW i \in 1 .. Len(q), NEW j \in 1 .. Len(q), i < j
                 PROVE  r[i].hi <= r[j].lo
      BY <2>3 DEF Ordered
    <3>1. i \in 1 .. Len(q) - 1
      OBVIOUS
    <3> QED  BY <3>1, <2>5, <2>7 DEF Ordered
  <2>9. Runs(r)
    <3> SUFFICES ASSUME NEW i \in 1 .. Len(q) PROVE r[i].lo < r[i].hi
      BY <2>3 DEF Runs
    <3>1. CASE i = Len(q)
      BY <3>1, <2>4, <2>6, <1>0, <1>1, <2>1 DEF Runs
    <3>2. CASE i # Len(q)
      BY <3>2, <2>5 DEF Runs
    <3> QED  BY <3>1, <3>2
  <2>10. r[1].lo >= m
    BY <2>7, <1>1, <2>1
  <2>11. End(r, m) = b.hi
    BY <2>3, <2>4 DEF End
  <2>12. Gapless(q, m) => Gapless(r, m)
    BY <1>1, <2>1, <2>3, <2>5, <2>7, <2>4 DEF Gapless
  <2> QED  BY <2>8, <2>9, <2>10, <2>11, <2>12
<1>2. CASE q # <<>> /\ q[Len(q)].hi # b.lo
  <2>1. Len(q) \in 1 .. Len(q) /\ q[Len(q)] \in Batch
    BY <1>2
  <2>2. r = Append(q, b)
    BY <1>2 DEF Extended
  <2>3. Len(r) = Len(q) + 1 /\ r # <<>> /\ r[Len(q) + 1] = b
    BY <2>2
  <2>4. \A i \in 1 .. Len(q) : r[i] = q[i] /\ q[i] \in Batch
    BY <2>2
  <2>5. q[Len(q)].hi <= b.lo
    BY <1>2 DEF End
  <2>6. Ordered(r)
    <3> SUFFICES ASSUME NEW i \in 1 .. Len(q) + 1, NEW j \in 1 .. Len(q) + 1, i < j
                 PROVE  r[i].hi <= r[j].lo
      BY <2>3 DEF Ordered
    <3>1. CASE j = Len(q) + 1
      <4>1. i \in 1 .. Len(q) /\ q[i] \in Batch
        BY <3>1
      <4>2. q[i].hi <= q[Len(q)].hi
        <5>1. CASE i = Len(q)
          BY <5>1, <2>1 DEF Batch
        <5>2. CASE i # Len(q)
          <6>1. q[i].hi <= q[Len(q)].lo
            BY <5>2, <4>1, <2>1 DEF Ordered
          <6>2. q[Len(q)].lo < q[Len(q)].hi
            BY <2>1 DEF Runs
          <6> QED  BY <6>1, <6>2, <4>1, <2>1 DEF Batch
        <5> QED  BY <5>1, <5>2
      <4> QED  BY <3>1, <4>1, <4>2, <2>5, <2>3, <2>4, <1>0, <2>1 DEF Batch
    <3>2. CASE j # Len(q) + 1
      BY <3>2, <2>4 DEF Ordered
    <3> QED  BY <3>1, <3>2
  <2>7. Runs(r)
    <3> SUFFICES ASSUME NEW i \in 1 .. Len(q) + 1 PROVE r[i].lo < r[i].hi
      BY <2>3 DEF Runs
    <3>1. CASE i = Len(q) + 1
      BY <3>1, <2>3
    <3>2. CASE i # Len(q) + 1
      BY <3>2, <2>4 DEF Runs
    <3> QED  BY <3>1, <3>2
  <2>8. r[1].lo >= m
    BY <2>4, <1>2, <2>1
  <2>9. End(r, m) = b.hi
    BY <2>3 DEF End
  <2>10. End(q, m) # b.lo
    BY <1>2 DEF End
  <2> QED  BY <2>6, <2>7, <2>8, <2>9, <2>10
<1>3. CASE q = <<>>
  <2>1. r = <<b>>
    BY <1>3 DEF Extended
  <2>2. Len(r) = 1 /\ r # <<>> /\ r[1] = b
    BY <2>1
  <2>3. Ordered(r) /\ Runs(r)
    BY <2>2 DEF Ordered, Runs
  <2>4. End(r, m) = b.hi
    BY <2>2 DEF End
  <2>5. End(q, m) = b.lo => Gapless(r, m)
    BY <2>2, <1>3, <1>0 DEF Gapless, End
  <2> QED  BY <2>2, <2>3, <2>4, <2>5, <1>0
<1> QED  BY <1>1, <1>2, <1>3

-----------------------------------------------------------------------------
(* Types.                                                                  *)

LEMMA PublishType ==
    ASSUME TypeOK, NEW c \in Channels, Publish(c)
    PROVE  index' \in [Channels -> Nat]
BY DEF TypeOK, Publish

LEMMA OldestType == ASSUME TypeOK, NEW c \in Channels PROVE Oldest(c) \in Nat
<1>1. index[c] \in Nat /\ cursor[c] \in Nat
  BY DEF TypeOK
<1> QED  BY <1>1 DEF Oldest

LEMMA GrowTypes ==
    ASSUME TypeOK, NEW f \in Flushers, Grow(f)
    PROVE  /\ data' \in [Takes -> [Channels -> Seq(Batch)]]
           /\ stamps' \in [Takes -> [Channels -> Seq(Batch)]]
<1>1. /\ data \in [Takes -> [Channels -> Seq(Batch)]]
      /\ stamps \in [Takes -> [Channels -> Seq(Batch)]]
      /\ chan[f] \in Channels /\ batch[f] \in Batch
  BY DEF TypeOK
<1>2. ASSUME into[f] \in Takes
      PROVE  /\ Extended(data[into[f]][chan[f]], batch[f]) \in Seq(Batch)
             /\ Extended(stamps[into[f]][chan[f]], batch[f]) \in Seq(Batch)
  BY <1>1, <1>2, ExtendedType
<1>3. CASE into[f] \in Takes
  <2>1. ASSUME NEW a \in [Takes -> [Channels -> Seq(Batch)]],
               Extended(a[into[f]][chan[f]], batch[f]) \in Seq(Batch)
        PROVE  Longer(a, f) \in [Takes -> [Channels -> Seq(Batch)]]
    BY <1>1, <1>3, <2>1 DEF Longer
  <2> QED  BY <1>1, <1>2, <1>3, <2>1 DEF Grow
<1>4. CASE into[f] \notin Takes
  <2>1. ASSUME NEW a \in [Takes -> [Channels -> Seq(Batch)]]
        PROVE  Longer(a, f) \in [Takes -> [Channels -> Seq(Batch)]]
    BY <1>1, <1>4 DEF Longer
  <2> QED  BY <1>1, <1>4, <2>1 DEF Grow
<1> QED  BY <1>3, <1>4

LEMMA TearTypes ==
    ASSUME TypeOK, NEW f \in Flushers, Tear(f)
    PROVE  /\ data' \in [Takes -> [Channels -> Seq(Batch)]]
           /\ stamps' \in [Takes -> [Channels -> Seq(Batch)]]
           /\ torn' \in [Takes -> SUBSET Channels]
<1>1. /\ data \in [Takes -> [Channels -> Seq(Batch)]]
      /\ stamps \in [Takes -> [Channels -> Seq(Batch)]]
      /\ torn \in [Takes -> SUBSET Channels]
      /\ chan[f] \in Channels /\ <<>> \in Seq(Batch)
  BY DEF TypeOK
<1>2. torn' \in [Takes -> SUBSET Channels]
  BY <1>1 DEF Tear
<1>3. data' \in [Takes -> [Channels -> Seq(Batch)]]
  BY <1>1 DEF Tear
<1>4. stamps' \in [Takes -> [Channels -> Seq(Batch)]]
  BY <1>1 DEF Tear
<1> QED  BY <1>2, <1>3, <1>4
LEMMA InitTypes == Init => TypeOK
<1> SUFFICES ASSUME Init PROVE TypeOK
  OBVIOUS
<1> USE DEF Init, TypeOK, Channels, Flushers, Batch, NoRows, Nowhere, Closed
<1>1. <<>> \in Seq(Batch)
  OBVIOUS
<1>2. stop \in BOOLEAN /\ alive \in BOOLEAN
  BY Zenon
<1> QED  BY <1>1, <1>2

LEMMA StepTypes == TypeOK /\ [Next]_vars => TypeOK'
<1> SUFFICES ASSUME TypeOK, [Next]_vars PROVE TypeOK'
  OBVIOUS
<1> USE DEF TypeOK, Channels, Flushers, Batch, NoRows, Closed, rows, flush, tape, marks
<1>1. ASSUME NEW c \in Channels, Publish(c) PROVE TypeOK'
  BY <1>1, PublishType DEF Publish
<1>2. ASSUME NEW e \in Takes, Start(e) PROVE TypeOK'
  BY <1>2 DEF Start
<1>3. CASE Stop
  BY <1>3 DEF Stop
<1>4. CASE Joined
  BY <1>4 DEF Joined, EnterPass
<1>5. CASE DrainAgain
  BY <1>5 DEF DrainAgain, EnterPass
<1>6. CASE DrainEnds
  BY <1>6 DEF DrainEnds
<1>7. ASSUME NEW f \in Flushers, NEW c \in Streams, ReadStream(f, c) PROVE TypeOK'
  <2>1. Oldest(c) \in Nat
    BY OldestType
  <2>2. batch' \in [Flushers -> Batch] /\ gap' \in [Takes -> SUBSET Channels]
    BY <1>7, <2>1 DEF ReadStream
  <2> QED  BY <1>7, <2>2 DEF ReadStream
<1>8. ASSUME NEW f \in Flushers, SwapActions(f) PROVE TypeOK'
  BY <1>8 DEF SwapActions
<1>9. ASSUME NEW f \in Flushers, AppendBatch(f) PROVE TypeOK'
  <2>1. Grow(f)
    BY <1>9 DEF AppendBatch, Appended
  <2>2. cursor' \in [Channels -> Nat]
    BY <1>9 DEF AppendBatch, Advance
  <2> QED  BY <1>9, <2>1, <2>2, GrowTypes DEF AppendBatch, Appended
<1>10. ASSUME NEW f \in Flushers, AppendFails(f) PROVE TypeOK'
  <2>1. /\ data' \in [Takes -> [Channels -> Seq(Batch)]]
        /\ stamps' \in [Takes -> [Channels -> Seq(Batch)]]
        /\ torn' \in [Takes -> SUBSET Channels]
    BY <1>10, TearTypes DEF AppendFails
  <2>2. gap' \in [Takes -> SUBSET Channels]
    BY <1>10 DEF AppendFails
  <2> QED  BY <1>10, <2>1, <2>2 DEF AppendFails, Leave
<1>11. ASSUME NEW f \in Flushers, EndPass(f) PROVE TypeOK'
  BY <1>11 DEF EndPass, Leave
<1>12. CASE Close
  BY <1>12 DEF Close
<1>13. CASE UNCHANGED vars
  BY <1>13 DEF vars
<1> QED
  BY <1>1, <1>2, <1>3, <1>4, <1>5, <1>6, <1>7, <1>8, <1>9, <1>10, <1>11, <1>12, <1>13
  DEF Next, StopCall, DrainThread, Flush, Flushers

\* Every variable has its type, whatever the constants.
THEOREM RecorderTypeCorrect == Spec => []TypeOK
BY InitTypes, StepTypes, PTL DEF Spec

-----------------------------------------------------------------------------
(* The inductive invariant.                                                *)

LEMMA ControlStep == TypeOK /\ FlushControl /\ FlushDelivers /\ [Next]_vars => FlushControl'
<1> SUFFICES ASSUME TypeOK, FlushControl, FlushDelivers, [Next]_vars PROVE FlushControl'
  OBVIOUS
<1>0. /\ at \in [{"drain", "final"} -> {"off", "next", "append"}]
      /\ into \in [{"drain", "final"} -> Takes \cup {NoTake}]
      /\ status \in [Takes -> Closed \cup {"none", "recording"}]
      /\ writer \in Takes \cup {NoTake}
      /\ owner \in {"idle", "join", "flush", "close"}
  BY DEF TypeOK, Channels, Flushers
<1> USE <1>0 DEF FlushControl, FlushDelivers, Flushers, rows, flush, tape, marks
<1>1. ASSUME NEW c \in Channels, Publish(c) PROVE FlushControl'
  BY <1>1 DEF Publish
<1>2. ASSUME NEW e \in Takes, Start(e) PROVE FlushControl'
  BY <1>2 DEF Start
<1>3. CASE Stop
  BY <1>3 DEF Stop
<1>4. CASE Joined
  BY <1>4 DEF Joined, EnterPass
<1>5. CASE DrainAgain
  BY <1>5 DEF DrainAgain, EnterPass
<1>6. CASE DrainEnds
  BY <1>6 DEF DrainEnds
<1>7. ASSUME NEW f \in Flushers, NEW c \in Streams, ReadStream(f, c) PROVE FlushControl'
  BY <1>7 DEF ReadStream, Oldest
<1>8. ASSUME NEW f \in Flushers, SwapActions(f) PROVE FlushControl'
  BY <1>8 DEF SwapActions
<1>9. ASSUME NEW f \in Flushers, AppendBatch(f) PROVE FlushControl'
  BY <1>9 DEF AppendBatch, Appended, Advance, Grow, Longer
<1>10. ASSUME NEW f \in Flushers, AppendFails(f) PROVE FlushControl'
  BY <1>10 DEF AppendFails, Tear, Leave
<1>11. ASSUME NEW f \in Flushers, EndPass(f) PROVE FlushControl'
  BY <1>11 DEF EndPass, Leave
<1>12. CASE Close
  BY <1>12 DEF Close
<1>13. CASE UNCHANGED vars
  BY <1>13 DEF vars
<1> QED
  BY <1>1, <1>2, <1>3, <1>4, <1>5, <1>6, <1>7, <1>8, <1>9, <1>10, <1>11, <1>12, <1>13
  DEF Next, StopCall, DrainThread, Flush, Flushers

LEMMA BatchStep == TypeOK /\ FlushControl /\ FlushDelivers /\ BatchRead /\ [Next]_vars => BatchRead'
<1> SUFFICES ASSUME TypeOK, FlushControl, FlushDelivers, BatchRead, [Next]_vars PROVE BatchRead'
  OBVIOUS
<1>0. /\ at \in [{"drain", "final"} -> {"off", "next", "append"}]
      /\ chan \in [{"drain", "final"} -> Channels]
      /\ todo \in [{"drain", "final"} -> SUBSET Channels]
      /\ into \in [{"drain", "final"} -> Takes \cup {NoTake}]
      /\ gap \in [Takes -> SUBSET Channels]
      /\ batch \in [{"drain", "final"} -> Batch]
      /\ index \in [Channels -> Nat] /\ cursor \in [Channels -> Nat]
      /\ Actions \in Channels /\ Streams \subseteq Channels
      /\ writer \in Takes \cup {NoTake}
  BY DEF TypeOK, Channels, Flushers
<1> USE <1>0 DEF BatchRead, FlushControl, FlushDelivers, Flushers, Batch, rows, flush, tape, marks
<1>1. ASSUME NEW c \in Channels, Publish(c) PROVE BatchRead'
  BY <1>1 DEF Publish
<1>2. ASSUME NEW e \in Takes, Start(e) PROVE BatchRead'
  BY <1>2 DEF Start
<1>3. CASE Stop
  BY <1>3 DEF Stop
<1>4. CASE Joined
  BY <1>4 DEF Joined, EnterPass
<1>5. CASE DrainAgain
  BY <1>5 DEF DrainAgain, EnterPass
<1>6. CASE DrainEnds
  BY <1>6 DEF DrainEnds
<1>7. ASSUME NEW f \in Flushers, NEW c \in Streams, ReadStream(f, c) PROVE BatchRead'
  BY <1>7 DEF ReadStream, Oldest
<1>8. ASSUME NEW f \in Flushers, SwapActions(f) PROVE BatchRead'
  BY <1>8 DEF SwapActions
<1>9. ASSUME NEW f \in Flushers, AppendBatch(f) PROVE BatchRead'
  BY <1>9 DEF AppendBatch, Appended, Advance, Grow, Longer
<1>10. ASSUME NEW f \in Flushers, AppendFails(f) PROVE BatchRead'
  BY <1>10 DEF AppendFails, Tear, Leave
<1>11. ASSUME NEW f \in Flushers, EndPass(f) PROVE BatchRead'
  BY <1>11 DEF EndPass, Leave
<1>12. CASE Close
  BY <1>12 DEF Close
<1>13. CASE UNCHANGED vars
  BY <1>13 DEF vars
<1> QED
  BY <1>1, <1>2, <1>3, <1>4, <1>5, <1>6, <1>7, <1>8, <1>9, <1>10, <1>11, <1>12, <1>13
  DEF Next, StopCall, DrainThread, Flush, Flushers

\* Only the tape of the open episode changes.
LEMMA OthersKept == TypeOK /\ FlushControl /\ [Next]_vars =>
    \A e \in Takes \ {writer} :
        /\ data'[e] = data[e] /\ stamps'[e] = stamps[e]
        /\ torn'[e] = torn[e] /\ gap'[e] = gap[e] /\ owed'[e] = owed[e]
<1> DEFINE K == \A e \in Takes \ {writer} :
             /\ data'[e] = data[e] /\ stamps'[e] = stamps[e]
             /\ torn'[e] = torn[e] /\ gap'[e] = gap[e] /\ owed'[e] = owed[e]
<1> SUFFICES ASSUME TypeOK, FlushControl, [Next]_vars PROVE K
  OBVIOUS
<1>0. /\ at \in [{"drain", "final"} -> {"off", "next", "append"}]
      /\ into \in [{"drain", "final"} -> Takes \cup {NoTake}]
      /\ status \in [Takes -> Closed \cup {"none", "recording"}]
      /\ writer \in Takes \cup {NoTake}
      /\ owner \in {"idle", "join", "flush", "close"}
      /\ data \in [Takes -> [Channels -> Seq(Batch)]]
      /\ stamps \in [Takes -> [Channels -> Seq(Batch)]]
      /\ torn \in [Takes -> SUBSET Channels] /\ gap \in [Takes -> SUBSET Channels]
      /\ owed \in [Takes -> [Channels -> Nat]]
  BY DEF TypeOK, Channels, Flushers
<1> USE <1>0 DEF FlushControl, Flushers, rows, flush, tape, marks
<1>1. ASSUME NEW c \in Channels, Publish(c) PROVE K
  BY <1>1 DEF Publish
<1>2. ASSUME NEW e \in Takes, Start(e) PROVE K
  BY <1>2 DEF Start
<1>3. CASE Stop
  BY <1>3 DEF Stop
<1>4. CASE Joined
  BY <1>4 DEF Joined, EnterPass
<1>5. CASE DrainAgain
  BY <1>5 DEF DrainAgain, EnterPass
<1>6. CASE DrainEnds
  BY <1>6 DEF DrainEnds
<1>7. ASSUME NEW f \in Flushers, NEW c \in Streams, ReadStream(f, c) PROVE K
  BY <1>7 DEF ReadStream, Oldest
<1>8. ASSUME NEW f \in Flushers, SwapActions(f) PROVE K
  BY <1>8 DEF SwapActions
<1>9. ASSUME NEW f \in Flushers, AppendBatch(f) PROVE K
  <2>1. into[f] = writer
    BY <1>9 DEF AppendBatch, Appended
  <2>2. \A e \in Takes \ {writer} : data'[e] = data[e] /\ stamps'[e] = stamps[e]
    BY <1>9, <2>1 DEF AppendBatch, Appended, Grow, Longer
  <2> QED  BY <1>9, <2>2 DEF AppendBatch, Appended
<1>10. ASSUME NEW f \in Flushers, AppendFails(f) PROVE K
  <2>1. into[f] = writer
    BY <1>10 DEF AppendFails
  <2>2. \A e \in Takes \ {writer} : data'[e] = data[e] /\ stamps'[e] = stamps[e] /\ torn'[e] = torn[e]
    BY <1>10, <2>1 DEF AppendFails, Tear
  <2> QED  BY <1>10, <2>1, <2>2 DEF AppendFails
<1>11. ASSUME NEW f \in Flushers, EndPass(f) PROVE K
  BY <1>11 DEF EndPass, Leave
<1>12. CASE Close
  BY <1>12 DEF Close
<1>13. CASE UNCHANGED vars
  BY <1>13 DEF vars
<1> QED
  BY <1>1, <1>2, <1>3, <1>4, <1>5, <1>6, <1>7, <1>8, <1>9, <1>10, <1>11, <1>12, <1>13
  DEF Next, StopCall, DrainThread, Flush, Flushers

\* An episode that is not open changes its status only by being started.
LEMMA StatusKept == TypeOK /\ FlushControl /\ [Next]_vars =>
    \A e \in Takes \ {writer} :
        status'[e] = status[e] \/ (status[e] = "none" /\ status'[e] = "recording")
<1> DEFINE K == \A e \in Takes \ {writer} :
        status'[e] = status[e] \/ (status[e] = "none" /\ status'[e] = "recording")
<1> SUFFICES ASSUME TypeOK, FlushControl, [Next]_vars PROVE K
  OBVIOUS
<1>0. /\ at \in [{"drain", "final"} -> {"off", "next", "append"}]
      /\ into \in [{"drain", "final"} -> Takes \cup {NoTake}]
      /\ status \in [Takes -> Closed \cup {"none", "recording"}]
      /\ writer \in Takes \cup {NoTake}
      /\ owner \in {"idle", "join", "flush", "close"}
  BY DEF TypeOK, Channels, Flushers
<1> USE <1>0 DEF FlushControl, Flushers, rows, flush, tape, marks
<1>1. ASSUME NEW c \in Channels, Publish(c) PROVE K
  BY <1>1 DEF Publish
<1>2. ASSUME NEW e \in Takes, Start(e) PROVE K
  BY <1>2 DEF Start
<1>3. CASE Stop
  BY <1>3 DEF Stop
<1>4. CASE Joined
  BY <1>4 DEF Joined, EnterPass
<1>5. CASE DrainAgain
  BY <1>5 DEF DrainAgain, EnterPass
<1>6. CASE DrainEnds
  BY <1>6 DEF DrainEnds
<1>7. ASSUME NEW f \in Flushers, NEW c \in Streams, ReadStream(f, c) PROVE K
  BY <1>7 DEF ReadStream, Oldest
<1>8. ASSUME NEW f \in Flushers, SwapActions(f) PROVE K
  BY <1>8 DEF SwapActions
<1>9. ASSUME NEW f \in Flushers, AppendBatch(f) PROVE K
  BY <1>9 DEF AppendBatch, Appended, Advance, Grow, Longer
<1>10. ASSUME NEW f \in Flushers, AppendFails(f) PROVE K
  BY <1>10 DEF AppendFails, Tear, Leave
<1>11. ASSUME NEW f \in Flushers, EndPass(f) PROVE K
  BY <1>11 DEF EndPass, Leave
<1>12. CASE Close
  BY <1>12 DEF Close
<1>13. CASE UNCHANGED vars
  BY <1>13 DEF vars
<1> QED
  BY <1>1, <1>2, <1>3, <1>4, <1>5, <1>6, <1>7, <1>8, <1>9, <1>10, <1>11, <1>12, <1>13
  DEF Next, StopCall, DrainThread, Flush, Flushers

LEMMA WriterStatus == TypeOK /\ FlushControl /\ [Next]_vars =>
    \A e \in Takes : e = writer => status'[e] # "none"
<1> DEFINE K == \A e \in Takes : e = writer => status'[e] # "none"
<1> SUFFICES ASSUME TypeOK, FlushControl, [Next]_vars PROVE K
  OBVIOUS
<1>0. /\ at \in [{"drain", "final"} -> {"off", "next", "append"}]
      /\ into \in [{"drain", "final"} -> Takes \cup {NoTake}]
      /\ status \in [Takes -> Closed \cup {"none", "recording"}]
      /\ writer \in Takes \cup {NoTake}
      /\ owner \in {"idle", "join", "flush", "close"}
  BY DEF TypeOK, Channels, Flushers
<1> USE <1>0 DEF FlushControl, Flushers, Closed, rows, flush, tape, marks
<1>1. ASSUME NEW c \in Channels, Publish(c) PROVE K
  BY <1>1 DEF Publish
<1>2. ASSUME NEW e \in Takes, Start(e) PROVE K
  BY <1>2 DEF Start
<1>3. CASE Stop
  BY <1>3 DEF Stop
<1>4. CASE Joined
  BY <1>4 DEF Joined, EnterPass
<1>5. CASE DrainAgain
  BY <1>5 DEF DrainAgain, EnterPass
<1>6. CASE DrainEnds
  BY <1>6 DEF DrainEnds
<1>7. ASSUME NEW f \in Flushers, NEW c \in Streams, ReadStream(f, c) PROVE K
  BY <1>7 DEF ReadStream, Oldest
<1>8. ASSUME NEW f \in Flushers, SwapActions(f) PROVE K
  BY <1>8 DEF SwapActions
<1>9. ASSUME NEW f \in Flushers, AppendBatch(f) PROVE K
  BY <1>9 DEF AppendBatch, Appended, Advance, Grow, Longer
<1>10. ASSUME NEW f \in Flushers, AppendFails(f) PROVE K
  BY <1>10 DEF AppendFails, Tear, Leave
<1>11. ASSUME NEW f \in Flushers, EndPass(f) PROVE K
  BY <1>11 DEF EndPass, Leave
<1>12. CASE Close
  BY <1>12 DEF Close
<1>13. CASE UNCHANGED vars
  BY <1>13 DEF vars
<1> QED
  BY <1>1, <1>2, <1>3, <1>4, <1>5, <1>6, <1>7, <1>8, <1>9, <1>10, <1>11, <1>12, <1>13
  DEF Next, StopCall, DrainThread, Flush, Flushers

LEMMA BlankStep == TypeOK /\ FlushControl /\ BlankTape /\ [Next]_vars => BlankTape'
BY OthersKept, StatusKept, WriterStatus DEF BlankTape

LEMMA DeliverStep == TypeOK /\ FlushControl /\ FlushDelivers /\ BatchRead /\ [Next]_vars => FlushDelivers'
<1> SUFFICES ASSUME TypeOK, FlushControl, FlushDelivers, BatchRead, [Next]_vars PROVE FlushDelivers'
  OBVIOUS
<1>0. /\ at \in [{"drain", "final"} -> {"off", "next", "append"}]
      /\ chan \in [{"drain", "final"} -> Channels]
      /\ todo \in [{"drain", "final"} -> SUBSET Channels]
      /\ into \in [{"drain", "final"} -> Takes \cup {NoTake}]
      /\ gap \in [Takes -> SUBSET Channels]
      /\ batch \in [{"drain", "final"} -> Batch]
      /\ index \in [Channels -> Nat] /\ cursor \in [Channels -> Nat]
      /\ Actions \in Channels /\ Streams \subseteq Channels
      /\ writer \in Takes \cup {NoTake}
      /\ owed \in [Takes -> [Channels -> Nat]]
  BY DEF TypeOK, Channels, Flushers
<1> USE <1>0 DEF FlushDelivers, Delivered, BatchRead, FlushControl, Flushers, Batch, rows, flush, tape, marks
<1>1. ASSUME NEW c \in Channels, Publish(c) PROVE FlushDelivers'
  BY <1>1 DEF Publish
<1>2. ASSUME NEW e \in Takes, Start(e) PROVE FlushDelivers'
  BY <1>2 DEF Start
<1>3. CASE Stop
  BY <1>3 DEF Stop
<1>4. CASE Joined
  BY <1>4 DEF Joined, EnterPass
<1>5. CASE DrainAgain
  BY <1>5 DEF DrainAgain, EnterPass
<1>6. CASE DrainEnds
  BY <1>6 DEF DrainEnds
<1>7. ASSUME NEW f \in Flushers, NEW c \in Streams, ReadStream(f, c) PROVE FlushDelivers'
  BY <1>7 DEF ReadStream, Oldest
<1>8. ASSUME NEW f \in Flushers, SwapActions(f) PROVE FlushDelivers'
  BY <1>8 DEF SwapActions
<1>9. ASSUME NEW f \in Flushers, AppendBatch(f) PROVE FlushDelivers'
  BY <1>9 DEF AppendBatch, Appended, Advance, Grow, Longer
<1>10. ASSUME NEW f \in Flushers, AppendFails(f) PROVE FlushDelivers'
  BY <1>10 DEF AppendFails, Tear, Leave
<1>11. ASSUME NEW f \in Flushers, EndPass(f) PROVE FlushDelivers'
  BY <1>11 DEF EndPass, Leave
<1>12. CASE Close
  BY <1>12 DEF Close
<1>13. CASE UNCHANGED vars
  BY <1>13 DEF vars
<1> QED
  BY <1>1, <1>2, <1>3, <1>4, <1>5, <1>6, <1>7, <1>8, <1>9, <1>10, <1>11, <1>12, <1>13
  DEF Next, StopCall, DrainThread, Flush, Flushers

\* The thread and the final flush never append at once.
LEMMA OneAtOnce == FlushControl => OneFlusher
BY DEF FlushControl, OneFlusher

\* An append of a batch to the open episode.
LEMMA AppendTape ==
    ASSUME TypeOK, FlushControl, BatchRead, TapeReaches, TapeAligned, TapeGapless,
           NEW f \in Flushers, AppendBatch(f)
    PROVE  /\ writer \in Takes /\ chan[f] \in Channels
           /\ \A c \in Channels \ {chan[f]} :
                 /\ data'[writer][c] = data[writer][c]
                 /\ stamps'[writer][c] = stamps[writer][c]
           /\ \A c \in Channels :
                 Reached(c)' = IF c = chan[f] THEN batch[f].hi ELSE Reached(c)
           /\ mark[writer][chan[f]] <= batch[f].hi
           /\ chan[f] \notin torn[writer] =>
                 /\ data'[writer][chan[f]] = stamps'[writer][chan[f]]
                 /\ Ordered(data'[writer][chan[f]]) /\ Runs(data'[writer][chan[f]])
                 /\ data'[writer][chan[f]] # <<>> =>
                       data'[writer][chan[f]][1].lo >= mark[writer][chan[f]]
                 /\ End(data'[writer][chan[f]], mark[writer][chan[f]]) <= batch[f].hi
                 /\ chan[f] \notin gap[writer] =>
                       /\ End(data'[writer][chan[f]], mark[writer][chan[f]]) = batch[f].hi
                       /\ Gapless(data'[writer][chan[f]], mark[writer][chan[f]])
<1> DEFINE c0 == chan[f]  b == batch[f]  q == data[writer][c0]  m == mark[writer][c0]
<1>1. /\ at[f] = "append" /\ writer \in Takes /\ into[f] = writer /\ c0 \in Channels
      /\ b \in Batch /\ b.lo \in Nat /\ b.hi \in Nat /\ m \in Nat /\ q \in Seq(Batch)
      /\ cursor \in [Channels -> Nat] /\ cursor[c0] \in Nat
      /\ at \in [Flushers -> {"off", "next", "append"}]
  <2>1. at[f] = "append" /\ into[f] = writer /\ writer \in Takes
    BY DEF AppendBatch, Appended, FlushControl, TypeOK, Flushers
  <2>2. batch[f] \in Batch /\ chan[f] \in Channels
    BY DEF TypeOK
  <2>3. batch[f].lo \in Nat /\ batch[f].hi \in Nat
    BY <2>2 DEF Batch
  <2>4. m \in Nat /\ q \in Seq(Batch) /\ cursor \in [Channels -> Nat] /\ cursor[c0] \in Nat
    BY <2>1, <2>2 DEF TypeOK
  <2>5. at \in [Flushers -> {"off", "next", "append"}]
    BY DEF TypeOK
  <2> QED  BY <2>1, <2>2, <2>3, <2>4, <2>5
<1>2. /\ b.lo <= b.hi
      /\ c0 = Actions => b.hi = cursor[Actions]
      /\ c0 # Actions => cursor[c0] <= b.lo
      /\ c0 # Actions /\ b.lo # cursor[c0] => c0 \in gap[writer] /\ b.lo < b.hi
  BY <1>1 DEF BatchRead
<1>3. \A g \in Flushers : g # f => at[g] = "off"
  BY <1>1, OneAtOnce DEF OneFlusher, Flushers
<1>4. Reached(c0) = IF c0 = Actions THEN b.lo ELSE cursor[c0]
  BY <1>1, <1>3 DEF Reached, SwappedOut, Flushers
<1>5. \A c \in Channels \ {c0} : Reached(c) = cursor[c]
  BY <1>1, <1>3 DEF Reached, SwappedOut, Flushers
<1>6. /\ \A g \in Flushers : at'[g] # "append"
      /\ cursor' = IF c0 = Actions THEN cursor ELSE [cursor EXCEPT ![c0] = b.hi]
  BY <1>1, <1>3 DEF AppendBatch, Appended, Advance, Flushers
<1>7. \A c \in Channels : Reached(c)' = cursor'[c]
  BY <1>6 DEF Reached, SwappedOut, Flushers
<1>8. cursor'[c0] = b.hi
  BY <1>1, <1>2, <1>6
<1>9. \A c \in Channels : Reached(c)' = IF c = c0 THEN b.hi ELSE Reached(c)
  BY <1>1, <1>5, <1>6, <1>7, <1>8
<1>10. m <= Reached(c0) /\ Reached(c0) <= b.lo
  BY <1>1, <1>2, <1>4 DEF TapeReaches
<1>11. \A c \in Channels \ {c0} :
          data'[writer][c] = data[writer][c] /\ stamps'[writer][c] = stamps[writer][c]
  BY <1>1 DEF AppendBatch, Appended, Grow, Longer, TypeOK
<1>12. ASSUME c0 \notin torn[writer]
       PROVE  /\ data'[writer][c0] = stamps'[writer][c0]
              /\ Ordered(data'[writer][c0]) /\ Runs(data'[writer][c0])
              /\ data'[writer][c0] # <<>> => data'[writer][c0][1].lo >= m
              /\ End(data'[writer][c0], m) <= b.hi
              /\ c0 \notin gap[writer] =>
                    End(data'[writer][c0], m) = b.hi /\ Gapless(data'[writer][c0], m)
  <2>1. /\ q = stamps[writer][c0] /\ Ordered(q) /\ Runs(q)
        /\ q # <<>> => q[1].lo >= m
        /\ End(q, m) <= Reached(c0)
    BY <1>1, <1>12 DEF TapeAligned, TapeReaches
  <2>2. c0 \notin gap[writer] => End(q, m) = Reached(c0) /\ Gapless(q, m) /\ Reached(c0) = b.lo
    BY <1>1, <1>2, <1>4, <1>12 DEF TapeGapless, TapeReaches
  <2>3. End(q, m) \in Int /\ Reached(c0) \in Int
    <3>1. q # <<>> => q[Len(q)] \in Batch
      BY <1>1
    <3> QED  BY <1>1, <1>4, <3>1 DEF End, Batch
  <2>4. CASE b.lo = b.hi
    <3>1. data'[writer][c0] = q /\ stamps'[writer][c0] = stamps[writer][c0]
      BY <2>4 DEF AppendBatch, Appended, Grow
    <3> QED  BY <3>1, <2>1, <2>2, <2>3, <2>4, <1>1, <1>10
  <2>5. CASE b.lo # b.hi
    <3>1. /\ data'[writer][c0] = Extended(q, b)
          /\ stamps'[writer][c0] = Extended(stamps[writer][c0], b)
      BY <1>1, <1>12, <2>5 DEF AppendBatch, Appended, Grow, Longer, TypeOK
    <3>2. b.lo < b.hi /\ m <= b.lo /\ End(q, m) <= b.lo
      BY <1>1, <1>2, <1>10, <2>1, <2>3, <2>5
    <3>3. /\ Ordered(Extended(q, b)) /\ Runs(Extended(q, b))
          /\ Extended(q, b) # <<>> => Extended(q, b)[1].lo >= m
          /\ End(Extended(q, b), m) = b.hi
          /\ Gapless(q, m) /\ End(q, m) = b.lo => Gapless(Extended(q, b), m)
      BY <1>1, <2>1, <3>2, ExtendedTape
    <3> QED  BY <3>1, <3>3, <2>1, <2>2, <1>1
  <2> QED  BY <2>4, <2>5
<1>13. m <= b.hi
  <2>1. Reached(c0) \in Int
    BY <1>1, <1>4
  <2> QED  BY <1>1, <1>2, <1>10, <2>1
<1> QED  BY <1>1, <1>8, <1>9, <1>11, <1>12, <1>13

\* A step that appends nothing, tears nothing and moves no channel on.
LEMMA QuietTape ==
    ASSUME TapeReaches, TapeAligned, TapeGapless,
           UNCHANGED <<data, stamps, torn, mark, writer>>,
           \A e \in Takes : gap[e] \subseteq gap'[e], writer \in Takes \cup {NoTake},
           \A c \in Channels : Reached(c)' = Reached(c)
    PROVE  TapeAligned' /\ TapeGapless' /\ TapeReaches'
<1>1. TapeAligned'
  BY DEF TapeAligned
<1>2. TapeGapless'
  BY DEF TapeGapless
<1>3. TapeReaches'
  BY DEF TapeReaches
<1> QED  BY <1>1, <1>2, <1>3

\* A failed append leaves the tape as it was, or torn.
LEMMA FailedTape ==
    ASSUME TypeOK, FlushControl, BatchRead, TapeReaches, TapeAligned, TapeGapless,
           NEW f \in Flushers, AppendFails(f)
    PROVE  TapeAligned' /\ TapeGapless' /\ TapeReaches'
<1>1. /\ at[f] = "append" /\ writer \in Takes /\ into[f] = writer /\ chan[f] \in Channels
      /\ batch[f].lo \in Nat /\ batch[f].hi \in Nat
      /\ mark[writer] \in [Channels -> Nat] /\ cursor \in [Channels -> Nat]
      /\ at \in [Flushers -> {"off", "next", "append"}]
      /\ torn \in [Takes -> SUBSET Channels] /\ gap \in [Takes -> SUBSET Channels]
  <2>1. batch[f] \in Batch
    BY DEF TypeOK
  <2> QED  BY <2>1 DEF AppendFails, FlushControl, TypeOK, Flushers, Batch
<1>2. \A g \in Flushers : g # f => at[g] = "off"
  BY <1>1, OneAtOnce DEF OneFlusher, Flushers
<1>3. \A g \in Flushers : at'[g] # "append"
  BY <1>1, <1>2 DEF AppendFails, Leave, Flushers
<1>4. \A c \in Channels : Reached(c)' = cursor[c]
  BY <1>3 DEF Reached, SwappedOut, Flushers, AppendFails, rows
<1>5. \A c \in Channels : Reached(c) = IF c = Actions /\ chan[f] = Actions THEN batch[f].lo ELSE cursor[c]
  BY <1>1, <1>2 DEF Reached, SwappedOut, Flushers
<1>6. chan[f] = Actions => batch[f].lo <= cursor[Actions]
  BY <1>1 DEF BatchRead
<1>7. /\ UNCHANGED <<mark, writer>>
      /\ \A e \in Takes : gap[e] \subseteq gap'[e] /\ torn[e] \subseteq torn'[e]
      /\ chan[f] = Actions => Actions \in gap'[writer]
  BY <1>1 DEF AppendFails, Tear, marks
<1>8. \A e \in Takes, c \in Channels :
         c \notin torn'[e] => data'[e][c] = data[e][c] /\ stamps'[e][c] = stamps[e][c]
  <2>1. /\ data \in [Takes -> [Channels -> Seq(Batch)]]
        /\ stamps \in [Takes -> [Channels -> Seq(Batch)]]
    BY DEF TypeOK
  <2>2. ASSUME Tear(f), NEW e \in Takes, NEW c \in Channels, c \notin torn'[e]
        PROVE  data'[e][c] = data[e][c] /\ stamps'[e][c] = stamps[e][c]
    <3>1. e # writer \/ c # chan[f]
      BY <1>1, <2>2 DEF Tear
    <3> QED  BY <1>1, <2>1, <2>2, <3>1 DEF Tear
  <2> QED  BY <2>2 DEF AppendFails
<1>9. TapeAligned'
  BY <1>7, <1>8 DEF TapeAligned
<1>10. TapeGapless'
  BY <1>7, <1>8 DEF TapeGapless
<1>11. TapeReaches'
  <2> SUFFICES ASSUME NEW c \in Channels
               PROVE  /\ mark[writer][c] <= cursor[c]
                      /\ c \notin torn'[writer] => End(data[writer][c], mark[writer][c]) <= cursor[c]
                      /\ c \notin torn'[writer] \cup gap'[writer] =>
                            End(data[writer][c], mark[writer][c]) = cursor[c]
    BY <1>1, <1>4, <1>7, <1>8 DEF TapeReaches
  <2>1. /\ mark[writer][c] <= Reached(c)
        /\ c \notin torn[writer] => End(data[writer][c], mark[writer][c]) <= Reached(c)
        /\ c \notin torn[writer] \cup gap[writer] =>
              End(data[writer][c], mark[writer][c]) = Reached(c)
    BY <1>1 DEF TapeReaches
  <2>2. CASE c = Actions /\ chan[f] = Actions
    <3>1. Reached(c) = batch[f].lo /\ c \in gap'[writer] /\ cursor[c] \in Nat /\ mark[writer][c] \in Nat
      BY <1>1, <1>5, <1>7, <2>2
    <3>2. c \notin torn'[writer] => c \notin torn[writer]
      BY <1>1, <1>7
    <3>3. End(data[writer][c], mark[writer][c]) \in Int
      <4>1. data[writer][c] \in Seq(Batch)
        BY <1>1 DEF TypeOK
      <4>2. data[writer][c] # <<>> => data[writer][c][Len(data[writer][c])] \in Batch
        BY <4>1
      <4> QED  BY <4>2, <3>1 DEF End, Batch
    <3> QED  BY <1>1, <1>6, <2>1, <2>2, <3>1, <3>2, <3>3
  <2>3. CASE ~(c = Actions /\ chan[f] = Actions)
    BY <1>1, <1>5, <1>7, <2>1, <2>3
  <2> QED  BY <2>2, <2>3
<1> QED  BY <1>9, <1>10, <1>11

LEMMA TapeStep == TypeOK /\ FlushControl /\ BatchRead /\ BlankTape /\ TapeReaches /\ TapeAligned /\ TapeGapless /\ [Next]_vars =>
    TapeAligned' /\ TapeGapless' /\ TapeReaches'
<1> SUFFICES ASSUME TypeOK, FlushControl, BatchRead, BlankTape, TapeReaches, TapeAligned, TapeGapless, [Next]_vars
             PROVE  TapeAligned' /\ TapeGapless' /\ TapeReaches'
  OBVIOUS
<1>0. /\ at \in [{"drain", "final"} -> {"off", "next", "append"}]
      /\ chan \in [{"drain", "final"} -> Channels]
      /\ batch \in [{"drain", "final"} -> Batch]
      /\ cursor \in [Channels -> Nat]
      /\ Actions \in Channels /\ Actions \notin Streams
      /\ gap \in [Takes -> SUBSET Channels]
      /\ into \in [{"drain", "final"} -> Takes \cup {NoTake}]
      /\ writer \in Takes \cup {NoTake}
  BY DEF TypeOK, Channels, Flushers
<1> USE <1>0 DEF rows, flush, tape, marks
<1>1. ASSUME NEW b \in Channels, Publish(b) PROVE TapeAligned' /\ TapeGapless' /\ TapeReaches'
  <2>1. UNCHANGED <<data, stamps, torn, mark, writer>> /\ (\A e \in Takes : gap[e] \subseteq gap'[e])
    BY <1>1 DEF Publish
  <2>2. \A c \in Channels : Reached(c)' = Reached(c)
    BY <1>1 DEF Publish, Reached, SwappedOut, FlushControl, Flushers
  <2> QED  BY <2>1, <2>2, QuietTape
<1>2. ASSUME NEW e \in Takes, Start(e) PROVE TapeAligned' /\ TapeGapless' /\ TapeReaches'
  <2>1. /\ UNCHANGED <<data, stamps, torn, gap>> /\ writer' = e
        /\ mark' = [mark EXCEPT ![e] = index] /\ cursor' = index
        /\ \A c \in Channels : data[e][c] = <<>> /\ stamps[e][c] = <<>>
    BY <1>2 DEF Start, BlankTape
  <2>2. \A g \in Flushers : at'[g] = "off"
    BY <1>2 DEF Start, FlushControl, Flushers
  <2>3. \A c \in Channels : Reached(c)' = index[c]
    BY <2>1, <2>2 DEF Reached, SwappedOut, Flushers
  <2>4. /\ mark'[e] = index
        /\ \A x \in Takes \ {e} : mark'[x] = mark[x]
    BY <2>1 DEF TypeOK
  <2>5. \A m \in Nat : Ordered(<<>>) /\ Runs(<<>>) /\ Gapless(<<>>, m) /\ End(<<>>, m) = m
    BY DEF Ordered, Runs, Gapless, End
  <2>6. \A c \in Channels : index[c] \in Nat
    BY DEF TypeOK
  <2>7. TapeAligned'
    BY <2>1, <2>4, <2>5, <2>6 DEF TapeAligned
  <2>8. TapeGapless'
    BY <2>1, <2>4, <2>5, <2>6 DEF TapeGapless
  <2>9. TapeReaches'
    BY <2>1, <2>3, <2>4, <2>5, <2>6 DEF TapeReaches
  <2> QED  BY <2>7, <2>8, <2>9
<1>3. CASE Stop
  <2>1. UNCHANGED <<data, stamps, torn, mark, writer>> /\ (\A e \in Takes : gap[e] \subseteq gap'[e])
    BY <1>3 DEF Stop
  <2>2. \A c \in Channels : Reached(c)' = Reached(c)
    BY <1>3 DEF Stop, Reached, SwappedOut, FlushControl, Flushers
  <2> QED  BY <2>1, <2>2, QuietTape
<1>4. CASE Joined
  <2>1. UNCHANGED <<data, stamps, torn, mark, writer>> /\ (\A e \in Takes : gap[e] \subseteq gap'[e])
    BY <1>4 DEF Joined, EnterPass
  <2>2. \A c \in Channels : Reached(c)' = Reached(c)
    BY <1>4 DEF Joined, EnterPass, Reached, SwappedOut, FlushControl, Flushers
  <2> QED  BY <2>1, <2>2, QuietTape
<1>5. CASE DrainAgain
  <2>1. UNCHANGED <<data, stamps, torn, mark, writer>> /\ (\A e \in Takes : gap[e] \subseteq gap'[e])
    BY <1>5 DEF DrainAgain, EnterPass
  <2>2. \A c \in Channels : Reached(c)' = Reached(c)
    BY <1>5 DEF DrainAgain, EnterPass, Reached, SwappedOut, FlushControl, Flushers
  <2> QED  BY <2>1, <2>2, QuietTape
<1>6. CASE DrainEnds
  <2>1. UNCHANGED <<data, stamps, torn, mark, writer>> /\ (\A e \in Takes : gap[e] \subseteq gap'[e])
    BY <1>6 DEF DrainEnds
  <2>2. \A c \in Channels : Reached(c)' = Reached(c)
    BY <1>6 DEF DrainEnds, Reached, SwappedOut, FlushControl, Flushers
  <2> QED  BY <2>1, <2>2, QuietTape
<1>7. ASSUME NEW f \in Flushers, NEW b \in Streams, ReadStream(f, b) PROVE TapeAligned' /\ TapeGapless' /\ TapeReaches'
  <2>1. UNCHANGED <<data, stamps, torn, mark, writer>> /\ (\A e \in Takes : gap[e] \subseteq gap'[e])
    BY <1>7 DEF ReadStream
  <2>2. \A c \in Channels : Reached(c)' = Reached(c)
    BY <1>7 DEF ReadStream, Reached, SwappedOut, FlushControl, Flushers
  <2> QED  BY <2>1, <2>2, QuietTape
<1>8. ASSUME NEW f \in Flushers, SwapActions(f) PROVE TapeAligned' /\ TapeGapless' /\ TapeReaches'
  <2>1. UNCHANGED <<data, stamps, torn, mark, writer>> /\ (\A e \in Takes : gap[e] \subseteq gap'[e])
    BY <1>8 DEF SwapActions
  <2>2. \A c \in Channels : Reached(c)' = Reached(c)
    BY <1>8 DEF SwapActions, Reached, SwappedOut, FlushControl, Flushers
  <2> QED  BY <2>1, <2>2, QuietTape
<1>9. ASSUME NEW f \in Flushers, AppendBatch(f) PROVE TapeAligned' /\ TapeGapless' /\ TapeReaches'
  <2>1. /\ UNCHANGED <<torn, gap, mark, writer>>
        /\ \A x \in Takes \ {writer} : data'[x] = data[x] /\ stamps'[x] = stamps[x]
    BY <1>9, OthersKept DEF AppendBatch, Appended
  <2>2. TapeAligned'
    BY <1>9, <2>1, AppendTape DEF TapeAligned
  <2>3. TapeGapless'
    BY <1>9, <2>1, AppendTape DEF TapeGapless
  <2>4. TapeReaches'
    <3> SUFFICES ASSUME NEW c \in Channels
                 PROVE  /\ mark[writer][c] <= Reached(c)'
                        /\ c \notin torn[writer] =>
                              End(data'[writer][c], mark[writer][c]) <= Reached(c)'
                        /\ c \notin torn[writer] \cup gap[writer] =>
                              End(data'[writer][c], mark[writer][c]) = Reached(c)'
      BY <2>1, Zenon DEF TapeReaches
    <3>1. CASE c = chan[f]
      BY <1>9, <3>1, AppendTape
    <3>2. CASE c # chan[f]
      BY <1>9, <3>2, AppendTape DEF TapeReaches
    <3> QED  BY <3>1, <3>2
  <2> QED  BY <2>2, <2>3, <2>4
<1>10. ASSUME NEW f \in Flushers, AppendFails(f) PROVE TapeAligned' /\ TapeGapless' /\ TapeReaches'
  BY <1>10, FailedTape
<1>11. ASSUME NEW f \in Flushers, EndPass(f) PROVE TapeAligned' /\ TapeGapless' /\ TapeReaches'
  <2>1. UNCHANGED <<data, stamps, torn, mark, writer>> /\ (\A e \in Takes : gap[e] \subseteq gap'[e])
    BY <1>11 DEF EndPass, Leave
  <2>2. \A c \in Channels : Reached(c)' = Reached(c)
    BY <1>11 DEF EndPass, Leave, Reached, SwappedOut, FlushControl, Flushers
  <2> QED  BY <2>1, <2>2, QuietTape
<1>12. CASE Close
  <2>1. UNCHANGED <<data, stamps, torn, gap, mark>> /\ writer' = NoTake
    BY <1>12 DEF Close
  <2> QED  BY <2>1 DEF TapeAligned, TapeGapless, TapeReaches
<1>13. CASE UNCHANGED vars
  <2>1. UNCHANGED <<data, stamps, torn, mark, writer>> /\ (\A e \in Takes : gap[e] \subseteq gap'[e])
    BY <1>13 DEF vars
  <2>2. \A c \in Channels : Reached(c)' = Reached(c)
    BY <1>13 DEF vars, Reached, SwappedOut, FlushControl, Flushers
  <2> QED  BY <2>1, <2>2, QuietTape
<1> QED
  BY <1>1, <1>2, <1>3, <1>4, <1>5, <1>6, <1>7, <1>8, <1>9, <1>10, <1>11, <1>12, <1>13
  DEF Next, StopCall, DrainThread, Flush, Flushers

LEMMA FinalizedMark == TypeOK /\ [Next]_vars =>
    \A x \in Takes : status[x] = "finalized" => mark'[x] = mark[x]
<1> DEFINE K == \A x \in Takes : status[x] = "finalized" => mark'[x] = mark[x]
<1> SUFFICES ASSUME TypeOK, [Next]_vars PROVE K
  OBVIOUS
<1>0. mark \in [Takes -> [Channels -> Nat]]
  BY DEF TypeOK
<1> USE <1>0 DEF rows, flush, tape, marks
<1>1. ASSUME NEW c \in Channels, Publish(c) PROVE K
  BY <1>1 DEF Publish
<1>2. ASSUME NEW e \in Takes, Start(e) PROVE K
  BY <1>2 DEF Start
<1>3. CASE Stop
  BY <1>3 DEF Stop
<1>4. CASE Joined
  BY <1>4 DEF Joined, EnterPass
<1>5. CASE DrainAgain
  BY <1>5 DEF DrainAgain, EnterPass
<1>6. CASE DrainEnds
  BY <1>6 DEF DrainEnds
<1>7. ASSUME NEW f \in Flushers, NEW c \in Streams, ReadStream(f, c) PROVE K
  BY <1>7 DEF ReadStream, Oldest
<1>8. ASSUME NEW f \in Flushers, SwapActions(f) PROVE K
  BY <1>8 DEF SwapActions
<1>9. ASSUME NEW f \in Flushers, AppendBatch(f) PROVE K
  BY <1>9 DEF AppendBatch, Appended, Advance, Grow, Longer
<1>10. ASSUME NEW f \in Flushers, AppendFails(f) PROVE K
  BY <1>10 DEF AppendFails, Tear, Leave
<1>11. ASSUME NEW f \in Flushers, EndPass(f) PROVE K
  BY <1>11 DEF EndPass, Leave
<1>12. CASE Close
  BY <1>12 DEF Close
<1>13. CASE UNCHANGED vars
  BY <1>13 DEF vars
<1> QED
  BY <1>1, <1>2, <1>3, <1>4, <1>5, <1>6, <1>7, <1>8, <1>9, <1>10, <1>11, <1>12, <1>13
  DEF Next, StopCall, DrainThread, Flush, Flushers

\* The open episode stays open until it is closed.
LEMMA OpenStays == TypeOK /\ FlushControl /\ [Next]_vars /\ ~Close =>
    \A x \in Takes : x = writer => status'[x] = "recording"
<1> DEFINE K == \A x \in Takes : x = writer => status'[x] = "recording"
<1> SUFFICES ASSUME TypeOK, FlushControl, [Next]_vars, ~Close PROVE K
  OBVIOUS
<1>0. /\ at \in [{"drain", "final"} -> {"off", "next", "append"}]
      /\ into \in [{"drain", "final"} -> Takes \cup {NoTake}]
      /\ status \in [Takes -> Closed \cup {"none", "recording"}]
      /\ writer \in Takes \cup {NoTake}
      /\ owner \in {"idle", "join", "flush", "close"}
  BY DEF TypeOK, Channels, Flushers
<1> USE <1>0 DEF FlushControl, rows, flush, tape, marks
<1>1. ASSUME NEW c \in Channels, Publish(c) PROVE K
  BY <1>1 DEF Publish
<1>2. ASSUME NEW e \in Takes, Start(e) PROVE K
  BY <1>2 DEF Start
<1>3. CASE Stop
  BY <1>3 DEF Stop
<1>4. CASE Joined
  BY <1>4 DEF Joined, EnterPass
<1>5. CASE DrainAgain
  BY <1>5 DEF DrainAgain, EnterPass
<1>6. CASE DrainEnds
  BY <1>6 DEF DrainEnds
<1>7. ASSUME NEW f \in Flushers, NEW c \in Streams, ReadStream(f, c) PROVE K
  BY <1>7 DEF ReadStream, Oldest
<1>8. ASSUME NEW f \in Flushers, SwapActions(f) PROVE K
  BY <1>8 DEF SwapActions
<1>9. ASSUME NEW f \in Flushers, AppendBatch(f) PROVE K
  BY <1>9 DEF AppendBatch, Appended, Advance, Grow, Longer
<1>10. ASSUME NEW f \in Flushers, AppendFails(f) PROVE K
  BY <1>10 DEF AppendFails, Tear, Leave
<1>11. ASSUME NEW f \in Flushers, EndPass(f) PROVE K
  BY <1>11 DEF EndPass, Leave
<1>12. CASE Close
  BY <1>12 DEF Close
<1>13. CASE UNCHANGED vars
  BY <1>13 DEF vars
<1> QED
  BY <1>1, <1>2, <1>3, <1>4, <1>5, <1>6, <1>7, <1>8, <1>9, <1>10, <1>11, <1>12, <1>13
  DEF Next, StopCall, DrainThread, Flush, Flushers

\* Closing is the only step that makes an episode finalized.
LEMMA CloseCompletes ==
    ASSUME TypeOK, FlushControl, FlushDelivers, TapeReaches, FinalizedComplete, Close
    PROVE  FinalizedComplete'
<1>1. /\ writer \in Takes /\ status \in [Takes -> Closed \cup {"none", "recording"}]
      /\ \A g \in Flushers : at[g] = "off"
      /\ UNCHANGED <<data, torn, gap, mark, owed>>
      /\ \A e \in Takes \ {writer} : status'[e] = status[e]
  <2>1. at \in [Flushers -> {"off", "next", "append"}]
    BY DEF TypeOK
  <2> QED  BY <2>1 DEF Close, FlushControl, FlushDelivers, TypeOK, Flushers, flush, tape, marks
<1>2. \A c \in Channels : Reached(c) = cursor[c]
  BY <1>1 DEF Reached, SwappedOut, Flushers
<1>3. \A c \in Channels : c \notin torn[writer] \cup gap[writer] =>
          End(data[writer][c], mark[writer][c]) >= owed[writer][c]
  <2>1. cursor \in [Channels -> Nat] /\ owed[writer] \in [Channels -> Nat]
    BY <1>1 DEF TypeOK
  <2> QED  BY <1>1, <1>2, <2>1 DEF TapeReaches, FlushDelivers, Close
<1> QED  BY <1>1, <1>3 DEF FinalizedComplete

LEMMA CompleteStep ==
    TypeOK /\ FlushControl /\ FlushDelivers /\ BlankTape /\ TapeReaches /\ FinalizedComplete /\ [Next]_vars
        => FinalizedComplete'
<1> SUFFICES ASSUME TypeOK, FlushControl, FlushDelivers, BlankTape, TapeReaches, FinalizedComplete, [Next]_vars
             PROVE  FinalizedComplete'
  OBVIOUS
<1>1. CASE Close
  BY <1>1, CloseCompletes
<1>2. CASE ~Close
  <2>1. \A e \in Takes \ {writer} :
           /\ data'[e] = data[e] /\ torn'[e] = torn[e] /\ gap'[e] = gap[e] /\ owed'[e] = owed[e]
           /\ status'[e] = "finalized" => status[e] = "finalized"
    BY OthersKept, StatusKept
  <2>2. \A e \in Takes : status[e] = "finalized" => mark'[e] = mark[e]
    BY <1>2, FinalizedMark
  <2>3. \A e \in Takes : status'[e] = "finalized" => e # writer
    BY <1>2, OpenStays
  <2> QED  BY <2>1, <2>2, <2>3 DEF FinalizedComplete
<1> QED  BY <1>1, <1>2

LEMMA InitInv == Init => RecorderInv
<1> SUFFICES ASSUME Init PROVE RecorderInv
  OBVIOUS
<1>1. FlushControl /\ BatchRead /\ TapeReaches /\ BlankTape /\ FlushDelivers
  BY DEF Init, FlushControl, BatchRead, TapeReaches, BlankTape, FlushDelivers, Flushers, Channels, Nowhere
<1>2. TapeAligned /\ TapeGapless
  <2>1. /\ Ordered(<<>>) /\ Runs(<<>>)
        /\ \A m \in Nat : Gapless(<<>>, m)
    BY DEF Ordered, Runs, Gapless
  <2> QED  BY <2>1 DEF Init, TapeAligned, TapeGapless, Nowhere
<1>3. FinalizedComplete
  BY DEF Init, FinalizedComplete
<1> QED  BY <1>1, <1>2, <1>3 DEF RecorderInv

\* The inductive invariant of the recorder.
THEOREM RecorderCorrect == Spec => []RecorderInv
<1>1. TypeOK /\ RecorderInv /\ [Next]_vars => RecorderInv'
  BY ControlStep, BatchStep, BlankStep, DeliverStep, TapeStep, CompleteStep DEF RecorderInv
<1> QED  BY <1>1, InitInv, RecorderTypeCorrect, PTL DEF Spec

-----------------------------------------------------------------------------
(* What follows.                                                           *)

\* The drain thread and the flush of stop() never append at once.
THEOREM FlushersExclude == Spec => []OneFlusher
<1>1. RecorderInv => OneFlusher
  BY OneAtOnce DEF RecorderInv
<1> QED  BY <1>1, RecorderCorrect, PTL

\* Rows and timestamps of a stream stay aligned, in order and without doubles.
THEOREM TapesAligned == Spec => []TapeAligned
<1>1. RecorderInv => TapeAligned
  BY DEF RecorderInv
<1> QED  BY <1>1, RecorderCorrect, PTL

\* No row is missing between two drains that the ring was not overrun in.
THEOREM TapesGapless == Spec => []TapeGapless
<1>1. RecorderInv => TapeGapless
  BY DEF RecorderInv
<1> QED  BY <1>1, RecorderCorrect, PTL

\* A finalized episode holds all that was published before stop().
THEOREM FinalizedIsComplete == Spec => []FinalizedComplete
<1>1. RecorderInv => FinalizedComplete
  BY DEF RecorderInv
<1> QED  BY <1>1, RecorderCorrect, PTL

\* Nobody appends to a closed episode, and it stays closed as it was.
THEOREM ClosedUntouched == Spec => ClosedStays
<1>1. TypeOK /\ RecorderInv /\ [Next]_vars =>
         [\A e \in Takes : status[e] \in Closed =>
             data'[e] = data[e] /\ stamps'[e] = stamps[e] /\ status'[e] = status[e]]_vars
  <2> SUFFICES ASSUME TypeOK, RecorderInv, [Next]_vars, NEW e \in Takes, status[e] \in Closed
               PROVE  data'[e] = data[e] /\ stamps'[e] = stamps[e] /\ status'[e] = status[e]
    OBVIOUS
  <2>1. e # writer
    BY DEF RecorderInv, FlushControl, Closed
  <2> QED  BY <2>1, OthersKept, StatusKept DEF RecorderInv, Closed
<1> QED  BY <1>1, RecorderTypeCorrect, RecorderCorrect, PTL DEF Spec, ClosedStays
-----------------------------------------------------------------------------
(* The tape as it was promised.                                            *)

\* How far a tape is vouched for changes with its arrays only.
LEMMA UptoValue ==
    ASSUME NEW e \in Takes
    PROVE  /\ Lost[e] = torn[e] \cup gap[e]
           /\ \A c \in Channels :
                 Upto[e][c] = IF c \in torn[e] \cup gap[e] THEN 0 ELSE End(data[e][c], mark[e][c])
BY DEF Lost, Upto

LEMMA UptoStays ==
    UNCHANGED <<data, mark, torn, gap>> => UNCHANGED <<Upto, Lost>>
BY DEF Upto, Lost, End

\* A step that changes neither the arrays nor the control of an episode.
LEMMA QuietStep ==
    UNCHANGED <<index, writer, status, mark, owed, data, torn, gap>>
        /\ (owner # "idle" <=> owner' # "idle") => UNCHANGED Tape!vars
BY UptoStays, Zenon DEF Tape!vars, Stopping

\* Channel c of the open episode is given up, if it was not before.
LEMMA LoseChannel ==
    ASSUME TypeOK, writer \in Takes, NEW c \in Channels,
           UNCHANGED mark,
           \A e \in Takes \ {writer} : data'[e] = data[e] /\ torn'[e] = torn[e] /\ gap'[e] = gap[e],
           torn'[writer] \cup gap'[writer] = torn[writer] \cup gap[writer] \cup {c},
           \A d \in Channels \ {c} : data'[writer][d] = data[writer][d]
    PROVE  /\ Lost' = [Lost EXCEPT ![writer] = @ \cup {c}]
           /\ Upto' = [Upto EXCEPT ![writer][c] = 0]
<1>1. Lost' = [Lost EXCEPT ![writer] = @ \cup {c}]
  BY DEF Lost
<1>2. ASSUME NEW e \in Takes, NEW d \in Channels
      PROVE  Upto'[e][d] = IF e = writer /\ d = c THEN 0 ELSE Upto[e][d]
  <2>1. Upto'[e][d] = IF d \in torn'[e] \cup gap'[e] THEN 0 ELSE End(data'[e][d], mark[e][d])
    BY DEF Upto, Lost, End
  <2>2. Upto[e][d] = IF d \in torn[e] \cup gap[e] THEN 0 ELSE End(data[e][d], mark[e][d])
    BY UptoValue
  <2>3. CASE e = writer /\ d = c
    BY <2>1, <2>3
  <2>4. CASE ~(e = writer /\ d = c)
    <3>1. /\ data'[e][d] = data[e][d]
          /\ d \in torn'[e] \cup gap'[e] <=> d \in torn[e] \cup gap[e]
      BY <2>4
    <3> QED  BY <2>1, <2>2, <2>4, <3>1
  <2> QED  BY <2>3, <2>4
<1>3. Upto' = [Upto EXCEPT ![writer][c] = 0]
  <2>1. /\ Upto = [e \in Takes |-> [d \in Channels |-> Upto[e][d]]]
        /\ Upto' = [e \in Takes |-> [d \in Channels |-> Upto'[e][d]]]
    BY DEF Upto
  <2> QED  BY <1>2, <2>1
<1> QED  BY <1>1, <1>3

\* Every step of the recorder is one of the tape, or none.
LEMMA RecorderTapeStep ==
    ASSUME TypeOK, RecorderInv, [Next]_vars
    PROVE  [Tape!Next]_Tape!vars
<1>0. /\ FlushControl /\ BatchRead /\ TapeReaches /\ BlankTape /\ FlushDelivers /\ TapeAligned /\ TapeGapless
      /\ Actions \in Channels /\ Streams \subseteq Channels
  BY DEF RecorderInv, Channels
<1>1. ASSUME NEW b \in Channels, Publish(b) PROVE [Tape!Next]_Tape!vars
  <2>1. UNCHANGED <<Upto, Lost>>
    BY <1>1, UptoStays DEF Publish, tape, marks
  <2> QED  BY <1>1, <2>1 DEF Publish, tape, marks, Tape!vars, Tape!Next, Stopping, Tape!Publish
<1>2. ASSUME NEW e \in Takes, Start(e) PROVE [Tape!Next]_Tape!vars
  <2>1. UNCHANGED <<data, torn, gap>> /\ mark' = [mark EXCEPT ![e] = index]
    BY <1>2 DEF Start, tape
  <2>2. Lost' = Lost
    BY <2>1 DEF Lost
  <2>3. /\ torn[e] = {} /\ gap[e] = {} /\ \A c \in Channels : data[e][c] = <<>>
    BY <1>0, <1>2 DEF Start, BlankTape
  <2>4. mark'[e] = index /\ \A x \in Takes \ {e} : mark'[x] = mark[x]
    BY <2>1 DEF TypeOK
  <2>5. ASSUME NEW x \in Takes, NEW d \in Channels
        PROVE  Upto'[x][d] = IF x = e THEN index[d] ELSE Upto[x][d]
    BY <2>1, <2>3, <2>4 DEF Upto, Lost, End
  <2>6. Upto' = [Upto EXCEPT ![e] = index]
    <3>1. index = [d \in Channels |-> index[d]]
      BY DEF TypeOK
    <3>2. /\ Upto = [x \in Takes |-> [d \in Channels |-> Upto[x][d]]]
          /\ Upto' = [x \in Takes |-> [d \in Channels |-> Upto'[x][d]]]
      BY DEF Upto
    <3> QED  BY <2>5, <3>1, <3>2
  <2> QED  BY <1>2, <2>2, <2>6 DEF Start, marks, Tape!vars, Tape!Next, Stopping, Tape!Begin
<1>3. CASE Stop
  <2>1. UNCHANGED <<Upto, Lost>>
    BY <1>3, UptoStays DEF Stop, tape
  <2> QED  BY <1>3, <2>1 DEF Stop, rows, tape, Tape!vars, Tape!Next, Stopping, Tape!AskStop
<1>4. CASE Joined
  BY <1>4, QuietStep DEF Joined, rows, tape, marks
<1>5. CASE DrainAgain
  BY <1>5, QuietStep DEF DrainAgain, rows, tape, marks
<1>6. CASE DrainEnds
  BY <1>6, QuietStep DEF DrainEnds, rows, tape, marks
<1>7. ASSUME NEW f \in Flushers, NEW b \in Streams, ReadStream(f, b) PROVE [Tape!Next]_Tape!vars
  <2>1. UNCHANGED <<index, writer, owner, status, mark, owed, data, torn>>
    BY <1>7 DEF ReadStream, rows, marks
  <2>2. CASE gap' = gap
    BY <2>1, <2>2, QuietStep
  <2>3. CASE gap' # gap
    <3>1. writer \in Takes /\ gap' = [gap EXCEPT ![writer] = @ \cup {b}]
      BY <1>0, <1>7, <2>3 DEF ReadStream, FlushControl, TypeOK, Flushers
    <3>2. /\ Lost' = [Lost EXCEPT ![writer] = @ \cup {b}]
          /\ Upto' = [Upto EXCEPT ![writer][b] = 0]
      <4>1. /\ \A e \in Takes \ {writer} : gap'[e] = gap[e]
            /\ gap'[writer] = gap[writer] \cup {b}
        BY <3>1 DEF TypeOK
      <4> QED  BY <1>0, <2>1, <3>1, <4>1, LoseChannel
    <3> QED  BY <1>0, <2>1, <3>1, <3>2 DEF Tape!vars, Tape!Next, Stopping, Tape!Lose, Tape!Loses
  <2> QED  BY <2>2, <2>3
<1>8. ASSUME NEW f \in Flushers, SwapActions(f) PROVE [Tape!Next]_Tape!vars
  BY <1>8, QuietStep DEF SwapActions, tape, marks
<1>9. ASSUME NEW f \in Flushers, AppendBatch(f) PROVE [Tape!Next]_Tape!vars
  <2> DEFINE c == chan[f]  n == batch[f].hi
  <2>1. /\ UNCHANGED <<index, writer, owner, status, mark, owed, torn, gap>>
        /\ at[f] = "append"
    BY <1>9 DEF AppendBatch, Appended, marks
  <2>2. /\ writer \in Takes /\ c \in Channels
        /\ \A d \in Channels \ {c} : data'[writer][d] = data[writer][d]
        /\ c \notin torn[writer] \cup gap[writer] => End(data'[writer][c], mark[writer][c]) = n
    BY <1>0, <1>9, AppendTape
  <2>3. \A x \in Takes \ {writer} : data'[x] = data[x]
    BY <1>0, <1>9, OthersKept DEF Next, DrainThread, StopCall, Flush, Flushers
  <2>4. Lost' = Lost
    BY <2>1 DEF Lost
  <2>5. ASSUME NEW x \in Takes, NEW d \in Channels
        PROVE  Upto'[x][d] = IF d \in torn[x] \cup gap[x] THEN 0 ELSE End(data'[x][d], mark[x][d])
    BY <2>1 DEF Upto, Lost, End
  <2>6. CASE c \in torn[writer] \cup gap[writer]
    <3>1. \A x \in Takes, d \in Channels : Upto'[x][d] = Upto[x][d]
      BY <2>2, <2>3, <2>5, <2>6, UptoValue
    <3>2. /\ Upto = [x \in Takes |-> [d \in Channels |-> Upto[x][d]]]
          /\ Upto' = [x \in Takes |-> [d \in Channels |-> Upto'[x][d]]]
      BY DEF Upto
    <3>3. Upto' = Upto
      BY <3>1, <3>2
    <3> QED  BY <2>1, <2>4, <3>3 DEF Tape!vars, Stopping
  <2>7. CASE c \notin torn[writer] \cup gap[writer]
    <3>1. \A x \in Takes, d \in Channels :
             Upto'[x][d] = IF x = writer /\ d = c THEN n ELSE Upto[x][d]
      BY <2>2, <2>3, <2>5, <2>7, UptoValue
    <3>2. /\ Upto = [x \in Takes |-> [d \in Channels |-> Upto[x][d]]]
          /\ Upto' = [x \in Takes |-> [d \in Channels |-> Upto'[x][d]]]
      BY DEF Upto
    <3>3. Upto' = [Upto EXCEPT ![writer][c] = n]
      BY <2>2, <3>1, <3>2
    <3>4. n \in Upto[writer][c] .. index[c]
      <4>1. batch[f].lo \in Nat /\ n \in Nat /\ index[c] \in Nat /\ cursor[c] \in Nat
        BY <2>2 DEF TypeOK, Batch
      <4>2. /\ batch[f].lo <= n
            /\ c = Actions => n = cursor[Actions]
            /\ c # Actions => cursor[c] = batch[f].lo /\ n <= index[c]
        BY <1>0, <2>1, <2>2, <2>7 DEF BatchRead
      <4>3. n <= index[c]
        BY <1>0, <2>2, <4>1, <4>2 DEF FlushDelivers
      <4>4. Upto[writer][c] = Reached(c)
        BY <1>0, <2>2, <2>7, UptoValue DEF TapeReaches
      <4>5. Reached(c) = batch[f].lo
        <5>1. \A g \in Flushers : g # f => at[g] = "off"
          BY <1>0, <2>1, OneAtOnce DEF OneFlusher, Flushers
        <5> QED  BY <2>1, <4>2, <5>1 DEF Reached, SwappedOut, Flushers
      <4> QED  BY <4>1, <4>2, <4>3, <4>4, <4>5
    <3>5. c \notin Lost[writer]
      BY <2>2, <2>7, UptoValue
    <3>6. writer # NoTake
      BY <2>2
    <3> QED  BY <2>1, <2>2, <2>4, <3>3, <3>4, <3>5, <3>6 DEF Tape!vars, Tape!Next, Stopping, Tape!Copy
  <2> QED  BY <2>6, <2>7
<1>10. ASSUME NEW f \in Flushers, AppendFails(f) PROVE [Tape!Next]_Tape!vars
  <2> DEFINE c == chan[f]
  <2>1. /\ UNCHANGED <<index, writer, status, mark, owed>>
        /\ into[f] = writer /\ writer \in Takes /\ c \in Channels
        /\ owner' = IF f = "final" THEN "idle" ELSE owner
        /\ f = "final" => owner # "idle"
    BY <1>0, <1>10 DEF AppendFails, Leave, rows, marks, FlushControl, TypeOK, Flushers
  <2>2. \/ UNCHANGED <<Upto, Lost>>
        \/ /\ Lost' = [Lost EXCEPT ![writer] = @ \cup {c}]
           /\ Upto' = [Upto EXCEPT ![writer][c] = 0]
    <3>1. CASE UNCHANGED <<data, torn, gap>>
      BY <2>1, <3>1, UptoStays
    <3>2. CASE ~UNCHANGED <<data, torn, gap>>
      <4>1. \A e \in Takes \ {writer} : data'[e] = data[e] /\ torn'[e] = torn[e] /\ gap'[e] = gap[e]
        BY <1>10, <2>1 DEF AppendFails, Tear, TypeOK
      <4>2. \A d \in Channels \ {c} : data'[writer][d] = data[writer][d]
        BY <1>10, <2>1 DEF AppendFails, Tear, TypeOK
      <4>3. torn'[writer] \cup gap'[writer] = torn[writer] \cup gap[writer] \cup {c}
        BY <1>10, <2>1, <3>2 DEF AppendFails, Tear, TypeOK
      <4> QED  BY <2>1, <4>1, <4>2, <4>3, LoseChannel
    <3> QED  BY <3>1, <3>2
  <2>3. writer # NoTake
    BY <2>1
  <2>4. CASE f = "final"
    BY <2>1, <2>2, <2>3, <2>4 DEF Tape!vars, Tape!Next, Stopping, Tape!StopFails, Tape!Loses
  <2>5. CASE f # "final"
    BY <2>1, <2>2, <2>3, <2>5 DEF Tape!vars, Tape!Next, Stopping, Tape!Lose, Tape!Loses
  <2> QED  BY <2>4, <2>5
<1>11. ASSUME NEW f \in Flushers, EndPass(f) PROVE [Tape!Next]_Tape!vars
  BY <1>0, <1>11, QuietStep DEF EndPass, Leave, rows, tape, marks, FlushControl
<1>12. CASE Close
  <2>1. UNCHANGED <<Upto, Lost>>
    BY <1>12, UptoStays DEF Close, tape, marks
  <2>2. writer \in Takes /\ at["drain"] = "off" /\ at["final"] = "off"
    BY <1>0, <1>12 DEF Close, FlushControl, TypeOK
  <2>3. \A d \in Channels \ Lost[writer] : owed[writer][d] <= Upto[writer][d]
    <3> SUFFICES ASSUME NEW d \in Channels, d \notin torn[writer] \cup gap[writer]
                 PROVE  owed[writer][d] <= Upto[writer][d]
      BY <2>2, UptoValue
    <3>1. Upto[writer][d] = Reached(d)
      BY <1>0, <2>2, UptoValue DEF TapeReaches
    <3>2. Reached(d) = cursor[d]
      BY <2>2 DEF Reached, SwappedOut
    <3> QED  BY <1>0, <1>12, <3>1, <3>2 DEF Close, FlushDelivers
  <2> QED  BY <1>12, <2>1, <2>3 DEF Close, Closed, rows, marks, Tape!vars, Tape!Next, Stopping, Tape!Close
<1>13. CASE UNCHANGED vars
  BY <1>13, QuietStep DEF vars, rows, tape, marks
<1> QED
  BY <1>1, <1>2, <1>3, <1>4, <1>5, <1>6, <1>7, <1>8, <1>9, <1>10, <1>11, <1>12, <1>13
  DEF Next, StopCall, DrainThread, Flush, Flushers

\* The recorder implements EpisodeTape: whatever appends fail and however the
\* drain thread and stop() interleave, a tape grows at its end, is closed with
\* what was due, and then stays.
THEOREM RecorderKeepsTape == Spec => ImplementsTape
<1>1. Init => Tape!Init
  <2> SUFFICES ASSUME Init PROVE Tape!Init
    OBVIOUS
  <2>1. Upto = [e \in Takes |-> Nowhere] /\ Lost = [e \in Takes |-> {}]
    BY DEF Init, Upto, Lost, End, Nowhere
  <2> QED  BY <2>1 DEF Init, Nowhere, Stopping, Tape!Init, Tape!Nowhere
<1>2. TypeOK /\ RecorderInv /\ [Next]_vars => [Tape!Next]_Tape!vars
  BY RecorderTapeStep
<1> QED  BY <1>1, <1>2, RecorderTypeCorrect, RecorderCorrect, PTL DEF Spec, ImplementsTape, Tape!Spec
=============================================================================
