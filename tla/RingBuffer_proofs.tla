-------------------------- MODULE RingBuffer_proofs --------------------------
(***************************************************************************)
(* Proofs about RingBuffer, for every capacity, number of fields and set   *)
(* of readers.  The inductive invariant is RingInv.                        *)
(***************************************************************************)
EXTENDS RingBuffer, TLAPS

-----------------------------------------------------------------------------
(* Arithmetic of slots.                                                    *)

\* Division with remainder, the form in which the other lemmas use it.
LEMMA DivMod ==
    ASSUME NEW C \in Nat \ {0}, NEW a \in Nat
    PROVE  /\ a \div C \in Nat
           /\ a % C \in 0 .. (C - 1)
           /\ a = C * (a \div C) + (a % C)
OBVIOUS

\* Multiples of C are monotone, and distinct ones are at least C apart.
LEMMA Multiples ==
    ASSUME NEW C \in Nat \ {0}, NEW p \in Nat, NEW q \in Nat
    PROVE  /\ C * p \in Nat
           /\ p <= q => C * p <= C * q
           /\ p < q => C * p + C <= C * q
<1>1. C * p \in Nat
  OBVIOUS
<1>2. ASSUME p <= q PROVE C * p <= C * q
  <2>1. PICK d \in Nat : q = p + d
    BY <1>2
  <2>2. C * q = C * p + C * d
    BY <2>1
  <2>3. C * d \in Nat
    OBVIOUS
  <2> QED BY <2>2, <2>3
<1>3. ASSUME p < q PROVE C * p + C <= C * q
  <2>1. PICK d \in Nat : q = p + 1 + d
    BY <1>3
  <2>2. C * q = C * p + C + C * d
    BY <2>1
  <2>3. C * d \in Nat
    OBVIOUS
  <2> QED BY <2>2, <2>3
<1> QED BY <1>1, <1>2, <1>3

\* Two rows less than one capacity apart never share a slot.
LEMMA SlotsDiffer ==
    ASSUME NEW C \in Nat \ {0}, NEW a \in Nat, NEW b \in Nat, a < b, b < a + C
    PROVE  a % C # b % C
<1> DEFINE p == a \div C
           q == b \div C
<1>1. p \in Nat /\ q \in Nat /\ a % C \in Nat /\ b % C \in Nat
  BY DivMod
<1>2. a = C * p + (a % C) /\ b = C * q + (b % C)
  BY DivMod
<1> SUFFICES ASSUME a % C = b % C PROVE FALSE
  OBVIOUS
<1> HIDE DEF p, q
<1>3. C * p \in Nat /\ C * q \in Nat
  BY <1>1
<1>4. CASE q <= p
  <2>1. C * q <= C * p
    BY <1>1, <1>4, Multiples
  <2> QED BY <2>1, <1>1, <1>2, <1>3
<1>5. CASE p < q
  <2>1. C * p + C <= C * q
    BY <1>1, <1>5, Multiples
  <2> QED BY <2>1, <1>1, <1>2, <1>3
<1> QED BY <1>4, <1>5, <1>1

\* A row and the row one capacity later share their slot.
LEMMA SlotRepeats ==
    ASSUME NEW C \in Nat \ {0}, NEW a \in Nat
    PROVE  (a + C) % C = a % C
<1> DEFINE p == a \div C
           q == (a + C) \div C
<1>0. a + C \in Nat
  OBVIOUS
<1>1. p \in Nat /\ q \in Nat /\ a % C \in 0 .. (C - 1) /\ (a + C) % C \in 0 .. (C - 1)
  BY <1>0, DivMod
<1>2. a = C * p + (a % C) /\ a + C = C * q + ((a + C) % C)
  BY <1>0, DivMod
<1> HIDE DEF p, q
<1>3. C * p \in Nat /\ C * q \in Nat /\ C * (p + 1) = C * p + C
  BY <1>1
<1>4. CASE q <= p
  <2>1. C * q <= C * p
    BY <1>1, <1>4, Multiples
  <2> QED BY <2>1, <1>1, <1>2, <1>3
<1>5. CASE q = p + 1
  BY <1>1, <1>2, <1>3, <1>5
<1>6. CASE p + 1 < q
  <2>1. C * (p + 1) + C <= C * q
    BY <1>1, <1>6, Multiples
  <2> QED BY <2>1, <1>1, <1>2, <1>3
<1> QED BY <1>4, <1>5, <1>6, <1>1

\* Every row has a slot of the ring.
LEMMA SlotInRing ==
    ASSUME NEW s \in Nat
    PROVE  Slot(s) \in Slots
BY RingAssumption, DivMod DEF Slot, Slots

-----------------------------------------------------------------------------
(* Type correctness.                                                       *)

LEMMA InitTypeOK == Init => TypeOK
BY RingAssumption
   DEF Init, TypeOK, NoRead, Call, Cell, Row, Zeroed, Columns, Slots

LEMMA StepTypeOK == TypeOK /\ [Next]_vars => TypeOK'
<1> SUFFICES ASSUME TypeOK, [Next]_vars PROVE TypeOK'
  OBVIOUS
<1> USE RingAssumption DEF TypeOK
<1>1. CASE StoreColumn
  <2>1. NextColumn \in Columns
    BY <1>1 DEF NextColumn, TS, Columns, StoreColumn
  <2>2. Slot(writeIndex) \in Slots
    BY SlotInRing
  <2> QED BY <1>1, <2>1, <2>2 DEF StoreColumn, Row
<1>2. CASE PublishRow
  BY <1>2 DEF PublishRow
<1>3. ASSUME NEW r \in Readers, NEW d \in BOOLEAN, NEW lo \in Nat,
             NEW cols \in SUBSET Columns, Begin(r, d, lo, cols)
      PROVE  TypeOK'
  <2>1. cols \X (lo .. (writeIndex - 1)) \in SUBSET (Columns \X Nat)
    OBVIOUS
  <2> DEFINE call == [busy |-> TRUE, drain |-> d, lo |-> lo, hi |-> writeIndex,
                   cols |-> cols, todo |-> cols \X (lo .. (writeIndex - 1)),
                   got |-> {}]
  <2>2. call \in Call
    BY <2>1 DEF Call
  <2>3. read' = [read EXCEPT ![r] = call]
    BY <1>3 DEF Begin
  <2> QED BY <2>2, <2>3, <1>3 DEF Begin
<1>4. ASSUME NEW r \in Readers, BeginLatest(r) \/ BeginLatestTs(r) \/ BeginDrain(r)
      PROVE  TypeOK'
  <2>1. Columns \in SUBSET Columns /\ {TS} \in SUBSET Columns
    BY DEF TS, Columns
  <2>2. CASE BeginLatest(r)
    <3>1. PICK n \in 1 .. (Capacity + 1) :
             Begin(r, FALSE, Larger(0, writeIndex - Smaller(n, Capacity)), Columns)
      BY <2>2 DEF BeginLatest
    <3>2. Larger(0, writeIndex - Smaller(n, Capacity)) \in Nat
      BY DEF Larger, Smaller
    <3> QED BY <3>1, <3>2, <2>1, <1>3
  <2>3. CASE BeginLatestTs(r)
    <3>1. writeIndex - 1 \in Nat
      BY <2>3 DEF BeginLatestTs
    <3> QED BY <3>1, <2>3, <2>1, <1>3 DEF BeginLatestTs
  <2>4. CASE BeginDrain(r)
    <3>1. Larger(cursor[r], writeIndex - Capacity) \in Nat
      BY DEF Larger
    <3> QED BY <3>1, <2>4, <2>1, <1>3 DEF BeginDrain
  <2> QED BY <1>4, <2>2, <2>3, <2>4
<1>5. ASSUME NEW r \in Readers, CopyCell(r)
      PROVE  TypeOK'
  <2>1. PICK p \in read[r].todo :
           /\ read' = [read EXCEPT
                 ![r].todo = @ \ {p},
                 ![r].got = @ \cup {[col |-> p[1], row |-> p[2],
                                     val |-> cell[p[1]][Slot(p[2])]]}]
           /\ UNCHANGED <<writeIndex, cell, written, cursor>>
    BY <1>5 DEF CopyCell
  <2>2. read[r] \in Call
    OBVIOUS
  <2>3. p[1] \in Columns /\ p[2] \in Nat
    BY <2>2 DEF Call
  <2>4. [col |-> p[1], row |-> p[2], val |-> cell[p[1]][Slot(p[2])]] \in Cell
    BY <2>3, SlotInRing DEF Cell
  <2>5. /\ read[r].todo \ {p} \in SUBSET (Columns \X Nat)
        /\ read[r].got \cup {[col |-> p[1], row |-> p[2],
                              val |-> cell[p[1]][Slot(p[2])]]} \in SUBSET Cell
    BY <2>2, <2>4 DEF Call
  <2>6. read'[r] \in Call
    BY <2>1, <2>2, <2>5 DEF Call
  <2> QED BY <2>1, <2>6
<1>6. ASSUME NEW r \in Readers, Return(r)
      PROVE  TypeOK'
  BY <1>6 DEF Return, Call
<1>7. CASE UNCHANGED vars
  BY <1>7 DEF vars
<1> QED BY <1>1, <1>2, <1>4, <1>5, <1>6, <1>7 DEF Next, Writer, Reader

\* The shared words and the readers' private state keep their types.
THEOREM TypeCorrect == Spec => []TypeOK
BY InitTypeOK, StepTypeOK, PTL DEF Spec

-----------------------------------------------------------------------------
(* The data: published rows and what readers copied of them.               *)

LEMMA InitRingInv == Init => RingInv
<1> SUFFICES ASSUME Init PROVE RingInv
  OBVIOUS
<1>1. TypeOK
  BY InitTypeOK
<1>2. \A r \in Readers : CallCoversRun(r)
  <2> SUFFICES ASSUME NEW r \in Readers PROVE CallCoversRun(r)
    OBVIOUS
  <2>1. /\ read[r].lo = 0 /\ read[r].hi = 0 /\ read[r].cols = {}
        /\ read[r].todo = {} /\ read[r].got = {}
        /\ cursor[r] = 0 /\ writeIndex = 0
    BY DEF Init, NoRead
  <2> QED BY <2>1, RingAssumption DEF CallCoversRun
<1>3. RowInProgress
  BY RingAssumption DEF Init, RowInProgress, Stored, TS, Columns
<1>4. PublishedRowsHeld /\ SlotsOnlyRise
  BY RingAssumption DEF Init, PublishedRowsHeld, SlotsOnlyRise, Larger
<1>5. CopiedRowsWhole /\ DamageIsLater
  BY DEF Init, NoRead, CopiedRowsWhole, DamageIsLater
<1> QED BY <1>1, <1>2, <1>3, <1>4, <1>5 DEF RingInv

\* Storing a column of the row in progress disturbs no other row the ring
\* still holds, except the oldest one, whose slot it is.
LEMMA StoreKeepsRingInv == RingInv /\ TypeOK' /\ StoreColumn => RingInv'
<1> SUFFICES ASSUME RingInv, TypeOK', StoreColumn PROVE RingInv'
  OBVIOUS
<1> USE RingAssumption
<1> DEFINE i == writeIndex
           k == NextColumn
<1>1. /\ i \in Nat /\ written \in 0 .. NumFields /\ k \in Columns
      /\ Slot(i) \in Slots
      /\ cell \in [Columns -> [Slots -> Row]]
  BY SlotInRing DEF RingInv, TypeOK, StoreColumn, NextColumn, TS, Columns
<1>2. /\ writeIndex' = i /\ written' = written + 1
      /\ UNCHANGED <<read, cursor>>
      /\ cell' = [cell EXCEPT ![k][Slot(i)] = i]
  BY DEF StoreColumn
<1>3. \A c \in Columns : Stored(c)' <=> Stored(c) \/ c = k
  BY <1>1, <1>2 DEF Stored, NextColumn, TS, Columns
<1>4. \A c \in Columns, j \in Slots :
         cell'[c][j] = IF c = k /\ j = Slot(i) THEN i ELSE cell[c][j]
  BY <1>1, <1>2
<1>5. RowInProgress'
  BY <1>1, <1>2, <1>3, <1>4 DEF RingInv, RowInProgress, Slot
<1>6. PublishedRowsHeld'
  <2> SUFFICES ASSUME NEW s \in Larger(0, i - Capacity) .. (i - 1), NEW c \in Columns
               PROVE  cell'[c][Slot(s)] =
                        IF s = i - Capacity /\ Stored(c)' THEN i ELSE s
    BY <1>2 DEF PublishedRowsHeld, Slot
  <2>1. s \in Nat /\ s < i /\ s >= i - Capacity
    BY <1>1 DEF Larger
  <2>2. cell[c][Slot(s)] = IF s = i - Capacity /\ Stored(c) THEN i ELSE s
    BY DEF RingInv, PublishedRowsHeld
  <2>3. Slot(s) \in Slots
    BY <2>1, SlotInRing
  <2>4. CASE s = i - Capacity
    <3>1. Slot(s) = Slot(i)
      <4>1. s + Capacity = i
        BY <2>1, <2>4, <1>1
      <4> QED BY <2>1, <4>1, SlotRepeats DEF Slot
    <3> QED BY <1>3, <1>4, <2>2, <2>3, <2>4, <3>1
  <2>5. CASE s # i - Capacity
    <3>1. i < s + Capacity
      BY <2>1, <2>5, <1>1
    <3>2. Slot(s) # Slot(i)
      BY <1>1, <2>1, <3>1, SlotsDiffer DEF Slot
    <3> QED BY <1>4, <2>2, <2>3, <2>5, <3>2
  <2> QED BY <2>4, <2>5
<1>7. SlotsOnlyRise'
  <2> SUFFICES ASSUME NEW c \in Columns, NEW s \in 0 .. (i - 1)
               PROVE  s <= cell'[c][Slot(s)] /\ cell'[c][Slot(s)] <= i
    BY <1>2 DEF SlotsOnlyRise, Slot
  <2>1. s <= cell[c][Slot(s)] /\ cell[c][Slot(s)] <= i /\ Slot(s) \in Slots
    BY SlotInRing, <1>1 DEF RingInv, SlotsOnlyRise
  <2> QED BY <1>1, <1>4, <2>1
<1>8. (\A r \in Readers : CallCoversRun(r))'
  BY <1>2 DEF RingInv, CallCoversRun
<1>9. CopiedRowsWhole' /\ DamageIsLater'
  BY <1>2 DEF RingInv, CopiedRowsWhole, DamageIsLater
<1> QED BY <1>5, <1>6, <1>7, <1>8, <1>9 DEF RingInv

\* Publishing a row that is stored in every column makes it readable whole.
LEMMA PublishKeepsRingInv == RingInv /\ TypeOK' /\ PublishRow => RingInv'
<1> SUFFICES ASSUME RingInv, TypeOK', PublishRow PROVE RingInv'
  OBVIOUS
<1> USE RingAssumption
<1> DEFINE i == writeIndex
<1>1. /\ i \in Nat /\ written = NumFields + 1
      /\ writeIndex' = i + 1 /\ written' = 0
      /\ UNCHANGED <<cell, read, cursor>>
  BY DEF PublishRow, RingInv, TypeOK
<1>2. \A c \in Columns : Stored(c) /\ ~Stored(c)'
  BY <1>1 DEF Stored, TS, Columns
<1>3. \A c \in Columns : cell[c][Slot(i)] = i
  BY <1>2 DEF RingInv, RowInProgress
<1>4. RowInProgress'
  BY <1>2 DEF RowInProgress
<1>5. PublishedRowsHeld'
  <2> SUFFICES ASSUME NEW s \in Larger(0, i + 1 - Capacity) .. i, NEW c \in Columns
               PROVE  cell[c][Slot(s)] = s
    BY <1>1, <1>2 DEF PublishedRowsHeld, Slot
  <2>1. s \in Nat /\ s <= i /\ s > i - Capacity
    BY <1>1 DEF Larger
  <2>2. CASE s = i
    BY <1>3, <2>2
  <2>3. CASE s < i
    <3>1. s \in Larger(0, i - Capacity) .. (i - 1)
      BY <1>1, <2>1, <2>3 DEF Larger
    <3> QED BY <2>1, <3>1, <1>1 DEF RingInv, PublishedRowsHeld
  <2> QED BY <2>1, <2>2, <2>3, <1>1
<1>6. SlotsOnlyRise'
  <2> SUFFICES ASSUME NEW c \in Columns, NEW s \in 0 .. i
               PROVE  s <= cell[c][Slot(s)] /\ cell[c][Slot(s)] <= i + 1
    BY <1>1 DEF SlotsOnlyRise, Slot
  <2>1. Slot(s) \in Slots /\ cell[c][Slot(s)] \in Row
    BY SlotInRing, <1>1 DEF RingInv, TypeOK
  <2>2. CASE s = i
    BY <1>1, <1>3, <2>2
  <2>3. CASE s # i
    BY <1>1, <2>1, <2>3 DEF RingInv, SlotsOnlyRise, Row, Zeroed
  <2> QED BY <2>2, <2>3
<1>7. (\A r \in Readers : CallCoversRun(r))'
  BY <1>1 DEF RingInv, CallCoversRun, TypeOK, Call
<1>8. CopiedRowsWhole' /\ DamageIsLater'
  BY <1>1 DEF RingInv, CopiedRowsWhole, DamageIsLater, TypeOK, Call, Cell, Row, Zeroed
<1> QED BY <1>4, <1>5, <1>6, <1>7, <1>8 DEF RingInv


\* Beginning a call opens a run of published rows, none of them copied yet.
LEMMA BeginKeepsRingInv ==
    ASSUME RingInv, TypeOK', NEW r \in Readers, NEW d \in BOOLEAN, NEW lo \in Nat,
           NEW cols \in SUBSET Columns, Begin(r, d, lo, cols),
           lo <= writeIndex, writeIndex - lo <= Capacity
    PROVE  RingInv'
<1> DEFINE call == [busy |-> TRUE, drain |-> d, lo |-> lo, hi |-> writeIndex,
                    cols |-> cols, todo |-> cols \X (lo .. (writeIndex - 1)),
                    got |-> {}]
<1>1. /\ read' = [read EXCEPT ![r] = call]
      /\ UNCHANGED <<writeIndex, cell, written, cursor>>
      /\ read \in [Readers -> Call]
  BY DEF Begin, RingInv, TypeOK
<1>2. /\ read'[r] = call
      /\ \A q \in Readers : q # r => read'[q] = read[q]
  BY <1>1
<1>3. PublishedRowsHeld' /\ RowInProgress' /\ SlotsOnlyRise'
  BY <1>1 DEF RingInv, PublishedRowsHeld, RowInProgress, SlotsOnlyRise, Slot, Stored
<1>4. (\A q \in Readers : CallCoversRun(q))'
  <2> SUFFICES ASSUME NEW q \in Readers PROVE CallCoversRun(q)'
    OBVIOUS
  <2>1. CallCoversRun(q)
    BY DEF RingInv
  <2>2. CASE q # r
    BY <1>1, <1>2, <2>1, <2>2 DEF CallCoversRun
  <2>3. CASE q = r
    BY <1>1, <1>2, <2>1, <2>3 DEF CallCoversRun, RingInv, TypeOK
  <2> QED BY <2>2, <2>3
<1>5. CopiedRowsWhole' /\ DamageIsLater'
  <2>1. \A q \in Readers : read'[q].got \subseteq read[q].got
    BY <1>2
  <2> QED BY <1>1, <2>1 DEF RingInv, CopiedRowsWhole, DamageIsLater
<1> QED BY <1>3, <1>4, <1>5 DEF RingInv

\* Copying a cell takes the row's own data unless the row has become the
\* oldest one or has left the ring.
LEMMA CopyKeepsRingInv ==
    ASSUME RingInv, TypeOK', NEW r \in Readers, CopyCell(r)
    PROVE  RingInv'
<1> USE RingAssumption
<1>1. PICK p \in read[r].todo :
         /\ read' = [read EXCEPT
               ![r].todo = @ \ {p},
               ![r].got = @ \cup {[col |-> p[1], row |-> p[2],
                                   val |-> cell[p[1]][Slot(p[2])]]}]
         /\ UNCHANGED <<writeIndex, cell, written, cursor>>
  BY DEF CopyCell
<1> DEFINE new == [col |-> p[1], row |-> p[2], val |-> cell[p[1]][Slot(p[2])]]
<1>2. read \in [Readers -> Call] /\ CallCoversRun(r) /\ writeIndex \in Nat
  BY DEF RingInv, TypeOK
<1>3. /\ read'[r].todo = read[r].todo \ {p}
      /\ read'[r].got = read[r].got \cup {new}
      /\ read'[r].lo = read[r].lo /\ read'[r].hi = read[r].hi
      /\ read'[r].cols = read[r].cols /\ read'[r].busy = read[r].busy
      /\ \A q \in Readers : q # r => read'[q] = read[q]
  BY <1>1, <1>2 DEF Call
<1>4. /\ p \in Columns \X Nat /\ p[1] \in Columns /\ p[2] \in 0 .. (writeIndex - 1)
      /\ p \in read[r].cols \X (read[r].lo .. (read[r].hi - 1))
      /\ p = <<p[1], p[2]>>
  BY <1>2 DEF CallCoversRun, Call
<1>5. PublishedRowsHeld' /\ RowInProgress' /\ SlotsOnlyRise'
  BY <1>1 DEF RingInv, PublishedRowsHeld, RowInProgress, SlotsOnlyRise, Slot, Stored
<1>6. new.col = p[1] /\ new.row = p[2] /\ new.val = cell[p[1]][Slot(p[2])]
  OBVIOUS
<1>7. /\ new.row <= new.val /\ new.val <= writeIndex
      /\ new.row > writeIndex - Capacity => new.val = new.row
  <2>1. p[2] <= cell[p[1]][Slot(p[2])] /\ cell[p[1]][Slot(p[2])] <= writeIndex
    BY <1>4 DEF RingInv, SlotsOnlyRise
  <2>2. ASSUME p[2] > writeIndex - Capacity
        PROVE  cell[p[1]][Slot(p[2])] = p[2]
    <3>1. p[2] \in Larger(0, writeIndex - Capacity) .. (writeIndex - 1)
      BY <1>2, <1>4, <2>2 DEF Larger
    <3> QED BY <1>2, <1>4, <2>2, <3>1 DEF RingInv, PublishedRowsHeld
  <2> QED BY <1>6, <2>1, <2>2
<1> HIDE DEF new
<1>8. CopiedRowsWhole' /\ DamageIsLater'
  <2> SUFFICES ASSUME NEW q \in Readers, NEW t \in read'[q].got
               PROVE  /\ t.row <= t.val /\ t.val <= writeIndex
                      /\ t.row > writeIndex - Capacity => t.val = t.row
    BY <1>1 DEF CopiedRowsWhole, DamageIsLater
  <2>1. CASE q = r /\ t = new
    BY <1>7, <2>1
  <2>2. CASE ~(q = r /\ t = new)
    <3>1. t \in read[q].got
      BY <1>3, <2>2
    <3> QED BY <3>1 DEF RingInv, CopiedRowsWhole, DamageIsLater
  <2> QED BY <2>1, <2>2
<1>9. (\A q \in Readers : CallCoversRun(q))'
  <2> SUFFICES ASSUME NEW q \in Readers PROVE CallCoversRun(q)'
    OBVIOUS
  <2>1. CASE q # r
    <3>1. CallCoversRun(q)
      BY DEF RingInv
    <3> QED BY <1>1, <1>3, <2>1, <3>1 DEF CallCoversRun
  <2>2. CASE q = r
    <3> DEFINE run == read[r].cols \X (read[r].lo .. (read[r].hi - 1))
    <3>1. \A t \in read'[r].got : <<t.col, t.row>> \in run \ read'[r].todo
      <4> SUFFICES ASSUME NEW t \in read'[r].got
                   PROVE  <<t.col, t.row>> \in run \ read'[r].todo
        OBVIOUS
      <4>1. CASE t = new
        BY <1>3, <1>4, <1>6, <4>1
      <4>2. CASE t # new
        <5>1. t \in read[r].got
          BY <1>3, <4>2
        <5> QED BY <1>2, <1>3, <5>1 DEF CallCoversRun
      <4> QED BY <4>1, <4>2
    <3>2. \A x \in run : x \notin read'[r].todo =>
             \E t \in read'[r].got : t.col = x[1] /\ t.row = x[2]
      <4> SUFFICES ASSUME NEW x \in run, x \notin read'[r].todo
                   PROVE  \E t \in read'[r].got : t.col = x[1] /\ t.row = x[2]
        OBVIOUS
      <4>1. CASE x = p
        BY <1>3, <1>6, <4>1
      <4>2. CASE x # p
        <5>1. x \notin read[r].todo
          BY <1>3, <4>2
        <5>2. PICK t \in read[r].got : t.col = x[1] /\ t.row = x[2]
          BY <1>2, <5>1 DEF CallCoversRun
        <5> QED BY <1>3, <5>2
      <4> QED BY <4>1, <4>2
    <3>3. \A t, u \in read'[r].got : t.col = u.col /\ t.row = u.row => t = u
      <4>1. \A t \in read[r].got : ~(t.col = new.col /\ t.row = new.row)
        BY <1>2, <1>4, <1>6 DEF CallCoversRun
      <4> QED BY <1>2, <1>3, <4>1 DEF CallCoversRun
    <3>4. read'[r].todo \subseteq run /\ (~read'[r].busy => read'[r].todo = {})
      BY <1>2, <1>3 DEF CallCoversRun
    <3> QED BY <1>1, <1>2, <1>3, <2>2, <3>1, <3>2, <3>3, <3>4 DEF CallCoversRun
  <2> QED BY <2>1, <2>2
<1> QED BY <1>5, <1>8, <1>9 DEF RingInv


LEMMA ReturnKeepsRingInv ==
    ASSUME RingInv, TypeOK', NEW r \in Readers, Return(r)
    PROVE  RingInv'
<1>1. /\ read' = [read EXCEPT ![r].busy = FALSE]
      /\ read[r].busy /\ read[r].todo = {}
      /\ cursor' = [cursor EXCEPT ![r] = IF read[r].drain THEN read[r].hi ELSE @]
      /\ UNCHANGED <<writeIndex, cell, written>>
  BY DEF Return
<1>2. read \in [Readers -> Call] /\ cursor \in [Readers -> Nat] /\ writeIndex \in Nat
  BY DEF RingInv, TypeOK
<1>3. \A q \in Readers :
         /\ read'[q].todo = read[q].todo /\ read'[q].got = read[q].got
         /\ read'[q].lo = read[q].lo /\ read'[q].hi = read[q].hi
         /\ read'[q].cols = read[q].cols
         /\ read'[q].busy = (q # r /\ read[q].busy)
  BY <1>1, <1>2 DEF Call
<1>4. \A q \in Readers : cursor'[q] = cursor[q] \/ cursor'[q] = read[q].hi
  BY <1>1, <1>2
<1>5. PublishedRowsHeld' /\ RowInProgress' /\ SlotsOnlyRise'
  BY <1>1 DEF RingInv, PublishedRowsHeld, RowInProgress, SlotsOnlyRise, Slot, Stored
<1>6. (\A q \in Readers : CallCoversRun(q))'
  <2> SUFFICES ASSUME NEW q \in Readers PROVE CallCoversRun(q)'
    OBVIOUS
  <2>1. CallCoversRun(q)
    BY DEF RingInv
  <2>2. q = r => read'[q].todo = {}
    BY <1>1, <1>3
  <2> QED BY <1>1, <1>3, <1>4, <2>1, <2>2 DEF CallCoversRun
<1>7. CopiedRowsWhole' /\ DamageIsLater'
  BY <1>1, <1>3 DEF RingInv, CopiedRowsWhole, DamageIsLater
<1> QED BY <1>5, <1>6, <1>7 DEF RingInv

\* The bounds of each kind of call are a run of published rows of the ring.
LEMMA CallKeepsRingInv ==
    ASSUME RingInv, TypeOK', NEW r \in Readers,
           BeginLatest(r) \/ BeginLatestTs(r) \/ BeginDrain(r)
    PROVE  RingInv'
<1> USE RingAssumption
<1>1. /\ Columns \in SUBSET Columns /\ {TS} \in SUBSET Columns
      /\ writeIndex \in Nat /\ cursor[r] \in Nat /\ cursor[r] <= writeIndex
  BY DEF TS, Columns, RingInv, TypeOK, CallCoversRun
<1>2. CASE BeginLatest(r)
  <2> DEFINE lo(n) == Larger(0, writeIndex - Smaller(n, Capacity))
  <2>1. PICK n \in 1 .. (Capacity + 1) : Begin(r, FALSE, lo(n), Columns)
    BY <1>2 DEF BeginLatest
  <2>2. lo(n) \in Nat /\ lo(n) <= writeIndex /\ writeIndex - lo(n) <= Capacity
    BY <1>1 DEF Larger, Smaller
  <2> HIDE DEF lo
  <2> QED BY <2>1, <2>2, <1>1, BeginKeepsRingInv
<1>3. CASE BeginLatestTs(r)
  <2>1. /\ writeIndex - 1 \in Nat /\ writeIndex - 1 <= writeIndex
        /\ writeIndex - (writeIndex - 1) <= Capacity
    BY <1>1, <1>3 DEF BeginLatestTs
  <2> QED BY <2>1, <1>1, <1>3, BeginKeepsRingInv DEF BeginLatestTs
<1>4. CASE BeginDrain(r)
  <2> DEFINE lo == Larger(cursor[r], writeIndex - Capacity)
  <2>1. lo \in Nat /\ lo <= writeIndex /\ writeIndex - lo <= Capacity
    BY <1>1 DEF Larger
  <2>2. Begin(r, TRUE, lo, Columns)
    BY <1>4 DEF BeginDrain
  <2> HIDE DEF lo
  <2> QED BY <2>1, <2>2, <1>1, BeginKeepsRingInv
<1> QED BY <1>2, <1>3, <1>4

LEMMA StutterKeepsRingInv == RingInv /\ UNCHANGED vars => RingInv'
BY DEF vars, RingInv, TypeOK, PublishedRowsHeld, RowInProgress, SlotsOnlyRise,
       CallCoversRun, CopiedRowsWhole, DamageIsLater, Slot, Stored

LEMMA StepRingInv == RingInv /\ [Next]_vars => RingInv'
<1> SUFFICES ASSUME RingInv, [Next]_vars PROVE RingInv'
  OBVIOUS
<1>1. TypeOK'
  BY StepTypeOK DEF RingInv
<1>2. CASE Writer
  BY <1>1, <1>2, StoreKeepsRingInv, PublishKeepsRingInv DEF Writer
<1>3. CASE \E r \in Readers : Reader(r)
  <2>1. PICK r \in Readers : Reader(r)
    BY <1>3
  <2> QED BY <1>1, <2>1, CallKeepsRingInv, CopyKeepsRingInv, ReturnKeepsRingInv
          DEF Reader
<1>4. CASE UNCHANGED vars
  BY <1>4, StutterKeepsRingInv
<1> QED BY <1>2, <1>3, <1>4 DEF Next

\* RingInv holds in every reachable state.
THEOREM RingCorrect == Spec => []RingInv
BY InitRingInv, StepRingInv, PTL DEF Spec

\* A published row stays complete until it is the oldest one in the ring and
\* push stores the next row over it.
THEOREM PublishedRowsStayHeld == Spec => []PublishedRowsHeld
<1>1. RingInv => PublishedRowsHeld
  BY DEF RingInv
<1> QED BY <1>1, RingCorrect, PTL

\* No reader ever takes a torn row for a row younger than the oldest one the
\* ring holds, whatever pushes interleave with its copy.
THEOREM YoungRowsNeverTorn == Spec => []CopiedRowsWhole
<1>1. RingInv => CopiedRowsWhole
  BY DEF RingInv
<1> QED BY <1>1, RingCorrect, PTL

\* Damage only ever shows later data.
THEOREM DamageOnlyLater == Spec => []DamageIsLater
<1>1. RingInv => DamageIsLater
  BY DEF RingInv
<1> QED BY <1>1, RingCorrect, PTL

-----------------------------------------------------------------------------
(* The ring implements the row log.                                        *)

LEMMA InitImplements == Init => Log!Init
BY DEF Init, Log!Init, Views, View, NoRead

\* Loading write_index and fixing the run is the log's Open.
LEMMA BeginImplementsOpen ==
    ASSUME RingInv, NEW r \in Readers, NEW d \in BOOLEAN, NEW lo \in Nat,
           NEW cols \in SUBSET Columns, Begin(r, d, lo, cols),
           lo <= writeIndex, writeIndex - lo <= Capacity
    PROVE  Log!Open(r)
<1>1. read \in [Readers -> Call] /\ writeIndex \in Nat
  BY DEF RingInv, TypeOK
<1>2. ~read[r].busy /\ UNCHANGED writeIndex
  BY DEF Begin
<1>3. /\ Views[r].open = read[r].busy
      /\ Views' = [Views EXCEPT ![r] =
                    [open |-> TRUE, lo |-> lo, hi |-> writeIndex,
                     cols |-> cols, cells |-> {}]]
  BY <1>1 DEF Begin, Views, View
<1>4. lo \in 0 .. writeIndex
  BY <1>1
<1> QED BY <1>2, <1>3, <1>4 DEF Log!Open

\* Returning delivers one admissible value per cell of the run.
LEMMA ReturnImplementsDeliver ==
    ASSUME RingInv, NEW r \in Readers, Return(r)
    PROVE  Log!Deliver(r)
<1> DEFINE call == read[r]
           run  == call.cols \X (call.lo .. (call.hi - 1))
           cellOf == [p \in run |-> CHOOSE t \in call.got : t.col = p[1] /\ t.row = p[2]]
           val  == [p \in run |-> cellOf[p].val]
<1>1. /\ read \in [Readers -> Call] /\ call \in Call /\ writeIndex \in Nat
      /\ call.busy /\ call.todo = {} /\ UNCHANGED writeIndex
      /\ read' = [read EXCEPT ![r].busy = FALSE]
  BY DEF RingInv, TypeOK, Return
<1>2. /\ \A t \in call.got : <<t.col, t.row>> \in run
      /\ \A p \in run : \E t \in call.got : t.col = p[1] /\ t.row = p[2]
      /\ \A t, u \in call.got : t.col = u.col /\ t.row = u.row => t = u
  BY <1>1 DEF RingInv, CallCoversRun
<1>3. \A p \in run : /\ cellOf[p] \in call.got
                     /\ cellOf[p].col = p[1] /\ cellOf[p].row = p[2]
  BY <1>2
<1>4. \A t \in call.got : /\ t \in Cell /\ t.row <= t.val /\ t.val <= writeIndex
                          /\ t.row > writeIndex - Capacity => t.val = t.row
  BY <1>1 DEF RingInv, Call, CopiedRowsWhole, DamageIsLater
<1> HIDE DEF cellOf, call, run
<1>5. val \in [run -> 0 .. writeIndex]
  <2> SUFFICES ASSUME NEW p \in run PROVE cellOf[p].val \in 0 .. writeIndex
    OBVIOUS
  <2>1. cellOf[p] \in Cell /\ cellOf[p].row <= cellOf[p].val
        /\ cellOf[p].val <= writeIndex
    BY <1>3, <1>4
  <2> QED BY <1>1, <2>1 DEF Cell, Row, Zeroed
<1>6. \A p \in run : val[p] \in Log!Deliverable(p[2])
  <2> SUFFICES ASSUME NEW p \in run PROVE cellOf[p].val \in Log!Deliverable(p[2])
    OBVIOUS
  <2>1. /\ cellOf[p] \in Cell /\ cellOf[p].row <= cellOf[p].val
        /\ cellOf[p].val <= writeIndex /\ cellOf[p].row = p[2]
        /\ cellOf[p].row > writeIndex - Capacity => cellOf[p].val = cellOf[p].row
    BY <1>3, <1>4
  <2>2. p[2] \in Nat
    BY <2>1 DEF Cell
  <2> QED BY <1>1, <2>1, <2>2, RingAssumption DEF Log!Deliverable, Cell, Row, Zeroed
<1>7. call.got = {[col |-> p[1], row |-> p[2], val |-> val[p]] : p \in run}
  <2>1. \A p \in run : [col |-> p[1], row |-> p[2], val |-> val[p]] = cellOf[p]
    <3> SUFFICES ASSUME NEW p \in run
                 PROVE  [col |-> p[1], row |-> p[2], val |-> cellOf[p].val] = cellOf[p]
      OBVIOUS
    <3>1. cellOf[p] \in Cell /\ cellOf[p].col = p[1] /\ cellOf[p].row = p[2]
      BY <1>3, <1>4
    <3> QED BY <3>1 DEF Cell
  <2>2. \A t \in call.got : t = cellOf[<<t.col, t.row>>]
    <3> SUFFICES ASSUME NEW t \in call.got PROVE t = cellOf[<<t.col, t.row>>]
      OBVIOUS
    <3>1. <<t.col, t.row>> \in run
      BY <1>2
    <3>2. /\ cellOf[<<t.col, t.row>>] \in call.got
          /\ cellOf[<<t.col, t.row>>].col = t.col
          /\ cellOf[<<t.col, t.row>>].row = t.row
      BY <1>3, <3>1
    <3> QED BY <1>2, <3>2
  <2> DEFINE delivered == {[col |-> p[1], row |-> p[2], val |-> val[p]] : p \in run}
  <2> HIDE DEF val
  <2>3. ASSUME NEW t \in call.got PROVE t \in delivered
    <3>1. <<t.col, t.row>> \in run
      BY <1>2
    <3>2. t = [col |-> <<t.col, t.row>>[1], row |-> <<t.col, t.row>>[2],
               val |-> val[<<t.col, t.row>>]]
      BY <2>1, <2>2, <3>1
    <3> QED BY <3>1, <3>2
  <2>4. ASSUME NEW p \in run
        PROVE  [col |-> p[1], row |-> p[2], val |-> val[p]] \in call.got
    BY <1>3, <2>1
  <2> QED BY <2>3, <2>4
<1> HIDE DEF val
<1>8. /\ Views[r].open /\ Views[r].cols = call.cols
      /\ Views[r].lo = call.lo /\ Views[r].hi = call.hi
      /\ Views' = [Views EXCEPT ![r].open = FALSE, ![r].cells = call.got]
  BY <1>1 DEF Views, View, Call, call
<1>9. DOMAIN val = run
  BY <1>5
<1>10. val \in [Views[r].cols \X Log!Run(Views[r].lo, Views[r].hi) -> 0 .. writeIndex]
  BY <1>5, <1>8 DEF Log!Run, run
<1>11. Views' = [Views EXCEPT
          ![r].open = FALSE,
          ![r].cells = {[col |-> p[1], row |-> p[2], val |-> val[p]] : p \in DOMAIN val}]
  BY <1>7, <1>8, <1>9
<1> QED BY <1>1, <1>6, <1>8, <1>9, <1>10, <1>11 DEF Log!Deliver

LEMMA StepImplements == RingInv /\ [Next]_vars => [Log!Next]_(Log!vars)
<1> SUFFICES ASSUME RingInv, [Next]_vars PROVE [Log!Next]_(Log!vars)
  OBVIOUS
<1>1. /\ writeIndex \in Nat /\ read \in [Readers -> Call]
      /\ cursor \in [Readers -> Nat]
  BY DEF RingInv, TypeOK
<1>2. CASE StoreColumn
  BY <1>2 DEF StoreColumn, Log!vars, Views, View
<1>3. CASE PublishRow
  BY <1>3 DEF PublishRow, Log!Next, Log!Publish, Views, View
<1>4. ASSUME NEW r \in Readers, BeginLatest(r) \/ BeginLatestTs(r) \/ BeginDrain(r)
      PROVE  Log!Open(r)
  <2>1. Columns \in SUBSET Columns /\ {TS} \in SUBSET Columns /\ cursor[r] <= writeIndex
    BY RingAssumption DEF TS, Columns, RingInv, CallCoversRun
  <2> USE RingAssumption
  <2>2. CASE BeginLatest(r)
    <3> DEFINE lo(n) == Larger(0, writeIndex - Smaller(n, Capacity))
    <3>1. PICK n \in 1 .. (Capacity + 1) : Begin(r, FALSE, lo(n), Columns)
      BY <2>2 DEF BeginLatest
    <3>2. lo(n) \in Nat /\ lo(n) <= writeIndex /\ writeIndex - lo(n) <= Capacity
      BY <1>1 DEF Larger, Smaller
    <3> HIDE DEF lo
    <3> QED BY <2>1, <3>1, <3>2, BeginImplementsOpen
  <2>3. CASE BeginLatestTs(r)
    <3>1. /\ writeIndex - 1 \in Nat /\ writeIndex - 1 <= writeIndex
          /\ writeIndex - (writeIndex - 1) <= Capacity
      BY <1>1, <2>3 DEF BeginLatestTs
    <3> QED BY <2>1, <2>3, <3>1, BeginImplementsOpen DEF BeginLatestTs
  <2>4. CASE BeginDrain(r)
    <3> DEFINE lo == Larger(cursor[r], writeIndex - Capacity)
    <3>1. lo \in Nat /\ lo <= writeIndex /\ writeIndex - lo <= Capacity
      BY <1>1, <2>1 DEF Larger
    <3>2. Begin(r, TRUE, lo, Columns)
      BY <2>4 DEF BeginDrain
    <3> HIDE DEF lo
    <3> QED BY <2>1, <3>1, <3>2, BeginImplementsOpen
  <2> QED BY <1>4, <2>2, <2>3, <2>4
<1>5. ASSUME NEW r \in Readers, CopyCell(r)
      PROVE  UNCHANGED Log!vars
  <2>1. PICK p \in read[r].todo :
           read' = [read EXCEPT
             ![r].todo = @ \ {p},
             ![r].got = @ \cup {[col |-> p[1], row |-> p[2],
                                 val |-> cell[p[1]][Slot(p[2])]]}]
    BY <1>5 DEF CopyCell
  <2>2. read[r].busy
    BY <2>1 DEF RingInv, CallCoversRun
  <2>3. \A q \in Readers : View(q)' = View(q)
    BY <1>1, <2>1, <2>2 DEF View, Call
  <2> QED BY <1>5, <2>3 DEF CopyCell, Log!vars, Views
<1>6. ASSUME NEW r \in Readers, Return(r)
      PROVE  Log!Deliver(r)
  BY <1>6, ReturnImplementsDeliver
<1>7. CASE UNCHANGED vars
  BY <1>7 DEF vars, Log!vars, Views, View
<1> QED BY <1>2, <1>3, <1>4, <1>5, <1>6, <1>7
        DEF Next, Writer, Reader, Log!Next

\* Every behaviour of the ring is a behaviour of the row log: reads are
\* atomic up to damage of the row at the end of the ring.
THEOREM RingImplementsRowLog == Spec => ImplementsRowLog
BY InitImplements, StepImplements, RingCorrect, PTL
   DEF Spec, ImplementsRowLog, Log!Spec

=============================================================================
