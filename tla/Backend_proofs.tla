--------------------------- MODULE Backend_proofs ---------------------------
(***************************************************************************)
(* Proofs about Backend, for every number of slots, every depth of the     *)
(* de-interleaver and every map of its delays: the frames are whole, a     *)
(* deleted backend is quiet, and the slots are a bounded queue.            *)
(***************************************************************************)
EXTENDS Backend, SequenceTheorems, TLAPS

\* Who has a slot that neither semaphore counts.
InCopy == IF ipc \in {"copy", "release"} THEN 1 ELSE 0
InWork == IF tpc \in {"work", "free"} THEN 1 ELSE 0
Unreleased == IF ipc = "release" THEN 1 ELSE 0

\* The segments in the slots, with the one that is copied and not announced.
InSlots == sent - taken

\* The lock says who is in process () or in stop_service; the thread of the
\* backend ends only when it is told to.
LockOwner ==
  /\ locker = "ofdm" <=> ipc # "idle"
  /\ locker = "gui" <=> gui = "stopping"
  /\ running <=> gui = "none"
  /\ ipc # "idle" => gui = "none"
  /\ tpc = "done" => ~running
  /\ gui = "deleted" => tpc = "done"

\* No slot is lost: it is free, used, or in the hands of one of the threads;
\* and the semaphores agree with the number of segments.
SlotsAccounted ==
  /\ freeSlots + usedSlots + InCopy + InWork = NumberSlots
  /\ InSlots = usedSlots + Unreleased + InWork

\* The slots hold the segments in the order in which they came.
SlotsInOrder ==
  /\ nextIn = SlotAt(InSlots)
  /\ \A k \in 0 .. InSlots - 1 : theData[SlotAt(k)] = taken + k + 1

\* The segments stored in the de-interleaver, and what a row holds: the row
\* where the next segment is stored holds the oldest one, or the zeros of the
\* start.
Stored == IF tpc = "free" THEN taken + 1 ELSE taken
OrZero(n) == IF n > 0 THEN n ELSE 0

RowsInOrder ==
  /\ \A d \in Rows :
       interleaveData[Row(interleaverIndex + d)] = OrZero(Stored - Depth + 1 + d)
  /\ countforInterleaver = (IF taken < Depth THEN taken ELSE Depth)

\* What was read from the rows.
ReadInOrder ==
  /\ tpc = "free" =>
       \A c \in Classes : tempX[c] = OrZero(taken + 1 - Depth + interleaveMap[c])
  /\ tpc = "decode" =>
       /\ taken > Depth
       /\ \A c \in Classes : tempX[c] = OrZero(taken - Depth + interleaveMap[c])

IInv == TypeOK /\ LockOwner /\ SlotsAccounted /\ SlotsInOrder /\ RowsInOrder /\ ReadInOrder

-----------------------------------------------------------------------------
(* Slots and rows.                                                         *)

At(o, k) == IF o + k >= NumberSlots THEN o + k - NumberSlots ELSE o + k

\* The slot that comes k after a slot is a slot, and different for each k.
LEMMA SlotInRange ==
  ASSUME NEW o \in Slots, NEW k \in 0 .. NumberSlots
  PROVE  At(o, k) \in Slots
  BY SlotsAssumption DEF Slots, At

\* Counted from one slot, different numbers are different slots.
LEMMA SlotsApart ==
  ASSUME NEW o \in Slots, NEW k \in 0 .. NumberSlots - 1, NEW j \in 0 .. NumberSlots - 1, k # j
  PROVE  At(o, k) # At(o, j)
  BY SlotsAssumption DEF Slots, At

\* One step further from the slot, or from where one starts to count.
LEMMA SlotStep ==
  ASSUME NEW o \in Slots, NEW k \in 0 .. NumberSlots - 1
  PROVE  /\ Step(At(o, k), NumberSlots) = At(o, k + 1)
         /\ Step(o, NumberSlots) \in Slots
         /\ At(Step(o, NumberSlots), k) = At(o, k + 1)
  BY SlotsAssumption DEF Slots, At, Step

\* The slot at distance 0 is the one counted from.
LEMMA SlotStart ==
  ASSUME NEW o \in Slots
  PROVE  At(o, 0) = o
  BY SlotsAssumption DEF Slots, At

\* The row that comes d after a row is a row, another one for d > 0.
LEMMA RowInRange ==
  ASSUME NEW i \in Rows, NEW d \in Rows
  PROVE  /\ Row(i + d) \in Rows
         /\ Row(i + d) = i <=> d = 0
  BY DepthAssumption DEF Rows, Row

\* After one step the rows come one earlier, and the one left comes last.
LEMMA RowStep ==
  ASSUME NEW i \in Rows, NEW d \in Rows
  PROVE  /\ Step(i, Depth) \in Rows
         /\ d < Depth - 1 => Row(Step(i, Depth) + d) = Row(i + (d + 1))
         /\ d = Depth - 1 => Row(Step(i, Depth) + d) = i
  BY DepthAssumption DEF Rows, Row, Step

-----------------------------------------------------------------------------
(* Sequences of consecutive numbers.                                       *)

Numbers(t, h) == [k \in 1 .. h |-> t + k]

\* h numbers after t.
LEMMA NumbersAreSeq ==
  ASSUME NEW t \in Nat, NEW h \in Nat
  PROVE  /\ Numbers(t, h) \in Seq(Nat) /\ Len(Numbers(t, h)) = h
         /\ \A k \in 1 .. h : Numbers(t, h)[k] = t + k
<1>1. Numbers(t, h) \in [1 .. h -> Nat]
  BY DEF Numbers
<1> QED
  BY <1>1 DEF Numbers

\* Without the last one they are one less.
LEMMA NumbersFront ==
  ASSUME NEW t \in Nat, NEW h \in Nat
  PROVE  SubSeq(Numbers(t, h + 1), 1, h) = Numbers(t, h)
<1> DEFINE s == Numbers(t, h + 1)
<1>1. s \in Seq(Nat) /\ Len(s) = h + 1 /\ \A k \in 1 .. h + 1 : s[k] = t + k
  BY NumbersAreSeq
<1>2. \A k \in 1 .. h : s[k] \in Nat /\ s[k] = t + k
  BY <1>1
<1> HIDE DEF s
<1>3. /\ SubSeq(s, 1, h) \in Seq(Nat) /\ Len(SubSeq(s, 1, h)) = h
      /\ \A k \in 1 .. h : SubSeq(s, 1, h)[k] = s[k]
  BY <1>2, SubSeqProperties
<1>4. /\ Numbers(t, h) \in Seq(Nat) /\ Len(Numbers(t, h)) = h
      /\ \A k \in 1 .. h : Numbers(t, h)[k] = t + k
  BY NumbersAreSeq
<1>5. SubSeq(s, 1, h) = Numbers(t, h)
  BY <1>2, <1>3, <1>4, SeqEqual
<1> QED
  BY <1>5 DEF s

\* Without the first one, which is t + 1, they are those after t + 1.
LEMMA NumbersTaken ==
  ASSUME NEW t \in Nat, NEW h \in Nat, h >= 1
  PROVE  /\ SubSeq(Numbers(t, h), 1, 1) = <<t + 1>>
         /\ SubSeq(Numbers(t, h), 2, h) = Numbers(t + 1, h - 1)
<1> DEFINE s == Numbers(t, h)
<1>1. s \in Seq(Nat) /\ Len(s) = h /\ \A k \in 1 .. h : s[k] \in Nat /\ s[k] = t + k
  <2>1. s \in Seq(Nat) /\ Len(s) = h /\ \A k \in 1 .. h : s[k] = t + k
    BY NumbersAreSeq
  <2>2. \A k \in 1 .. h : t + k \in Nat
    OBVIOUS
  <2> HIDE DEF s
  <2> QED
    BY <2>1, <2>2
<1>2. 1 \in 1 .. h /\ 2 .. h \subseteq 1 .. h /\ h - 1 \in Nat /\ t + 1 \in Nat
  OBVIOUS
<1>3. /\ Numbers(t + 1, h - 1) \in Seq(Nat) /\ Len(Numbers(t + 1, h - 1)) = h - 1
      /\ \A k \in 1 .. h - 1 : Numbers(t + 1, h - 1)[k] = t + 1 + k
  BY <1>2, NumbersAreSeq
<1> HIDE DEF s
<1>4. SubSeq(s, 1, 1) = <<t + 1>>
  <2>1. /\ SubSeq(s, 1, 1) \in Seq(Nat) /\ Len(SubSeq(s, 1, 1)) = 1
        /\ SubSeq(s, 1, 1)[1] = s[1]
    BY <1>1, <1>2, SubSeqProperties
  <2>2. /\ <<t + 1>> \in Seq(Nat) /\ Len(<<t + 1>>) = 1 /\ <<t + 1>>[1] = t + 1
    OBVIOUS
  <2>3. s[1] = t + 1
    BY <1>1, <1>2
  <2>4. \A k \in 1 .. 1 : SubSeq(s, 1, 1)[k] = <<t + 1>>[k]
    BY <2>1, <2>2, <2>3
  <2> QED
    BY <2>1, <2>2, <2>4, SeqEqual
<1>5. SubSeq(s, 2, h) = Numbers(t + 1, h - 1)
  <2>1. /\ SubSeq(s, 2, h) \in Seq(Nat)
        /\ Len(SubSeq(s, 2, h)) = IF 2 <= h THEN h - 2 + 1 ELSE 0
        /\ \A k \in 1 .. h - 2 + 1 : SubSeq(s, 2, h)[k] = s[2 + k - 1]
    BY <1>1, <1>2, SubSeqProperties
  <2>2. Len(SubSeq(s, 2, h)) = h - 1 /\ h - 2 + 1 = h - 1
    BY <2>1
  <2>3. ASSUME NEW k \in 1 .. h - 1
        PROVE  SubSeq(s, 2, h)[k] = t + 1 + k
    <3>1. 2 + k - 1 = k + 1 /\ k + 1 \in 1 .. h
      OBVIOUS
    <3>2. s[k + 1] = t + (k + 1)
      BY <1>1, <3>1
    <3> QED
      BY <2>1, <2>2, <3>1, <3>2
  <2>4. \A k \in 1 .. h - 1 : SubSeq(s, 2, h)[k] = Numbers(t + 1, h - 1)[k]
    BY <1>3, <2>3
  <2> QED
    BY <1>3, <2>1, <2>2, <2>4, SeqEqual
<1> QED
  BY <1>4, <1>5 DEF s

-----------------------------------------------------------------------------
(* The inductive invariant.                                                *)

\* At the start every slot is free and every row is empty.
LEMMA InitInv == Init => IInv
<1> SUFFICES ASSUME Init
             PROVE  IInv
  OBVIOUS
<1>1. TypeOK
  BY SlotsAssumption, DepthAssumption DEF Init, TypeOK, Slots, Rows, Classes
<1>2. LockOwner /\ SlotsAccounted /\ ReadInOrder
  BY SlotsAssumption
     DEF Init, LockOwner, SlotsAccounted, ReadInOrder, InCopy, InWork, InSlots, Unreleased
<1>3. SlotsInOrder
  BY SlotsAssumption DEF Init, SlotsInOrder, InSlots, SlotAt
<1>4. RowsInOrder
  <2>1. ASSUME NEW d \in Rows
        PROVE  interleaveData[Row(interleaverIndex + d)] = OrZero(Stored - Depth + 1 + d)
    <3>1. Row(interleaverIndex + d) \in Rows
      BY <1>1, RowInRange DEF TypeOK
    <3>2. OrZero(Stored - Depth + 1 + d) = 0
      BY DepthAssumption DEF Init, Stored, OrZero, Rows
    <3> QED
      BY <3>1, <3>2 DEF Init
  <2> QED
    BY <2>1, DepthAssumption DEF Init, RowsInOrder
<1> QED
  BY <1>1, <1>2, <1>3, <1>4 DEF IInv

\* What the invariant says of the slots stays where neither the slots nor the
\* numbers of segments change.
LEMMA SlotsStay ==
  ASSUME IInv, UNCHANGED <<theData, nextIn, nextOut, sent, taken>>
  PROVE  SlotsInOrder'
  BY DEF IInv, SlotsInOrder, InSlots, SlotAt

\* The same for the de-interleaver.
LEMMA RowsStay ==
  ASSUME IInv, UNCHANGED <<interleaveData, interleaverIndex, countforInterleaver, taken, Stored>>
  PROVE  RowsInOrder'
  BY DEF IInv, RowsInOrder

\* The call of process takes the lock; it moves no slot.
LEMMA ProcessInv ==
  ASSUME IInv, Process
  PROVE  IInv'
<1>1. TypeOK' /\ LockOwner'
  BY DEF Process, outVars, diVars, IInv, TypeOK, LockOwner
<1>2. SlotsAccounted'
  BY DEF Process, outVars, diVars, IInv, SlotsAccounted, InCopy, InWork, InSlots, Unreleased
<1>3. SlotsInOrder'
  BY SlotsStay DEF Process, outVars, diVars
<1>4. RowsInOrder' /\ ReadInOrder'
  BY RowsStay DEF Process, outVars, diVars, Stored, IInv, ReadInOrder
<1> QED
  BY <1>1, <1>2, <1>3, <1>4 DEF IInv

\* Taking a free slot moves it from the free ones to the one being copied to.
LEMMA AcquireFreeInv ==
  ASSUME IInv, AcquireFree
  PROVE  IInv'
<1>1. TypeOK' /\ LockOwner'
  BY SlotsAssumption DEF AcquireFree, outVars, diVars, IInv, TypeOK, LockOwner
<1>2. SlotsAccounted'
  BY SlotsAssumption
     DEF AcquireFree, outVars, diVars, IInv, TypeOK, SlotsAccounted, InCopy, InWork, InSlots,
         Unreleased
<1>3. SlotsInOrder'
  BY SlotsStay DEF AcquireFree, outVars, diVars
<1>4. RowsInOrder' /\ ReadInOrder'
  BY RowsStay DEF AcquireFree, outVars, diVars, Stored, IInv, ReadInOrder
<1> QED
  BY <1>1, <1>2, <1>3, <1>4 DEF IInv

\* The segment goes to the first slot beyond those that are waiting.
LEMMA CopyInv ==
  ASSUME IInv, Copy
  PROVE  IInv'
<1>1. /\ sent \in Nat /\ taken \in Nat /\ nextOut \in Slots /\ nextIn \in Slots
      /\ InSlots \in 0 .. NumberSlots - 1
  BY SlotsAssumption
     DEF Copy, IInv, TypeOK, SlotsAccounted, InCopy, InWork, InSlots, Unreleased
<1>2. nextIn = At(nextOut, InSlots) /\ InSlots' = InSlots + 1 /\ nextOut' = nextOut
  BY <1>1 DEF Copy, IInv, SlotsInOrder, SlotAt, At, outVars, InSlots
<1>3. nextIn' = At(nextOut, InSlots + 1) /\ nextIn' \in Slots
  <2>1. InSlots + 1 \in 0 .. NumberSlots
    BY <1>1, SlotsAssumption
  <2>2. nextIn' = At(nextOut, InSlots + 1)
    BY <1>1, <1>2, SlotStep DEF Copy
  <2> QED
    BY <1>1, <2>1, <2>2, SlotInRange
<1>4. TypeOK' /\ LockOwner'
  BY <1>3 DEF Copy, outVars, diVars, IInv, TypeOK, LockOwner
<1>5. SlotsAccounted'
  BY <1>1, <1>2, SlotsAssumption
     DEF Copy, outVars, diVars, IInv, TypeOK, SlotsAccounted, InCopy, InWork, Unreleased
<1>6. SlotsInOrder'
  <2>1. nextIn' = SlotAt(InSlots)'
    BY <1>2, <1>3 DEF SlotAt, At
  <2>2. ASSUME NEW k \in 0 .. InSlots
        PROVE  theData'[At(nextOut, k)] = taken + k + 1
    <3>1. At(nextOut, k) \in Slots
      BY <1>1, SlotInRange, SlotsAssumption
    <3>2. CASE k = InSlots
      BY <1>1, <1>2, <3>1, <3>2 DEF Copy, IInv, TypeOK, InSlots
    <3>3. CASE k # InSlots
      <4>1. k \in 0 .. InSlots - 1 /\ k \in 0 .. NumberSlots - 1
        BY <1>1, <3>3, SlotsAssumption
      <4>2. At(nextOut, k) # nextIn
        BY <1>1, <1>2, <3>3, <4>1, SlotsApart
      <4>3. theData[At(nextOut, k)] = taken + k + 1
        BY <4>1 DEF IInv, SlotsInOrder, SlotAt, At
      <4> QED
        BY <3>1, <4>2, <4>3 DEF Copy, IInv, TypeOK
    <3> QED
      BY <3>2, <3>3
  <2>3. taken' = taken /\ 0 .. InSlots' - 1 = 0 .. InSlots
    BY <1>1, <1>2 DEF Copy, outVars
  <2> QED
    BY <1>2, <2>1, <2>2, <2>3 DEF SlotsInOrder, SlotAt, At
<1>7. RowsInOrder' /\ ReadInOrder'
  BY RowsStay DEF Copy, outVars, diVars, Stored, IInv, ReadInOrder
<1> QED
  BY <1>4, <1>5, <1>6, <1>7 DEF IInv

\* The slot that was copied to joins those that are in order.
LEMMA ReleaseUsedInv ==
  ASSUME IInv, ReleaseUsed
  PROVE  IInv'
<1>1. SlotsAccounted'
  BY SlotsAssumption
     DEF ReleaseUsed, outVars, diVars, IInv, TypeOK, SlotsAccounted, InCopy, InWork, InSlots,
         Unreleased
<1>2. TypeOK' /\ LockOwner'
  <2>1. usedSlots' \in 0 .. NumberSlots
    BY SlotsAssumption
       DEF ReleaseUsed, IInv, TypeOK, SlotsAccounted, InCopy, InWork
  <2> QED
    BY <2>1 DEF ReleaseUsed, outVars, diVars, IInv, TypeOK, LockOwner
<1>3. SlotsInOrder'
  BY SlotsStay DEF ReleaseUsed, outVars, diVars
<1>4. RowsInOrder' /\ ReadInOrder'
  BY RowsStay DEF ReleaseUsed, outVars, diVars, Stored, IInv, ReadInOrder
<1> QED
  BY <1>1, <1>2, <1>3, <1>4 DEF IInv

\* Taking a used slot moves the first of those in order to the thread.
LEMMA AcquireUsedInv ==
  ASSUME IInv, AcquireUsed
  PROVE  IInv'
<1>1. SlotsAccounted'
  BY SlotsAssumption
     DEF AcquireUsed, inVars, diVars, IInv, TypeOK, SlotsAccounted, InCopy, InWork, InSlots,
         Unreleased
<1>2. TypeOK' /\ LockOwner'
  BY SlotsAssumption DEF AcquireUsed, inVars, diVars, IInv, TypeOK, LockOwner
<1>3. SlotsInOrder'
  BY SlotsStay DEF AcquireUsed, inVars, diVars
<1>4. RowsInOrder' /\ ReadInOrder'
  BY RowsStay DEF AcquireUsed, inVars, diVars, Stored, IInv, ReadInOrder
<1> QED
  BY <1>1, <1>2, <1>3, <1>4 DEF IInv

\* The oldest row is read before the segment is stored there; each class is
\* read from the row that is as old as its delay wants.
LEMMA WorkInv ==
  ASSUME IInv, Work
  PROVE  IInv'
<1>1. /\ taken \in Nat /\ interleaverIndex \in Rows /\ nextOut \in Slots /\ tpc = "work"
      /\ InSlots \in Nat /\ InSlots >= 1
  BY SlotsAssumption
     DEF Work, IInv, TypeOK, SlotsAccounted, InWork, Unreleased
<1>2. theData[nextOut] = taken + 1
  <2>1. 0 \in 0 .. InSlots - 1 /\ SlotAt(0) = nextOut
    BY <1>1, SlotStart DEF SlotAt, At
  <2> QED
    BY <1>1, <2>1 DEF IInv, SlotsInOrder
<1>3. interleaverIndex' \in Rows
  BY <1>1, RowStep, DepthAssumption DEF Work, Rows
<1>4. \A c \in Classes : tempX'[c] = OrZero(taken + 1 - Depth + interleaveMap[c])
  <2> SUFFICES ASSUME NEW c \in Classes
               PROVE  tempX'[c] = OrZero(taken + 1 - Depth + interleaveMap[c])
    OBVIOUS
  <2>1. interleaveMap[c] \in Rows
    BY MapAssumption DEF Classes, Rows
  <2>2. tempX'[c] = interleaveData[Row(interleaverIndex + interleaveMap[c])]
    BY DEF Work
  <2>3. tempX'[c] = OrZero(Stored - Depth + 1 + interleaveMap[c])
    BY <2>1, <2>2 DEF IInv, RowsInOrder
  <2>4. Stored - Depth + 1 + interleaveMap[c] = taken + 1 - Depth + interleaveMap[c]
    BY <1>1, <2>1, DepthAssumption DEF Stored, Rows
  <2> QED
    BY <2>3, <2>4
<1>5. TypeOK' /\ LockOwner'
  <2>1. tempX' \in [Classes -> Nat]
    <3>1. \A c \in Classes : OrZero(taken + 1 - Depth + interleaveMap[c]) \in Nat
      BY <1>1, MapAssumption, DepthAssumption DEF OrZero, Classes, Rows
    <3>2. tempX' = [c \in Classes |-> tempX'[c]]
      BY DEF Work
    <3> QED
      BY <1>4, <3>1, <3>2
  <2>2. interleaveData' \in [Rows -> Nat]
    BY <1>1, <1>2 DEF Work, IInv, TypeOK
  <2> QED
    BY <1>3, <2>1, <2>2 DEF Work, inVars, IInv, TypeOK, LockOwner
<1>6. SlotsAccounted'
  BY DEF Work, inVars, IInv, SlotsAccounted, InCopy, InWork, InSlots, Unreleased
<1>7. SlotsInOrder'
  BY SlotsStay DEF Work, inVars
<1>8. RowsInOrder'
  <2>1. Stored' = taken + 1 /\ Stored = taken /\ UNCHANGED <<taken, countforInterleaver>>
    BY DEF Work, Stored
  <2>2. ASSUME NEW d \in Rows
        PROVE  interleaveData'[Row(interleaverIndex' + d)] = OrZero(Stored' - Depth + 1 + d)
    <3>1. CASE d < Depth - 1
      <4>1. d + 1 \in Rows /\ d + 1 # 0
        BY <3>1, DepthAssumption DEF Rows
      <4>2. Row(interleaverIndex' + d) = Row(interleaverIndex + (d + 1))
        BY <1>1, <3>1, RowStep DEF Work
      <4>3. Row(interleaverIndex + (d + 1)) \in Rows
            /\ Row(interleaverIndex + (d + 1)) # interleaverIndex
        BY <1>1, <4>1, RowInRange
      <4>4. interleaveData'[Row(interleaverIndex + (d + 1))] = OrZero(Stored - Depth + 1 + (d + 1))
        BY <4>1, <4>3 DEF Work, IInv, TypeOK, RowsInOrder
      <4>5. Stored - Depth + 1 + (d + 1) = Stored' - Depth + 1 + d
        BY <1>1, <2>1, DepthAssumption DEF Rows
      <4> QED
        BY <4>2, <4>4, <4>5
    <3>2. CASE d = Depth - 1
      <4>1. Row(interleaverIndex' + d) = interleaverIndex
        BY <1>1, <3>2, RowStep DEF Work
      <4>2. interleaveData'[interleaverIndex] = taken + 1
        BY <1>1, <1>2 DEF Work, IInv, TypeOK
      <4>3. OrZero(Stored' - Depth + 1 + d) = taken + 1
        BY <1>1, <2>1, <3>2, DepthAssumption DEF OrZero
      <4> QED
        BY <4>1, <4>2, <4>3
    <3> QED
      BY <3>1, <3>2, DepthAssumption DEF Rows
  <2> QED
    BY <2>1, <2>2 DEF IInv, RowsInOrder
<1>9. ReadInOrder'
  BY <1>4 DEF Work, ReadInOrder
<1> QED
  BY <1>5, <1>6, <1>7, <1>8, <1>9 DEF IInv

\* The slot is given back and the next one is the first.
LEMMA FreeSlotInv ==
  ASSUME IInv, FreeSlot
  PROVE  /\ IInv'
         /\ InSlots >= 1 + Unreleased /\ InSlots' = InSlots - 1
<1>1. /\ taken \in Nat /\ sent \in Nat /\ nextOut \in Slots /\ tpc = "free"
      /\ InSlots \in 1 .. NumberSlots /\ taken' = taken + 1 /\ InSlots' = InSlots - 1
      /\ InSlots >= 1 + Unreleased
  BY SlotsAssumption
     DEF FreeSlot, inVars, IInv, TypeOK, SlotsAccounted, InWork, InCopy, Unreleased, InSlots
<1>2. /\ nextOut' = Step(nextOut, NumberSlots) /\ nextOut' \in Slots
      /\ UNCHANGED <<theData, nextIn, ipc, usedSlots>> /\ freeSlots' = freeSlots + 1
  <2>1. 0 \in 0 .. NumberSlots - 1
    BY SlotsAssumption
  <2> QED
    BY <1>1, <2>1, SlotStep DEF FreeSlot, inVars
<1>3. tpc' \in {"wait", "done", "decode"} /\ (tpc' = "done" => ~running)
  BY DEF FreeSlot, Loop
<1>4. SlotsAccounted'
  BY <1>1, <1>2, <1>3 DEF IInv, TypeOK, SlotsAccounted, InWork, InCopy, Unreleased
<1>5. TypeOK' /\ LockOwner'
  <2>1. freeSlots' \in 0 .. NumberSlots
    BY <1>1, <1>2, SlotsAssumption DEF IInv, TypeOK, SlotsAccounted, InWork, InCopy
  <2>2. countforInterleaver' \in 0 .. Depth
    BY DepthAssumption DEF FreeSlot, IInv, TypeOK
  <2> QED
    BY <1>1, <1>2, <1>3, <2>1, <2>2 DEF FreeSlot, inVars, IInv, TypeOK, LockOwner
<1>6. SlotsInOrder'
  <2>1. ASSUME NEW k \in 0 .. InSlots - 1
        PROVE  SlotAt(k)' = SlotAt(k + 1)
    <3>1. k \in 0 .. NumberSlots - 1
      BY <1>1, SlotsAssumption
    <3> QED
      BY <1>1, <1>2, <3>1, SlotStep DEF SlotAt, At
  <2>2. nextIn' = SlotAt(InSlots)'
    <3>1. InSlots - 1 \in 0 .. InSlots - 1 /\ (InSlots - 1) + 1 = InSlots
      BY <1>1
    <3>2. SlotAt(InSlots)' = IF nextOut' + (InSlots - 1) >= NumberSlots
                             THEN nextOut' + (InSlots - 1) - NumberSlots
                             ELSE nextOut' + (InSlots - 1)
      BY <1>1 DEF SlotAt
    <3>3. SlotAt(InSlots)' = At(nextOut', InSlots - 1)
      BY <3>2 DEF At
    <3>4. At(nextOut', InSlots - 1) = At(nextOut, InSlots)
      <4>1. InSlots - 1 \in 0 .. NumberSlots - 1
        BY <1>1, SlotsAssumption
      <4> QED
        BY <1>1, <1>2, <3>1, <4>1, SlotStep
    <3> QED
      BY <1>2, <3>3, <3>4 DEF IInv, SlotsInOrder, SlotAt, At
  <2>3. ASSUME NEW k \in 0 .. InSlots' - 1
        PROVE  theData'[SlotAt(k)'] = taken' + k + 1
    <3>1. k \in 0 .. InSlots - 1 /\ k + 1 \in 0 .. InSlots - 1
      BY <1>1
    <3>2. theData[SlotAt(k + 1)] = taken + (k + 1) + 1
      BY <3>1 DEF IInv, SlotsInOrder
    <3>3. taken + (k + 1) + 1 = taken' + k + 1
      BY <1>1
    <3> QED
      BY <1>2, <2>1, <3>1, <3>2, <3>3
  <2> QED
    BY <2>2, <2>3 DEF SlotsInOrder, SlotAt
<1>7. countforInterleaver = (IF taken < Depth THEN taken ELSE Depth)
  BY DEF IInv, RowsInOrder
<1>8. RowsInOrder'
  <2>1. UNCHANGED <<interleaveData, interleaverIndex>> /\ Stored' = Stored
    BY <1>1, <1>3 DEF FreeSlot, Stored
  <2>2. countforInterleaver' = IF taken' < Depth THEN taken' ELSE Depth
    BY <1>1, <1>7, DepthAssumption DEF FreeSlot
  <2> QED
    BY <2>1, <2>2 DEF IInv, RowsInOrder
<1>9. ReadInOrder'
  <2> SUFFICES ASSUME tpc' = "decode"
               PROVE  /\ taken' > Depth
                      /\ \A c \in Classes : tempX'[c] = OrZero(taken' - Depth + interleaveMap[c])
    BY <1>3 DEF ReadInOrder
  <2>1. taken >= Depth
    BY <1>1, <1>7, DepthAssumption DEF FreeSlot, Loop
  <2>2. \A c \in Classes : tempX[c] = OrZero(taken + 1 - Depth + interleaveMap[c])
    BY <1>1 DEF IInv, ReadInOrder
  <2>3. tempX' = tempX
    BY DEF FreeSlot
  <2> QED
    BY <1>1, <2>1, <2>2, <2>3, DepthAssumption
<1> QED
  BY <1>1, <1>4, <1>5, <1>6, <1>8, <1>9 DEF IInv

\* Neither the decoder nor the end of the thread touches slots or rows.
LEMMA DecodeInv ==
  ASSUME IInv, Decode
  PROVE  IInv'
<1>1. tpc' \in {"wait", "done"} /\ (tpc' = "done" => ~running)
  BY DEF Decode, Loop
<1>2. TypeOK' /\ LockOwner'
  BY <1>1 DEF Decode, inVars, diVars, IInv, TypeOK, LockOwner
<1>3. SlotsAccounted'
  BY <1>1
     DEF Decode, inVars, diVars, IInv, SlotsAccounted, InCopy, InWork, InSlots, Unreleased
<1>4. SlotsInOrder'
  BY SlotsStay DEF Decode, inVars, diVars
<1>5. RowsInOrder' /\ ReadInOrder'
  BY <1>1, RowsStay DEF Decode, inVars, diVars, Stored, IInv, ReadInOrder
<1> QED
  BY <1>2, <1>3, <1>4, <1>5 DEF IInv

\* Waiting for a segment times out.
LEMMA TimeOutInv ==
  ASSUME IInv, TimeOut
  PROVE  IInv'
<1>1. TypeOK' /\ LockOwner'
  BY DEF TimeOut, inVars, diVars, IInv, TypeOK, LockOwner
<1>2. SlotsAccounted'
  BY DEF TimeOut, inVars, diVars, IInv, SlotsAccounted, InCopy, InWork, InSlots, Unreleased
<1>3. SlotsInOrder'
  BY SlotsStay DEF TimeOut, inVars, diVars
<1>4. RowsInOrder' /\ ReadInOrder'
  BY RowsStay DEF TimeOut, inVars, diVars, Stored, IInv, ReadInOrder
<1> QED
  BY <1>1, <1>2, <1>3, <1>4 DEF IInv

\* The thread ends between two segments.
LEMMA LeaveInv ==
  ASSUME IInv, Leave
  PROVE  IInv'
<1>1. TypeOK' /\ LockOwner'
  BY DEF Leave, Loop, inVars, diVars, IInv, TypeOK, LockOwner
<1>2. SlotsAccounted'
  BY DEF Leave, Loop, inVars, diVars, IInv, SlotsAccounted, InCopy, InWork, InSlots, Unreleased
<1>3. SlotsInOrder'
  BY SlotsStay DEF Leave, inVars, diVars
<1>4. RowsInOrder' /\ ReadInOrder'
  BY RowsStay DEF Leave, Loop, inVars, diVars, Stored, IInv, ReadInOrder
<1> QED
  BY <1>1, <1>2, <1>3, <1>4 DEF IInv

\* Closing takes the lock and lowers the flag; slots and rows stay.
LEMMA StopRunningInv ==
  ASSUME IInv, StopRunning
  PROVE  IInv'
<1>1. TypeOK' /\ LockOwner'
  BY DEF StopRunning, inVars, outVars, diVars, IInv, TypeOK, LockOwner
<1>2. SlotsAccounted'
  BY DEF StopRunning, inVars, outVars, diVars, IInv, SlotsAccounted, InCopy, InWork, InSlots,
         Unreleased
<1>3. SlotsInOrder'
  BY SlotsStay DEF StopRunning, inVars, outVars, diVars
<1>4. RowsInOrder' /\ ReadInOrder'
  BY RowsStay DEF StopRunning, inVars, outVars, diVars, Stored, IInv, ReadInOrder
<1> QED
  BY <1>1, <1>2, <1>3, <1>4 DEF IInv

\* The deletion comes after the thread has ended; slots and rows stay.
LEMMA DeleteInv ==
  ASSUME IInv, Delete
  PROVE  IInv'
<1>1. TypeOK' /\ LockOwner'
  BY DEF Delete, inVars, outVars, diVars, IInv, TypeOK, LockOwner
<1>2. SlotsAccounted'
  BY DEF Delete, inVars, outVars, diVars, IInv, SlotsAccounted, InCopy, InWork, InSlots,
         Unreleased
<1>3. SlotsInOrder'
  BY SlotsStay DEF Delete, inVars, outVars, diVars
<1>4. RowsInOrder' /\ ReadInOrder'
  BY RowsStay DEF Delete, inVars, outVars, diVars, Stored, IInv, ReadInOrder
<1> QED
  BY <1>1, <1>2, <1>3, <1>4 DEF IInv

\* A step that changes nothing keeps the invariant.
LEMMA StutterInv ==
  ASSUME IInv, UNCHANGED vars
  PROVE  IInv'
<1>1. TypeOK' /\ LockOwner'
  BY DEF vars, inVars, outVars, diVars, IInv, TypeOK, LockOwner
<1>2. SlotsAccounted'
  BY DEF vars, inVars, outVars, diVars, IInv, SlotsAccounted, InCopy, InWork, InSlots, Unreleased
<1>3. SlotsInOrder'
  BY SlotsStay DEF vars, inVars, outVars, diVars
<1>4. RowsInOrder' /\ ReadInOrder'
  BY RowsStay DEF vars, inVars, outVars, diVars, Stored, IInv, ReadInOrder
<1> QED
  BY <1>1, <1>2, <1>3, <1>4 DEF IInv

\* Every step of the three threads keeps the invariant.
LEMMA NextInv == IInv /\ [Next]_vars => IInv'
  BY ProcessInv, AcquireFreeInv, CopyInv, ReleaseUsedInv, AcquireUsedInv, WorkInv, FreeSlotInv,
     DecodeInv, TimeOutInv, LeaveInv, StopRunningInv, DeleteInv, StutterInv DEF Next, Ofdm, Thread

-----------------------------------------------------------------------------
(* Theorems.                                                               *)

\* IInv holds in every state of every run.
THEOREM Invariance == Spec => []IInv
  BY InitInv, NextInv, PTL DEF Spec

\* The variables keep their types; neither semaphore passes the number of slots.
THEOREM TypeCorrect == Spec => []TypeOK
  BY Invariance, PTL DEF IInv

\* What processSegment hands to the decoder is one frame as the transmitter
\* interleaved it, and no bit of it is from before the first segment.
THEOREM FramesAreWhole == Spec => []WholeFrame
<1>1. IInv => WholeFrame
  <2> SUFFICES ASSUME IInv, tpc = "decode", NEW c \in Classes
               PROVE  /\ tempX[c] = (taken - Depth) + interleaveMap[c]
                      /\ tempX[c] > 0
    BY DEF WholeFrame
  <2>1. taken \in Nat /\ taken > Depth /\ tempX[c] = OrZero(taken - Depth + interleaveMap[c])
    BY DEF IInv, TypeOK, ReadInOrder
  <2>2. interleaveMap[c] \in Nat
    BY MapAssumption, DepthAssumption DEF Classes, Rows
  <2> QED
    BY <2>1, <2>2, DepthAssumption DEF OrZero
<1> QED
  BY <1>1, Invariance, PTL

\* A backend is deleted when its thread is done and process () has returned.
THEOREM DeletedAreQuiet == Spec => []DeletedIsQuiet
<1>1. IInv => DeletedIsQuiet
  BY DEF IInv, LockOwner, DeletedIsQuiet
<1> QED
  BY <1>1, Invariance, PTL

\* The segments that wait are the next ones, in order.
WaitingInOrder ==
  /\ Held \in 0 .. NumberSlots
  /\ Waiting = [k \in 1 .. Held |-> taken + k]

\* The segments in the slots that the thread has not taken are the last that
\* were written, in their order.
LEMMA WaitingAre == IInv => WaitingInOrder
<1> SUFFICES ASSUME IInv
             PROVE  WaitingInOrder
  OBVIOUS
<1>1. /\ Held \in 0 .. NumberSlots /\ InSlots \in Nat /\ Held <= InSlots
  BY SlotsAssumption
     DEF IInv, TypeOK, SlotsAccounted, InCopy, InWork, InSlots, Unreleased, Held
<1>2. ASSUME NEW k \in 1 .. Held
      PROVE  theData[SlotAt(k - 1)] = taken + k
  <2>1. k - 1 \in 0 .. InSlots - 1 /\ taken \in Nat
    BY <1>1, SlotsAssumption DEF IInv, TypeOK
  <2>2. theData[SlotAt(k - 1)] = taken + (k - 1) + 1
    BY <2>1 DEF IInv, SlotsInOrder
  <2> QED
    BY <1>1, <2>1, <2>2
<1> QED
  BY <1>1, <1>2 DEF Waiting, WaitingInOrder

\* The same after a step.
LEMMA WaitingAreNext == IInv /\ [Next]_vars => WaitingInOrder'
<1>1. IInv /\ [Next]_vars => IInv'
  BY NextInv
<1> QED
  BY <1>1, WaitingAre, PTL

\* Every run of the slots is one of the bounded queue: release () of a used
\* slot puts one segment, the release of the slot takes it out.
THEOREM Refinement == Spec => IsChannel
<1> DEFINE out == IF taken = 0 THEN <<>> ELSE <<taken>>
<1>1. Init => Abstract!Init
  <2> SUFFICES ASSUME Init
               PROVE  Waiting = <<>> /\ taken = 0
    BY DEF Abstract!Init
  <2>1. Held = 0 /\ taken = 0 /\ WaitingInOrder
    BY InitInv, WaitingAre DEF Init, Held
  <2>2. Waiting = Numbers(0, 0)
    BY <2>1 DEF WaitingInOrder, Numbers
  <2>3. Numbers(0, 0) \in Seq(Nat) /\ Len(Numbers(0, 0)) = 0
    BY NumbersAreSeq
  <2> QED
    BY <2>1, <2>2, <2>3, EmptySeq
<1>2. IInv /\ [Next]_vars => [Abstract!Next]_(Abstract!chanVars)
  <2> SUFFICES ASSUME IInv, [Next]_vars
               PROVE  Abstract!Next \/ (Waiting' = Waiting /\ taken' = taken)
    BY DEF Abstract!chanVars
  <2>1. /\ Held \in 0 .. NumberSlots /\ Waiting = Numbers(taken, Held)
        /\ Held' \in 0 .. NumberSlots /\ Waiting' = Numbers(taken', Held')
        /\ taken \in Nat /\ sent \in Nat /\ Held \in Nat
    BY WaitingAre, WaitingAreNext, SlotsAssumption DEF WaitingInOrder, Numbers, IInv, TypeOK
  <2>2. ASSUME Held' = Held, taken' = taken
        PROVE  Waiting' = Waiting /\ taken' = taken
    BY <2>1, <2>2
  <2>3. CASE Process \/ AcquireFree
    BY <2>2, <2>3 DEF Process, AcquireFree, outVars, diVars, Held
  <2>4. CASE Copy
    BY <2>1, <2>2, <2>4 DEF Copy, outVars, diVars, Held
  <2>5. CASE ReleaseUsed
    <3>1. Held' = Held + 1 /\ taken' = taken /\ out' = out
      BY <2>1, <2>5 DEF ReleaseUsed, outVars, diVars, Held
    <3>2. /\ Len(Waiting) = Held /\ Len(Waiting') = Held + 1 /\ Held + 1 <= NumberSlots
          /\ SubSeq(Waiting', 1, Held) = Waiting
      <4>1. Waiting' = Numbers(taken, Held + 1) /\ Held + 1 \in Nat /\ Held + 1 <= NumberSlots
        BY <2>1, <3>1, SlotsAssumption
      <4>2. Len(Numbers(taken, Held)) = Held /\ Len(Numbers(taken, Held + 1)) = Held + 1
        BY <2>1, <4>1, NumbersAreSeq
      <4>3. SubSeq(Numbers(taken, Held + 1), 1, Held) = Numbers(taken, Held)
        BY <2>1, NumbersFront
      <4> QED
        BY <2>1, <4>1, <4>2, <4>3
    <3>3. Abstract!Put
      BY <2>1, <3>1, <3>2 DEF Abstract!Put
    <3> QED
      BY <3>3 DEF Abstract!Next
  <2>6. CASE AcquireUsed \/ Work \/ Decode \/ TimeOut \/ Leave
    BY <2>2, <2>6 DEF AcquireUsed, Work, Decode, TimeOut, Leave, inVars, diVars, Held
  <2>7. CASE FreeSlot
    <3>1. Held' = Held - 1 /\ taken' = taken + 1 /\ Held >= 1
      BY <2>1, <2>7, FreeSlotInv, SlotsAssumption DEF FreeSlot, inVars, InSlots, Held, Unreleased
    <3>2. out' = <<taken + 1>>
      BY <2>1, <3>1
    <3>3. Len(Waiting) = Held
      BY <2>1, NumbersAreSeq
    <3>4. /\ SubSeq(Waiting, 1, 1) = <<taken + 1>>
          /\ SubSeq(Waiting, 1 + 1, Len(Waiting)) = Waiting'
      <4>1. Waiting' = Numbers(taken + 1, Held - 1)
        BY <2>1, <3>1
      <4>2. /\ SubSeq(Numbers(taken, Held), 1, 1) = <<taken + 1>>
            /\ SubSeq(Numbers(taken, Held), 2, Held) = Numbers(taken + 1, Held - 1)
        BY <2>1, <3>1, NumbersTaken
      <4>3. 1 + 1 = 2
        OBVIOUS
      <4> QED
        BY <2>1, <3>3, <4>1, <4>2, <4>3
    <3>5. 1 \in 0 .. NumberSlots /\ 1 <= Len(Waiting)
      BY <2>1, <3>1, <3>3, SlotsAssumption
    <3> HIDE DEF out
    <3>6. out' = SubSeq(Waiting, 1, 1) /\ Waiting' = SubSeq(Waiting, 1 + 1, Len(Waiting))
      BY <3>2, <3>4
    <3>7. Abstract!Get(1)
      BY <3>5, <3>6 DEF Abstract!Get, out
    <3> QED
      BY <3>5, <3>7 DEF Abstract!Next
  <2>8. CASE StopRunning \/ Delete
    BY <2>2, <2>8 DEF StopRunning, Delete, inVars, outVars, diVars, Held
  <2>9. CASE UNCHANGED vars
    BY <2>2, <2>9 DEF vars, inVars, outVars, diVars, Held
  <2> QED
    BY <2>3, <2>4, <2>5, <2>6, <2>7, <2>8, <2>9 DEF Next, Ofdm, Thread
<1> QED
  BY <1>1, <1>2, Invariance, PTL DEF Spec, IsChannel, Abstract!Spec
=============================================================================
