-------------------------- MODULE RingBuffer_proofs --------------------------
(***************************************************************************)
(* Proofs about RingBuffer, for every size of the buffer and every size of *)
(* the batches: no overflow, no race on a cell, and the refinement of the  *)
(* bounded queue Channel.                                                  *)
(***************************************************************************)
EXTENDS RingBuffer, SequenceTheorems, TLAPS

\* What the writer has in hand fits beside what is in the buffer, and the
\* index it has loaded is still the index of the buffer.
WriterFits ==
  /\ wpc # "idle" => wn + ReadAvailable <= N
  /\ wpc = "store" => wtmp = writeIndex

\* What the reader has in hand is in the buffer, and what it has copied is the
\* oldest part of the contents.
ReaderFits ==
  /\ rpc \in {"copy", "advance"} => rn <= ReadAvailable
  /\ rpc = "advance" => batch = SubSeq(Contents, 1, rn)

IInv == TypeOK /\ AvailableInRange /\ WriterFits /\ ReaderFits

-----------------------------------------------------------------------------
(* Indices and cells.                                                      *)

\* What is available is a number of elements.
LEMMA AvailableIsNat ==
  ASSUME writeIndex \in Indices, readIndex \in Indices
  PROVE  ReadAvailable \in Nat
  BY SizeAssumption DEF Indices, ReadAvailable

\* An index that is advanced by what fits makes that much more available.
LEMMA WriteAdvanced ==
  ASSUME writeIndex \in Indices, readIndex \in Indices,
         NEW n \in Nat, n + ReadAvailable <= N,
         writeIndex' = Big(writeIndex + n), readIndex' = readIndex
  PROVE  writeIndex' \in Indices /\ ReadAvailable' = ReadAvailable + n
  BY SizeAssumption DEF Indices, ReadAvailable, Big

\* One that is advanced by what is available makes that much less.
LEMMA ReadAdvanced ==
  ASSUME writeIndex \in Indices, readIndex \in Indices,
         AvailableInRange, NEW n \in Nat, n <= ReadAvailable,
         readIndex' = Big(readIndex + n), writeIndex' = writeIndex
  PROVE  readIndex' \in Indices /\ ReadAvailable' = ReadAvailable - n
  BY SizeAssumption DEF Indices, ReadAvailable, AvailableInRange, Big

\* The k-th cell from an index is a cell.
LEMMA CellInRange ==
  ASSUME NEW i \in Indices, NEW k \in 0 .. N - 1
  PROVE  /\ Small(Small(i) + k) \in Cells
         /\ Small(Small(Small(i) + k)) = Small(Small(i) + k)
  BY SizeAssumption DEF Indices, Cells, Small

\* k cells after an index that was advanced by n is k + n cells after it.
LEMMA CellAfterAdvance ==
  ASSUME NEW i \in Indices, NEW n \in 0 .. N, NEW k \in 0 .. N - 1, n + k < N
  PROVE  Small(Small(Big(i + n)) + k) = Small(Small(i) + (n + k))
  BY SizeAssumption DEF Indices, Small, Big

\* The cells beyond the contents are not those of the contents.
LEMMA CellsApart ==
  ASSUME writeIndex \in Indices, readIndex \in Indices,
         NEW n \in Nat, n + ReadAvailable <= N,
         NEW k \in 0 .. n - 1, NEW j \in 0 .. ReadAvailable - 1
  PROVE  Small(Small(writeIndex) + k) # Small(Small(readIndex) + j)
  BY SizeAssumption DEF Indices, ReadAvailable, Small

\* What the cells from an index hold is a sequence of numbers of elements.
LEMMA CellsAreSeq ==
  ASSUME NEW b \in [Cells -> Nat], NEW i \in Indices, NEW a \in 0 .. N
  PROVE  LET s == [k \in 1 .. a |-> b[Small(Small(i) + k - 1)]]
         IN  s \in Seq(Nat) /\ Len(s) = a
<1> DEFINE s == [k \in 1 .. a |-> b[Small(Small(i) + k - 1)]]
<1>1. ASSUME NEW k \in 1 .. a
      PROVE  b[Small(Small(i) + k - 1)] \in Nat
  <2>1. k - 1 \in 0 .. N - 1
    BY SizeAssumption
  <2>2. Small(Small(i) + (k - 1)) \in Cells
    BY <2>1, CellInRange
  <2>3. Small(i) + (k - 1) = Small(i) + k - 1
    BY SizeAssumption DEF Indices, Small
  <2> QED
    BY <2>2, <2>3
<1>2. a \in Nat /\ s \in [1 .. a -> Nat]
  BY <1>1, SizeAssumption
<1> QED
  BY <1>2, LenProperties

\* The contents are such a sequence.
LEMMA ContentsIsSeq ==
  ASSUME TypeOK, AvailableInRange
  PROVE  /\ Contents \in Seq(Nat) /\ Len(Contents) = ReadAvailable
         /\ \A k \in 1 .. ReadAvailable :
              Contents[k] = buffer[Small(Small(readIndex) + k - 1)]
<1>1. ReadAvailable \in 0 .. N
  BY AvailableIsNat, SizeAssumption DEF TypeOK, AvailableInRange
<1> QED
  BY <1>1, CellsAreSeq DEF Contents, TypeOK

\* The same for the state after a step.
LEMMA ContentsIsSeqAfter ==
  ASSUME buffer' \in [Cells -> Nat], readIndex' \in Indices, ReadAvailable' \in 0 .. N
  PROVE  /\ Contents' \in Seq(Nat) /\ Len(Contents') = ReadAvailable'
         /\ \A k \in 1 .. ReadAvailable' :
              Contents'[k] = buffer'[Small(Small(readIndex') + k - 1)]
  BY CellsAreSeq DEF Contents

\* Sequences that agree on their first n elements have the same n elements first.
LEMMA SameFront ==
  ASSUME NEW s \in Seq(Nat), NEW t \in Seq(Nat), NEW n \in Nat,
         n <= Len(s), n <= Len(t), \A k \in 1 .. n : s[k] = t[k]
  PROVE  SubSeq(s, 1, n) = SubSeq(t, 1, n)
<1>1. Len(s) \in Nat /\ Len(t) \in Nat
  BY LenProperties
<1>2. \A k \in 1 .. n : s[k] \in Nat /\ t[k] \in Nat
  BY <1>1, ElementOfSeq
<1>3. /\ SubSeq(s, 1, n) \in Seq(Nat) /\ Len(SubSeq(s, 1, n)) = n
      /\ \A k \in 1 .. n : SubSeq(s, 1, n)[k] = s[k]
  BY <1>1, <1>2, SubSeqProperties
<1>4. /\ SubSeq(t, 1, n) \in Seq(Nat) /\ Len(SubSeq(t, 1, n)) = n
      /\ \A k \in 1 .. n : SubSeq(t, 1, n)[k] = t[k]
  BY <1>1, <1>2, SubSeqProperties
<1> QED
  BY <1>3, <1>4, SeqEqual

\* A sequence is its own first elements, all of them.
LEMMA WholeFront ==
  ASSUME NEW s \in Seq(Nat)
  PROVE  SubSeq(s, 1, Len(s)) = s
  BY SubSeqFull

\* As long as the indices and the cells of the contents stay, so do they.
LEMMA ContentsStay ==
  ASSUME TypeOK, AvailableInRange, UNCHANGED <<writeIndex, readIndex>>,
         \A j \in 0 .. ReadAvailable - 1 :
           buffer'[Small(Small(readIndex) + j)] = buffer[Small(Small(readIndex) + j)]
  PROVE  ReadAvailable' = ReadAvailable /\ Contents' = Contents
<1>1. ReadAvailable' = ReadAvailable
  BY DEF ReadAvailable
<1>2. ReadAvailable \in Nat
  BY AvailableIsNat DEF TypeOK
<1>3. ASSUME NEW k \in 1 .. ReadAvailable
      PROVE  buffer'[Small(Small(readIndex) + k - 1)] = buffer[Small(Small(readIndex) + k - 1)]
  <2>1. k - 1 \in 0 .. ReadAvailable - 1
    BY <1>2
  <2>2. Small(readIndex) + (k - 1) = Small(readIndex) + k - 1
    BY SizeAssumption DEF TypeOK, Indices, Small
  <2> QED
    BY <2>1, <2>2
<1>4. Small(readIndex') = Small(readIndex)
  OBVIOUS
<1> QED
  BY <1>1, <1>3, <1>4 DEF Contents

-----------------------------------------------------------------------------
(* The inductive invariant.                                                *)

\* The empty buffer.
LEMMA InitInv == Init => IInv
  BY SizeAssumption, EmptySeq
     DEF Init, IInv, TypeOK, Indices, Cells, AvailableInRange, ReadAvailable, WriterFits,
         ReaderFits

\* Where neither indices nor cells change, nothing the reader has changes.
LEMMA WriteBeginInv ==
  ASSUME IInv, NEW n \in 1 .. MaxBatch, WriteBegin(n)
  PROVE  IInv'
<1>1. ReadAvailable \in Nat /\ ReadAvailable <= N /\ n \in Nat
  BY AvailableIsNat, BatchAssumption DEF IInv, TypeOK, AvailableInRange
<1>2. wn' \in Nat /\ wn' + ReadAvailable <= N
  BY <1>1, SizeAssumption DEF WriteBegin, WriteCount, WriteAvailable, Least
<1>3. UNCHANGED <<writeIndex, readIndex, buffer>>
  BY DEF WriteBegin, rVars
<1>4. ReadAvailable' = ReadAvailable /\ Contents' = Contents
  BY <1>3, ContentsStay DEF IInv
<1>5. TypeOK'
  BY <1>2 DEF WriteBegin, rVars, IInv, TypeOK
<1>6. WriterFits' /\ AvailableInRange' /\ ReaderFits'
  BY <1>1, <1>2, <1>4 DEF WriteBegin, rVars, IInv, WriterFits, ReaderFits, AvailableInRange
<1> QED
  BY <1>5, <1>6 DEF IInv

\* The writer fills cells beyond the contents only.
LEMMA WriteCopyInv ==
  ASSUME IInv, WriteCopy
  PROVE  IInv' /\ Contents' = Contents
<1>1. /\ wn \in Nat /\ wn + ReadAvailable <= N
      /\ writeIndex \in Indices /\ readIndex \in Indices /\ ReadAvailable \in Nat
  BY AvailableIsNat DEF WriteCopy, IInv, TypeOK, WriterFits
<1>2. UNCHANGED <<writeIndex, readIndex, wn, wtmp, count>> /\ UNCHANGED rVars
  BY DEF WriteCopy, rVars
<1>3. buffer' \in [Cells -> Nat]
  <2>1. ASSUME NEW c \in Cells, \E k \in 0 .. wn - 1 : c = Small(Small(writeIndex) + k)
        PROVE  (CHOOSE k \in 0 .. wn - 1 : c = Small(Small(writeIndex) + k)) \in 0 .. wn - 1
    BY <2>1
  <2>2. count \in Nat /\ \A k \in 0 .. wn - 1 : count + 1 + k \in Nat
    BY DEF IInv, TypeOK
  <2> QED
    BY <2>1, <2>2 DEF WriteCopy, IInv, TypeOK
<1>4. ASSUME NEW j \in 0 .. ReadAvailable - 1
      PROVE  buffer'[Small(Small(readIndex) + j)] = buffer[Small(Small(readIndex) + j)]
  <2>1. Small(Small(readIndex) + j) \in Cells
    BY <1>1, SizeAssumption, CellInRange
  <2>2. ~ \E k \in 0 .. wn - 1 : Small(Small(readIndex) + j) = Small(Small(writeIndex) + k)
    BY <1>1, CellsApart
  <2> QED
    BY <2>1, <2>2 DEF WriteCopy
<1>5. ReadAvailable' = ReadAvailable /\ Contents' = Contents
  BY <1>2, <1>4, ContentsStay DEF IInv
<1>6. TypeOK'
  BY <1>2, <1>3 DEF WriteCopy, rVars, IInv, TypeOK
<1>7. WriterFits' /\ AvailableInRange' /\ ReaderFits'
  BY <1>1, <1>2, <1>5 DEF WriteCopy, rVars, IInv, WriterFits, ReaderFits, AvailableInRange
<1> QED
  BY <1>5, <1>6, <1>7 DEF IInv

\* The writer's load of its own index changes neither indices nor cells.
LEMMA WriteLoadInv ==
  ASSUME IInv, WriteLoad
  PROVE  IInv'
<1>1. UNCHANGED <<writeIndex, readIndex, buffer>>
  BY DEF WriteLoad, rVars
<1>2. ReadAvailable' = ReadAvailable /\ Contents' = Contents
  BY <1>1, ContentsStay DEF IInv
<1>3. TypeOK'
  BY DEF WriteLoad, rVars, IInv, TypeOK
<1>4. WriterFits' /\ AvailableInRange' /\ ReaderFits'
  BY <1>2 DEF WriteLoad, rVars, IInv, WriterFits, ReaderFits, AvailableInRange
<1> QED
  BY <1>3, <1>4 DEF IInv

\* With the store of the index the contents grow at their end.
LEMMA WriteStoreInv ==
  ASSUME IInv, WriteStore
  PROVE  /\ IInv'
         /\ ReadAvailable' = ReadAvailable + wn
         /\ SubSeq(Contents', 1, ReadAvailable) = Contents
<1>1. /\ wn \in Nat /\ wn + ReadAvailable <= N /\ wtmp = writeIndex
      /\ writeIndex \in Indices /\ readIndex \in Indices /\ ReadAvailable \in Nat
      /\ ReadAvailable <= N
  BY AvailableIsNat DEF WriteStore, IInv, TypeOK, WriterFits, AvailableInRange
<1>2. writeIndex' = Big(writeIndex + wn) /\ readIndex' = readIndex /\ buffer' = buffer
  BY <1>1 DEF WriteStore, rVars
<1>3. writeIndex' \in Indices /\ ReadAvailable' = ReadAvailable + wn
  BY <1>1, <1>2, WriteAdvanced
<1>4. TypeOK'
  BY <1>1, <1>3, SizeAssumption DEF WriteStore, rVars, IInv, TypeOK, Indices
<1>5. AvailableInRange' /\ WriterFits'
  BY <1>1, <1>3 DEF WriteStore, AvailableInRange, WriterFits
<1>6. /\ Contents \in Seq(Nat) /\ Len(Contents) = ReadAvailable
      /\ \A k \in 1 .. ReadAvailable :
           Contents[k] = buffer[Small(Small(readIndex) + k - 1)]
  BY ContentsIsSeq DEF IInv
<1>7. /\ Contents' \in Seq(Nat) /\ Len(Contents') = ReadAvailable'
      /\ \A k \in 1 .. ReadAvailable' :
           Contents'[k] = buffer'[Small(Small(readIndex') + k - 1)]
  <2>1. ReadAvailable' \in 0 .. N
    BY <1>1, <1>3, SizeAssumption
  <2> QED
    BY <2>1, <1>4, ContentsIsSeqAfter DEF TypeOK
<1>8. \A k \in 1 .. ReadAvailable : Contents'[k] = Contents[k]
  <2>1. \A k \in 1 .. ReadAvailable : k \in 1 .. ReadAvailable'
    BY <1>1, <1>3
  <2> QED
    BY <1>2, <1>6, <1>7, <2>1
<1>9. SubSeq(Contents', 1, ReadAvailable) = Contents
  <2>1. ReadAvailable <= Len(Contents) /\ ReadAvailable <= Len(Contents')
    BY <1>1, <1>3, <1>6, <1>7
  <2>2. SubSeq(Contents', 1, ReadAvailable) = SubSeq(Contents, 1, ReadAvailable)
    BY <1>1, <1>6, <1>7, <1>8, <2>1, SameFront
  <2> QED
    BY <1>6, <2>2, WholeFront
<1>10. ReaderFits'
  <2>1. rpc' = rpc /\ rn' = rn /\ batch' = batch
    BY DEF WriteStore, rVars
  <2>2. ASSUME rpc = "advance"
        PROVE  batch = SubSeq(Contents', 1, rn)
    <3>1. rn \in Nat /\ rn <= ReadAvailable /\ batch = SubSeq(Contents, 1, rn)
      BY <2>2 DEF IInv, TypeOK, ReaderFits
    <3>2. SubSeq(Contents', 1, rn) = SubSeq(Contents, 1, rn)
      <4>1. rn <= Len(Contents) /\ rn <= Len(Contents')
        BY <1>1, <1>3, <1>6, <1>7, <3>1
      <4>2. \A k \in 1 .. rn : Contents'[k] = Contents[k]
        BY <1>1, <1>8, <3>1
      <4> QED
        BY <1>6, <1>7, <3>1, <4>1, <4>2, SameFront
    <3> QED
      BY <3>1, <3>2
  <2> QED
    BY <1>1, <1>3, <2>1, <2>2 DEF IInv, TypeOK, ReaderFits
<1> QED
  BY <1>3, <1>4, <1>5, <1>9, <1>10 DEF IInv
\* Taking n elements out leaves the rest of the contents.
LEMMA TakenOut ==
  ASSUME TypeOK, AvailableInRange, NEW n \in Nat, n <= ReadAvailable,
         readIndex' = Big(readIndex + n), UNCHANGED <<writeIndex, buffer>>
  PROVE  /\ readIndex' \in Indices /\ ReadAvailable' = ReadAvailable - n
         /\ Contents' = SubSeq(Contents, n + 1, Len(Contents))
<1>1. /\ readIndex \in Indices /\ writeIndex \in Indices
      /\ ReadAvailable \in Nat /\ ReadAvailable <= N
  BY AvailableIsNat DEF TypeOK, AvailableInRange
<1>2. readIndex' \in Indices /\ ReadAvailable' = ReadAvailable - n
  BY <1>1, ReadAdvanced
<1>3. /\ Contents \in Seq(Nat) /\ Len(Contents) = ReadAvailable
      /\ \A k \in 1 .. ReadAvailable :
           Contents[k] = buffer[Small(Small(readIndex) + k - 1)]
  BY ContentsIsSeq
<1>4. /\ Contents' \in Seq(Nat) /\ Len(Contents') = ReadAvailable'
      /\ \A k \in 1 .. ReadAvailable' :
           Contents'[k] = buffer'[Small(Small(readIndex') + k - 1)]
  <2>1. ReadAvailable' \in 0 .. N
    BY <1>1, <1>2, SizeAssumption
  <2> QED
    BY <2>1, <1>2, ContentsIsSeqAfter DEF TypeOK
<1>5. ASSUME NEW k \in 1 .. ReadAvailable'
      PROVE  Contents'[k] = Contents[n + k]
  <2>1. k - 1 \in 0 .. N - 1 /\ n \in 0 .. N /\ n + (k - 1) < N /\ n + k \in 1 .. ReadAvailable
    BY <1>1, <1>2, SizeAssumption
  <2>2. Small(Small(readIndex') + (k - 1)) = Small(Small(readIndex) + (n + (k - 1)))
    BY <1>1, <2>1, CellAfterAdvance
  <2>3. /\ Small(readIndex') + (k - 1) = Small(readIndex') + k - 1
        /\ Small(readIndex) + (n + (k - 1)) = Small(readIndex) + (n + k) - 1
    BY <1>1, <1>2, SizeAssumption DEF Indices, Small
  <2>4. Contents'[k] = buffer[Small(Small(readIndex') + k - 1)]
    BY <1>4
  <2>5. Contents[n + k] = buffer[Small(Small(readIndex) + (n + k) - 1)]
    BY <1>3, <2>1
  <2> QED
    BY <2>2, <2>3, <2>4, <2>5
<1>6. \A k \in n + 1 .. Len(Contents) : Contents[k] \in Nat
  BY <1>1, <1>3, ElementOfSeq
<1>7. /\ SubSeq(Contents, n + 1, Len(Contents)) \in Seq(Nat)
      /\ Len(SubSeq(Contents, n + 1, Len(Contents))) = ReadAvailable'
      /\ \A k \in 1 .. ReadAvailable' : SubSeq(Contents, n + 1, Len(Contents))[k] = Contents[n + k]
  <2> DEFINE rest == SubSeq(Contents, n + 1, Len(Contents))
             m == Len(Contents)
  <2>1. n + 1 \in Int /\ m \in Int
    BY <1>1, <1>3
  <2> HIDE DEF m
  <2>2. /\ SubSeq(Contents, n + 1, m) \in Seq(Nat)
        /\ Len(SubSeq(Contents, n + 1, m)) = IF n + 1 <= m THEN m - (n + 1) + 1 ELSE 0
        /\ \A k \in 1 .. m - (n + 1) + 1 : SubSeq(Contents, n + 1, m)[k] = Contents[n + 1 + k - 1]
    BY <1>6, <2>1, SubSeqProperties DEF m
  <2>3. m = ReadAvailable
    BY <1>3 DEF m
  <2>4. m - (n + 1) + 1 = ReadAvailable' /\ \A k \in 1 .. ReadAvailable' : n + 1 + k - 1 = n + k
    BY <1>1, <1>2, <2>3
  <2>5. Len(SubSeq(Contents, n + 1, m)) = ReadAvailable'
    BY <1>1, <1>2, <2>2, <2>3
  <2> QED
    BY <2>2, <2>4, <2>5 DEF m
<1> QED
  BY <1>2, <1>4, <1>5, <1>7, SeqEqual

\* The reader claims no more than is there.
LEMMA ReadBeginInv ==
  ASSUME IInv, NEW n \in 1 .. MaxBatch, ReadBegin(n)
  PROVE  IInv'
<1>1. ReadAvailable \in Nat /\ n \in Nat
  BY AvailableIsNat, BatchAssumption DEF IInv, TypeOK
<1>2. rn' \in Nat /\ rn' <= ReadAvailable
  BY <1>1 DEF ReadBegin, ReadCount, Least
<1>3. UNCHANGED <<writeIndex, readIndex, buffer>>
  BY DEF ReadBegin, wVars
<1>4. ReadAvailable' = ReadAvailable /\ Contents' = Contents
  BY <1>3, ContentsStay DEF IInv
<1>5. TypeOK'
  BY <1>2 DEF ReadBegin, wVars, IInv, TypeOK
<1>6. WriterFits' /\ AvailableInRange' /\ ReaderFits'
  BY <1>1, <1>2, <1>4 DEF ReadBegin, wVars, IInv, WriterFits, ReaderFits, AvailableInRange
<1> QED
  BY <1>5, <1>6 DEF IInv

\* The reader copies the oldest elements of the contents.
LEMMA ReadCopyInv ==
  ASSUME IInv, ReadCopy
  PROVE  IInv' /\ Contents' = Contents
<1>1. /\ rn \in Nat /\ rn <= ReadAvailable /\ ReadAvailable \in Nat /\ ReadAvailable <= N
      /\ readIndex \in Indices
  BY AvailableIsNat DEF ReadCopy, IInv, TypeOK, ReaderFits, AvailableInRange
<1>2. UNCHANGED <<writeIndex, readIndex, buffer, rn, taken>>
  BY DEF ReadCopy, wVars
<1>3. ReadAvailable' = ReadAvailable /\ Contents' = Contents
  BY <1>2, ContentsStay DEF IInv
<1>4. /\ Contents \in Seq(Nat) /\ Len(Contents) = ReadAvailable
      /\ \A k \in 1 .. ReadAvailable :
           Contents[k] = buffer[Small(Small(readIndex) + k - 1)]
  BY ContentsIsSeq DEF IInv
<1>5. ASSUME NEW k \in 1 .. rn
      PROVE  buffer[Small(Small(Small(readIndex) + k - 1))] = Contents[k]
  <2>1. k - 1 \in 0 .. N - 1 /\ k \in 1 .. ReadAvailable
    BY <1>1, SizeAssumption
  <2>2. Small(Small(Small(readIndex) + (k - 1))) = Small(Small(readIndex) + (k - 1))
    BY <1>1, <2>1, CellInRange
  <2>3. Small(readIndex) + (k - 1) = Small(readIndex) + k - 1
    BY <1>1, SizeAssumption DEF Indices, Small
  <2> QED
    BY <1>4, <2>1, <2>2, <2>3
<1>6. \A k \in 1 .. rn : Contents[k] \in Nat
  BY <1>1, <1>4, ElementOfSeq
<1>7. /\ batch' \in Seq(Nat) /\ Len(batch') = rn
      /\ \A k \in 1 .. rn : batch'[k] = Contents[k]
  <2>1. batch' = [k \in 1 .. rn |-> Contents[k]]
    BY <1>5 DEF ReadCopy
  <2>2. batch' \in [1 .. rn -> Nat]
    BY <1>6, <2>1
  <2> QED
    BY <1>1, <2>1, <2>2, LenProperties
<1>8. batch' = SubSeq(Contents, 1, rn)
  <2>1. rn <= Len(batch') /\ rn <= Len(Contents)
    BY <1>1, <1>4, <1>7
  <2>2. SubSeq(batch', 1, rn) = SubSeq(Contents, 1, rn)
    BY <1>1, <1>4, <1>7, <2>1, SameFront
  <2> QED
    BY <1>7, <2>2, WholeFront
<1>9. TypeOK'
  BY <1>7 DEF ReadCopy, wVars, IInv, TypeOK
<1>10. WriterFits' /\ AvailableInRange' /\ ReaderFits'
  BY <1>1, <1>2, <1>3, <1>8
     DEF ReadCopy, wVars, IInv, WriterFits, ReaderFits, AvailableInRange
<1> QED
  BY <1>3, <1>9, <1>10 DEF IInv

\* What the reader returns is what it takes out.
LEMMA ReadAdvanceInv ==
  ASSUME IInv, ReadAdvance
  PROVE  /\ IInv'
         /\ rn \in Nat /\ rn <= ReadAvailable
         /\ taken' = SubSeq(Contents, 1, rn)
         /\ Contents' = SubSeq(Contents, rn + 1, Len(Contents))
<1>1. /\ rn \in Nat /\ rn <= ReadAvailable /\ ReadAvailable \in Nat /\ ReadAvailable <= N
      /\ batch = SubSeq(Contents, 1, rn) /\ wn \in Nat
  BY AvailableIsNat DEF ReadAdvance, IInv, TypeOK, ReaderFits, AvailableInRange
<1>2. UNCHANGED <<writeIndex, buffer, wpc, wn, wtmp, count>> /\ readIndex' = Big(readIndex + rn)
  BY DEF ReadAdvance, wVars
<1>3. /\ readIndex' \in Indices /\ ReadAvailable' = ReadAvailable - rn
      /\ Contents' = SubSeq(Contents, rn + 1, Len(Contents))
  BY <1>1, <1>2, TakenOut DEF IInv
<1>4. TypeOK'
  BY <1>2, <1>3, EmptySeq DEF ReadAdvance, IInv, TypeOK
<1>5. WriterFits' /\ AvailableInRange' /\ ReaderFits'
  BY <1>1, <1>2, <1>3, SizeAssumption
     DEF ReadAdvance, IInv, WriterFits, ReaderFits, AvailableInRange
<1> QED
  BY <1>1, <1>3, <1>4, <1>5 DEF IInv, ReadAdvance

\* Elements that are skipped are taken out as well.
LEMMA SkipInv ==
  ASSUME IInv, NEW n \in 1 .. MaxBatch, Skip(n)
  PROVE  /\ IInv'
         /\ n \in Nat /\ n <= ReadAvailable
         /\ Contents' = SubSeq(Contents, n + 1, Len(Contents))
<1>1. /\ ReadAvailable \in Nat /\ ReadAvailable <= N /\ n \in Nat /\ wn \in Nat
      /\ n <= ReadAvailable
  BY AvailableIsNat, BatchAssumption DEF IInv, TypeOK, AvailableInRange, Skip
<1>2. /\ UNCHANGED <<writeIndex, buffer, wpc, wn, wtmp, count, rpc, rn, batch, taken>>
      /\ readIndex' = Big(readIndex + n)
  BY DEF Skip, wVars
<1>3. /\ readIndex' \in Indices /\ ReadAvailable' = ReadAvailable - n
      /\ Contents' = SubSeq(Contents, n + 1, Len(Contents))
  BY <1>1, <1>2, TakenOut DEF IInv
<1>4. TypeOK'
  BY <1>2, <1>3 DEF IInv, TypeOK
<1>5. WriterFits' /\ AvailableInRange' /\ ReaderFits'
  BY <1>1, <1>2, <1>3, SizeAssumption
     DEF Skip, IInv, WriterFits, ReaderFits, AvailableInRange
<1> QED
  BY <1>1, <1>3, <1>4, <1>5 DEF IInv

\* With too few elements the reader claims none yet.
LEMMA SkipShortInv ==
  ASSUME IInv, NEW n, SkipShort(n)
  PROVE  IInv' /\ Contents' = Contents /\ taken' = taken
<1>1. UNCHANGED <<writeIndex, readIndex, buffer, wpc, wn, wtmp, count, rn, batch, taken>>
  BY DEF SkipShort, wVars
<1>2. ReadAvailable' = ReadAvailable /\ Contents' = Contents
  BY <1>1, ContentsStay DEF IInv
<1> QED
  BY <1>1, <1>2 DEF SkipShort, IInv, TypeOK, AvailableInRange, WriterFits, ReaderFits

\* All that is there is taken out.
LEMMA SkipRestInv ==
  ASSUME IInv, SkipRest
  PROVE  /\ IInv'
         /\ ReadAvailable \in 0 .. N /\ taken' = taken
         /\ Contents' = SubSeq(Contents, ReadAvailable + 1, Len(Contents))
<1>1. ReadAvailable \in Nat /\ ReadAvailable <= N /\ wn \in Nat
  BY AvailableIsNat DEF IInv, TypeOK, AvailableInRange
<1>2. /\ UNCHANGED <<writeIndex, buffer, wpc, wn, wtmp, count, rn, batch, taken>>
      /\ readIndex' = Big(readIndex + ReadAvailable)
  BY DEF SkipRest, wVars
<1>3. /\ readIndex' \in Indices /\ ReadAvailable' = ReadAvailable - ReadAvailable
      /\ Contents' = SubSeq(Contents, ReadAvailable + 1, Len(Contents))
  BY <1>1, <1>2, TakenOut DEF IInv
<1>4. TypeOK'
  BY <1>2, <1>3 DEF SkipRest, IInv, TypeOK
<1>5. WriterFits' /\ AvailableInRange' /\ ReaderFits'
  BY <1>1, <1>2, <1>3, SizeAssumption
     DEF SkipRest, IInv, WriterFits, ReaderFits, AvailableInRange
<1> QED
  BY <1>1, <1>2, <1>3, <1>4, <1>5, SizeAssumption DEF IInv

\* A step that changes nothing keeps the invariant and the contents.
LEMMA StutterInv ==
  ASSUME IInv, UNCHANGED vars
  PROVE  IInv' /\ Contents' = Contents
<1>1. UNCHANGED <<writeIndex, readIndex, buffer>>
  BY DEF vars, wVars, rVars
<1>2. ReadAvailable' = ReadAvailable /\ Contents' = Contents
  BY <1>1, ContentsStay DEF IInv
<1> QED
  BY <1>2 DEF vars, wVars, rVars, IInv, TypeOK, AvailableInRange, WriterFits, ReaderFits

\* Every step of writer and reader keeps the invariant.
LEMMA NextInv == IInv /\ [Next]_vars => IInv'
  BY WriteBeginInv, WriteCopyInv, WriteLoadInv, WriteStoreInv, ReadBeginInv, ReadCopyInv,
     ReadAdvanceInv, SkipInv, SkipShortInv, SkipRestInv, StutterInv DEF Next, Writer, Reader

-----------------------------------------------------------------------------
(* Theorems.                                                               *)

\* IInv holds in every state of every run.
THEOREM Invariance == Spec => []IInv
  BY InitInv, NextInv, PTL DEF Spec

\* The variables keep their types, and an index stays below twice the size.
THEOREM TypeCorrect == Spec => []TypeOK
  BY Invariance, PTL DEF IInv

\* A buffer with one reader and one writer never holds more than its size.
THEOREM NeverOverfull == Spec => []AvailableInRange
  BY Invariance, PTL DEF IInv

\* The cells that putDataIntoBuffer fills are never those that
\* getDataFromBuffer copies at the same time.
THEOREM NoRace == Spec => []NoDataRace
<1>1. IInv => NoDataRace
  <2> SUFFICES ASSUME IInv, wpc = "copy", rpc = "copy"
               PROVE  Region(writeIndex, wn) \cap Region(readIndex, rn) = {}
    BY DEF NoDataRace
  <2>1. /\ wn \in Nat /\ wn + ReadAvailable <= N /\ rn \in Nat /\ rn <= ReadAvailable
        /\ ReadAvailable \in Nat /\ writeIndex \in Indices /\ readIndex \in Indices
    BY AvailableIsNat DEF IInv, TypeOK, WriterFits, ReaderFits
  <2>2. 0 .. Least(wn, N) - 1 \subseteq 0 .. wn - 1
        /\ 0 .. Least(rn, N) - 1 \subseteq 0 .. ReadAvailable - 1
    BY <2>1, SizeAssumption DEF Least
  <2>3. ASSUME NEW k \in 0 .. wn - 1, NEW j \in 0 .. ReadAvailable - 1
        PROVE  Small(Small(writeIndex) + k) # Small(Small(readIndex) + j)
    BY <2>1, CellsApart
  <2> QED
    BY <2>2, <2>3 DEF Region
<1> QED
  BY <1>1, Invariance, PTL

\* Every run of the ring buffer is one of the bounded queue: the store of the
\* write index puts a batch, that of the read index takes one out or skips it.
THEOREM Refinement == Spec => IsChannel
<1>1. Init => Abstract!Init
  <2> SUFFICES ASSUME Init
               PROVE  Abstract!Init
    OBVIOUS
  <2>1. ReadAvailable = 0
    BY SizeAssumption DEF Init, ReadAvailable
  <2>2. Contents \in Seq(Nat) /\ Len(Contents) = 0
    BY <2>1, InitInv, ContentsIsSeq DEF IInv
  <2>3. Contents = <<>>
    BY <2>2, EmptySeq
  <2> QED
    BY <2>3 DEF Init, Abstract!Init
<1>2. IInv /\ [Next]_vars => [Abstract!Next]_(Abstract!chanVars)
  <2> SUFFICES ASSUME IInv, [Next]_vars
               PROVE  Abstract!Next \/ (Contents' = Contents /\ taken' = taken)
    BY DEF Abstract!chanVars
  <2>1. /\ Contents \in Seq(Nat) /\ Len(Contents) = ReadAvailable
        /\ ReadAvailable \in Nat /\ ReadAvailable <= N
    BY ContentsIsSeq, AvailableIsNat DEF IInv, TypeOK, AvailableInRange
  <2>2. CASE \E n \in 1 .. MaxBatch : WriteBegin(n)
    <3>1. UNCHANGED <<writeIndex, readIndex, buffer, taken>>
      BY <2>2 DEF WriteBegin, rVars
    <3> QED
      BY <3>1, ContentsStay DEF IInv
  <2>3. CASE WriteCopy
    BY <2>3, WriteCopyInv DEF WriteCopy, rVars
  <2>4. CASE WriteLoad
    <3>1. UNCHANGED <<writeIndex, readIndex, buffer, taken>>
      BY <2>4 DEF WriteLoad, rVars
    <3> QED
      BY <3>1, ContentsStay DEF IInv
  <2>5. CASE WriteStore
    <3>1. /\ IInv' /\ ReadAvailable' = ReadAvailable + wn
          /\ SubSeq(Contents', 1, ReadAvailable) = Contents
      BY <2>5, WriteStoreInv
    <3>2. wn \in Nat /\ taken' = taken
      BY <2>5 DEF WriteStore, rVars, IInv, TypeOK
    <3>3. Contents' \in Seq(Nat) /\ Len(Contents') = ReadAvailable' /\ ReadAvailable' <= N
      <4>1. ReadAvailable' \in 0 .. N
        BY <2>1, <3>1, <3>2, SizeAssumption DEF IInv, AvailableInRange
      <4> QED
        BY <4>1, <3>1, SizeAssumption, ContentsIsSeqAfter DEF IInv, TypeOK
    <3>4. CASE wn = 0
      <4>1. ReadAvailable' = ReadAvailable
        BY <2>1, <3>1, <3>4
      <4>2. Contents' = Contents
        BY <3>1, <3>3, <4>1, WholeFront
      <4> QED
        BY <3>2, <4>2
    <3>5. CASE wn # 0
      <4>1. Len(Contents) < Len(Contents') /\ Len(Contents') <= N
        BY <2>1, <3>1, <3>2, <3>3, <3>5
      <4> QED
        BY <2>1, <3>1, <3>2, <4>1 DEF Abstract!Next, Abstract!Put
    <3> QED
      BY <3>4, <3>5
  <2>6. CASE \E n \in 1 .. MaxBatch : ReadBegin(n)
    <3>1. UNCHANGED <<writeIndex, readIndex, buffer, taken>>
      BY <2>6 DEF ReadBegin, wVars
    <3> QED
      BY <3>1, ContentsStay DEF IInv
  <2>7. CASE \E n \in 1 .. MaxBatch : Skip(n)
    <3>1. PICK n \in 1 .. MaxBatch : Skip(n)
      BY <2>7
    <3>2. /\ n \in Nat /\ n <= ReadAvailable /\ taken' = taken
          /\ Contents' = SubSeq(Contents, n + 1, Len(Contents))
      BY <3>1, SkipInv DEF Skip
    <3>3. n \in 0 .. N
      BY <2>1, <3>2, SizeAssumption
    <3> QED
      BY <2>1, <3>2, <3>3 DEF Abstract!Next, Abstract!Skip
  <2>8. CASE ReadCopy
    BY <2>8, ReadCopyInv DEF ReadCopy
  <2>9. CASE ReadAdvance
    <3>1. /\ rn \in Nat /\ rn <= ReadAvailable /\ taken' = SubSeq(Contents, 1, rn)
          /\ Contents' = SubSeq(Contents, rn + 1, Len(Contents))
      BY <2>9, ReadAdvanceInv
    <3>2. rn \in 0 .. N
      BY <2>1, <3>1, SizeAssumption
    <3> QED
      BY <2>1, <3>1, <3>2 DEF Abstract!Next, Abstract!Get
  <2>10. CASE \E n \in 1 .. MaxBatch : SkipShort(n)
    BY <2>10, SkipShortInv
  <2>11. CASE SkipRest
    <3>1. /\ ReadAvailable \in 0 .. N /\ taken' = taken
          /\ Contents' = SubSeq(Contents, ReadAvailable + 1, Len(Contents))
      BY <2>11, SkipRestInv
    <3> QED
      BY <2>1, <3>1 DEF Abstract!Next, Abstract!Skip
  <2>12. CASE UNCHANGED vars
    BY <2>12, StutterInv DEF vars, rVars
  <2> QED
    BY <2>2, <2>3, <2>4, <2>5, <2>6, <2>7, <2>8, <2>9, <2>10, <2>11, <2>12
       DEF Next, Writer, Reader
<1> QED
  BY <1>1, <1>2, Invariance, PTL DEF Spec, IsChannel, Abstract!Spec
=============================================================================
