-------------------------- MODULE MscHandler_proofs --------------------------
(***************************************************************************)
(* Proofs about MscHandler, for every number of backends, of sub-channels  *)
(* and of blocks in a CIF: the vector and the objects agree, no backend is *)
(* used after its deletion, and each gets the CIFs one after the other.    *)
(***************************************************************************)
EXTENDS MscHandler, SequenceTheorems, FiniteSetTheorems, TLAPS

Id(i) == theBackends[i].id

\* The loop runs with the lock held, over the first elements of the vector;
\* outside of it nothing is used.
Loop ==
  /\ locker = "ofdm" <=> iter # None
  /\ iter # None => limit <= Len(theBackends) /\ iter <= limit + 1
  /\ iter = None => used = None /\ ~torn
  /\ torn => race

\* The vector holds the objects that exist, each once.
Vector ==
  /\ objects \subseteq 1 .. made
  /\ \A i \in 1 .. Len(theBackends) : Id(i) \in objects
  /\ \A b \in objects : \E i \in 1 .. Len(theBackends) : Id(i) = b
  /\ \A i, j \in 1 .. Len(theBackends) : Id(i) = Id(j) => i = j

\* The blocks of the CIF so far are from the frame that comes in, unless one was
\* passed over; when the loop runs the CIF is complete and the next one has not
\* begun.
Cif ==
  /\ iter = None => passed \/ \A i \in 0 .. Position(blkno) - 1 : cifVector[i] = frame
  /\ iter # None => Position(blkno) = 0
  /\ CifOfOneFrame

\* A backend that was opened before the loop has the CIF when the loop has
\* passed it, and the one before until then; one opened since has none.
Gots ==
  ~race =>
    /\ \A b \in Ids : b > made => got[b] = 0
    /\ iter = None => \A i \in 1 .. Len(theBackends) : got[Id(i)] \in {0, cifCount}
    /\ iter # None =>
         \A i \in 1 .. Len(theBackends) :
           /\ i < iter => got[Id(i)] = cifCount
           /\ iter <= i /\ i <= limit => got[Id(i)] \in {0, cifCount - 1}
           /\ limit < i => got[Id(i)] = 0

IInv == /\ TypeOK /\ cifCount \in Nat
        /\ Loop /\ Vector /\ Cif /\ Gots /\ NoUseAfterDelete

-----------------------------------------------------------------------------
(* The elements that are left of a vector.                                 *)

Rank(kept, i) == Cardinality({j \in kept : j <= i})

\* The numbers up to n are n.
LEMMA Counting ==
  ASSUME NEW n \in Nat
  PROVE  IsFiniteSet(1 .. n) /\ Cardinality(1 .. n) = n
<1>1. IsFiniteSet(1 .. n) /\ Cardinality(1 .. n) = IF 1 > n THEN 0 ELSE n - 1 + 1
  BY FS_Interval
<1>2. (IF 1 > n THEN 0 ELSE n - 1 + 1) = n
  OBVIOUS
<1> QED
  BY <1>1, <1>2

\* Numbering the kept positions from below uses each number once.
LEMMA RankIsBijection ==
  ASSUME NEW n \in Nat, NEW kept \in SUBSET (1 .. n)
  PROVE  /\ Cardinality(kept) \in Nat
         /\ \A i \in kept : Rank(kept, i) \in 1 .. Cardinality(kept)
         /\ \A i, j \in kept : Rank(kept, i) = Rank(kept, j) => i = j
         /\ \A k \in 1 .. Cardinality(kept) : \E i \in kept : Rank(kept, i) = k
<1> DEFINE Upto(i) == {j \in kept : j <= i}
           c == Cardinality(kept)
<1>1. IsFiniteSet(kept) /\ c \in Nat
  <2>1. IsFiniteSet(1 .. n)
    BY Counting
  <2>2. IsFiniteSet(kept)
    BY <2>1, FS_Subset
  <2> QED
    BY <2>2, FS_CardinalityType
<1>2. ASSUME NEW i \in kept
      PROVE  /\ IsFiniteSet(Upto(i)) /\ Rank(kept, i) \in 1 .. c
  <2>1. Upto(i) \in SUBSET kept
    OBVIOUS
  <2>2. /\ IsFiniteSet(Upto(i)) /\ Cardinality(Upto(i)) <= c
    BY <1>1, <2>1, FS_Subset
  <2>3. Cardinality(Upto(i)) \in Nat
    BY <2>2, FS_CardinalityType
  <2>4. i \in Upto(i)
    OBVIOUS
  <2>5. Cardinality(Upto(i)) # 0
    BY <2>2, <2>4, FS_EmptySet
  <2> QED
    BY <1>1, <2>2, <2>3, <2>5 DEF Rank
<1>3. ASSUME NEW i \in kept, NEW j \in kept, i < j
      PROVE  Rank(kept, i) # Rank(kept, j)
  <2>1. Upto(i) \in SUBSET Upto(j)
    <3>1. i \in Nat /\ j \in Nat /\ \A k \in kept : k \in Nat
      OBVIOUS
    <3>2. \A k \in kept : k <= i => k <= j
      BY <1>3, <3>1
    <3> QED
      BY <3>2
  <2>2. j \in Upto(j) /\ j \notin Upto(i)
    BY <1>3
  <2>3. Upto(i) # Upto(j)
    BY <2>2
  <2>4. IsFiniteSet(Upto(j))
    BY <1>2
  <2>5. Cardinality(Upto(j)) # Cardinality(Upto(i))
    BY <2>1, <2>3, <2>4, FS_Subset
  <2> QED
    BY <2>5 DEF Rank
<1>4. ASSUME NEW i \in kept, NEW j \in kept, Rank(kept, i) = Rank(kept, j)
      PROVE  i = j
  <2>1. i < j \/ j < i \/ i = j
    OBVIOUS
  <2> QED
    BY <1>3, <1>4, <2>1
<1>5. \A k \in 1 .. c : \E i \in kept : Rank(kept, i) = k
  <2> DEFINE f == [i \in kept |-> Rank(kept, i)]
  <2>1. f \in Injection(kept, 1 .. c)
    BY <1>2, <1>4 DEF Injection, IsInjective
  <2>2. IsFiniteSet(1 .. c) /\ Cardinality(1 .. c) = c
    BY <1>1, Counting
  <2>3. f \in Surjection(kept, 1 .. c)
    BY <2>1, <2>2, FS_Injection
  <2>4. \A k \in 1 .. c : \E i \in kept : f[i] = k
    BY <2>3 DEF Surjection
  <2> QED
    BY <2>4
<1> QED
  BY <1>1, <1>2, <1>4, <1>5

\* w is the elements of bs outside of the positions, each once.
Keeps(w, bs, positions) ==
  \E f \in [1 .. Len(w) -> (1 .. Len(bs)) \ positions] :
    /\ \A k \in 1 .. Len(w) : w[k] = bs[f[k]]
    /\ \A k, l \in 1 .. Len(w) : f[k] = f[l] => k = l
    /\ \A i \in (1 .. Len(bs)) \ positions : \E k \in 1 .. Len(w) : f[k] = i

\* What is left is the elements at the kept positions, each once.
LEMMA WithoutKeeps ==
  ASSUME NEW R, NEW bs \in Seq(R), NEW positions,
         NEW w, w = Without(bs, positions)
  PROVE  w \in Seq(R) /\ Len(w) \in Nat /\ Keeps(w, bs, positions)
<1> DEFINE kept == (1 .. Len(bs)) \ positions
           c == Cardinality(kept)
           f == [k \in 1 .. c |-> CHOOSE i \in kept : Rank(kept, i) = k]
<1>1. Len(bs) \in Nat /\ kept \in SUBSET (1 .. Len(bs))
  BY LenProperties
<1>2. /\ c \in Nat
      /\ \A i \in kept : Rank(kept, i) \in 1 .. c
      /\ \A i, j \in kept : Rank(kept, i) = Rank(kept, j) => i = j
      /\ \A k \in 1 .. c : \E i \in kept : Rank(kept, i) = k
  <2> HIDE DEF kept
  <2> QED
    BY <1>1, RankIsBijection
<1>3. \A k \in 1 .. c : f[k] \in kept /\ Rank(kept, f[k]) = k
  <2> HIDE DEF kept, c
  <2> QED
    BY <1>2
<1>4. w = [k \in 1 .. c |-> bs[f[k]]]
  BY DEF Without, Rank
<1> HIDE DEF f, c, kept
<1>5. \A k \in 1 .. c : bs[f[k]] \in R
  BY <1>1, <1>3, ElementOfSeq DEF kept
<1>6. w \in [1 .. c -> R]
  BY <1>4, <1>5
<1>7. w \in Seq(R) /\ Len(w) = c
  BY <1>2, <1>6, LenProperties
<1>8. f \in [1 .. c -> kept]
  BY <1>3 DEF f
<1>9. \A k, l \in 1 .. c : f[k] = f[l] => k = l
  BY <1>3
<1>10. \A i \in kept : \E k \in 1 .. c : f[k] = i
  BY <1>2, <1>3
<1>11. \A k \in 1 .. c : w[k] = bs[f[k]]
  BY <1>4
<1>12. /\ f \in [1 .. Len(w) -> kept]
       /\ \A k \in 1 .. Len(w) : w[k] = bs[f[k]]
       /\ \A k, l \in 1 .. Len(w) : f[k] = f[l] => k = l
       /\ \A i \in kept : \E k \in 1 .. Len(w) : f[k] = i
  BY <1>7, <1>8, <1>9, <1>10, <1>11
<1>13. \E g \in [1 .. Len(w) -> kept] :
         /\ \A k \in 1 .. Len(w) : w[k] = bs[g[k]]
         /\ \A k, l \in 1 .. Len(w) : g[k] = g[l] => k = l
         /\ \A i \in kept : \E k \in 1 .. Len(w) : g[k] = i
  BY <1>12
<1> QED
  BY <1>2, <1>7, <1>13 DEF kept, Keeps

-----------------------------------------------------------------------------
(* Positions of the blocks.                                                *)

\* The sizes are numbers, and a frame has blocks besides those of the FIC.
LEMMA Sizes ==
  /\ BlocksPerCIF \in Nat /\ BlocksPerCIF > 0
  /\ LastBlock \in Nat /\ LastBlock > 3
  /\ MaxBackends \in Nat /\ MaxFrames \in Nat
  BY SizesAssumption

\* The block after the last one of a CIF is the first one of the next.
LEMMA PositionStep ==
  ASSUME NEW b \in Nat
  PROVE  /\ Position(b) \in 0 .. BlocksPerCIF - 1
         /\ Position(b + 1) = IF Position(b) = BlocksPerCIF - 1 THEN 0 ELSE Position(b) + 1
<1> DEFINE a == b - 4
           q == a \div BlocksPerCIF
           r == a % BlocksPerCIF
<1>1. a \in Int /\ BlocksPerCIF \in Nat /\ BlocksPerCIF > 0
  BY SizesAssumption
<1>2. q \in Int /\ r \in 0 .. BlocksPerCIF - 1
  BY <1>1
<1>3. r = a - BlocksPerCIF * q
  BY <1>1, Z3
<1> HIDE DEF q, r
<1>4. a = BlocksPerCIF * q + r
  BY <1>1, <1>2, <1>3
<1>5. (a + 1) % BlocksPerCIF = IF r = BlocksPerCIF - 1 THEN 0 ELSE r + 1
  BY <1>1, <1>2, <1>4
<1>6. b + 1 - 4 = a + 1
  OBVIOUS
<1> QED
  BY <1>2, <1>5, <1>6 DEF Position, r

\* The first block of a frame begins a CIF, the last one ends one.
LEMMA PositionEnds ==
  /\ Position(4) = 0
  /\ Position(LastBlock) = BlocksPerCIF - 1
<1>1. /\ BlocksPerCIF \in Nat /\ BlocksPerCIF > 0 /\ LastBlock \in Nat
      /\ (LastBlock - 3) % BlocksPerCIF = 0
  BY SizesAssumption
<1>2. Position(4) = 0
  <2>1. 0 = BlocksPerCIF * 0 + 0
    BY <1>1
  <2> QED
    BY <1>1 DEF Position
<1>3. Position(LastBlock + 1) = 0
  <2>1. LastBlock + 1 - 4 = LastBlock - 3
    BY <1>1
  <2> QED
    BY <1>1, <2>1 DEF Position
<1>4. /\ Position(LastBlock) \in 0 .. BlocksPerCIF - 1
      /\ Position(LastBlock + 1) = IF Position(LastBlock) = BlocksPerCIF - 1
                                   THEN 0 ELSE Position(LastBlock) + 1
  BY <1>1, PositionStep
<1> QED
  BY <1>1, <1>2, <1>3, <1>4

-----------------------------------------------------------------------------
(* The inductive invariant.                                                *)

Entry == [id : Ids, subChId : SubChs, borf : Flags]

\* What the invariant says of the vector is that it is the objects.
LEMMA VectorCount ==
  TypeOK /\ Vector => VectorIsObjects /\ Len(theBackends) \in 0 .. made
<1> SUFFICES ASSUME TypeOK, Vector
             PROVE  VectorIsObjects /\ Len(theBackends) \in 0 .. made
  OBVIOUS
<1> DEFINE f == [i \in 1 .. Len(theBackends) |-> Id(i)]
<1>1. Len(theBackends) \in Nat /\ made \in Nat
  BY LenProperties, Sizes DEF TypeOK
<1>2. f \in Bijection(1 .. Len(theBackends), objects)
  BY DEF Vector, Bijection, Injection, IsInjective, Surjection
<1>3. IsFiniteSet(1 .. Len(theBackends)) /\ Cardinality(1 .. Len(theBackends)) = Len(theBackends)
  BY <1>1, Counting
<1>4. Cardinality(objects) = Len(theBackends)
  BY <1>2, <1>3, FS_Bijection DEF ExistsBijection
<1>5. {theBackends[i].id : i \in 1 .. Len(theBackends)} = objects
  BY DEF Vector, Id
<1>6. IsFiniteSet(1 .. made) /\ Cardinality(1 .. made) = made
  BY <1>1, Counting
<1>7. Cardinality(objects) <= made
  <2>1. objects \in SUBSET (1 .. made)
    BY DEF Vector
  <2> QED
    BY <1>6, <2>1, FS_Subset
<1> QED
  BY <1>1, <1>4, <1>5, <1>7 DEF VectorIsObjects

\* An element of the vector is a backend of the run.
LEMMA IdsInRange ==
  ASSUME IInv, NEW i \in 1 .. Len(theBackends)
  PROVE  Id(i) \in Ids /\ Id(i) \in 1 .. made
  BY ElementOfSeq DEF IInv, TypeOK, Vector, Id, Ids

\* At the start there are no backends and no CIF.
LEMMA InitInv == Init => IInv
<1> SUFFICES ASSUME Init
             PROVE  IInv
  OBVIOUS
<1>1. TypeOK /\ cifCount \in Nat
  <2>1. 4 \in 4 .. LastBlock
    BY Sizes
  <2> QED
    BY <2>1, Sizes, EmptySeq DEF Init, TypeOK, Ids, None
<1>2. Len(theBackends) = 0
  BY EmptySeq DEF Init
<1>3. Loop /\ Vector /\ Gots /\ NoUseAfterDelete
  BY <1>2 DEF Init, Loop, Vector, Gots, NoUseAfterDelete, None
<1>4. Cif
  BY PositionEnds DEF Init, Cif, CifOfOneFrame
<1> QED
  BY <1>1, <1>3, <1>4 DEF IInv

\* A backend that is opened comes behind those the loop runs over.
LEMMA set_ChannelInv ==
  ASSUME IInv, NEW s \in SubChs, NEW flag \in Flags, set_Channel(s, flag)
  PROVE  IInv'
<1> DEFINE new == [id |-> made', subChId |-> s, borf |-> flag]
           n == Len(theBackends)
           NewId(i) == theBackends'[i].id
<1>1. made' = made + 1 /\ made \in Nat /\ made' \in Ids /\ made' \in 0 .. MaxBackends
  BY Sizes DEF set_Channel, IInv, TypeOK, Ids
<1>2. /\ theBackends' \in Seq(Entry) /\ Len(theBackends') = n + 1 /\ n \in Nat
      /\ \A i \in 1 .. n : theBackends'[i] = theBackends[i]
      /\ theBackends'[n + 1] = new
  <2>1. new \in Entry /\ theBackends \in Seq(Entry)
    BY <1>1 DEF Entry, IInv, TypeOK
  <2>2. theBackends' = Append(theBackends, new)
    BY DEF set_Channel
  <2> QED
    BY <2>1, <2>2, AppendProperties, LenProperties
<1>3. /\ UNCHANGED <<locker, blkno, frame, cifVector, iter, limit, used, cifCount, got,
                     given, scanMode, passed>>
      /\ objects' = objects \cup {made'}
  BY DEF set_Channel, ofdmVars
<1>4. PICK moved \in BOOLEAN : /\ torn' = (torn \/ (moved /\ iter # None))
                               /\ race' = (race \/ (moved /\ iter # None))
  BY DEF set_Channel
<1>5. /\ \A i \in 1 .. n : NewId(i) = Id(i) /\ Id(i) \in 1 .. made /\ Id(i) # made'
      /\ NewId(n + 1) = made'
  <2>1. \A i \in 1 .. n : Id(i) \in 1 .. made
    BY IdsInRange
  <2> QED
    BY <1>1, <1>2, <2>1 DEF Id
<1>6. TypeOK' /\ cifCount' \in Nat
  BY <1>1, <1>2, <1>3, <1>4 DEF IInv, TypeOK, Entry, Ids
<1>7. Loop'
  <2>1. iter # None => limit \in Nat /\ limit <= n + 1
    BY <1>2, Sizes DEF IInv, TypeOK, Loop
  <2> QED
    BY <1>2, <1>3, <1>4, <2>1 DEF IInv, Loop
<1>8. Vector'
  <2>1. objects' \subseteq 1 .. made'
    BY <1>1, <1>3 DEF IInv, Vector
  <2>2. \A i \in 1 .. n + 1 : i \in 1 .. n \/ i = n + 1
    BY <1>2
  <2>3. \A i \in 1 .. n + 1 : NewId(i) \in objects'
    BY <1>3, <1>5, <2>2 DEF IInv, Vector
  <2>4. ASSUME NEW b \in objects'
        PROVE  \E i \in 1 .. n + 1 : NewId(i) = b
    <3>1. CASE b = made'
      BY <1>2, <1>5, <3>1
    <3>2. CASE b # made'
      <4>1. PICK i \in 1 .. n : Id(i) = b
        BY <1>3, <3>2 DEF IInv, Vector
      <4> QED
        BY <1>2, <1>5, <4>1
    <3> QED
      BY <3>1, <3>2
  <2>5. \A i, j \in 1 .. n + 1 : NewId(i) = NewId(j) => i = j
    BY <1>5, <2>2 DEF IInv, Vector
  <2> QED
    BY <1>2, <2>1, <2>3, <2>4, <2>5 DEF Vector, Id
<1>9. Cif' /\ NoUseAfterDelete'
  BY <1>3, <1>4 DEF IInv, Cif, CifOfOneFrame, NoUseAfterDelete
<1>10. Gots'
  <2> SUFFICES ASSUME ~race'
               PROVE  /\ \A b \in Ids : b > made' => got[b] = 0
                      /\ \A i \in 1 .. n + 1 :
                           /\ iter = None => got[NewId(i)] \in {0, cifCount}
                           /\ iter # None =>
                                /\ i < iter => got[NewId(i)] = cifCount
                                /\ iter <= i /\ i <= limit => got[NewId(i)] \in {0, cifCount - 1}
                                /\ limit < i => got[NewId(i)] = 0
    BY <1>2, <1>3 DEF Gots, Id
  <2>1. ~race
    BY <1>4
  <2>2. \A b \in Ids : b > made => got[b] = 0
    BY <2>1 DEF IInv, Gots
  <2>3. \A b \in Ids : b > made' => got[b] = 0
    BY <1>1, <2>2 DEF Ids
  <2>4. got[made'] = 0
    BY <1>1, <2>2
  <2>5. ASSUME NEW i \in 1 .. n
        PROVE  /\ iter = None => got[NewId(i)] \in {0, cifCount}
               /\ iter # None =>
                    /\ i < iter => got[NewId(i)] = cifCount
                    /\ iter <= i /\ i <= limit => got[NewId(i)] \in {0, cifCount - 1}
                    /\ limit < i => got[NewId(i)] = 0
    BY <1>5, <2>1 DEF IInv, Gots
  <2>6. iter # None => limit < n + 1 /\ iter <= n + 1 /\ limit \in Nat /\ iter \in Nat
    BY <1>2, Sizes DEF IInv, TypeOK, Loop
  <2>7. iter # None => ~(n + 1 < iter) /\ ~(n + 1 <= limit)
    BY <1>2, <2>6
  <2>8. \A i \in 1 .. n + 1 : i \in 1 .. n \/ i = n + 1
    BY <1>2
  <2> QED
    BY <1>5, <2>3, <2>4, <2>5, <2>7, <2>8
<1> QED
  BY <1>6, <1>7, <1>8, <1>9, <1>10 DEF IInv

\* Elements are only erased outside the loop, and with their objects.
LEMMA RemovedInv ==
  ASSUME IInv, locker = "free", NEW gone \in SUBSET (1 .. Len(theBackends)),
         objects' = objects \ {theBackends[i].id : i \in gone},
         theBackends' = Without(theBackends, gone),
         UNCHANGED <<made, locker, torn, race, scanMode, ofdmVars>>
  PROVE  IInv'
<1> DEFINE n == Len(theBackends)
           m == Len(theBackends')
           NewId(k) == theBackends'[k].id
<1>1. /\ UNCHANGED <<made, locker, torn, race, blkno, frame, cifVector, iter, limit, used,
                     cifCount, got, given, scanMode, passed>>
      /\ iter = None /\ used = None /\ ~torn
  BY DEF ofdmVars, IInv, Loop
<1>2. /\ theBackends' \in Seq(Entry) /\ m \in Nat
      /\ Keeps(theBackends', theBackends, gone)
  <2>1. theBackends \in Seq(Entry)
    BY DEF IInv, TypeOK, Entry
  <2> QED
    BY <2>1, WithoutKeeps
<1>3. PICK f \in [1 .. m -> (1 .. n) \ gone] :
           /\ \A k \in 1 .. m : theBackends'[k] = theBackends[f[k]]
           /\ \A k, l \in 1 .. m : f[k] = f[l] => k = l
           /\ \A i \in (1 .. n) \ gone : \E k \in 1 .. m : f[k] = i
  BY <1>2 DEF Keeps
<1>4. \A k \in 1 .. m : f[k] \in 1 .. n /\ f[k] \notin gone /\ NewId(k) = Id(f[k])
  BY <1>3 DEF Id
<1>5. TypeOK' /\ cifCount' \in Nat
  BY <1>1, <1>2 DEF IInv, TypeOK, Entry
<1>6. Loop' /\ Cif' /\ NoUseAfterDelete'
  BY <1>1 DEF IInv, Loop, Cif, CifOfOneFrame, NoUseAfterDelete
<1>7. Vector'
  <2>1. objects' \subseteq 1 .. made'
    BY <1>1 DEF IInv, Vector
  <2>2. \A k \in 1 .. m : NewId(k) \in objects'
    <3> SUFFICES ASSUME NEW k \in 1 .. m
                 PROVE  NewId(k) \in objects'
      OBVIOUS
    <3>1. f[k] \in 1 .. n /\ f[k] \notin gone /\ NewId(k) = Id(f[k])
      BY <1>4
    <3>2. Id(f[k]) \in objects
      BY <3>1 DEF IInv, Vector
    <3>3. ASSUME NEW i \in gone
          PROVE  Id(f[k]) # theBackends[i].id
      <4>1. i \in 1 .. n
        OBVIOUS
      <4>2. Id(f[k]) = Id(i) => f[k] = i
        BY <3>1, <4>1 DEF IInv, Vector
      <4> QED
        BY <3>1, <4>2 DEF Id
    <3> QED
      BY <3>1, <3>2, <3>3
  <2>3. \A b \in objects' : \E k \in 1 .. m : NewId(k) = b
    <3> SUFFICES ASSUME NEW b \in objects'
                 PROVE  \E k \in 1 .. m : NewId(k) = b
      OBVIOUS
    <3>1. PICK i \in 1 .. n : Id(i) = b
      BY DEF IInv, Vector
    <3>2. i \notin gone
      BY <3>1 DEF Id
    <3>3. PICK k \in 1 .. m : f[k] = i
      BY <1>3, <3>2
    <3> QED
      BY <1>4, <3>1, <3>3
  <2>4. \A k, l \in 1 .. m : NewId(k) = NewId(l) => k = l
    BY <1>3, <1>4 DEF IInv, Vector
  <2> QED
    BY <2>1, <2>2, <2>3, <2>4 DEF Vector, Id
<1>8. Gots'
  <2> SUFFICES ASSUME ~race
               PROVE  /\ \A b \in Ids : b > made => got[b] = 0
                      /\ \A k \in 1 .. m : got[NewId(k)] \in {0, cifCount}
    BY <1>1 DEF Gots, Id
  <2>1. \A b \in Ids : b > made => got[b] = 0
    BY DEF IInv, Gots
  <2>2. \A i \in 1 .. n : got[Id(i)] \in {0, cifCount}
    BY <1>1 DEF IInv, Gots
  <2> QED
    BY <1>4, <2>1, <2>2
<1> QED
  BY <1>5, <1>6, <1>7, <1>8 DEF IInv

\* stop_service deletes the objects it erases from the vector, outside of the
\* loop, so that neither the vector nor the loop keeps one of them.
LEMMA stop_serviceInv ==
  ASSUME IInv, NEW s \in SubChs, NEW flag \in Flags, stop_service(s, flag)
  PROVE  IInv'
<1> DEFINE gone == Erased(theBackends, s, flag)
<1>1. gone \in SUBSET (1 .. Len(theBackends))
  BY DEF Erased
<1>2. /\ locker = "free" /\ objects' = objects \ {theBackends[i].id : i \in gone}
      /\ theBackends' = Without(theBackends, gone)
      /\ UNCHANGED <<made, locker, torn, race, scanMode, ofdmVars>>
  BY DEF stop_service
<1> HIDE DEF gone
<1> QED
  BY <1>1, <1>2, RemovedInv

\* reset_Channel deletes all, and no loop is under way.
LEMMA reset_ChannelInv ==
  ASSUME IInv, reset_Channel
  PROVE  IInv'
<1>1. /\ UNCHANGED <<made, locker, torn, race, blkno, frame, cifVector, iter, limit, used,
                     cifCount, got, given, scanMode, passed>>
      /\ iter = None /\ used = None /\ ~torn /\ objects' = {}
  BY DEF reset_Channel, ofdmVars, IInv, Loop
<1>2. theBackends' \in Seq(Entry) /\ Len(theBackends') = 0
  BY EmptySeq DEF reset_Channel
<1>3. TypeOK' /\ cifCount' \in Nat
  BY <1>1, <1>2 DEF IInv, TypeOK, Entry
<1>4. Loop' /\ Vector' /\ Cif' /\ Gots' /\ NoUseAfterDelete'
  BY <1>1, <1>2 DEF IInv, Loop, Vector, Cif, CifOfOneFrame, Gots, NoUseAfterDelete
<1> QED
  BY <1>3, <1>4 DEF IInv

\* Setting or clearing the scan mode leaves the CIF as it is.
LEMMA set_scanModeInv ==
  ASSUME IInv, NEW b \in BOOLEAN, set_scanMode(b)
  PROVE  IInv'
<1>1. /\ UNCHANGED <<theBackends, objects, made, locker, torn, race, blkno, frame, cifVector,
                     iter, limit, used, cifCount, got, given, passed>>
      /\ scanMode' \in BOOLEAN
  BY DEF set_scanMode, guiVars, ofdmVars
<1> QED
  BY <1>1 DEF IInv, TypeOK, Loop, Vector, Cif, CifOfOneFrame, Gots, NoUseAfterDelete, Id

\* A block extends the CIF, or completes it; then all its blocks are of the
\* frame and the loop starts with what every backend has had before.
LEMMA BlockInv ==
  ASSUME IInv, Block
  PROVE  IInv'
<1>1. /\ iter = None /\ frame <= MaxFrames /\ used = None /\ ~torn
      /\ UNCHANGED <<theBackends, objects, made, torn, race, used, got, given, scanMode>>
      /\ blkno \in Nat /\ blkno \in 4 .. LastBlock /\ cifCount \in Nat /\ frame \in Nat
      /\ LastBlock \in Nat /\ BlocksPerCIF \in Nat
  BY Sizes DEF Block, NextBlock, guiVars, IInv, TypeOK, Loop
<1>2. /\ cifVector' = [cifVector EXCEPT ![Position(blkno)] = frame]
      /\ blkno' = IF blkno = LastBlock THEN 4 ELSE blkno + 1
      /\ frame' = IF blkno = LastBlock THEN frame + 1 ELSE frame
      /\ passed' = (passed /\ Position(blkno) # 0)
  BY DEF Block, NextBlock
<1>3. /\ Position(blkno) \in 0 .. BlocksPerCIF - 1
      /\ Position(blkno') = IF Position(blkno) = BlocksPerCIF - 1 THEN 0 ELSE Position(blkno) + 1
      /\ Position(blkno) # BlocksPerCIF - 1 => blkno # LastBlock
  BY <1>1, <1>2, PositionStep, PositionEnds
<1>4. passed' \/ \A i \in 0 .. Position(blkno) : cifVector'[i] = frame
  <2> SUFFICES ASSUME ~passed'
               PROVE  \A i \in 0 .. Position(blkno) : cifVector'[i] = frame
    OBVIOUS
  <2>1. cifVector \in [0 .. BlocksPerCIF - 1 -> 0 .. MaxFrames]
    BY DEF IInv, TypeOK
  <2>2. \A i \in 0 .. Position(blkno) - 1 : cifVector[i] = frame
    <3>1. CASE Position(blkno) = 0
      BY <3>1
    <3>2. CASE ~passed
      BY <1>1, <3>2 DEF IInv, Cif
    <3> QED
      BY <1>2, <3>1, <3>2
  <2>3. \A i \in 0 .. Position(blkno) :
          i \in 0 .. BlocksPerCIF - 1 /\ (i = Position(blkno) \/ i \in 0 .. Position(blkno) - 1)
    BY <1>1, <1>3
  <2> QED
    BY <1>2, <1>3, <2>1, <2>2, <2>3
<1>5. DOMAIN cifVector' = 0 .. BlocksPerCIF - 1
  BY <1>2 DEF IInv, TypeOK
<1>6. Vector'
  BY <1>1 DEF IInv, Vector, Id
<1>7. Len(theBackends) \in 0 .. MaxBackends
  BY VectorCount, Sizes DEF IInv, TypeOK
<1>8. /\ cifVector' \in [0 .. BlocksPerCIF - 1 -> 0 .. MaxFrames]
      /\ blkno' \in 4 .. LastBlock /\ frame' \in 1 .. MaxFrames + 1
      /\ passed' \in BOOLEAN
  <2>1. frame \in 0 .. MaxFrames
    BY <1>1, Sizes
  <2>2. cifVector' \in [0 .. BlocksPerCIF - 1 -> 0 .. MaxFrames]
    BY <1>2, <1>3, <2>1 DEF IInv, TypeOK
  <2>3. blkno' \in 4 .. LastBlock /\ frame' \in 1 .. MaxFrames + 1
    BY <1>1, <1>2, Sizes DEF IInv, TypeOK
  <2>4. passed' \in BOOLEAN
    BY <1>2
  <2> QED
    BY <2>2, <2>3, <2>4
<1>9. CASE Position(blkno) = BlocksPerCIF - 1
  <2>1. /\ locker' = "ofdm" /\ iter' = 1 /\ limit' = Len(theBackends)
        /\ cifCount' = cifCount + 1
    BY <1>9 DEF Block
  <2>2. TypeOK' /\ cifCount' \in Nat
    <3>1. iter' \in 0 .. MaxBackends + 1 /\ limit' \in 0 .. MaxBackends
      BY <1>7, <2>1, Sizes
    <3> QED
      BY <1>1, <1>8, <2>1, <3>1 DEF IInv, TypeOK
  <2>3. Loop' /\ NoUseAfterDelete'
    BY <1>1, <1>7, <2>1 DEF IInv, Loop, NoUseAfterDelete, None
  <2>4. Cif'
    <3>1. ~passed' => \A i \in DOMAIN cifVector' : cifVector'[i] = frame
      BY <1>4, <1>5, <1>9
    <3>2. Position(blkno') = 0
      BY <1>3, <1>9
    <3> QED
      BY <2>1, <3>1, <3>2 DEF Cif, CifOfOneFrame, None, Position
  <2>5. Gots'
    <3> SUFFICES ASSUME ~race
                 PROVE  /\ \A b \in Ids : b > made => got[b] = 0
                        /\ \A i \in 1 .. Len(theBackends) : got[Id(i)] \in {0, cifCount' - 1}
      BY <1>1, <1>7, <2>1 DEF Gots, Id, None
    <3>1. cifCount' - 1 = cifCount
      BY <1>1, <2>1
    <3> QED
      BY <1>1, <3>1 DEF IInv, Gots
  <2> QED
    BY <1>6, <2>2, <2>3, <2>4, <2>5 DEF IInv
<1>10. CASE Position(blkno) # BlocksPerCIF - 1
  <2>1. UNCHANGED <<locker, iter, limit, cifCount>>
    BY <1>10 DEF Block
  <2>2. TypeOK' /\ cifCount' \in Nat
    BY <1>1, <1>8, <2>1 DEF IInv, TypeOK
  <2>3. Loop' /\ NoUseAfterDelete'
    BY <1>1, <2>1 DEF IInv, Loop, NoUseAfterDelete
  <2>4. Cif'
    <3>1. frame' = frame /\ Position(blkno') - 1 = Position(blkno)
      BY <1>1, <1>2, <1>3, <1>10
    <3> QED
      BY <1>1, <1>4, <2>1, <3>1 DEF Cif, CifOfOneFrame, Position
  <2>5. Gots'
    BY <1>1, <2>1 DEF IInv, Gots, Id
  <2> QED
    BY <1>6, <2>2, <2>3, <2>4, <2>5 DEF IInv
<1> QED
  BY <1>9, <1>10

\* A block that is passed over leaves the CIF as it is.
LEMMA PassBlockInv ==
  ASSUME IInv, PassBlock
  PROVE  IInv'
<1>1. /\ iter = None /\ passed' = TRUE /\ frame <= MaxFrames
      /\ blkno' = IF blkno = LastBlock THEN 4 ELSE blkno + 1
      /\ frame' = IF blkno = LastBlock THEN frame + 1 ELSE frame
      /\ UNCHANGED <<theBackends, objects, made, locker, cifVector, iter, limit, torn, race,
                     used, cifCount, got, given, scanMode>>
  BY DEF PassBlock, NextBlock, guiVars
<1>2. blkno' \in 4 .. LastBlock /\ frame' \in 1 .. MaxFrames + 1
  BY <1>1, Sizes DEF IInv, TypeOK
<1>3. TypeOK' /\ cifCount' \in Nat
  BY <1>1, <1>2 DEF IInv, TypeOK
<1>4. Loop' /\ Vector' /\ Gots' /\ NoUseAfterDelete'
  BY <1>1 DEF IInv, Loop, Vector, Gots, NoUseAfterDelete, Id
<1>5. Cif'
  BY <1>1 DEF Cif, CifOfOneFrame
<1> QED
  BY <1>3, <1>4, <1>5 DEF IInv

\* What is left in the CIF of a frame that was given up is written over.
LEMMA LoseFrameInv ==
  ASSUME IInv, LoseFrame
  PROVE  IInv'
<1>1. /\ iter = None /\ blkno' = 4 /\ frame' = frame + 1 /\ frame <= MaxFrames
      /\ UNCHANGED <<theBackends, objects, made, locker, cifVector, iter, limit, torn, race,
                     used, cifCount, got, given, scanMode, passed>>
  BY DEF LoseFrame, guiVars
<1>2. TypeOK' /\ cifCount' \in Nat
  BY <1>1, Sizes DEF IInv, TypeOK
<1>3. Loop' /\ Vector' /\ Gots' /\ NoUseAfterDelete'
  BY <1>1 DEF IInv, Loop, Vector, Gots, NoUseAfterDelete, Id
<1>4. Cif'
  <2>1. Position(blkno') = 0
    BY <1>1, PositionEnds
  <2> QED
    BY <1>1, <2>1 DEF Cif, CifOfOneFrame, Position
<1> QED
  BY <1>2, <1>3, <1>4 DEF IInv

\* Unless the vector has moved, the backend that gets the CIF is the next one.
LEMMA DeliverInv ==
  ASSUME IInv, Deliver
  PROVE  IInv'
<1>1. /\ iter # None /\ iter <= limit /\ limit <= Len(theBackends) /\ iter' = iter + 1
      /\ UNCHANGED <<theBackends, objects, made, locker, limit, torn, race, blkno, frame,
                     cifVector, cifCount, scanMode, passed>>
      /\ iter \in Nat /\ limit \in Nat /\ limit <= MaxBackends /\ Len(theBackends) \in Nat
  BY Sizes, LenProperties DEF Deliver, guiVars, IInv, TypeOK, Loop
<1>2. iter \in 1 .. Len(theBackends)
  BY <1>1 DEF None
<1>3. PICK id \in IF torn THEN Ids
                  ELSE {theBackends[i].id : i \in {iter} \cap DOMAIN theBackends} :
             /\ used' = id /\ got' = [got EXCEPT ![id] = cifCount]
             /\ given' = [given EXCEPT ![id] = @ + 1]
  BY DEF Deliver
<1>4. id \in Ids /\ (~torn => id = Id(iter))
  BY <1>2, <1>3, IdsInRange DEF Id
<1>5. TypeOK' /\ cifCount' \in Nat
  <2>1. iter' \in 0 .. MaxBackends + 1
    BY <1>1, Sizes
  <2>2. got' \in [Ids -> Nat] /\ used' \in Ids
    BY <1>3, <1>4 DEF IInv, TypeOK
  <2>3. given' \in [Ids -> Nat]
    <3>1. given \in [Ids -> Nat] /\ given[id] + 1 \in Nat
      BY <1>4 DEF IInv, TypeOK
    <3> QED
      BY <1>3, <3>1
  <2> QED
    BY <1>1, <2>1, <2>2, <2>3 DEF IInv, TypeOK
<1>6. Loop' /\ Vector' /\ Cif'
  BY <1>1 DEF IInv, Loop, Vector, Cif, CifOfOneFrame, Id, None
<1>7. NoUseAfterDelete'
  <2> SUFFICES ASSUME ~race
               PROVE  id \in objects
    BY <1>1, <1>3 DEF NoUseAfterDelete
  <2>1. id = Id(iter)
    BY <1>4 DEF IInv, Loop
  <2> QED
    BY <1>2, <2>1 DEF IInv, Vector
<1>8. Gots'
  <2> SUFFICES ASSUME ~race
               PROVE  /\ \A b \in Ids : b > made => got'[b] = 0
                      /\ \A i \in 1 .. Len(theBackends) :
                           /\ i < iter + 1 => got'[Id(i)] = cifCount
                           /\ iter + 1 <= i /\ i <= limit => got'[Id(i)] \in {0, cifCount - 1}
                           /\ limit < i => got'[Id(i)] = 0
    BY <1>1 DEF Gots, Id, None
  <2>1. id = Id(iter) /\ id \in 1 .. made /\ made \in Nat
    BY <1>2, <1>4, IdsInRange, Sizes DEF IInv, Loop, TypeOK
  <2>2. \A b \in Ids : got'[b] = IF b = id THEN cifCount ELSE got[b]
    BY <1>3, <1>4 DEF IInv, TypeOK
  <2>3. \A b \in Ids : b > made => got'[b] = 0
    <3>1. \A b \in Ids : b > made => b # id
      BY <2>1 DEF Ids
    <3> QED
      BY <2>2, <3>1 DEF IInv, Gots
  <2>4. ASSUME NEW i \in 1 .. Len(theBackends)
        PROVE  /\ i < iter + 1 => got'[Id(i)] = cifCount
               /\ iter + 1 <= i /\ i <= limit => got'[Id(i)] \in {0, cifCount - 1}
               /\ limit < i => got'[Id(i)] = 0
    <3>1. Id(i) \in Ids
      BY IdsInRange
    <3>2. CASE i = iter
      BY <1>1, <2>1, <2>2, <3>1, <3>2
    <3>3. CASE i # iter
      <4>1. Id(i) # id
        BY <1>2, <2>1, <3>3 DEF IInv, Vector
      <4>2. got'[Id(i)] = got[Id(i)]
        BY <2>2, <3>1, <4>1
      <4>3. /\ i < iter => got[Id(i)] = cifCount
            /\ iter <= i /\ i <= limit => got[Id(i)] \in {0, cifCount - 1}
            /\ limit < i => got[Id(i)] = 0
        BY <1>1 DEF IInv, Gots
      <4> QED
        BY <1>1, <3>3, <4>2, <4>3
    <3> QED
      BY <3>2, <3>3
  <2> QED
    BY <2>3, <2>4
<1> QED
  BY <1>5, <1>6, <1>7, <1>8 DEF IInv

\* After the loop those it ran over have the CIF and the new ones have none.
LEMMA EndLoopInv ==
  ASSUME IInv, EndLoop
  PROVE  IInv'
<1>1. /\ iter # None /\ iter > limit /\ iter' = None /\ ~torn' /\ used' = None
      /\ locker' = "free"
      /\ UNCHANGED <<theBackends, objects, made, limit, race, blkno, frame, cifVector,
                     cifCount, got, given, scanMode, passed>>
      /\ iter \in Nat /\ limit \in Nat
  BY Sizes DEF EndLoop, guiVars, IInv, TypeOK
<1>2. TypeOK' /\ cifCount' \in Nat
  <2>1. iter' \in 0 .. MaxBackends + 1 /\ used' \in Ids \cup {None} /\ torn' \in BOOLEAN
    <3>1. torn' \in BOOLEAN /\ used' \in Ids \cup {None}
      BY DEF EndLoop
    <3>2. iter' \in 0 .. MaxBackends + 1
      BY <1>1, Sizes DEF None
    <3> QED
      BY <3>1, <3>2
  <2> QED
    BY <1>1, <2>1 DEF IInv, TypeOK
<1>3. Loop' /\ Vector' /\ NoUseAfterDelete'
  BY <1>1 DEF IInv, Loop, Vector, NoUseAfterDelete, Id
<1>4. Cif'
  <2>1. Position(blkno) = 0
    BY <1>1 DEF IInv, Cif
  <2> QED
    BY <1>1, <2>1 DEF Cif, CifOfOneFrame, Position
<1>5. Gots'
  <2> SUFFICES ASSUME ~race
               PROVE  /\ \A b \in Ids : b > made => got[b] = 0
                      /\ \A i \in 1 .. Len(theBackends) : got[Id(i)] \in {0, cifCount}
    BY <1>1 DEF Gots, Id
  <2>1. \A i \in 1 .. Len(theBackends) : i < iter \/ limit < i
    BY <1>1
  <2> QED
    BY <1>1, <2>1 DEF IInv, Gots
<1> QED
  BY <1>2, <1>3, <1>4, <1>5 DEF IInv

\* A step that changes nothing keeps the invariant.
LEMMA StutterInv ==
  ASSUME IInv, UNCHANGED vars
  PROVE  IInv'
  BY DEF vars, IInv, TypeOK, Loop, Vector, Cif, CifOfOneFrame, Gots, NoUseAfterDelete, Id,
         Position

\* Every step of the two threads keeps the invariant.
LEMMA NextInv == IInv /\ [Next]_vars => IInv'
  BY set_ChannelInv, stop_serviceInv, reset_ChannelInv, set_scanModeInv, BlockInv, PassBlockInv,
     LoseFrameInv, DeliverInv, EndLoopInv, StutterInv DEF Next, Ofdm, Gui

\* Each call of process () on a backend that has had a CIF gives it the next
\* one; the step that calls is the one of the loop.
LEMMA OrderStep ==
  IInv /\ [Next]_vars =>
    (~race' => \A b \in Ids : given'[b] # given[b] => got[b] = 0 \/ got'[b] = got[b] + 1)
<1> SUFFICES ASSUME IInv, [Next]_vars, ~race', NEW b \in Ids, given'[b] # given[b]
             PROVE  got[b] = 0 \/ got'[b] = got[b] + 1
  OBVIOUS
<1>1. Deliver
  BY DEF Next, Ofdm, Gui, Block, PassBlock, LoseFrame, EndLoop, set_Channel, stop_service,
         reset_Channel, set_scanMode, ofdmVars, vars
<1>2. /\ iter # None /\ iter <= limit /\ limit <= Len(theBackends) /\ race' = race /\ ~torn
      /\ iter \in Nat /\ limit \in Nat /\ Len(theBackends) \in Nat
  BY <1>1, Sizes, LenProperties DEF Deliver, IInv, TypeOK, Loop
<1>3. iter \in 1 .. Len(theBackends)
  BY <1>2 DEF None
<1>4. PICK id \in {theBackends[i].id : i \in {iter} \cap DOMAIN theBackends} :
             /\ got' = [got EXCEPT ![id] = cifCount]
             /\ given' = [given EXCEPT ![id] = @ + 1]
  BY <1>1, <1>2 DEF Deliver
<1>5. id = Id(iter)
  BY <1>4 DEF Id
<1>6. b = id /\ got'[b] = cifCount
  BY <1>4 DEF IInv, TypeOK
<1>7. got[Id(iter)] \in {0, cifCount - 1} /\ cifCount \in Nat
  BY <1>2, <1>3 DEF IInv, Gots
<1> QED
  BY <1>5, <1>6, <1>7

-----------------------------------------------------------------------------
(* Theorems.                                                               *)

\* IInv holds in every state of every run.
THEOREM Invariance == Spec => []IInv
  BY InitInv, NextInv, PTL DEF Spec

\* The variables keep their types; the loop stays within the backends made.
THEOREM TypeCorrect == Spec => []TypeOK
  BY Invariance, PTL DEF IInv

\* process_mscBlock calls no backend that stop_service or reset_Channel deleted,
\* as long as no push_back has moved the vector under its loop.
THEOREM NeverUsedAfterDelete == Spec => []NoUseAfterDelete
  BY Invariance, PTL DEF IInv

\* theBackends holds the objects that exist and only these, each once, though
\* stop_service leaves out an element after each that it erases.
THEOREM VectorHoldsObjects == Spec => []VectorIsObjects
<1>1. IInv => VectorIsObjects
  BY VectorCount DEF IInv
<1> QED
  BY <1>1, Invariance, PTL

\* A CIF that is handed out has all its blocks from one frame, also after a
\* frame that was given up; only the CIF in which the scan mode was cleared is
\* excepted.
THEOREM CifsAreWhole == Spec => []CifOfOneFrame
  BY Invariance, PTL DEF IInv, Cif

\* As long as the vector has not moved under the loop, each call of process ()
\* gives a backend that has had a CIF the next one: none is left out, none is
\* given again.
THEOREM CifsComeInOrder == Spec => CifsInOrder
<1>1. IInv /\ [Next]_vars =>
        [~race' => \A b \in Ids : given'[b] # given[b] => got[b] = 0 \/ got'[b] = got[b] + 1]_vars
  BY OrderStep
<1> QED
  BY <1>1, Invariance, PTL DEF Spec, CifsInOrder
=============================================================================
