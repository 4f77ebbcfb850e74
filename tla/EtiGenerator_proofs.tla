------------------------- MODULE EtiGenerator_proofs -------------------------
(***************************************************************************)
(* Proofs about EtiGenerator, for every depth of the interleaver, every    *)
(* map of its classes and every frame format: what is written is in step,  *)
(* whatever the GUI orders and however often the synchronisation is lost.  *)
(***************************************************************************)
EXTENDS EtiGenerator, TLAPS

Cif == [age : Int, whole : BOOLEAN]

Types ==
  /\ etiFile \in {"open", "none"} /\ running \in BOOLEAN
  /\ index_Out \in Slots /\ amount \in Nat /\ Minor \in Nat
  /\ CIFCount \in Int /\ cif_In \in Nat
  /\ cifVector \in [Slots -> Cif]
  /\ fibVector \in [Slots -> Int]
  /\ pc \in {"idle", "init_eti", "etiFile", "fwrite"}
  /\ frame \in [classes : [DOMAIN Map -> Cif], fib : Int, count : Int]
  /\ blkno \in 1..LastBlock /\ inRow \in 0..(Depth + 1)
  /\ fig00 \in {"own", "older", "negative"}

\* The FIB decoder has a count, of this frame or an earlier one.
Known == fig00 # "negative"

\* What is in the matrix counts: no reset has come since it was put there.
Live == running \/ (pc # "idle" /\ inRow > 0)

\* The CIFs of the present row follow each other in the matrix.  Between the
\* de-interleaver and the end of processBlock the last one is at index_Out.
Age0 == IF pc = "idle" THEN 1 ELSE 0
InMatrix ==
  Live => \A j \in Age0 .. Lower(inRow, Depth) - 1 + Age0 :
            cifVector[Mod(index_Out - j)] = [age |-> j, whole |-> TRUE]

\* A frame is received from its start: CIFCount is the number of its CIFs that
\* are over, FIBs are there for the others, unless the slot in turn stays the
\* same for want of a count, and the CIF in hand is not torn.
FrameBegun == Live /\ blkno > 4
InFrame ==
  FrameBegun =>
    /\ CIFCount \in 0..(CifsPerFrame - 1)
    /\ blkno - 4 = BlocksPerCIF * CIFCount + CifIndex
    /\ Known => \A k \in 0..(CifsPerFrame - 1 - CIFCount) : fibVector[Mod(index_Out + k)] = -k
    /\ pc = "idle" /\ CifIndex > 0 => cif_In = CifIndex

\* The row began with a frame, so that it reaches the depth with one; and it
\* is not longer than the matrix is filled.  For want of a count it is empty.
Row ==
  /\ amount < FillTo => inRow <= amount
  /\ ~running /\ etiFile = "open" => inRow = 0
  /\ Live /\ pc = "idle" /\ inRow <= Depth =>
       \/ inRow % CifsPerFrame = IF blkno > 4 THEN CIFCount ELSE 0
       \/ ~Known /\ inRow = 0 /\ amount >= FillTo

\* From then on Minor counts the CIFs of the frame.
Counted ==
  /\ FrameBegun /\ pc = "idle" /\ inRow >= Depth => Minor = CIFCount
  /\ pc # "idle" /\ inRow > Depth => Minor = CIFCount

\* The frame under construction.
Served ==
  /\ pc # "idle" => blkno > 4 /\ EndsCIF
  /\ pc # "idle" /\ running => inRow > 0 /\ amount >= FillTo
  /\ pc # "idle" /\ Known /\ inRow = Depth => blkno = LastBlock
  /\ pc # "idle" /\ Known /\ inRow \in 1 .. Depth =>
       inRow % CifsPerFrame = IF blkno = LastBlock THEN 0 ELSE CIFCount + 1
  /\ pc # "idle" /\ inRow > Depth => frame.classes = InStepFrame.classes
  /\ pc \in {"etiFile", "fwrite"} => Known
  /\ pc \in {"etiFile", "fwrite"} /\ inRow > Depth =>
       frame.fib = 0 /\ (fig00 = "own" => frame.count = 0)

IInv == Types /\ InMatrix /\ InFrame /\ Row /\ Counted /\ Served

-----------------------------------------------------------------------------
(* Numbers.                                                                *)

\* The sizes are numbers.
LEMMA Sizes ==
  /\ Depth \in Nat /\ Depth > 0
  /\ CifsPerFrame \in Nat /\ CifsPerFrame > 0 /\ CifsPerFrame <= Depth
  /\ BlocksPerCIF \in Nat /\ BlocksPerCIF > 1
  BY SizesAssumption

\* A remainder is the one number that can be it.
LEMMA ModUnique ==
  ASSUME NEW n \in Nat, n > 0, NEW q \in Int, NEW r \in 0..(n - 1)
  PROVE  (n * q + r) % n = r
  OBVIOUS

\* The slots around the ring, at most once in either direction.
LEMMA ModNear ==
  ASSUME NEW i \in (-Depth)..(2 * Depth - 1)
  PROVE  /\ Mod(i) = IF i < 0 THEN i + Depth ELSE IF i >= Depth THEN i - Depth ELSE i
         /\ Mod(i) \in Slots
<1>1. i \in Int /\ Depth \in Nat /\ Depth > 0
  BY Sizes
<1>2. CASE i < 0
  <2>1. i + Depth \in 0..(Depth - 1) /\ i = Depth * (-1) + (i + Depth)
    BY <1>1, <1>2
  <2>2. (Depth * (-1) + (i + Depth)) % Depth = i + Depth
    BY <1>1, <2>1, ModUnique
  <2> QED
    BY <1>1, <1>2, <2>1, <2>2 DEF Mod, Slots
<1>3. CASE i >= 0 /\ i < Depth
  <2>1. i \in 0..(Depth - 1) /\ i = Depth * 0 + i
    BY <1>1, <1>3
  <2>2. (Depth * 0 + i) % Depth = i
    BY <1>1, <2>1, ModUnique
  <2> QED
    BY <1>1, <1>3, <2>1, <2>2 DEF Mod, Slots
<1>4. CASE i >= Depth
  <2>1. i - Depth \in 0..(Depth - 1) /\ i = Depth * 1 + (i - Depth)
    BY <1>1, <1>4
  <2>2. (Depth * 1 + (i - Depth)) % Depth = i - Depth
    BY <1>1, <2>1, ModUnique
  <2> QED
    BY <1>1, <1>4, <2>1, <2>2 DEF Mod, Slots
<1> QED
  BY <1>1, <1>2, <1>3, <1>4

\* The number of a CIF in its row goes round with the frames.
LEMMA FrameMod ==
  ASSUME NEW n \in Nat
  PROVE  /\ n % CifsPerFrame \in 0..(CifsPerFrame - 1)
         /\ (n + 1) % CifsPerFrame = IF n % CifsPerFrame = CifsPerFrame - 1 THEN 0
                                     ELSE (n % CifsPerFrame) + 1
<1> DEFINE q == n \div CifsPerFrame
           r == n % CifsPerFrame
<1>1. CifsPerFrame \in Nat /\ CifsPerFrame > 0 /\ q \in Int /\ r \in 0..(CifsPerFrame - 1)
  BY Sizes
<1>2. r = n - CifsPerFrame * q
  BY Sizes, Z3
<1> HIDE DEF q, r
<1>3. n = CifsPerFrame * q + r
  BY <1>1, <1>2
<1>4. CASE r = CifsPerFrame - 1
  <2>1. n + 1 = CifsPerFrame * (q + 1) + 0
    BY <1>1, <1>3, <1>4
  <2>2. (CifsPerFrame * (q + 1) + 0) % CifsPerFrame = 0
    BY <1>1, ModUnique
  <2> QED
    BY <1>1, <1>4, <2>1, <2>2 DEF r
<1>5. CASE r # CifsPerFrame - 1
  <2>1. n + 1 = CifsPerFrame * q + (r + 1) /\ r + 1 \in 0..(CifsPerFrame - 1)
    BY <1>1, <1>3, <1>5
  <2>2. (CifsPerFrame * q + (r + 1)) % CifsPerFrame = r + 1
    BY <1>1, <2>1, ModUnique
  <2> QED
    BY <1>1, <1>5, <2>1, <2>2 DEF r
<1> QED
  BY <1>4, <1>5

\* The depth is a whole number of frames.
LEMMA DepthMod ==
  /\ Depth % CifsPerFrame = 0
  /\ 0 % CifsPerFrame = 0
  /\ (Depth - 1) % CifsPerFrame = CifsPerFrame - 1
<1>1. Depth % CifsPerFrame = 0
  BY SizesAssumption
<1>2. 0 % CifsPerFrame = 0
  <2>1. (CifsPerFrame * 0 + 0) % CifsPerFrame = 0
    BY Sizes, ModUnique
  <2>2. CifsPerFrame * 0 + 0 = 0
    BY Sizes
  <2> QED
    BY <2>1, <2>2
<1>3. (Depth - 1) % CifsPerFrame = CifsPerFrame - 1
  <2>1. Depth - 1 \in Nat /\ (Depth - 1) + 1 = Depth
    BY Sizes
  <2>2. (Depth - 1) % CifsPerFrame \in 0..(CifsPerFrame - 1)
    BY <2>1, FrameMod
  <2>3. Depth % CifsPerFrame = IF (Depth - 1) % CifsPerFrame = CifsPerFrame - 1 THEN 0
                               ELSE ((Depth - 1) % CifsPerFrame) + 1
    BY <2>1, FrameMod
  <2> QED
    BY <1>1, <2>2, <2>3
<1> QED
  BY <1>1, <1>2, <1>3

-----------------------------------------------------------------------------
(* The blocks of a frame.                                                  *)

Index(b) == (b - 4) % BlocksPerCIF

\* Block b is block r of CIF m of its frame.
InCif(b, m, r) == b - 4 = BlocksPerCIF * m + r

\* A block of a CIF has the place in it that its number leaves over.
LEMMA IndexOf ==
  ASSUME NEW b \in Int, NEW m \in Int, NEW r \in 0..(BlocksPerCIF - 1), InCif(b, m, r)
  PROVE  Index(b) = r
  BY Sizes, ModUnique DEF InCif, Index

\* The next block of a CIF.
LEMMA WithinCif ==
  ASSUME NEW b \in 4..LastBlock, NEW m \in 0..(CifsPerFrame - 1),
         InCif(b, m, Index(b)), Index(b) \in 0..(BlocksPerCIF - 1), Index(b) # BlocksPerCIF - 1
  PROVE  /\ b # LastBlock
         /\ Index(b + 1) = Index(b) + 1
         /\ InCif(b + 1, m, Index(b + 1))
<1> DEFINE r == Index(b)
<1>1. r + 1 \in 0..(BlocksPerCIF - 1) /\ b \in Int /\ m \in Int
  BY Sizes DEF LastBlock
<1>2. InCif(b + 1, m, r + 1)
  BY <1>1, Sizes DEF InCif
<1>3. Index(b + 1) = r + 1
  BY <1>1, <1>2, IndexOf
<1>4. b # LastBlock
  <2> SUFFICES ASSUME b = LastBlock
               PROVE  FALSE
    OBVIOUS
  <2>1. InCif(LastBlock, CifsPerFrame - 1, BlocksPerCIF - 1)
    BY Sizes DEF InCif, LastBlock
  <2>2. Index(LastBlock) = BlocksPerCIF - 1
    BY <2>1, Sizes, IndexOf DEF LastBlock
  <2> QED
    BY <2>2
<1> QED
  BY <1>2, <1>3, <1>4

\* The block after a CIF: that of the next CIF, or the first of a frame.
LEMMA AfterCif ==
  ASSUME NEW b \in 4..LastBlock, NEW m \in 0..(CifsPerFrame - 1),
         InCif(b, m, BlocksPerCIF - 1)
  PROVE  /\ b = LastBlock <=> m = CifsPerFrame - 1
         /\ b # LastBlock => /\ m + 1 \in 0..(CifsPerFrame - 1)
                             /\ InCif(b + 1, m + 1, 0) /\ Index(b + 1) = 0
<1>1. b \in Int /\ m \in Int
  BY Sizes DEF LastBlock
<1>2. InCif(b + 1, m + 1, 0)
  BY <1>1, Sizes DEF InCif
<1>3. Index(b + 1) = 0
  BY <1>1, <1>2, Sizes, IndexOf
<1>4. b = 3 + BlocksPerCIF * (m + 1)
  BY <1>1, Sizes DEF InCif
<1>5. b = LastBlock <=> m = CifsPerFrame - 1
  <2>1. m = CifsPerFrame - 1 => b = LastBlock
    BY <1>4, Sizes DEF LastBlock
  <2>2. m + 1 < CifsPerFrame => BlocksPerCIF * (m + 1) # BlocksPerCIF * CifsPerFrame
    BY <1>1, Sizes
  <2> QED
    BY <1>1, <1>4, <2>1, <2>2, Sizes DEF LastBlock
<1> QED
  BY <1>1, <1>2, <1>3, <1>5, Sizes

-----------------------------------------------------------------------------
(* The matrix and the FIBs.                                                *)

Whole(j) == [age |-> j, whole |-> TRUE]

\* CIFs lo to hi back from slot i are there.
Kept(cv, i, lo, hi) == \A j \in lo..hi : cv[Mod(i - j)] = Whole(j)

\* A CIF is stored in slot i: the row has one more.
LEMMA StoreCif ==
  ASSUME NEW cv \in [Slots -> Cif], NEW i \in Slots, NEW n \in 0..(Depth + 1),
         Kept(cv, i, 1, Lower(n, Depth))
  PROVE  Kept([cv EXCEPT ![i] = Whole(0)], i, 0, Lower(Lower(n + 1, Depth + 1), Depth) - 1)
<1> DEFINE w == [cv EXCEPT ![i] = Whole(0)]
<1>1. i \in 0..(Depth - 1) /\ Depth \in Nat /\ Depth > 0
  BY Sizes DEF Slots
<1>2. w[i] = Whole(0) /\ \A x \in Slots : x # i => w[x] = cv[x]
  OBVIOUS
<1> HIDE DEF w
<1>3. ASSUME NEW j \in 0..(Lower(Lower(n + 1, Depth + 1), Depth) - 1)
      PROVE  w[Mod(i - j)] = Whole(j)
  <2>1. j \in 0..(Depth - 1) /\ (j > 0 => j \in 1..Lower(n, Depth))
    BY <1>1 DEF Lower
  <2>2. i - j \in (-Depth)..(2 * Depth - 1)
    BY <1>1, <2>1
  <2>3. /\ Mod(i - j) = IF i - j < 0 THEN (i - j) + Depth
                        ELSE IF i - j >= Depth THEN (i - j) - Depth ELSE i - j
        /\ Mod(i - j) \in Slots
    BY <2>2, ModNear
  <2>4. CASE j = 0
    BY <1>1, <1>2, <2>3, <2>4
  <2>5. CASE j # 0
    <3>1. Mod(i - j) # i
      BY <1>1, <2>1, <2>3, <2>5
    <3>2. cv[Mod(i - j)] = Whole(j)
      BY <2>1, <2>5 DEF Kept
    <3> QED
      BY <1>2, <2>3, <3>1, <3>2
  <2> QED
    BY <2>4, <2>5
<1> QED
  BY <1>3 DEF Kept, w

\* What becomes of a CIF that is whole.
LEMMA PassedAt ==
  ASSUME NEW cv \in [Slots -> Cif], NEW n \in Int, NEW x \in Slots, NEW j, cv[x] = Whole(j)
  PROVE  Passed(cv, n)[x] = Whole(Aged(j, n))
<1> DEFINE Older(r) == [r EXCEPT !.age = Aged(@, n)]
<1>1. Passed(cv, n) = [i \in Slots |-> Older(cv[i])]
  BY DEF Passed
<1>2. ASSUME NEW r \in Cif, r = Whole(j)
      PROVE  Older(r) = Whole(Aged(j, n))
  <2>1. r.age = j /\ r.whole = TRUE
    BY <1>2 DEF Whole
  <2>2. \A a : [r EXCEPT !.age = a] = [age |-> a, whole |-> r.whole]
    BY DEF Cif
  <2> QED
    BY <2>1, <2>2 DEF Whole
<1> HIDE DEF Older
<1>3. Passed(cv, n)[x] = Older(cv[x])
  BY <1>1
<1> QED
  BY <1>2, <1>3

\* One more CIF has passed, and the next slot is the one in turn.
LEMMA PassCif ==
  ASSUME NEW cv \in [Slots -> Cif], NEW i \in Slots, NEW n \in 0..Depth,
         Kept(cv, i, 0, n - 1)
  PROVE  Kept(Passed(cv, 1), Mod(i + 1), 1, n)
<1>1. i \in 0..(Depth - 1) /\ Depth \in Nat /\ Depth > 0
  BY Sizes DEF Slots
<1>2. ASSUME NEW j \in 1..n
      PROVE  Passed(cv, 1)[Mod(Mod(i + 1) - j)] = Whole(j)
  <2>1. Mod(i + 1) = (IF i + 1 >= Depth THEN i + 1 - Depth ELSE i + 1) /\ Mod(i + 1) \in Slots
    BY <1>1, ModNear
  <2>2. Mod(i - (j - 1)) = (IF i - (j - 1) < 0 THEN i - (j - 1) + Depth ELSE i - (j - 1))
        /\ Mod(i - (j - 1)) \in Slots
    BY <1>1, ModNear
  <2>3. Mod(i + 1) - j \in (-Depth)..(2 * Depth - 1)
    BY <1>1, <2>1
  <2>4. Mod(Mod(i + 1) - j) = IF Mod(i + 1) - j < 0 THEN Mod(i + 1) - j + Depth
                              ELSE IF Mod(i + 1) - j >= Depth THEN Mod(i + 1) - j - Depth
                              ELSE Mod(i + 1) - j
    BY <2>3, ModNear
  <2>5. Mod(Mod(i + 1) - j) = Mod(i - (j - 1))
    BY <1>1, <2>1, <2>2, <2>4
  <2>6. j - 1 \in 0..(n - 1)
    BY <1>1
  <2>7. cv[Mod(i - (j - 1))] = Whole(j - 1)
    BY <2>6 DEF Kept
  <2>8. Aged(j - 1, 1) = j
    BY <1>1 DEF Aged, Lower, Stale
  <2>9. Passed(cv, 1)[Mod(i - (j - 1))] = Whole(j)
    BY <2>2, <2>7, <2>8, PassedAt
  <2> QED
    BY <2>5, <2>9
<1> QED
  BY <1>2 DEF Kept

\* Nothing has passed.
LEMMA PassNone ==
  ASSUME NEW cv \in [Slots -> Cif], NEW i \in Slots, NEW n \in 0..Depth, Kept(cv, i, 1, n)
  PROVE  Kept(Passed(cv, 0), i, 1, n)
<1> SUFFICES ASSUME NEW j \in 1..n
             PROVE  Passed(cv, 0)[Mod(i - j)] = Whole(j)
  BY DEF Kept
<1>1. Mod(i - j) \in Slots
  BY Sizes, ModNear DEF Slots
<1>2. Aged(j, 0) = j
  BY Sizes DEF Aged, Lower, Stale
<1> QED
  BY <1>1, <1>2, PassedAt DEF Kept

\* The matrix keeps its type.
LEMMA PassedType ==
  ASSUME NEW cv \in [Slots -> Cif], NEW n \in Int
  PROVE  Passed(cv, n) \in [Slots -> Cif]
<1>1. ASSUME NEW r \in Cif
      PROVE  [r EXCEPT !.age = Aged(@, n)] \in Cif
  <2>1. r.age \in Int
    BY DEF Cif
  <2>2. Aged(r.age, n) \in Int
    BY <2>1, Sizes DEF Aged, Lower, Stale
  <2> QED
    BY <2>2 DEF Cif
<1>2. \A i \in Slots : cv[i] \in Cif
  OBVIOUS
<1> QED
  BY <1>1, <1>2 DEF Passed

\* What broken-off frames leave of the FIBs and counts has the type of both.
LEMMA PassedFibType ==
  ASSUME fibVector \in [Slots -> Int], CIFCount \in Int, NEW n \in Int
  PROVE  PassedFib(n) \in [Slots -> Int] /\ PassedCount(n) \in Int
  BY Sizes DEF PassedFib, PassedCount, None, Aged, Lower, Stale

\* FIBs for m and more CIFs of the frame are in turn from slot i on.
Fibs(fv, i, m) == \A k \in 0..(CifsPerFrame - 1 - m) : fv[Mod(i + k)] = -k

\* They age with the CIFs.
LEMMA PassFibs ==
  ASSUME fibVector \in [Slots -> Int], NEW i \in Slots, NEW m \in 0..(CifsPerFrame - 1),
         Fibs(fibVector, i, m)
  PROVE  Fibs(PassedFib(1), Mod(i + 1), m + 1)
<1>1. i \in 0..(Depth - 1)
  BY DEF Slots
<1>2. ASSUME NEW k \in 0..(CifsPerFrame - 1 - (m + 1))
      PROVE  PassedFib(1)[Mod(Mod(i + 1) + k)] = -k
  <2>1. Mod(i + 1) = (IF i + 1 >= Depth THEN i + 1 - Depth ELSE i + 1) /\ Mod(i + 1) \in Slots
    BY <1>1, Sizes, ModNear
  <2>2. k + 1 \in 0..(CifsPerFrame - 1 - m) /\ k + 1 <= Depth - 1
    BY Sizes
  <2>3. i + (k + 1) \in (-Depth)..(2 * Depth - 1)
    BY <1>1, <2>2, Sizes
  <2>4. /\ Mod(i + (k + 1)) = IF i + (k + 1) >= Depth THEN i + (k + 1) - Depth ELSE i + (k + 1)
        /\ Mod(i + (k + 1)) \in Slots
    BY <1>1, <2>2, <2>3, Sizes, ModNear
  <2> DEFINE x == Mod(i + 1) + k
  <2>5. x \in (-Depth)..(2 * Depth - 1)
    BY <1>1, <2>1, <2>2, Sizes
  <2>6. Mod(x) = Mod(i + (k + 1))
    <3>1. x = Mod(i + 1) + k
      OBVIOUS
    <3> HIDE DEF x
    <3>2. Mod(x) = IF x < 0 THEN x + Depth ELSE IF x >= Depth THEN x - Depth ELSE x
      BY <2>5, ModNear
    <3> QED
      BY <1>1, <2>1, <2>2, <2>4, <3>1, <3>2, Sizes
  <2>8. fibVector[Mod(i + (k + 1))] = -(k + 1)
    BY <2>2 DEF Fibs
  <2>9. Aged(-(k + 1), 1) = -k
    BY Sizes DEF Aged, Lower, Stale
  <2> QED
    BY <2>4, <2>6, <2>8, <2>9 DEF PassedFib
<1> QED
  BY <1>2 DEF Fibs

\* With block 4 they come.
LEMMA ImportedFibs ==
  ASSUME NEW i \in Slots,
         NEW fv, fv = [x \in Slots |-> IF Mod(x - i) < CifsPerFrame THEN - Mod(x - i)
                                       ELSE fibVector[x]]
  PROVE  Fibs(fv, i, 0)
<1>1. i \in 0..(Depth - 1)
  BY DEF Slots
<1>2. ASSUME NEW k \in 0..(CifsPerFrame - 1 - 0)
      PROVE  fv[Mod(i + k)] = -k
  <2>1. k \in 0..(Depth - 1) /\ k < CifsPerFrame
    BY Sizes
  <2>2. /\ Mod(i + k) = IF i + k >= Depth THEN i + k - Depth ELSE i + k
        /\ Mod(i + k) \in Slots
    BY <1>1, <2>1, Sizes, ModNear
  <2>3. Mod(i + k) - i \in (-Depth)..(2 * Depth - 1)
    BY <1>1, <2>1, <2>2, Sizes
  <2>4. Mod(Mod(i + k) - i) = IF Mod(i + k) - i < 0 THEN Mod(i + k) - i + Depth
                              ELSE IF Mod(i + k) - i >= Depth THEN Mod(i + k) - i - Depth
                              ELSE Mod(i + k) - i
    BY <2>3, ModNear
  <2>5. Mod(Mod(i + k) - i) = k
    BY <1>1, <2>1, <2>2, <2>4, Sizes
  <2> QED
    BY <2>1, <2>2, <2>5
<1> QED
  BY <1>2 DEF Fibs

-----------------------------------------------------------------------------
(* Where the thread is in the frame.                                       *)

\* There are blocks after block 4.
LEMMA Blocks == LastBlock \in Nat /\ LastBlock > 4
<1>1. CifsPerFrame * BlocksPerCIF >= 1 * BlocksPerCIF
  BY Sizes
<1> QED
  BY <1>1, Sizes DEF LastBlock

\* Each block has an index in its CIF; that of block 4 is 0.
LEMMA Indices ==
  /\ \A b \in Int : Index(b) \in 0..(BlocksPerCIF - 1)
  /\ InCif(4, 0, 0) /\ Index(4) = 0
<1>1. InCif(4, 0, 0)
  BY Sizes DEF InCif
<1>2. Index(4) = 0
  BY <1>1, Sizes, IndexOf
<1>3. \A b \in Int : Index(b) \in 0..(BlocksPerCIF - 1)
  BY Sizes DEF Index
<1> QED
  BY <1>1, <1>2, <1>3

\* What InFrame says once the frame has begun.
LEMMA Begun ==
  ASSUME IInv, FrameBegun
  PROVE  /\ blkno \in 5..LastBlock
         /\ CIFCount \in 0..(CifsPerFrame - 1)
         /\ InCif(blkno, CIFCount, Index(blkno))
         /\ Known => Fibs(fibVector, index_Out, CIFCount)
         /\ pc = "idle" /\ Index(blkno) > 0 => cif_In = Index(blkno)
  BY Blocks DEF IInv, Types, InFrame, FrameBegun, CifIndex, Index, InCif, Fibs

\* At the last block of a CIF the frame has begun.
LEMMA AtEnd ==
  ASSUME IInv, Live, EndsCIF
  PROVE  /\ FrameBegun
         /\ Index(blkno) = BlocksPerCIF - 1
         /\ InCif(blkno, CIFCount, BlocksPerCIF - 1)
         /\ pc = "idle" => NewCif = Whole(0) /\ Collected = BlocksPerCIF
<1>1. Index(blkno) = BlocksPerCIF - 1 /\ blkno \in 4..LastBlock
  BY DEF EndsCIF, CifIndex, Index, IInv, Types
<1>2. FrameBegun
  BY <1>1, Indices, Sizes, Blocks DEF FrameBegun
<1>3. InCif(blkno, CIFCount, BlocksPerCIF - 1)
  BY <1>1, <1>2, Begun
<1>4. ASSUME pc = "idle"
      PROVE  Collected = BlocksPerCIF
  <2>1. cif_In = BlocksPerCIF - 1
    BY <1>1, <1>2, <1>4, Begun, Sizes
  <2>2. CifIndex = BlocksPerCIF - 1
    BY <1>1 DEF CifIndex, Index
  <2> QED
    BY <2>1, <2>2, Sizes DEF Collected, Lower
<1>5. ASSUME pc = "idle"
      PROVE  NewCif = Whole(0)
  BY <1>4, <1>5 DEF NewCif, Whole
<1> QED
  BY <1>1, <1>2, <1>3, <1>4, <1>5

\* The matrix, in the words of Kept.
LEMMA MatrixKept ==
  InMatrix <=> (Live => Kept(cifVector, index_Out, Age0, Lower(inRow, Depth) - 1 + Age0))
  BY DEF InMatrix, Kept, Whole

\* The types at the end of a block.
LEMMA EndTypes ==
  ASSUME Types, NEW n \in Int, EndOfBlock(n)
  PROVE  /\ blkno' \in 1..LastBlock
         /\ cifVector' \in [Slots -> Cif]
         /\ fibVector' \in [Slots -> Int]
         /\ CIFCount' \in Int
<1>1. blkno' \in 1..LastBlock
  BY Blocks DEF Types, EndOfBlock, NextBlock
<1>2. cifVector' \in [Slots -> Cif]
  BY PassedType DEF Types, EndOfBlock
<1>3. fibVector' \in [Slots -> Int] /\ CIFCount' \in Int
  BY PassedFibType DEF Types, EndOfBlock
<1> QED
  BY <1>1, <1>2, <1>3

\* While nothing in the matrix counts, little has to hold.
LEMMA NotLive ==
  ASSUME Types, ~Live, pc = "idle", Row
  PROVE  IInv
  BY DEF IInv, InMatrix, InFrame, FrameBegun, Counted, Served

-----------------------------------------------------------------------------
(* The steps.                                                              *)

\* At the start of the program.
LEMMA InitInv == Init => IInv
<1> SUFFICES ASSUME Init PROVE IInv
  OBVIOUS
<1>1. Types
  <2>1. NoCif \in Cif /\ Stale \in Int
    BY Sizes DEF NoCif, Cif, Stale
  <2>2. frame \in [classes : [DOMAIN Map -> Cif], fib : Int, count : Int]
    BY <2>1 DEF Init, NoFrame
  <2>3. cifVector \in [Slots -> Cif] /\ fibVector \in [Slots -> Int]
    BY <2>1 DEF Init
  <2>4. index_Out \in Slots /\ CIFCount \in Int /\ blkno \in 1..LastBlock /\ inRow \in 0..(Depth + 1)
    BY Sizes, Blocks DEF Init, Slots, None
  <2> QED
    BY <2>2, <2>3, <2>4 DEF Init, Types
<1>2. ~Live /\ pc = "idle" /\ inRow = 0 /\ amount = 0
  BY DEF Init, Live
<1>3. Row
  BY <1>2 DEF Row
<1> QED
  BY <1>1, <1>2, <1>3 DEF IInv, InMatrix, InFrame, FrameBegun, Counted, Served

\* A block that is ignored: the CIF only gets older.
LEMMA BlockIgnoredInv == IInv /\ BlockIgnored => IInv'
<1> SUFFICES ASSUME IInv, BlockIgnored PROVE IInv'
  OBVIOUS
<1> DEFINE n == IF EndsCIF THEN 1 ELSE 0
<1>0. /\ pc = "idle" /\ pc' = "idle" /\ EndOfBlock(n) /\ n \in Int
      /\ running' = (running \/ Starts) /\ (~running' \/ blkno < 4)
      /\ UNCHANGED <<etiFile, index_Out, amount, Minor, cif_In, frame, inRow>>
      /\ Hear
  BY DEF BlockIgnored
<1>1. Types'
  <2>1. running' \in BOOLEAN
    BY <1>0 DEF Starts, IInv, Types
  <2>3. fig00' \in {"own", "older", "negative"}
    BY <1>0 DEF Hear, IInv, Types
  <2> HIDE DEF n
  <2>2. Types
    BY DEF IInv
  <2> QED
    BY <1>0, <2>1, <2>2, <2>3, EndTypes DEF Types
<1>2. CASE ~running'
  <2>1. ~Live' /\ ~running
    BY <1>0, <1>2 DEF Live
  <2>2. Row'
    BY <1>0, <2>1 DEF Row, IInv
  <2> QED
    BY <1>0, <1>1, <2>1, <2>2 DEF IInv, InMatrix, InFrame, FrameBegun, Counted, Served
<1>3. CASE running'
  <2>1. blkno < 4 /\ ~EndsCIF /\ n = 0 /\ blkno \in 1..LastBlock
    BY <1>0, <1>3 DEF EndsCIF, IInv, Types
  <2>2. blkno' = blkno + 1 /\ cifVector' = Passed(cifVector, 0)
    BY <1>0, <2>1, Blocks DEF EndOfBlock, NextBlock
  <2>3. ~FrameBegun' /\ ~(blkno' > 4) /\ ~(blkno > 4)
    BY <2>1, <2>2 DEF FrameBegun
  <2>4. ~running => inRow = 0
    BY <1>0, <1>3 DEF Starts, IInv, Row
  <2>5. Kept(cifVector, index_Out, 1, Lower(inRow, Depth))
    <3>1. CASE running
      <4>1. Kept(cifVector, index_Out, 1, Lower(inRow, Depth) - 1 + 1)
        BY <1>0, <3>1, MatrixKept DEF IInv, Live, Age0
      <4>2. Lower(inRow, Depth) - 1 + 1 = Lower(inRow, Depth)
        BY Sizes DEF Lower, IInv, Types
      <4> QED
        BY <4>1, <4>2
    <3>2. CASE ~running
      BY <2>4, <3>2, Sizes DEF Kept, Lower
    <3> QED
      BY <3>1, <3>2
  <2>6. Kept(cifVector', index_Out', 1, Lower(inRow', Depth))
    <3>1. Lower(inRow, Depth) \in 0..Depth
      BY Sizes DEF Lower, IInv, Types
    <3> QED
      BY <1>0, <2>2, <2>5, <3>1, PassNone DEF IInv, Types
  <2>7. InMatrix'
    <3>1. Lower(inRow', Depth) - 1 + 1 = Lower(inRow', Depth) /\ Age0' = 1
      BY <1>0, <1>1, Sizes DEF Lower, Types, Age0
    <3> QED
      BY <2>6, <3>1 DEF InMatrix, Kept, Whole
  <2>8. Row'
    <3>1. running => (inRow <= Depth => inRow % CifsPerFrame = 0)
      BY <1>0, <2>3, DepthMod DEF IInv, Row, Live
    <3> QED
      BY <1>0, <1>3, <2>3, <2>4, <3>1, DepthMod DEF IInv, Row, Live
  <2> QED
    BY <1>0, <1>1, <2>3, <2>7, <2>8 DEF IInv, InFrame, Counted, Served
<1> QED
  BY <1>2, <1>3

\* A block of a CIF that goes on.
LEMMA BlockCopiedInv == IInv /\ BlockCopied => IInv'
<1> SUFFICES ASSUME IInv, BlockCopied PROVE IInv'
  OBVIOUS
<1> DEFINE m == IF blkno = 4 THEN 0 ELSE CIFCount
<1>0. /\ pc = "idle" /\ pc' = "idle" /\ running /\ blkno >= 4 /\ ~EndsCIF
      /\ ImportFib /\ Minor' = MinorAtImport /\ cif_In' = Collected /\ NextBlock
      /\ UNCHANGED <<etiFile, running, index_Out, amount, cifVector, frame, fig00, inRow>>
  BY DEF BlockCopied, guiVars
<1>1. Live /\ blkno \in 4..LastBlock /\ Index(blkno) # BlocksPerCIF - 1
  BY <1>0 DEF Live, EndsCIF, CifIndex, Index, IInv, Types
<1>2. blkno # 4 => FrameBegun
  BY <1>1, Blocks DEF FrameBegun
<1>3. Index(blkno) \in 0..(BlocksPerCIF - 1)
  BY <1>1, Indices, Blocks
<1>4. m \in 0..(CifsPerFrame - 1) /\ InCif(blkno, m, Index(blkno))
  <2>1. CASE blkno = 4
    BY <2>1, Indices, Sizes
  <2>2. CASE blkno # 4
    BY <1>2, <2>2, Begun
  <2> QED
    BY <2>1, <2>2
<1>5. blkno # LastBlock /\ Index(blkno + 1) = Index(blkno) + 1 /\ InCif(blkno + 1, m, Index(blkno + 1))
  BY <1>1, <1>3, <1>4, WithinCif
<1>6. blkno' = blkno + 1 /\ blkno' \in 5..LastBlock /\ CIFCount' = m
  BY <1>0, <1>1, <1>5, Blocks DEF NextBlock, ImportFib
<1>7. Known' => Fibs(fibVector', index_Out', CIFCount')
  <2>1. CASE blkno = 4
    BY <1>0, <1>6, <2>1, ImportedFibs DEF ImportFib, IInv, Types
  <2>2. CASE blkno # 4
    BY <1>0, <1>2, <1>6, <2>2, Begun DEF ImportFib, Known
  <2> QED
    BY <2>1, <2>2
<1>8. cif_In' = Index(blkno')
  <2>1. CASE Index(blkno) = 0
    BY <1>0, <1>5, <1>6, <2>1 DEF Collected, CifIndex, Index
  <2>2. CASE Index(blkno) # 0
    <3>1. blkno # 4 /\ Index(blkno) > 0
      BY <1>3, <2>2, Indices, Sizes
    <3>2. cif_In = Index(blkno)
      BY <1>0, <1>2, <3>1, Begun
    <3>3. Collected = Lower(Index(blkno) + 1, BlocksPerCIF)
      BY <2>2, <3>2 DEF Collected, CifIndex, Index
    <3> QED
      BY <1>0, <1>1, <1>3, <1>5, <1>6, <3>3, Sizes DEF Lower
  <2> QED
    BY <2>1, <2>2
<1>9. Types'
  <2>1. fibVector' \in [Slots -> Int]
    <3>1. \A i \in Slots : Mod(i - index_Out) \in Int
      BY Sizes, ModNear DEF Slots, IInv, Types
    <3> QED
      BY <1>0, <3>1 DEF ImportFib, IInv, Types
  <2>2. cif_In' \in Nat
    BY <1>6, <1>8, Indices, Blocks, Sizes
  <2>3. Minor' \in Nat /\ CIFCount' \in Int /\ blkno' \in 1..LastBlock
    BY <1>0, <1>4, <1>6, Blocks, Sizes DEF MinorAtImport, IInv, Types
  <2> QED
    BY <1>0, <2>1, <2>2, <2>3 DEF IInv, Types
<1>10. InMatrix'
  BY <1>0, <1>1 DEF IInv, InMatrix, Live, Age0
<1>11. InFrame'
  <2>1. CIFCount' \in 0..(CifsPerFrame - 1)
    BY <1>4, <1>6
  <2>2. blkno' - 4 = BlocksPerCIF * CIFCount' + CifIndex'
    BY <1>5, <1>6 DEF InCif, CifIndex, Index
  <2>3. Known' => \A k \in 0..(CifsPerFrame - 1 - CIFCount') : fibVector'[Mod(index_Out' + k)] = -k
    BY <1>7 DEF Fibs
  <2>4. cif_In' = CifIndex'
    BY <1>8 DEF CifIndex, Index
  <2> QED
    BY <2>1, <2>2, <2>3, <2>4 DEF InFrame
<1>12. Row'
  <2>1. inRow <= Depth => \/ inRow % CifsPerFrame = m
                          \/ ~Known /\ inRow = 0 /\ amount >= FillTo
    BY <1>0, <1>1 DEF IInv, Row
  <2>2. blkno' > 4 /\ (Known' <=> Known)
    BY <1>0, <1>6, Blocks DEF Known
  <2> QED
    BY <1>0, <1>6, <2>1, <2>2 DEF IInv, Row
<1>13. Counted'
  BY <1>0, <1>1, <1>2, <1>6 DEF IInv, Counted, MinorAtImport
<1> QED
  BY <1>0, <1>9, <1>10, <1>11, <1>12, <1>13 DEF IInv, Served
\* A CIF is over: it is stored in the matrix.
LEMMA Stored ==
  ASSUME IInv, running, pc = "idle", EndsCIF
  PROVE  LET cv == [cifVector EXCEPT ![index_Out] = NewCif]
         IN  /\ cv \in [Slots -> Cif]
             /\ Kept(cv, index_Out, 0, Lower(Lower(inRow + 1, Depth + 1), Depth) - 1)
             /\ Kept(cifVector, index_Out, 1, Lower(inRow, Depth))
<1>1. Live /\ Age0 = 1
  BY DEF Live, Age0
<1>2. NewCif = Whole(0) /\ Whole(0) \in Cif
  BY <1>1, AtEnd DEF Whole, Cif
<1>3. Lower(inRow, Depth) - 1 + 1 = Lower(inRow, Depth)
  BY Sizes DEF Lower, IInv, Types
<1>4. Kept(cifVector, index_Out, 1, Lower(inRow, Depth))
  BY <1>1, <1>3, MatrixKept DEF IInv
<1>5. [cifVector EXCEPT ![index_Out] = NewCif] \in [Slots -> Cif]
  BY <1>2 DEF IInv, Types
<1>6. Kept([cifVector EXCEPT ![index_Out] = NewCif], index_Out, 0,
           Lower(Lower(inRow + 1, Depth + 1), Depth) - 1)
  BY <1>2, <1>4, StoreCif DEF IInv, Types
<1> QED
  BY <1>4, <1>5, <1>6

\* The count of the CIFs that have passed.
LEMMA CountPassed ==
  ASSUME CIFCount \in 0..(CifsPerFrame - 1)
  PROVE  PassedCount(1) = CIFCount + 1
  BY Sizes DEF PassedCount, None, Aged, Lower, Stale

\* The next CIF of the frame.
LEMMA NextCif ==
  ASSUME IInv, Live, EndsCIF, NextBlock
  PROVE  /\ CIFCount \in 0..(CifsPerFrame - 1)
         /\ blkno = LastBlock <=> CIFCount = CifsPerFrame - 1
         /\ blkno = LastBlock => blkno' = 1
         /\ blkno # LastBlock => /\ blkno' = blkno + 1 /\ blkno' \in 5..LastBlock
                                 /\ CIFCount + 1 \in 0..(CifsPerFrame - 1)
                                 /\ InCif(blkno', CIFCount + 1, 0) /\ Index(blkno') = 0
<1>1. FrameBegun /\ InCif(blkno, CIFCount, BlocksPerCIF - 1)
  BY AtEnd
<1>2. blkno \in 5..LastBlock /\ CIFCount \in 0..(CifsPerFrame - 1)
  BY <1>1, Begun
<1>3. /\ blkno = LastBlock <=> CIFCount = CifsPerFrame - 1
      /\ blkno # LastBlock => /\ CIFCount + 1 \in 0..(CifsPerFrame - 1)
                              /\ InCif(blkno + 1, CIFCount + 1, 0) /\ Index(blkno + 1) = 0
  BY <1>1, <1>2, AfterCif, Blocks
<1>4. /\ blkno = LastBlock => blkno' = 1
      /\ blkno # LastBlock => blkno' = blkno + 1 /\ blkno' \in 5..LastBlock
  BY <1>2, Blocks DEF NextBlock
<1> QED
  BY <1>2, <1>3, <1>4

\* The last block of a CIF, while the matrix is being filled.
LEMMA BlockFillsInv == IInv /\ BlockFills => IInv'
<1> SUFFICES ASSUME IInv, BlockFills PROVE IInv'
  OBVIOUS
<1> DEFINE cv == [cifVector EXCEPT ![index_Out] = NewCif]
<1>0. /\ pc = "idle" /\ pc' = "idle" /\ running /\ running' /\ EndsCIF /\ amount < FillTo
      /\ amount' = amount + 1 /\ index_Out' = Mod(index_Out + 1) /\ Minor' = 0
      /\ cif_In' = Collected /\ inRow' = Lower(inRow + 1, Depth + 1) /\ NextBlock
      /\ cifVector' = Passed(cv, 1) /\ fibVector' = PassedFib(1) /\ CIFCount' = PassedCount(1)
      /\ UNCHANGED <<etiFile, frame, fig00>>
  BY DEF BlockFills, guiVars, IInv, Types
<1>1. Live
  BY <1>0 DEF Live
<1>2. FrameBegun /\ Collected = BlocksPerCIF
  BY <1>0, <1>1, AtEnd
<1>3. /\ CIFCount \in 0..(CifsPerFrame - 1) /\ (Known => Fibs(fibVector, index_Out, CIFCount))
  BY <1>2, Begun
<1>4. CIFCount' = CIFCount + 1
  BY <1>0, <1>3, CountPassed
<1>5. inRow <= amount /\ inRow' = inRow + 1 /\ inRow' < Depth /\ inRow \in Nat /\ amount \in Nat
  BY <1>0, Sizes DEF IInv, Row, FillTo, Lower, Types
<1>6. /\ blkno = LastBlock <=> CIFCount = CifsPerFrame - 1
      /\ blkno = LastBlock => blkno' = 1
      /\ blkno # LastBlock => /\ blkno' = blkno + 1 /\ blkno' \in 5..LastBlock
                              /\ CIFCount + 1 \in 0..(CifsPerFrame - 1)
                              /\ InCif(blkno', CIFCount + 1, 0) /\ Index(blkno') = 0
  BY <1>0, <1>1, NextCif
<1>7. cv \in [Slots -> Cif] /\ Kept(cv, index_Out, 0, inRow' - 1)
  <2>1. Lower(Lower(inRow + 1, Depth + 1), Depth) = inRow'
    BY <1>0, <1>5, Sizes DEF Lower
  <2> QED
    BY <1>0, <2>1, Stored
<1>8. Kept(cifVector', index_Out', 1, inRow')
  <2> HIDE DEF cv
  <2>1. inRow' \in 0..Depth /\ index_Out \in Slots
    BY <1>5, Sizes DEF IInv, Types
  <2> QED
    BY <1>0, <1>7, <2>1, PassCif
<1>9. Types'
  <2>1. blkno' \in 1..LastBlock
    BY <1>6, Blocks
  <2>2. cifVector' \in [Slots -> Cif]
    <3> HIDE DEF cv
    <3> QED
      BY <1>0, <1>7, PassedType
  <2>3. fibVector' \in [Slots -> Int] /\ CIFCount' \in Int
    BY <1>0, PassedFibType DEF IInv, Types
  <2>4. index_Out' \in Slots
    BY <1>0, Sizes, ModNear DEF IInv, Types, Slots
  <2>5. inRow' \in 0..(Depth + 1) /\ cif_In' \in Nat /\ Minor' \in Nat /\ amount' \in Nat
    BY <1>0, <1>2, <1>5, Sizes
  <2> QED
    BY <1>0, <2>1, <2>2, <2>3, <2>4, <2>5 DEF IInv, Types
<1>10. InMatrix'
  <2>1. Age0' = 1 /\ Lower(inRow', Depth) - 1 + 1 = inRow'
    BY <1>0, <1>5, Sizes DEF Age0, Lower
  <2> QED
    BY <1>8, <2>1 DEF InMatrix, Kept, Whole
<1>11. InFrame'
  <2> SUFFICES ASSUME FrameBegun'
               PROVE  /\ CIFCount' \in 0..(CifsPerFrame - 1)
                      /\ blkno' - 4 = BlocksPerCIF * CIFCount' + CifIndex'
                      /\ Known' => \A k \in 0..(CifsPerFrame - 1 - CIFCount') :
                                     fibVector'[Mod(index_Out' + k)] = -k
                      /\ ~(CifIndex' > 0)
    BY DEF InFrame
  <2>1. blkno # LastBlock
    BY <1>6 DEF FrameBegun
  <2>2. Known' => Fibs(fibVector', index_Out', CIFCount')
    BY <1>0, <1>3, <1>4, PassFibs DEF IInv, Types, Known
  <2>3. CifIndex' = 0
    BY <1>6, <2>1 DEF CifIndex, Index
  <2>4. blkno' - 4 = BlocksPerCIF * CIFCount' + CifIndex'
    BY <1>4, <1>6, <2>1, <2>3 DEF InCif
  <2> QED
    BY <1>4, <1>6, <2>1, <2>2, <2>3, <2>4 DEF Fibs
<1>12. Row'
  <2>1. inRow % CifsPerFrame = CIFCount
    BY <1>0, <1>1, <1>2, <1>5, Sizes DEF IInv, Row, FrameBegun, FillTo
  <2>2. inRow' % CifsPerFrame = IF CIFCount = CifsPerFrame - 1 THEN 0 ELSE CIFCount + 1
    BY <1>5, <2>1, FrameMod
  <2>3. inRow' % CifsPerFrame = IF blkno' > 4 THEN CIFCount' ELSE 0
    BY <1>4, <1>6, <2>2
  <2>4. inRow' <= amount'
    BY <1>0, <1>5
  <2> QED
    BY <1>0, <2>3, <2>4 DEF Row
<1>13. Counted'
  BY <1>0, <1>5, Sizes DEF Counted
<1> QED
  BY <1>0, <1>9, <1>10, <1>11, <1>12, <1>13 DEF IInv, Served
\* What is taken out of a full matrix is of the CIFs that it should be.
LEMMA Classes ==
  ASSUME IInv, Kept(cifVector, index_Out, 1, Depth)
  PROVE  Deinterleaved = InStepFrame.classes
<1>1. ASSUME NEW c \in DOMAIN Map
      PROVE  cifVector[Mod(index_Out + Map[c])] = [age |-> Depth - Map[c], whole |-> TRUE]
  <2>1. Map[c] \in 0..(Depth - 1) /\ index_Out \in 0..(Depth - 1)
    BY MapAssumption DEF IInv, Types, Slots
  <2> DEFINE j == Depth - Map[c]
             up == index_Out + Map[c]
             down == index_Out - j
  <2>2. j \in 1..Depth /\ up = down + Depth /\ up \in (-Depth)..(2 * Depth - 1)
        /\ down \in (-Depth)..(2 * Depth - 1)
    BY <2>1, Sizes
  <2>3. Mod(up) = Mod(down)
    <3> HIDE DEF up, down, j
    <3>1. Mod(up) = IF up < 0 THEN up + Depth ELSE IF up >= Depth THEN up - Depth ELSE up
      BY <2>2, ModNear
    <3>2. Mod(down) = IF down < 0 THEN down + Depth ELSE IF down >= Depth THEN down - Depth
                      ELSE down
      BY <2>2, ModNear
    <3> QED
      BY <2>2, <3>1, <3>2, Sizes
  <2>4. cifVector[Mod(down)] = Whole(j)
    <3> HIDE DEF j
    <3> QED
      BY <2>2 DEF Kept
  <2> QED
    BY <2>3, <2>4 DEF Whole
<1> QED
  BY <1>1 DEF Deinterleaved, InStepFrame

\* The last block of a CIF, when the matrix is filled: a frame is begun.
LEMMA BlockServedInv == IInv /\ BlockServed => IInv'
<1> SUFFICES ASSUME IInv, BlockServed PROVE IInv'
  OBVIOUS
<1>0. /\ pc = "idle" /\ pc' = "init_eti" /\ running /\ running' /\ EndsCIF /\ amount >= FillTo
      /\ frame' = [NoFrame EXCEPT !.classes = Deinterleaved]
      /\ cifVector' = [cifVector EXCEPT ![index_Out] = NewCif]
      /\ cif_In' = Collected /\ inRow' = Lower(inRow + 1, Depth + 1)
      /\ UNCHANGED <<etiFile, running, index_Out, amount, Minor, CIFCount, fibVector, blkno, fig00>>
  BY DEF BlockServed, guiVars, stateVars, IInv, Types
<1>1. Live /\ Live'
  <2>1. inRow' > 0
    BY <1>0, Sizes DEF Lower, IInv, Types
  <2> QED
    BY <1>0, <2>1 DEF Live
<1>2. FrameBegun /\ Collected = BlocksPerCIF
  BY <1>0, <1>1, AtEnd
<1>3. /\ CIFCount \in 0..(CifsPerFrame - 1)
      /\ blkno = LastBlock <=> CIFCount = CifsPerFrame - 1
  <2>1. FrameBegun /\ InCif(blkno, CIFCount, BlocksPerCIF - 1)
    BY <1>0, <1>1, AtEnd
  <2>2. blkno \in 5..LastBlock /\ CIFCount \in 0..(CifsPerFrame - 1)
    BY <2>1, Begun
  <2> QED
    BY <2>1, <2>2, AfterCif, Blocks
<1>4. inRow' \in 1..(Depth + 1) /\ (inRow' <= Depth => inRow' = inRow + 1)
      /\ (inRow' > Depth => inRow >= Depth)
  BY <1>0, Sizes DEF Lower, IInv, Types
<1>5. Known /\ inRow <= Depth => inRow % CifsPerFrame = CIFCount
  BY <1>0, <1>1, <1>2 DEF IInv, Row, FrameBegun
<1>6. Known /\ inRow' \in 1..Depth =>
        inRow' % CifsPerFrame = IF blkno = LastBlock THEN 0 ELSE CIFCount + 1
  <2> SUFFICES ASSUME Known, inRow' \in 1..Depth
               PROVE  inRow' % CifsPerFrame = IF blkno = LastBlock THEN 0 ELSE CIFCount + 1
    OBVIOUS
  <2>1. inRow' = inRow + 1 /\ inRow \in Nat /\ inRow <= Depth
    BY <1>4, Sizes DEF IInv, Types
  <2>2. (inRow + 1) % CifsPerFrame = IF inRow % CifsPerFrame = CifsPerFrame - 1 THEN 0
                                     ELSE (inRow % CifsPerFrame) + 1
    BY <2>1, FrameMod
  <2> QED
    BY <1>3, <1>5, <2>1, <2>2
<1>7. Known /\ inRow' = Depth => blkno = LastBlock
  <2> SUFFICES ASSUME Known, inRow' = Depth
               PROVE  blkno = LastBlock
    OBVIOUS
  <2>1. inRow' % CifsPerFrame = 0
    BY DepthMod
  <2>2. inRow' \in 1..Depth
    BY <1>4, Sizes
  <2> QED
    BY <1>3, <1>6, <2>1, <2>2, Sizes
<1>8. inRow' > Depth => frame'.classes = InStepFrame.classes
  <2> SUFFICES ASSUME inRow' > Depth
               PROVE  frame'.classes = InStepFrame.classes
    OBVIOUS
  <2>1. Lower(inRow, Depth) = Depth
    BY <1>4, Sizes DEF Lower, IInv, Types
  <2>2. Kept(cifVector, index_Out, 1, Depth)
    BY <1>0, <2>1, Stored
  <2>3. frame'.classes = Deinterleaved
    BY <1>0 DEF NoFrame
  <2> QED
    BY <2>2, <2>3, Classes
<1>9. Types'
  <2>1. cifVector' \in [Slots -> Cif]
    BY <1>0, Stored
  <2>2. frame' \in [classes : [DOMAIN Map -> Cif], fib : Int, count : Int]
    <3>1. Deinterleaved \in [DOMAIN Map -> Cif]
      <4>1. \A c \in DOMAIN Map : Mod(index_Out + Map[c]) \in Slots
        <5> TAKE c \in DOMAIN Map
        <5>1. Map[c] \in 0..(Depth - 1) /\ index_Out \in 0..(Depth - 1)
          BY MapAssumption DEF IInv, Types, Slots
        <5>2. index_Out + Map[c] \in (-Depth)..(2 * Depth - 1)
          BY <5>1, Sizes
        <5> QED
          BY <5>2, ModNear
      <4> QED
        BY <4>1 DEF Deinterleaved, IInv, Types
    <3>2. frame' = [classes |-> Deinterleaved, fib |-> Stale, count |-> Stale]
      BY <1>0 DEF NoFrame
    <3>3. Stale \in Int
      BY Sizes DEF Stale
    <3> QED
      BY <3>1, <3>2, <3>3
  <2>3. inRow' \in 0..(Depth + 1) /\ cif_In' \in Nat
    BY <1>0, <1>2, <1>4, Sizes
  <2> QED
    BY <1>0, <2>1, <2>2, <2>3 DEF IInv, Types
<1>10. InMatrix'
  <2>1. Kept(cifVector', index_Out', 0, Lower(inRow', Depth) - 1)
    BY <1>0, Stored
  <2>2. Age0' = 0 /\ Lower(inRow', Depth) - 1 + 0 = Lower(inRow', Depth) - 1
    BY <1>0, <1>4, Sizes DEF Age0, Lower
  <2> QED
    BY <2>1, <2>2 DEF InMatrix, Kept, Whole
<1>11. InFrame'
  <2>1. CifIndex' = CifIndex
    BY <1>0 DEF CifIndex
  <2> QED
    BY <1>0, <1>2, <2>1 DEF IInv, InFrame, Known
<1>12. Row'
  BY <1>0, Sizes DEF Row, FillTo, IInv, Types
<1>13. Counted'
  BY <1>0, <1>2, <1>4 DEF IInv, Counted
<1>14. Served'
  <2>1. blkno' > 4 /\ EndsCIF'
    BY <1>0, <1>2 DEF FrameBegun, EndsCIF, CifIndex
  <2>2. inRow' > 0
    BY <1>4
  <2> QED
    BY <1>0, <1>6, <1>7, <1>8, <2>1, <2>2 DEF Served, Known
<1> QED
  BY <1>9, <1>10, <1>11, <1>12, <1>13, <1>14 DEF IInv
\* What is over of the frame under construction has its type.
LEMMA NoFrameType == NoFrame \in [classes : [DOMAIN Map -> Cif], fib : Int, count : Int]
<1>1. NoCif \in Cif /\ Stale \in Int
  BY Sizes DEF NoCif, Cif, Stale
<1> QED
  BY <1>1 DEF NoFrame

\* The end of a CIF a frame was made of.
LEMMA FinishInv ==
  ASSUME IInv, pc \in {"etiFile", "fwrite"}, pc' = "idle", EndOfBlock(1), Advance,
         UNCHANGED <<etiFile, running, amount, cif_In, fig00, inRow>>
  PROVE  IInv'
<1>1. Types'
  <2>1. /\ blkno' \in 1..LastBlock /\ cifVector' \in [Slots -> Cif]
        /\ fibVector' \in [Slots -> Int] /\ CIFCount' \in Int
    BY EndTypes DEF IInv
  <2>2. index_Out' \in Slots /\ Minor' \in Nat
    <3>1. index_Out \in Slots /\ Minor \in Nat /\ Mod(index_Out + 1) \in Slots
      BY Sizes, ModNear DEF IInv, Types, Slots
    <3> QED
      BY <3>1 DEF Advance
  <2>3. frame' \in [classes : [DOMAIN Map -> Cif], fib : Int, count : Int]
    BY NoFrameType DEF Advance
  <2> QED
    BY <2>1, <2>2, <2>3 DEF IInv, Types
<1>2. CASE ~running
  <2>1. ~Live'
    BY <1>2 DEF Live
  <2>2. Row'
    BY <1>2, <2>1 DEF IInv, Row
  <2> QED
    BY <1>1, <2>1, <2>2 DEF IInv, InMatrix, InFrame, FrameBegun, Counted, Served
<1>3. CASE running
  <2>1. /\ Live /\ Live' /\ EndsCIF /\ NextBlock /\ running' /\ FrameBegun
        /\ index_Out' = Mod(index_Out + 1) /\ Minor' = Minor + 1
        /\ cifVector' = Passed(cifVector, 1) /\ fibVector' = PassedFib(1)
        /\ CIFCount' = PassedCount(1) /\ Known /\ Known'
    BY <1>3 DEF Live, FrameBegun, IInv, Served, Advance, EndOfBlock, Known
  <2>2. CIFCount \in 0..(CifsPerFrame - 1) /\ Fibs(fibVector, index_Out, CIFCount)
    BY <2>1, Begun
  <2>3. CIFCount' = CIFCount + 1
    BY <2>1, <2>2, CountPassed
  <2>4. /\ blkno = LastBlock => blkno' = 1
        /\ blkno # LastBlock => /\ blkno' = blkno + 1 /\ blkno' \in 5..LastBlock
                                /\ CIFCount + 1 \in 0..(CifsPerFrame - 1)
                                /\ InCif(blkno', CIFCount + 1, 0) /\ Index(blkno') = 0
    BY <2>1, NextCif
  <2>5. inRow \in 1..(Depth + 1)
    BY <1>3, Sizes DEF IInv, Types, Served
  <2>6. InMatrix'
    <3>1. Lower(inRow, Depth) \in 0..Depth
      BY <2>5, Sizes DEF Lower
    <3>2. Kept(cifVector, index_Out, 0, Lower(inRow, Depth) - 1)
      <4>1. Age0 = 0 /\ Lower(inRow, Depth) - 1 + 0 = Lower(inRow, Depth) - 1
        BY <3>1, Sizes DEF Age0
      <4> QED
        BY <2>1, <4>1, MatrixKept DEF IInv
    <3>3. Kept(cifVector', index_Out', 1, Lower(inRow, Depth))
      BY <2>1, <3>1, <3>2, PassCif DEF IInv, Types
    <3>4. Age0' = 1 /\ Lower(inRow, Depth) - 1 + 1 = Lower(inRow, Depth) /\ inRow' = inRow
      BY <3>1, Sizes DEF Age0
    <3> QED
      BY <3>3, <3>4 DEF InMatrix, Kept, Whole
  <2>7. InFrame'
    <3> SUFFICES ASSUME FrameBegun'
                 PROVE  /\ CIFCount' \in 0..(CifsPerFrame - 1)
                        /\ blkno' - 4 = BlocksPerCIF * CIFCount' + CifIndex'
                        /\ \A k \in 0..(CifsPerFrame - 1 - CIFCount') :
                             fibVector'[Mod(index_Out' + k)] = -k
                        /\ ~(CifIndex' > 0)
      BY DEF InFrame
    <3>1. blkno # LastBlock
      BY <2>4 DEF FrameBegun
    <3>2. Fibs(fibVector', index_Out', CIFCount')
      BY <2>1, <2>2, <2>3, PassFibs DEF IInv, Types
    <3>3. CifIndex' = 0
      BY <2>4, <3>1 DEF CifIndex, Index
    <3>4. blkno' - 4 = BlocksPerCIF * CIFCount' + CifIndex'
      BY <2>3, <2>4, <3>1, <3>3 DEF InCif
    <3> QED
      BY <2>3, <2>4, <3>1, <3>2, <3>3, <3>4 DEF Fibs
  <2>8. Row'
    <3>1. inRow <= Depth => inRow % CifsPerFrame = IF blkno = LastBlock THEN 0 ELSE CIFCount + 1
      BY <2>1, <2>5 DEF IInv, Served
    <3>2. inRow <= Depth => inRow % CifsPerFrame = IF blkno' > 4 THEN CIFCount' ELSE 0
      BY <2>3, <2>4, <3>1
    <3> QED
      BY <2>1, <3>2 DEF IInv, Row
  <2>9. Counted'
    <3>1. inRow > Depth => Minor' = CIFCount'
      BY <2>1, <2>3 DEF IInv, Counted
    <3>2. inRow = Depth => ~FrameBegun'
      BY <2>1, <2>4 DEF IInv, Served, FrameBegun
    <3> QED
      BY <2>5, <3>1, <3>2, Sizes DEF Counted
  <2> QED
    BY <1>1, <2>6, <2>7, <2>8, <2>9 DEF IInv, Served
<1> QED
  BY <1>2, <1>3

\* The end of a CIF for which there is no count: the slot in turn stays, and the
\* row begins anew.
LEMMA NoCountInv ==
  ASSUME IInv, pc = "init_eti", pc' = "idle", EndOfBlock(1), ~Live \/ ~Known,
         inRow' = 0, frame' = NoFrame,
         UNCHANGED <<etiFile, running, index_Out, amount, Minor, cif_In, fig00>>
  PROVE  IInv'
<1>1. Types'
  <2>1. /\ blkno' \in 1..LastBlock /\ cifVector' \in [Slots -> Cif]
        /\ fibVector' \in [Slots -> Int] /\ CIFCount' \in Int
    BY EndTypes DEF IInv
  <2>2. inRow' \in 0..(Depth + 1)
    BY Sizes
  <2> QED
    BY <2>1, <2>2, NoFrameType DEF IInv, Types
<1>2. InMatrix'
  <2>1. Lower(inRow', Depth) - 1 + Age0' = 0 /\ Age0' = 1
    BY Sizes DEF Lower, Age0
  <2> QED
    BY <2>1 DEF InMatrix
<1>3. Counted'
  BY Sizes DEF Counted
<1>4. CASE ~running
  <2>1. ~Live'
    BY <1>4 DEF Live
  <2>2. amount' \in Nat
    BY <1>1 DEF Types
  <2>3. Row'
    BY <2>1, <2>2, Sizes DEF Row, FillTo
  <2>4. InFrame'
    BY <2>1 DEF InFrame, FrameBegun
  <2>5. Served'
    BY DEF Served
  <2> QED
    BY <1>1, <1>2, <1>3, <2>3, <2>4, <2>5 DEF IInv
<1>5. CASE running
  <2>1. /\ Live /\ ~Known /\ ~Known' /\ EndsCIF /\ NextBlock /\ FrameBegun /\ amount >= FillTo
        /\ amount \in Nat /\ CIFCount' = PassedCount(1)
    BY <1>5 DEF Live, FrameBegun, IInv, Served, Types, EndOfBlock, Known
  <2>2. CIFCount \in 0..(CifsPerFrame - 1)
    BY <2>1, Begun
  <2>3. CIFCount' = CIFCount + 1
    BY <2>1, <2>2, CountPassed
  <2>4. /\ blkno = LastBlock => blkno' = 1
        /\ blkno # LastBlock => /\ blkno' = blkno + 1 /\ blkno' \in 5..LastBlock
                                /\ CIFCount + 1 \in 0..(CifsPerFrame - 1)
                                /\ InCif(blkno', CIFCount + 1, 0) /\ Index(blkno') = 0
    BY <2>1, NextCif
  <2>5. InFrame'
    <3> SUFFICES ASSUME FrameBegun'
                 PROVE  /\ CIFCount' \in 0..(CifsPerFrame - 1)
                        /\ blkno' - 4 = BlocksPerCIF * CIFCount' + CifIndex'
                        /\ ~(CifIndex' > 0)
      BY <2>1 DEF InFrame
    <3>1. blkno # LastBlock
      BY <2>4 DEF FrameBegun
    <3>2. CifIndex' = 0
      BY <2>4, <3>1 DEF CifIndex, Index
    <3>3. blkno' - 4 = BlocksPerCIF * CIFCount' + CifIndex'
      BY <2>3, <2>4, <3>1, <3>2 DEF InCif
    <3> QED
      BY <2>3, <2>4, <3>1, <3>2, <3>3
  <2>6. Row'
    BY <1>5, <2>1, Sizes DEF Row, FillTo
  <2> QED
    BY <1>1, <1>2, <1>3, <2>5, <2>6 DEF IInv, Served
<1> QED
  BY <1>4, <1>5

\* The count and the FIBs go into the frame.
LEMMA init_etiInv == IInv /\ init_eti => IInv'
<1> SUFFICES ASSUME IInv, init_eti PROVE IInv'
  OBVIOUS
<1>1. /\ pc = "init_eti"
      /\ UNCHANGED <<etiFile, running, index_Out, amount, Minor, cif_In, fig00>>
  BY DEF init_eti, guiVars
<1>2. CASE CIFCount = None \/ ~Known
  <2>1. pc' = "idle" /\ EndOfBlock(1) /\ inRow' = 0 /\ frame' = NoFrame
    BY <1>2 DEF init_eti, Known
  <2>2. ~Live \/ ~Known
    <3> SUFFICES ASSUME Live, Known PROVE FALSE
      OBVIOUS
    <3>1. FrameBegun
      BY <1>1 DEF FrameBegun, IInv, Served
    <3>2. CIFCount \in 0..(CifsPerFrame - 1)
      BY <3>1, Begun
    <3> QED
      BY <1>2, <3>2, Sizes DEF None
  <2> QED
    BY <1>1, <2>1, <2>2, NoCountInv
<1>3. CASE CIFCount # None /\ Known
  <2>1. /\ frame' = [frame EXCEPT !.fib = fibVector[index_Out], !.count = Count]
        /\ pc' = "etiFile"
        /\ UNCHANGED <<cifVector, fibVector, CIFCount, blkno, inRow>>
    BY <1>3 DEF init_eti, Known
  <2>2. frame'.classes = frame.classes /\ frame'.fib = fibVector[index_Out]
        /\ frame'.count = Count
    BY <2>1 DEF IInv, Types
  <2>3. Types'
    <3>1. fibVector[index_Out] \in Int /\ Count \in Int
      BY Sizes DEF IInv, Types, Count, Stale
    <3>2. frame' \in [classes : [DOMAIN Map -> Cif], fib : Int, count : Int]
      BY <2>1, <3>1 DEF IInv, Types
    <3> QED
      BY <1>1, <2>1, <3>2 DEF IInv, Types
  <2>4. inRow > Depth => frame'.fib = 0 /\ (fig00 = "own" => frame'.count = 0)
    <3> SUFFICES ASSUME inRow > Depth
                 PROVE  frame'.fib = 0 /\ (fig00 = "own" => frame'.count = 0)
      OBVIOUS
    <3>1. FrameBegun /\ Minor = CIFCount
      BY <1>1, Sizes DEF FrameBegun, Live, IInv, Served, Counted, Types
    <3>2. CIFCount \in 0..(CifsPerFrame - 1) /\ Fibs(fibVector, index_Out, CIFCount)
      BY <1>3, <3>1, Begun
    <3>3. fibVector[Mod(index_Out + 0)] = -0
      BY <3>2, Sizes DEF Fibs
    <3>4. Mod(index_Out + 0) = index_Out
      BY Sizes, ModNear DEF IInv, Types, Slots
    <3> QED
      BY <2>2, <3>1, <3>2, <3>3, <3>4 DEF Count
  <2>5. (Known' <=> Known) /\ Live' = Live /\ EndsCIF' = EndsCIF /\ CifIndex' = CifIndex /\ Age0' = Age0
    BY <1>1, <2>1 DEF Live, EndsCIF, CifIndex, Age0, Known
  <2>6. InMatrix' /\ Row'
    BY <1>1, <2>1, <2>5 DEF IInv, InMatrix, Row
  <2>7. InFrame' /\ Counted'
    BY <1>1, <2>1, <2>5 DEF IInv, InFrame, Counted, FrameBegun
  <2>8. Served'
    BY <1>1, <1>3, <2>1, <2>2, <2>4, <2>5 DEF IInv, Served
  <2> QED
    BY <2>3, <2>6, <2>7, <2>8 DEF IInv
<1> QED
  BY <1>2, <1>3

\* The file is looked at.
LEMMA CheckFileInv == IInv /\ CheckFile => IInv'
<1> SUFFICES ASSUME IInv, CheckFile PROVE IInv'
  OBVIOUS
<1>1. pc = "etiFile" /\ UNCHANGED <<etiFile, running, amount, cif_In, fig00, inRow>>
  BY DEF CheckFile, guiVars
<1>2. CASE etiFile = "open"
  <2>1. pc' = "fwrite" /\ UNCHANGED <<index_Out, Minor, cifVector, fibVector, CIFCount, blkno, frame>>
    BY <1>2 DEF CheckFile
  <2>2. (Known' <=> Known) /\ Live' = Live /\ EndsCIF' = EndsCIF /\ CifIndex' = CifIndex /\ Age0' = Age0
    BY <1>1, <2>1 DEF Live, EndsCIF, CifIndex, Age0, Known
  <2>3. Types' /\ InMatrix' /\ Row'
    BY <1>1, <2>1, <2>2 DEF IInv, Types, InMatrix, Row
  <2>4. InFrame' /\ Counted' /\ Served'
    BY <1>1, <2>1, <2>2 DEF IInv, InFrame, Counted, Served, FrameBegun
  <2> QED
    BY <2>3, <2>4 DEF IInv
<1>3. CASE etiFile # "open"
  <2>1. pc' = "idle" /\ EndOfBlock(1) /\ Advance
    BY <1>3 DEF CheckFile
  <2> QED
    BY <1>1, <2>1, FinishInv
<1> QED
  BY <1>2, <1>3

\* The frame is written.
LEMMA WriteFrameInv == IInv /\ WriteFrame => IInv'
  BY FinishInv DEF WriteFrame, guiVars

\* A reset makes what is in the matrix not count.
LEMMA ResetInv ==
  ASSUME IInv, reset, etiFile' \in {"open", "none"}, UNCHANGED <<dataVars, pc, blkno, fig00>>
  PROVE  IInv'
<1>1. /\ index_Out' = 0 /\ amount' = 0 /\ Minor' = 0 /\ CIFCount' = None /\ ~running'
      /\ running' \in BOOLEAN /\ inRow' = 0
      /\ UNCHANGED <<cif_In, cifVector, fibVector, frame, pc, blkno, fig00>>
  BY DEF reset, dataVars
<1>2. ~Live'
  BY <1>1 DEF Live
<1>3. Types'
  <2>1. 0 \in Slots /\ None \in Int /\ 0 \in 0..(Depth + 1)
    BY Sizes DEF Slots, None
  <2> QED
    BY <1>1, <2>1 DEF IInv, Types
<1>4. Served'
  <2>1. EndsCIF' = EndsCIF
    BY <1>1 DEF EndsCIF, CifIndex
  <2> QED
    BY <1>1, <2>1, Sizes DEF IInv, Served, Known
<1>5. Row' /\ Counted'
  BY <1>1, <1>2, Sizes DEF Row, Counted, FrameBegun
<1> QED
  BY <1>2, <1>3, <1>4, <1>5 DEF IInv, InMatrix, InFrame, FrameBegun

\* The writing is stopped: a frame in hand may still be finished.
LEMMA StopInv == IInv /\ stop_etiGenerator => IInv'
<1> SUFFICES ASSUME IInv, stop_etiGenerator PROVE IInv'
  OBVIOUS
<1>1. /\ etiFile' = "none" /\ ~running' /\ running' \in BOOLEAN
      /\ UNCHANGED <<index_Out, amount, Minor, CIFCount, cif_In, cifVector, fibVector, frame,
                     pc, blkno, fig00, inRow>>
  BY DEF stop_etiGenerator, stateVars, dataVars
<1>2. (Live' => Live) /\ (Known' <=> Known) /\ EndsCIF' = EndsCIF /\ CifIndex' = CifIndex /\ Age0' = Age0
  <2>1. Live' => Live
    BY <1>1 DEF Live
  <2> QED
    BY <1>1, <2>1 DEF EndsCIF, CifIndex, Age0, Known
<1>3. Types'
  BY <1>1 DEF IInv, Types
<1>4. InMatrix' /\ InFrame'
  BY <1>1, <1>2 DEF IInv, InMatrix, InFrame, FrameBegun
<1>5. Row'
  BY <1>1, <1>2 DEF IInv, Row
<1>6. Counted' /\ Served'
  BY <1>1, <1>2 DEF IInv, Counted, FrameBegun, Served
<1> QED
  BY <1>3, <1>4, <1>5, <1>6 DEF IInv

\* A frame is broken off: the row ends.
LEMMA FrameBrokenInv == IInv /\ FrameBroken => IInv'
<1> SUFFICES ASSUME IInv, FrameBroken PROVE IInv'
  OBVIOUS
<1>1. /\ pc = "idle" /\ pc' = "idle" /\ blkno' = 1 /\ inRow' = 0
      /\ cifVector' = Passed(cifVector, CifsLeft) /\ fibVector' = PassedFib(CifsLeft)
      /\ CIFCount' = PassedCount(CifsLeft)
      /\ UNCHANGED <<etiFile, running, index_Out, amount, Minor, cif_In, frame, fig00>>
  BY DEF FrameBroken, guiVars
<1>2. CifsLeft \in Int
  BY Sizes, Blocks DEF CifsLeft, Lower, IInv, Types
<1>3. Types'
  <2>1. cifVector' \in [Slots -> Cif] /\ fibVector' \in [Slots -> Int] /\ CIFCount' \in Int
    BY <1>1, <1>2, PassedType, PassedFibType DEF IInv, Types
  <2>2. blkno' \in 1..LastBlock /\ inRow' \in 0..(Depth + 1)
    BY <1>1, Blocks, Sizes
  <2> QED
    BY <1>1, <2>1, <2>2 DEF IInv, Types
<1>4. InMatrix'
  <2>1. Lower(inRow', Depth) - 1 + Age0' = 0 /\ Age0' = 1
    BY <1>1, Sizes DEF Lower, Age0
  <2> QED
    BY <2>1 DEF InMatrix
<1>5. Row'
  <2>1. amount \in Nat
    BY DEF IInv, Types
  <2> QED
    BY <1>1, <2>1, DepthMod DEF Row
<1>6. ~FrameBegun'
  BY <1>1 DEF FrameBegun
<1> QED
  BY <1>1, <1>3, <1>4, <1>5, <1>6 DEF IInv, InFrame, Counted, Served

\* Nothing of this changes.
LEMMA StutterInv ==
  ASSUME IInv,
         UNCHANGED <<etiFile, running, index_Out, amount, Minor, CIFCount, cif_In, cifVector,
                     fibVector, frame, pc, blkno, fig00, inRow>>
  PROVE  IInv'
  BY DEF IInv, Types, InMatrix, InFrame, Row, Counted, Served, Live, FrameBegun, Age0, EndsCIF,
         CifIndex, Known

\* Each step keeps it.
LEMMA NextInv == IInv /\ [Next]_vars => IInv'
<1> SUFFICES ASSUME IInv, [Next]_vars PROVE IInv'
  OBVIOUS
<1>1. CASE Thread
  BY <1>1, BlockIgnoredInv, BlockCopiedInv, BlockFillsInv, BlockServedInv, init_etiInv,
     CheckFileInv, WriteFrameInv DEF Thread
<1>2. CASE start_etiGenerator
  BY <1>2, ResetInv DEF start_etiGenerator
<1>3. CASE stop_etiGenerator
  BY <1>3, StopInv
<1>4. CASE reset_etiGenerator
  BY <1>4, ResetInv DEF reset_etiGenerator, IInv, Types
<1>5. CASE FrameBroken
  BY <1>5, FrameBrokenInv
<1>6. CASE Settle
  BY <1>6, StutterInv DEF Settle, guiVars, stateVars, dataVars
<1>7. CASE UNCHANGED vars
  BY <1>7, StutterInv DEF vars, guiVars, stateVars, dataVars
<1> QED
  BY <1>1, <1>2, <1>3, <1>4, <1>5, <1>6, <1>7 DEF Next

-----------------------------------------------------------------------------
\* The matrix, the FIBs, the count and the frame in hand fit together in every
\* state of etiGenerator.
THEOREM Invariance == Spec => []IInv
<1>1. Init => IInv
  BY InitInv
<1>2. IInv /\ [Next]_vars => IInv'
  BY NextInv
<1> QED
  BY <1>1, <1>2, PTL DEF Spec

\* After Depth + 1 CIFs without a gap, what processBlock writes is in step: the
\* FIBs of the CIF just received, its count if the FIG 0/0 of the frame was heard,
\* and the soft bits of each class from the CIF that the interleaver says, for
\* every interleaver whose depth is a whole number of frames.
THEOREM WrittenInStep == Spec => []InStep
<1>1. IInv => InStep
  BY DEF IInv, Served, InStep, InStepFrame
<1> QED
  BY <1>1, Invariance, PTL
=============================================================================
