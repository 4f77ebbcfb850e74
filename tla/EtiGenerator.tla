---------------------------- MODULE EtiGenerator ----------------------------
(***************************************************************************)
(* etiGenerator: the CIFs of the ensemble are de-interleaved and written to*)
(* a file, each with the FIBs and the CIF count of its DAB frame.  The     *)
(* thread of the DAB processor calls processBlock for the blocks 1, 2, ... *)
(* of a frame; the GUI thread starts and stops the writing and resets the  *)
(* generator at a change of configuration, without any lock.               *)
(*                                                                         *)
(* CIFs are told apart by their age: how many CIFs ago, as the transmitter *)
(* counts, a CIF was sent; 0 is the one being received.                    *)
(***************************************************************************)
EXTENDS Integers

CONSTANTS
  Depth,          \* CIFs of cifVector (16 in the code)
  Map,            \* interleaveMap, from the classes of soft bits to 0..Depth-1
  CifsPerFrame,   \* 4 in mode I
  BlocksPerCIF    \* numberofblocksperCIF (18)

\* A frame has 4, 1, 1 or 2 CIFs in the modes I to IV.
ASSUME SizesAssumption ==
  /\ Depth \in Nat \ {0} /\ CifsPerFrame \in 1..Depth /\ BlocksPerCIF \in Nat \ {0, 1}
  /\ Depth % CifsPerFrame = 0
ASSUME MapAssumption == Map \in [DOMAIN Map -> 0..(Depth - 1)]

VARIABLES
  etiFile,     \* "open", or "none"
  running,
  index_Out,
  amount,
  Minor,
  CIFCount,    \* the age of the first CIF of the frame it came with, -1: none
  fig00,       \* what the FIB decoder last heard of FIG 0/0, see Hear
  cif_In,      \* blocks of the CIF that were copied
  cifVector,   \* [age, whole] of each CIF
  fibVector,   \* the age of the CIF the FIBs are of
  pc,          \* where processBlock is: "idle", or past the de-interleaver
  frame,       \* the ETI frame under construction: theVector, NoFrame when it is over
  blkno,       \* the next block
  inRow,       \* CIFs put into cifVector one behind the other, up to Depth + 1 (history)
  clean        \* no more faults and no more orders from the GUI

guiVars   == <<etiFile, running>>
stateVars == <<index_Out, amount, Minor, CIFCount>>
dataVars  == <<cif_In, cifVector, fibVector, frame>>
vars == <<guiVars, stateVars, dataVars, pc, blkno, fig00, inRow, clean>>

Slots   == 0..(Depth - 1)
Stale   == Depth + 1           \* an age that is too high to matter
None    == -CifsPerFrame       \* CIFCount -1
NoCif   == [age |-> Stale, whole |-> FALSE]
NoFrame == [classes |-> [c \in DOMAIN Map |-> NoCif], fib |-> Stale, count |-> Stale]
LastBlock  == 3 + CifsPerFrame * BlocksPerCIF
Mod(i)     == i % Depth
Lower(a, b) == IF a < b THEN a ELSE b

Init ==
  /\ etiFile = "none" /\ running = FALSE
  /\ index_Out = 0 /\ amount = 0 /\ Minor = 0 /\ CIFCount = None
  /\ cif_In = 0
  /\ cifVector = [i \in Slots |-> NoCif]
  /\ fibVector = [i \in Slots |-> Stale]
  /\ pc = "idle" /\ frame = NoFrame
  /\ blkno = 1 /\ inRow = 0 /\ clean = FALSE
  /\ fig00 \in {"older", "negative"}

-----------------------------------------------------------------------------
(* The blocks of a frame, and what is older when n CIFs have passed.       *)

Aged(age, n) == Lower(age + n, Stale)
Passed(cifs, n) == [i \in Slots |-> [cifs[i] EXCEPT !.age = Aged(@, n)]]
PassedFib(n)    == [i \in Slots |-> Aged(fibVector[i], n)]
PassedCount(n)  == IF CIFCount = None THEN None ELSE Aged(CIFCount, n)

CifIndex  == (blkno - 4) % BlocksPerCIF
EndsCIF   == blkno >= 4 /\ CifIndex = BlocksPerCIF - 1
NextBlock == blkno' = IF blkno = LastBlock THEN 1 ELSE blkno + 1

\* The CIF in hand is over, if the block was its last one.
EndOfBlock(n) ==
  /\ NextBlock
  /\ cifVector' = Passed(cifVector, n)
  /\ fibVector' = PassedFib(n)
  /\ CIFCount' = PassedCount(n)

\* The count of the FIB decoder is that of this frame, when its FIG 0/0 came in
\* a FIB without errors; else that of an earlier one or, when there was none yet,
\* what the memory held, which may be a negative number.
Hear ==
  IF blkno = 1
  THEN \E heard \in IF clean THEN {TRUE} ELSE BOOLEAN :
         fig00' = IF heard THEN "own" ELSE IF fig00 = "own" THEN "older" ELSE fig00
  ELSE UNCHANGED fig00

-----------------------------------------------------------------------------
(* processBlock.                                                           *)

\* (fault) the blocks are numbered from 0.
StartsFrom0 == etiFile = "open" /\ blkno = 0
\* "when starting, we start with a block 1".
Starts == etiFile = "open" /\ blkno = 1

\* Not running, or a block of the FIC.
BlockIgnored ==
  /\ pc = "idle"
  /\ running' = (running \/ Starts)
  /\ ~running' \/ blkno < 4
  /\ Hear
  /\ EndOfBlock(IF EndsCIF THEN 1 ELSE 0)
  /\ UNCHANGED <<etiFile, index_Out, amount, Minor, cif_In, frame, pc, inRow, clean>>

\* (fault) the number of the CIF goes on counting in the next frame.
MinorKept == Minor
MinorAtImport == IF blkno = 4 THEN 0 ELSE Minor

\* The FIBs, as they were received, and the count of the FIB decoder come with
\* block 4.
ImportFib ==
  /\ fibVector' = IF blkno = 4
                  THEN [i \in Slots |-> IF Mod(i - index_Out) < CifsPerFrame
                                        THEN - Mod(i - index_Out) ELSE fibVector[i]]
                  ELSE fibVector
  /\ CIFCount' = IF blkno = 4 THEN 0 ELSE CIFCount

Collected == IF CifIndex = 0 THEN 1 ELSE Lower(cif_In + 1, BlocksPerCIF)

BlockCopied ==
  /\ pc = "idle" /\ running /\ blkno >= 4 /\ ~EndsCIF
  /\ ImportFib
  /\ Minor' = MinorAtImport
  /\ cif_In' = Collected
  /\ NextBlock
  /\ UNCHANGED <<guiVars, index_Out, amount, cifVector, frame, pc, fig00, inRow, clean>>

\* The last block of a CIF: the soft bits of class c are those of the CIF that
\* is Map[c] slots on, the slot of the new CIF being the oldest.
Deinterleaved == [c \in DOMAIN Map |-> cifVector[Mod(index_Out + Map[c])]]
NewCif        == [age |-> 0, whole |-> Collected = BlocksPerCIF]

\* amount < FillTo: the matrix is not filled yet.
FillTo == Depth - 1

BlockFills ==
  /\ pc = "idle" /\ running /\ EndsCIF
  /\ amount < FillTo
  /\ amount' = amount + 1
  /\ index_Out' = Mod(index_Out + 1)
  /\ Minor' = 0
  /\ cif_In' = Collected
  /\ inRow' = Lower(inRow + 1, Depth + 1)
  /\ NextBlock
  /\ cifVector' = Passed([cifVector EXCEPT ![index_Out] = NewCif], 1)
  /\ fibVector' = PassedFib(1) /\ CIFCount' = PassedCount(1)
  /\ UNCHANGED <<guiVars, frame, pc, fig00, clean>>

BlockServed ==
  /\ pc = "idle" /\ running /\ EndsCIF
  /\ amount >= FillTo
  /\ pc' = "init_eti"
  /\ frame' = [NoFrame EXCEPT !.classes = Deinterleaved]
  /\ cifVector' = [cifVector EXCEPT ![index_Out] = NewCif]
  /\ cif_In' = Collected
  /\ inRow' = Lower(inRow + 1, Depth + 1)
  /\ UNCHANGED <<guiVars, stateVars, fibVector, blkno, fig00, clean>>

\* What theVector holds is over.
Advance == index_Out' = Mod(index_Out + 1) /\ Minor' = Minor + 1 /\ frame' = NoFrame

\* The count that is written; that of an earlier frame is too old to matter.
Count == IF fig00 = "own" THEN CIFCount - Minor ELSE Stale

\* The count is looked at, then the header is made and the FIBs are copied.  When
\* there is no count the slot stays the one in turn: the next CIF takes the place
\* of this one.
init_eti ==
  /\ pc = "init_eti"
  /\ IF CIFCount = None \/ fig00 = "negative"
     THEN pc' = "idle" /\ EndOfBlock(1) /\ inRow' = 0 /\ frame' = NoFrame
     ELSE /\ frame' = [frame EXCEPT !.fib = fibVector[index_Out], !.count = Count]
          /\ pc' = "etiFile"
          /\ UNCHANGED <<cifVector, fibVector, CIFCount, blkno, inRow>>
  /\ UNCHANGED <<guiVars, index_Out, amount, Minor, cif_In, fig00, clean>>

\* etiFile is compared with nullptr,
CheckFile ==
  /\ pc = "etiFile"
  /\ IF etiFile = "open"
     THEN /\ pc' = "fwrite"
          /\ UNCHANGED <<index_Out, Minor, cifVector, fibVector, CIFCount, blkno, frame>>
     ELSE pc' = "idle" /\ EndOfBlock(1) /\ Advance
  /\ UNCHANGED <<guiVars, amount, cif_In, fig00, inRow, clean>>

\* and the frame is written.
WriteFrame ==
  /\ pc = "fwrite"
  /\ pc' = "idle" /\ EndOfBlock(1) /\ Advance
  /\ UNCHANGED <<guiVars, amount, cif_In, fig00, inRow, clean>>

Thread == \/ BlockIgnored \/ BlockCopied \/ BlockFills \/ BlockServed
          \/ init_eti \/ CheckFile \/ WriteFrame

-----------------------------------------------------------------------------
(* The GUI and the faults.                                                 *)

reset ==
  /\ index_Out' = 0 /\ amount' = 0 /\ Minor' = 0 /\ CIFCount' = None
  /\ running' = FALSE
  /\ inRow' = 0

start_etiGenerator ==
  /\ ~clean /\ etiFile = "none"
  /\ reset
  /\ etiFile' = "open"
  /\ UNCHANGED <<dataVars, pc, blkno, fig00, clean>>

stop_etiGenerator ==
  /\ ~clean /\ etiFile = "open"
  /\ etiFile' = "none" /\ running' = FALSE
  /\ UNCHANGED <<stateVars, dataVars, pc, blkno, fig00, inRow, clean>>

\* changeinConfiguration.
reset_etiGenerator ==
  /\ ~clean /\ etiFile = "open"
  /\ reset
  /\ UNCHANGED <<etiFile, dataVars, pc, blkno, fig00, clean>>

\* The synchronisation is lost before the next block; what follows is the first
\* block of the next frame.
CifsLeft == Lower((LastBlock - blkno + BlocksPerCIF) \div BlocksPerCIF, CifsPerFrame)
FrameBroken ==
  /\ ~clean /\ pc = "idle"
  /\ blkno' = 1 /\ inRow' = 0
  /\ cifVector' = Passed(cifVector, CifsLeft)
  /\ fibVector' = PassedFib(CifsLeft)
  /\ CIFCount' = PassedCount(CifsLeft)
  /\ UNCHANGED <<guiVars, index_Out, amount, Minor, cif_In, frame, pc, fig00, clean>>

Settle == ~clean /\ clean' = TRUE
          /\ UNCHANGED <<guiVars, stateVars, dataVars, pc, blkno, fig00, inRow>>

Next == \/ Thread \/ start_etiGenerator \/ stop_etiGenerator \/ reset_etiGenerator
        \/ FrameBroken \/ Settle

\* The thread of the DAB processor runs and samples come in.
Spec == Init /\ [][Next]_vars /\ WF_vars(Thread)

-----------------------------------------------------------------------------
(* Properties.                                                             *)

\* The ETI frame of the CIF just received: its FIBs, its count, and the soft
\* bits of each class of the CIF Depth - Map[c] CIFs before.
InStepFrame == [classes |-> [c \in DOMAIN Map |-> [age |-> Depth - Map[c], whole |-> TRUE]],
                fib |-> 0, count |-> 0]

\* When the last Depth + 1 CIFs came without a gap, what is written (process-
\* Block) fits together: the soft bits of each class, the FIBs and, if the FIG 0/0
\* of the frame was heard, the count; wherever the writing was started, the
\* configuration changed, a frame was broken off or a count was missing before.
InStep ==
  pc = "fwrite" /\ inRow > Depth =>
    /\ frame.classes = InStepFrame.classes /\ frame.fib = InStepFrame.fib
    /\ fig00 = "own" => frame.count = InStepFrame.count

\* What is written has the count of its own frame, whatever FIBs were damaged.
CountOfFrame == pc = "fwrite" /\ inRow > Depth => frame.count = InStepFrame.count

\* "we have to wait until the interleave matrix is filled" (processBlock):
\* nothing is written that was not put into the matrix first.
Filled == pc = "fwrite" => \A c \in DOMAIN Map : frame.classes[c].age <= Depth

\* The file that is written to is open (stop_etiGenerator).
FileOpen == pc = "fwrite" => etiFile = "open"

\* fibValid has Depth elements, of which CifsPerFrame are set from index_Out on.
FibValidInBounds ==
  pc = "idle" /\ running /\ blkno = 4 => index_Out + CifsPerFrame <= Depth

\* While a file is open and the reception is good, FIG 0/0 included, ETI frames
\* are written, also after a reset.
FramesGoOn == (clean /\ etiFile = "open") ~> (pc = "fwrite" /\ frame = InStepFrame)
=============================================================================
