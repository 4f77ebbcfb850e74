---------------------------- MODULE Mp4Processor ----------------------------
(***************************************************************************)
(* mp4Processor: five consecutive frames make a superframe of DAB+, whose  *)
(* beginning is not marked in the frames.  The last five frames are kept,  *)
(* and with each frame it is tried whether they are one.                   *)
(*                                                                         *)
(* A frame is represented by the superframe it belongs to, its position in *)
(* it, whether it directly follows the frame received before it (linked),  *)
(* and its bit errors: "none" (or what Reed-Solomon corrects), "head" (some*)
(* in the bytes of the fire code, corrected otherwise), "bad" (too many).  *)
(* A fire code that is right by chance is left out.                        *)
(***************************************************************************)
EXTENDS Integers, Sequences

CONSTANT NumAus    \* access units of a superframe (2, 3, 4 or 6 in the code)
ASSUME NumAusAssumption == NumAus \in Nat \ {0}

VARIABLES
  frameBytes,       \* the last five frames
  blockFillIndex,   \* where the next one goes
  blocksInBuffer,   \* frames since the last superframe
  theUnits          \* the access units of the superframe that are still to come

mp4Vars == <<frameBytes, blockFillIndex, blocksInBuffer, theUnits>>

NoFrame == [superframe |-> 0, pos |-> 0, linked |-> FALSE, damage |-> "bad"]

mp4Init ==
  /\ frameBytes = [i \in 0..4 |-> NoFrame]
  /\ blockFillIndex = 0
  /\ blocksInBuffer = 0
  /\ theUnits = <<>>

newMp4Processor ==
  /\ frameBytes' = [i \in 0..4 |-> NoFrame]
  /\ blockFillIndex' = 0
  /\ blocksInBuffer' = 0
  /\ theUnits' = <<>>

\* fc.check looks at the first bytes of the oldest of the five frames,
\* my_rsDecoder.dec at columns through all of them.
FireCode(bytes, base) == bytes[base].pos = 0 /\ bytes[base].damage = "none"
ReedSolomon(bytes, base) ==
  /\ \A i \in 0..4 : bytes[i].damage # "bad"
  /\ \A i \in 0..4 : i = base \/ bytes[i].linked

\* (fault) the search starts from scratch.
AfterFailureEmpty == 0
AfterFailure == 4

\* The access units are numbered through the superframes.
UnitsOf(f) == [i \in 1..NumAus |-> (f.superframe - 1) * NumAus + i]

\* addtoFrame and processSuperframe.  The table of the access units is found
\* out of order after n of them (NumAus: it is not).
addtoFrame(f, n) ==
  LET bytes == [frameBytes EXCEPT ![blockFillIndex] = f]
      base  == (blockFillIndex + 1) % 5
      found == blocksInBuffer + 1 >= 5 /\ FireCode(bytes, base) /\ ReedSolomon(bytes, base)
  IN /\ theUnits = <<>>
     /\ frameBytes' = bytes
     /\ blockFillIndex' = base
     /\ blocksInBuffer' = IF blocksInBuffer + 1 < 5 THEN blocksInBuffer + 1
                          ELSE IF found /\ n = NumAus THEN 0 ELSE AfterFailure
     /\ theUnits' = IF found THEN SubSeq(UnitsOf(f), 1, n) ELSE <<>>

\* The next round of the loop over the access units.
NextUnit ==
  /\ theUnits # <<>>
  /\ theUnits' = Tail(theUnits)
  /\ UNCHANGED <<frameBytes, blockFillIndex, blocksInBuffer>>
=============================================================================
