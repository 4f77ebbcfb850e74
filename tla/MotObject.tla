----------------------------- MODULE MotObject -----------------------------
(***************************************************************************)
(* motObject: the body segments of one object (a slide, an EPG file).  Used*)
(* by MotHandler for packet data and by PadHandler for the slides sent with*)
(* audio.  A segment is represented by who sent it (service) and by whether*)
(* it is undamaged.                                                        *)
(***************************************************************************)
EXTENDS Integers

CONSTANT MaxSeg       \* the largest segment number
ASSUME SegAssumption == MaxSeg \in Nat

SegmentNumbers == 0..MaxSeg
Lacking        == [service |-> "none", whole |-> FALSE]

\* An object: motMap and numofSegments (-1: not known).
NewObject == [motMap |-> [i \in SegmentNumbers |-> Lacking], numofSegments |-> -1]
NoObject  == [NewObject EXCEPT !.numofSegments = -2]
Has(h, i) == h.motMap[i] # Lacking

\* (fault) completeness is looked at only when the last segment comes.
CompletesAtLast(h, g) ==
  /\ ~Has(h, g.segmentNumber)
  /\ g.last
  /\ \A i \in 0..(g.segmentNumber - 1) : Has(h, i)

\* With the segment of data group g the object is complete: the number of the
\* last one is known and none before it is lacking.
Completes(h, g) ==
  LET n == IF g.last THEN g.segmentNumber + 1 ELSE h.numofSegments
  IN /\ ~Has(h, g.segmentNumber)
     /\ n # -1
     /\ \A i \in 0..(n - 1) : i = g.segmentNumber \/ Has(h, i)

\* A segment that is there already is ignored.
addBodySegment(h, g, whole) ==
  IF Has(h, g.segmentNumber) THEN h
  ELSE [h EXCEPT !.motMap[g.segmentNumber] = [service |-> g.service, whole |-> whole],
                 !.numofSegments = IF g.last THEN g.segmentNumber + 1 ELSE @]
=============================================================================
