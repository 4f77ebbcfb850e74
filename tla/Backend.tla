------------------------------- MODULE Backend -------------------------------
(***************************************************************************)
(* A backend of Qt-DAB: src/code/backend/backend.cpp, in the threaded      *)
(* build (__THREADED_BACKEND).                                             *)
(*                                                                         *)
(* The OFDM thread calls process () with one segment per CIF; the segments *)
(* pass through NUMBER_SLOTS slots guarded by two semaphores to the thread *)
(* of the backend, which de-interleaves them and hands whole frames to the *)
(* decoder.  The GUI thread ends it all with stopRunning () and delete,    *)
(* holding mscHandler::locker, which the OFDM thread holds in process ().  *)
(*                                                                         *)
(* A segment is its number, 1, 2, ...; 0 stands for the zeros the buffers  *)
(* are filled with.  Bit i of a segment is treated by its class i mod 16.  *)
(***************************************************************************)
EXTENDS Integers, Sequences

CONSTANTS
  NumberSlots,   \* NUMBER_SLOTS, 25
  Depth,         \* rows of interleaveData, 16
  interleaveMap, \* [class] : delay of the class in the transmitter
  MaxSegments    \* bound on the segments received in a run

ASSUME SlotsAssumption == NumberSlots \in Nat \ {0}
ASSUME DepthAssumption == Depth \in Nat \ {0}
ASSUME MapAssumption == interleaveMap \in [0 .. Depth - 1 -> 0 .. Depth - 1]
ASSUME BoundAssumption == MaxSegments \in Nat

VARIABLES
  theData,        \* [slot] : segment copied there
  freeSlots, usedSlots,    \* the semaphores
  nextIn, nextOut,
  sent,           \* segments given to process () so far
  ipc,            \* the OFDM thread: "idle", "wait", "copy", "release"
  running,        \* Backend::running
  tpc,            \* the backend thread: "wait", "timeout", "work", "free", "decode", "done"
  taken,          \* segments taken by the backend thread so far
  interleaveData, \* [row] : segment stored there
  interleaverIndex, countforInterleaver,
  tempX,          \* [class] : segment the bits of the class are from
  locker,         \* mscHandler::locker : "free", "ofdm" or "gui"
  gui             \* the GUI thread: "none", "stopping", "deleted"

inVars  == <<nextIn, sent, ipc>>
diVars  == <<interleaveData, interleaverIndex, countforInterleaver, tempX>>
outVars == <<nextOut, tpc, taken, diVars>>
vars    == <<theData, freeSlots, usedSlots, inVars, running, outVars, locker, gui>>

Slots == 0 .. NumberSlots - 1
Rows  == 0 .. Depth - 1
Classes == Rows

Step(i, n) == IF i + 1 = n THEN 0 ELSE i + 1        \* (i + 1) % n
Row(k)     == IF k >= Depth THEN k - Depth ELSE k   \* k & 017

-----------------------------------------------------------------------------
(* The OFDM thread: process (), called with the lock held.                 *)

Process ==
  /\ ipc = "idle" /\ locker = "free" /\ gui = "none"
  /\ sent < MaxSegments
  /\ locker' = "ofdm"
  /\ ipc' = "wait"
  /\ UNCHANGED <<theData, freeSlots, usedSlots, nextIn, sent, running, outVars, gui>>

\* (fault) a slot is taken whether or not one is free.
AcquireAlways ==
  /\ ipc = "wait"
  /\ freeSlots' = IF freeSlots > 0 THEN freeSlots - 1 ELSE 0
  /\ ipc' = "copy"
  /\ UNCHANGED <<theData, usedSlots, nextIn, sent, running, outVars, locker, gui>>

\* tryAcquire is repeated until a slot is free.  The way out for a backend
\* that does not run is never taken: stopRunning needs the lock.
AcquireFree ==
  /\ ipc = "wait" /\ freeSlots > 0
  /\ freeSlots' = freeSlots - 1
  /\ ipc' = "copy"
  /\ UNCHANGED <<theData, usedSlots, nextIn, sent, running, outVars, locker, gui>>

Copy ==
  /\ ipc = "copy"
  /\ theData' = [theData EXCEPT ![nextIn] = sent + 1]
  /\ nextIn' = Step(nextIn, NumberSlots)
  /\ sent' = sent + 1
  /\ ipc' = "release"
  /\ UNCHANGED <<freeSlots, usedSlots, running, outVars, locker, gui>>

ReleaseUsed ==
  /\ ipc = "release"
  /\ usedSlots' = usedSlots + 1
  /\ ipc' = "idle"
  /\ locker' = "free"
  /\ UNCHANGED <<theData, freeSlots, nextIn, sent, running, outVars, gui>>

-----------------------------------------------------------------------------
(* The backend thread: run () and processSegment ().                       *)

\* The head of the loop of run ().
Loop == IF running THEN "wait" ELSE "done"

AcquireUsed ==
  /\ tpc = "wait" /\ usedSlots > 0
  /\ usedSlots' = usedSlots - 1
  /\ tpc' = "work"
  /\ UNCHANGED <<theData, freeSlots, inVars, running, nextOut, taken, diVars, locker, gui>>

\* (fault) the row is written before it is read.
WorkStoreFirst ==
  /\ tpc = "work"
  /\ interleaveData' = [interleaveData EXCEPT ![interleaverIndex] = theData[nextOut]]
  /\ tempX' = [c \in Classes |-> interleaveData'[Row(interleaverIndex + interleaveMap[c])]]
  /\ interleaverIndex' = Step(interleaverIndex, Depth)
  /\ tpc' = "free"
  /\ UNCHANGED <<theData, freeSlots, usedSlots, inVars, running, nextOut, taken,
                 countforInterleaver, locker, gui>>

\* The de-interleaver: each class is read from its row, then the segment
\* is stored in the row of the oldest one.
Work ==
  /\ tpc = "work"
  /\ tempX' = [c \in Classes |-> interleaveData[Row(interleaverIndex + interleaveMap[c])]]
  /\ interleaveData' = [interleaveData EXCEPT ![interleaverIndex] = theData[nextOut]]
  /\ interleaverIndex' = Step(interleaverIndex, Depth)
  /\ tpc' = "free"
  /\ UNCHANGED <<theData, freeSlots, usedSlots, inVars, running, nextOut, taken,
                 countforInterleaver, locker, gui>>

\* (fault) the slot is not given back.
FreeSlotKept ==
  /\ tpc = "free"
  /\ nextOut' = Step(nextOut, NumberSlots)
  /\ taken' = taken + 1
  /\ tpc' = Loop
  /\ UNCHANGED <<theData, freeSlots, usedSlots, inVars, running, interleaveData,
                 interleaverIndex, countforInterleaver, tempX, locker, gui>>

\* (fault) the de-interleaver counts as filled one segment early.
FreeSlotEarly ==
  /\ tpc = "free"
  /\ nextOut' = Step(nextOut, NumberSlots)
  /\ freeSlots' = freeSlots + 1
  /\ taken' = taken + 1
  /\ countforInterleaver' = IF countforInterleaver < Depth THEN countforInterleaver + 1 ELSE Depth
  /\ tpc' = IF countforInterleaver < Depth - 1 THEN Loop ELSE "decode"
  /\ UNCHANGED <<theData, usedSlots, inVars, running, interleaveData,
                 interleaverIndex, tempX, locker, gui>>

\* The slot is given back; decoding starts once the de-interleaver is filled.
FreeSlot ==
  /\ tpc = "free"
  /\ nextOut' = Step(nextOut, NumberSlots)
  /\ freeSlots' = freeSlots + 1
  /\ taken' = taken + 1
  /\ IF countforInterleaver <= Depth - 1
     THEN /\ countforInterleaver' = countforInterleaver + 1
          /\ tpc' = Loop
     ELSE /\ UNCHANGED countforInterleaver
          /\ tpc' = "decode"
  /\ UNCHANGED <<theData, usedSlots, inVars, running, interleaveData,
                 interleaverIndex, tempX, locker, gui>>

\* deconvolve, dispersal and addtoFrame.
Decode ==
  /\ tpc = "decode"
  /\ tpc' = Loop
  /\ UNCHANGED <<theData, freeSlots, usedSlots, inVars, running, nextOut, taken,
                 diVars, locker, gui>>

\* (fault) the thread waits for a segment without a time limit.
TimeOutServed ==
  /\ tpc = "wait" /\ usedSlots > 0
  /\ tpc' = "timeout"
  /\ UNCHANGED <<theData, freeSlots, usedSlots, inVars, running, nextOut, taken,
                 diVars, locker, gui>>

\* tryAcquire times out: there is no segment ...
TimeOut ==
  /\ tpc = "wait" /\ usedSlots = 0
  /\ tpc' = "timeout"
  /\ UNCHANGED <<theData, freeSlots, usedSlots, inVars, running, nextOut, taken,
                 diVars, locker, gui>>

\* ... and the thread looks whether it is to stop.
Leave ==
  /\ tpc = "timeout"
  /\ tpc' = Loop
  /\ UNCHANGED <<theData, freeSlots, usedSlots, inVars, running, nextOut, taken,
                 diVars, locker, gui>>

-----------------------------------------------------------------------------
(* The GUI thread: stop_service with stopRunning () and delete.            *)

StopRunning ==
  /\ gui = "none" /\ locker = "free"
  /\ locker' = "gui"
  /\ running' = FALSE
  /\ gui' = "stopping"
  /\ UNCHANGED <<theData, freeSlots, usedSlots, inVars, outVars>>

\* (fault) the object is deleted without waiting for its thread.
DeleteAtOnce ==
  /\ gui = "stopping"
  /\ gui' = "deleted" /\ locker' = "free"
  /\ UNCHANGED <<theData, freeSlots, usedSlots, inVars, running, outVars>>

Delete ==
  /\ gui = "stopping" /\ tpc = "done"
  /\ gui' = "deleted"
  /\ locker' = "free"
  /\ UNCHANGED <<theData, freeSlots, usedSlots, inVars, running, outVars>>

-----------------------------------------------------------------------------
Init ==
  /\ theData = [s \in Slots |-> 0]
  /\ freeSlots = NumberSlots /\ usedSlots = 0
  /\ nextIn = 0 /\ nextOut = 0 /\ sent = 0 /\ taken = 0
  /\ ipc = "idle" /\ tpc = "wait" /\ running = TRUE
  /\ interleaveData = [r \in Rows |-> 0]
  /\ interleaverIndex = 0 /\ countforInterleaver = 0
  /\ tempX = [c \in Classes |-> 0]
  /\ locker = "free" /\ gui = "none"

Ofdm   == AcquireFree \/ Copy \/ ReleaseUsed
Thread == AcquireUsed \/ Work \/ FreeSlot \/ Decode \/ TimeOut \/ Leave
Next   == Process \/ Ofdm \/ Thread \/ StopRunning \/ Delete

\* The threads are scheduled; neither the transmitter nor the user has to do
\* anything.
Spec == Init /\ [][Next]_vars /\ WF_vars(Ofdm) /\ WF_vars(Thread) /\ WF_vars(Delete)

-----------------------------------------------------------------------------
(* Properties.                                                             *)

TypeOK ==
  /\ theData \in [Slots -> Nat]
  /\ freeSlots \in 0 .. NumberSlots /\ usedSlots \in 0 .. NumberSlots
  /\ nextIn \in Slots /\ nextOut \in Slots
  /\ sent \in Nat /\ taken \in Nat
  /\ ipc \in {"idle", "wait", "copy", "release"}
  /\ tpc \in {"wait", "timeout", "work", "free", "decode", "done"}
  /\ running \in BOOLEAN
  /\ interleaveData \in [Rows -> Nat]
  /\ interleaverIndex \in Rows /\ countforInterleaver \in 0 .. Depth
  /\ tempX \in [Classes -> Nat]
  /\ locker \in {"free", "ofdm", "gui"}
  /\ gui \in {"none", "stopping", "deleted"}

\* What goes to the decoder is one whole frame of the transmitter: every
\* class of bits is as old as the transmitter delayed it, and no class comes
\* from before the first segment.
WholeFrame ==
  tpc = "decode" =>
    \A c \in Classes : /\ tempX[c] = (taken - Depth) + interleaveMap[c]
                       /\ tempX[c] > 0

\* A deleted backend has no thread any more, and none is deleted while the
\* OFDM thread is in its process ().
DeletedIsQuiet == gui = "deleted" => tpc = "done" /\ ipc = "idle"

\* The segments in the slots, oldest first; the one the thread works on
\* counts until its slot is given back.
Held == sent - taken - (IF ipc = "release" THEN 1 ELSE 0)
SlotAt(k) == IF nextOut + k >= NumberSlots THEN nextOut + k - NumberSlots ELSE nextOut + k
Waiting == [k \in 1 .. Held |-> theData[SlotAt(k - 1)]]

\* The slots implement the bounded queue.
Abstract == INSTANCE Channel
              WITH Capacity <- NumberSlots, queue <- Waiting,
                   taken <- IF taken = 0 THEN <<>> ELSE <<taken>>
IsChannel == Abstract!Spec

\* The OFDM thread does not stay in process (), so that reception and the
\* lock do not hang on a backend.
ProcessReturns == ipc # "idle" ~> ipc = "idle"

\* Stopping a service ends: stopRunning () waits for the thread with the lock
\* held, and the thread leaves its loop.
StopEnds == gui = "stopping" ~> gui = "deleted"
=============================================================================
