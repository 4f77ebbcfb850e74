----------------------------- MODULE RingBuffer -----------------------------
(***************************************************************************)
(* The lock-free ring buffer src/code/support/ringbuffer.h, through which  *)
(* samples, audio and diagnostic data pass from one thread to another.     *)
(*                                                                         *)
(* The indices run over twice the size of the buffer, so that a full and   *)
(* an empty buffer differ.  The size is a power of two in the code and the *)
(* masks are remainders; an index is advanced by at most the size, which   *)
(* makes the remainder one conditional subtraction.                        *)
(***************************************************************************)
EXTENDS Integers, Sequences

CONSTANTS N,        \* bufferSize
          MaxBatch, \* the most elements one call asks for
          MaxItems  \* bound on the elements written in a run

ASSUME SizeAssumption == N \in Nat \ {0}
ASSUME BatchAssumption == MaxBatch \in Nat \ {0} /\ MaxItems \in Nat

VARIABLES
  writeIndex, readIndex,
  buffer,       \* [cell] : number of the element it holds
  count,        \* number of elements written so far
  wpc, wn, wtmp,   \* the writer: where it is, elements in hand, loaded index
  rpc, rn, batch,  \* the reader: where it is, elements in hand, copied
  taken         \* what the last getDataFromBuffer returned

wVars == <<wpc, wn, wtmp, count, buffer, writeIndex>>
rVars == <<rpc, rn, batch, taken, readIndex>>
vars  == <<wVars, rVars>>

Cells == 0 .. N - 1
Indices == 0 .. 2 * N - 1

Small(i) == IF i >= N THEN i - N ELSE i           \* i & smallMask, i < 2 N

Big(i)   == IF i >= 2 * N THEN i - 2 * N ELSE i   \* i & bigMask,   i < 4 N

\* GetRingBufferReadAvailable: (writeIndex - readIndex) & bigMask.
ReadAvailable  == IF writeIndex >= readIndex THEN writeIndex - readIndex
                  ELSE writeIndex - readIndex + 2 * N
WriteAvailable == N - ReadAvailable

Least(a, b) == IF a < b THEN a ELSE b

\* (fault) one element too many is allowed for.
WriteCountPlusOne(n) == IF WriteAvailable < 0 THEN n ELSE Least(n, WriteAvailable + 1)

\* The numbers of elements the regions are made for.  elementCount and
\* available are unsigned: a negative WriteAvailable limits nothing.
WriteCount(n) == IF WriteAvailable < 0 THEN n ELSE Least(n, WriteAvailable)
ReadCount(n)  == Least(n, ReadAvailable)

\* The cells of a region of n elements from an index: one or two blocks.
Region(index, n) == {Small(Small(index) + k) : k \in 0 .. Least(n, N) - 1}

-----------------------------------------------------------------------------
(* putDataIntoBuffer: regions, copy, barrier, advance.                     *)

\* (fault) the index is advanced before the elements are copied.
WriteBeginAdvanced(n) ==
  /\ wpc = "idle" /\ count + n <= MaxItems
  /\ wn' = WriteCount(n)
  /\ writeIndex' = Big(writeIndex + wn')
  /\ wpc' = "copy"
  /\ UNCHANGED <<wtmp, count, buffer, rVars>>

WriteBegin(n) ==
  /\ wpc = "idle" /\ count + n <= MaxItems
  /\ wn' = WriteCount(n)
  /\ wpc' = "copy"
  /\ UNCHANGED <<wtmp, count, buffer, writeIndex, rVars>>

WriteCopy ==
  /\ wpc = "copy"
  /\ buffer' = [c \in Cells |->
       IF \E k \in 0 .. wn - 1 : c = Small(Small(writeIndex) + k)
       THEN count + 1 + CHOOSE k \in 0 .. wn - 1 : c = Small(Small(writeIndex) + k)
       ELSE buffer[c]]
  /\ wpc' = "load"
  /\ UNCHANGED <<wn, wtmp, count, writeIndex, rVars>>

\* AdvanceRingBufferWriteIndex loads the index and stores it.
WriteLoad ==
  /\ wpc = "load"
  /\ wtmp' = writeIndex
  /\ wpc' = "store"
  /\ UNCHANGED <<wn, count, buffer, writeIndex, rVars>>
WriteStore ==
  /\ wpc = "store"
  /\ writeIndex' = Big(wtmp + wn)
  /\ count' = count + wn
  /\ wpc' = "idle" /\ wn' = 0 /\ wtmp' = 0
  /\ UNCHANGED <<buffer, rVars>>

-----------------------------------------------------------------------------
(* getDataFromBuffer: regions, copy, barrier, advance.                     *)

\* (fault) the cells are given back before they are read.
ReadBeginAdvanced(n) ==
  /\ rpc = "idle"
  /\ rn' = ReadCount(n)
  /\ readIndex' = Big(readIndex + rn')
  /\ rpc' = "copy"
  /\ UNCHANGED <<batch, taken, wVars>>

ReadBegin(n) ==
  /\ rpc = "idle"
  /\ rn' = ReadCount(n)
  /\ rpc' = "copy"
  /\ UNCHANGED <<batch, taken, readIndex, wVars>>

ReadCopy ==
  /\ rpc = "copy"
  /\ batch' = [k \in 1 .. rn |-> buffer[Small(Small(Small(readIndex) + k - 1))]]
  /\ rpc' = "advance"
  /\ UNCHANGED <<rn, taken, readIndex, wVars>>

ReadAdvance ==
  /\ rpc = "advance"
  /\ readIndex' = Big(readIndex + rn)
  /\ taken' = batch
  /\ rpc' = "idle" /\ rn' = 0 /\ batch' = <<>>
  /\ UNCHANGED wVars

\* skipDataInBuffer: the index is advanced and nothing is copied.
Skip(n) ==
  /\ rpc = "idle" /\ n <= ReadAvailable
  /\ readIndex' = Big(readIndex + n)
  /\ UNCHANGED <<rpc, rn, batch, taken, wVars>>

\* With fewer elements than that it looks once more how many there are, and
\* skips those, which may by now be more than were asked for.
SkipShort(n) ==
  /\ rpc = "idle" /\ n > ReadAvailable
  /\ rpc' = "skip"
  /\ UNCHANGED <<rn, batch, taken, readIndex, wVars>>

SkipRest ==
  /\ rpc = "skip"
  /\ readIndex' = Big(readIndex + ReadAvailable)
  /\ rpc' = "idle"
  /\ UNCHANGED <<rn, batch, taken, wVars>>

-----------------------------------------------------------------------------
Init ==
  /\ writeIndex = 0 /\ readIndex = 0 /\ count = 0
  /\ buffer = [c \in Cells |-> 0]
  /\ wpc = "idle" /\ wn = 0 /\ wtmp = 0
  /\ rpc = "idle" /\ rn = 0 /\ batch = <<>>
  /\ taken = <<>>

Writer == (\E n \in 1 .. MaxBatch : WriteBegin(n)) \/ WriteCopy \/ WriteLoad \/ WriteStore
Reader == \/ \E n \in 1 .. MaxBatch : ReadBegin(n) \/ Skip(n) \/ SkipShort(n)
          \/ ReadCopy \/ ReadAdvance \/ SkipRest

Next == Writer \/ Reader
Spec == Init /\ [][Next]_vars

-----------------------------------------------------------------------------
(* Properties.                                                             *)

TypeOK ==
  /\ writeIndex \in Indices /\ readIndex \in Indices
  /\ count \in Nat
  /\ buffer \in [Cells -> Nat]
  /\ wpc \in {"idle", "copy", "load", "store"} /\ wn \in Nat /\ wtmp \in Indices
  /\ rpc \in {"idle", "copy", "advance", "skip"} /\ rn \in Nat
  /\ batch \in Seq(Nat) /\ taken \in Seq(Nat)

\* "lockfree, however only for a single reader and a single writer": with one
\* of each, the buffer never holds more elements than it has room for.
AvailableInRange == ReadAvailable <= N

\* The writer never fills a cell that the reader is copying from.
NoDataRace ==
  wpc = "copy" /\ rpc = "copy" => Region(writeIndex, wn) \cap Region(readIndex, rn) = {}

\* The elements in the buffer, oldest first.
Contents == [k \in 1 .. ReadAvailable |-> buffer[Small(Small(readIndex) + k - 1)]]

\* The ring buffer implements the bounded queue.
Abstract == INSTANCE Channel WITH Capacity <- N, queue <- Contents, taken <- taken
IsChannel == Abstract!Spec
=============================================================================
