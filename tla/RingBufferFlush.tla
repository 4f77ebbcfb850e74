--------------------------- MODULE RingBufferFlush ---------------------------
(***************************************************************************)
(* FlushRingBuffer of src/code/support/ringbuffer.h as the spectrum viewer *)
(* uses it (src/code/viewers/spectrum-viewer/spectrum-viewer.cpp): the     *)
(* reader sets both indices to zero while the writer goes on.              *)
(***************************************************************************)
EXTENDS RingBuffer

\* Two stores, one after the other.
FlushWriteIndex ==
  /\ rpc = "idle"
  /\ writeIndex' = 0
  /\ rpc' = "flush"
  /\ UNCHANGED <<rn, batch, taken, readIndex, wpc, wn, wtmp, count, buffer>>

FlushReadIndex ==
  /\ rpc = "flush"
  /\ readIndex' = 0
  /\ rpc' = "idle"
  /\ UNCHANGED <<rn, batch, taken, wVars>>

FlushNext == Next \/ FlushWriteIndex \/ FlushReadIndex
FlushSpec == Init /\ [][FlushNext]_vars

\* "a simple ringbuffer, lockfree, however only for a single reader and a
\* single writer": with one of each, and no flush in hand, the buffer never
\* holds more elements than it has room for.
AvailableBetweenFlushes == rpc = "idle" => ReadAvailable <= N
=============================================================================
