------------------------------- MODULE Channel -------------------------------
(***************************************************************************)
(* What the buffers between two threads of Qt-DAB promise: a bounded first *)
(* in, first out queue with one producer and one consumer.  The ring       *)
(* buffers of support/ringbuffer.h and the slots of a threaded Backend are *)
(* refinements of it.                                                      *)
(***************************************************************************)
EXTENDS Naturals, Sequences

CONSTANT Capacity  \* the most elements held

VARIABLES queue,   \* written and not yet read
          taken    \* the last batch of elements read

chanVars == <<queue, taken>>

Init == queue = <<>> /\ taken = <<>>

\* A batch is appended as a whole, if there is room for it.
Put == /\ Len(queue) < Len(queue') /\ Len(queue') <= Capacity
       /\ SubSeq(queue', 1, Len(queue)) = queue
       /\ UNCHANGED taken

\* The n oldest elements are taken out.
Get(n) == /\ n <= Len(queue)
          /\ taken' = SubSeq(queue, 1, n)
          /\ queue' = SubSeq(queue, n + 1, Len(queue))

\* The n oldest elements are thrown away.
Skip(n) == /\ n <= Len(queue)
           /\ queue' = SubSeq(queue, n + 1, Len(queue))
           /\ UNCHANGED taken

Next == Put \/ \E n \in 0 .. Capacity : Get(n) \/ Skip(n)

Spec == Init /\ [][Next]_chanVars
=============================================================================
