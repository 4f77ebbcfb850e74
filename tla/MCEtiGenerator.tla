--------------------------- MODULE MCEtiGenerator ---------------------------
(* An interleaver of four classes over four CIFs. *)
EXTENDS EtiGenerator

Map4 == [c \in 0..3 |-> CASE c = 0 -> 0 [] c = 1 -> 2 [] c = 2 -> 1 [] c = 3 -> 3]
=============================================================================
