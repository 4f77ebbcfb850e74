------------------------------ MODULE MCBackend ------------------------------
(* Four rows with the bit-reversed delays of the standard, three slots.    *)
EXTENDS Backend, TLC

MCMap == (0 :> 0 @@ 1 :> 2 @@ 2 :> 1 @@ 3 :> 3)
=============================================================================
