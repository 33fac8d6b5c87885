------------------------------ MODULE MCBytes ------------------------------
(* TLC instance of ByteArray in which a string may be empty. *)
EXTENDS ByteArray

Spec == BaInit /\ [][BaNext]_baVars
=============================================================================
