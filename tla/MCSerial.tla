------------------------------ MODULE MCSerial ------------------------------
(* TLC instances of Serial. *)
EXTENDS Serial
=============================================================================
