------------------------------ MODULE MCReadApi ------------------------------
(* ReadApi for TLC.                                                         *)
EXTENDS ReadApi
=============================================================================
