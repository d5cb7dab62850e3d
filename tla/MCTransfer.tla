----------------------------- MODULE MCTransfer -----------------------------
(* Instances of Transfer for TLC.                                          *)
EXTENDS Transfer
CONSTANTS s1, s2
=============================================================================
