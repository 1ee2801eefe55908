----------------------------- MODULE MCTransfer -----------------------------
(* Instances of Transfer for TLC.                                          *)
EXTENDS Transfer
=============================================================================
