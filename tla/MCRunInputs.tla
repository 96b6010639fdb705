---------------------------- MODULE MCRunInputs ----------------------------
(* Instances of RunInputs for TLC.                                          *)
EXTENDS RunInputs
=============================================================================
