------------------------------- MODULE MCDram -------------------------------
(***************************************************************************)
(* Instances of Dram for TLC.                                              *)
(***************************************************************************)
EXTENDS Dram

=============================================================================
