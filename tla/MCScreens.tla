------------------------------ MODULE MCScreens ------------------------------
(***************************************************************************)
(* Small instances of Screens for TLC, with the heads of MCOutputs.        *)
(***************************************************************************)
EXTENDS Screens, MCOutputs

=============================================================================
