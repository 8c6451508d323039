---------------------------- MODULE MCDispatchQueue ----------------------------
(***************************************************************************)
(* Small instances of DispatchQueue for TLC.                               *)
(***************************************************************************)
EXTENDS DispatchQueue

CONSTANTS m1, m2

=============================================================================
