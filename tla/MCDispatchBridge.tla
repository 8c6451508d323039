--------------------------- MODULE MCDispatchBridge ---------------------------
(***************************************************************************)
(* Small instances of DispatchBridge for TLC.                              *)
(***************************************************************************)
EXTENDS DispatchBridge

CONSTANTS m1, m2

\* The messages are interchangeable where all are of one kind.
MsgSymmetry == Permutations(Msg)

=============================================================================
