--------------------------- MODULE MCBridgeRequests ---------------------------
(***************************************************************************)
(* Small instances of BridgeRequests for TLC.                              *)
(***************************************************************************)
EXTENDS BridgeRequests, TLC

CONSTANTS c1, c2, r1, r2

=============================================================================
