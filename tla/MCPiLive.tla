------------------------------ MODULE MCPiLive ------------------------------
(* Small instances of PiLive. *)
EXTENDS PiLive, TLC

CONSTANTS a, b, p1

=============================================================================
