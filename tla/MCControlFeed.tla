--------------------------- MODULE MCControlFeed ---------------------------
(* Instances of ControlFeed for TLC. *)
EXTENDS ControlFeed
CONSTANT c1
=============================================================================
