---------------------------- MODULE MCSlowClient ----------------------------
(* Instances of SlowClient for TLC. *)
EXTENDS SlowClient

CONSTANTS r1, r2, c1

(* Output that repaints one row and renames, and output that repaints       *)
(* another and moves the cursor                                             *)
Prompt == [rows |-> {r1}, meta |-> FALSE, title |-> TRUE,  bell |-> FALSE]
Cell   == [rows |-> {r2}, meta |-> TRUE,  title |-> FALSE, bell |-> FALSE]

ContentChunks == {Prompt, Cell}
=============================================================================
