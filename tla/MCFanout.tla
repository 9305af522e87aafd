------------------------------ MODULE MCFanout ------------------------------
(* Instances of Fanout for TLC. *)
EXTENDS FanoutPromise, TLC

CONSTANTS r1, r2, c1, c2

(* Output that repaints one row and renames, output that repaints another  *)
(* and moves the cursor, output that rings the bell                         *)
Prompt == [rows |-> {r1}, meta |-> FALSE, title |-> TRUE,  bell |-> FALSE]
Cell   == [rows |-> {r2}, meta |-> TRUE,  title |-> FALSE, bell |-> FALSE]
Alarm  == [rows |-> {r1}, meta |-> FALSE, title |-> FALSE, bell |-> TRUE]

ContentChunks == {Prompt, Cell}
OneChunk      == {Prompt}
AlarmChunk    == {Alarm}

(* A behaviour has either its calls ahead of it and no time, or time and    *)
(* one call: a client that falls silent is dropped                          *)
MCInit ==
  /\ (now = MaxTicks /\ calls = 0) \/ (now = 0 /\ calls = MaxCalls - 1)
  /\ Fresh
MCSpec == MCInit /\ [][Next]_vars /\ Fairness
=============================================================================
