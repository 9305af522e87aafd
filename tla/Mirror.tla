------------------------------- MODULE Mirror -------------------------------
(***************************************************************************)
(* What the data plane of one Surface promises, with no frames, sequence   *)
(* numbers or connections: a screen only ever shows a whole state the      *)
(* engine was in, in the mode the client asked for, never an older one     *)
(* than it showed before, and learns of the exit only once it happened.    *)
(***************************************************************************)
EXTENDS Naturals, Sequences

CONSTANTS Clients, Modes,
          Project(_, _)  (* what a mode shows of an engine state *)

VARIABLES
  log,      (* every state the engine has been in            *)
  ended,    (* the child has exited                          *)
  screen,   (* what each client shows                        *)
  version,  (* which engine state that is                    *)
  told      (* each client knows of the exit                 *)

vars == <<log, ended, screen, version, told>>

Init ==
  /\ Len(log) = 1
  /\ ended = FALSE
  /\ \E m \in Modes : screen = [c \in Clients |-> Project(log[1], m)]
  /\ version = [c \in Clients |-> 1]
  /\ told = [c \in Clients |-> FALSE]

(* The program writes *)
Write ==
  /\ Len(log') = Len(log) + 1
  /\ SubSeq(log', 1, Len(log)) = log
  /\ UNCHANGED <<ended, screen, version, told>>

(* The child exits *)
End ==
  /\ ~ended
  /\ ended' = TRUE
  /\ UNCHANGED <<log, screen, version, told>>

(* A client catches up, as far as some later state *)
Show(c) ==
  /\ \E v \in version[c]..Len(log), m \in Modes :
       /\ version' = [version EXCEPT ![c] = v]
       /\ screen' = [screen EXCEPT ![c] = Project(log[v], m)]
  /\ \E knows \in {told[c], ended} : told' = [told EXCEPT ![c] = @ \/ knows]
  /\ UNCHANGED <<log, ended>>

(* A client is told of the exit *)
Tell(c) ==
  /\ ended
  /\ told' = [told EXCEPT ![c] = TRUE]
  /\ UNCHANGED <<log, ended, screen, version>>

Next == Write \/ End \/ \E c \in Clients : Show(c) \/ Tell(c)

Spec == Init /\ [][Next]_vars
=============================================================================
