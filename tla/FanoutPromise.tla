--------------------------- MODULE FanoutPromise ---------------------------
(* The data plane as an implementation of what it promises.                *)
EXTENDS Fanout

(* What the data plane promises: a client's screen is the view of its       *)
(* Replica, and it knows of the exit when its Replica does                 *)
Promise == INSTANCE Mirror WITH
  Project <- Stripped,
  ended   <- exited,
  screen  <- [c \in Clients |-> replica[c].view],
  version <- [c \in Clients |-> shown[c].version],
  told    <- [c \in Clients |-> replica[c].exited]

(* Every step of the data plane is a step of the promise, or none          *)
KeepsPromise == Promise!Spec
=============================================================================
