----------------------------- MODULE SlowClient -----------------------------
(***************************************************************************)
(* The clock of a slow client (st-core/src/publisher.rs: ack, flush).      *)
(* Fanout with a history clock per client that the code does not keep:     *)
(* what its rule promises is about it, what it stores is stalled_since.    *)
(***************************************************************************)
EXTENDS Fanout

VARIABLE staleSince  (* when the oldest change not yet in a frame was fed, or NoStall *)

slowVars == <<vars, staleSince>>

(* A change waits to be put in a frame *)
Stale(c) == c \in attached /\ subs[c].dirty # {} /\ ~subs[c].snap

SlowInit ==
  /\ Init
  /\ staleSince = [c \in Clients |-> NoStall]

SlowNext ==
  /\ Next
  /\ staleSince' = [c \in Clients |->
       IF ~Stale(c)' THEN NoStall ELSE IF Stale(c) THEN staleSince[c] ELSE now]

SlowSpec == SlowInit /\ [][SlowNext]_slowVars

(* A change never waits longer than slow_client_snapshot_secs to be put in  *)
(* a frame, however the client paces its Acks: an Ack that does not reopen  *)
(* the window does not restart the stall clock.  Only the exit event, which *)
(* closes a window an Ack has just reopened, restarts it, and only once     *)
(* (Publisher::ack, flush, note_event_sent).                                *)
NeverStarved ==
  \A c \in Clients :
    staleSince[c] # NoStall =>
      now <= staleSince[c] + (IF exited THEN 2 * SlowAfter ELSE SlowAfter)
=============================================================================
