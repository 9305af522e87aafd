-------------------------------- MODULE Host --------------------------------
(***************************************************************************)
(* The Surfaces a daemon hosts and their processes: starting them, knowing *)
(* of their end, killing them, and the end of the daemon                   *)
(* (st-server/src/supervisor.rs, data/pump.rs, workspace/actor.rs,         *)
(* st-core/src/pty.rs, surface.rs).                                        *)
(*                                                                         *)
(* The actor, the pump and the feed tasks run on threads of their own.     *)
(* What clients are sent is in module Fanout, the bytes of a terminal in   *)
(* PtyPipe, the document in Workspace.                                     *)
(***************************************************************************)
EXTENDS Naturals, Sequences, FiniteSets

CONSTANTS
  MaxHosted, (* bound: Surface ids                                          *)
  Tempers    (* what a child may be: "plain", "stubborn" (ignores SIGHUP),  *)
             (* "parent" (leaves a process that has the terminal open)      *)

VARIABLES
  child,   (* per Surface: its process, "none" before it starts               *)
  temper,  (* what sort of child it is                                        *)
  tail,    (* Surfaces whose terminal a process in the background has open    *)
  registry,(* the Surfaces the supervisor knows                               *)
  fresh,   (* next_surface                                                    *)
  slot,    (* per Surface: SurfaceStatus, exit_hint, exit_reported, and       *)
           (* whether the feed task has the slot                              *)
  pump,    (* the Surfaces the pass of the pump has still to visit, and       *)
           (* whether it is the slow one                                      *)
  upcalls, (* exits on their way to the actor                                 *)
  known,   (* per Surface: what the Workspace document says                   *)
  parting, (* the Surface the actor has signalled and is about to forget      *)
  phase,   (* of the daemon                                                   *)
  doomed   (* the Surfaces shutdown saw                                       *)

hostVars == <<child, temper, tail, registry, fresh, slot, pump, upcalls, known, parting, phase, doomed>>

Ids == 1..MaxHosted
None == 0
Living == {"running", "signalled"}

Init ==
  /\ child = [s \in Ids |-> "none"] /\ temper = [s \in Ids |-> "plain"] /\ tail = {}
  /\ registry = {} /\ fresh = 1
  /\ slot = [s \in Ids |-> [status |-> "running", hint |-> FALSE, reported |-> FALSE, fed |-> FALSE]]
  /\ pump = [todo |-> {}, slow |-> FALSE]
  /\ upcalls = <<>> /\ known = [s \in Ids |-> "absent"] /\ parting = None
  /\ phase = "seeding" /\ doomed = {}
-----------------------------------------------------------------------------
(* Processes and signals *)

(* killpg(SIGHUP): the group is the child and what it has in the background *)
HungUp(p, s) == IF p[s] = "running" /\ temper[s] # "stubborn" THEN [p EXCEPT ![s] = "signalled"] ELSE p
Slain(p, s) == IF p[s] \in Living THEN [p EXCEPT ![s] = "zombie"] ELSE p

Exits == \E s \in Ids :
  /\ child[s] \in Living
  /\ child' = [child EXCEPT ![s] = "zombie"]
  /\ tail' = IF temper[s] = "parent" /\ child[s] = "running" THEN tail \cup {s} ELSE tail
  /\ UNCHANGED <<temper, registry, fresh, slot, pump, upcalls, known, parting, phase, doomed>>

TailEnds == \E s \in tail :
  /\ tail' = tail \ {s}
  /\ UNCHANGED <<child, temper, registry, fresh, slot, pump, upcalls, known, parting, phase, doomed>>

(* feed_loop ends at the end of the terminal and lets go of the slot *)
FeedEnds == \E s \in Ids :
  /\ slot[s].fed /\ child[s] \notin Living /\ s \notin tail
  /\ slot' = [slot EXCEPT ![s].hint = TRUE, ![s].fed = FALSE]
  /\ UNCHANGED <<child, temper, tail, registry, fresh, pump, upcalls, known, parting, phase, doomed>>
-----------------------------------------------------------------------------
(* The actor: spawn, kill_surface, surface.kill, and exits it hears of.     *)
(* Until the notifier is attached they wait                                *)
Acting == phase \in {"seeding", "serving"} /\ parting = None

Spawn ==
  /\ Acting /\ fresh <= MaxHosted
  /\ fresh' = fresh + 1
  /\ \/ /\ child' = [child EXCEPT ![fresh] = "running"]
        /\ \E t \in Tempers : temper' = [temper EXCEPT ![fresh] = t]
        /\ slot' = [slot EXCEPT ![fresh].fed = TRUE]
        /\ registry' = registry \cup {fresh}
        /\ known' = [known EXCEPT ![fresh] = "running"]
     \/ UNCHANGED <<child, temper, slot, registry, known>>      (* it does not start *)
  /\ UNCHANGED <<tail, pump, upcalls, parting, phase, doomed>>

(* SurfaceSupervisor::kill, by the status the Surface has been seen with *)
Signalled(s, signal) ==
  IF s \notin registry \/ slot[s].status = "exited" THEN UNCHANGED <<child, tail>>
  ELSE /\ child' = IF signal = "hup" THEN HungUp(child, s) ELSE Slain(child, s)
       /\ tail' = tail \ {s}

Kill == \E s \in Ids, signal \in {"hup", "kill"} :
  /\ Acting /\ known[s] \in {"running", "exited"}
  /\ Signalled(s, signal)
  /\ UNCHANGED <<temper, registry, fresh, slot, pump, upcalls, known, parting, phase, doomed>>

(* kill_surface: SIGHUP, then out of the registry, the two under locks of   *)
(* their own                                                               *)
Close == \E s \in Ids :
  /\ Acting /\ known[s] \in {"running", "exited"}
  /\ Signalled(s, "hup")
  /\ parting' = s /\ known' = [known EXCEPT ![s] = "closed"]
  /\ UNCHANGED <<temper, registry, fresh, slot, pump, upcalls, phase, doomed>>

Destroy ==
  /\ parting # None /\ parting' = None
  /\ registry' = registry \ {parting}
  /\ UNCHANGED <<child, temper, tail, fresh, slot, pump, upcalls, known, phase, doomed>>

Hear ==
  /\ upcalls # <<>> /\ phase = "serving" /\ parting = None
  /\ upcalls' = Tail(upcalls)
  /\ known' = IF known[Head(upcalls)] = "running" THEN [known EXCEPT ![Head(upcalls)] = "exited"] ELSE known
  /\ UNCHANGED <<child, temper, tail, registry, fresh, slot, pump, parting, phase, doomed>>
-----------------------------------------------------------------------------
(* The pump: a pass over the Surfaces there are when it begins, every       *)
(* second one of them the slow one                                         *)
Begin ==
  /\ phase # "gone" /\ pump.todo = {}
  /\ pump' = [todo |-> registry, slow |-> ~pump.slow]
  /\ UNCHANGED <<child, temper, tail, registry, fresh, slot, upcalls, known, parting, phase, doomed>>

Reap(s) == ~slot[s].reported /\ (pump.slow \/ slot[s].hint)

(* Polled: the Surface has learnt of the end of its child *)
Polls(s) == child[s] = "zombie" /\ slot[s].status = "running"

Visit == \E s \in pump.todo :
  /\ pump' = [pump EXCEPT !.todo = @ \ {s}]
  /\ \A t \in pump.todo : s <= t
  /\ IF Reap(s) /\ Polls(s)
     THEN /\ child' = [child EXCEPT ![s] = "reaped"]
          /\ slot' = [slot EXCEPT ![s].status = "exited", ![s].reported = TRUE]
          /\ upcalls' = Append(upcalls, s)
     ELSE UNCHANGED <<child, slot, upcalls>>
  /\ UNCHANGED <<temper, tail, registry, fresh, known, parting, phase, doomed>>
-----------------------------------------------------------------------------
(* The notifier is attached *)
Serve ==
  /\ phase = "seeding" /\ phase' = "serving"
  /\ UNCHANGED <<child, temper, tail, registry, fresh, slot, pump, upcalls, known, parting, doomed>>

(* shutdown, when the actor has stopped: SIGHUP to all, a grace, SIGKILL *)
HangUp ==
  /\ phase = "serving" /\ parting = None
  /\ phase' = "grace" /\ doomed' = registry
  /\ child' = [s \in Ids |-> IF s \in registry THEN HungUp(child, s)[s] ELSE child[s]]
  /\ tail' = tail \ registry
  /\ UNCHANGED <<temper, registry, fresh, slot, pump, upcalls, known, parting>>

PollExit == \E s \in doomed :
  /\ phase = "grace" /\ Polls(s)
  /\ child' = [child EXCEPT ![s] = "reaped"] /\ slot' = [slot EXCEPT ![s].status = "exited"]
  /\ UNCHANGED <<temper, tail, registry, fresh, pump, upcalls, known, parting, phase, doomed>>

Deadline_Hinted ==
  /\ phase = "grace" /\ phase' = "gone"
  /\ child' = [s \in Ids |-> IF s \in doomed /\ slot[s].hint THEN Slain(child, s)[s] ELSE child[s]]
  /\ UNCHANGED <<temper, tail, registry, fresh, slot, pump, upcalls, known, parting, doomed>>

(* All seen to end, or kill_grace is over; then the process exits *)
Deadline ==
  /\ phase = "grace" /\ phase' = "gone"
  /\ child' = [s \in Ids |-> IF s \in doomed /\ slot[s].status = "running" THEN Slain(child, s)[s] ELSE child[s]]
  /\ UNCHANGED <<temper, tail, registry, fresh, slot, pump, upcalls, known, parting, doomed>>

Dying == \E s \in Ids : child[s] = "signalled" /\ Exits
Pump == Begin \/ Visit
Actor == Destroy \/ Hear
Next ==
  \/ Exits \/ TailEnds \/ FeedEnds \/ Spawn \/ Kill \/ Close \/ Destroy \/ Hear \/ Begin \/ Visit
  \/ Serve \/ HangUp \/ PollExit \/ Deadline
-----------------------------------------------------------------------------
HostTypes ==
  /\ registry \subseteq 1..fresh - 1 /\ pump.todo \subseteq Ids
  /\ \A s \in Ids : child[s] = "reaped" <=> slot[s].status = "exited"
  /\ \A s \in Ids : s >= fresh => child[s] = "none" /\ known[s] = "absent"

(* Every end of a process the supervisor hosts gets into the document,      *)
(* whether its terminal closes with it or not, and whether it ends before   *)
(* the actor listens (reap, feed_loop, DeferredNotifier)                    *)
ExitsKnown ==
  phase \in {"seeding", "serving"} =>
    \A s \in registry : child[s] \in {"zombie", "reaped"} => known[s] # "running"

(* No child of a Surface that was open outlives the daemon (shutdown:       *)
(* "SIGKILL survivors", docs/plan/03-server.md, section 2)                  *)
NoneSurvives == phase = "gone" => \A s \in doomed : child[s] \notin Living

(* Closing a Pane ends its process and lets the process, the engine and the *)
(* terminal go: SIGHUP, a grace, SIGKILL, "then drop the master"            *)
(* (docs/plan/03-server.md, section 9; kill_surface)                        *)
Released == \A s \in Ids : known[s] = "closed" => child[s] = "reaped" /\ ~slot[s].fed
=============================================================================
