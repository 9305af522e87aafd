----------------------------- MODULE Lifecycle -----------------------------
(***************************************************************************)
(* The life of the daemons that share one runtime directory                *)
(* (st-server/src/lifecycle.rs), the writer task of workspace.json         *)
(* (persist.rs), and the clients that start a daemon when none listens     *)
(* (packages/app/src/server/ensure.ts).  A document is the set of changes  *)
(* applied to it: all this module asks of one is which changes it holds.   *)
(* A Daemon is a process slot, used again once the process is gone.        *)
(***************************************************************************)
EXTENDS Naturals, Sequences, FiniteSets

CONSTANTS
  Daemon,      (* processes that may run at the same time                    *)
  Client,      (* windows of the app                                         *)
  None,        (* no daemon                                                  *)
  MaxChanges,  (* bound: requests that change the document                   *)
  MaxStops,    (* bound: shutdown triggers and crashes, together             *)
  Stopping,    (* the ways a daemon stops, of "trigger", "crash"             *)
  DiskFails    (* whether a write may fail                                   *)

ASSUME LifecycleAssumption ==
  /\ None \notin Daemon /\ "lost" \notin Daemon \cup {None}
  /\ MaxChanges \in Nat /\ MaxStops \in Nat /\ DiskFails \in BOOLEAN
  /\ Stopping \subseteq {"trigger", "crash"}

VARIABLES
  stage,     (* where each process is in start(), wait() and finish()        *)
  lock,      (* who holds the flock                                          *)
  path,      (* whose listener the socket file names                         *)
  doc,       (* the Workspace of each actor                                  *)
  acked,     (* the changes each process has answered "ok"                   *)
  cmds,      (* the actor's command queue                                    *)
  actor,     (* "running", "flushing" (awaits the writer), "stopped"         *)
  saves,     (* Save messages on their way to the writer                     *)
  pending,   (* the document waiting for the debounce, or <<>>               *)
  write,     (* the write under way, and how far it is                       *)
  tmp,       (* workspace.json.tmp                                           *)
  disk,      (* workspace.json                                               *)
  client,    (* what each window is connected to                             *)
  ensure,    (* its ensureServer call                                        *)
  changes,   (* changes requested so far                                     *)
  stops,     (* triggers and crashes so far                                  *)
  promised   (* the changes answered "ok" by daemons that stopped cleanly,
                their last write having succeeded                            *)

writerVars == <<saves, pending, write, tmp, disk>>
clientVars == <<client, ensure>>
vars == <<stage, lock, path, doc, acked, cmds, actor, writerVars, clientVars,
          changes, stops, promised>>

Changes == 1 .. MaxChanges
Document == SUBSET Changes
File == [changes : Document, whole : BOOLEAN]
Missing == [changes |-> {}, whole |-> TRUE]  \* a first run loads like an empty file
Torn == [changes |-> {}, whole |-> FALSE]    \* created, not all of it written
Stage == {"none", "starting", "locked", "bound", "serving", "triggered",
          "closed", "flushed", "unlinked", "leaving"}
Shutdown == 0                                \* the command, beside the changes
NoWrite == [step |-> "none", file |-> {}]
Failed == [step |-> "failed", file |-> {}]   \* none either: the last one ended in an error
Away == [daemon |-> None, accepted |-> FALSE]
NoCall == [state |-> "none", child |-> None]

Idle(d) == write[d].step \in {"none", "failed"}
Listening(d) == stage[d] \in {"bound", "serving", "triggered"}
Reachable == path # None /\ Listening(path)

Init ==
  /\ stage = [d \in Daemon |-> "none"] /\ lock = None /\ path = None
  /\ doc = [d \in Daemon |-> {}] /\ acked = [d \in Daemon |-> {}]
  /\ cmds = [d \in Daemon |-> <<>>] /\ actor = [d \in Daemon |-> "stopped"]
  /\ saves = [d \in Daemon |-> <<>>] /\ pending = [d \in Daemon |-> <<>>]
  /\ write = [d \in Daemon |-> NoWrite] /\ tmp = Torn /\ disk = Missing
  /\ client = [c \in Client |-> Away] /\ ensure = [c \in Client |-> NoCall]
  /\ changes = 0 /\ stops = 0 /\ promised = {}

-----------------------------------------------------------------------------
(* Starting: ServerBuilder::start *)

(* Mutant: the connections of a dead process stay marked as accepted *)
Gone_HalfClosed(d) ==
  /\ stage' = [stage EXCEPT ![d] = "none"]
  /\ doc' = [doc EXCEPT ![d] = {}] /\ acked' = [acked EXCEPT ![d] = {}]
  /\ cmds' = [cmds EXCEPT ![d] = <<>>] /\ actor' = [actor EXCEPT ![d] = "stopped"]
  /\ saves' = [saves EXCEPT ![d] = <<>>] /\ pending' = [pending EXCEPT ![d] = <<>>]
  /\ write' = [write EXCEPT ![d] = NoWrite]
  /\ client' = [c \in Client |-> IF client[c].daemon = d THEN [client[c] EXCEPT !.daemon = None] ELSE client[c]]

(* The process is gone: its connections close and its memory with it *)
Gone(d) ==
  /\ stage' = [stage EXCEPT ![d] = "none"]
  /\ doc' = [doc EXCEPT ![d] = {}] /\ acked' = [acked EXCEPT ![d] = {}]
  /\ cmds' = [cmds EXCEPT ![d] = <<>>] /\ actor' = [actor EXCEPT ![d] = "stopped"]
  /\ saves' = [saves EXCEPT ![d] = <<>>] /\ pending' = [pending EXCEPT ![d] = <<>>]
  /\ write' = [write EXCEPT ![d] = NoWrite]
  /\ client' = [c \in Client |-> IF client[c].daemon = d THEN Away ELSE client[c]]

(* LockFile::acquire: a try, never a wait *)
TakeLock(d) ==
  /\ stage[d] = "starting" /\ lock = None
  /\ lock' = d /\ stage' = [stage EXCEPT ![d] = "locked"]
  /\ UNCHANGED <<path, doc, acked, cmds, actor, writerVars, clientVars, changes, stops, promised>>

(* AlreadyRunning: say so and exit 0 *)
LoseRace(d) ==
  /\ stage[d] = "starting" /\ lock # None
  /\ stage' = [stage EXCEPT ![d] = "none"]
  /\ ensure' = [c \in Client |-> IF ensure[c].child = d THEN [ensure[c] EXCEPT !.child = "lost"] ELSE ensure[c]]
  /\ UNCHANGED <<lock, path, doc, acked, cmds, actor, writerVars, client, changes, stops, promised>>

(* bind_socket: the old socket file goes, whoever left it *)
Bind(d) ==
  /\ stage[d] = "locked"
  /\ path' = d /\ stage' = [stage EXCEPT ![d] = "bound"]
  /\ UNCHANGED <<lock, doc, acked, cmds, actor, writerVars, clientVars, changes, stops, promised>>

(* load: a file that cannot be read is moved aside *)
Loaded(f) == IF f.whole THEN f.changes ELSE {}
OnDisk(f) == IF f.whole THEN f ELSE Missing

(* load_or_seed, WorkspaceActor::spawn, the accept loop *)
Serve(d) ==
  /\ stage[d] = "bound"
  /\ doc' = [doc EXCEPT ![d] = Loaded(disk)] /\ disk' = OnDisk(disk)
  /\ actor' = [actor EXCEPT ![d] = "running"] /\ stage' = [stage EXCEPT ![d] = "serving"]
  /\ UNCHANGED <<lock, path, acked, cmds, saves, pending, write, tmp, clientVars, changes, stops, promised>>

-----------------------------------------------------------------------------
(* The actor and the writer task *)

(* A request that changes the document: apply, save, answer *)
Handle(d) ==
  /\ actor[d] = "running" /\ cmds[d] # <<>> /\ Head(cmds[d]) # Shutdown
  /\ cmds' = [cmds EXCEPT ![d] = Tail(@)]
  /\ doc' = [doc EXCEPT ![d] = @ \cup {Head(cmds[d])}]
  /\ saves' = [saves EXCEPT ![d] = Append(@, doc'[d])]
  /\ acked' = [acked EXCEPT ![d] = @ \cup {Head(cmds[d])}]
  /\ UNCHANGED <<stage, lock, path, actor, pending, write, tmp, disk, clientVars, changes, stops, promised>>

(* WorkspaceCommand::Shutdown: save, then await the Flush queued behind it *)
HandleShutdown(d) ==
  /\ actor[d] = "running" /\ cmds[d] # <<>> /\ Head(cmds[d]) = Shutdown
  /\ cmds' = [cmds EXCEPT ![d] = Tail(@)]
  /\ saves' = [saves EXCEPT ![d] = Append(@, doc[d])]
  /\ actor' = [actor EXCEPT ![d] = "flushing"]
  /\ UNCHANGED <<stage, lock, path, doc, acked, pending, write, tmp, disk, clientVars, changes, stops, promised>>

(* PersistMsg::Save: only the last document counts *)
Save(d) ==
  /\ saves[d] # <<>> /\ Idle(d)
  /\ pending' = [pending EXCEPT ![d] = <<Head(saves[d])>>] /\ saves' = [saves EXCEPT ![d] = Tail(@)]
  /\ UNCHANGED <<stage, lock, path, doc, acked, cmds, actor, write, tmp, disk, clientVars, changes, stops, promised>>

(* Mutant: the temporary file is renamed before it is written *)
StartWrite_Unwritten(d) ==
  /\ write' = [write EXCEPT ![d] = [step |-> "rename", file |-> pending[d][1]]]
  /\ pending' = [pending EXCEPT ![d] = <<>>] /\ tmp' = Torn
  /\ UNCHANGED <<stage, lock, path, doc, acked, cmds, actor, saves, disk, clientVars, changes, stops, promised>>

(* write_atomic, its first half: create the temporary file *)
StartWrite(d) ==
  /\ write' = [write EXCEPT ![d] = [step |-> "create", file |-> pending[d][1]]]
  /\ pending' = [pending EXCEPT ![d] = <<>>] /\ tmp' = Torn
  /\ UNCHANGED <<stage, lock, path, doc, acked, cmds, actor, saves, disk, clientVars, changes, stops, promised>>

(* The debounce is over: at any moment *)
Debounced(d) == pending[d] # <<>> /\ Idle(d) /\ StartWrite(d)

(* Mutant: the Flush does not wait for the Saves queued before it *)
Flushing_Overtakes(d) == actor[d] = "flushing" /\ Idle(d)

(* PersistMsg::Flush, which is behind every Save *)
Flushing(d) == actor[d] = "flushing" /\ saves[d] = <<>> /\ Idle(d)
Flush(d) == Flushing(d) /\ pending[d] # <<>> /\ StartWrite(d)

(* write_all and sync_all *)
Filled(d) ==
  /\ write[d].step = "create"
  /\ tmp' = [changes |-> write[d].file, whole |-> TRUE]
  /\ write' = [write EXCEPT ![d].step = "rename"]
  /\ UNCHANGED <<stage, lock, path, doc, acked, cmds, actor, saves, pending, disk, clientVars, changes, stops, promised>>

(* rename: whatever the temporary path names by now *)
Renamed(d) ==
  /\ write[d].step = "rename"
  /\ disk' = tmp /\ tmp' = Torn /\ write' = [write EXCEPT ![d] = NoWrite]
  /\ UNCHANGED <<stage, lock, path, doc, acked, cmds, actor, saves, pending, clientVars, changes, stops, promised>>

(* write_now counts the error and lets the document go *)
WriteFails(d) ==
  /\ DiskFails /\ write[d].step = "create"
  /\ write' = [write EXCEPT ![d] = Failed]
  /\ UNCHANGED <<stage, lock, path, doc, acked, cmds, actor, saves, pending, tmp, disk, clientVars, changes, stops, promised>>

-----------------------------------------------------------------------------
(* Stopping: RunningServer::finish *)

(* SIGTERM, server.shutdown or the idle timer *)
Trigger(d) ==
  /\ "trigger" \in Stopping /\ stops < MaxStops /\ stage[d] = "serving"
  /\ stage' = [stage EXCEPT ![d] = "triggered"] /\ stops' = stops + 1
  /\ UNCHANGED <<lock, path, doc, acked, cmds, actor, writerVars, clientVars, changes, promised>>

(* Mutant: the lock is let go as soon as nothing is accepted any more *)
StopAccepting_Unlocked(d) ==
  /\ stage[d] = "triggered"
  /\ stage' = [stage EXCEPT ![d] = "closed"]
  /\ cmds' = [cmds EXCEPT ![d] = Append(@, Shutdown)] /\ lock' = None
  /\ client' = [c \in Client |-> IF client[c] = [daemon |-> d, accepted |-> FALSE] THEN Away ELSE client[c]]
  /\ UNCHANGED <<path, doc, acked, actor, writerVars, ensure, changes, stops, promised>>

(* The accept loop ends; the connections it had not taken are reset *)
StopAccepting(d) ==
  /\ stage[d] = "triggered"
  /\ stage' = [stage EXCEPT ![d] = "closed"]
  /\ cmds' = [cmds EXCEPT ![d] = Append(@, Shutdown)]
  /\ client' = [c \in Client |-> IF client[c] = [daemon |-> d, accepted |-> FALSE] THEN Away ELSE client[c]]
  /\ UNCHANGED <<lock, path, doc, acked, actor, writerVars, ensure, changes, stops, promised>>

(* The writer answers, the actor signals the Surfaces and is gone *)
Flushed(d) ==
  /\ stage[d] = "closed" /\ Flushing(d) /\ pending[d] = <<>>
  /\ actor' = [actor EXCEPT ![d] = "stopped"] /\ cmds' = [cmds EXCEPT ![d] = <<>>]
  /\ stage' = [stage EXCEPT ![d] = "flushed"]
  /\ UNCHANGED <<lock, path, doc, acked, writerVars, clientVars, changes, stops, promised>>

Unlink(d) ==
  /\ stage[d] = "flushed"
  /\ path' = None /\ stage' = [stage EXCEPT ![d] = "unlinked"]
  /\ UNCHANGED <<lock, doc, acked, cmds, actor, writerVars, clientVars, changes, stops, promised>>

Release(d) ==
  /\ stage[d] = "unlinked"
  /\ lock' = None /\ stage' = [stage EXCEPT ![d] = "leaving"]
  /\ promised' = IF write[d] = Failed THEN promised ELSE promised \cup acked[d]
  /\ UNCHANGED <<path, doc, acked, cmds, actor, writerVars, clientVars, changes, stops>>

(* supervisor.shutdown has waited for the children, main returns *)
Exit(d) ==
  /\ stage[d] = "leaving" /\ Gone(d)
  /\ UNCHANGED <<lock, path, tmp, disk, ensure, changes, stops, promised>>

(* A kill or a panic: the kernel frees the lock, the socket file stays *)
Crash(d) ==
  /\ "crash" \in Stopping /\ stops < MaxStops /\ stage[d] # "none" /\ Gone(d)
  /\ lock' = IF lock = d THEN None ELSE lock
  /\ stops' = stops + 1
  /\ UNCHANGED <<path, tmp, disk, ensure, changes, promised>>

-----------------------------------------------------------------------------
(* The clients: ControlClient's attempts, ensureServer *)

(* connect(2) succeeds as soon as the daemon has bound *)
Dial(c) ==
  /\ client[c] = Away /\ Reachable
  /\ client' = [client EXCEPT ![c] = [daemon |-> path, accepted |-> FALSE]]
  /\ UNCHANGED <<stage, lock, path, doc, acked, cmds, actor, writerVars, ensure, changes, stops, promised>>

Accept(d) ==
  /\ stage[d] = "serving"
  /\ \E c \in Client : /\ client[c] = [daemon |-> d, accepted |-> FALSE]
                       /\ client' = [client EXCEPT ![c] = [daemon |-> d, accepted |-> TRUE]]
  /\ UNCHANGED <<stage, lock, path, doc, acked, cmds, actor, writerVars, ensure, changes, stops, promised>>

(* A request; one that finds the actor gone is answered shutting_down *)
Request(c) ==
  /\ client[c].accepted /\ changes < MaxChanges
  /\ actor[client[c].daemon] # "stopped"
  /\ changes' = changes + 1
  /\ cmds' = [cmds EXCEPT ![client[c].daemon] = Append(@, changes')]
  /\ UNCHANGED <<stage, lock, path, doc, acked, actor, writerVars, clientVars, stops, promised>>

(* ensureServer: nothing listens, so start a daemon *)
Spawn(c) ==
  /\ client[c] = Away /\ ensure[c].state # "waiting" /\ ~Reachable
  /\ \E d \in Daemon :
       /\ stage[d] = "none" /\ \A o \in Client : ensure[o].child # d
       /\ stage' = [stage EXCEPT ![d] = "starting"]
       /\ ensure' = [ensure EXCEPT ![c] = [state |-> "waiting", child |-> d]]
  /\ UNCHANGED <<lock, path, doc, acked, cmds, actor, writerVars, client, changes, stops, promised>>

(* One of the probes of the next three seconds is answered *)
ProbeAnswered(c) ==
  /\ ensure[c].state = "waiting" /\ Reachable
  /\ ensure' = [ensure EXCEPT ![c] = NoCall]
  /\ UNCHANGED <<stage, lock, path, doc, acked, cmds, actor, writerVars, client, changes, stops, promised>>

(* None is: three seconds outlast any start and any stop *)
Settled == \A d \in Daemon : stage[d] \in {"none", "serving", "leaving"}
ProbesFail(c) ==
  /\ ensure[c].state = "waiting" /\ ~Reachable /\ Settled
  /\ ensure' = [ensure EXCEPT ![c].state = "timeout"]
  /\ UNCHANGED <<stage, lock, path, doc, acked, cmds, actor, writerVars, client, changes, stops, promised>>

(* The call has thrown; the client retries on its own *)
GiveUp(c) ==
  /\ ensure[c].state = "timeout"
  /\ ensure' = [ensure EXCEPT ![c] = NoCall]
  /\ UNCHANGED <<stage, lock, path, doc, acked, cmds, actor, writerVars, client, changes, stops, promised>>

-----------------------------------------------------------------------------
Start(d) == TakeLock(d) \/ LoseRace(d) \/ Bind(d) \/ Serve(d)
Actor(d) == Handle(d) \/ HandleShutdown(d)
Writer(d) == Save(d) \/ Debounced(d) \/ Flush(d) \/ Filled(d) \/ Renamed(d) \/ WriteFails(d)
Finish(d) == StopAccepting(d) \/ Flushed(d) \/ Unlink(d) \/ Release(d) \/ Exit(d)
Connect(c) == Dial(c) \/ Spawn(c) \/ ProbeAnswered(c) \/ ProbesFail(c) \/ GiveUp(c)

Next ==
  \/ \E d \in Daemon : Start(d) \/ Actor(d) \/ Writer(d) \/ Finish(d) \/ Accept(d) \/ Trigger(d) \/ Crash(d)
  \/ \E c \in Client : Connect(c) \/ Request(c)

Spec == Init /\ [][Next]_vars

-----------------------------------------------------------------------------
(* Properties *)

TypeOK ==
  /\ stage \in [Daemon -> Stage] /\ lock \in Daemon \cup {None} /\ path \in Daemon \cup {None}
  /\ doc \in [Daemon -> Document] /\ acked \in [Daemon -> Document]
  /\ cmds \in [Daemon -> Seq(Changes \cup {Shutdown})]
  /\ actor \in [Daemon -> {"running", "flushing", "stopped"}]
  /\ saves \in [Daemon -> Seq(Document)]
  /\ pending \in [Daemon -> {<<>>} \cup {<<f>> : f \in Document}]
  /\ write \in [Daemon -> [step : {"none", "failed", "create", "rename"}, file : Document]]
  /\ tmp \in File /\ disk \in File
  /\ client \in [Client -> {Away} \cup [daemon : Daemon, accepted : BOOLEAN]]
  /\ ensure \in [Client -> [state : {"none", "waiting", "timeout"}, child : Daemon \cup {None, "lost"}]]
  /\ changes \in 0 .. MaxChanges /\ stops \in 0 .. MaxStops /\ promised \in Document

(* One daemon at a time is between binding the socket and removing it, it   *)
(* holds the lock, and the socket file names its listener: a daemon that    *)
(* takes the place of another neither finds its fresh socket unlinked by    *)
(* the one that is stopping nor unlinks a live one (bind_socket, finish).   *)
SocketMine ==
  \A d \in Daemon : stage[d] \in {"bound", "serving", "triggered", "closed", "flushed"} =>
                    lock = d /\ path = d

(* workspace.json never loses a change that reached it and is never half    *)
(* written, whatever daemons come, crash and go: the next one loads what    *)
(* the last wrote, and no writer of a past daemon overwrites it.            *)
FileOnlyGrows == [][disk.changes \subseteq disk'.changes /\ disk'.whole]_disk

(* A change answered "ok" by a daemon that then stopped by the book is in   *)
(* workspace.json for ever after (the Flush of WorkspaceCommand::Shutdown), *)
(* whatever writes failed before, unless the last of them did.              *)
AckedSurvives == promised \subseteq disk.changes

(* No daemon is on its way up or down: the Shutdown command comes up in    *)
(* the actor's queue and the Flush it awaits is answered.                   *)
AtRest == \A d \in Daemon : stage[d] \in {"none", "serving"}

(* Every window is connected: whatever races and leftovers the stops        *)
(* caused, the lock is free or served, and the socket file leads to a       *)
(* listener.                                                                *)
EveryoneServed == \A c \in Client : client[c].accepted
=============================================================================
