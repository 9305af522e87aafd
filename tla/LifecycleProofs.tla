-------------------------- MODULE LifecycleProofs --------------------------
(***************************************************************************)
(* Theorems about Lifecycle for any number of processes, clients, changes  *)
(* and stops.  The argument: only the holder of the lock works, and what   *)
(* it has on its way to the file only ever gets newer.                     *)
(***************************************************************************)
EXTENDS Lifecycle, SequenceTheorems, TLAPS

Call == [state : {"none", "waiting", "timeout"}, child : Daemon \cup {None, "lost"}]

LEMMA TypeInit == Init => TypeOK
  BY LifecycleAssumption DEF Init, TypeOK, Stage, Document, Changes, File, Torn, Missing, NoWrite, Away, NoCall

LEMMA GoneTypes ==
  ASSUME TypeOK, NEW d \in Daemon, Gone(d)
  PROVE  /\ stage' \in [Daemon -> Stage]
         /\ doc' \in [Daemon -> Document] /\ acked' \in [Daemon -> Document]
         /\ cmds' \in [Daemon -> Seq(Changes \cup {Shutdown})]
         /\ actor' \in [Daemon -> {"running", "flushing", "stopped"}]
         /\ saves' \in [Daemon -> Seq(Document)]
         /\ pending' \in [Daemon -> {<<>>} \cup {<<f>> : f \in Document}]
         /\ write' \in [Daemon -> [step : {"none", "failed", "create", "rename"}, file : Document]]
         /\ client' \in [Client -> {Away} \cup [daemon : Daemon, accepted : BOOLEAN]]
  BY DEF TypeOK, Gone, Stage, Document, NoWrite

(* What a client's ensureServer call may become *)
LEMMA CallTypes ==
  ASSUME TypeOK, NEW c \in Client
  PROVE  /\ [ensure[c] EXCEPT !.child = "lost"] \in Call
         /\ [ensure[c] EXCEPT !.state = "timeout"] \in Call
         /\ NoCall \in Call /\ ensure[c] \in Call
  BY DEF TypeOK, Call, NoCall

LEMMA TypeStep == TypeOK /\ [Next]_vars => TypeOK'
<1> SUFFICES ASSUME TypeOK, [Next]_vars PROVE TypeOK'
  OBVIOUS
<1> USE LifecycleAssumption
<1>1. ASSUME NEW d \in Daemon, Start(d) PROVE TypeOK'
  <2>1. CASE TakeLock(d)
    <3>1. stage' \in [Daemon -> Stage] BY <2>1 DEF TypeOK, TakeLock, Stage
    <3> QED BY <2>1, <3>1 DEF TypeOK, TakeLock, writerVars, clientVars
  <2>2. CASE LoseRace(d)
    <3>1. ensure' \in [Client -> Call] BY <2>2, CallTypes DEF LoseRace
    <3>2. stage' \in [Daemon -> Stage] BY <2>2 DEF TypeOK, LoseRace, Stage
    <3> QED BY <2>2, <3>1, <3>2 DEF TypeOK, LoseRace, Call, writerVars
  <2>3. CASE Bind(d)
    <3>1. stage' \in [Daemon -> Stage] BY <2>3 DEF TypeOK, Bind, Stage
    <3> QED BY <2>3, <3>1 DEF TypeOK, Bind, writerVars, clientVars
  <2>4. CASE Serve(d)
    <3>1. Loaded(disk) \in Document /\ OnDisk(disk) \in File
      BY DEF TypeOK, Loaded, OnDisk, File, Missing, Document
    <3> QED BY <2>4, <3>1 DEF TypeOK, Serve, Stage, clientVars
  <2> QED BY <1>1, <2>1, <2>2, <2>3, <2>4 DEF Start
<1>2. ASSUME NEW d \in Daemon, Actor(d) PROVE TypeOK'
  <2>1. CASE Handle(d)
    <3>1. Head(cmds[d]) \in Changes /\ Tail(cmds[d]) \in Seq(Changes \cup {Shutdown})
      BY <2>1 DEF TypeOK, Handle
    <3>2. doc[d] \cup {Head(cmds[d])} \in Document /\ acked[d] \cup {Head(cmds[d])} \in Document
      BY <3>1 DEF TypeOK, Document
    <3>3. doc' \in [Daemon -> Document] /\ doc'[d] \in Document
      BY <2>1, <3>2 DEF TypeOK, Handle
    <3>4. saves' \in [Daemon -> Seq(Document)]
      BY <2>1, <3>3 DEF TypeOK, Handle
    <3> QED BY <2>1, <3>1, <3>2, <3>3, <3>4 DEF TypeOK, Handle, clientVars
  <2>2. CASE HandleShutdown(d)
    BY <2>2 DEF TypeOK, HandleShutdown, clientVars
  <2> QED BY <1>2, <2>1, <2>2 DEF Actor
<1>3. ASSUME NEW d \in Daemon, Writer(d) PROVE TypeOK'
  <2>1. CASE Save(d) BY <2>1 DEF TypeOK, Save, clientVars
  <2>2. CASE pending[d] # <<>> /\ StartWrite(d)
    <3>1. pending[d][1] \in Document BY <2>2 DEF TypeOK
    <3> QED BY <2>2, <3>1 DEF TypeOK, StartWrite, clientVars, File, Torn, Document
  <2>3. CASE Filled(d)
    <3>1. write[d].file \in Document BY DEF TypeOK
    <3>2. tmp' \in File BY <2>3, <3>1 DEF Filled, File
    <3>3. write[d] \in [step : {"none", "failed", "create", "rename"}, file : Document] BY DEF TypeOK
    <3>4. [write[d] EXCEPT !.step = "rename"] = [step |-> "rename", file |-> write[d].file] BY <3>3
    <3>5. write' = [write EXCEPT ![d] = [step |-> "rename", file |-> write[d].file]] BY <2>3, <3>4 DEF Filled
    <3>6. write' \in [Daemon -> [step : {"none", "failed", "create", "rename"}, file : Document]]
      BY <3>1, <3>5 DEF TypeOK
    <3> QED BY <2>3, <3>2, <3>6 DEF TypeOK, Filled, clientVars
  <2>4. CASE Renamed(d)
    BY <2>4 DEF TypeOK, Renamed, clientVars, File, Torn, NoWrite, Document
  <2>5. CASE WriteFails(d) BY <2>5 DEF TypeOK, WriteFails, clientVars, Failed, Document
  <2> QED BY <1>3, <2>1, <2>2, <2>3, <2>4, <2>5 DEF Writer, Debounced, Flush
<1>4. ASSUME NEW d \in Daemon, Finish(d) PROVE TypeOK'
  <2>1. CASE StopAccepting(d)
    <3>1. client' \in [Client -> {Away} \cup [daemon : Daemon, accepted : BOOLEAN]]
      BY <2>1 DEF TypeOK, StopAccepting
    <3> QED BY <2>1, <3>1 DEF TypeOK, StopAccepting, writerVars, Stage
  <2>2. CASE Flushed(d) BY <2>2 DEF TypeOK, Flushed, writerVars, clientVars, Stage
  <2>3. CASE Unlink(d) BY <2>3 DEF TypeOK, Unlink, writerVars, clientVars, Stage
  <2>4. CASE Release(d) BY <2>4 DEF TypeOK, Release, writerVars, clientVars, Stage, Document
  <2>5. CASE Exit(d) BY <2>5, GoneTypes DEF TypeOK, Exit
  <2> QED BY <1>4, <2>1, <2>2, <2>3, <2>4, <2>5 DEF Finish
<1>5. ASSUME NEW d \in Daemon, Accept(d) PROVE TypeOK'
  <2>1. client' \in [Client -> {Away} \cup [daemon : Daemon, accepted : BOOLEAN]]
    BY <1>5 DEF TypeOK, Accept
  <2> QED BY <1>5, <2>1 DEF TypeOK, Accept, writerVars
<1>6. ASSUME NEW d \in Daemon, Trigger(d) PROVE TypeOK'
  BY <1>6 DEF TypeOK, Trigger, writerVars, clientVars, Stage
<1>7. ASSUME NEW d \in Daemon, Crash(d) PROVE TypeOK'
  BY <1>7, GoneTypes DEF TypeOK, Crash
<1>8. ASSUME NEW c \in Client, Connect(c) PROVE TypeOK'
  <2>1. CASE Dial(c) BY <2>1 DEF TypeOK, Dial, Reachable, writerVars
  <2>2. CASE Spawn(c) BY <2>2 DEF TypeOK, Spawn, writerVars, Stage
  <2>3. CASE ProbeAnswered(c) BY <2>3 DEF TypeOK, ProbeAnswered, writerVars, NoCall
  <2>4. CASE ProbesFail(c)
    <3>1. ensure' = [ensure EXCEPT ![c] = [ensure[c] EXCEPT !.state = "timeout"]]
      BY <2>4 DEF ProbesFail
    <3>2. ensure \in [Client -> Call] BY DEF TypeOK, Call
    <3>3. ensure' \in [Client -> Call] BY <3>1, <3>2, CallTypes
    <3> QED BY <2>4, <3>3 DEF TypeOK, ProbesFail, Call, writerVars
  <2>5. CASE GiveUp(c) BY <2>5 DEF TypeOK, GiveUp, writerVars, NoCall
  <2> QED BY <1>8, <2>1, <2>2, <2>3, <2>4, <2>5 DEF Connect
<1>9. ASSUME NEW c \in Client, Request(c) PROVE TypeOK'
  <2>1. client[c].daemon \in Daemon BY <1>9 DEF TypeOK, Request, Away
  <2>2. changes' \in Changes BY <1>9 DEF TypeOK, Request, Changes
  <2>3. cmds' \in [Daemon -> Seq(Changes \cup {Shutdown})]
    <3>1. Append(cmds[client[c].daemon], changes') \in Seq(Changes \cup {Shutdown})
      BY <2>1, <2>2 DEF TypeOK
    <3>2. cmds' = [cmds EXCEPT ![client[c].daemon] = Append(cmds[client[c].daemon], changes')]
      BY <1>9 DEF Request
    <3> QED BY <3>1, <3>2 DEF TypeOK
  <2>4. changes' \in 0 .. MaxChanges BY <2>2 DEF Changes
  <2> QED BY <1>9, <2>3, <2>4 DEF TypeOK, Request, writerVars, clientVars
<1>10. CASE UNCHANGED vars
  BY <1>10 DEF TypeOK, vars, writerVars, clientVars
<1> QED BY <1>1, <1>2, <1>3, <1>4, <1>5, <1>6, <1>7, <1>8, <1>9, <1>10 DEF Next

(* The declared types, for every reachable state (Lifecycle's TypeOK). *)
THEOREM TypeCorrect == Spec => []TypeOK
  BY TypeInit, TypeStep, PTL DEF Spec

-----------------------------------------------------------------------------
(* The inductive invariant *)

Held == {"locked", "bound", "serving", "triggered", "closed", "flushed", "unlinked"}
Working == {"serving", "triggered", "closed"}

(* The lock is held from TakeLock to Release *)
LockOK == \A d \in Daemon : lock = d <=> stage[d] \in Held

(* Outside serving, triggered and closed there is nothing left to write *)
QuietOK == \A d \in Daemon :
  \/ stage[d] \in Working
  \/ actor[d] = "stopped" /\ saves[d] = <<>> /\ pending[d] = <<>> /\ Idle(d)

(* What is at the temporary path when it is renamed *)
WholeOK ==
  /\ disk.whole
  /\ \A d \in Daemon : write[d].step = "rename" => tmp = [changes |-> write[d].file, whole |-> TRUE]

(* From the file to the document, every stop on the way is newer *)
Written(d) == IF ~Idle(d) THEN write[d].file ELSE disk.changes
Waiting(d) == IF pending[d] # <<>> THEN pending[d][1] ELSE Written(d)
Newer(d) ==
  /\ disk.changes \subseteq Written(d) /\ Written(d) \subseteq Waiting(d)
  /\ Waiting(d) \subseteq doc[d]
  /\ \A i \in DOMAIN saves[d] : Waiting(d) \subseteq saves[d][i] /\ saves[d][i] \subseteq doc[d]
  /\ \A i, j \in DOMAIN saves[d] : i < j => saves[d][i] \subseteq saves[d][j]
NewerOK == \A d \in Daemon : stage[d] \in Working => Newer(d)

FileInv == TypeOK /\ LockOK /\ SocketMine /\ QuietOK /\ WholeOK /\ NewerOK

(* The last document saved is the actor's, unless its write failed *)
Latest(d) ==
  IF saves[d] # <<>> THEN saves[d][Len(saves[d])] = doc[d]
  ELSE Waiting(d) = doc[d] \/ (pending[d] = <<>> /\ write[d] = Failed)
LatestOK == \A d \in Daemon : stage[d] \in Working => Latest(d)
AckedOK == \A d \in Daemon :
  /\ stage[d] \in Working => acked[d] \subseteq doc[d]
  /\ stage[d] \in {"flushed", "unlinked"} /\ write[d] # Failed => acked[d] \subseteq disk.changes
  /\ stage[d] \notin Working \cup {"flushed", "unlinked", "leaving"} => acked[d] = {}
KeptInv == LatestOK /\ AckedOK /\ AckedSurvives
fileVars == <<stage, lock, path, doc, acked, actor, saves, pending, write, tmp, disk, promised>>

LEMMA FileInit == Init => FileInv
  BY TypeInit, LifecycleAssumption
  DEF Init, FileInv, LockOK, SocketMine, QuietOK, WholeOK, NewerOK, Held, Working, Idle, NoWrite, Missing

LEMMA Unmoved == FileInv /\ TypeOK' /\ UNCHANGED fileVars => FileInv'
  BY DEF FileInv, fileVars, LockOK, SocketMine, QuietOK, WholeOK, NewerOK, Newer, Written, Waiting, Idle

(* Only the holder of the lock works *)
LEMMA Alone ==
  ASSUME FileInv, NEW d \in Daemon, stage[d] \in Held, NEW e \in Daemon, e # d
  PROVE  stage[e] \notin Held /\ stage[e] \notin Working
  BY LifecycleAssumption DEF FileInv, LockOK, Held, Working

(* A step of d that moves none of the documents, or leaves none behind *)
LEMMA StageStep ==
  ASSUME FileInv, TypeOK', NEW d \in Daemon,
         UNCHANGED <<doc, saves, pending, write, tmp, disk>>,
         stage' = [stage EXCEPT ![d] = stage'[d]],
         actor' = [actor EXCEPT ![d] = actor'[d]],
         LockOK', SocketMine',
         stage'[d] \in Working => stage[d] \in Working,
         stage'[d] \notin Working =>
           actor'[d] = "stopped" /\ saves[d] = <<>> /\ pending[d] = <<>> /\ Idle(d)
  PROVE  FileInv'
<1>1. QuietOK'
  <2>1. \A e \in Daemon \ {d} : stage'[e] = stage[e] /\ actor'[e] = actor[e] /\ Idle(e)' = Idle(e)
    BY DEF FileInv, TypeOK, Idle
  <2>2. Idle(d)' = Idle(d) /\ saves'[d] = saves[d] /\ pending'[d] = pending[d]
    BY DEF Idle
  <2> QED
    BY <2>1, <2>2 DEF FileInv, QuietOK
<1>2. WholeOK' BY DEF FileInv, WholeOK
<1>3. \A e \in Daemon : stage'[e] \in Working => stage[e] \in Working BY DEF FileInv, TypeOK
<1>4. ASSUME NEW e \in Daemon, stage'[e] \in Working PROVE Newer(e)'
  <2>1. Newer(e)
    BY <1>3, <1>4 DEF FileInv, NewerOK
  <2>2. Written(e)' = Written(e)
    BY DEF Written, Idle
  <2>3. Waiting(e)' = Waiting(e)
    BY <2>2 DEF Waiting
  <2> QED
    BY <2>1, <2>2, <2>3 DEF Newer
<1> QED BY <1>1, <1>2, <1>4 DEF FileInv, NewerOK

(* A process that is gone leaves nothing on its way to the file *)
LEMMA GoneStep ==
  ASSUME FileInv, TypeOK', NEW d \in Daemon, Gone(d), UNCHANGED <<path, tmp, disk>>,
         lock' = IF lock = d THEN None ELSE lock
  PROVE  FileInv'
<1>1. \A e \in Daemon : stage'[e] = IF e = d THEN "none" ELSE stage[e]
  BY DEF FileInv, TypeOK, Gone
<1>2. \A e \in Daemon : e # d =>
        doc'[e] = doc[e] /\ actor'[e] = actor[e] /\ saves'[e] = saves[e] /\ pending'[e] = pending[e] /\ write'[e] = write[e]
  BY DEF FileInv, TypeOK, Gone
<1>3. actor'[d] = "stopped" /\ saves'[d] = <<>> /\ pending'[d] = <<>> /\ write'[d] = NoWrite
  BY DEF FileInv, TypeOK, Gone
<1>4. LockOK' BY <1>1, LifecycleAssumption DEF FileInv, LockOK, Held, TypeOK
<1>5. SocketMine' BY <1>1, LifecycleAssumption DEF FileInv, SocketMine, LockOK
<1>6. QuietOK' BY <1>1, <1>2, <1>3 DEF FileInv, QuietOK, Working, Idle, NoWrite
<1>7. WholeOK' BY <1>2, <1>3 DEF FileInv, WholeOK, NoWrite
<1>8. NewerOK'
  <2> SUFFICES ASSUME NEW e \in Daemon, stage'[e] \in Working PROVE Newer(e)'
    BY DEF NewerOK
  <2>1. e # d /\ stage[e] \in Working BY <1>1 DEF Working
  <2>2. Newer(e) BY <2>1 DEF FileInv, NewerOK
  <2>3. Written(e)' = Written(e) /\ Waiting(e)' = Waiting(e) BY <1>2, <2>1 DEF Written, Waiting, Idle
  <2> QED BY <1>2, <2>1, <2>2, <2>3 DEF Newer
<1> QED BY <1>4, <1>5, <1>6, <1>7, <1>8 DEF FileInv

(* A step of a working daemon on its own documents *)
LEMMA WorkStep ==
  ASSUME FileInv, TypeOK', NEW d \in Daemon, stage[d] \in Working,
         UNCHANGED <<stage, lock, path>>,
         \A e \in Daemon : e # d => /\ actor'[e] = actor[e] /\ saves'[e] = saves[e]
                                    /\ pending'[e] = pending[e] /\ write'[e] = write[e],
         WholeOK', Newer(d)'
  PROVE  FileInv'
<1>1. \A e \in Daemon : e # d => stage[e] \notin Working BY Alone DEF Held, Working
<1>2. LockOK' /\ SocketMine' BY DEF FileInv, LockOK, SocketMine
<1>3. QuietOK' BY DEF FileInv, QuietOK, Idle
<1>4. NewerOK' BY <1>1 DEF NewerOK
<1> QED BY <1>2, <1>3, <1>4 DEF FileInv

LEMMA FileStep == FileInv /\ [Next]_vars => FileInv'
<1> SUFFICES ASSUME FileInv, [Next]_vars PROVE FileInv'
  OBVIOUS
<1> USE LifecycleAssumption
<1>0. TypeOK' BY TypeStep DEF FileInv
<1>1. ASSUME NEW d \in Daemon, Start(d) PROVE FileInv'
  <2>0. \A e \in Daemon : stage'[e] = IF e = d THEN stage'[d] ELSE stage[e]
    BY <1>1 DEF FileInv, TypeOK, Start, TakeLock, LoseRace, Bind, Serve
  <2>1. CASE TakeLock(d)
    <3>1. LockOK' BY <2>0, <2>1 DEF FileInv, LockOK, Held, TakeLock, TypeOK
    <3>2. SocketMine' BY <2>0, <2>1 DEF FileInv, SocketMine, LockOK, Held, TakeLock, TypeOK
    <3>3. stage[d] = "starting" /\ stage'[d] = "locked" BY <2>1 DEF TakeLock, FileInv, TypeOK
    <3>4. actor[d] = "stopped" /\ saves[d] = <<>> /\ pending[d] = <<>> /\ Idle(d)
      BY <3>3 DEF FileInv, QuietOK, Working
    <3>8. UNCHANGED <<doc, actor, saves, pending, write, tmp, disk>>
      BY <2>1 DEF TakeLock, writerVars
    <3>9. stage' = [stage EXCEPT ![d] = stage'[d]] /\ actor' = [actor EXCEPT ![d] = actor'[d]]
      BY <2>1, <3>8 DEF TakeLock, FileInv, TypeOK
    <3>7. /\ stage'[d] \in Working => stage[d] \in Working
          /\ stage'[d] \notin Working =>
                actor'[d] = "stopped" /\ saves[d] = <<>> /\ pending[d] = <<>> /\ Idle(d)
      BY <3>3, <3>4, <3>8 DEF Working
    <3> QED BY <1>0, <3>1, <3>2, <3>7, <3>8, <3>9, StageStep
  <2>2. CASE LoseRace(d)
    <3>3. stage[d] = "starting" /\ stage'[d] = "none" BY <2>2 DEF LoseRace, FileInv, TypeOK
    <3>1. LockOK' BY <2>0, <2>2, <3>3 DEF FileInv, LockOK, Held, LoseRace
    <3>2. SocketMine' BY <2>0, <2>2, <3>3 DEF FileInv, SocketMine, LoseRace
    <3>4. actor[d] = "stopped" /\ saves[d] = <<>> /\ pending[d] = <<>> /\ Idle(d)
      BY <3>3 DEF FileInv, QuietOK, Working
    <3>8. UNCHANGED <<doc, actor, saves, pending, write, tmp, disk>>
      BY <2>2 DEF LoseRace, writerVars
    <3>9. stage' = [stage EXCEPT ![d] = stage'[d]] /\ actor' = [actor EXCEPT ![d] = actor'[d]]
      BY <2>2, <3>8 DEF LoseRace, FileInv, TypeOK
    <3>7. /\ stage'[d] \in Working => stage[d] \in Working
          /\ stage'[d] \notin Working =>
                actor'[d] = "stopped" /\ saves[d] = <<>> /\ pending[d] = <<>> /\ Idle(d)
      BY <3>3, <3>4, <3>8 DEF Working
    <3> QED BY <1>0, <3>1, <3>2, <3>7, <3>8, <3>9, StageStep
  <2>3. CASE Bind(d)
    <3>3. stage[d] = "locked" /\ stage'[d] = "bound" BY <2>3 DEF Bind, FileInv, TypeOK
    <3>1. LockOK' BY <2>0, <2>3, <3>3 DEF FileInv, LockOK, Held, Bind
    <3>5. path' = d /\ lock' = lock BY <2>3 DEF Bind
    <3>6. \A e \in Daemon : e # d => stage[e] \notin Held BY <3>3, Alone DEF Held
    <3>2. SocketMine' BY <2>0, <3>1, <3>3, <3>5, <3>6 DEF SocketMine, LockOK, Held
    <3>4. actor[d] = "stopped" /\ saves[d] = <<>> /\ pending[d] = <<>> /\ Idle(d)
      BY <3>3 DEF FileInv, QuietOK, Working
    <3>8. UNCHANGED <<doc, actor, saves, pending, write, tmp, disk>>
      BY <2>3 DEF Bind, writerVars
    <3>9. stage' = [stage EXCEPT ![d] = stage'[d]] /\ actor' = [actor EXCEPT ![d] = actor'[d]]
      BY <2>3, <3>8 DEF Bind, FileInv, TypeOK
    <3>7. /\ stage'[d] \in Working => stage[d] \in Working
          /\ stage'[d] \notin Working =>
                actor'[d] = "stopped" /\ saves[d] = <<>> /\ pending[d] = <<>> /\ Idle(d)
      BY <3>3, <3>4, <3>8 DEF Working
    <3> QED BY <1>0, <3>1, <3>2, <3>7, <3>8, <3>9, StageStep
  <2>4. CASE Serve(d)
    <3>1. stage[d] = "bound" /\ stage'[d] = "serving" BY <2>4 DEF Serve, FileInv, TypeOK
    <3>2. LockOK' BY <2>0, <2>4, <3>1 DEF FileInv, LockOK, Held, Serve
    <3>3. SocketMine' BY <2>0, <2>4, <3>1 DEF FileInv, SocketMine, Serve
    <3>4. actor[d] = "stopped" /\ saves[d] = <<>> /\ pending[d] = <<>> /\ Idle(d)
      BY <3>1 DEF FileInv, QuietOK, Working
    <3>5. disk' = disk /\ doc'[d] = disk.changes
      BY <2>4 DEF FileInv, WholeOK, Serve, Loaded, OnDisk, TypeOK
    <3>6. QuietOK' BY <2>0, <2>4, <3>1 DEF FileInv, QuietOK, Working, Serve, TypeOK, Idle
    <3>7. WholeOK' BY <2>4, <3>5 DEF FileInv, WholeOK, Serve
    <3>8. \A e \in Daemon : e # d => stage'[e] \notin Working
      BY <2>0, <3>1, Alone DEF Held
    <3>9. saves' = saves /\ pending' = pending /\ write' = write BY <2>4 DEF Serve
    <3>10. NewerOK' BY <3>4, <3>5, <3>8, <3>9 DEF NewerOK, Newer, Written, Waiting, Idle
    <3> QED BY <1>0, <3>2, <3>3, <3>6, <3>7, <3>10 DEF FileInv
  <2> QED BY <1>1, <2>1, <2>2, <2>3, <2>4 DEF Start
<1>2. ASSUME NEW d \in Daemon, Actor(d) \/ Writer(d) PROVE FileInv'
  <2>0. stage[d] \in Working
    BY <1>2 DEF FileInv, QuietOK, Idle, Actor, Handle, HandleShutdown, Writer, Save, Debounced, Flush, Filled, Renamed, WriteFails
  <2>1. Newer(d) BY <2>0 DEF FileInv, NewerOK
  <2>2. \A e \in Daemon : e # d => Idle(e)
    BY <2>0, Alone DEF FileInv, QuietOK, Held, Working
  <2>3. CASE Handle(d)
    <3>1. saves'[d] = Append(saves[d], doc'[d]) /\ doc[d] \subseteq doc'[d]
      BY <2>3 DEF Handle, FileInv, TypeOK
    <3>2. pending' = pending /\ write' = write /\ disk' = disk /\ tmp' = tmp BY <2>3 DEF Handle
    <3>3. Written(d)' = Written(d) /\ Waiting(d)' = Waiting(d) BY <3>2 DEF Written, Waiting, Idle
    <3>4. saves[d] \in Seq(Document) BY DEF FileInv, TypeOK
    <3>5. ASSUME NEW i \in DOMAIN saves'[d]
          PROVE  IF i = Len(saves[d]) + 1 THEN saves'[d][i] = doc'[d]
                 ELSE i \in DOMAIN saves[d] /\ saves'[d][i] = saves[d][i]
      BY <3>1, <3>4, <1>0 DEF TypeOK
    <3>6. Newer(d)'
      BY <2>1, <3>1, <3>2, <3>3, <3>4, <3>5 DEF Newer
    <3>7. WholeOK' BY <3>2 DEF FileInv, WholeOK
    <3> QED BY <1>0, <2>0, <2>3, <3>6, <3>7, WorkStep DEF Handle, FileInv, TypeOK
  <2>4. CASE HandleShutdown(d)
    <3>1. saves'[d] = Append(saves[d], doc[d])
      BY <2>4 DEF HandleShutdown, FileInv, TypeOK
    <3>2. pending' = pending /\ write' = write /\ disk' = disk /\ tmp' = tmp /\ doc' = doc BY <2>4 DEF HandleShutdown
    <3>3. Written(d)' = Written(d) /\ Waiting(d)' = Waiting(d) BY <3>2 DEF Written, Waiting, Idle
    <3>4. saves[d] \in Seq(Document) BY DEF FileInv, TypeOK
    <3>5. ASSUME NEW i \in DOMAIN saves'[d]
          PROVE  IF i = Len(saves[d]) + 1 THEN saves'[d][i] = doc[d]
                 ELSE i \in DOMAIN saves[d] /\ saves'[d][i] = saves[d][i]
      BY <3>1, <3>4 DEF FileInv, TypeOK
    <3>6. Newer(d)'
      BY <2>1, <3>1, <3>2, <3>3, <3>4, <3>5 DEF Newer
    <3>7. WholeOK' BY <3>2 DEF FileInv, WholeOK
    <3> QED BY <1>0, <2>0, <2>4, <3>6, <3>7, WorkStep DEF HandleShutdown, FileInv, TypeOK
  <2>5. CASE Save(d)
    <3>1. saves[d] \in Seq(Document) /\ saves[d] # <<>> BY <2>5 DEF Save, FileInv, TypeOK
    <3>2. saves'[d] = Tail(saves[d]) /\ pending'[d] = <<saves[d][1]>> /\ 1 \in DOMAIN saves[d]
      BY <2>5, <3>1 DEF Save, FileInv, TypeOK
    <3>3. write' = write /\ disk' = disk /\ tmp' = tmp /\ doc' = doc BY <2>5 DEF Save
    <3>4. Written(d)' = Written(d) /\ Waiting(d)' = saves[d][1] BY <3>2, <3>3 DEF Written, Waiting, Idle
    <3>5. ASSUME NEW i \in DOMAIN saves'[d]
          PROVE  i \in Nat /\ i > 0 /\ i + 1 \in DOMAIN saves[d] /\ saves'[d][i] = saves[d][i + 1]
      BY <3>1, <3>2
    <3>8. saves[d][1] \subseteq doc[d] /\ Waiting(d) \subseteq saves[d][1] BY <2>1, <3>2 DEF Newer
    <3>9. ASSUME NEW i \in DOMAIN saves'[d]
          PROVE  saves[d][1] \subseteq saves'[d][i] /\ saves'[d][i] \subseteq doc[d]
      BY <2>1, <3>2, <3>5 DEF Newer
    <3>10. ASSUME NEW i \in DOMAIN saves'[d], NEW j \in DOMAIN saves'[d], i < j
           PROVE  saves'[d][i] \subseteq saves'[d][j]
      <4>1. i \in Nat /\ j \in Nat /\ i + 1 \in DOMAIN saves[d] /\ j + 1 \in DOMAIN saves[d]
        BY <3>5
      <4>2. i + 1 < j + 1 BY <3>10, <4>1
      <4>3. saves[d][i + 1] \subseteq saves[d][j + 1] BY <2>1, <4>1, <4>2 DEF Newer
      <4> QED BY <3>5, <4>3
    <3>6. Newer(d)' BY <2>1, <3>3, <3>4, <3>8, <3>9, <3>10 DEF Newer
    <3>7. WholeOK' BY <3>3 DEF FileInv, WholeOK
    <3> QED BY <1>0, <2>0, <2>5, <3>6, <3>7, WorkStep DEF Save, FileInv, TypeOK
  <2>6. CASE pending[d] # <<>> /\ Idle(d) /\ StartWrite(d)
    <3>1. write'[d] = [step |-> "create", file |-> pending[d][1]] /\ pending'[d] = <<>>
      BY <2>6 DEF StartWrite, FileInv, TypeOK
    <3>2. saves' = saves /\ disk' = disk /\ doc' = doc BY <2>6 DEF StartWrite
    <3>3. Written(d)' = Waiting(d) /\ Waiting(d)' = Waiting(d) BY <2>6, <3>1 DEF Written, Waiting, Idle
    <3>4. Newer(d)' BY <2>1, <3>2, <3>3 DEF Newer
    <3>5. \A e \in Daemon : write'[e].step # "rename"
      BY <2>2, <2>6, <3>1 DEF StartWrite, Idle, NoWrite, Failed, FileInv, TypeOK
    <3>6. WholeOK' BY <3>2, <3>5 DEF FileInv, WholeOK
    <3> QED BY <1>0, <2>0, <2>6, <3>4, <3>6, WorkStep DEF StartWrite, FileInv, TypeOK
  <2>7. CASE Filled(d)
    <3>1. write[d] \in [step : {"none", "failed", "create", "rename"}, file : Document] BY DEF FileInv, TypeOK
    <3>2. write'[d] = [step |-> "rename", file |-> write[d].file] BY <2>7, <3>1 DEF Filled, FileInv, TypeOK
    <3>3. saves' = saves /\ disk' = disk /\ doc' = doc /\ pending' = pending BY <2>7 DEF Filled
    <3>4. Written(d)' = Written(d) /\ Waiting(d)' = Waiting(d) BY <2>7, <3>2, <3>3 DEF Written, Waiting, Filled, Idle
    <3>5. Newer(d)' BY <2>1, <3>3, <3>4 DEF Newer
    <3>6. \A e \in Daemon : e # d => write'[e].step # "rename"
      BY <2>2, <2>7 DEF Filled, Idle, NoWrite, Failed, FileInv, TypeOK
    <3>7. tmp' = [changes |-> write[d].file, whole |-> TRUE] BY <2>7 DEF Filled
    <3>8. WholeOK'
      <4>1. disk'.whole BY <3>3 DEF FileInv, WholeOK
      <4>2. ASSUME NEW e \in Daemon, write'[e].step = "rename"
            PROVE  tmp' = [changes |-> write'[e].file, whole |-> TRUE]
        <5>1. e = d BY <3>6, <4>2
        <5>2. write'[e].file = write[d].file BY <3>2, <5>1
        <5> QED BY <3>7, <5>2
      <4> QED BY <4>1, <4>2 DEF WholeOK
    <3> QED BY <1>0, <2>0, <2>7, <3>5, <3>8, WorkStep DEF Filled, FileInv, TypeOK
  <2>8. CASE Renamed(d)
    <3>1. disk' = [changes |-> write[d].file, whole |-> TRUE]
      BY <2>8 DEF Renamed, FileInv, WholeOK
    <3>2. write'[d] = NoWrite /\ saves' = saves /\ doc' = doc /\ pending' = pending
      BY <2>8 DEF Renamed, FileInv, TypeOK
    <3>3. Written(d) = write[d].file /\ Written(d)' = write[d].file /\ Waiting(d)' = Waiting(d)
      BY <2>8, <3>1, <3>2 DEF Written, Waiting, Renamed, Idle, NoWrite
    <3>4. Newer(d)' BY <2>1, <3>1, <3>2, <3>3 DEF Newer
    <3>5. \A e \in Daemon : write'[e].step # "rename"
      BY <2>2, <2>8, <3>2 DEF Renamed, Idle, NoWrite, Failed, FileInv, TypeOK
    <3>6. WholeOK' BY <3>1, <3>5 DEF WholeOK
    <3> QED BY <1>0, <2>0, <2>8, <3>4, <3>6, WorkStep DEF Renamed, FileInv, TypeOK
  <2>9. CASE WriteFails(d)
    <3>1. write'[d] = Failed /\ saves' = saves /\ doc' = doc /\ pending' = pending /\ disk' = disk
      BY <2>9 DEF WriteFails, FileInv, TypeOK
    <3>2. Written(d)' = disk.changes /\ Waiting(d)' \subseteq Waiting(d) /\ disk.changes \subseteq Waiting(d)'
      BY <2>1, <3>1 DEF Newer, Written, Waiting, Idle, Failed
    <3>3. Newer(d)' BY <2>1, <3>1, <3>2 DEF Newer
    <3>4. \A e \in Daemon : write'[e].step # "rename"
      BY <2>2, <2>9, <3>1 DEF WriteFails, Idle, NoWrite, Failed, FileInv, TypeOK
    <3>5. WholeOK' BY <3>1, <3>4 DEF FileInv, WholeOK
    <3> QED BY <1>0, <2>0, <2>9, <3>3, <3>5, WorkStep DEF WriteFails, FileInv, TypeOK
  <2> QED BY <1>2, <2>3, <2>4, <2>5, <2>6, <2>7, <2>8, <2>9 DEF Actor, Writer, Debounced, Flush, Flushing
<1>3. ASSUME NEW d \in Daemon, Finish(d) \/ Trigger(d) PROVE FileInv'
  <2>0. \A e \in Daemon : stage'[e] = IF e = d THEN stage'[d] ELSE stage[e]
    BY <1>3 DEF FileInv, TypeOK, Finish, StopAccepting, Flushed, Unlink, Release, Exit, Gone, Trigger
  <2>1. CASE Trigger(d)
    <3>1. stage[d] = "serving" /\ stage'[d] = "triggered" /\ lock' = lock /\ path' = path
      BY <2>1 DEF Trigger, FileInv, TypeOK
    <3>2. LockOK' BY <2>0, <3>1 DEF FileInv, LockOK, Held
    <3>3. SocketMine' BY <2>0, <3>1 DEF FileInv, SocketMine
    <3>8. UNCHANGED <<doc, saves, pending, write, tmp, disk>> /\ actor' = [actor EXCEPT ![d] = actor'[d]]
      BY <2>1 DEF Trigger, writerVars, FileInv, TypeOK
    <3>9. stage' = [stage EXCEPT ![d] = stage'[d]] BY <2>1 DEF Trigger, FileInv, TypeOK
    <3> QED BY <1>0, <3>1, <3>2, <3>3, <3>8, <3>9, StageStep DEF Working
  <2>2. CASE StopAccepting(d)
    <3>1. stage[d] = "triggered" /\ stage'[d] = "closed" /\ lock' = lock /\ path' = path
      BY <2>2 DEF StopAccepting, FileInv, TypeOK
    <3>2. LockOK' BY <2>0, <3>1 DEF FileInv, LockOK, Held
    <3>3. SocketMine' BY <2>0, <3>1 DEF FileInv, SocketMine
    <3>4. UNCHANGED <<doc, actor, saves, pending, write, tmp, disk>>
      BY <2>2 DEF StopAccepting, writerVars
    <3>5. stage' = [stage EXCEPT ![d] = stage'[d]] /\ actor' = [actor EXCEPT ![d] = actor'[d]]
      BY <2>2, <3>1, <3>4 DEF StopAccepting, FileInv, TypeOK
    <3>6. stage[d] \in Working /\ stage'[d] \in Working BY <3>1 DEF Working
    <3> QED BY <1>0, <3>2, <3>3, <3>4, <3>5, <3>6, StageStep
  <2>3. CASE Flushed(d)
    <3>1. stage[d] = "closed" /\ stage'[d] = "flushed" /\ lock' = lock /\ path' = path
      BY <2>3 DEF Flushed, FileInv, TypeOK
    <3>2. LockOK' BY <2>0, <3>1 DEF FileInv, LockOK, Held
    <3>3. SocketMine' BY <2>0, <3>1 DEF FileInv, SocketMine
    <3>4. actor'[d] = "stopped" /\ saves[d] = <<>> /\ pending[d] = <<>> /\ Idle(d)
      BY <2>3 DEF Flushed, Flushing, FileInv, TypeOK
    <3>8. UNCHANGED <<doc, saves, pending, write, tmp, disk>> /\ actor' = [actor EXCEPT ![d] = actor'[d]]
      BY <2>3 DEF Flushed, writerVars, FileInv, TypeOK
    <3>9. stage' = [stage EXCEPT ![d] = stage'[d]] BY <2>3 DEF Flushed, FileInv, TypeOK
    <3> QED BY <1>0, <3>1, <3>2, <3>3, <3>4, <3>8, <3>9, StageStep DEF Working
  <2>4. CASE Unlink(d)
    <3>1. stage[d] = "flushed" /\ stage'[d] = "unlinked" /\ lock' = lock
      BY <2>4 DEF Unlink, FileInv, TypeOK
    <3>2. LockOK' BY <2>0, <3>1 DEF FileInv, LockOK, Held
    <3>3. \A e \in Daemon : e # d => stage[e] \notin Held BY <3>1, Alone DEF Held
    <3>4. SocketMine' BY <2>0, <3>1, <3>3 DEF SocketMine, Held
    <3>5. actor[d] = "stopped" /\ saves[d] = <<>> /\ pending[d] = <<>> /\ Idle(d)
      BY <3>1 DEF FileInv, QuietOK, Working
    <3>8. UNCHANGED <<doc, actor, saves, pending, write, tmp, disk>>
      BY <2>4 DEF Unlink, writerVars
    <3>9. stage' = [stage EXCEPT ![d] = stage'[d]] /\ actor' = [actor EXCEPT ![d] = actor'[d]]
      BY <2>4, <3>8 DEF Unlink, FileInv, TypeOK
    <3>7. /\ stage'[d] \in Working => stage[d] \in Working
          /\ stage'[d] \notin Working =>
                actor'[d] = "stopped" /\ saves[d] = <<>> /\ pending[d] = <<>> /\ Idle(d)
      BY <3>1, <3>5, <3>8 DEF Working
    <3> QED BY <1>0, <3>2, <3>4, <3>7, <3>8, <3>9, StageStep
  <2>5. CASE Release(d)
    <3>1. stage[d] = "unlinked" /\ stage'[d] = "leaving" /\ lock' = None /\ path' = path
      BY <2>5 DEF Release, FileInv, TypeOK
    <3>3. \A e \in Daemon : e # d => stage[e] \notin Held BY <3>1, Alone DEF Held
    <3>2. LockOK' BY <2>0, <3>1, <3>3 DEF LockOK, Held
    <3>4. SocketMine' BY <2>0, <3>1, <3>3 DEF SocketMine, Held
    <3>5. actor[d] = "stopped" /\ saves[d] = <<>> /\ pending[d] = <<>> /\ Idle(d)
      BY <3>1 DEF FileInv, QuietOK, Working
    <3>8. UNCHANGED <<doc, actor, saves, pending, write, tmp, disk>>
      BY <2>5 DEF Release, writerVars
    <3>9. stage' = [stage EXCEPT ![d] = stage'[d]] /\ actor' = [actor EXCEPT ![d] = actor'[d]]
      BY <2>5, <3>8 DEF Release, FileInv, TypeOK
    <3>7. /\ stage'[d] \in Working => stage[d] \in Working
          /\ stage'[d] \notin Working =>
                actor'[d] = "stopped" /\ saves[d] = <<>> /\ pending[d] = <<>> /\ Idle(d)
      BY <3>1, <3>5, <3>8 DEF Working
    <3> QED BY <1>0, <3>2, <3>4, <3>7, <3>8, <3>9, StageStep
  <2>6. CASE Exit(d)
    <3>1. lock # d BY <2>6 DEF Exit, FileInv, LockOK, Held
    <3> QED BY <1>0, <2>6, <3>1, GoneStep DEF Exit
  <2> QED BY <1>3, <2>1, <2>2, <2>3, <2>4, <2>5, <2>6 DEF Finish
<1>4. ASSUME NEW d \in Daemon, Crash(d) PROVE FileInv'
  BY <1>0, <1>4, GoneStep DEF Crash
<1>5. ASSUME NEW d \in Daemon, Accept(d) PROVE FileInv'
  BY <1>0, <1>5, Unmoved DEF Accept, fileVars, writerVars
<1>6. ASSUME NEW c \in Client, Connect(c) PROVE FileInv'
  <2>1. CASE Spawn(c)
    <3>1. PICK d \in Daemon : stage[d] = "none" /\ stage' = [stage EXCEPT ![d] = "starting"]
      BY <2>1 DEF Spawn
    <3>2. \A e \in Daemon : stage'[e] = IF e = d THEN "starting" ELSE stage[e]
      BY <3>1 DEF FileInv, TypeOK
    <3>3. LockOK' BY <2>1, <3>1, <3>2 DEF FileInv, LockOK, Held, Spawn
    <3>4. SocketMine' BY <2>1, <3>1, <3>2 DEF FileInv, SocketMine, Spawn
    <3>5. actor[d] = "stopped" /\ saves[d] = <<>> /\ pending[d] = <<>> /\ Idle(d)
      BY <3>1 DEF FileInv, QuietOK, Working
    <3>6. stage'[d] = "starting" BY <3>2
    <3>7. UNCHANGED <<doc, saves, pending, write, tmp, disk>> /\ actor' = actor
      BY <2>1 DEF Spawn, writerVars
    <3>8. stage' = [stage EXCEPT ![d] = stage'[d]] BY <3>1, <3>6
    <3>9. actor' = [actor EXCEPT ![d] = actor'[d]] BY <3>7 DEF FileInv, TypeOK
    <3>10. stage'[d] \notin Working BY <3>6 DEF Working
    <3> QED BY <1>0, <3>3, <3>4, <3>5, <3>7, <3>8, <3>9, <3>10, StageStep
  <2>2. CASE Dial(c) BY <1>0, <2>2, Unmoved DEF Dial, fileVars, writerVars
  <2>3. CASE ProbeAnswered(c) BY <1>0, <2>3, Unmoved DEF ProbeAnswered, fileVars, writerVars
  <2>4. CASE ProbesFail(c) BY <1>0, <2>4, Unmoved DEF ProbesFail, fileVars, writerVars
  <2>5. CASE GiveUp(c) BY <1>0, <2>5, Unmoved DEF GiveUp, fileVars, writerVars
  <2> QED BY <1>6, <2>1, <2>2, <2>3, <2>4, <2>5 DEF Connect
<1>7. ASSUME NEW c \in Client, Request(c) PROVE FileInv'
  BY <1>0, <1>7, Unmoved DEF Request, fileVars, writerVars
<1>8. CASE UNCHANGED vars
  BY <1>0, <1>8, Unmoved DEF vars, fileVars, writerVars
<1> QED BY <1>1, <1>2, <1>3, <1>4, <1>5, <1>6, <1>7, <1>8 DEF Next

(* The inductive invariant holds throughout. *)
THEOREM FileInvariant == Spec => []FileInv
  BY FileInit, FileStep, PTL DEF Spec

(* One daemon at a time has the socket, and it is its own (SocketMine): for *)
(* any number of daemons, however they start, stop and crash.               *)
THEOREM OneDaemonServes == Spec => []SocketMine
<1>1. FileInv => SocketMine BY DEF FileInv
<1> QED BY <1>1, FileInvariant, PTL

LEMMA DiskGrows ==
  ASSUME FileInv, [Next]_vars
  PROVE  disk.changes \subseteq disk'.changes /\ disk'.whole
<1>1. CASE disk' = disk BY <1>1 DEF FileInv, WholeOK
<1>2. CASE disk' # disk
  <2>1. PICK d \in Daemon : Serve(d) \/ Renamed(d)
    <3>1. ASSUME NEW d \in Daemon, Start(d) PROVE Serve(d)
      BY <1>2, <3>1 DEF Start, TakeLock, LoseRace, Bind, writerVars
    <3>2. ASSUME NEW d \in Daemon, Actor(d) \/ Accept(d) \/ Trigger(d) \/ Crash(d) PROVE FALSE
      BY <1>2, <3>2 DEF Actor, Handle, HandleShutdown, Accept, Trigger, Crash, writerVars
    <3>3. ASSUME NEW d \in Daemon, Writer(d) PROVE Renamed(d)
      BY <1>2, <3>3 DEF Writer, Save, Debounced, Flush, StartWrite, Filled, WriteFails
    <3>4. ASSUME NEW d \in Daemon, Finish(d) PROVE FALSE
      BY <1>2, <3>4 DEF Finish, StopAccepting, Flushed, Unlink, Release, Exit, writerVars
    <3>5. ASSUME NEW c \in Client, Connect(c) PROVE FALSE
      BY <1>2, <3>5 DEF Connect, Dial, Spawn, ProbeAnswered, ProbesFail, GiveUp, writerVars
    <3>6. ASSUME NEW c \in Client, Request(c) PROVE FALSE
      BY <1>2, <3>6 DEF Request, writerVars
    <3>7. ~UNCHANGED vars BY <1>2 DEF vars, writerVars
    <3> QED BY <3>1, <3>2, <3>3, <3>4, <3>5, <3>6, <3>7 DEF Next
  <2>2. CASE Serve(d)
    BY <2>2 DEF Serve, OnDisk, FileInv, WholeOK
  <2>3. CASE Renamed(d)
    <3>1. stage[d] \in Working BY <2>3 DEF Renamed, FileInv, QuietOK, Idle
    <3>2. disk.changes \subseteq write[d].file
      BY <2>3, <3>1 DEF Renamed, FileInv, NewerOK, Newer, Written, Idle
    <3> QED BY <2>3, <3>2 DEF Renamed, FileInv, WholeOK
  <2> QED BY <2>1, <2>2, <2>3
<1> QED BY <1>1, <1>2

(* workspace.json only gains changes and is never half written              *)
(* (FileOnlyGrows), also when writes fail and daemons die in the middle.    *)
THEOREM FileNeverGoesBack == Spec => FileOnlyGrows
<1>1. FileInv /\ [Next]_vars => [disk.changes \subseteq disk'.changes /\ disk'.whole]_disk
  BY DiskGrows
<1> QED BY <1>1, FileInvariant, PTL DEF Spec, FileOnlyGrows

-----------------------------------------------------------------------------
(* What was answered "ok" is kept, if the last write is *)

LEMMA TailFacts ==
  ASSUME NEW S, NEW s \in Seq(S), s # <<>>
  PROVE  /\ Len(s) \in Nat /\ Len(s) >= 1 /\ Tail(s) \in Seq(S) /\ Len(Tail(s)) = Len(s) - 1
         /\ Len(s) = 1 => Tail(s) = <<>>
         /\ Len(s) > 1 => Tail(s) # <<>> /\ Tail(s)[Len(s) - 1] = s[Len(s)]
<1>1. Len(s) \in Nat /\ Len(s) # 0 BY EmptySeq, LenProperties
<1>2. /\ Tail(s) \in Seq(S) /\ Len(Tail(s)) = Len(s) - 1
      /\ \A i \in 1 .. Len(Tail(s)) : Tail(s)[i] = s[i + 1]
  BY HeadTailProperties
<1>3. Tail(s) = <<>> <=> Len(Tail(s)) = 0 BY <1>2, EmptySeq
<1>4. ASSUME Len(s) > 1 PROVE Tail(s)[Len(s) - 1] = s[Len(s)]
  <2>1. Len(s) - 1 \in 1 .. Len(Tail(s)) BY <1>1, <1>2, <1>4
  <2> QED BY <1>1, <1>2, <2>1
<1> QED BY <1>1, <1>2, <1>3, <1>4

LEMMA LatestStep ==
  ASSUME FileInv, LatestOK, [Next]_vars
  PROVE  LatestOK'
<1> SUFFICES ASSUME NEW e \in Daemon, stage'[e] \in Working PROVE Latest(e)'
  BY DEF LatestOK
<1>0. TypeOK /\ TypeOK' BY TypeStep DEF FileInv
<1>1. ASSUME NEW d \in Daemon, Actor(d) \/ Writer(d) PROVE Latest(e)'
  <2>1. stage[d] \in Working /\ stage' = stage
    BY <1>1 DEF FileInv, QuietOK, Idle, Actor, Handle, HandleShutdown, Writer, Save, Debounced, Flush,
                StartWrite, Filled, Renamed, WriteFails
  <2>2. e = d BY <2>1, Alone DEF Held, Working
  <2>3. Latest(d) BY <2>1 DEF LatestOK
  <2>4. saves[d] \in Seq(Document) BY <1>0 DEF TypeOK
  <2>5. CASE Handle(d)
    <3>1. saves'[d] = Append(saves[d], doc'[d]) BY <1>0, <2>5 DEF Handle, TypeOK
    <3>2. doc'[d] \in Document BY <1>0 DEF TypeOK
    <3> QED BY <2>2, <2>4, <3>1, <3>2 DEF Latest
  <2>6. CASE HandleShutdown(d)
    <3>1. saves'[d] = Append(saves[d], doc[d]) /\ doc' = doc BY <1>0, <2>6 DEF HandleShutdown, TypeOK
    <3>2. doc[d] \in Document BY <1>0 DEF TypeOK
    <3> QED BY <2>2, <2>4, <3>1, <3>2 DEF Latest
  <2>7. CASE Save(d)
    <3>1. saves'[d] = Tail(saves[d]) /\ pending'[d] = <<saves[d][1]>> /\ doc' = doc /\ saves[d] # <<>>
      BY <1>0, <2>4, <2>7 DEF Save, TypeOK
    <3>2. Waiting(d)' = saves[d][1] BY <3>1 DEF Waiting
    <3>3. saves[d][Len(saves[d])] = doc[d] BY <2>3, <3>1 DEF Latest
    <3>4. CASE Len(saves[d]) = 1
      <4>1. saves'[d] = <<>> BY <2>4, <3>1, <3>4, TailFacts
      <4> QED BY <2>2, <3>1, <3>2, <3>3, <3>4, <4>1 DEF Latest
    <3>5. CASE Len(saves[d]) > 1
      <4>2. saves'[d] # <<>> /\ saves'[d][Len(saves'[d])] = saves[d][Len(saves[d])]
        BY <2>4, <3>1, <3>5, TailFacts
      <4> QED BY <2>2, <3>1, <3>3, <4>2 DEF Latest
    <3> DEFINE n == Len(saves[d])
    <3>6. n \in Nat /\ n >= 1 BY <2>4, <3>1, TailFacts
    <3> HIDE DEF n
    <3>7. n = 1 \/ n > 1 BY <3>6
    <3> QED BY <3>4, <3>5, <3>7 DEF n
  <2>8. CASE pending[d] # <<>> /\ Idle(d) /\ StartWrite(d)
    <3>1. write'[d] = [step |-> "create", file |-> pending[d][1]] /\ pending'[d] = <<>>
      BY <1>0, <2>8 DEF StartWrite, TypeOK
    <3>2. Waiting(d)' = Waiting(d) BY <2>8, <3>1 DEF Written, Waiting, Idle
    <3> QED BY <2>2, <2>3, <2>8, <3>2 DEF Latest, StartWrite
  <2>9. CASE Filled(d)
    <3>1. write[d] \in [step : {"none", "failed", "create", "rename"}, file : Document] BY <1>0 DEF TypeOK
    <3>2. write'[d] = [step |-> "rename", file |-> write[d].file] BY <1>0, <2>9, <3>1 DEF Filled, TypeOK
    <3>3. Waiting(d)' = Waiting(d) BY <2>9, <3>2 DEF Written, Waiting, Filled, Idle
    <3> QED BY <2>2, <2>3, <2>9, <3>3 DEF Latest, Filled, Failed
  <2>10. CASE Renamed(d)
    <3>1. disk'.changes = write[d].file BY <2>10 DEF Renamed, FileInv, WholeOK
    <3>2. write'[d] = NoWrite BY <1>0, <2>10 DEF Renamed, TypeOK
    <3>3. Waiting(d)' = Waiting(d) BY <2>10, <3>1, <3>2 DEF Written, Waiting, Renamed, Idle, NoWrite
    <3> QED BY <2>2, <2>3, <2>10, <3>3 DEF Latest, Renamed, Failed
  <2>11. CASE WriteFails(d)
    <3>1. write'[d] = Failed /\ pending'[d] = pending[d] /\ saves'[d] = saves[d] /\ doc' = doc
      BY <1>0, <2>11 DEF WriteFails, TypeOK
    <3>2. pending[d] # <<>> => Waiting(d)' = Waiting(d) BY <3>1 DEF Waiting
    <3> QED BY <2>2, <2>3, <2>11, <3>1, <3>2 DEF Latest, WriteFails, Failed
  <2> QED BY <1>1, <2>5, <2>6, <2>7, <2>8, <2>9, <2>10, <2>11 DEF Actor, Writer, Debounced, Flush, Flushing
<1>2. CASE Serve(e)
  <2>1. saves[e] = <<>> /\ pending[e] = <<>> /\ Idle(e)
    BY <1>2 DEF Serve, FileInv, QuietOK, Working
  <2>2. disk' = disk /\ doc'[e] = disk.changes
    BY <1>0, <1>2 DEF Serve, Loaded, OnDisk, FileInv, WholeOK, TypeOK
  <2> QED BY <1>2, <2>1, <2>2 DEF Serve, Latest, Waiting, Written, Idle
<1>3. CASE (\A d \in Daemon : ~Actor(d) /\ ~Writer(d)) /\ ~Serve(e)
  <2> DEFINE Same == /\ stage[e] \in Working /\ disk' = disk /\ doc'[e] = doc[e]
                     /\ saves'[e] = saves[e] /\ pending'[e] = pending[e] /\ write'[e] = write[e]
  <2>2. ASSUME NEW d \in Daemon, Start(d) PROVE Same
    <3>1. CASE TakeLock(d) BY <1>0, <3>1 DEF TakeLock, writerVars, TypeOK, Working
    <3>2. CASE LoseRace(d) BY <1>0, <3>2 DEF LoseRace, writerVars, TypeOK, Working
    <3>3. CASE Bind(d) BY <1>0, <3>3 DEF Bind, writerVars, TypeOK, Working
    <3>4. CASE Serve(d)
      <4>1. d # e /\ stage[d] \in Held BY <1>3, <3>4 DEF Serve, Held
      <4>2. stage[e] \in Working BY <1>0, <3>4, <4>1 DEF Serve, TypeOK
      <4> QED BY <4>1, <4>2, Alone
    <3> QED BY <2>2, <3>1, <3>2, <3>3, <3>4 DEF Start
  <2>3. ASSUME NEW d \in Daemon, Finish(d) PROVE Same
    <3>1. CASE StopAccepting(d) BY <1>0, <3>1 DEF StopAccepting, writerVars, TypeOK, Working
    <3>2. CASE Flushed(d) BY <1>0, <3>2 DEF Flushed, writerVars, TypeOK, Working
    <3>3. CASE Unlink(d) BY <1>0, <3>3 DEF Unlink, writerVars, TypeOK, Working
    <3>4. CASE Release(d) BY <1>0, <3>4 DEF Release, writerVars, TypeOK, Working
    <3>5. CASE Exit(d) BY <1>0, <3>5 DEF Exit, Gone, TypeOK, Working
    <3> QED BY <2>3, <3>1, <3>2, <3>3, <3>4, <3>5 DEF Finish
  <2>4. ASSUME NEW d \in Daemon, Accept(d) PROVE Same
    BY <2>4 DEF Accept, writerVars
  <2>5. ASSUME NEW d \in Daemon, Trigger(d) PROVE Same
    BY <1>0, <2>5 DEF Trigger, writerVars, TypeOK, Working
  <2>6. ASSUME NEW d \in Daemon, Crash(d) PROVE Same
    BY <1>0, <2>6 DEF Crash, Gone, TypeOK, Working
  <2>7. ASSUME NEW c \in Client, Connect(c) PROVE Same
    <3>1. CASE Dial(c) BY <3>1 DEF Dial, writerVars
    <3>2. CASE Spawn(c)
      <4>1. PICK d \in Daemon : stage' = [stage EXCEPT ![d] = "starting"] BY <3>2 DEF Spawn
      <4>2. stage[e] \in Working BY <1>0, <4>1 DEF TypeOK, Working
      <4> QED BY <3>2, <4>2 DEF Spawn, writerVars
    <3>3. CASE ProbeAnswered(c) BY <3>3 DEF ProbeAnswered, writerVars
    <3>4. CASE ProbesFail(c) BY <3>4 DEF ProbesFail, writerVars
    <3>5. CASE GiveUp(c) BY <3>5 DEF GiveUp, writerVars
    <3> QED BY <2>7, <3>1, <3>2, <3>3, <3>4, <3>5 DEF Connect
  <2>8. ASSUME NEW c \in Client, Request(c) PROVE Same
    BY <2>8 DEF Request, writerVars
  <2>9. ASSUME UNCHANGED vars PROVE Same
    BY <2>9 DEF vars, writerVars, clientVars
  <2> HIDE DEF Same
  <2>1. Same BY <1>3, <2>2, <2>3, <2>4, <2>5, <2>6, <2>7, <2>8, <2>9 DEF Next
  <2> QED BY <2>1 DEF Same, LatestOK, Latest, Waiting, Written, Idle
<1> QED BY <1>1, <1>2, <1>3

(* A daemon that has flushed does not write any more: how its last write    *)
(* ended is settled.                                                        *)
LEMMA MarkKept ==
  ASSUME FileInv, [Next]_vars, NEW e \in Daemon, stage'[e] \in {"flushed", "unlinked"}
  PROVE  write'[e] = write[e]
<1>0. TypeOK BY DEF FileInv
<1>1. ASSUME NEW d \in Daemon, Actor(d) \/ Writer(d) PROVE write'[e] = write[e]
  <2>1. stage[d] \in Working /\ stage' = stage
    BY <1>1 DEF FileInv, QuietOK, Idle, Actor, Handle, HandleShutdown, Writer, Save, Debounced, Flush,
                StartWrite, Filled, Renamed, WriteFails
  <2>2. e # d BY <2>1 DEF Working
  <2> QED BY <1>0, <1>1, <2>2 DEF TypeOK, Actor, Handle, HandleShutdown, Writer, Save, Debounced, Flush,
                StartWrite, Filled, Renamed, WriteFails
<1>2. ASSUME NEW d \in Daemon, Start(d) \/ Accept(d) \/ Trigger(d) PROVE write'[e] = write[e]
  BY <1>2 DEF Start, TakeLock, LoseRace, Bind, Serve, Accept, Trigger, writerVars
<1>3. ASSUME NEW d \in Daemon, Finish(d), ~Exit(d) PROVE write'[e] = write[e]
  BY <1>3 DEF Finish, StopAccepting, Flushed, Unlink, Release, writerVars
<1>4. ASSUME NEW d \in Daemon, Exit(d) \/ Crash(d) PROVE write'[e] = write[e]
  <2>1. e # d BY <1>0, <1>4 DEF Exit, Crash, Gone, TypeOK
  <2> QED BY <1>0, <1>4, <2>1 DEF Exit, Crash, Gone, TypeOK
<1>5. ASSUME NEW c \in Client, Connect(c) \/ Request(c) PROVE write'[e] = write[e]
  BY <1>5 DEF Connect, Dial, Spawn, ProbeAnswered, ProbesFail, GiveUp, Request, writerVars
<1>6. CASE UNCHANGED vars BY <1>6 DEF vars, writerVars
<1> QED BY <1>1, <1>2, <1>3, <1>4, <1>5, <1>6 DEF Next

LEMMA AckedStep ==
  ASSUME FileInv, KeptInv, [Next]_vars
  PROVE  AckedOK' /\ AckedSurvives'
<1>0. TypeOK /\ TypeOK' /\ AckedOK /\ AckedSurvives BY TypeStep DEF FileInv, KeptInv
<1>1. /\ disk.changes \subseteq disk'.changes
      /\ \A e \in Daemon : stage'[e] \in {"flushed", "unlinked"} => write'[e] = write[e]
  BY DiskGrows, MarkKept
<1> DEFINE Same == stage' = stage /\ acked' = acked /\ promised' = promised
                   /\ \A e \in Daemon : doc[e] \subseteq doc'[e]
<1>2. Same => AckedOK' /\ AckedSurvives' BY <1>0, <1>1 DEF AckedOK, AckedSurvives
<1>3. ASSUME NEW d \in Daemon, Start(d) PROVE AckedOK' /\ AckedSurvives'
  <2>1. promised' = promised /\ acked' = acked BY <1>3 DEF Start, TakeLock, LoseRace, Bind, Serve
  <2>2. AckedSurvives' BY <1>0, <1>1, <2>1 DEF AckedSurvives
  <2>3. acked[d] = {} /\ stage'[d] \notin {"flushed", "unlinked", "leaving"}
    BY <1>0, <1>3 DEF AckedOK, TypeOK, Start, TakeLock, LoseRace, Bind, Serve, Working
  <2>4. \A e \in Daemon : e # d => stage'[e] = stage[e] /\ doc'[e] = doc[e]
    BY <1>0, <1>3 DEF TypeOK, Start, TakeLock, LoseRace, Bind, Serve
  <2> QED BY <1>0, <1>1, <2>1, <2>2, <2>3, <2>4 DEF AckedOK
<1>4. ASSUME NEW d \in Daemon, Handle(d) PROVE AckedOK' /\ AckedSurvives'
  <2>1. stage[d] \in Working BY <1>4 DEF Handle, FileInv, QuietOK
  <2>2. stage' = stage /\ disk' = disk /\ promised' = promised BY <1>4 DEF Handle
  <2>3. acked'[d] = acked[d] \cup {Head(cmds[d])} /\ doc'[d] = doc[d] \cup {Head(cmds[d])}
    BY <1>0, <1>4 DEF Handle, TypeOK
  <2>4. \A e \in Daemon : e # d => acked'[e] = acked[e] /\ doc'[e] = doc[e]
    BY <1>0, <1>4 DEF Handle, TypeOK
  <2> QED BY <1>0, <1>1, <2>1, <2>2, <2>3, <2>4 DEF AckedOK, AckedSurvives, Working
<1>5. ASSUME NEW d \in Daemon, HandleShutdown(d) \/ Writer(d) \/ Accept(d) PROVE AckedOK' /\ AckedSurvives'
  BY <1>2, <1>5 DEF HandleShutdown, Writer, Save, Debounced, Flush, StartWrite, Filled, Renamed, WriteFails,
                    Accept, writerVars
<1>6. ASSUME NEW d \in Daemon, Finish(d) \/ Trigger(d) PROVE AckedOK' /\ AckedSurvives'
  <2>1. CASE StopAccepting(d) \/ Trigger(d)
    <3>1. stage[d] \in Working /\ stage'[d] \in Working /\ acked' = acked /\ doc' = doc /\ promised' = promised
      BY <1>0, <2>1 DEF StopAccepting, Trigger, TypeOK, Working
    <3>2. \A e \in Daemon : e # d => stage'[e] = stage[e]
      BY <1>0, <2>1 DEF StopAccepting, Trigger, TypeOK
    <3>3. stage'[d] \notin {"flushed", "unlinked"} BY <3>1 DEF Working
    <3> QED BY <1>0, <1>1, <3>1, <3>2, <3>3 DEF AckedOK, AckedSurvives
  <2>2. CASE Flushed(d)
    <3>1. stage[d] \in Working /\ stage'[d] = "flushed" /\ acked' = acked /\ doc' = doc /\ promised' = promised
      BY <1>0, <2>2 DEF Flushed, TypeOK, Working
    <3>2. Latest(d) /\ saves[d] = <<>> /\ pending[d] = <<>> /\ Idle(d)
      BY <2>2, <3>1 DEF KeptInv, LatestOK, Flushed, Flushing
    <3>3. write[d] # Failed => disk.changes = doc[d] BY <3>2 DEF Latest, Waiting, Written
    <3>6. write' = write BY <2>2 DEF Flushed, writerVars
    <3>4. \A e \in Daemon : e # d => stage'[e] = stage[e] BY <1>0, <2>2 DEF Flushed, TypeOK
    <3>5. write[d] # Failed => acked'[d] \subseteq disk'.changes BY <1>0, <1>1, <3>1, <3>3 DEF AckedOK
    <3> QED BY <1>0, <1>1, <3>1, <3>4, <3>5, <3>6 DEF AckedOK, AckedSurvives, Working
  <2>3. CASE Unlink(d)
    <3>1. stage[d] = "flushed" /\ stage'[d] = "unlinked" /\ acked' = acked /\ doc' = doc /\ promised' = promised
      BY <1>0, <2>3 DEF Unlink, TypeOK
    <3>2. \A e \in Daemon : e # d => stage'[e] = stage[e] BY <1>0, <2>3 DEF Unlink, TypeOK
    <3> QED BY <1>0, <1>1, <3>1, <3>2 DEF AckedOK, AckedSurvives, Working
  <2>4. CASE Release(d)
    <3>1. stage[d] = "unlinked" /\ stage'[d] = "leaving" /\ acked' = acked /\ doc' = doc
          /\ promised' = (IF write[d] = Failed THEN promised ELSE promised \cup acked[d])
      BY <1>0, <2>4 DEF Release, TypeOK
    <3>2. \A e \in Daemon : e # d => stage'[e] = stage[e] BY <1>0, <2>4 DEF Release, TypeOK
    <3> QED BY <1>0, <1>1, <3>1, <3>2 DEF AckedOK, AckedSurvives, Working
  <2>5. CASE Exit(d)
    <3>1. acked'[d] = {} /\ stage'[d] = "none" /\ promised' = promised BY <1>0, <2>5 DEF Exit, Gone, TypeOK
    <3>2. \A e \in Daemon : e # d => stage'[e] = stage[e] /\ acked'[e] = acked[e] /\ doc'[e] = doc[e]
      BY <1>0, <2>5 DEF Exit, Gone, TypeOK
    <3> QED BY <1>0, <1>1, <3>1, <3>2 DEF AckedOK, AckedSurvives, Working
  <2> QED BY <1>6, <2>1, <2>2, <2>3, <2>4, <2>5 DEF Finish
<1>7. ASSUME NEW d \in Daemon, Crash(d) PROVE AckedOK' /\ AckedSurvives'
  <2>1. acked'[d] = {} /\ stage'[d] = "none" /\ promised' = promised BY <1>0, <1>7 DEF Crash, Gone, TypeOK
  <2>2. \A e \in Daemon : e # d => stage'[e] = stage[e] /\ acked'[e] = acked[e] /\ doc'[e] = doc[e]
    BY <1>0, <1>7 DEF Crash, Gone, TypeOK
  <2> QED BY <1>0, <1>1, <2>1, <2>2 DEF AckedOK, AckedSurvives, Working
<1>8. ASSUME NEW c \in Client, Spawn(c) PROVE AckedOK' /\ AckedSurvives'
  <2>1. PICK d \in Daemon : stage[d] = "none" /\ stage' = [stage EXCEPT ![d] = "starting"]
    BY <1>8 DEF Spawn
  <2>2. acked' = acked /\ doc' = doc /\ promised' = promised BY <1>8 DEF Spawn
  <2>3. \A e \in Daemon : stage'[e] = IF e = d THEN "starting" ELSE stage[e] BY <1>0, <2>1 DEF TypeOK
  <2> QED BY <1>0, <1>1, <2>1, <2>2, <2>3 DEF AckedOK, AckedSurvives, Working
<1>9. ASSUME NEW c \in Client, Connect(c) \/ Request(c), ~Spawn(c) PROVE AckedOK' /\ AckedSurvives'
  BY <1>2, <1>9 DEF Connect, Dial, ProbeAnswered, ProbesFail, GiveUp, Request
<1>10. CASE UNCHANGED vars BY <1>2, <1>10 DEF vars
<1> QED BY <1>3, <1>4, <1>5, <1>6, <1>7, <1>8, <1>9, <1>10 DEF Next, Actor

(* A change answered "ok" by a daemon that stopped by the book is in the    *)
(* file for ever after, unless its last write failed (AckedSurvives).       *)
THEOREM CleanStopKeepsAll == Spec => []AckedSurvives
<1>1. Init => KeptInv
  BY DEF Init, KeptInv, LatestOK, AckedOK, AckedSurvives, Working
<1>2. FileInv /\ KeptInv /\ [Next]_vars => KeptInv'
  BY LatestStep, AckedStep DEF KeptInv
<1>3. KeptInv => AckedSurvives BY DEF KeptInv
<1> QED BY <1>1, <1>2, <1>3, FileInvariant, PTL DEF Spec
=============================================================================
