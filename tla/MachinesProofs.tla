--------------------------- MODULE MachinesProofs ---------------------------
(***************************************************************************)
(* Proofs about the machines of module Machines: none of their invariants  *)
(* is inductive by itself, so each machine has an inductive one here.      *)
(***************************************************************************)
EXTENDS Machines, Integers, SequenceTheorems, FiniteSetTheorems, WellFoundedInduction, TLAPS
-----------------------------------------------------------------------------
(* The bytes of a terminal: every chunk a child wrote is in the terminal,  *)
(* in the channel or in the engine; the reader thread ends when the first  *)
(* is empty and closed, the feed task when the second is empty too         *)
PipeInv ==
  /\ tty \in [out : Nat, in : Nat]
  /\ shell \in [alive : BOOLEAN, wrote : Nat, owes : Nat, unasked : Nat]
  /\ chunks \in Nat /\ feed \in [runs : BOOLEAN, fed : Nat]
  /\ feed.fed + chunks + tty.out = shell.wrote
  /\ ~reader => tty.out = 0 /\ ~shell.alive /\ ~holder
  /\ hint => ~reader /\ chunks = 0

LEMMA PipeStarts == Pipe!Init => PipeInv
<1> SUFFICES ASSUME Pipe!Init PROVE PipeInv
  OBVIOUS
<1>1. reader /\ ~hint
  BY Zenon DEF Pipe!Init
<1>2. /\ tty = [out |-> 0, in |-> 0] /\ chunks = 0 /\ feed = [runs |-> TRUE, fed |-> 0]
      /\ shell = [alive |-> TRUE, wrote |-> 0, owes |-> 0, unasked |-> 0]
  BY Zenon DEF Pipe!Init
<1> QED
  BY <1>1, <1>2 DEF PipeInv

LEMMA PipeKeeps == PipeInv /\ [Pipe!Next]_pipeVars => PipeInv'
<1> SUFFICES ASSUME PipeInv, [Pipe!Next]_pipeVars PROVE PipeInv'
  OBVIOUS
<1> USE DEF PipeInv
<1>1. CASE Pipe!Write
  <2>1. tty' \in [out : Nat, in : Nat] /\ tty'.out = tty.out + 1
    BY <1>1 DEF Pipe!Write
  <2>2. /\ shell' \in [alive : BOOLEAN, wrote : Nat, owes : Nat, unasked : Nat]
        /\ shell'.wrote = shell.wrote + 1
    <3>1. \/ shell' = [shell EXCEPT !.wrote = @ + 1, !.owes = @ - 1] /\ shell.owes > 0
          \/ shell' = [shell EXCEPT !.wrote = @ + 1, !.unasked = @ + 1]
      BY <1>1 DEF Pipe!Write
    <3>2. CASE shell' = [shell EXCEPT !.wrote = @ + 1, !.owes = @ - 1] /\ shell.owes > 0
      <4>1. shell' = [alive |-> shell.alive, wrote |-> shell.wrote + 1, owes |-> shell.owes - 1,
                      unasked |-> shell.unasked]
        BY <3>2, Zenon
      <4> QED
        BY <3>2, <4>1
    <3>3. CASE shell' = [shell EXCEPT !.wrote = @ + 1, !.unasked = @ + 1]
      <4>1. shell' = [alive |-> shell.alive, wrote |-> shell.wrote + 1, owes |-> shell.owes,
                      unasked |-> shell.unasked + 1]
        BY <3>3, Zenon
      <4> QED
        BY <3>3, <4>1
    <3> QED
      BY <3>1, <3>2, <3>3
  <2>3. reader /\ UNCHANGED <<reader, chunks, feed, hint>>
    BY <1>1 DEF Pipe!Write, Pipe!Held
  <2> QED
    BY <2>1, <2>2, <2>3
<1>2. CASE Pipe!ReadInput
  BY <1>2 DEF Pipe!ReadInput
<1>3. CASE Pipe!Dies
  BY <1>3 DEF Pipe!Dies
<1>4. CASE Pipe!LetsGo
  BY <1>4 DEF Pipe!LetsGo
<1>5. CASE Pipe!Read
  BY <1>5 DEF Pipe!Read
<1>6. CASE Pipe!Eof
  BY <1>6 DEF Pipe!Eof, Pipe!Held
<1>7. CASE Pipe!Feed
  <2>1. PICK n \in 1..chunks :
          /\ chunks' = chunks - n /\ feed' = [feed EXCEPT !.fed = @ + n]
          /\ UNCHANGED <<tty, shell, holder, reader, hint>>
    BY <1>7 DEF Pipe!Feed
  <2>2. n \in Nat /\ n <= chunks
    BY <2>1
  <2>3. feed'.fed = feed.fed + n /\ feed' \in [runs : BOOLEAN, fed : Nat]
    BY <2>1, <2>2
  <2> QED
    BY <2>1, <2>2, <2>3
<1>8. CASE Pipe!FeedEnds
  BY <1>8 DEF Pipe!FeedEnds
<1>9. CASE Pipe!Deliver
  <2>1. tty' \in [out : Nat, in : Nat] /\ tty'.out = tty.out
    <3>1. tty' = tty \/ tty' = [tty EXCEPT !.in = @ + 1]
      BY <1>9 DEF Pipe!Deliver
    <3> QED
      BY <3>1
  <2>2. UNCHANGED <<shell, holder, reader, chunks, feed, hint>>
    BY <1>9 DEF Pipe!Deliver
  <2> QED
    BY <2>1, <2>2
<1>10. CASE Pipe!Type
  BY <1>10 DEF Pipe!Type
<1>11. CASE UNCHANGED pipeVars
  BY <1>11 DEF pipeVars
<1> HIDE DEF PipeInv
<1> QED
  BY <1>1, <1>2, <1>3, <1>4, <1>5, <1>6, <1>7, <1>8, <1>9, <1>10, <1>11
  DEF Pipe!Next, Pipe!Echo, Pipe!Threads

(* The exit of a child is only hinted when all it wrote is in the engine,  *)
(* for any buffers, channel and amount of output (feed_loop)               *)
THEOREM LastWordsShow == MachinesSpec => []LastWords
<1>1. MachinesInit => PipeInv
  BY PipeStarts DEF MachinesInit
<1>2. PipeInv /\ [MachinesNext]_machinesVars => PipeInv'
  <2>1. [MachinesNext]_machinesVars => [Pipe!Next]_pipeVars
    BY DEF MachinesNext, machinesVars, pipeVars, ControlStep, ScrollStep, PipeStep, HostStep, ConnStep, PointerStep, MemoryStep
  <2> QED
    BY <2>1, PipeKeeps
<1>3. PipeInv => LastWords
  BY DEF PipeInv, LastWords, Pipe!LastWords
<1> QED
  BY <1>1, <1>2, <1>3, PTL DEF MachinesSpec
-----------------------------------------------------------------------------
(* The processes of a daemon: one that has been waited for stays so, a     *)
(* Surface says it has exited only when its child was waited for, and no   *)
(* Surface that is yet to come has a child                                 *)
Process == {"none", "running", "signalled", "zombie", "reaped"}
Slot == [status : {"running", "exited"}, hint : BOOLEAN, reported : BOOLEAN, fed : BOOLEAN]

HostTyped ==
  /\ child \in [Hosting!Ids -> Process]
  /\ slot \in [Hosting!Ids -> Slot]
  /\ fresh \in Nat \ {0}
  /\ registry \subseteq Hosting!Ids /\ doomed \subseteq Hosting!Ids

HostInv ==
  /\ HostTyped
  /\ \A s \in Hosting!Ids : slot[s].status = "exited" => child[s] = "reaped"
  /\ \A s \in Hosting!Ids : s >= fresh => child[s] = "none"
  /\ Hosting!NoneSurvives

(* What every step but the start of a child does to the children and to    *)
(* what their Surfaces say                                                 *)
Aged(s, was, is, old, new) ==
  /\ is[s] \in Process
  /\ was[s] \in {"none", "reaped"} => is[s] = was[s]
  /\ is[s] \in Hosting!Living => was[s] \in Hosting!Living
  /\ new[s] \in Slot
  /\ new[s].status = old[s].status \/ is[s] = "reaped"

LEMMA HostStarts == Hosting!Init => HostInv
<1> SUFFICES ASSUME Hosting!Init PROVE HostInv
  OBVIOUS
<1>1. HostTyped
  BY MachinesAssumption DEF Hosting!Init, HostTyped, Process, Slot
<1>2. \A s \in Hosting!Ids : slot[s].status = "running" /\ child[s] = "none"
  BY DEF Hosting!Init
<1>3. phase = "seeding"
  BY DEF Hosting!Init
<1> QED
  BY <1>1, <1>2, <1>3 DEF HostInv, Hosting!NoneSurvives

(* SIGHUP and SIGKILL *)
LEMMA Signals ==
  ASSUME HostTyped, NEW s \in Hosting!Ids, NEW t \in Hosting!Ids
  PROVE  /\ Aged(t, child, Hosting!HungUp(child, s), slot, slot)
         /\ Aged(t, child, Hosting!Slain(child, s), slot, slot)
         /\ Hosting!HungUp(child, s) \in [Hosting!Ids -> Process]
         /\ Hosting!Slain(child, s) \in [Hosting!Ids -> Process]
         /\ Hosting!Slain(child, s)[s] \notin Hosting!Living
  BY DEF HostTyped, Aged, Hosting!HungUp, Hosting!Slain, Process, Hosting!Living

LEMMA Ages ==
  ASSUME HostTyped, Hosting!Next \/ UNCHANGED hostVars, ~Hosting!Spawn
  PROVE  /\ child' \in [Hosting!Ids -> Process] /\ slot' \in [Hosting!Ids -> Slot]
         /\ \A s \in Hosting!Ids : Aged(s, child, child', slot, slot')
<1> DEFINE Goal == /\ child' \in [Hosting!Ids -> Process] /\ slot' \in [Hosting!Ids -> Slot]
                   /\ \A s \in Hosting!Ids : Aged(s, child, child', slot, slot')
<1>0. ASSUME UNCHANGED <<child, slot>> PROVE Goal
  BY <1>0 DEF HostTyped, Aged
<1>1. CASE Hosting!Exits
  <2>1. PICK s \in Hosting!Ids : child[s] \in Hosting!Living /\ child' = [child EXCEPT ![s] = "zombie"]
                                 /\ UNCHANGED slot
    BY <1>1 DEF Hosting!Exits
  <2> QED
    BY <2>1 DEF HostTyped, Aged, Process, Hosting!Living
<1>2. CASE Hosting!FeedEnds
  <2>1. PICK s \in Hosting!Ids : slot' = [slot EXCEPT ![s].hint = TRUE, ![s].fed = FALSE] /\ UNCHANGED child
    BY <1>2 DEF Hosting!FeedEnds
  <2>2. \A t \in Hosting!Ids : slot'[t] \in Slot /\ slot'[t].status = slot[t].status
    BY <2>1, Zenon DEF HostTyped, Slot
  <2>3. slot' \in [Hosting!Ids -> Slot]
    BY <2>1, <2>2, Zenon DEF HostTyped
  <2> QED
    BY <2>1, <2>2, <2>3 DEF HostTyped, Aged
<1>3. CASE Hosting!Kill \/ Hosting!Close
  <2>1. PICK s \in Hosting!Ids : child' \in {child, Hosting!HungUp(child, s), Hosting!Slain(child, s)}
                                 /\ UNCHANGED slot
    BY <1>3 DEF Hosting!Kill, Hosting!Close, Hosting!Signalled
  <2> QED
    BY <2>1, <1>0, Signals DEF HostTyped, Aged
<1>4. CASE Hosting!Visit
  <2>1. PICK s \in pump.todo :
          \/ child[s] = "zombie" /\ child' = [child EXCEPT ![s] = "reaped"]
             /\ slot' = [slot EXCEPT ![s].status = "exited", ![s].reported = TRUE]
          \/ UNCHANGED <<child, slot>>
    BY <1>4 DEF Hosting!Visit, Hosting!Polls
  <2>2. CASE /\ child[s] = "zombie" /\ child' = [child EXCEPT ![s] = "reaped"]
             /\ slot' = [slot EXCEPT ![s].status = "exited", ![s].reported = TRUE]
    <3>1. \A t \in Hosting!Ids : slot'[t] \in Slot /\ (t # s => slot'[t] = slot[t])
      BY <2>2, Zenon DEF HostTyped, Slot
    <3>2. slot' \in [Hosting!Ids -> Slot]
      BY <2>2, <3>1, Zenon DEF HostTyped
    <3> QED
      BY <2>2, <3>1, <3>2 DEF HostTyped, Aged, Process, Hosting!Living
  <2> QED
    BY <1>0, <2>1, <2>2
<1>5. CASE Hosting!HangUp
  <2>1. /\ child' = [s \in Hosting!Ids |-> IF s \in registry THEN Hosting!HungUp(child, s)[s] ELSE child[s]]
        /\ UNCHANGED slot
    BY <1>5 DEF Hosting!HangUp
  <2>2. \A s \in Hosting!Ids : child'[s] = child[s] \/ child'[s] = Hosting!HungUp(child, s)[s]
    BY <2>1
  <2>3. \A s \in Hosting!Ids : Aged(s, child, child', slot, slot')
    BY <2>1, <2>2, Signals DEF HostTyped, Aged
  <2> QED
    BY <2>1, <2>3 DEF HostTyped, Aged
<1>6. CASE Hosting!PollExit
  <2>1. PICK s \in doomed : /\ child[s] = "zombie" /\ child' = [child EXCEPT ![s] = "reaped"]
                            /\ slot' = [slot EXCEPT ![s].status = "exited"]
    BY <1>6 DEF Hosting!PollExit, Hosting!Polls
  <2>2. \A t \in Hosting!Ids : slot'[t] \in Slot /\ (t # s => slot'[t] = slot[t])
    BY <2>1, Zenon DEF HostTyped, Slot
  <2>3. slot' \in [Hosting!Ids -> Slot]
    BY <2>1, <2>2, Zenon DEF HostTyped
  <2> QED
    BY <2>1, <2>2, <2>3 DEF HostTyped, Aged, Process, Hosting!Living
<1>7. CASE Hosting!Deadline
  <2>1. /\ child' = [s \in Hosting!Ids |-> IF s \in doomed /\ slot[s].status = "running"
                                           THEN Hosting!Slain(child, s)[s] ELSE child[s]]
        /\ UNCHANGED slot
    BY <1>7 DEF Hosting!Deadline
  <2>2. \A s \in Hosting!Ids : child'[s] = child[s] \/ child'[s] = Hosting!Slain(child, s)[s]
    BY <2>1
  <2>3. \A s \in Hosting!Ids : Aged(s, child, child', slot, slot')
    BY <2>1, <2>2, Signals DEF HostTyped, Aged
  <2> QED
    BY <2>1, <2>3 DEF HostTyped, Aged
<1>8. CASE \/ Hosting!TailEnds \/ Hosting!Destroy \/ Hosting!Hear \/ Hosting!Begin \/ Hosting!Serve
           \/ UNCHANGED hostVars
  BY <1>0, <1>8 DEF Hosting!TailEnds, Hosting!Destroy, Hosting!Hear, Hosting!Begin, Hosting!Serve, hostVars
<1> QED
  BY <1>1, <1>2, <1>3, <1>4, <1>5, <1>6, <1>7, <1>8 DEF Hosting!Next

LEMMA HostKeeps == HostInv /\ [Hosting!Next]_hostVars => HostInv'
<1> SUFFICES ASSUME HostInv, [Hosting!Next]_hostVars PROVE HostInv'
  OBVIOUS
<1>1. HostTyped
  BY DEF HostInv
<1>2. CASE Hosting!Spawn
  <2>1. /\ phase \in {"seeding", "serving"} /\ fresh \in Hosting!Ids /\ fresh' = fresh + 1
        /\ UNCHANGED <<phase, doomed>>
    BY <1>1, <1>2, MachinesAssumption DEF Hosting!Spawn, Hosting!Acting, HostTyped, Hosting!Ids
  <2>2. \/ /\ child' = [child EXCEPT ![fresh] = "running"]
           /\ slot' = [slot EXCEPT ![fresh].fed = TRUE]
           /\ registry' = registry \cup {fresh}
        \/ UNCHANGED <<child, slot, registry>>
    BY <1>2 DEF Hosting!Spawn
  <2>3. /\ child' \in [Hosting!Ids -> Process] /\ registry' \subseteq Hosting!Ids
        /\ \A s \in Hosting!Ids : s # fresh => child'[s] = child[s]
    BY <1>1, <2>1, <2>2 DEF HostTyped, Process
  <2>4. /\ \A t \in Hosting!Ids : slot'[t] \in Slot /\ slot'[t].status = slot[t].status
        /\ slot' \in [Hosting!Ids -> Slot]
    <3>1. CASE slot' = [slot EXCEPT ![fresh].fed = TRUE]
      <4>1. \A t \in Hosting!Ids : slot'[t] \in Slot /\ slot'[t].status = slot[t].status
        BY <1>1, <3>1, Zenon DEF HostTyped, Slot
      <4> QED
        BY <1>1, <3>1, <4>1, Zenon DEF HostTyped
    <3>2. CASE UNCHANGED slot
      BY <1>1, <3>2 DEF HostTyped
    <3> QED
      BY <2>2, <3>1, <3>2
  <2>5. HostTyped'
    BY <1>1, <2>1, <2>3, <2>4 DEF HostTyped, Hosting!Ids
  <2>6. \A s \in Hosting!Ids : slot'[s].status = "exited" => child'[s] = "reaped"
    <3>1. fresh \in Nat /\ child[fresh] = "none"
      BY <1>1, <2>1 DEF HostInv, HostTyped
    <3> QED
      BY <2>3, <2>4, <3>1 DEF HostInv
  <2>7. \A s \in Hosting!Ids : s >= fresh' => child'[s] = "none"
    BY <1>1, <2>1, <2>3 DEF HostInv, HostTyped, Hosting!Ids
  <2> QED
    BY <2>1, <2>5, <2>6, <2>7 DEF HostInv, Hosting!NoneSurvives, Hosting!Ids
<1>3. CASE ~Hosting!Spawn
  <2>1. /\ child' \in [Hosting!Ids -> Process] /\ slot' \in [Hosting!Ids -> Slot]
        /\ \A s \in Hosting!Ids : Aged(s, child, child', slot, slot')
    BY <1>1, <1>3, Ages
  <2>2. /\ UNCHANGED fresh /\ registry' \subseteq registry /\ doomed' \in {doomed, registry}
        /\ phase' = "gone" => doomed' = doomed /\ (phase = "gone" \/ Hosting!Deadline)
    BY <1>3 DEF Hosting!Next, hostVars, Hosting!Exits, Hosting!TailEnds, Hosting!FeedEnds, Hosting!Kill,
       Hosting!Close, Hosting!Destroy, Hosting!Hear, Hosting!Begin, Hosting!Visit, Hosting!Serve,
       Hosting!HangUp, Hosting!PollExit, Hosting!Deadline
  <2>3. HostTyped'
    BY <1>1, <2>1, <2>2 DEF HostTyped, Hosting!Ids
  <2>4. \A s \in Hosting!Ids : slot'[s].status = "exited" => child'[s] = "reaped"
    BY <2>1 DEF HostInv, Aged
  <2>5. \A s \in Hosting!Ids : s >= fresh' => child'[s] = "none"
    BY <2>1, <2>2 DEF HostInv, Aged
  <2>6. ASSUME phase' = "gone", NEW s \in doomed' PROVE child'[s] \notin Hosting!Living
    <3>1. s \in doomed /\ s \in Hosting!Ids
      BY <1>1, <2>2, <2>6 DEF HostTyped
    <3>2. CASE phase = "gone"
      BY <2>1, <3>1, <3>2 DEF HostInv, Hosting!NoneSurvives, Aged
    <3>3. CASE Hosting!Deadline
      <4>1. child'[s] = IF slot[s].status = "running" THEN Hosting!Slain(child, s)[s] ELSE child[s]
        BY <3>1, <3>3 DEF Hosting!Deadline
      <4>2. slot[s].status \in {"running", "exited"}
        BY <1>1, <3>1 DEF HostTyped, Slot
      <4> QED
        BY <1>1, <3>1, <4>1, <4>2, Signals DEF HostInv, Hosting!Living
    <3> QED
      BY <2>2, <2>6, <3>2, <3>3
  <2> QED
    BY <2>3, <2>4, <2>5, <2>6 DEF HostInv, Hosting!NoneSurvives, Hosting!Ids, Hosting!Living
<1> QED
  BY <1>2, <1>3

(* No child a Surface had when the daemon was told to stop is alive when   *)
(* the daemon is gone, whatever the children are like and however they and *)
(* the pump's passes fall between the signals (SurfaceSupervisor::shutdown)*)
THEOREM NobodyIsLeft == MachinesSpec => []NoneSurvives
<1>1. MachinesInit => HostInv
  BY HostStarts DEF MachinesInit
<1>2. HostInv /\ [MachinesNext]_machinesVars => HostInv'
  <2>1. [MachinesNext]_machinesVars => [Hosting!Next]_hostVars
    BY DEF MachinesNext, machinesVars, hostVars, ControlStep, ScrollStep, PipeStep, HostStep, ConnStep, PointerStep, MemoryStep
  <2> QED
    BY <2>1, HostKeeps
<1>3. HostInv => NoneSurvives
  BY DEF HostInv, NoneSurvives
<1> QED
  BY <1>1, <1>2, <1>3, PTL DEF MachinesSpec
-----------------------------------------------------------------------------
(* The button: only MouseUp brings it up, and it either tells the program  *)
(* of the release or notes the excuse for not doing so                     *)
Told == [held : BOOLEAN, excuse : BOOLEAN]
Program == [asked : Pointers!Asked, told : Told]
Button == [down : {"up", "thumb", "track", "cell", "outside"}, left : Int]

PointerInv ==
  /\ program \in Program
  /\ button \in Button
  /\ Pointers!WellReported

LEMMA PointerStarts == Pointers!Init => PointerInv
<1> SUFFICES ASSUME Pointers!Init PROVE PointerInv
  OBVIOUS
<1>1. program = [asked |-> [protocol |-> "off", sgr |-> FALSE, alt |-> FALSE],
                 told |-> [held |-> FALSE, excuse |-> FALSE]]
  BY DEF Pointers!Init
<1>2. program \in Program /\ ~program.told.held
  BY <1>1, Zenon DEF Program, Told, Pointers!Asked
<1>3. button \in Button
  BY MachinesAssumption DEF Pointers!Init, Button
<1> QED
  BY <1>2, <1>3 DEF PointerInv, Pointers!WellReported

(* What a report other than a release does to what the program was told    *)
LEMMA Tellings ==
  ASSUME program \in Program, NEW kind \in {"press", "motion"}, NEW pressed, NEW cell,
         Pointers!Tell(kind, pressed, cell)
  PROVE  program' \in Program /\ program'.told.excuse = program.told.excuse
<1>1. Pointers!Told(kind) \in {[program.told EXCEPT !.held = TRUE], program.told}
  BY DEF Pointers!Told
<1>2. /\ Pointers!Told(kind) \in Told
      /\ Pointers!Told(kind).excuse = program.told.excuse
  BY <1>1, Zenon DEF Program, Told
<1>3. program' = program \/ program' = [program EXCEPT !.told = Pointers!Told(kind)]
  BY Zenon DEF Pointers!Tell
<1> QED
  BY <1>2, <1>3, Zenon DEF Program

LEMMA PointerKeeps == PointerInv /\ [Pointers!Next]_pointerVars => PointerInv'
<1> SUFFICES ASSUME PointerInv, [Pointers!Next]_pointerVars PROVE PointerInv'
  OBVIOUS
<1>1. program \in Program /\ button \in Button /\ Pointers!WellReported
  BY DEF PointerInv
<1>2. Pointers!Spent \in Button /\ Pointers!Spent.down = button.down
  BY <1>1 DEF Pointers!Spent, Button
<1>3. ASSUME program' = program, button' \in {button, Pointers!Spent} PROVE PointerInv'
  BY <1>1, <1>2, <1>3 DEF PointerInv, Pointers!WellReported
<1>4. CASE Pointers!Asks
  <2>1. PICK asked \in ModeSets : program' = [program EXCEPT !.asked = asked] /\ button' = Pointers!Spent
    BY <1>4 DEF Pointers!Asks, ModeSets
  <2>2. asked \in Pointers!Asked
    <3>1. ModeSets \subseteq Pointers!Asked
      <4>1. [protocol |-> "off", sgr |-> FALSE, alt |-> TRUE] \in Pointers!Asked
        BY DEF Pointers!Asked
      <4>2. [protocol |-> "click", sgr |-> TRUE, alt |-> FALSE] \in Pointers!Asked
        BY DEF Pointers!Asked
      <4>3. [protocol |-> "drag", sgr |-> FALSE, alt |-> FALSE] \in Pointers!Asked
        BY DEF Pointers!Asked
      <4> QED
        BY <4>1, <4>2, <4>3, Zenon DEF ModeSets
    <3> QED
      BY <2>1, <3>1
  <2>3. program' \in Program /\ program'.told = program.told
    BY <1>1, <2>1, <2>2, Zenon DEF Program
  <2> QED
    BY <1>1, <1>2, <2>1, <2>3 DEF PointerInv, Pointers!WellReported
<1>5. CASE Pointers!MouseDown
  <2>1. PICK p \in Pointers!Position :
          /\ button' = [Pointers!Spent EXCEPT !.down = Pointers!HitZone(p)]
          /\ program' = program \/ Pointers!Tell("press", TRUE, Pointers!CellAt(p))
    BY <1>5 DEF Pointers!MouseDown
  <2>2. Pointers!HitZone(p) \in {"thumb", "track", "cell", "outside"}
    BY DEF Pointers!HitZone, Pointers!Position
  <2>3. button' \in Button /\ button'.down # "up"
    BY <1>2, <2>1, <2>2 DEF Button
  <2>4. program' \in Program
    BY <1>1, <2>1, Tellings
  <2> QED
    BY <2>3, <2>4 DEF PointerInv, Pointers!WellReported
<1>6. CASE Pointers!MouseMove
  <2>1. PICK p \in Pointers!Position :
          /\ button' = Pointers!Spent
          /\ program' = program \/ (button.down # "up" /\ program' = program)
             \/ Pointers!Tell("motion", button.down # "up", Pointers!CellAt(p))
    BY <1>6 DEF Pointers!MouseMove
  <2>2. Pointers!Told("motion") = program.told
    BY DEF Pointers!Told
  <2>3. program' = program \/ program' = [program EXCEPT !.told = program.told]
    BY <2>1, <2>2, Zenon DEF Pointers!Tell
  <2>4. program' = program
    BY <1>1, <2>3, Zenon DEF Program
  <2> QED
    BY <1>3, <2>1, <2>4
<1>7. CASE Pointers!MouseUp
  <2>1. PICK p \in Pointers!Position, shift \in BOOLEAN :
          button' = [Pointers!Spent EXCEPT !.down = "up"] /\ Pointers!Released(p, shift)
    BY <1>7 DEF Pointers!MouseUp, Pointers!Hears
  <2>2. button' \in Button
    BY <1>2, <2>1 DEF Button
  <2>3. \/ program' = [program EXCEPT !.told = [program.told EXCEPT !.held = FALSE, !.excuse = FALSE]]
        \/ program' = [program EXCEPT !.told.excuse = TRUE]
    BY <2>1 DEF Pointers!Released, Pointers!Told
  <2>4. program' \in Program /\ (~program'.told.held \/ program'.told.excuse)
    <3>1. CASE program' = [program EXCEPT !.told = [program.told EXCEPT !.held = FALSE, !.excuse = FALSE]]
      <4>1. program.told \in Told
        BY <1>1 DEF Program
      <4>2. /\ [program.told EXCEPT !.held = FALSE, !.excuse = FALSE] \in Told
            /\ ~[program.told EXCEPT !.held = FALSE, !.excuse = FALSE].held
        BY <4>1, Zenon DEF Told
      <4> QED
        BY <1>1, <3>1, <4>2, Zenon DEF Program
    <3>2. CASE program' = [program EXCEPT !.told.excuse = TRUE]
      <4>1. program.told \in Told
        BY <1>1 DEF Program
      <4>2. /\ [program.told EXCEPT !.excuse = TRUE] \in Told
            /\ [program.told EXCEPT !.excuse = TRUE].excuse
        BY <4>1, Zenon DEF Told
      <4>3. program' = [program EXCEPT !.told = [program.told EXCEPT !.excuse = TRUE]]
        BY <3>2
      <4> QED
        BY <1>1, <4>2, <4>3, Zenon DEF Program
    <3> QED
      BY <2>3, <3>1, <3>2
  <2> QED
    BY <2>2, <2>4 DEF PointerInv, Pointers!WellReported
<1>8. CASE \/ Pointers!Writes \/ Pointers!Frame \/ Pointers!Later \/ Pointers!Wheel \/ Pointers!Typed
           \/ Pointers!SelectAll \/ Pointers!ClearSelection \/ Pointers!ClearScrollback
           \/ UNCHANGED pointerVars
  <2>1. program' = program /\ button' \in {button, Pointers!Spent}
    BY <1>8 DEF Pointers!Writes, Pointers!Frame, Pointers!Later, Pointers!Wheel, Pointers!Typed,
       Pointers!SelectAll, Pointers!ClearSelection, Pointers!ClearScrollback, pointerVars
  <2> QED
    BY <1>3, <2>1
<1> QED
  BY <1>4, <1>5, <1>6, <1>7, <1>8 DEF Pointers!Next

(* What is selected: a selection that is being dragged is reported when the *)
(* button comes up, and the button is down while one is dragged, so that    *)
(* what the sink last got is what is selected at every other time           *)
SelectInv ==
  /\ DOMAIN element = {"asked", "top", "offset", "sel", "drag", "motion", "cleared"}
  /\ element.cleared \in BOOLEAN
  /\ button \in Button
  /\ button.down = "up" => element.drag # "selection"
  /\ element.drag # "selection" /\ ~element.cleared /\ sent.last # Pointers!None =>
       sent.last.sel = Pointers!Payload(element).sel

LEMMA SelectStarts == Pointers!Init => SelectInv
<1> SUFFICES ASSUME Pointers!Init PROVE SelectInv
  OBVIOUS
<1>1. /\ DOMAIN element = {"asked", "top", "offset", "sel", "drag", "motion", "cleared"}
      /\ element.cleared = FALSE /\ element.drag = "none"
  BY DEF Pointers!Init
<1>2. sent.last = Pointers!None
  BY DEF Pointers!Init
<1>3. button \in Button
  BY MachinesAssumption DEF Pointers!Init, Button
<1> QED
  BY <1>1, <1>2, <1>3 DEF SelectInv

(* A report is of what is selected, at once or the one before it was       *)
LEMMA Reporting ==
  ASSUME NEW g, NEW trigger, Pointers!Report(g, trigger)
  PROVE  /\ sent'.last = Pointers!Payload(g) \/ (trigger = "scroll" /\ sent' = sent)
         /\ sent'.last = Pointers!Payload(g) => sent'.last.sel = Pointers!Payload(g).sel
<1> QED
  BY Zenon DEF Pointers!Report

(* Scrolling changes neither what is selected nor what is dragged *)
LEMMA ScrollingSelects ==
  ASSUME NEW g, NEW offset,
         DOMAIN g = {"asked", "top", "offset", "sel", "drag", "motion", "cleared"},
         Pointers!Scrolls(g, offset)
  PROVE  /\ DOMAIN element' = DOMAIN g
         /\ element'.sel = g.sel /\ element'.drag = g.drag /\ element'.cleared = g.cleared
         /\ sent' = sent \/ sent'.last = Pointers!Payload(element')
<1>1. element' = Pointers!ScrollTo(g, offset)
  BY DEF Pointers!Scrolls
<1>2. sent' = sent \/ sent'.last = Pointers!Payload(element')
  BY Reporting DEF Pointers!Scrolls
<1> QED
  BY <1>1, <1>2 DEF Pointers!ScrollTo

LEMMA PayloadOf ==
  ASSUME NEW g, NEW h, g.sel = h.sel
  PROVE  Pointers!Payload(g).sel = Pointers!Payload(h).sel
  BY DEF Pointers!Payload

LEMMA SelectKeeps == SelectInv /\ [Pointers!Next]_pointerVars => SelectInv'
<1> SUFFICES ASSUME SelectInv, [Pointers!Next]_pointerVars PROVE SelectInv'
  OBVIOUS
<1> DEFINE Fields == {"asked", "top", "offset", "sel", "drag", "motion", "cleared"}
<1>1. /\ DOMAIN element = Fields /\ element.cleared \in BOOLEAN /\ button \in Button
      /\ button.down = "up" => element.drag # "selection"
      /\ element.drag # "selection" /\ ~element.cleared /\ sent.last # Pointers!None =>
           sent.last.sel = Pointers!Payload(element).sel
  BY DEF SelectInv
<1>2. Pointers!Spent \in Button /\ Pointers!Spent.down = button.down
  BY <1>1 DEF Pointers!Spent, Button
<1>3. ASSUME button' \in {button, Pointers!Spent}, DOMAIN element' = Fields,
             element'.sel = element.sel, element'.drag = element.drag, element'.cleared = element.cleared,
             sent' = sent \/ sent'.last = sent.last \/ sent'.last = Pointers!Payload(element')
      PROVE  SelectInv'
  <2>1. Pointers!Payload(element').sel = Pointers!Payload(element).sel
    BY <1>3, PayloadOf
  <2>2. sent'.last = sent.last \/ sent'.last = Pointers!Payload(element')
    BY <1>3
  <2> QED
    BY <1>1, <1>2, <1>3, <2>1, <2>2 DEF SelectInv
<1>4. ASSUME button' = Pointers!Spent, DOMAIN element' = Fields, element'.drag = element.drag,
             element'.cleared \in BOOLEAN,
             element'.cleared \/ sent'.last = Pointers!Payload(element')
      PROVE  SelectInv'
  BY <1>1, <1>2, <1>4 DEF SelectInv
<1>5. CASE Pointers!MouseDown
  <2>1. PICK p \in Pointers!Position :
          /\ button.down = "up" /\ button' = [Pointers!Spent EXCEPT !.down = Pointers!HitZone(p)]
          /\ \/ element' = [element EXCEPT !.drag = "scrollbar"] /\ UNCHANGED sent
             \/ Pointers!Scrolls(element, element.offset + Height)
             \/ element' = element /\ sent' = sent
             \/ \E sel : element' = [element EXCEPT !.drag = "selection", !.sel = sel] /\ UNCHANGED sent
    BY <1>5, Zenon DEF Pointers!MouseDown
  <2>2. Pointers!HitZone(p) \in {"thumb", "track", "cell", "outside"}
    BY DEF Pointers!HitZone, Pointers!Position
  <2>3. button' \in Button /\ button'.down # "up"
    <3>1. button' = [Pointers!Spent EXCEPT !.down = Pointers!HitZone(p)]
      BY <2>1, Zenon
    <3> QED
      BY <1>2, <2>2, <3>1 DEF Button
  <2>4. element.drag # "selection"
    BY <1>1, <2>1, Zenon
  <2>5. ASSUME DOMAIN element' = Fields, element'.sel = element.sel, element'.cleared = element.cleared,
               element'.drag \in {element.drag, "scrollbar"},
               sent' = sent \/ sent'.last = Pointers!Payload(element')
        PROVE  SelectInv'
    <3>1. Pointers!Payload(element').sel = Pointers!Payload(element).sel
      BY <2>5, PayloadOf
    <3> QED
      BY <1>1, <2>3, <2>4, <2>5, <3>1 DEF SelectInv
  <2>6. CASE element' = [element EXCEPT !.drag = "scrollbar"] /\ sent' = sent
    BY <1>1, <2>5, <2>6
  <2>7. CASE Pointers!Scrolls(element, element.offset + Height)
    BY <1>1, <2>5, <2>7, ScrollingSelects
  <2>8. CASE element' = element /\ sent' = sent
    BY <1>1, <2>5, <2>8
  <2>9. CASE \E sel : element' = [element EXCEPT !.drag = "selection", !.sel = sel] /\ UNCHANGED sent
    BY <1>1, <2>3, <2>9 DEF SelectInv
  <2> QED
    BY <2>1, <2>6, <2>7, <2>8, <2>9, Zenon
<1>6. CASE Pointers!MouseMove
  <2>1. PICK p \in Pointers!Position :
          /\ button' = Pointers!Spent
          /\ \/ /\ element.drag = "selection"
                /\ Pointers!Scrolls([element EXCEPT !.sel[2] = Pointers!Absolute(Pointers!EdgeAt(p))],
                                    element.offset + Pointers!AutoscrollStep(p))
             \/ Pointers!Scrolls(element, above - p.y)
             \/ element' = [element EXCEPT !.motion = Pointers!CellAt(p)] /\ UNCHANGED sent
             \/ element' = element /\ sent' = sent
    BY <1>6, Zenon DEF Pointers!MouseMove
  <2>2. CASE /\ element.drag = "selection"
             /\ Pointers!Scrolls([element EXCEPT !.sel[2] = Pointers!Absolute(Pointers!EdgeAt(p))],
                                 element.offset + Pointers!AutoscrollStep(p))
    <3> DEFINE g == [element EXCEPT !.sel[2] = Pointers!Absolute(Pointers!EdgeAt(p))]
    <3>1. DOMAIN g = Fields /\ g.drag = "selection" /\ g.cleared = element.cleared
      BY <1>1, <2>2
    <3>2. Pointers!Scrolls(g, element.offset + Pointers!AutoscrollStep(p))
      BY <2>2
    <3> HIDE DEF g
    <3>3. DOMAIN element' = Fields /\ element'.drag = "selection" /\ element'.cleared = element.cleared
      BY <3>1, <3>2, ScrollingSelects
    <3>4. button'.down # "up" /\ button' \in Button
      BY <1>1, <1>2, <2>1, <2>2
    <3> QED
      BY <1>1, <3>3, <3>4 DEF SelectInv
  <2>3. CASE Pointers!Scrolls(element, above - p.y)
    BY <1>1, <1>3, <2>1, <2>3, ScrollingSelects
  <2>4. CASE element' = [element EXCEPT !.motion = Pointers!CellAt(p)] /\ UNCHANGED sent
    BY <1>1, <1>3, <2>1, <2>4
  <2>5. CASE element' = element /\ sent' = sent
    BY <1>1, <1>3, <2>1, <2>5
  <2> QED
    BY <2>1, <2>2, <2>3, <2>4, <2>5
<1>7. CASE Pointers!MouseUp
  <2>1. PICK p \in Pointers!Position, shift \in BOOLEAN :
          button' = [Pointers!Spent EXCEPT !.down = "up"] /\ Pointers!Released(p, shift)
    BY <1>7 DEF Pointers!MouseUp, Pointers!Hears
  <2>2. button' \in Button
    BY <1>2, <2>1 DEF Button
  <2>3. /\ element' = [element EXCEPT !.drag = "none", !.motion = Pointers!None,
                                      !.cleared = @ /\ element.drag # "selection"]
        /\ IF element.drag = "selection" THEN Pointers!Report(element', "end") ELSE UNCHANGED sent
    BY <2>1 DEF Pointers!Released
  <2>4. /\ DOMAIN element' = Fields /\ element'.drag = "none" /\ element'.sel = element.sel
        /\ element'.cleared = (element.cleared /\ element.drag # "selection")
    BY <1>1, <2>3, Zenon
  <2>5. element.drag # "selection" => element'.cleared = element.cleared
    BY <1>1, <2>4, Zenon
  <2>6. element'.cleared \in BOOLEAN
    BY <2>4, Zenon
  <2>7. CASE element.drag = "selection"
    <3>1. sent'.last = Pointers!Payload(element')
      BY <2>3, <2>7, Reporting
    <3> QED
      BY <2>2, <2>4, <2>6, <3>1 DEF SelectInv
  <2>8. CASE element.drag # "selection"
    <3>1. Pointers!Payload(element').sel = Pointers!Payload(element).sel
      BY <2>4, PayloadOf
    <3> QED
      BY <1>1, <2>2, <2>3, <2>4, <2>5, <2>6, <2>8, <3>1 DEF SelectInv
  <2> QED
    BY <2>7, <2>8
<1>8. CASE Pointers!Wheel
  <2>1. PICK lines \in {-1, 1} :
          /\ button' = Pointers!Spent
          /\ Pointers!Scrolls(element, element.offset + lines) \/ (element' = element /\ sent' = sent)
    BY <1>8, Zenon DEF Pointers!Wheel
  <2> QED
    BY <1>1, <1>3, <2>1, ScrollingSelects
<1>9. CASE Pointers!Typed
  <2>1. button' = Pointers!Spent /\ Pointers!Scrolls(element, 0)
    BY <1>9 DEF Pointers!Typed
  <2> QED
    BY <1>1, <1>3, <2>1, ScrollingSelects
<1>10. CASE Pointers!SelectAll \/ Pointers!ClearSelection
  <2>1. /\ button' = Pointers!Spent /\ Pointers!Report(element', "end")
        /\ \E sel : element' = [element EXCEPT !.sel = sel, !.cleared = FALSE]
    BY <1>10, Zenon DEF Pointers!SelectAll, Pointers!ClearSelection
  <2>2. DOMAIN element' = Fields /\ element'.drag = element.drag /\ element'.cleared = FALSE
    BY <1>1, <2>1
  <2>3. sent'.last = Pointers!Payload(element')
    BY <2>1, Reporting
  <2> QED
    BY <1>4, <2>1, <2>2, <2>3
<1>11. CASE Pointers!ClearScrollback
  <2>1. /\ button' = Pointers!Spent
        /\ element' = [element EXCEPT !.sel = Pointers!None, !.offset = 0, !.cleared = TRUE]
    BY <1>11 DEF Pointers!ClearScrollback
  <2>2. DOMAIN element' = Fields /\ element'.drag = element.drag /\ element'.cleared = TRUE
    BY <1>1, <2>1
  <2> QED
    BY <1>4, <2>1, <2>2
<1>12. CASE Pointers!Frame
  <2>1. /\ button' = button /\ sent' = sent
        /\ DOMAIN element' = Fields /\ element'.sel = element.sel
        /\ element'.drag = element.drag /\ element'.cleared = element.cleared
    BY <1>1, <1>12 DEF Pointers!Frame, Pointers!ScrollTo
  <2> QED
    BY <1>3, <2>1
<1>13. CASE Pointers!Later
  <2>1. button' = button /\ element' = element /\ sent' = [sent EXCEPT !.soon = FALSE]
    BY <1>13 DEF Pointers!Later
  <2>2. sent'.last = sent.last
    BY <2>1
  <2> QED
    BY <1>1, <1>3, <2>1, <2>2
<1>14. CASE Pointers!Asks \/ Pointers!Writes \/ UNCHANGED pointerVars
  <2>1. button' \in {button, Pointers!Spent} /\ element' = element /\ sent' = sent
    BY <1>14 DEF Pointers!Asks, Pointers!Writes, pointerVars
  <2> QED
    BY <1>1, <1>3, <2>1
<1> QED
  BY <1>5, <1>6, <1>7, <1>8, <1>9, <1>10, <1>11, <1>12, <1>13, <1>14 DEF Pointers!Next

(* A program that was told of a press is told of the release or is excused *)
(* from it, and between drags the server knows what is selected, for any   *)
(* grid, history and modes set and changed in between, any place where the *)
(* button comes up and however reports of scrolling are held back          *)
(* (on_mouse_up, on_mouse_up_out, should_send)                             *)
THEOREM PointerIsReported == MachinesSpec => []PointerReported
<1>1. MachinesInit => PointerInv /\ SelectInv
  BY PointerStarts, SelectStarts DEF MachinesInit
<1>2. PointerInv /\ SelectInv /\ [MachinesNext]_machinesVars => PointerInv' /\ SelectInv'
  <2>1. [MachinesNext]_machinesVars => [Pointers!Next]_pointerVars
    BY DEF MachinesNext, machinesVars, pointerVars, ControlStep, ScrollStep, PipeStep, HostStep, ConnStep, PointerStep, MemoryStep
  <2> QED
    BY <2>1, PointerKeeps, SelectKeeps
<1>3. PointerInv /\ SelectInv => PointerReported
  BY DEF PointerInv, SelectInv, PointerReported, Pointers!SelectionKnown
<1> QED
  BY <1>1, <1>2, <1>3, PTL DEF MachinesSpec
-----------------------------------------------------------------------------
(* The control client: a request waits for a connection or was written,    *)
(* and one that waits was not written and waits once                       *)
Fields == {"state", "torndown", "intentional", "socket", "settle", "shake", "shakes", "retry", "retries",
           "calls", "pending", "waiters", "out", "ends"}
Call == [kind : {"subscribe", "user"}, is : {"open", "ok", "failed"}, written : Nat]

Record(c) == DOMAIN c = Fields /\ c = [f \in Fields |-> c[f]]

Sound(c) ==
  /\ Record(c)
  /\ c.calls \in Seq(Call) /\ c.waiters \in Seq(Nat)
  /\ \A id \in DOMAIN c.calls : c.calls[id].written <= 1
  /\ \A i \in DOMAIN c.waiters : c.waiters[i] \in DOMAIN c.calls /\ c.calls[c.waiters[i]].written = 0
  /\ \A i, j \in DOMAIN c.waiters : c.waiters[i] = c.waiters[j] => i = j

LEMMA ControlStarts == Control!Init => Sound(client)
<1> SUFFICES ASSUME Control!Init PROVE Sound(client)
  OBVIOUS
<1>1. client = [state |-> "connecting", torndown |-> FALSE, intentional |-> FALSE,
                socket |-> 0, settle |-> 0, shake |-> 0, shakes |-> {},
                retry |-> 0, retries |-> {}, calls |-> <<>>, pending |-> {},
                waiters |-> <<>>, out |-> <<>>, ends |-> {}]
  BY DEF Control!Init, Control!No
<1>2. Record(client)
  BY <1>1 DEF Record, Fields
<1>3. client.calls = <<>> /\ client.waiters = <<>>
  BY <1>1
<1> QED
  BY <1>2, <1>3 DEF Sound

(* A callback that leaves the calls alone, and the waiters or none of them *)
LEMMA Untouched ==
  ASSUME NEW c, Sound(c), NEW d, Record(d), d.calls = c.calls, d.waiters \in {c.waiters, <<>>}
  PROVE  Sound(d)
<1>1. d.waiters \in Seq(Nat)
  BY EmptySeq DEF Sound
<1>2. CASE d.waiters = c.waiters
  BY <1>2 DEF Sound
<1>3. CASE d.waiters = <<>>
  BY <1>1, <1>3 DEF Sound
<1> QED
  BY <1>2, <1>3

(* A sequence made over, item by item *)
LEMMA MadeOver ==
  ASSUME NEW S, NEW s \in Seq(S), NEW f, DOMAIN f = DOMAIN s, f = [i \in DOMAIN s |-> f[i]],
         \A i \in DOMAIN s : f[i] \in S
  PROVE  f \in Seq(S)
<1>1. Len(s) \in Nat /\ DOMAIN s = 1 .. Len(s)
  BY LenProperties
<1>2. f \in [1 .. Len(s) -> S]
  BY <1>1
<1> QED
  BY <1>1, <1>2, SeqDef

(* What is written is written of calls that were not, once each            *)
LEMMA Recalled ==
  ASSUME NEW c, Sound(c), NEW d, Record(d), d.waiters \in {c.waiters, <<>>},
         DOMAIN d.calls = DOMAIN c.calls, d.calls = [id \in DOMAIN c.calls |-> d.calls[id]],
         \A id \in DOMAIN c.calls : d.calls[id] \in Call /\ d.calls[id].written <= 1,
         \A i \in DOMAIN d.waiters : d.calls[c.waiters[i]].written = 0
  PROVE  Sound(d)
<1>1. d.calls \in Seq(Call)
  BY MadeOver DEF Sound
<1>2. d.waiters \in Seq(Nat)
  BY EmptySeq DEF Sound
<1>3. CASE d.waiters = c.waiters
  BY <1>1, <1>2, <1>3 DEF Sound
<1>4. CASE d.waiters = <<>>
  BY <1>1, <1>2, <1>4 DEF Sound
<1> QED
  BY <1>3, <1>4

LEMMA ClearShakeSound == ASSUME NEW c, Sound(c) PROVE Sound(Control!ClearShake(c))
  BY Untouched DEF Sound, Record, Fields, Control!ClearShake

LEMMA SettledSound ==
  ASSUME NEW c, Sound(c), NEW ids, NEW how \in {"ok", "failed"}
  PROVE  /\ Sound(Control!Settled(c, ids, how))
         /\ Control!Settled(c, ids, how).waiters = c.waiters
         /\ Control!Settled(c, ids, how).state = c.state
<1> DEFINE d == Control!Settled(c, ids, how)
<1>1. Record(d) /\ d.waiters = c.waiters /\ d.state = c.state
  BY DEF Sound, Record, Fields, Control!Settled
<1>2. d.calls = [i \in DOMAIN c.calls |-> IF i \in ids \cap c.pending THEN [c.calls[i] EXCEPT !.is = how]
                                          ELSE c.calls[i]]
  BY DEF Sound, Record, Fields, Control!Settled
<1>3. ASSUME NEW i \in DOMAIN c.calls
      PROVE  d.calls[i] \in Call /\ d.calls[i].written = c.calls[i].written
  <2>1. c.calls[i] \in Call
    BY ElementOfSeq, LenProperties DEF Sound
  <2> QED
    BY <1>2, <2>1 DEF Call
<1>5. DOMAIN d.calls = DOMAIN c.calls /\ d.calls = [id \in DOMAIN c.calls |-> d.calls[id]]
  BY <1>2
<1> HIDE DEF d
<1>6. \A i \in DOMAIN c.calls : d.calls[i] \in Call /\ d.calls[i].written <= 1
  BY <1>3 DEF Sound
<1>7. \A i \in DOMAIN d.waiters : d.calls[c.waiters[i]].written = 0
  BY <1>1, <1>3 DEF Sound
<1>4. Sound(d)
  BY <1>1, <1>5, <1>6, <1>7, Recalled
<1> QED
  BY <1>1, <1>4 DEF d
LEMMA SendSound ==
  ASSUME NEW c, Sound(c), NEW id \in DOMAIN c.calls, c.calls[id].written = 0,
         \A i \in DOMAIN c.waiters : c.waiters[i] # id
  PROVE  Sound(Control!Send(c, id))
<1> DEFINE d == [c EXCEPT !.out = Append(@, [t |-> "call", id |-> id]), !.calls[id].written = @ + 1]
<1>1. Record(d) /\ d.waiters = c.waiters
  BY DEF Sound, Record, Fields
<1>2. d.calls = [c.calls EXCEPT ![id].written = @ + 1]
  BY DEF Sound, Record, Fields
<1>3. DOMAIN d.calls = DOMAIN c.calls /\ d.calls = [i \in DOMAIN c.calls |-> d.calls[i]]
  BY <1>2
<1>4. \A i \in DOMAIN c.calls : c.calls[i] \in Call
  BY ElementOfSeq, LenProperties DEF Sound
<1>5. /\ d.calls[id] = [c.calls[id] EXCEPT !.written = @ + 1]
      /\ \A i \in DOMAIN c.calls : i # id => d.calls[i] = c.calls[i]
  BY <1>2
<1>6. d.calls[id] \in Call /\ d.calls[id].written = 1
  BY <1>4, <1>5 DEF Call
<1> HIDE DEF d
<1>7. ASSUME NEW i \in DOMAIN c.calls PROVE d.calls[i] \in Call /\ d.calls[i].written <= 1
  <2>1. CASE i = id
    BY <1>6, <2>1
  <2>2. CASE i # id
    BY <1>4, <1>5, <2>2 DEF Sound
  <2> QED
    BY <2>1, <2>2
<1>8. \A i \in DOMAIN d.waiters : d.calls[c.waiters[i]].written = 0
  BY <1>1, <1>5 DEF Sound
<1>9. Sound(d)
  BY <1>1, <1>3, <1>7, <1>8, Recalled
<1> QED
  BY <1>9, SettledSound DEF Control!Send, d

LEMMA AskSound ==
  ASSUME NEW c, Sound(c), NEW kind \in {"subscribe", "user"}
  PROVE  Sound(Control!Ask(c, kind))
<1> DEFINE id == Len(c.calls) + 1
           call == [kind |-> kind, is |-> "open", written |-> 0]
           asked == [c EXCEPT !.calls = Append(@, call), !.pending = @ \cup {id}]
           waits == [asked EXCEPT !.waiters = Append(@, id)]
<1>1. call \in Call /\ call.written = 0
  BY DEF Call
<1>2. Len(c.calls) \in Nat /\ DOMAIN c.calls = 1 .. Len(c.calls)
  BY LenProperties DEF Sound
<1>3. Record(asked) /\ asked.waiters = c.waiters /\ asked.calls = Append(c.calls, call)
  BY DEF Sound, Record, Fields
<1>4. Record(waits) /\ waits.waiters = Append(c.waiters, id) /\ waits.calls = asked.calls
  BY <1>3 DEF Sound, Record, Fields
<1> HIDE DEF call, asked, waits
<1>5. /\ asked.calls \in Seq(Call) /\ DOMAIN asked.calls = 1 .. id
      /\ asked.calls[id] = call /\ \A i \in DOMAIN c.calls : asked.calls[i] = c.calls[i]
  BY <1>1, <1>2, <1>3, AppendProperties, LenProperties DEF Sound
<1>6. \A i \in DOMAIN c.waiters : c.waiters[i] \in DOMAIN c.calls /\ c.waiters[i] # id
  BY <1>2 DEF Sound
<1>7. \A i \in DOMAIN asked.calls : asked.calls[i].written <= 1
  BY <1>1, <1>2, <1>5 DEF Sound
<1>8. Sound(asked)
  BY <1>2, <1>3, <1>5, <1>6, <1>7 DEF Sound
<1>9. Sound(Control!Send(asked, id))
  BY <1>1, <1>2, <1>3, <1>5, <1>6, <1>8, SendSound
<1>10. Sound(waits)
  <2>1. Len(c.waiters) \in Nat /\ DOMAIN c.waiters = 1 .. Len(c.waiters)
    BY LenProperties DEF Sound
  <2>2. /\ waits.waiters \in Seq(Nat) /\ DOMAIN waits.waiters = 1 .. Len(c.waiters) + 1
        /\ waits.waiters[Len(c.waiters) + 1] = id
        /\ \A i \in DOMAIN c.waiters : waits.waiters[i] = c.waiters[i]
    BY <1>2, <1>4, <2>1, AppendProperties, LenProperties DEF Sound
  <2>3. \A i \in DOMAIN waits.waiters :
          waits.waiters[i] \in DOMAIN asked.calls /\ asked.calls[waits.waiters[i]].written = 0
    <3> SUFFICES ASSUME NEW i \in DOMAIN waits.waiters
                 PROVE  waits.waiters[i] \in DOMAIN asked.calls /\ asked.calls[waits.waiters[i]].written = 0
      OBVIOUS
    <3>1. CASE i \in DOMAIN c.waiters
      <4>1. c.waiters[i] \in DOMAIN c.calls /\ c.calls[c.waiters[i]].written = 0
        BY <3>1 DEF Sound
      <4>2. waits.waiters[i] = c.waiters[i]
        BY <2>2, <3>1
      <4>3. asked.calls[c.waiters[i]] = c.calls[c.waiters[i]] /\ c.waiters[i] \in DOMAIN asked.calls
        BY <1>2, <1>5, <4>1
      <4> QED
        BY <4>1, <4>2, <4>3
    <3>2. CASE i = Len(c.waiters) + 1
      BY <1>1, <1>2, <1>5, <2>2, <3>2
    <3> QED
      BY <2>1, <2>2, <3>1, <3>2
  <2>4. ASSUME NEW i \in DOMAIN waits.waiters, NEW j \in DOMAIN waits.waiters,
               waits.waiters[i] = waits.waiters[j]
        PROVE  i = j
    <3>1. CASE i \in DOMAIN c.waiters /\ j \in DOMAIN c.waiters
      BY <2>2, <2>4, <3>1 DEF Sound
    <3>2. \A k \in DOMAIN waits.waiters : k \in DOMAIN c.waiters \/ k = Len(c.waiters) + 1
      BY <2>1, <2>2
    <3> QED
      BY <1>6, <2>2, <2>4, <3>1, <3>2
  <2> QED
    BY <1>4, <1>5, <1>7, <2>2, <2>3, <2>4 DEF Sound
<1>11. Control!Ask(c, kind) \in {c, Control!Send(asked, id), waits}
  BY DEF Control!Ask, asked, waits, call
<1> QED
  BY <1>8, <1>9, <1>10, <1>11

LEMMA SetStateSound == ASSUME NEW c, Sound(c), NEW new PROVE Sound(Control!SetState(c, new))
<1>1. Sound([c EXCEPT !.state = new])
  BY Untouched DEF Sound, Record, Fields
<1> QED
  BY <1>1, AskSound DEF Control!SetState

LEMMA SameCount == ASSUME NEW S PROVE Control!Cardinality(S) = Cardinality(S)
<1>1. Control!IsFiniteSet(S) = IsFiniteSet(S)
  BY Zenon DEF IsFiniteSet, Control!IsFiniteSet
<1> QED
  BY <1>1 DEF Cardinality, Control!Cardinality

LEMMA FlushWaitersSound ==
  ASSUME NEW c, Sound(c)
  PROVE  Sound(Control!FlushWaiters(c))
<1> DEFINE b == [c EXCEPT !.waiters = <<>>]
           d == Control!SendAll(b, c.waiters)
<1>1. Record(b) /\ b.waiters = <<>> /\ b.calls = c.calls /\ b.socket = c.socket
  BY DEF Sound, Record, Fields
<1>2. Sound(b)
  BY <1>1, Untouched
<1>3. CASE c.socket = Control!No
  BY <1>1, <1>2, <1>3, SettledSound DEF Control!FlushWaiters, Control!SendAll
<1>4. CASE c.socket # Control!No
  <2> HIDE DEF b
  <2> DEFINE writ(id) == [b.calls[id] EXCEPT !.written = @ + Control!Times(c.waiters, id)]
             e == [b EXCEPT !.out = @ \o [i \in DOMAIN c.waiters |-> [t |-> "call", id |-> c.waiters[i]]],
                            !.calls = [id \in DOMAIN b.calls |-> writ(id)]]
  <2>1. d = e
    BY <1>1, <1>4 DEF Control!SendAll
  <2>2. Record(e) /\ e.waiters = <<>> /\ e.calls = [id \in DOMAIN b.calls |-> writ(id)]
    BY <1>1 DEF Record, Fields
  <2>3. ASSUME NEW id \in DOMAIN c.calls PROVE writ(id) \in Call /\ writ(id).written <= 1
    <3>1. c.calls[id] \in Call /\ c.calls[id].written <= 1
      BY ElementOfSeq, LenProperties DEF Sound
    <3>2. CASE \A i \in DOMAIN c.waiters : c.waiters[i] # id
      <4>1. Control!Times(c.waiters, id) = 0
        <5>1. {i \in DOMAIN c.waiters : c.waiters[i] = id} = {}
          BY <3>2
        <5> QED
          BY <5>1, FS_EmptySet, SameCount DEF Control!Times
      <4> QED
        BY <1>1, <3>1, <4>1 DEF Call
    <3>3. ASSUME NEW i \in DOMAIN c.waiters, c.waiters[i] = id PROVE writ(id) \in Call /\ writ(id).written <= 1
      <4>1. Control!Times(c.waiters, id) = 1
        <5>1. {k \in DOMAIN c.waiters : c.waiters[k] = id} = {i}
          BY <3>3 DEF Sound
        <5> QED
          BY <5>1, FS_Singleton, SameCount DEF Control!Times
      <4>2. c.calls[id].written = 0
        BY <3>3 DEF Sound
      <4> QED
        BY <1>1, <3>1, <4>1, <4>2 DEF Call
    <3> QED
      BY <3>2, <3>3
  <2> HIDE DEF e, writ
  <2>4. /\ DOMAIN e.calls = DOMAIN c.calls /\ e.calls = [id \in DOMAIN c.calls |-> e.calls[id]]
        /\ \A id \in DOMAIN c.calls : e.calls[id] \in Call /\ e.calls[id].written <= 1
    BY <1>1, <2>2, <2>3
  <2>6. DOMAIN e.waiters = {}
    BY <2>2
  <2>5. Sound(e)
    BY <2>2, <2>4, <2>6, Recalled
  <2> QED
    BY <2>1, <2>5 DEF Control!FlushWaiters, b
<1> QED
  BY <1>3, <1>4
LEMMA TransportClosedSound ==
  ASSUME NEW c, Sound(c), NEW fromConnect
  PROVE  Sound(Control!TransportClosed(c, fromConnect))
<1> DEFINE quiet == Control!ClearShake(c)
           failed == Control!FailPending(quiet)
           torn == [failed EXCEPT !.torndown = TRUE, !.socket = Control!No, !.settle = Control!No,
                                  !.ends = IF fromConnect THEN @ ELSE @ \cup ({c.socket} \ {Control!No})]
           closed == [torn EXCEPT !.state = "closed", !.waiters = <<>>]
           again == Control!SetState(torn, "reconnecting")
           timed(t) == [again EXCEPT !.retry = t, !.retries = @ \cup {t}]
<1>1. Sound(quiet)
  BY ClearShakeSound
<1> HIDE DEF quiet
<1>2. Sound(failed)
  BY <1>1, SettledSound DEF Control!FailPending
<1> HIDE DEF failed
<1>3. Sound(torn)
  <2>1. Record(torn) /\ torn.calls = failed.calls /\ torn.waiters = failed.waiters
    BY <1>2 DEF Sound, Record, Fields
  <2> QED
    BY <1>2, <2>1, Untouched
<1> HIDE DEF torn
<1>4. Sound(closed)
  <2>1. Record(closed) /\ closed.calls = torn.calls /\ closed.waiters = <<>>
    BY <1>3 DEF Sound, Record, Fields
  <2> QED
    BY <1>3, <2>1, Untouched
<1>5. Sound(again)
  BY <1>3, SetStateSound
<1> HIDE DEF again
<1>6. ASSUME NEW t PROVE Sound(timed(t))
  <2>1. Record(timed(t)) /\ timed(t).calls = again.calls /\ timed(t).waiters = again.waiters
    BY <1>5 DEF Sound, Record, Fields
  <2> QED
    BY <1>5, <2>1, Untouched
<1> HIDE DEF timed, closed
<1>7. \/ Control!TransportClosed(c, fromConnect) \in {quiet, closed}
      \/ \E t : Control!TransportClosed(c, fromConnect) = timed(t)
  BY DEF Control!TransportClosed, closed, timed, again, torn, failed, quiet
<1> QED
  BY <1>1, <1>4, <1>6, <1>7

LEMMA AckedSound ==
  ASSUME NEW c, Sound(c), NEW byUser
  PROVE  Sound(Control!Acked(c, byUser))
<1> DEFINE connected == Control!SetState(Control!ClearShake(c), "connected")
           settled == [connected EXCEPT !.settle = Control!No]
           shaken == Control!FlushWaiters(settled)
<1>1. Sound(connected)
  BY ClearShakeSound, SetStateSound
<1> HIDE DEF connected
<1>2. Sound(settled)
  <2>1. Record(settled) /\ settled.calls = connected.calls /\ settled.waiters = connected.waiters
    BY <1>1 DEF Sound, Record, Fields
  <2> QED
    BY <1>1, <2>1, Untouched
<1> HIDE DEF settled
<1>3. Sound(shaken)
  BY <1>2, FlushWaitersSound
<1> HIDE DEF shaken
<1>4. Control!Acked(c, byUser) \in {shaken, Control!Ask(shaken, "subscribe")}
  BY DEF Control!Acked, shaken, settled, connected
<1> QED
  BY <1>3, <1>4, AskSound

LEMMA RefusedSound == ASSUME NEW c, Sound(c) PROVE Sound(Control!Refused(c))
<1> DEFINE quiet == Control!ClearShake(c)
           meant == [quiet EXCEPT !.intentional = TRUE, !.settle = Control!No]
<1>1. Sound(quiet)
  BY ClearShakeSound
<1> HIDE DEF quiet
<1>2. Sound(meant)
  <2>1. Record(meant) /\ meant.calls = quiet.calls /\ meant.waiters = quiet.waiters
    BY <1>1 DEF Sound, Record, Fields
  <2> QED
    BY <1>1, <2>1, Untouched
<1> HIDE DEF meant
<1> QED
  BY <1>2, TransportClosedSound DEF Control!Refused, meant, quiet

LEMMA ClosedSound == ASSUME NEW c, Sound(c) PROVE Sound(Control!Closed(c))
<1> DEFINE quiet == Control!ClearShake(c)
           failed == Control!FailPending(quiet)
<1>1. Sound(quiet)
  BY ClearShakeSound
<1> HIDE DEF quiet
<1>2. Sound(failed)
  BY <1>1, SettledSound DEF Control!FailPending
<1> HIDE DEF failed
<1>3. Record(Control!Closed(c)) /\ Control!Closed(c).calls = failed.calls /\ Control!Closed(c).waiters = <<>>
  BY <1>2 DEF Sound, Record, Fields, Control!Closed, failed, quiet
<1> QED
  BY <1>2, <1>3, Untouched

LEMMA RanSound ==
  ASSUME NEW done, Sound(done), NEW links, Control!Ran(done, links)
  PROVE  Sound(client')
<1> DEFINE d == [done EXCEPT !.out = <<>>, !.ends = {}]
<1>1. Record(d) /\ d.calls = done.calls /\ d.waiters = done.waiters
  BY DEF Sound, Record, Fields
<1>2. client' = d
  BY DEF Control!Ran
<1> HIDE DEF d
<1>3. Sound(d)
  BY <1>1, Untouched
<1> QED
  BY <1>2, <1>3

LEMMA ConnectingSound ==
  ASSUME NEW c, Sound(c), NEW byUser, Control!Connecting(c, byUser)
  PROVE  Sound(client')
<1>1. SUFFICES ASSUME NEW a \in Control!Attempt, NEW new, NEW links,
                      Control!Ran([Control!SetState(c, new) EXCEPT !.torndown = FALSE, !.settle = a], links)
               PROVE  Sound(client')
  BY DEF Control!Connecting
<1> DEFINE b == Control!SetState(c, new)
           d == [b EXCEPT !.torndown = FALSE, !.settle = a]
<1>2. Sound(b)
  BY SetStateSound
<1>3. Control!Ran(d, links)
  BY <1>1
<1> HIDE DEF b
<1>4. Record(d) /\ d.calls = b.calls /\ d.waiters = b.waiters
  BY <1>2 DEF Sound, Record, Fields
<1> HIDE DEF d
<1>5. Sound(d)
  BY <1>2, <1>4, Untouched
<1> QED
  BY <1>3, <1>5, RanSound

LEMMA ControlKeeps == Sound(client) /\ [Control!Next]_controlVars => Sound(client')
<1> SUFFICES ASSUME Sound(client), [Control!Next]_controlVars PROVE Sound(client')
  OBVIOUS
<1>1. CASE Control!Connect \/ Control!Reconnect
  BY <1>1, ConnectingSound DEF Control!Connect, Control!Reconnect
<1>2. ASSUME NEW t \in client.retries, Control!Retry(t) PROVE Sound(client')
  <2> DEFINE fired == [client EXCEPT !.retries = @ \ {t}, !.retry = Control!No]
  <2>1. Record(fired) /\ fired.calls = client.calls /\ fired.waiters = client.waiters
    BY DEF Sound, Record, Fields
  <2>2. Control!Ran(fired, link) \/ Control!Connecting(fired, FALSE)
    BY <1>2 DEF Control!Retry
  <2> HIDE DEF fired
  <2>3. Sound(fired)
    BY <2>1, Untouched
  <2> QED
    BY <2>2, <2>3, RanSound, ConnectingSound
<1>3. ASSUME NEW a \in Control!Attempt, Control!Opened(a) PROVE Sound(client')
  <2> DEFINE d == [client EXCEPT !.socket = a, !.shake = a, !.shakes = @ \cup {a}]
  <2>1. Record(d) /\ d.calls = client.calls /\ d.waiters = client.waiters
    BY DEF Sound, Record, Fields
  <2>2. Control!Ran(d, [link EXCEPT ![a].step = "open", ![a].down = <<Control!Plain("ack")>>])
    BY <1>3 DEF Control!Opened
  <2> HIDE DEF d
  <2>3. Sound(d)
    BY <2>1, Untouched
  <2> QED
    BY <2>2, <2>3, RanSound
<1>4. ASSUME NEW a \in Control!Attempt, Control!ConnectFails(a) PROVE Sound(client')
  <2> DEFINE first(reported) == IF reported THEN Control!TransportClosed(client, FALSE) ELSE client
             d(reported) == [first(reported) EXCEPT !.settle = Control!No]
  <2>1. SUFFICES ASSUME NEW reported \in BOOLEAN, NEW links,
                        Control!Ran(Control!TransportClosed(d(reported), TRUE), links)
                 PROVE  Sound(client')
    BY <1>4 DEF Control!ConnectFails
  <2>2. Sound(first(reported))
    BY TransportClosedSound
  <2> HIDE DEF first
  <2>3. /\ Record(d(reported)) /\ d(reported).calls = first(reported).calls
        /\ d(reported).waiters = first(reported).waiters
    BY <2>2 DEF Sound, Record, Fields
  <2> HIDE DEF d
  <2>4. Sound(d(reported))
    BY <2>2, <2>3, Untouched
  <2> QED
    BY <2>1, <2>4, TransportClosedSound, RanSound
<1>5. ASSUME NEW a \in Control!Attempt, Control!Deliver(a) PROVE Sound(client')
  <2>1. SUFFICES ASSUME NEW byUser, NEW id, NEW links, NEW done, Control!Ran(done, links),
                        done \in {Control!Acked(client, byUser), Control!Refused(client),
                                  Control!TransportClosed(client, FALSE), Control!Settled(client, {id}, "ok")}
                 PROVE  Sound(client')
    BY <1>5 DEF Control!Deliver
  <2>2. Sound(done)
    BY <2>1, AckedSound, RefusedSound, TransportClosedSound, SettledSound
  <2> QED
    BY <2>1, <2>2, RanSound
<1>6. ASSUME NEW a \in Control!Attempt, Control!ShakeTimeout(a) PROVE Sound(client')
  <2> DEFINE d == [client EXCEPT !.shakes = @ \ {a}]
  <2>1. Record(d) /\ d.calls = client.calls /\ d.waiters = client.waiters
    BY DEF Sound, Record, Fields
  <2>2. Control!Ran(Control!TransportClosed(d, FALSE), link)
    BY <1>6 DEF Control!ShakeTimeout
  <2> HIDE DEF d
  <2>3. Sound(d)
    BY <2>1, Untouched
  <2> QED
    BY <2>2, <2>3, TransportClosedSound, RanSound
<1>7. CASE Control!UserAsks
  <2>1. Sound(Control!Ask(client, "user"))
    BY AskSound
  <2> QED
    BY <1>7, <2>1, RanSound DEF Control!UserAsks
<1>8. ASSUME NEW id \in client.pending, Control!CallTimeout(id) PROVE Sound(client')
  <2>1. Sound(Control!Settled(client, {id}, "failed"))
    BY SettledSound
  <2> QED
    BY <1>8, <2>1, RanSound DEF Control!CallTimeout
<1>9. CASE Control!Close
  BY <1>9, ClosedSound, RanSound DEF Control!Close
<1>10. CASE UNCHANGED client
  BY <1>10
<1>11. ASSUME NEW a \in Control!Attempt, Control!Break(a) PROVE UNCHANGED client
  BY <1>11 DEF Control!Break
<1>12. UNCHANGED controlVars => UNCHANGED client
  BY DEF controlVars
<1> QED
  BY <1>1, <1>2, <1>3, <1>4, <1>5, <1>6, <1>7, <1>8, <1>9, <1>10, <1>11, <1>12 DEF Control!Next

(* However attempts to connect overlap, whatever fails, times out or is    *)
(* closed in between and for any number of requests, the client writes no  *)
(* request to a socket twice (request, send, flushWaiters)                 *)
THEOREM RequestsAreSentOnce == MachinesSpec => []AtMostOnce
<1>1. MachinesInit => Sound(client)
  BY ControlStarts DEF MachinesInit
<1>2. Sound(client) /\ [MachinesNext]_machinesVars => Sound(client)'
  <2>1. [MachinesNext]_machinesVars => [Control!Next]_controlVars
    BY DEF MachinesNext, machinesVars, controlVars, ControlStep, ScrollStep, PipeStep, HostStep, ConnStep, PointerStep, MemoryStep
  <2> QED
    BY <2>1, ControlKeeps DEF Sound, Record
<1>3. Sound(client) => AtMostOnce
  BY DEF Sound, AtMostOnce, Control!AtMostOnce
<1> QED
  BY <1>1, <1>2, <1>3, PTL DEF MachinesSpec
-----------------------------------------------------------------------------
(* Sequences of whatever a line or a message may be: how long what is cut,  *)
(* joined and filled up is                                                 *)
ItemsOf(s) == {s[i] : i \in DOMAIN s}
Sequence(s) == s \in Seq(ItemsOf(s))

(* A sequence of whatever is a sequence of its items *)
LEMMA SequenceOf == ASSUME NEW S, NEW s \in Seq(S) PROVE Sequence(s)
<1>1. s \in [1..Len(s) -> S] /\ Len(s) \in Nat /\ DOMAIN s = 1..Len(s)
  BY LenProperties
<1>2. s \in [1..Len(s) -> ItemsOf(s)]
  BY <1>1 DEF ItemsOf
<1> QED
  BY <1>1, <1>2, SeqDef DEF Sequence

(* What is defined for the numbers up to n is a sequence of that length *)
LEMMA Made == ASSUME NEW n \in Nat, NEW f, f = [i \in 1..n |-> f[i]]
              PROVE Sequence(f) /\ Len(f) = n
<1>1. DOMAIN f = 1..n
  BY Zenon
<1>2. f \in [1..n -> ItemsOf(f)]
  BY <1>1 DEF ItemsOf
<1>3. f \in Seq(ItemsOf(f))
  BY <1>2, SeqDef
<1> QED
  BY <1>1, <1>3, LenProperties DEF Sequence

LEMMA LengthIsNat == ASSUME NEW s, Sequence(s) PROVE Len(s) \in Nat /\ DOMAIN s = 1..Len(s)
BY LenProperties DEF Sequence

LEMMA Joined == ASSUME NEW s, NEW t, Sequence(s), Sequence(t)
                PROVE Sequence(s \o t) /\ Len(s \o t) = Len(s) + Len(t)
<1> DEFINE All == ItemsOf(s) \cup ItemsOf(t)
<1>1. s \in Seq(All) /\ t \in Seq(All)
  <2>1. s \in [1..Len(s) -> ItemsOf(s)] /\ t \in [1..Len(t) -> ItemsOf(t)] /\ Len(s) \in Nat /\ Len(t) \in Nat
    BY LenProperties DEF Sequence
  <2>2. s \in [1..Len(s) -> All] /\ t \in [1..Len(t) -> All]
    BY <2>1
  <2> QED
    BY <2>1, <2>2, SeqDef
<1>2. s \o t \in Seq(All) /\ Len(s \o t) = Len(s) + Len(t)
  BY <1>1, ConcatProperties
<1> QED
  BY <1>2, SequenceOf

LEMMA Part == ASSUME NEW s, Sequence(s), NEW m \in Nat, NEW n \in Int, m \geq 1, n \leq Len(s)
              PROVE /\ Sequence(SubSeq(s, m, n))
                    /\ Len(SubSeq(s, m, n)) = IF m <= n THEN n - m + 1 ELSE 0
<1>1. SubSeq(s, m, n) \in Seq(ItemsOf(s)) /\ Len(SubSeq(s, m, n)) = IF m <= n THEN n - m + 1 ELSE 0
  <2>1. s \in Seq(ItemsOf(s))
    BY DEF Sequence
  <2>2. Len(s) \in Nat
    BY LengthIsNat
  <2> QED
    BY <2>1, <2>2, SubSeqProperties
<1> QED
  BY <1>1, SequenceOf

LEMMA Dropped == ASSUME NEW s, Sequence(s), NEW n \in Nat, n \leq Len(s)
                 PROVE Sequence(Scroll!Drop(s, n)) /\ Len(Scroll!Drop(s, n)) = Len(s) - n
<1>1. Len(s) \in Nat
  BY LengthIsNat
<1> QED
  BY <1>1, Part DEF Scroll!Drop

LEMMA Kept == ASSUME NEW s, Sequence(s), NEW n \in Nat
              PROVE /\ Sequence(Scroll!Keep(s, n))
                    /\ Len(Scroll!Keep(s, n)) = IF n < Len(s) THEN n ELSE Len(s)
<1>1. Len(s) \in Nat
  BY LengthIsNat
<1>2. Scroll!AtMost(n, Len(s)) = IF n < Len(s) THEN n ELSE Len(s)
  BY DEF Scroll!AtMost
<1> QED
  BY <1>1, <1>2, Part DEF Scroll!Keep

LEMMA BlanksMade == ASSUME NEW n \in Nat PROVE Sequence(Scroll!Blanks(n)) /\ Len(Scroll!Blanks(n)) = n
BY Made DEF Scroll!Blanks

LEMMA FittedFits == ASSUME NEW s, Sequence(s), NEW n \in Nat
                PROVE Sequence(Scroll!Fitted(s, n)) /\ Len(Scroll!Fitted(s, n)) = n
<1>1. Len(s) \in Nat
  BY LengthIsNat
<1> DEFINE kept == Scroll!Keep(s, n)
<1>2. Sequence(kept) /\ Len(kept) \in Nat /\ Len(kept) \leq n
  BY <1>1, Kept
<1>3. Sequence(Scroll!Blanks(n - Len(kept))) /\ Len(Scroll!Blanks(n - Len(kept))) = n - Len(kept)
  BY <1>2, BlanksMade
<1> HIDE DEF kept
<1>4. Scroll!Fitted(s, n) = kept \o Scroll!Blanks(n - Len(kept))
  BY DEF Scroll!Fitted, kept
<1> QED
  BY <1>2, <1>3, <1>4, Joined
-----------------------------------------------------------------------------
(* The Replica of a pane, as far as its line numbers go *)
Replica(m) ==
  /\ m \in [rows : Nat, visible : {m.visible}, base : Int, len : Nat, from : Int, cache : {m.cache}]
  /\ Sequence(m.visible) /\ Sequence(m.cache)

(* Where the cache ends *)
End(m) == m.from + Len(m.cache)

LEMMA TrimKeepsEnd ==
  ASSUME MachinesAssumption, NEW m, Replica(m)
  PROVE LET t == Scroll!TrimToCap(m)
        IN /\ Replica(t) /\ End(t) = End(m) /\ t.from \geq m.from
           /\ t.base = m.base /\ t.len = m.len
<1> DEFINE over == Scroll!AtLeast(Len(m.cache) - Cap, 0)
           t == [m EXCEPT !.cache = Scroll!Drop(@, over), !.from = @ + over]
<1>1. Len(m.cache) \in Nat
  BY LengthIsNat DEF Replica
<1>2. over \in Nat /\ over \leq Len(m.cache)
  BY <1>1 DEF MachinesAssumption, Scroll!AtLeast
<1>3. Sequence(Scroll!Drop(m.cache, over)) /\ Len(Scroll!Drop(m.cache, over)) = Len(m.cache) - over
  <2> HIDE DEF over
  <2> QED
    BY <1>2, Dropped DEF Replica
<1> HIDE DEF over
<1>4. t \in [rows : {m.rows}, visible : {m.visible}, base : {m.base}, len : {m.len},
             from : {m.from + over}, cache : {Scroll!Drop(m.cache, over)}]
  BY DEF Replica
<1>5. Replica(t) /\ End(t) = End(m) /\ t.from \geq m.from /\ t.base = m.base /\ t.len = m.len
  <2> HIDE DEF t
  <2> QED
    BY <1>1, <1>2, <1>3, <1>4 DEF Replica, End
<1>6. Scroll!TrimToCap(m) = t
  BY DEF Scroll!TrimToCap, over
<1> QED
  BY <1>5, <1>6

LEMMA EvictionLeavesOneRun ==
  ASSUME NEW m, Replica(m), End(m) \leq m.base + m.len
  PROVE LET e == Scroll!EvictBelowTrimPoint(m)
        IN /\ Replica(e) /\ e.base \leq e.from /\ End(e) \leq e.base + e.len
           /\ e.base = m.base /\ e.len = m.len
<1> DEFINE below == Scroll!AtMost(Scroll!AtLeast(m.base - m.from, 0), Len(m.cache))
           left == Scroll!Drop(m.cache, below)
           from == IF left = <<>> THEN m.base + m.len ELSE m.from + below
           e == [m EXCEPT !.cache = left, !.from = from]
<1>1. Len(m.cache) \in Nat
  BY LengthIsNat DEF Replica
<1>2. below \in Nat /\ below \leq Len(m.cache) /\ (below < Len(m.cache) => m.from + below \geq m.base)
  BY <1>1 DEF Scroll!AtMost, Scroll!AtLeast, Replica
<1>3. Sequence(left) /\ Len(left) = Len(m.cache) - below
  <2> HIDE DEF below
  <2> QED
    BY <1>2, Dropped DEF Replica
<1>4. left = <<>> <=> Len(left) = 0
  BY <1>3, EmptySeq DEF Sequence
<1>5. from \in Int /\ m.base \leq from /\ from + Len(left) \leq m.base + m.len
  <2> HIDE DEF below, left
  <2> QED
    BY <1>1, <1>2, <1>3, <1>4 DEF Replica, End
<1> HIDE DEF below, left, from
<1>6. e \in [rows : {m.rows}, visible : {m.visible}, base : {m.base}, len : {m.len},
             from : {from}, cache : {left}]
  BY DEF Replica
<1>7. Replica(e) /\ e.base \leq e.from /\ End(e) \leq e.base + e.len /\ e.base = m.base /\ e.len = m.len
  <2> HIDE DEF e
  <2> QED
    BY <1>3, <1>5, <1>6 DEF Replica, End
<1>8. Scroll!EvictBelowTrimPoint(m) = e
  <2>1. from = IF left = <<>> THEN Scroll!MirrorFirst(m) ELSE m.from + below
    BY DEF from, Scroll!MirrorFirst
  <2> QED
    BY <2>1, Zenon DEF Scroll!EvictBelowTrimPoint, below, left
<1> QED
  BY <1>7, <1>8
LEMMA ScrollingKeepsTheRun ==
  ASSUME MachinesAssumption, NEW m, Replica(m), NEW old \in Int, NEW new \in Int, End(m) \leq old
  PROVE LET s == Scroll!ScrollOff(m, old, new) IN Replica(s) /\ End(s) \leq new
<1> DEFINE cleared == [m EXCEPT !.cache = <<>>, !.from = new]
           cache == m.cache \o Scroll!Keep(m.visible, new - old)
           visible == Scroll!Fitted(Scroll!Drop(m.visible, new - old), m.rows)
           moved == [m EXCEPT !.cache = cache, !.visible = visible]
<1>1. Len(m.cache) \in Nat /\ Len(m.visible) \in Nat
  BY LengthIsNat DEF Replica
<1>2. Sequence(<<>>) /\ Len(<<>>) = 0
  BY EmptySeq, SequenceOf
<1>3. Replica(cleared) /\ End(cleared) \leq new
  <2>1. cleared \in [rows : {m.rows}, visible : {m.visible}, base : {m.base}, len : {m.len},
                     from : {new}, cache : {<<>>}]
    BY DEF Replica
  <2> QED
    BY <1>2, <2>1 DEF Replica, End
<1>4. ASSUME new # old, ~(new < old), ~(new - old > Len(m.visible)), ~Scroll!CacheBaseIsStale(m, old)
      PROVE Replica(moved) /\ End(moved) \leq new
  <2>1. new - old \in Nat /\ new - old \leq Len(m.visible)
    BY <1>1, <1>4
  <2>2. Sequence(cache) /\ Len(cache) = Len(m.cache) + (new - old)
    <3>1. Sequence(Scroll!Keep(m.visible, new - old)) /\ Len(Scroll!Keep(m.visible, new - old)) = new - old
      BY <1>1, <2>1, Kept DEF Replica
    <3> QED
      BY <3>1, Joined DEF Replica
  <2>3. Sequence(visible)
    <3>1. Sequence(Scroll!Drop(m.visible, new - old))
      BY <2>1, Dropped DEF Replica
    <3> QED
      BY <3>1, FittedFits DEF Replica
  <2> HIDE DEF cache, visible
  <2>4. moved \in [rows : {m.rows}, visible : {visible}, base : {m.base}, len : {m.len},
                   from : {m.from}, cache : {cache}]
    BY DEF Replica
  <2>5. m.from + Len(m.cache) \leq old
    BY DEF End
  <2> HIDE DEF moved
  <2>6. moved.visible = visible /\ moved.cache = cache /\ moved.from = m.from
    BY <2>4
  <2>7. m.rows \in Nat /\ m.base \in Int /\ m.len \in Nat /\ m.from \in Int
    BY DEF Replica
  <2>8. moved \in [rows : Nat, visible : {moved.visible}, base : Int, len : Nat,
                   from : Int, cache : {moved.cache}]
    BY <2>4, <2>6, <2>7
  <2>9. Sequence(moved.visible) /\ Sequence(moved.cache)
    BY <2>2, <2>3, <2>6
  <2>10. Replica(moved)
    BY <2>8, <2>9 DEF Replica
  <2>11. End(moved) = m.from + (Len(m.cache) + (new - old))
    BY <2>2, <2>6 DEF End
  <2>12. End(moved) \leq new
    BY <1>1, <2>5, <2>7, <2>11
  <2> QED
    BY <2>10, <2>12
<1>5. Scroll!ScrollOff(m, old, new) =
        IF new = old THEN m
        ELSE IF new < old \/ new - old > Len(m.visible) \/ Scroll!CacheBaseIsStale(m, old) THEN cleared
        ELSE Scroll!TrimToCap(moved)
  BY Zenon DEF Scroll!ScrollOff
<1> HIDE DEF cleared, moved
<1>6. ASSUME Replica(moved), End(moved) \leq new
      PROVE Replica(Scroll!TrimToCap(moved)) /\ End(Scroll!TrimToCap(moved)) \leq new
  BY <1>6, TrimKeepsEnd
<1> QED
  BY <1>3, <1>4, <1>5, <1>6

LEMMA ResizedReplica ==
  ASSUME NEW m, Replica(m), NEW rows \in Nat
  PROVE LET r == Scroll!MirrorResized(m, rows)
        IN Replica(r) /\ End(r) = End(m)
<1> DEFINE visible == Scroll!Fitted(m.visible, rows)
           r == [m EXCEPT !.rows = rows, !.visible = visible]
<1>1. Sequence(visible)
  BY FittedFits DEF Replica
<1> HIDE DEF visible
<1>2. r \in [rows : {rows}, visible : {visible}, base : {m.base}, len : {m.len},
             from : {m.from}, cache : {m.cache}]
  BY DEF Replica
<1>3. Replica(r) /\ End(r) = End(m)
  <2> HIDE DEF r
  <2> QED
    BY <1>1, <1>2 DEF Replica, End
<1> QED
  BY <1>3 DEF Scroll!MirrorResized, visible
-----------------------------------------------------------------------------
(* The messages of a connection *)
OneRunOf(m) == m.base \leq m.from /\ End(m) \leq m.base + m.len

Tells(msg) ==
  \/ /\ msg.kind = "snapshot" /\ msg.base \in Int /\ msg.len \in Nat /\ Sequence(msg.rows)
  \/ /\ msg.kind = "delta" /\ msg.base \in Int /\ msg.len \in Nat /\ msg.size \in Nat
  \/ /\ msg.kind = "history" /\ msg.base \in Int /\ msg.from \in Int /\ Sequence(msg.rows)

LEMMA SnapshotApplied ==
  ASSUME NEW m, NEW msg, Tells(msg), msg.kind = "snapshot"
  PROVE LET s == Scroll!ApplySnapshot(m, msg) IN Replica(s) /\ OneRunOf(s)
<1> DEFINE s == [rows |-> Len(msg.rows), visible |-> msg.rows, base |-> msg.base, len |-> msg.len,
                 from |-> msg.base + msg.len, cache |-> <<>>]
<1>1. Sequence(<<>>) /\ Len(<<>>) = 0
  BY EmptySeq, SequenceOf
<1>2. msg.base \in Int /\ msg.len \in Nat /\ Sequence(msg.rows) /\ Len(msg.rows) \in Nat
  BY LengthIsNat DEF Tells
<1>3. Replica(s) /\ OneRunOf(s)
  BY <1>1, <1>2 DEF Replica, OneRunOf, End
<1> QED
  BY <1>3 DEF Scroll!ApplySnapshot

LEMMA DeltaApplied ==
  ASSUME MachinesAssumption, NEW m, Replica(m), OneRunOf(m), NEW msg, Tells(msg), msg.kind = "delta"
  PROVE LET s == Scroll!ApplyDelta(m, msg) IN Replica(s) /\ OneRunOf(s)
<1> DEFINE sized == IF msg.size = 0 THEN m ELSE Scroll!MirrorResized(m, msg.size)
           moved == Scroll!ScrollOff(sized, m.base + m.len, msg.base + msg.len)
           told == [moved EXCEPT !.base = msg.base, !.len = msg.len]
           kept == Scroll!EvictBelowTrimPoint(told)
           visible == [r \in DOMAIN kept.visible |->
                         IF r \in DOMAIN msg.rows THEN msg.rows[r] ELSE kept.visible[r]]
           s == [kept EXCEPT !.visible = visible]
<1>1. msg.base \in Int /\ msg.len \in Nat /\ msg.size \in Nat
  BY DEF Tells
<1>2. Replica(sized) /\ End(sized) \leq m.base + m.len
  BY <1>1, ResizedReplica DEF OneRunOf
<1> HIDE DEF sized
<1>3. Replica(moved) /\ End(moved) \leq msg.base + msg.len
  <2>1. m.base + m.len \in Int /\ msg.base + msg.len \in Int
    BY <1>1 DEF Replica
  <2> QED
    BY <1>2, <2>1, ScrollingKeepsTheRun
<1> HIDE DEF moved
<1>4. Replica(told) /\ End(told) \leq told.base + told.len
  <2>1. told \in [rows : {moved.rows}, visible : {moved.visible}, base : {msg.base}, len : {msg.len},
                  from : {moved.from}, cache : {moved.cache}]
    BY <1>3 DEF Replica
  <2> HIDE DEF told
  <2> QED
    BY <1>1, <1>3, <2>1 DEF Replica, End
<1> HIDE DEF told
<1>5. Replica(kept) /\ OneRunOf(kept)
  BY <1>4, EvictionLeavesOneRun DEF OneRunOf
<1> HIDE DEF kept
<1>6. Sequence(visible)
  <2>1. Len(kept.visible) \in Nat /\ DOMAIN kept.visible = 1..Len(kept.visible)
    BY <1>5, LengthIsNat DEF Replica
  <2>2. visible = [i \in 1..Len(kept.visible) |-> visible[i]]
    BY <2>1
  <2> HIDE DEF visible
  <2> QED
    BY <2>1, <2>2, Made
<1> HIDE DEF visible
<1>7. Replica(s) /\ OneRunOf(s)
  <2>1. s \in [rows : {kept.rows}, visible : {visible}, base : {kept.base}, len : {kept.len},
               from : {kept.from}, cache : {kept.cache}]
    BY <1>5 DEF Replica
  <2> HIDE DEF s
  <2> QED
    BY <1>5, <1>6, <2>1 DEF Replica, OneRunOf, End
<1>8. Scroll!ApplyDelta(m, msg) = s
  BY Zenon DEF Scroll!ApplyDelta, Scroll!MirrorFirst, sized, moved, told, kept, visible
<1> QED
  BY <1>7, <1>8
(* Rows that end no later than the first row of the screen join the run *)
LEMMA MergedIsOneRun ==
  ASSUME NEW m, Replica(m), End(m) \leq m.base + m.len,
         NEW start \in Int, NEW rows, Sequence(rows), start + Len(rows) \leq m.base + m.len
  PROVE LET j == Scroll!Merged(m, start, rows)
        IN Replica(j) /\ End(j) \leq j.base + j.len
<1> DEFINE ahead == Scroll!AtLeast(m.from - start, 0)
           beyond == Scroll!AtMost(Scroll!AtLeast(End(m) - start, 0), Len(rows))
           head == Scroll!Keep(rows, ahead)
           end == Scroll!Drop(rows, beyond)
           alone == [m EXCEPT !.cache = rows, !.from = start]
           cache == head \o m.cache \o end
           from == Scroll!AtMost(m.from, start)
           joined == [m EXCEPT !.cache = cache, !.from = from]
<1>1. Len(rows) \in Nat /\ Len(m.cache) \in Nat
  BY LengthIsNat DEF Replica
<1>2. Replica(alone) /\ End(alone) \leq alone.base + alone.len
  <2>1. alone \in [rows : {m.rows}, visible : {m.visible}, base : {m.base}, len : {m.len},
                   from : {start}, cache : {rows}]
    BY DEF Replica
  <2> HIDE DEF alone
  <2> QED
    BY <2>1 DEF Replica, End
<1>3. ASSUME ~(start + Len(rows) < m.from), ~(start > End(m))
      PROVE Replica(joined) /\ End(joined) \leq joined.base + joined.len
  <2>1. ahead \in Nat /\ ahead \leq Len(rows) /\ (m.from \leq start => ahead = 0)
        /\ (m.from > start => ahead = m.from - start)
    BY <1>1, <1>3 DEF Scroll!AtLeast, Replica
  <2>2. beyond \in Nat /\ beyond \leq Len(rows)
        /\ (End(m) - start \geq Len(rows) => beyond = Len(rows))
        /\ (End(m) - start < Len(rows) => beyond = End(m) - start)
    BY <1>1, <1>3 DEF Scroll!AtLeast, Scroll!AtMost, Replica, End
  <2>3. Sequence(head) /\ Len(head) = ahead
    <3> HIDE DEF ahead
    <3>1. Sequence(head) /\ Len(head) = IF ahead < Len(rows) THEN ahead ELSE Len(rows)
      BY <2>1, Kept
    <3> QED
      BY <1>1, <2>1, <3>1
  <2>4. Sequence(end) /\ Len(end) = Len(rows) - beyond
    BY <2>2, Dropped
  <2> HIDE DEF ahead, beyond, head, end
  <2>5. Sequence(cache) /\ Len(cache) = ahead + Len(m.cache) + (Len(rows) - beyond)
    <3>1. Sequence(head \o m.cache) /\ Len(head \o m.cache) = ahead + Len(m.cache)
      BY <2>3, Joined DEF Replica
    <3> QED
      BY <2>4, <3>1, Joined
  <2>6. from \in Int /\ (m.from < start => from = m.from) /\ (m.from \geq start => from = start)
    BY DEF Scroll!AtMost, Replica
  <2> HIDE DEF cache, from
  <2>7. joined \in [rows : {m.rows}, visible : {m.visible}, base : {m.base}, len : {m.len},
                    from : {from}, cache : {cache}]
    BY DEF Replica
  <2>8. from + Len(cache) \leq m.base + m.len
    <3>1. m.from \in Int /\ m.base + m.len \in Int /\ End(m) = m.from + Len(m.cache)
      BY DEF Replica, End
    <3>2. from + ahead = m.from
      BY <2>1, <2>6, <3>1
    <3>3. from + Len(cache) = End(m) + (Len(rows) - beyond)
      <4>1. Len(cache) = ahead + Len(m.cache) + (Len(rows) - beyond)
        BY <2>5
      <4>2. ahead \in Int /\ beyond \in Int /\ from \in Int /\ Len(rows) \in Int /\ Len(m.cache) \in Int
        BY <1>1, <2>1, <2>2, <2>6
      <4> QED
        BY <3>1, <3>2, <4>1, <4>2
    <3>4. CASE End(m) - start \geq Len(rows)
      BY <1>1, <2>2, <3>1, <3>3, <3>4
    <3>5. CASE End(m) - start < Len(rows)
      BY <1>1, <2>2, <3>1, <3>3, <3>5
    <3> QED
      BY <1>1, <3>1, <3>4, <3>5
  <2> HIDE DEF joined
  <2> QED
    BY <2>5, <2>6, <2>7, <2>8 DEF Replica, End
<1>4. Scroll!Merged(m, start, rows) =
        IF m.cache = <<>> \/ start + Len(rows) < m.from \/ start > End(m) THEN alone ELSE joined
  BY Zenon DEF Scroll!Merged, Scroll!CacheEnd, End, ahead, beyond, head, end, cache, from
<1> HIDE DEF alone, joined
<1> QED
  BY <1>2, <1>3, <1>4

LEMMA HistoryApplied ==
  ASSUME MachinesAssumption, NEW old, Replica(old), OneRunOf(old), NEW msg, Tells(msg), msg.kind = "history"
  PROVE LET s == Scroll!ApplyHistoryPage(old, msg) IN Replica(s) /\ OneRunOf(s)
<1> DEFINE base == Scroll!AtLeast(old.base, msg.base)
           based == [old EXCEPT !.base = base]
           start == Scroll!AtLeast(msg.from, based.base)
           before == Scroll!AtMost(start - msg.from, Len(msg.rows))
           room == Scroll!AtLeast(Scroll!MirrorFirst(based) - start, 0)
           rest == Scroll!Drop(msg.rows, before)
           rows == Scroll!Keep(rest, room)
           evicted == Scroll!EvictBelowTrimPoint(Scroll!Merged(based, start, rows))
<1>1. msg.base \in Int /\ msg.from \in Int /\ Sequence(msg.rows) /\ Len(msg.rows) \in Nat
  BY LengthIsNat DEF Tells
<1>2. base \in Int /\ base \geq old.base
  BY <1>1 DEF Scroll!AtLeast, Replica
<1> HIDE DEF base
<1>3. Replica(based) /\ End(based) \leq based.base + based.len
  <2>1. based \in [rows : {old.rows}, visible : {old.visible}, base : {base}, len : {old.len},
                   from : {old.from}, cache : {old.cache}]
    BY DEF Replica
  <2> HIDE DEF based
  <2> QED
    BY <1>2, <2>1 DEF Replica, OneRunOf, End
<1> HIDE DEF based
<1>4. start \in Int /\ start \geq msg.from
  <2>1. based.base \in Int
    BY <1>3 DEF Replica
  <2> QED
    BY <1>1, <2>1 DEF Scroll!AtLeast
<1> HIDE DEF start
<1>5. before \in Nat /\ before \leq Len(msg.rows)
  BY <1>1, <1>4 DEF Scroll!AtMost
<1> HIDE DEF before
<1>6. Sequence(rest) /\ Len(rest) \in Nat
  BY <1>1, <1>5, Dropped
<1> HIDE DEF rest
<1>7. room \in Nat /\ (room # 0 => start + room \leq based.base + based.len)
  BY <1>3, <1>4 DEF Scroll!AtLeast, Scroll!MirrorFirst, Replica
<1> HIDE DEF room
<1>8. Sequence(rows) /\ Len(rows) \in Nat /\ Len(rows) \leq room
  BY <1>6, <1>7, Kept
<1> HIDE DEF rows
<1>9. rows # <<>> => Len(rows) # 0
  BY <1>8, EmptySeq DEF Sequence
<1>10. ASSUME rows # <<>>
       PROVE LET s == Scroll!TrimToCap(evicted) IN Replica(s) /\ OneRunOf(s)
  <2>1. start + Len(rows) \leq based.base + based.len
    <3>1. based.base + based.len \in Int
      BY <1>3 DEF Replica
    <3>2. room # 0
      BY <1>7, <1>8, <1>9, <1>10
    <3> QED
      BY <1>4, <1>7, <1>8, <3>1, <3>2
  <2> DEFINE merged == Scroll!Merged(based, start, rows)
  <2>2. Replica(merged) /\ End(merged) \leq merged.base + merged.len
    BY <1>3, <1>4, <1>8, <2>1, MergedIsOneRun
  <2> HIDE DEF merged
  <2>3. Replica(Scroll!EvictBelowTrimPoint(merged)) /\ OneRunOf(Scroll!EvictBelowTrimPoint(merged))
    BY <2>2, EvictionLeavesOneRun DEF OneRunOf
  <2>4. Replica(evicted) /\ OneRunOf(evicted)
    BY <2>3 DEF merged
  <2> HIDE DEF evicted
  <2>5. LET s == Scroll!TrimToCap(evicted)
        IN Replica(s) /\ End(s) = End(evicted) /\ s.from \geq evicted.from
           /\ s.base = evicted.base /\ s.len = evicted.len
    BY <2>4, TrimKeepsEnd
  <2> QED
    BY <2>4, <2>5 DEF OneRunOf, Replica
<1>11. Replica(Scroll!EvictBelowTrimPoint(based)) /\ OneRunOf(Scroll!EvictBelowTrimPoint(based))
  BY <1>3, EvictionLeavesOneRun DEF OneRunOf
<1>12. Scroll!ApplyHistoryPage(old, msg) =
         IF rows = <<>> THEN Scroll!EvictBelowTrimPoint(based) ELSE Scroll!TrimToCap(evicted)
  BY Zenon DEF Scroll!ApplyHistoryPage, base, based, start, before, room, rest, rows, evicted
<1> HIDE DEF evicted
<1> QED
  BY <1>10, <1>11, <1>12

LEMMA AppliedIsOneRun ==
  ASSUME MachinesAssumption, NEW m, Replica(m), OneRunOf(m), NEW msg, Tells(msg)
  PROVE LET s == Scroll!Apply(m, msg) IN Replica(s) /\ OneRunOf(s)
<1>1. CASE msg.kind = "snapshot"
  BY <1>1, SnapshotApplied DEF Scroll!Apply
<1>2. CASE msg.kind = "delta"
  BY <1>2, DeltaApplied DEF Scroll!Apply
<1>3. CASE msg.kind = "history"
  BY <1>3, HistoryApplied DEF Scroll!Apply
<1> QED
  BY <1>1, <1>2, <1>3 DEF Tells
-----------------------------------------------------------------------------
(* The engine of a Surface *)
Grid(v) ==
  /\ v \in [base : Int, lines : {v.lines}, rows : Nat \ {0}, len : Nat, alt : BOOLEAN, page : {v.page}]
  /\ Sequence(v.lines) /\ Sequence(v.page)
  /\ v.rows \leq Len(v.lines) /\ (v.alt => Len(v.page) = v.rows)

Engine(v) == Grid(v) /\ (~v.alt => Len(v.lines) = v.len + v.rows)

LEMMA Appended == ASSUME NEW s, Sequence(s), NEW x
                  PROVE Sequence(Append(s, x)) /\ Len(Append(s, x)) = Len(s) + 1
<1>1. s \in [1..Len(s) -> ItemsOf(s)] /\ Len(s) \in Nat
  BY LenProperties DEF Sequence
<1>2. s \in Seq(ItemsOf(s) \cup {x})
  BY <1>1, SeqDef
<1>3. Append(s, x) \in Seq(ItemsOf(s) \cup {x}) /\ Len(Append(s, x)) = Len(s) + 1
  BY <1>2, AppendProperties
<1> QED
  BY <1>3, SequenceOf

LEMMA Rest == ASSUME NEW s, Sequence(s), s # <<>>
              PROVE /\ Sequence(Tail(s)) /\ Len(Tail(s)) = Len(s) - 1 /\ Len(s) \in Nat \ {0}
                    /\ Head(s) = s[1] /\ \A i \in 1..Len(Tail(s)) : Tail(s)[i] = s[i + 1]
<1>1. Tail(s) \in Seq(ItemsOf(s)) /\ Len(Tail(s)) = Len(s) - 1 /\ Head(s) = s[1]
      /\ \A i \in 1..Len(Tail(s)) : Tail(s)[i] = s[i + 1]
  BY HeadTailProperties DEF Sequence
<1>2. Len(s) \in Nat \ {0}
  BY EmptySeq, LengthIsNat DEF Sequence
<1> QED
  BY <1>1, <1>2, SequenceOf

LEMMA Overwritten == ASSUME NEW s, Sequence(s), NEW r, NEW x
                     PROVE Sequence([s EXCEPT ![r] = x]) /\ Len([s EXCEPT ![r] = x]) = Len(s)
<1> DEFINE t == [s EXCEPT ![r] = x]
<1>1. Len(s) \in Nat /\ DOMAIN s = 1..Len(s)
  BY LengthIsNat
<1>2. t = [i \in 1..Len(s) |-> t[i]]
  BY <1>1
<1> HIDE DEF t
<1>3. Sequence(t) /\ Len(t) = Len(s)
  BY <1>1, <1>2, Made
<1> QED
  BY <1>3 DEF t

LEMMA TrimmedIsEngine ==
  ASSUME MachinesAssumption, NEW v, Grid(v)
  PROVE Engine(Scroll!Trimmed(v)) /\ Scroll!Trimmed(v).rows = v.rows
<1> DEFINE evicted == Scroll!AtLeast(Len(v.lines) - v.rows - MaxHistory, 0)
           lines == Scroll!Drop(v.lines, evicted)
           t == [v EXCEPT !.lines = lines, !.base = @ + evicted, !.len = Len(v.lines) - evicted - v.rows]
<1>1. CASE v.alt
  <2>1. Scroll!Trimmed(v) = v
    BY <1>1, Zenon DEF Scroll!Trimmed
  <2> QED
    BY <1>1, <2>1 DEF Engine
<1>2. CASE ~v.alt
  <2>1. Len(v.lines) \in Nat
    BY LengthIsNat DEF Grid
  <2>2. evicted \in Nat /\ evicted \leq Len(v.lines) - v.rows
    BY <2>1 DEF Scroll!AtLeast, MachinesAssumption, Grid
  <2> HIDE DEF evicted
  <2>3. Sequence(lines) /\ Len(lines) = Len(v.lines) - evicted
    BY <2>1, <2>2, Dropped DEF Grid
  <2> HIDE DEF lines
  <2>4. t \in [base : {v.base + evicted}, lines : {lines}, rows : {v.rows},
               len : {Len(v.lines) - evicted - v.rows}, alt : {FALSE}, page : {v.page}]
    <3>1. v.alt = FALSE
      BY <1>2 DEF Grid
    <3> QED
      BY <3>1 DEF Grid
  <2> HIDE DEF t
  <2>5. ~t.alt /\ t.alt \in BOOLEAN
    BY <2>4
  <2>6. /\ t.base \in Int /\ t.lines = lines /\ t.rows = v.rows /\ t.page = v.page
        /\ t.len \in Nat /\ t.len = Len(lines) - t.rows
    BY <2>1, <2>2, <2>3, <2>4 DEF Grid
  <2>7. t \in [base : Int, lines : {t.lines}, rows : Nat \ {0}, len : Nat, alt : BOOLEAN, page : {t.page}]
    BY <2>4, <2>6 DEF Grid
  <2>8. Len(lines) = t.len + t.rows /\ t.rows \leq Len(lines)
    BY <2>1, <2>2, <2>3, <2>6 DEF Grid
  <2>9. Engine(t)
    BY <2>3, <2>5, <2>6, <2>7, <2>8 DEF Engine, Grid
  <2>10. Scroll!Trimmed(v) = t
    BY <1>2, Zenon DEF Scroll!Trimmed, evicted, lines, t
  <2> QED
    BY <2>6, <2>9, <2>10
<1> QED
  BY <1>1, <1>2

LEMMA WrittenGrid ==
  ASSUME NEW v, Engine(v), NEW r, NEW ink
  PROVE Grid(Scroll!Written(v, r, ink)) /\ Scroll!Written(v, r, ink).rows = v.rows
<1> DEFINE page == [v.page EXCEPT ![r] = ink]
           lines == [v.lines EXCEPT ![Len(v.lines) - v.rows + r] = ink]
           a == [v EXCEPT !.page = page]
           p == [v EXCEPT !.lines = lines]
<1>1. Sequence(page) /\ Len(page) = Len(v.page) /\ Sequence(lines) /\ Len(lines) = Len(v.lines)
  BY Overwritten DEF Engine, Grid
<1> HIDE DEF page, lines
<1>2. a \in [base : {v.base}, lines : {v.lines}, rows : {v.rows}, len : {v.len}, alt : {v.alt}, page : {page}]
  BY DEF Engine, Grid
<1>3. p \in [base : {v.base}, lines : {lines}, rows : {v.rows}, len : {v.len}, alt : {v.alt}, page : {v.page}]
  BY DEF Engine, Grid
<1> HIDE DEF a, p
<1>4. Grid(a) /\ a.rows = v.rows
  BY <1>1, <1>2 DEF Engine, Grid
<1>5. Grid(p) /\ p.rows = v.rows
  BY <1>1, <1>3 DEF Engine, Grid
<1>6. Scroll!Written(v, r, ink) = IF v.alt THEN a ELSE p
  BY Zenon DEF Scroll!Written, a, p, page, lines
<1> QED
  BY <1>4, <1>5, <1>6

LEMMA LineFedGrid ==
  ASSUME NEW v, Engine(v)
  PROVE Grid(Scroll!LineFed(v)) /\ Scroll!LineFed(v).rows = v.rows
<1> DEFINE page == Append(Tail(v.page), 0)
           lines == Append(v.lines, 0)
           a == [v EXCEPT !.page = page]
           p == [v EXCEPT !.lines = lines]
<1>1. Sequence(lines) /\ Len(lines) = Len(v.lines) + 1 /\ Len(v.lines) \in Nat
  BY Appended, LengthIsNat DEF Engine, Grid
<1>2. ASSUME v.alt PROVE Sequence(page) /\ Len(page) = Len(v.page)
  <2>1. v.page # <<>>
    BY <1>2, EmptySeq DEF Engine, Grid
  <2>2. Sequence(Tail(v.page)) /\ Len(Tail(v.page)) = Len(v.page) - 1 /\ Len(v.page) \in Nat
    BY <2>1, Rest DEF Engine, Grid
  <2> QED
    BY <2>2, Appended
<1> HIDE DEF page, lines
<1>3. a \in [base : {v.base}, lines : {v.lines}, rows : {v.rows}, len : {v.len}, alt : {v.alt}, page : {page}]
  BY DEF Engine, Grid
<1>4. p \in [base : {v.base}, lines : {lines}, rows : {v.rows}, len : {v.len}, alt : {v.alt}, page : {v.page}]
  BY DEF Engine, Grid
<1> HIDE DEF a, p
<1>5. ASSUME v.alt PROVE Grid(a) /\ a.rows = v.rows
  BY <1>2, <1>3, <1>5 DEF Engine, Grid
<1>6. Grid(p) /\ p.rows = v.rows
  BY <1>1, <1>4 DEF Engine, Grid
<1>7. Scroll!LineFed(v) = IF v.alt THEN a ELSE p
  BY Zenon DEF Scroll!LineFed, a, p, page, lines
<1> QED
  BY <1>5, <1>6, <1>7
LEMMA SwappedGrid ==
  ASSUME NEW v, Engine(v)
  PROVE Grid(Scroll!Swapped(v)) /\ Scroll!Swapped(v).rows = v.rows
<1>1. Sequence(<<>>)
  BY EmptySeq, SequenceOf
<1>2. Sequence(Scroll!Blanks(v.rows)) /\ Len(Scroll!Blanks(v.rows)) = v.rows
  BY BlanksMade DEF Engine, Grid
<1>3. CASE v.alt
  <2> DEFINE s == [v EXCEPT !.alt = FALSE, !.page = <<>>]
  <2>1. s \in [base : {v.base}, lines : {v.lines}, rows : {v.rows}, len : {v.len}, alt : {FALSE}, page : {<<>>}]
    BY DEF Engine, Grid
  <2> HIDE DEF s
  <2>2. Grid(s) /\ s.rows = v.rows
    BY <1>1, <2>1 DEF Engine, Grid
  <2>3. v.alt = TRUE
    BY <1>3 DEF Engine, Grid
  <2>4. Scroll!Swapped(v) = s
    BY <2>3, Zenon DEF Scroll!Swapped, s
  <2> QED
    BY <2>2, <2>4
<1>4. CASE ~v.alt
  <2> DEFINE page == Scroll!Blanks(v.rows)
             s == [v EXCEPT !.alt = TRUE, !.page = page]
  <2> HIDE DEF page
  <2>1. s \in [base : {v.base}, lines : {v.lines}, rows : {v.rows}, len : {v.len}, alt : {TRUE}, page : {page}]
    BY DEF Engine, Grid
  <2> HIDE DEF s
  <2>2. Sequence(page) /\ Len(page) = v.rows
    BY <1>2 DEF page
  <2>3. Grid(s) /\ s.rows = v.rows
    BY <2>1, <2>2 DEF Engine, Grid
  <2>4. v.alt = FALSE
    BY <1>4 DEF Engine, Grid
  <2>5. Scroll!Swapped(v) = s
    BY <2>4, Zenon DEF Scroll!Swapped, s, page
  <2> QED
    BY <2>3, <2>5
<1> QED
  BY <1>3, <1>4 DEF Engine, Grid

(* A grid of another height still has as many lines as it has rows *)
LEMMA RegrownFits ==
  ASSUME NEW v, Engine(v), NEW rows \in Nat \ {0}, NEW kept \in 0..Scroll!AtLeast(v.rows - rows, 0)
  PROVE LET lines == Scroll!Regrown(v, rows, kept)
        IN Sequence(lines) /\ rows \leq Len(lines)
<1>1. Len(v.lines) \in Nat /\ v.rows \in Nat /\ v.rows \leq Len(v.lines) /\ Sequence(v.lines)
  BY LengthIsNat DEF Engine, Grid
<1>2. CASE rows \geq v.rows
  <2> DEFINE added == rows - v.rows
             pulled == Scroll!AtMost(added, Len(v.lines) - v.rows)
             new == Scroll!Blanks(added - pulled)
  <2>1. pulled \in Nat /\ pulled \leq added /\ pulled \leq Len(v.lines) - v.rows
    BY <1>1, <1>2 DEF Scroll!AtMost
  <2>2. added - pulled \in Nat
    BY <1>1, <1>2, <2>1
  <2>3. Sequence(new) /\ Len(new) = added - pulled
    <3> HIDE DEF added, pulled
    <3> QED
      BY <2>2, BlanksMade
  <2> HIDE DEF new, pulled
  <2>4. Sequence(v.lines \o new) /\ Len(v.lines \o new) = Len(v.lines) + (added - pulled)
    BY <1>1, <2>3, Joined
  <2>5. rows \leq Len(v.lines \o new)
    BY <1>1, <1>2, <2>1, <2>4
  <2>6. Scroll!Regrown(v, rows, kept) = v.lines \o new
    BY <1>2, Zenon DEF Scroll!Regrown, pulled, new
  <2> QED
    BY <2>4, <2>5, <2>6
<1>3. CASE ~(rows \geq v.rows)
  <2> DEFINE left == Len(v.lines) - (v.rows - rows) + kept
  <2>1. kept \in Nat /\ kept \leq v.rows - rows
    BY <1>1, <1>3 DEF Scroll!AtLeast
  <2>2. left \in Nat /\ left \leq Len(v.lines) /\ rows \leq left
    BY <1>1, <1>3, <2>1
  <2> HIDE DEF left
  <2>3. Sequence(Scroll!Keep(v.lines, left)) /\ Len(Scroll!Keep(v.lines, left)) = left
    BY <1>1, <2>2, Kept
  <2>4. Scroll!Regrown(v, rows, kept) = Scroll!Keep(v.lines, left)
    BY <1>3, Zenon DEF Scroll!Regrown, left
  <2> QED
    BY <2>2, <2>3, <2>4
<1> QED
  BY <1>2, <1>3

LEMMA ResizedEngine ==
  ASSUME MachinesAssumption, NEW v, Engine(v), NEW rows \in Nat \ {0},
         NEW kept \in 0..Scroll!AtLeast(v.rows - rows, 0)
  PROVE Engine(Scroll!Resized(v, rows, kept))
<1> DEFINE lines == Scroll!Regrown(v, rows, kept)
           page == IF v.alt THEN Scroll!Blanks(rows) ELSE <<>>
           s == [v EXCEPT !.lines = lines, !.rows = rows, !.page = page]
<1>1. Sequence(lines) /\ rows \leq Len(lines)
  BY RegrownFits
<1>2. Sequence(page) /\ (v.alt => Len(page) = rows)
  <2>1. Sequence(<<>>)
    BY EmptySeq, SequenceOf
  <2>2. Sequence(Scroll!Blanks(rows)) /\ Len(Scroll!Blanks(rows)) = rows
    BY BlanksMade
  <2> QED
    BY <2>1, <2>2
<1> HIDE DEF lines, page
<1>3. s \in [base : {v.base}, lines : {lines}, rows : {rows}, len : {v.len}, alt : {v.alt}, page : {page}]
  BY DEF Engine, Grid
<1> HIDE DEF s
<1>4. Grid(s)
  BY <1>1, <1>2, <1>3 DEF Engine, Grid
<1>5. Scroll!Resized(v, rows, kept) = Scroll!Trimmed(s)
  BY Zenon DEF Scroll!Resized, s, lines, page
<1> QED
  BY <1>4, <1>5, TrimmedIsEngine

LEMMA ScreenIsSequence ==
  ASSUME NEW v, Engine(v)
  PROVE Sequence(Scroll!Screen(v))
<1>1. Len(v.lines) \in Nat
  BY LengthIsNat DEF Engine, Grid
<1>2. Sequence(Scroll!Drop(v.lines, Len(v.lines) - v.rows))
  BY <1>1, Dropped DEF Engine, Grid
<1> QED
  BY <1>2 DEF Scroll!Screen, Scroll!Last, Engine, Grid

LEMMA SnapshotTold == ASSUME NEW v, Engine(v) PROVE Tells(Scroll!Snapshot(v))
BY ScreenIsSequence DEF Scroll!Snapshot, Scroll!HistoryBase, Scroll!HistoryLen, Scroll!First, Tells, Engine, Grid

LEMMA DeltaTold == ASSUME NEW v, Engine(v), NEW o, o.size \in Nat PROVE Tells(Scroll!Delta(v, o))
BY DEF Scroll!Delta, Scroll!HistoryBase, Scroll!HistoryLen, Scroll!First, Tells, Engine, Grid

LEMMA HistoryTold ==
  ASSUME NEW v, Engine(v), NEW from \in Int, NEW count \in Int
  PROVE Tells(Scroll!History(v, from, count))
<1> DEFINE base == Scroll!HistoryBase(v)
           start == Scroll!AtLeast(from, base)
           last == Scroll!AtMost(Scroll!First(v) + v.rows, start + count)
           all == IF v.alt THEN v.page ELSE v.lines
           origin == IF v.alt THEN Scroll!First(v) ELSE v.base
           rows == SubSeq(all, start - origin + 1, last - origin)
<1>1. /\ base \in Int /\ origin = base /\ v.rows \in Nat
      /\ Scroll!First(v) \in Int /\ Scroll!First(v) = v.base + v.len
      /\ origin + Len(all) = Scroll!First(v) + v.rows /\ Sequence(all) /\ Len(all) \in Nat
  BY LengthIsNat DEF Scroll!HistoryBase, Scroll!First, Engine, Grid
<1> HIDE DEF base, origin, all
<1>2. start \in Int /\ start \geq base
  BY <1>1 DEF Scroll!AtLeast
<1> HIDE DEF start
<1>3. last \in Int /\ last \leq Scroll!First(v) + v.rows
  BY <1>1, <1>2 DEF Scroll!AtMost
<1> HIDE DEF last
<1>4. Sequence(rows)
  <2>1. /\ start - origin + 1 \in Nat /\ start - origin + 1 \geq 1
        /\ last - origin \in Int /\ last - origin \leq Len(all)
    BY <1>1, <1>2, <1>3
  <2> QED
    BY <1>1, <2>1, Part
<1> HIDE DEF rows
<1>5. Scroll!History(v, from, count) = [kind |-> "history", from |-> start, base |-> base, rows |-> rows]
  BY Zenon DEF Scroll!History, Scroll!HistoryLines, base, start, last, all, origin, rows
<1> QED
  BY <1>1, <1>2, <1>4, <1>5 DEF Tells
-----------------------------------------------------------------------------
(* Requests on their way to the server *)
Asked(msg) ==
  \/ msg.kind = "attach"
  \/ msg.kind = "resize" /\ msg.rows \in Heights
  \/ msg.kind = "fetch" /\ msg.from \in Int /\ msg.count \in Int

AllTold(q) == Sequence(q) /\ \A i \in 1..Len(q) : Tells(q[i])
AllAsked(q) == Sequence(q) /\ \A i \in 1..Len(q) : Asked(q[i])

Owing(o) == o \in [on : BOOLEAN, dirty : {o.dirty}, size : Nat, meta : {o.meta}, snapshot : BOOLEAN]

Element(g) == g \in [offset : Int, top : {g.top}, asked : {g.asked}, sent : {g.sent}, seen : {g.seen},
                     fit : Heights]

(* The run of lines in the cache of the Replica depends on what the server  *)
(* says of its history, so what is on its way and what the engine keeps are *)
(* part of it                                                              *)
ScrollInv ==
  /\ Engine(vt) /\ Owing(owed)
  /\ AllTold(built) /\ AllTold(down) /\ AllAsked(up)
  /\ Replica(mirror) /\ OneRunOf(mirror)
  /\ Element(grid)

LEMMA NoneTold == AllTold(<<>>)
<1>1. <<>> \in Seq({}) /\ Len(<<>>) = 0
  BY EmptySeq
<1>2. Sequence(<<>>)
  BY <1>1, SequenceOf
<1> QED
  BY <1>1, <1>2 DEF AllTold

LEMMA OneTold == ASSUME NEW msg, Tells(msg) PROVE AllTold(<<msg>>)
<1> DEFINE q == <<msg>>
<1>1. q \in Seq({msg}) /\ Len(q) = 1 /\ q[1] = msg
  OBVIOUS
<1> HIDE DEF q
<1>2. Sequence(q)
  BY <1>1, SequenceOf
<1>3. AllTold(q)
  BY <1>1, <1>2 DEF AllTold
<1> QED
  BY <1>3 DEF q

LEMMA MoreTold == ASSUME NEW q, AllTold(q), NEW r, AllTold(r) PROVE AllTold(q \o r)
<1> DEFINE All == ItemsOf(q) \cup ItemsOf(r)
<1>1. Len(q) \in Nat /\ Len(r) \in Nat /\ q \in [1..Len(q) -> All] /\ r \in [1..Len(r) -> All]
  BY LenProperties DEF AllTold, Sequence
<1>2. q \in Seq(All) /\ r \in Seq(All)
  BY <1>1, SeqDef
<1> HIDE DEF All
<1>3. /\ q \o r \in Seq(All) /\ Len(q \o r) = Len(q) + Len(r)
      /\ \A i \in 1..(Len(q) + Len(r)) : (q \o r)[i] = IF i \leq Len(q) THEN q[i] ELSE r[i - Len(q)]
  BY <1>2, ConcatProperties
<1>4. ASSUME NEW i \in 1..Len(q \o r) PROVE Tells((q \o r)[i])
  <2>1. i \in 1..Len(q) \/ i - Len(q) \in 1..Len(r)
    BY <1>1, <1>3
  <2>2. CASE i \in 1..Len(q)
    BY <1>1, <1>3, <2>2 DEF AllTold
  <2>3. CASE ~(i \in 1..Len(q))
    <3>1. (q \o r)[i] = r[i - Len(q)] /\ i - Len(q) \in 1..Len(r)
      BY <1>1, <1>3, <2>1, <2>3
    <3> QED
      BY <3>1 DEF AllTold
  <2> QED
    BY <2>2, <2>3
<1> QED
  BY <1>3, <1>4, SequenceOf DEF AllTold

LEMMA LessTold == ASSUME NEW q, AllTold(q), q # <<>> PROVE AllTold(Tail(q)) /\ Tells(Head(q))
BY Rest DEF AllTold

LEMMA LessAsked == ASSUME NEW q, AllAsked(q), q # <<>> PROVE AllAsked(Tail(q)) /\ Asked(Head(q))
BY Rest DEF AllAsked

LEMMA OneAsked == ASSUME NEW msg, Asked(msg) PROVE AllAsked(<<msg>>)
<1> DEFINE q == <<msg>>
<1>1. q \in Seq({msg}) /\ Len(q) = 1 /\ q[1] = msg
  OBVIOUS
<1> HIDE DEF q
<1>2. Sequence(q)
  BY <1>1, SequenceOf
<1>3. AllAsked(q)
  BY <1>1, <1>2 DEF AllAsked
<1> QED
  BY <1>3 DEF q

LEMMA MoreAsked == ASSUME NEW q, AllAsked(q), NEW r, AllAsked(r) PROVE AllAsked(q \o r)
<1> DEFINE All == ItemsOf(q) \cup ItemsOf(r)
<1>1. Len(q) \in Nat /\ Len(r) \in Nat /\ q \in [1..Len(q) -> All] /\ r \in [1..Len(r) -> All]
  BY LenProperties DEF AllAsked, Sequence
<1>2. q \in Seq(All) /\ r \in Seq(All)
  BY <1>1, SeqDef
<1> HIDE DEF All
<1>3. /\ q \o r \in Seq(All) /\ Len(q \o r) = Len(q) + Len(r)
      /\ \A i \in 1..(Len(q) + Len(r)) : (q \o r)[i] = IF i \leq Len(q) THEN q[i] ELSE r[i - Len(q)]
  BY <1>2, ConcatProperties
<1>4. ASSUME NEW i \in 1..Len(q \o r) PROVE Asked((q \o r)[i])
  <2>1. i \in 1..Len(q) \/ i - Len(q) \in 1..Len(r)
    BY <1>1, <1>3
  <2>2. CASE i \in 1..Len(q)
    BY <1>1, <1>3, <2>2 DEF AllAsked
  <2>3. CASE ~(i \in 1..Len(q))
    <3>1. (q \o r)[i] = r[i - Len(q)] /\ i - Len(q) \in 1..Len(r)
      BY <1>1, <1>3, <2>1, <2>3
    <3> QED
      BY <3>1 DEF AllAsked
  <2> QED
    BY <2>2, <2>3
<1> QED
  BY <1>3, <1>4, SequenceOf DEF AllAsked

(* A set of heights has a least one *)
LEMMA LeastHeight == MachinesAssumption => Scroll!Least(Heights) \in Heights
<1> SUFFICES ASSUME MachinesAssumption PROVE Scroll!Least(Heights) \in Heights
  OBVIOUS
<1>1. Heights \subseteq Nat /\ Heights # {}
  BY DEF MachinesAssumption
<1>2. PICK x \in Heights : \A y \in Heights : ~(<<y, x>> \in OpToRel(<, Nat))
  BY <1>1, WFMin, NatLessThanWellFounded
<1>3. ASSUME NEW y \in Heights PROVE x \leq y
  <2>1. x \in Nat /\ y \in Nat
    BY <1>1
  <2>2. ~(<<y, x>> \in {ss \in Nat \X Nat : ss[1] < ss[2]})
    BY <1>2, Zenon DEF OpToRel
  <2>3. ~(y < x)
    BY <2>1, <2>2
  <2> QED
    BY <2>1, <2>3
<1> QED
  BY <1>3 DEF Scroll!Least

LEMMA ScrollStarts == MachinesAssumption /\ Scroll!Init => ScrollInv
<1> SUFFICES ASSUME MachinesAssumption, Scroll!Init PROVE ScrollInv
  OBVIOUS
<1> DEFINE least == Scroll!Least(Heights)
<1>1. least \in Nat \ {0} /\ least \in Heights
  BY LeastHeight DEF MachinesAssumption
<1> HIDE DEF least
<1>2. Sequence(<<>>) /\ Len(<<>>) = 0
  BY EmptySeq, SequenceOf
<1>3. Sequence(Scroll!Blanks(least)) /\ Len(Scroll!Blanks(least)) = least
  BY <1>1, BlanksMade
<1>4. Engine(vt)
  <2>1. vt = [base |-> 0, lines |-> Scroll!Blanks(least), rows |-> least, len |-> 0,
              alt |-> FALSE, page |-> <<>>]
    BY Zenon DEF Scroll!Init, least
  <2> QED
    BY <1>1, <1>2, <1>3, <2>1 DEF Engine, Grid
<1>5. Owing(owed)
  BY DEF Scroll!Init, Scroll!NotOwed, Owing
<1>6. AllTold(built) /\ AllTold(down)
  BY NoneTold DEF Scroll!Init
<1>7. AllAsked(up)
  <2>1. Asked([kind |-> "attach"])
    BY DEF Asked
  <2> QED
    BY <2>1, OneAsked DEF Scroll!Init
<1>8. Replica(mirror) /\ OneRunOf(mirror)
  <2>1. mirror = [rows |-> 0, visible |-> <<>>, base |-> 0, len |-> 0, from |-> 0, cache |-> <<>>]
    BY Zenon DEF Scroll!Init
  <2> QED
    BY <1>2, <2>1 DEF Replica, OneRunOf, End
<1>9. Element(grid)
  <2>1. grid = Scroll!Fresh(least)
    BY Zenon DEF Scroll!Init, least
  <2> QED
    BY <1>1, <2>1 DEF Scroll!Fresh, Element
<1> QED
  BY <1>4, <1>5, <1>6, <1>7, <1>8, <1>9 DEF ScrollInv
(* What a change of the engine owes is a Delta or a Snapshot as before *)
LEMMA OwesMore ==
  ASSUME NEW o, Owing(o), NEW v, NEW w
  PROVE Owing(Scroll!Owes(o, v, w)) /\ Owing(Scroll!Scrolls(o, v, w))
<1> DEFINE dirty == o.dirty \cup {r \in 1..w.rows : Scroll!Screen(w)[r] # Scroll!Screen(v)[r]}
           meta == o.meta \/ Scroll!HistoryBase(v) # Scroll!HistoryBase(w)
                          \/ Scroll!HistoryLen(v) # Scroll!HistoryLen(w)
           p == [o EXCEPT !.dirty = dirty, !.meta = meta]
           s == [p EXCEPT !.dirty = 1..w.rows]
<1>1. Scroll!Owes(o, v, w) = p /\ Scroll!Scrolls(o, v, w) = s
  BY Zenon DEF Scroll!Owes, Scroll!Scrolls, p, s, dirty, meta
<1> HIDE DEF dirty, meta
<1>2. p \in [on : BOOLEAN, dirty : {dirty}, size : Nat, meta : {meta}, snapshot : BOOLEAN]
  BY DEF Owing
<1> HIDE DEF p
<1>3. s \in [on : BOOLEAN, dirty : {1..w.rows}, size : Nat, meta : {meta}, snapshot : BOOLEAN]
  BY <1>2
<1> HIDE DEF s
<1>4. Owing(p)
  BY <1>2 DEF Owing
<1>5. Owing(s)
  BY <1>3 DEF Owing
<1> QED
  BY <1>1, <1>4, <1>5

(* A page is asked for by line numbers *)
LEMMA PageAsked ==
  ASSUME MachinesAssumption, NEW top \in Int, NEW from \in Int, NEW base \in Int,
         NEW page, page = Scroll!MissingPage(top, from, base), page # <<>>
  PROVE page[1] \in Int /\ page[2] \in Int
<1> DEFINE half == Page \div 2
           wanted == Scroll!AtLeast(Scroll!AtLeast(top - half, 0), base)
           count == Scroll!AtMost(from - wanted, Page)
<1>1. Page \in Int /\ half \in Int
  BY DEF MachinesAssumption
<1> HIDE DEF half
<1>2. wanted \in Int
  BY <1>1 DEF Scroll!AtLeast
<1> HIDE DEF wanted
<1>3. count \in Int
  BY <1>1, <1>2 DEF Scroll!AtMost
<1> HIDE DEF count
<1>4. page = <<from - count, count>>
  BY Zenon DEF Scroll!MissingPage, half, wanted, count
<1> QED
  BY <1>3, <1>4

LEMMA ScrollKeeps == MachinesAssumption /\ ScrollInv /\ [Scroll!Next]_scrollVars => ScrollInv'
<1> SUFFICES ASSUME MachinesAssumption, ScrollInv, [Scroll!Next]_scrollVars PROVE ScrollInv'
  OBVIOUS
<1> USE DEF ScrollInv
<1> DEFINE Wire == AllTold(built') /\ AllTold(down') /\ AllAsked(up')
           Shown == Replica(mirror') /\ OneRunOf(mirror') /\ Element(grid')
<1>0. ASSUME Engine(vt'), Owing(owed'), Wire, Shown PROVE ScrollInv'
  BY <1>0
<1>1. ASSUME Scroll!Output, NEW w, Grid(w), vt' = Scroll!Trimmed(w),
             \/ owed' = Scroll!Owes(owed, vt, vt')
             \/ owed' = Scroll!Scrolls(owed, vt, vt')
      PROVE ScrollInv'
  <2>1. Engine(vt')
    BY <1>1, TrimmedIsEngine
  <2>2. Owing(owed')
    BY <1>1, OwesMore
  <2>3. UNCHANGED <<built, down, up, mirror, grid>>
    BY <1>1, Zenon DEF Scroll!Output
  <2>4. Wire /\ Shown
    BY <2>3
  <2> QED
    BY <1>0, <2>1, <2>2, <2>4
<1>2. CASE Scroll!Write
  <2>1. PICK r \in 1..vt.rows :
          /\ vt' = Scroll!Trimmed(Scroll!Written(vt, r, spent.outputs + 1))
          /\ owed' = Scroll!Owes(owed, vt, vt') /\ Scroll!Output
    BY <1>2, Zenon DEF Scroll!Write
  <2>2. Grid(Scroll!Written(vt, r, spent.outputs + 1))
    BY WrittenGrid
  <2> QED
    BY <1>1, <2>1, <2>2
<1>3. CASE Scroll!LineFeed
  <2>1. Grid(Scroll!LineFed(vt))
    BY LineFedGrid
  <2> QED
    BY <1>1, <1>3, <2>1 DEF Scroll!LineFeed
<1>4. CASE Scroll!Swap
  <2>1. Grid(Scroll!Swapped(vt))
    BY SwappedGrid
  <2> QED
    BY <1>1, <1>4, <2>1 DEF Scroll!Swap
<1>5. CASE Scroll!Flush
  <2> DEFINE frame == IF owed.snapshot THEN Scroll!Snapshot(vt) ELSE Scroll!Delta(vt, owed)
  <2>1. Tells(frame)
    BY SnapshotTold, DeltaTold DEF Owing
  <2> HIDE DEF frame
  <2>2. built' = <<frame>> /\ owed' = Scroll!NotOwed /\ UNCHANGED <<vt, down, up, mirror, grid, spent>>
    BY <1>5, Zenon DEF Scroll!Flush, frame
  <2>3. AllTold(built')
    BY <2>1, <2>2, OneTold
  <2>4. Owing(owed')
    BY <2>2 DEF Scroll!NotOwed, Owing
  <2>5. Engine(vt') /\ Wire /\ Shown
    BY <2>2, <2>3
  <2> QED
    BY <1>0, <2>4, <2>5
<1>6. CASE Scroll!Send
  <2>1. down' = down \o built /\ built' = <<>> /\ UNCHANGED <<vt, owed, up, mirror, grid, spent>>
    BY <1>6, Zenon DEF Scroll!Send
  <2>2. AllTold(down') /\ AllTold(built')
    BY <2>1, MoreTold, NoneTold
  <2> QED
    BY <1>0, <2>1, <2>2
<1>7. CASE Scroll!Answer
  <2> DEFINE msg == Head(up)
  <2>1. up # <<>> /\ up' = Tail(up) /\ UNCHANGED <<built, mirror, grid, spent>>
    BY <1>7, Zenon DEF Scroll!Answer
  <2>2. AllAsked(up') /\ Asked(msg)
    BY <2>1, LessAsked
  <2> HIDE DEF msg
  <2>3. \/ msg.kind = "resize" /\ UNCHANGED <<vt, owed, down>>
        \/ /\ msg.kind = "resize" /\ UNCHANGED down
           /\ \E kept \in 0..Scroll!AtLeast(vt.rows - msg.rows, 0) : vt' = Scroll!Resized(vt, msg.rows, kept)
           /\ owed' = [owed EXCEPT !.dirty = 1..msg.rows, !.size = msg.rows]
        \/ /\ msg.kind = "fetch" /\ down' = Append(down, Scroll!History(vt, msg.from, msg.count))
           /\ UNCHANGED <<vt, owed>>
        \/ msg.kind = "attach" /\ owed' = [Scroll!NotOwed EXCEPT !.snapshot = TRUE] /\ UNCHANGED <<vt, down>>
    BY <1>7, Zenon DEF Scroll!Answer, msg
  <2>4. CASE msg.kind = "resize" /\ UNCHANGED <<vt, owed, down>>
    BY <1>0, <2>1, <2>2, <2>4
  <2>5. ASSUME msg.kind = "resize", UNCHANGED down,
               NEW kept \in 0..Scroll!AtLeast(vt.rows - msg.rows, 0), vt' = Scroll!Resized(vt, msg.rows, kept),
               owed' = [owed EXCEPT !.dirty = 1..msg.rows, !.size = msg.rows]
        PROVE ScrollInv'
    <3>1. msg.rows \in Nat \ {0}
      BY <2>2, <2>5 DEF Asked, MachinesAssumption
    <3>2. Engine(vt')
      BY <2>5, <3>1, ResizedEngine
    <3>3. owed' \in [on : BOOLEAN, dirty : {1..msg.rows}, size : {msg.rows}, meta : {owed.meta},
                     snapshot : BOOLEAN]
      BY <2>5 DEF Owing
    <3>4. Owing(owed')
      BY <3>1, <3>3 DEF Owing
    <3> QED
      BY <1>0, <2>1, <2>2, <2>5, <3>2, <3>4
  <2>6. CASE /\ msg.kind = "fetch" /\ down' = Append(down, Scroll!History(vt, msg.from, msg.count))
             /\ UNCHANGED <<vt, owed>>
    <3> DEFINE page == Scroll!History(vt, msg.from, msg.count)
    <3>1. msg.from \in Int /\ msg.count \in Int
      BY <2>2, <2>6 DEF Asked
    <3>2. Tells(page)
      BY <3>1, HistoryTold
    <3> HIDE DEF page
    <3>3. AllTold(<<page>>) /\ down' = Append(down, page)
      BY <2>6, <3>2, OneTold DEF page
    <3>4. Append(down, page) = down \o <<page>>
      BY AppendIsConcat DEF AllTold
    <3> QED
      BY <1>0, <2>1, <2>2, <2>6, <3>3, <3>4, MoreTold
  <2>7. CASE msg.kind = "attach" /\ owed' = [Scroll!NotOwed EXCEPT !.snapshot = TRUE] /\ UNCHANGED <<vt, down>>
    <3>1. Owing(owed')
      BY <2>7 DEF Scroll!NotOwed, Owing
    <3> QED
      BY <1>0, <2>1, <2>2, <2>7, <3>1
  <2> QED
    BY <2>3, <2>4, <2>5, <2>6, <2>7
<1>8. CASE Scroll!Receive
  <2>1. /\ down # <<>> /\ mirror' = Scroll!Apply(mirror, Head(down)) /\ down' = Tail(down)
        /\ UNCHANGED <<vt, owed, built, up, grid, spent>>
    BY <1>8, Zenon DEF Scroll!Receive
  <2>2. AllTold(down') /\ Tells(Head(down))
    BY <2>1, LessTold
  <2>3. Replica(mirror') /\ OneRunOf(mirror')
    BY <2>1, <2>2, AppliedIsOneRun
  <2> QED
    BY <1>0, <2>1, <2>2, <2>3
<1>9. CASE Scroll!Paint
  <2> DEFINE top == Scroll!ViewportTop(mirror, grid)
             page == Scroll!MissingPage(top, mirror.from, mirror.base)
             asks == page # <<>> /\ grid.asked # page[1]
             size == IF Scroll!WantsSize(grid) THEN <<[kind |-> "resize", rows |-> grid.fit]>> ELSE <<>>
             fetch == IF asks THEN <<[kind |-> "fetch", from |-> page[1], count |-> page[2]]>> ELSE <<>>
             offset == Scroll!Offset(mirror, grid)
             sent1 == IF Scroll!WantsSize(grid) THEN grid.fit ELSE grid.sent
             asked == IF asks THEN page[1] ELSE grid.asked
  <2>1. UNCHANGED <<vt, owed, built, down, mirror, spent>>
    BY <1>9, Zenon DEF Scroll!Paint
  <2>2. up' = up \o size \o fetch
    BY <1>9, Zenon DEF Scroll!Paint
  <2>3. grid' = [grid EXCEPT !.sent = sent1, !.asked = asked, !.seen = mirror.rows, !.top = top,
                             !.offset = offset]
    BY <1>9, Zenon DEF Scroll!Paint
  <2>4. offset \in Int
    BY DEF Scroll!Offset, Scroll!AtMost, Replica, Element
  <2>5. top \in Int
    BY <2>4 DEF Scroll!ViewportTop, Scroll!MirrorFirst, Replica
  <2> HIDE DEF top, offset
  <2>6. asks => page[1] \in Int /\ page[2] \in Int
    BY <2>5, PageAsked DEF Replica
  <2>7. AllAsked(<<>>)
    BY NoneTold DEF AllTold, AllAsked
  <2>8. AllAsked(size)
    <3>1. Asked([kind |-> "resize", rows |-> grid.fit])
      BY DEF Asked, Element
    <3> QED
      BY <2>7, <3>1, OneAsked
  <2> HIDE DEF page
  <2>9. AllAsked(fetch)
    <3>1. asks => Asked([kind |-> "fetch", from |-> page[1], count |-> page[2]])
      BY <2>6 DEF Asked
    <3> QED
      BY <2>7, <3>1, OneAsked
  <2> HIDE DEF asks, size, fetch, sent1, asked
  <2>10. AllAsked(up')
    BY <2>2, <2>8, <2>9, MoreAsked
  <2>11. grid' \in [offset : {offset}, top : {top}, asked : {asked}, sent : {sent1}, seen : {mirror.rows},
                    fit : {grid.fit}]
    BY <2>3 DEF Element
  <2>12. Element(grid')
    BY <2>4, <2>11 DEF Element
  <2> QED
    BY <1>0, <2>1, <2>10, <2>12
<1>10. CASE Scroll!ScrollTo
  <2>1. UNCHANGED <<vt, owed, built, down, up, mirror>>
    BY <1>10, Zenon DEF Scroll!ScrollTo, Scroll!Move
  <2>2. PICK offset \in 0..mirror.len : grid' = [grid EXCEPT !.offset = offset]
    BY <1>10 DEF Scroll!ScrollTo
  <2>3. grid' \in [offset : {offset}, top : {grid.top}, asked : {grid.asked}, sent : {grid.sent},
                   seen : {grid.seen}, fit : {grid.fit}]
    BY <2>2 DEF Element
  <2>4. Element(grid')
    BY <2>2, <2>3 DEF Element
  <2> QED
    BY <1>0, <2>1, <2>4
<1>11. CASE Scroll!ClearScrollback
  <2>1. /\ UNCHANGED <<vt, owed, built, down, up>>
        /\ mirror' = [mirror EXCEPT !.cache = <<>>, !.from = Scroll!CacheEnd(mirror)]
        /\ grid' = [grid EXCEPT !.offset = 0]
    BY <1>11, Zenon DEF Scroll!ClearScrollback, Scroll!Move
  <2>2. Scroll!CacheEnd(mirror) = End(mirror) /\ End(mirror) \in Int /\ End(mirror) \geq mirror.from
    <3>1. Len(mirror.cache) \in Nat
      BY LengthIsNat DEF Replica
    <3> QED
      BY <3>1 DEF Scroll!CacheEnd, End, Replica
  <2>3. mirror' \in [rows : {mirror.rows}, visible : {mirror.visible}, base : {mirror.base}, len : {mirror.len},
                     from : {End(mirror)}, cache : {<<>>}]
    BY <2>1, <2>2 DEF Replica
  <2>4. Sequence(<<>>) /\ Len(<<>>) = 0
    BY EmptySeq, SequenceOf
  <2>5. Replica(mirror') /\ OneRunOf(mirror')
    <3> DEFINE e == End(mirror)
    <3>1. e \in Int /\ mirror.base \leq e /\ e \leq mirror.base + mirror.len
      BY <2>2 DEF OneRunOf, Replica
    <3> HIDE DEF e
    <3>2. mirror' \in [rows : {mirror.rows}, visible : {mirror.visible}, base : {mirror.base},
                       len : {mirror.len}, from : {e}, cache : {<<>>}]
      BY <2>3 DEF e
    <3>3. Replica(mirror')
      BY <2>4, <3>1, <3>2 DEF Replica
    <3>4. mirror'.base = mirror.base /\ mirror'.len = mirror.len /\ mirror'.from = e /\ mirror'.cache = <<>>
      BY <3>2
    <3> QED
      BY <2>4, <3>1, <3>3, <3>4 DEF OneRunOf, End
  <2>6. grid' \in [offset : {0}, top : {grid.top}, asked : {grid.asked}, sent : {grid.sent},
                   seen : {grid.seen}, fit : {grid.fit}]
    BY <2>1 DEF Element
  <2>7. Element(grid')
    BY <2>6 DEF Element
  <2> QED
    BY <1>0, <2>1, <2>5, <2>7
<1>12. CASE Scroll!WindowResized
  <2>1. UNCHANGED <<vt, owed, built, down, up, mirror>>
    BY <1>12, Zenon DEF Scroll!WindowResized, Scroll!Move
  <2>2. PICK fit \in Heights : grid' = [grid EXCEPT !.fit = fit]
    BY <1>12 DEF Scroll!WindowResized
  <2>3. grid' \in [offset : {grid.offset}, top : {grid.top}, asked : {grid.asked}, sent : {grid.sent},
                   seen : {grid.seen}, fit : {fit}]
    BY <2>2 DEF Element
  <2>4. Element(grid')
    BY <2>2, <2>3 DEF Element
  <2> QED
    BY <1>0, <2>1, <2>4
<1>13. CASE Scroll!Reconnect
  <2>1. /\ up' = <<[kind |-> "attach"]>> /\ down' = <<>> /\ built' = <<>>
        /\ owed' = [Scroll!NotOwed EXCEPT !.on = FALSE] /\ UNCHANGED <<vt, mirror, grid>>
    BY <1>13, Zenon DEF Scroll!Reconnect
  <2>2. AllAsked(up')
    <3>1. Asked([kind |-> "attach"])
      BY DEF Asked
    <3> QED
      BY <2>1, <3>1, OneAsked
  <2>3. AllTold(down') /\ AllTold(built')
    BY <2>1, NoneTold
  <2>4. Owing(owed')
    BY <2>1 DEF Scroll!NotOwed, Owing
  <2> QED
    BY <1>0, <2>1, <2>2, <2>3, <2>4
<1>14. CASE UNCHANGED scrollVars
  BY <1>0, <1>14 DEF scrollVars
<1> QED
  BY <1>2, <1>3, <1>4, <1>5, <1>6, <1>7, <1>8, <1>9, <1>10, <1>11, <1>12, <1>13, <1>14
     DEF Scroll!Next, Scroll!Server

(* Whatever order Deltas, pages asked for before them, resizes, swaps of   *)
(* the screens, Clear Scrollback and lost connections come in, and however *)
(* many lines a history or a cache may hold, a Replica caches one run of   *)
(* lines between the trim point and the screen                             *)
THEOREM CacheIsOneRun == MachinesSpec => []OneRun
<1>1. MachinesInit => ScrollInv
  BY MachinesAssumption, ScrollStarts DEF MachinesInit
<1>2. ScrollInv /\ [MachinesNext]_machinesVars => ScrollInv'
  <2>1. [MachinesNext]_machinesVars => [Scroll!Next]_scrollVars
    BY DEF MachinesNext, machinesVars, scrollVars, ControlStep, ScrollStep, PipeStep, HostStep, ConnStep, PointerStep, MemoryStep
  <2> QED
    BY <2>1, MachinesAssumption, ScrollKeeps
<1>3. ScrollInv => OneRun
  BY DEF ScrollInv, OneRunOf, End, OneRun, Scroll!OneRun, Scroll!CacheEnd, Scroll!MirrorFirst
<1> QED
  BY <1>1, <1>2, <1>3, PTL DEF MachinesSpec
-----------------------------------------------------------------------------
(* The rows and the line numbers of a Replica against those of the engine: *)
(* frames and pages change the one, and what is owed is what is between    *)
(* the last of them and the other                                          *)
(* What of a Replica the server decides: its rows and its line numbers     *)
Picture(m) == [rows |-> m.rows, visible |-> m.visible, base |-> m.base, len |-> m.len]

(* The picture a frame or a page makes of another                          *)
After(a, msg) ==
  IF msg.kind = "snapshot"
  THEN [rows |-> Len(msg.rows), visible |-> msg.rows, base |-> msg.base, len |-> msg.len]
  ELSE IF msg.kind = "delta"
  THEN LET rows == IF msg.size = 0 THEN a.rows ELSE msg.size
       IN [rows |-> rows,
           visible |-> [r \in 1..rows |-> IF r \in DOMAIN msg.rows THEN msg.rows[r] ELSE a.visible[r]],
           base |-> msg.base, len |-> msg.len]
  ELSE [a EXCEPT !.base = Scroll!AtLeast(@, msg.base)]

(* A Delta that resizes has every row, and so has one after lines scrolled  *)
(* off: what apply_delta makes of the rows it keeps is then overwritten    *)
Fits(a, msg) ==
  msg.kind = "delta" =>
    LET rows == IF msg.size = 0 THEN a.rows ELSE msg.size
    IN /\ msg.size # 0 => DOMAIN msg.rows = 1..rows
       /\ DOMAIN msg.rows = 1..rows \/ msg.base + msg.len \leq a.base + a.len

(* What is owed makes the picture b the one of the engine                  *)
Standing(b, v, o) ==
  o.on /\ ~o.snapshot =>
    /\ IF o.size = 0 THEN b.rows = v.rows ELSE o.size = v.rows /\ o.dirty = 1..v.rows
    /\ \A r \in (1..v.rows) \ o.dirty : b.visible[r] = Scroll!Screen(v)[r]
    /\ o.dirty = 1..v.rows \/ Scroll!First(v) \leq b.base + b.len
    /\ o # Scroll!NotOwed \/ (b.base = Scroll!HistoryBase(v) /\ b.len = Scroll!HistoryLen(v))

Pictured(a) ==
  /\ a \in [rows : Nat, visible : {a.visible}, base : Int, len : Nat]
  /\ Sequence(a.visible) /\ Len(a.visible) = a.rows

LEMMA AfterPictured ==
  ASSUME NEW a, Pictured(a), NEW msg, Tells(msg)
  PROVE  Pictured(After(a, msg))
<1>1. CASE msg.kind = "snapshot"
  <2> DEFINE b == [rows |-> Len(msg.rows), visible |-> msg.rows, base |-> msg.base, len |-> msg.len]
  <2>1. Sequence(msg.rows) /\ Len(msg.rows) \in Nat /\ msg.base \in Int /\ msg.len \in Nat
    BY <1>1, LengthIsNat DEF Tells
  <2>2. Pictured(b)
    BY <2>1 DEF Pictured
  <2>3. After(a, msg) = b
    BY <1>1, Zenon DEF After
  <2> QED
    BY <2>2, <2>3
<1>2. CASE msg.kind = "delta"
  <2> DEFINE rows == IF msg.size = 0 THEN a.rows ELSE msg.size
             visible == [r \in 1..rows |-> IF r \in DOMAIN msg.rows THEN msg.rows[r] ELSE a.visible[r]]
             b == [rows |-> rows, visible |-> visible, base |-> msg.base, len |-> msg.len]
  <2>1. rows \in Nat /\ msg.base \in Int /\ msg.len \in Nat
    BY <1>2 DEF Tells, Pictured
  <2> HIDE DEF rows
  <2>2. visible = [r \in 1..rows |-> visible[r]]
    OBVIOUS
  <2> HIDE DEF visible
  <2>3. Sequence(visible) /\ Len(visible) = rows
    BY <2>1, <2>2, Made
  <2>4. Pictured(b)
    BY <2>1, <2>3 DEF Pictured
  <2>5. After(a, msg) = b
    BY <1>2, Zenon DEF After, b, visible, rows
  <2> QED
    BY <2>4, <2>5
<1>3. CASE msg.kind = "history"
  <2> DEFINE base == Scroll!AtLeast(a.base, msg.base)
             b == [a EXCEPT !.base = base]
  <2>1. base \in Int
    BY <1>3 DEF Scroll!AtLeast, Tells, Pictured
  <2> HIDE DEF base
  <2>2. b \in [rows : {a.rows}, visible : {a.visible}, base : {base}, len : {a.len}]
    BY DEF Pictured
  <2> HIDE DEF b
  <2>3. Pictured(b)
    BY <2>1, <2>2 DEF Pictured
  <2>4. After(a, msg) = b
    BY <1>3, Zenon DEF After, b, base
  <2> QED
    BY <2>3, <2>4
<1> QED
  BY <1>1, <1>2, <1>3 DEF Tells

(* What a Replica caches has no part in its picture *)
LEMMA CachePlaysNoPart ==
  ASSUME MachinesAssumption, NEW m, Replica(m)
  PROVE  /\ Picture(Scroll!TrimToCap(m)) = Picture(m)
         /\ Picture(Scroll!EvictBelowTrimPoint(m)) = Picture(m)
BY DEF Scroll!TrimToCap, Scroll!EvictBelowTrimPoint, Picture, Replica

LEMMA MergedPicture ==
  ASSUME NEW m, Replica(m), NEW start, NEW rows
  PROVE  Picture(Scroll!Merged(m, start, rows)) = Picture(m)
BY DEF Scroll!Merged, Picture, Replica

LEMMA ScrolledPicture ==
  ASSUME MachinesAssumption, NEW m, Replica(m), Len(m.visible) = m.rows, NEW old \in Int, NEW new \in Int, End(m) \leq old
  PROVE  LET s == Scroll!ScrollOff(m, old, new)
         IN /\ s.rows = m.rows /\ Sequence(s.visible) /\ Len(s.visible) = m.rows
            /\ new \leq old => s.visible = m.visible
<1> DEFINE cleared == [m EXCEPT !.cache = <<>>, !.from = new]
           cache == m.cache \o Scroll!Keep(m.visible, new - old)
           visible == Scroll!Fitted(Scroll!Drop(m.visible, new - old), m.rows)
           moved == [m EXCEPT !.cache = cache, !.visible = visible]
<1>1. Len(m.visible) \in Nat /\ Sequence(m.visible) /\ m.rows \in Nat
  BY LengthIsNat DEF Replica
<1>2. cleared.rows = m.rows /\ cleared.visible = m.visible
  BY DEF Replica
<1>3. ASSUME ~(new < old), ~(new - old > Len(m.visible))
      PROVE  Sequence(visible) /\ Len(visible) = m.rows
  <2>1. new - old \in Nat /\ new - old \leq Len(m.visible)
    BY <1>1, <1>3
  <2>2. Sequence(Scroll!Drop(m.visible, new - old))
    BY <1>1, <2>1, Dropped
  <2> QED
    BY <1>1, <2>2, FittedFits
<1> HIDE DEF cache, visible
<1>4. moved.rows = m.rows /\ moved.visible = visible
  BY DEF Replica
<1>5. Scroll!TrimToCap(moved).rows = moved.rows /\ Scroll!TrimToCap(moved).visible = moved.visible
  BY DEF Scroll!TrimToCap, Replica
<1>6. Scroll!ScrollOff(m, old, new) =
        IF new = old THEN m
        ELSE IF new < old \/ new - old > Len(m.visible) \/ Scroll!CacheBaseIsStale(m, old) THEN cleared
        ELSE Scroll!TrimToCap(moved)
  BY Zenon DEF Scroll!ScrollOff, cleared, moved, cache, visible
<1> HIDE DEF cleared, moved
<1>7. CASE new = old
  BY <1>1, <1>6, <1>7
<1>8. CASE new # old /\ (new < old \/ new - old > Len(m.visible) \/ Scroll!CacheBaseIsStale(m, old))
  BY <1>1, <1>2, <1>6, <1>8
<1>9. CASE new # old /\ ~(new < old \/ new - old > Len(m.visible) \/ Scroll!CacheBaseIsStale(m, old))
  <2>1. Scroll!ScrollOff(m, old, new) = Scroll!TrimToCap(moved)
    BY <1>6, <1>9
  <2>2. ~(new \leq old)
    BY <1>9
  <2> QED
    BY <1>3, <1>4, <1>5, <1>9, <2>1, <2>2
<1> QED
  BY <1>7, <1>8, <1>9

(* A Delta that fits gives the Replica the picture it means *)
LEMMA DeltaPicture ==
  ASSUME MachinesAssumption, NEW m, Replica(m), OneRunOf(m), Pictured(Picture(m)),
         NEW msg, Tells(msg), msg.kind = "delta", Fits(Picture(m), msg)
  PROVE  Picture(Scroll!ApplyDelta(m, msg)) = After(Picture(m), msg)
<1> DEFINE sized == IF msg.size = 0 THEN m ELSE Scroll!MirrorResized(m, msg.size)
           old == m.base + m.len
           new == msg.base + msg.len
           moved == Scroll!ScrollOff(sized, old, new)
           told == [moved EXCEPT !.base = msg.base, !.len = msg.len]
           kept == Scroll!EvictBelowTrimPoint(told)
           visible == [r \in DOMAIN kept.visible |->
                         IF r \in DOMAIN msg.rows THEN msg.rows[r] ELSE kept.visible[r]]
           s == [kept EXCEPT !.visible = visible]
           rows == IF msg.size = 0 THEN m.rows ELSE msg.size
           meant == [r \in 1..rows |-> IF r \in DOMAIN msg.rows THEN msg.rows[r] ELSE m.visible[r]]
<1>1. msg.base \in Int /\ msg.len \in Nat /\ msg.size \in Nat /\ old \in Int /\ new \in Int /\ rows \in Nat
  BY DEF Tells, Replica
<1>2. Len(m.visible) = m.rows /\ Sequence(m.visible)
  BY DEF Pictured, Picture
<1>3. /\ msg.size # 0 => DOMAIN msg.rows = 1..rows
      /\ DOMAIN msg.rows = 1..rows \/ new \leq old
  <2>1. Picture(m).rows = m.rows /\ Picture(m).base = m.base /\ Picture(m).len = m.len
    BY DEF Picture
  <2> QED
    BY <2>1 DEF Fits
<1>4. /\ Replica(sized) /\ End(sized) \leq old
      /\ sized.rows = rows /\ Len(sized.visible) = rows
      /\ msg.size = 0 => sized.visible = m.visible
  <2>1. CASE msg.size = 0
    BY <1>2, <2>1 DEF OneRunOf
  <2>2. CASE msg.size # 0
    <3> DEFINE fitted == Scroll!Fitted(m.visible, msg.size)
               r == [m EXCEPT !.rows = msg.size, !.visible = fitted]
    <3>1. Len(fitted) = msg.size
      BY <1>1, <1>2, FittedFits
    <3> HIDE DEF fitted
    <3>2. r.rows = msg.size /\ r.visible = fitted
      BY DEF Replica
    <3>3. sized = r
      BY <2>2 DEF Scroll!MirrorResized, fitted
    <3>4. Replica(sized) /\ End(sized) = End(m)
      BY <1>1, <2>2, ResizedReplica
    <3> QED
      BY <2>2, <3>1, <3>2, <3>3, <3>4 DEF OneRunOf
  <2> QED
    BY <2>1, <2>2
<1> HIDE DEF sized, rows, old, new
<1>5. /\ moved.rows = rows /\ Sequence(moved.visible) /\ Len(moved.visible) = rows
      /\ new \leq old => moved.visible = sized.visible
  BY <1>1, <1>4, ScrolledPicture
<1>6. Replica(moved)
  BY <1>1, <1>4, ScrollingKeepsTheRun
<1> HIDE DEF moved
<1>7. /\ Replica(told)
      /\ Picture(told) = [rows |-> rows, visible |-> moved.visible, base |-> msg.base, len |-> msg.len]
  <2>1. told \in [rows : {moved.rows}, visible : {moved.visible}, base : {msg.base}, len : {msg.len},
                  from : {moved.from}, cache : {moved.cache}]
    BY <1>6 DEF Replica
  <2> HIDE DEF told
  <2>2. Replica(told)
    BY <1>1, <1>6, <2>1 DEF Replica
  <2>3. told.rows = rows /\ told.visible = moved.visible /\ told.base = msg.base /\ told.len = msg.len
    BY <1>5, <2>1
  <2> QED
    BY <2>2, <2>3 DEF Picture
<1> HIDE DEF told
<1>8. Picture(kept) = Picture(told)
  BY <1>7, CachePlaysNoPart
<1>9. kept.rows = rows /\ kept.visible = moved.visible /\ kept.base = msg.base /\ kept.len = msg.len
  BY <1>7, <1>8 DEF Picture
<1>10. DOMAIN kept.visible = 1..rows
  <2>1. DOMAIN moved.visible = 1..rows
    BY <1>5, LengthIsNat
  <2> QED
    BY <1>9, <2>1
<1>11. visible = meant
  <2>1. ASSUME NEW r \in 1..rows, r \notin DOMAIN msg.rows PROVE kept.visible[r] = m.visible[r]
    BY <1>3, <1>4, <1>5, <1>9, <2>1
  <2> HIDE DEF kept
  <2> QED
    BY <1>10, <2>1
<1>12. Picture(s) = [rows |-> rows, visible |-> meant, base |-> msg.base, len |-> msg.len]
  <2>1. DOMAIN kept = {"rows", "visible", "base", "len", "from", "cache"}
    BY <1>7 DEF kept, Scroll!EvictBelowTrimPoint, Replica
  <2> HIDE DEF visible, meant, kept
  <2> QED
    BY <1>9, <1>11, <2>1 DEF Picture
<1>13. Scroll!ApplyDelta(m, msg) = s
  BY Zenon DEF Scroll!ApplyDelta, Scroll!MirrorFirst, sized, moved, told, kept, visible, old, new
<1>14. After(Picture(m), msg) = [rows |-> rows, visible |-> meant, base |-> msg.base, len |-> msg.len]
  <2>1. Picture(m).rows = m.rows /\ Picture(m).visible = m.visible
    BY DEF Picture
  <2>2. msg.kind # "snapshot" /\ msg.kind = "delta"
    OBVIOUS
  <2> QED
    BY <2>1, <2>2 DEF After, rows, meant
<1> QED
  BY <1>12, <1>13, <1>14

LEMMA PagePicture ==
  ASSUME MachinesAssumption, NEW m, Replica(m), OneRunOf(m), NEW msg, Tells(msg), msg.kind = "history"
  PROVE  Picture(Scroll!ApplyHistoryPage(m, msg)) = After(Picture(m), msg)
<1> DEFINE base == Scroll!AtLeast(m.base, msg.base)
           based == [m EXCEPT !.base = base]
           start == Scroll!AtLeast(msg.from, based.base)
           before == Scroll!AtMost(start - msg.from, Len(msg.rows))
           room == Scroll!AtLeast(Scroll!MirrorFirst(based) - start, 0)
           rest == Scroll!Drop(msg.rows, before)
           rows == Scroll!Keep(rest, room)
           merged == Scroll!Merged(based, start, rows)
           evicted == Scroll!EvictBelowTrimPoint(merged)
<1>1. msg.base \in Int /\ msg.from \in Int /\ Sequence(msg.rows) /\ Len(msg.rows) \in Nat
  BY LengthIsNat DEF Tells
<1>2. base \in Int /\ base \geq m.base
  BY <1>1 DEF Scroll!AtLeast, Replica
<1> HIDE DEF base
<1>3. /\ Replica(based) /\ End(based) \leq based.base + based.len
      /\ Picture(based) = [rows |-> m.rows, visible |-> m.visible, base |-> base, len |-> m.len]
  <2>1. based \in [rows : {m.rows}, visible : {m.visible}, base : {base}, len : {m.len},
                   from : {m.from}, cache : {m.cache}]
    BY DEF Replica
  <2> HIDE DEF based
  <2>2. Replica(based)
    BY <1>2, <2>1 DEF Replica
  <2>3. /\ based.rows = m.rows /\ based.visible = m.visible /\ based.base = base /\ based.len = m.len
        /\ based.from = m.from /\ based.cache = m.cache
    BY <2>1
  <2>4. m.from + Len(m.cache) \leq m.base + m.len /\ m.from + Len(m.cache) \in Int
    BY LengthIsNat DEF OneRunOf, End, Replica
  <2>5. End(based) \leq based.base + based.len
    BY <1>2, <2>3, <2>4 DEF End, Replica
  <2> QED
    BY <2>2, <2>3, <2>5 DEF Picture
<1> HIDE DEF based
<1>4. start \in Int /\ start \geq msg.from
  <2>1. based.base \in Int
    BY <1>3 DEF Replica
  <2> QED
    BY <1>1, <2>1 DEF Scroll!AtLeast
<1> HIDE DEF start
<1>5. before \in Nat /\ before \leq Len(msg.rows)
  BY <1>1, <1>4 DEF Scroll!AtMost
<1> HIDE DEF before
<1>6. Sequence(rest) /\ Len(rest) \in Nat
  BY <1>1, <1>5, Dropped
<1> HIDE DEF rest
<1>7. room \in Nat /\ (room # 0 => start + room \leq based.base + based.len)
  BY <1>3, <1>4 DEF Scroll!AtLeast, Scroll!MirrorFirst, Replica
<1> HIDE DEF room
<1>8. Sequence(rows) /\ Len(rows) \in Nat /\ Len(rows) \leq room
  BY <1>6, <1>7, Kept
<1> HIDE DEF rows
<1>9. ASSUME rows # <<>> PROVE Picture(Scroll!TrimToCap(evicted)) = Picture(based)
  <2>1. Len(rows) # 0
    BY <1>8, <1>9, EmptySeq DEF Sequence
  <2>2. start + Len(rows) \leq based.base + based.len
    <3>1. room # 0 /\ based.base + based.len \in Int
      BY <1>3, <1>7, <1>8, <2>1 DEF Replica
    <3> QED
      BY <1>4, <1>7, <1>8, <3>1
  <2>3. Replica(merged) /\ End(merged) \leq merged.base + merged.len
    BY <1>3, <1>4, <1>8, <2>2, MergedIsOneRun
  <2>4. Picture(merged) = Picture(based)
    BY <1>3, MergedPicture
  <2> HIDE DEF merged
  <2>5. Picture(evicted) = Picture(merged) /\ Replica(evicted)
    BY <2>3, CachePlaysNoPart, EvictionLeavesOneRun
  <2> HIDE DEF evicted
  <2> QED
    BY <2>4, <2>5, CachePlaysNoPart
<1>10. Picture(Scroll!EvictBelowTrimPoint(based)) = Picture(based)
  BY <1>3, CachePlaysNoPart
<1>11. Scroll!ApplyHistoryPage(m, msg) =
         IF rows = <<>> THEN Scroll!EvictBelowTrimPoint(based) ELSE Scroll!TrimToCap(evicted)
  BY Zenon DEF Scroll!ApplyHistoryPage, base, based, start, before, room, rest, rows, evicted, merged
<1>12. Picture(Scroll!ApplyHistoryPage(m, msg)) = Picture(based)
  <2> HIDE DEF evicted
  <2> QED
    BY <1>9, <1>10, <1>11
<1>13. After(Picture(m), msg) = [rows |-> m.rows, visible |-> m.visible, base |-> base, len |-> m.len]
  <2> DEFINE p == Picture(m)
             a == [p EXCEPT !.base = Scroll!AtLeast(@, msg.base)]
  <2>1. p = [rows |-> m.rows, visible |-> m.visible, base |-> m.base, len |-> m.len]
    BY DEF Picture
  <2>2. p.base = m.base
    BY <2>1
  <2>3. a = [p EXCEPT !.base = base]
    BY <2>2 DEF base
  <2>4. After(p, msg) = a
    BY DEF After
  <2> QED
    BY <2>1, <2>3, <2>4
<1> QED
  BY <1>3, <1>12, <1>13

LEMMA AppliedPicture ==
  ASSUME MachinesAssumption, NEW m, Replica(m), OneRunOf(m), Pictured(Picture(m)),
         NEW msg, Tells(msg), Fits(Picture(m), msg)
  PROVE  Picture(Scroll!Apply(m, msg)) = After(Picture(m), msg)
<1>1. CASE msg.kind = "snapshot"
  BY <1>1 DEF Scroll!Apply, Scroll!ApplySnapshot, After, Picture
<1>2. CASE msg.kind = "delta"
  BY <1>2, DeltaPicture DEF Scroll!Apply
<1>3. CASE msg.kind = "history"
  BY <1>3, PagePicture DEF Scroll!Apply
<1> QED
  BY <1>1, <1>2, <1>3 DEF Tells

(* What is on its way in the queue q turns the picture a into b: s are the  *)
(* pictures in between                                                     *)
Chained(s, a, q, b) ==
  /\ s[1] = a /\ s[Len(q) + 1] = b
  /\ \A i \in 1..Len(q) + 1 : Pictured(s[i])
  /\ \A i \in 1..Len(q) : Fits(s[i], q[i]) /\ s[i + 1] = After(s[i], q[i])

Leads(a, q, b) == \E s : Chained(s, a, q, b)

LEMMA LeadsNowhere == ASSUME NEW a, NEW b
                      PROVE /\ Pictured(a) => Leads(a, <<>>, a)
                            /\ Leads(a, <<>>, b) => a = b
<1>1. Len(<<>>) = 0
  BY EmptySeq
<1>2. ASSUME Pictured(a) PROVE Leads(a, <<>>, a)
  <2> DEFINE s == [i \in 1..1 |-> a]
  <2>1. Chained(s, a, <<>>, a)
    BY <1>1, <1>2 DEF Chained
  <2> QED
    BY <2>1, Zenon DEF Leads
<1>3. ASSUME Leads(a, <<>>, b) PROVE a = b
  BY <1>1, <1>3 DEF Leads, Chained
<1> QED
  BY <1>2, <1>3

LEMMA LeadsPictured == ASSUME NEW a, NEW q, Sequence(q), NEW b, Leads(a, q, b) PROVE Pictured(a) /\ Pictured(b)
<1>1. Len(q) \in Nat
  BY LengthIsNat
<1> QED
  BY <1>1 DEF Leads, Chained

LEMMA LeadsOn ==
  ASSUME NEW a, NEW q, Sequence(q), NEW b, Leads(a, q, b), NEW msg, Tells(msg), Fits(b, msg)
  PROVE  Leads(a, Append(q, msg), After(b, msg))
<1>1. PICK s : Chained(s, a, q, b)
  BY Zenon DEF Leads
<1> DEFINE r == Append(q, msg)
           t == [i \in 1..Len(q) + 2 |-> IF i = Len(q) + 2 THEN After(b, msg) ELSE s[i]]
<1>2. /\ Len(q) \in Nat /\ Len(r) = Len(q) + 1
      /\ r[Len(q) + 1] = msg /\ \A i \in 1..Len(q) : r[i] = q[i]
  <2>1. PICK S : q \in Seq(S)
    BY DEF Sequence
  <2>2. q \in Seq(S \cup {msg})
    <3>1. q \in [1..Len(q) -> S] /\ Len(q) \in Nat
      BY <2>1, LenProperties
    <3> QED
      BY <3>1, SeqDef
  <2>3. Len(q) \in Nat
    BY <2>2, LenProperties
  <2> QED
    BY <2>2, <2>3, AppendProperties
<1>3. Pictured(After(b, msg))
  <2>1. Pictured(b)
    BY <1>1, <1>2 DEF Chained
  <2> QED
    BY <2>1, AfterPictured
<1> HIDE DEF r
<1>4. /\ t[1] = s[1] /\ t[Len(q) + 1] = s[Len(q) + 1] /\ t[Len(q) + 2] = After(b, msg)
      /\ \A i \in 1..Len(q) + 1 : t[i] = s[i]
  BY <1>2
<1> HIDE DEF t
<1>5. \A i \in 1..Len(q) + 2 : Pictured(t[i])
  BY <1>1, <1>2, <1>3, <1>4 DEF Chained
<1>6. ASSUME NEW i \in 1..Len(q) + 1 PROVE Fits(t[i], r[i]) /\ t[i + 1] = After(t[i], r[i])
  <2>1. CASE i = Len(q) + 1
    <3>1. t[i] = b /\ r[i] = msg /\ t[i + 1] = After(b, msg)
      <4>1. i + 1 = Len(q) + 2
        BY <1>2, <2>1
      <4> QED
        BY <1>1, <1>2, <1>4, <2>1, <4>1 DEF Chained
    <3> QED
      BY <3>1
  <2>2. CASE i # Len(q) + 1
    <3>1. i \in 1..Len(q) /\ i + 1 \in 1..Len(q) + 1
      BY <1>2, <2>2
    <3>2. t[i] = s[i] /\ t[i + 1] = s[i + 1] /\ r[i] = q[i]
      BY <1>2, <1>4, <3>1
    <3> QED
      BY <1>1, <3>1, <3>2 DEF Chained
  <2> QED
    BY <2>1, <2>2
<1>7. Chained(t, a, r, After(b, msg))
  <2>1. Len(r) + 1 = Len(q) + 2 /\ Len(r) = Len(q) + 1
    BY <1>2
  <2> QED
    BY <1>1, <1>4, <1>5, <1>6, <2>1 DEF Chained
<1> QED
  BY <1>7, Zenon DEF Leads, r

LEMMA LeadsAfter ==
  ASSUME NEW a, NEW q, Sequence(q), q # <<>>, NEW b, Leads(a, q, b)
  PROVE  Fits(a, Head(q)) /\ Leads(After(a, Head(q)), Tail(q), b)
<1>1. PICK s : Chained(s, a, q, b)
  BY Zenon DEF Leads
<1> DEFINE r == Tail(q)
           t == [i \in 1..Len(q) |-> s[i + 1]]
<1>2. Len(r) = Len(q) - 1 /\ Len(q) \in Nat \ {0} /\ Head(q) = q[1] /\ \A i \in 1..Len(r) : r[i] = q[i + 1]
  BY Rest
<1> HIDE DEF r
<1>3. \A i \in 1..Len(q) : t[i] = s[i + 1]
  OBVIOUS
<1> HIDE DEF t
<1>4. Fits(a, q[1]) /\ t[1] = After(a, q[1])
  BY <1>1, <1>2, <1>3 DEF Chained
<1>5. ASSUME NEW i \in 1..Len(r) PROVE Fits(t[i], r[i]) /\ t[i + 1] = After(t[i], r[i])
  <2>1. i \in 1..Len(q) /\ i + 1 \in 1..Len(q) /\ r[i] = q[i + 1]
    BY <1>2
  <2>2. t[i] = s[i + 1] /\ t[i + 1] = s[(i + 1) + 1]
    BY <1>3, <2>1
  <2>3. Fits(s[i + 1], q[i + 1]) /\ s[(i + 1) + 1] = After(s[i + 1], q[i + 1])
    BY <1>1, <2>1 DEF Chained
  <2> QED
    BY <2>1, <2>2, <2>3
<1>6. ASSUME NEW i \in 1..Len(r) + 1 PROVE Pictured(t[i])
  BY <1>1, <1>2, <1>3 DEF Chained
<1>7. t[Len(r) + 1] = b
  BY <1>1, <1>2, <1>3 DEF Chained
<1>8. Chained(t, After(a, Head(q)), r, b)
  BY <1>2, <1>4, <1>5, <1>6, <1>7 DEF Chained
<1> QED
  BY <1>2, <1>4, <1>8, Zenon DEF Leads, r
-----------------------------------------------------------------------------
LEMMA ScreenHasRows == ASSUME NEW v, Engine(v) PROVE Sequence(Scroll!Screen(v)) /\ Len(Scroll!Screen(v)) = v.rows
<1>1. Len(v.lines) \in Nat
  BY LengthIsNat DEF Engine, Grid
<1>2. /\ Sequence(Scroll!Drop(v.lines, Len(v.lines) - v.rows))
      /\ Len(Scroll!Drop(v.lines, Len(v.lines) - v.rows)) = Len(v.lines) - (Len(v.lines) - v.rows)
  BY <1>1, Dropped DEF Engine, Grid
<1>3. Len(v.lines) - (Len(v.lines) - v.rows) = v.rows
  BY <1>1 DEF Engine, Grid
<1> QED
  BY <1>2, <1>3 DEF Scroll!Screen, Scroll!Last, Engine, Grid

(* The history never holds more lines than it may *)
LEMMA TrimmedFits ==
  ASSUME MachinesAssumption, NEW v, Grid(v), v.len \leq MaxHistory
  PROVE  Scroll!Trimmed(v).len \leq MaxHistory
<1> DEFINE evicted == Scroll!AtLeast(Len(v.lines) - v.rows - MaxHistory, 0)
           t == [v EXCEPT !.lines = Scroll!Drop(v.lines, evicted), !.base = @ + evicted,
                          !.len = Len(v.lines) - evicted - v.rows]
<1>1. Len(v.lines) \in Nat
  BY LengthIsNat DEF Grid
<1>2. Len(v.lines) - evicted - v.rows \leq MaxHistory
  BY <1>1 DEF Scroll!AtLeast, MachinesAssumption, Grid
<1> HIDE DEF evicted
<1>3. t.len = Len(v.lines) - evicted - v.rows
  BY DEF Grid
<1>4. Scroll!Trimmed(v) = IF v.alt THEN v ELSE t
  BY Zenon DEF Scroll!Trimmed, evicted
<1> QED
  BY <1>2, <1>3, <1>4

(* Writing in a row moves no line *)
LEMMA WrittenStays ==
  ASSUME MachinesAssumption, NEW v, Engine(v), v.len \leq MaxHistory, NEW r, NEW ink
  PROVE  LET w == Scroll!Trimmed(Scroll!Written(v, r, ink))
         IN w.rows = v.rows /\ w.base = v.base /\ w.len = v.len /\ w.alt = v.alt
<1> DEFINE page == [v.page EXCEPT ![r] = ink]
           lines == [v.lines EXCEPT ![Len(v.lines) - v.rows + r] = ink]
           a == [v EXCEPT !.page = page]
           p == [v EXCEPT !.lines = lines]
           t == Scroll!Trimmed(p)
<1>1. Len(lines) = Len(v.lines) /\ Len(v.lines) \in Nat
  BY Overwritten, LengthIsNat DEF Engine, Grid
<1> HIDE DEF page, lines
<1>2. a.rows = v.rows /\ a.base = v.base /\ a.len = v.len /\ a.alt = v.alt
  BY DEF Engine, Grid
<1>3. p.rows = v.rows /\ p.base = v.base /\ p.len = v.len /\ p.alt = v.alt /\ p.lines = lines
      /\ p \in [base : {v.base}, lines : {lines}, rows : {v.rows}, len : {v.len}, alt : {v.alt}, page : {v.page}]
  BY DEF Engine, Grid
<1>4. Scroll!Written(v, r, ink) = IF v.alt THEN a ELSE p
  BY Zenon DEF Scroll!Written, a, p, page, lines
<1> HIDE DEF a, p
<1>5. CASE v.alt
  <2>1. Scroll!Trimmed(a) = a
    BY <1>2, <1>5, Zenon DEF Scroll!Trimmed
  <2> QED
    BY <1>2, <1>4, <1>5, <2>1
<1>6. CASE ~v.alt
  <2> DEFINE evicted == Scroll!AtLeast(Len(p.lines) - p.rows - MaxHistory, 0)
             s == [p EXCEPT !.lines = Scroll!Drop(p.lines, evicted), !.base = @ + evicted,
                            !.len = Len(p.lines) - evicted - p.rows]
  <2>1. evicted = 0 /\ v.base + 0 = v.base /\ Len(p.lines) - 0 - p.rows = v.len
    BY <1>1, <1>3, <1>6 DEF Scroll!AtLeast, MachinesAssumption, Engine, Grid
  <2>2. Scroll!Trimmed(p) = s
    BY <1>3, <1>6, Zenon DEF Scroll!Trimmed, evicted
  <2> HIDE DEF evicted
  <2>3. s.rows = v.rows /\ s.base = v.base /\ s.len = v.len /\ s.alt = v.alt
    BY <1>3, <2>1
  <2> QED
    BY <1>4, <1>6, <2>2, <2>3
<1> QED
  BY <1>5, <1>6

(* The picture the last frame will have made, and the rest *)
Stands(b, q, v, o) ==
  IF q = <<>> THEN Standing(b, v, o)
  ELSE /\ Len(q) = 1 /\ q[1].kind # "history" /\ Fits(b, q[1])
       /\ Standing(After(b, q[1]), v, o)

SyncInv ==
  /\ ScrollInv
  /\ vt.len \leq MaxHistory /\ owed.meta \in BOOLEAN
  /\ \E b : Leads(Picture(mirror), down, b) /\ Stands(b, built, vt, owed)

LEMMA Numbering == ASSUME NEW v, Engine(v)
                   PROVE /\ Scroll!First(v) \in Int /\ Scroll!HistoryBase(v) \in Int /\ Scroll!HistoryLen(v) \in Nat
                         /\ Scroll!HistoryBase(v) + Scroll!HistoryLen(v) = Scroll!First(v)
BY DEF Scroll!First, Scroll!HistoryBase, Scroll!HistoryLen, Engine, Grid

(* A page says nothing a frame that follows it or is not owed would not *)
LEMMA StandsAfterPage ==
  ASSUME NEW b, Pictured(b), NEW q, Sequence(q), NEW v, Engine(v), NEW o, Stands(b, q, v, o), AllTold(q),
         NEW msg, Tells(msg), msg.kind = "history", msg.base = Scroll!HistoryBase(v)
  PROVE  Stands(After(b, msg), q, v, o)
<1> DEFINE base == Scroll!AtLeast(b.base, msg.base)
           c == [b EXCEPT !.base = base]
<1>1. After(b, msg) = c
  BY Zenon DEF After
<1>2. base \in Int /\ base \geq b.base /\ (msg.base = b.base => base = b.base)
  BY DEF Scroll!AtLeast, Tells, Pictured
<1> HIDE DEF base
<1>3. c.rows = b.rows /\ c.visible = b.visible /\ c.base = base /\ c.len = b.len
  BY DEF Pictured
<1> HIDE DEF c
<1>4. ASSUME NEW n \in Int, n \leq b.base + b.len PROVE n \leq c.base + c.len
  BY <1>2, <1>3, <1>4 DEF Pictured
<1>5. CASE q = <<>>
  <2>1. Standing(b, v, o)
    BY <1>5 DEF Stands
  <2>2. Scroll!First(v) \in Int
    BY Numbering
  <2>3. Scroll!First(v) \leq b.base + b.len => Scroll!First(v) \leq c.base + c.len
    BY <1>4, <2>2
  <2>4. b.base = Scroll!HistoryBase(v) => c.base = b.base
    BY <1>2, <1>3
  <2>5. Standing(c, v, o)
    BY <1>3, <2>1, <2>3, <2>4 DEF Standing
  <2> QED
    BY <1>1, <1>5, <2>5 DEF Stands
<1>6. CASE q # <<>>
  <2>1. Len(q) = 1 /\ q[1].kind # "history" /\ Fits(b, q[1]) /\ Standing(After(b, q[1]), v, o) /\ Tells(q[1])
    BY <1>6 DEF Stands, AllTold
  <2>2. Fits(c, q[1])
    <3>1. q[1].kind = "delta" => q[1].base + q[1].len \in Int
      BY <2>1 DEF Tells
    <3>2. q[1].kind = "delta" /\ q[1].base + q[1].len \leq b.base + b.len => q[1].base + q[1].len \leq c.base + c.len
      BY <1>4, <3>1
    <3> QED
      BY <1>3, <2>1, <3>2 DEF Fits
  <2>3. After(c, q[1]) = After(b, q[1])
    <3>1. q[1].kind = "snapshot" \/ q[1].kind = "delta"
      BY <2>1 DEF Tells
    <3> QED
      BY <1>3, <3>1 DEF After
  <2> QED
    BY <1>1, <1>6, <2>1, <2>2, <2>3 DEF Stands
<1> QED
  BY <1>5, <1>6

(* A frame that is built makes the picture the engine's *)
LEMMA StandsFlushed ==
  ASSUME NEW b, Pictured(b), NEW v, Engine(v), NEW o, Owing(o), o.on, Stands(b, <<>>, v, o),
         NEW frame, frame = IF o.snapshot THEN Scroll!Snapshot(v) ELSE Scroll!Delta(v, o)
  PROVE  Stands(b, <<frame>>, v, Scroll!NotOwed)
<1> DEFINE screen == Scroll!Screen(v)
           c == After(b, frame)
<1>1. Sequence(screen) /\ Len(screen) = v.rows /\ v.rows \in Nat \ {0}
  BY ScreenHasRows DEF Engine, Grid
<1>2. /\ Scroll!First(v) \in Int /\ Scroll!HistoryBase(v) \in Int /\ Scroll!HistoryLen(v) \in Nat
      /\ Scroll!HistoryBase(v) + Scroll!HistoryLen(v) = Scroll!First(v)
  BY Numbering
<1>3. /\ frame.kind # "history" /\ Fits(b, frame)
      /\ c.rows = v.rows /\ c.base = Scroll!HistoryBase(v) /\ c.len = Scroll!HistoryLen(v)
      /\ \A r \in 1..v.rows : c.visible[r] = screen[r]
  <2>1. CASE o.snapshot
    <3>1. frame = [kind |-> "snapshot", base |-> Scroll!HistoryBase(v), len |-> Scroll!HistoryLen(v), rows |-> screen]
      BY <2>1 DEF Scroll!Snapshot
    <3>2. frame.kind = "snapshot" /\ frame.base = Scroll!HistoryBase(v) /\ frame.len = Scroll!HistoryLen(v)
          /\ frame.rows = screen
      BY <3>1
    <3>3. c = [rows |-> Len(screen), visible |-> screen, base |-> Scroll!HistoryBase(v), len |-> Scroll!HistoryLen(v)]
      BY <3>2 DEF After
    <3> QED
      BY <1>1, <3>2, <3>3 DEF Fits
  <2>2. CASE ~o.snapshot
    <3> DEFINE redrawn == [r \in o.dirty |-> screen[r]]
               rows == IF frame.size = 0 THEN b.rows ELSE frame.size
               visible == [r \in 1..rows |-> IF r \in DOMAIN frame.rows THEN frame.rows[r] ELSE b.visible[r]]
    <3>1. frame = [kind |-> "delta", base |-> Scroll!HistoryBase(v), len |-> Scroll!HistoryLen(v), size |-> o.size,
                   rows |-> redrawn]
      BY <2>2 DEF Scroll!Delta
    <3> HIDE DEF redrawn
    <3>2. frame.kind = "delta" /\ frame.base = Scroll!HistoryBase(v) /\ frame.len = Scroll!HistoryLen(v)
          /\ frame.size = o.size /\ frame.rows = redrawn
      BY <3>1
    <3>3. DOMAIN redrawn = o.dirty /\ \A r \in o.dirty : redrawn[r] = screen[r]
      BY DEF redrawn
    <3>4. /\ IF o.size = 0 THEN b.rows = v.rows ELSE o.size = v.rows /\ o.dirty = 1..v.rows
          /\ \A r \in (1..v.rows) \ o.dirty : b.visible[r] = screen[r]
          /\ o.dirty = 1..v.rows \/ Scroll!First(v) \leq b.base + b.len
      BY <2>2 DEF Stands, Standing
    <3>5. rows = v.rows
      BY <3>2, <3>4
    <3>6. Fits(b, frame)
      BY <1>2, <3>2, <3>3, <3>4, <3>5 DEF Fits
    <3>7. c = [rows |-> rows, visible |-> visible, base |-> frame.base, len |-> frame.len]
      BY <3>2, Zenon DEF After
    <3>8. \A r \in 1..v.rows : visible[r] = screen[r]
      <4> HIDE DEF screen
      <4> QED
        BY <3>2, <3>3, <3>4, <3>5
    <3> HIDE DEF visible
    <3>9. c.rows = rows /\ c.visible = visible /\ c.base = frame.base /\ c.len = frame.len
      <4> HIDE DEF c
      <4> QED
        BY <3>7
    <3> QED
      BY <3>2, <3>5, <3>6, <3>8, <3>9
  <2> QED
    BY <2>1, <2>2
<1> HIDE DEF c
<1>4. Standing(c, v, Scroll!NotOwed)
  <2>1. Scroll!NotOwed.size = 0
    BY DEF Scroll!NotOwed
  <2> QED
    BY <1>2, <1>3, <2>1 DEF Standing, screen
<1> DEFINE q == <<frame>>
<1>5. q # <<>> /\ Len(q) = 1 /\ q[1] = frame
  OBVIOUS
<1> HIDE DEF q
<1>6. Stands(b, q, v, Scroll!NotOwed)
  BY <1>3, <1>4, <1>5 DEF Stands, c
<1> QED
  BY <1>6 DEF q

(* What stands for every picture stands for what is built *)
LEMMA StandsMoves ==
  ASSUME NEW b, NEW q, NEW v, NEW o, NEW w, NEW p, Stands(b, q, v, o),
         \A c : Standing(c, v, o) => Standing(c, w, p)
  PROVE  Stands(b, q, w, p)
BY DEF Stands

LEMMA WritingStands ==
  ASSUME NEW v, Engine(v), NEW w, w.rows = v.rows, w.base = v.base, w.len = v.len, w.alt = v.alt,
         NEW o, Owing(o), o.meta \in BOOLEAN, NEW c, Standing(c, v, o)
  PROVE  Standing(c, w, Scroll!Owes(o, v, w))
<1> DEFINE redrawn == {r \in 1..w.rows : Scroll!Screen(w)[r] # Scroll!Screen(v)[r]}
           meta == o.meta \/ Scroll!HistoryBase(v) # Scroll!HistoryBase(w)
                          \/ Scroll!HistoryLen(v) # Scroll!HistoryLen(w)
           p == [o EXCEPT !.dirty = @ \cup redrawn, !.meta = meta]
<1>1. Scroll!Owes(o, v, w) = p
  BY Zenon DEF Scroll!Owes
<1>2. /\ Scroll!First(w) = Scroll!First(v) /\ Scroll!HistoryBase(w) = Scroll!HistoryBase(v)
      /\ Scroll!HistoryLen(w) = Scroll!HistoryLen(v)
  BY DEF Scroll!First, Scroll!HistoryBase, Scroll!HistoryLen
<1>3. meta = o.meta
  BY <1>2
<1>4. redrawn \subseteq 1..v.rows /\ \A r \in (1..v.rows) \ redrawn : Scroll!Screen(w)[r] = Scroll!Screen(v)[r]
  OBVIOUS
<1> HIDE DEF redrawn, meta
<1>5. /\ p.on = o.on /\ p.snapshot = o.snapshot /\ p.size = o.size /\ p.dirty = o.dirty \cup redrawn
      /\ p.meta = o.meta
  BY <1>3 DEF Owing
<1>6. p = Scroll!NotOwed => o = Scroll!NotOwed
  <2> SUFFICES ASSUME p = Scroll!NotOwed PROVE o = Scroll!NotOwed
    OBVIOUS
  <2>1. p.on = TRUE /\ p.dirty = {} /\ p.size = 0 /\ p.meta = FALSE /\ p.snapshot = FALSE
    BY DEF Scroll!NotOwed
  <2>2. o.on = TRUE /\ o.dirty = {} /\ o.size = 0 /\ o.meta = FALSE /\ o.snapshot = FALSE
    BY <1>5, <2>1
  <2>3. o = [on |-> o.on, dirty |-> o.dirty, size |-> o.size, meta |-> o.meta, snapshot |-> o.snapshot]
    BY DEF Owing
  <2> QED
    BY <2>2, <2>3 DEF Scroll!NotOwed
<1> HIDE DEF p
<1>7. Standing(c, w, p)
  <2> SUFFICES ASSUME p.on, ~p.snapshot
               PROVE  /\ IF p.size = 0 THEN c.rows = w.rows ELSE p.size = w.rows /\ p.dirty = 1..w.rows
                      /\ \A r \in (1..w.rows) \ p.dirty : c.visible[r] = Scroll!Screen(w)[r]
                      /\ p.dirty = 1..w.rows \/ Scroll!First(w) \leq c.base + c.len
                      /\ p # Scroll!NotOwed \/ (c.base = Scroll!HistoryBase(w) /\ c.len = Scroll!HistoryLen(w))
    BY DEF Standing
  <2>1. /\ IF o.size = 0 THEN c.rows = v.rows ELSE o.size = v.rows /\ o.dirty = 1..v.rows
        /\ \A r \in (1..v.rows) \ o.dirty : c.visible[r] = Scroll!Screen(v)[r]
        /\ o.dirty = 1..v.rows \/ Scroll!First(v) \leq c.base + c.len
        /\ o # Scroll!NotOwed \/ (c.base = Scroll!HistoryBase(v) /\ c.len = Scroll!HistoryLen(v))
    BY <1>5 DEF Standing
  <2>2. o.dirty = 1..v.rows => p.dirty = 1..w.rows
    BY <1>4, <1>5
  <2> QED
    BY <1>2, <1>4, <1>5, <1>6, <2>1, <2>2
<1> QED
  BY <1>1, <1>7

LEMMA ScrollingStands ==
  ASSUME NEW v, Engine(v), NEW w, w.rows = v.rows, NEW o, Owing(o), NEW c, Standing(c, v, o)
  PROVE  Standing(c, w, Scroll!Scrolls(o, v, w))
<1> DEFINE s == Scroll!Owes(o, v, w)
           p == [s EXCEPT !.dirty = 1..w.rows]
<1>1. Scroll!Scrolls(o, v, w) = p
  BY Zenon DEF Scroll!Scrolls
<1>2. Owing(s) /\ s.on = o.on /\ s.snapshot = o.snapshot /\ s.size = o.size
  <2>1. Owing(s)
    BY OwesMore
  <2> QED
    BY <2>1 DEF Scroll!Owes, Owing
<1> HIDE DEF s
<1>3. p.on = o.on /\ p.snapshot = o.snapshot /\ p.size = o.size /\ p.dirty = 1..w.rows
  BY <1>2 DEF Owing
<1> HIDE DEF p
<1>4. p # Scroll!NotOwed
  <2>1. 1 \in 1..w.rows
    BY DEF Engine, Grid
  <2>2. Scroll!NotOwed.dirty = {}
    BY DEF Scroll!NotOwed
  <2> QED
    BY <1>3, <2>1, <2>2
<1>5. Standing(c, w, p)
  BY <1>3, <1>4 DEF Standing
<1> QED
  BY <1>1, <1>5

LEMMA OwesMeta ==
  ASSUME NEW o, Owing(o), o.meta \in BOOLEAN, NEW v, NEW w
  PROVE  Scroll!Owes(o, v, w).meta \in BOOLEAN /\ Scroll!Scrolls(o, v, w).meta \in BOOLEAN
<1> DEFINE dirty == o.dirty \cup {r \in 1..w.rows : Scroll!Screen(w)[r] # Scroll!Screen(v)[r]}
           meta == o.meta \/ Scroll!HistoryBase(v) # Scroll!HistoryBase(w)
                          \/ Scroll!HistoryLen(v) # Scroll!HistoryLen(w)
           p == [o EXCEPT !.dirty = dirty, !.meta = meta]
           s == [p EXCEPT !.dirty = 1..w.rows]
<1>1. Scroll!Owes(o, v, w) = p /\ Scroll!Scrolls(o, v, w) = s
  BY Zenon DEF Scroll!Owes, Scroll!Scrolls, p, s, dirty, meta
<1>2. meta \in BOOLEAN
  OBVIOUS
<1> HIDE DEF dirty, meta
<1>3. p \in [on : {o.on}, dirty : {dirty}, size : {o.size}, meta : {meta}, snapshot : {o.snapshot}]
  BY DEF Owing
<1> HIDE DEF p
<1>4. s.meta = meta /\ p.meta = meta
  BY <1>3
<1> QED
  BY <1>1, <1>2, <1>4

(* A resize gives the grid the rows asked for *)
LEMMA ResizedFits ==
  ASSUME MachinesAssumption, NEW v, Engine(v), v.len \leq MaxHistory, NEW rows \in Nat \ {0},
         NEW kept \in 0..Scroll!AtLeast(v.rows - rows, 0)
  PROVE  Scroll!Resized(v, rows, kept).rows = rows /\ Scroll!Resized(v, rows, kept).len \leq MaxHistory
<1> DEFINE lines == Scroll!Regrown(v, rows, kept)
           page == IF v.alt THEN Scroll!Blanks(rows) ELSE <<>>
           s == [v EXCEPT !.lines = lines, !.rows = rows, !.page = page]
<1>1. Sequence(lines) /\ rows \leq Len(lines)
  BY RegrownFits
<1>2. Sequence(page) /\ (v.alt => Len(page) = rows)
  <2>1. Sequence(<<>>)
    BY EmptySeq, SequenceOf
  <2>2. Sequence(Scroll!Blanks(rows)) /\ Len(Scroll!Blanks(rows)) = rows
    BY BlanksMade
  <2> QED
    BY <2>1, <2>2
<1> HIDE DEF lines, page
<1>3. s \in [base : {v.base}, lines : {lines}, rows : {rows}, len : {v.len}, alt : {v.alt}, page : {page}]
  BY DEF Engine, Grid
<1> HIDE DEF s
<1>4. Grid(s) /\ s.rows = rows /\ s.len \leq MaxHistory
  BY <1>1, <1>2, <1>3 DEF Engine, Grid
<1>5. Scroll!Resized(v, rows, kept) = Scroll!Trimmed(s)
  BY Zenon DEF Scroll!Resized, s, lines, page
<1> QED
  BY <1>4, <1>5, TrimmedIsEngine, TrimmedFits

LEMMA SyncStarts == MachinesAssumption /\ Scroll!Init => SyncInv
<1> SUFFICES ASSUME MachinesAssumption, Scroll!Init PROVE SyncInv
  OBVIOUS
<1>1. ScrollInv
  BY ScrollStarts
<1>2. owed = [Scroll!NotOwed EXCEPT !.on = FALSE] /\ vt.len = 0
  BY DEF Scroll!Init
<1>3. ~owed.on /\ owed.meta = FALSE
  BY <1>2 DEF Scroll!NotOwed
<1>4. vt.len \leq MaxHistory
  BY <1>2 DEF MachinesAssumption
<1>5. Pictured(Picture(mirror))
  <2>1. mirror = [rows |-> 0, visible |-> <<>>, base |-> 0, len |-> 0, from |-> 0, cache |-> <<>>]
    BY Zenon DEF Scroll!Init
  <2>2. Sequence(<<>>) /\ Len(<<>>) = 0
    BY EmptySeq, SequenceOf
  <2> QED
    BY <2>1, <2>2 DEF Picture, Pictured
<1>6. down = <<>> /\ built = <<>>
  BY DEF Scroll!Init
<1>7. Leads(Picture(mirror), down, Picture(mirror))
  BY <1>5, <1>6, LeadsNowhere
<1>8. Stands(Picture(mirror), built, vt, owed)
  BY <1>3, <1>6 DEF Stands, Standing
<1> QED
  BY <1>1, <1>3, <1>4, <1>7, <1>8, Zenon DEF SyncInv

LEMMA SyncKeeps == MachinesAssumption /\ SyncInv /\ [Scroll!Next]_scrollVars => SyncInv'
<1> SUFFICES ASSUME MachinesAssumption, SyncInv, [Scroll!Next]_scrollVars PROVE SyncInv'
  OBVIOUS
<1>1. ScrollInv'
  BY ScrollKeeps DEF SyncInv
<1>2. PICK b : Leads(Picture(mirror), down, b) /\ Stands(b, built, vt, owed)
  BY Zenon DEF SyncInv
<1>3. /\ Engine(vt) /\ Owing(owed) /\ AllTold(built) /\ AllTold(down) /\ AllAsked(up)
      /\ Replica(mirror) /\ OneRunOf(mirror)
      /\ vt.len \leq MaxHistory /\ owed.meta \in BOOLEAN
  BY DEF SyncInv, ScrollInv
<1>4. Pictured(Picture(mirror)) /\ Pictured(b)
  BY <1>2, <1>3, LeadsPictured DEF AllTold
<1> DEFINE Bounded == vt'.len \leq MaxHistory /\ owed'.meta \in BOOLEAN
<1>5. ASSUME NEW c, Leads(Picture(mirror'), down', c), Stands(c, built', vt', owed'), Bounded
      PROVE  SyncInv'
  <2>1. Leads(Picture(mirror), down, c)' /\ Stands(c, built, vt, owed)'
    BY <1>5
  <2> QED
    BY <1>1, <1>5, <2>1, Zenon DEF SyncInv
<1>6. ASSUME UNCHANGED <<down, mirror>>, Stands(b, built', vt', owed'), Bounded PROVE SyncInv'
  <2>1. Leads(Picture(mirror'), down', b)
    BY <1>2, <1>6
  <2> QED
    BY <1>5, <1>6, <2>1
<1>7. ASSUME Scroll!Output, NEW w, Grid(w), w.len \leq MaxHistory, w.rows = vt.rows, vt' = Scroll!Trimmed(w),
             owed' = Scroll!Scrolls(owed, vt, vt')
      PROVE  SyncInv'
  <2>1. vt'.rows = vt.rows /\ vt'.len \leq MaxHistory
    BY <1>7, TrimmedIsEngine, TrimmedFits
  <2>2. UNCHANGED <<built, down, mirror>>
    BY <1>7, Zenon DEF Scroll!Output
  <2>3. Stands(b, built, vt', owed')
    <3>1. \A c : Standing(c, vt, owed) => Standing(c, vt', owed')
      BY <1>3, <1>7, <2>1, ScrollingStands
    <3> QED
      BY <1>2, <3>1, StandsMoves
  <2>4. owed'.meta \in BOOLEAN
    BY <1>3, <1>7, OwesMeta
  <2> QED
    BY <1>6, <2>1, <2>2, <2>3, <2>4
<1>8. CASE Scroll!Write
  <2>1. PICK r \in 1..vt.rows :
          /\ vt' = Scroll!Trimmed(Scroll!Written(vt, r, spent.outputs + 1))
          /\ owed' = Scroll!Owes(owed, vt, vt') /\ Scroll!Output
    BY <1>8, Zenon DEF Scroll!Write
  <2>2. vt'.rows = vt.rows /\ vt'.base = vt.base /\ vt'.len = vt.len /\ vt'.alt = vt.alt
    BY <1>3, <2>1, WrittenStays
  <2>3. UNCHANGED <<built, down, mirror>>
    BY <2>1, Zenon DEF Scroll!Output
  <2>4. Stands(b, built, vt', owed')
    <3>1. \A c : Standing(c, vt, owed) => Standing(c, vt', owed')
      BY <1>3, <2>1, <2>2, WritingStands
    <3> QED
      BY <1>2, <3>1, StandsMoves
  <2>5. owed'.meta \in BOOLEAN
    BY <1>3, <2>1, OwesMeta
  <2> QED
    BY <1>3, <1>6, <2>2, <2>3, <2>4, <2>5
<1>9. CASE Scroll!LineFeed
  <2>1. Grid(Scroll!LineFed(vt)) /\ Scroll!LineFed(vt).rows = vt.rows
    BY <1>3, LineFedGrid
  <2>2. Scroll!LineFed(vt).len = vt.len
    BY <1>3 DEF Scroll!LineFed, Engine, Grid
  <2> QED
    BY <1>3, <1>7, <1>9, <2>1, <2>2 DEF Scroll!LineFeed
<1>10. CASE Scroll!Swap
  <2>1. Grid(Scroll!Swapped(vt)) /\ Scroll!Swapped(vt).rows = vt.rows
    BY <1>3, SwappedGrid
  <2>2. Scroll!Swapped(vt).len = vt.len
    BY <1>3 DEF Scroll!Swapped, Engine, Grid
  <2> QED
    BY <1>3, <1>7, <1>10, <2>1, <2>2 DEF Scroll!Swap
<1>11. CASE Scroll!Flush
  <2> DEFINE frame == IF owed.snapshot THEN Scroll!Snapshot(vt) ELSE Scroll!Delta(vt, owed)
  <2>1. /\ owed.on /\ built = <<>> /\ built' = <<frame>> /\ owed' = Scroll!NotOwed
        /\ UNCHANGED <<vt, down, mirror>>
    BY <1>11, Zenon DEF Scroll!Flush, frame
  <2>2. Stands(b, <<>>, vt, owed)
    BY <1>2, <2>1
  <2>3. Stands(b, <<frame>>, vt, Scroll!NotOwed)
    BY <1>3, <1>4, <2>1, <2>2, StandsFlushed
  <2> HIDE DEF frame
  <2>4. owed'.meta \in BOOLEAN
    BY <2>1 DEF Scroll!NotOwed
  <2> QED
    BY <1>3, <1>6, <2>1, <2>3, <2>4
<1>12. CASE Scroll!Send
  <2>1. built # <<>> /\ down' = down \o built /\ built' = <<>> /\ UNCHANGED <<vt, owed, mirror>>
    BY <1>12, Zenon DEF Scroll!Send
  <2>2. Len(built) = 1 /\ Fits(b, built[1]) /\ Standing(After(b, built[1]), vt, owed) /\ Tells(built[1])
    BY <1>2, <1>3, <2>1 DEF Stands, AllTold
  <2>3. down' = Append(down, built[1])
    <3>1. built = <<built[1]>>
      <4>1. built \in Seq(ItemsOf(built))
        BY <1>3 DEF AllTold, Sequence
      <4> QED
        BY <2>2, <4>1
    <3>2. Append(down, built[1]) = down \o <<built[1]>>
      BY <1>3, AppendIsConcat DEF AllTold
    <3> QED
      BY <2>1, <3>1, <3>2
  <2>4. Leads(Picture(mirror), down', After(b, built[1]))
    BY <1>2, <1>3, <2>2, <2>3, LeadsOn DEF AllTold
  <2>5. Stands(After(b, built[1]), built', vt, owed)
    BY <2>1, <2>2 DEF Stands
  <2> QED
    BY <1>3, <1>5, <2>1, <2>4, <2>5
<1>13. CASE Scroll!Answer
  <2> DEFINE msg == Head(up)
  <2>1. up # <<>> /\ UNCHANGED <<built, mirror>>
    BY <1>13, Zenon DEF Scroll!Answer
  <2>2. Asked(msg)
    BY <1>3, <2>1, LessAsked
  <2> HIDE DEF msg
  <2>3. \/ msg.kind = "resize" /\ UNCHANGED <<vt, owed, down>>
        \/ /\ msg.kind = "resize" /\ UNCHANGED down
           /\ \E kept \in 0..Scroll!AtLeast(vt.rows - msg.rows, 0) : vt' = Scroll!Resized(vt, msg.rows, kept)
           /\ owed' = [owed EXCEPT !.dirty = 1..msg.rows, !.size = msg.rows]
        \/ /\ msg.kind = "fetch" /\ down' = Append(down, Scroll!History(vt, msg.from, msg.count))
           /\ UNCHANGED <<vt, owed>>
        \/ msg.kind = "attach" /\ owed' = [Scroll!NotOwed EXCEPT !.snapshot = TRUE] /\ UNCHANGED <<vt, down>>
    BY <1>13, Zenon DEF Scroll!Answer, msg
  <2>4. CASE msg.kind = "resize" /\ UNCHANGED <<vt, owed, down>>
    BY <1>2, <1>3, <1>6, <2>1, <2>4
  <2>5. ASSUME msg.kind = "resize", UNCHANGED down,
               NEW kept \in 0..Scroll!AtLeast(vt.rows - msg.rows, 0), vt' = Scroll!Resized(vt, msg.rows, kept),
               owed' = [owed EXCEPT !.dirty = 1..msg.rows, !.size = msg.rows]
        PROVE  SyncInv'
    <3>1. msg.rows \in Nat \ {0}
      BY <2>2, <2>5 DEF Asked, MachinesAssumption
    <3>2. vt'.rows = msg.rows /\ vt'.len \leq MaxHistory
      BY <1>3, <2>5, <3>1, ResizedFits
    <3>3. owed' \in [on : {owed.on}, dirty : {1..msg.rows}, size : {msg.rows}, meta : {owed.meta},
                     snapshot : {owed.snapshot}]
      BY <1>3, <2>5 DEF Owing
    <3>4. owed'.on = owed.on /\ owed'.snapshot = owed.snapshot /\ owed'.dirty = 1..msg.rows
          /\ owed'.size = msg.rows /\ owed'.meta = owed.meta
      BY <3>3
    <3>5. \A c : Standing(c, vt', owed')
      <4>1. owed' # Scroll!NotOwed
        BY <3>1, <3>4 DEF Scroll!NotOwed
      <4> QED
        BY <3>1, <3>2, <3>4, <4>1 DEF Standing
    <3>6. Stands(b, built, vt', owed')
      BY <1>2, <3>5, StandsMoves
    <3> QED
      BY <1>3, <1>6, <2>1, <2>5, <3>2, <3>4, <3>6
  <2>6. CASE /\ msg.kind = "fetch" /\ down' = Append(down, Scroll!History(vt, msg.from, msg.count))
             /\ UNCHANGED <<vt, owed>>
    <3> DEFINE page == Scroll!History(vt, msg.from, msg.count)
    <3>1. msg.from \in Int /\ msg.count \in Int
      BY <2>2, <2>6 DEF Asked
    <3>2. Tells(page) /\ page.kind = "history" /\ page.base = Scroll!HistoryBase(vt)
      BY <1>3, <3>1, HistoryTold DEF Scroll!History
    <3> HIDE DEF page
    <3>3. Fits(b, page)
      BY <3>2 DEF Fits
    <3>4. Leads(Picture(mirror), Append(down, page), After(b, page))
      BY <1>2, <1>3, <3>2, <3>3, LeadsOn DEF AllTold
    <3>5. Stands(After(b, page), built, vt, owed)
      <4>1. Sequence(built)
        BY <1>3 DEF AllTold
      <4> QED
        BY <1>2, <1>3, <1>4, <3>2, <4>1, StandsAfterPage
    <3> QED
      BY <1>3, <1>5, <2>1, <2>6, <3>4, <3>5 DEF page
  <2>7. CASE msg.kind = "attach" /\ owed' = [Scroll!NotOwed EXCEPT !.snapshot = TRUE] /\ UNCHANGED <<vt, down>>
    <3>1. owed'.snapshot /\ owed'.meta \in BOOLEAN
      BY <2>7 DEF Scroll!NotOwed
    <3>2. Stands(b, built, vt', owed')
      <4>1. \A c : Standing(c, vt', owed')
        BY <3>1 DEF Standing
      <4> QED
        BY <1>2, <4>1, StandsMoves
    <3> QED
      BY <1>3, <1>6, <2>1, <2>7, <3>1, <3>2
  <2> QED
    BY <2>3, <2>4, <2>5, <2>6, <2>7
<1>14. CASE Scroll!Receive
  <2> DEFINE msg == Head(down)
  <2>1. down # <<>> /\ mirror' = Scroll!Apply(mirror, msg) /\ down' = Tail(down) /\ UNCHANGED <<vt, owed, built>>
    BY <1>14, Zenon DEF Scroll!Receive, msg
  <2>2. Tells(msg)
    BY <1>3, <2>1, LessTold
  <2>3. Fits(Picture(mirror), msg) /\ Leads(After(Picture(mirror), msg), Tail(down), b)
    BY <1>2, <1>3, <2>1, LeadsAfter DEF AllTold
  <2> HIDE DEF msg
  <2>4. Picture(mirror') = After(Picture(mirror), msg)
    BY <1>3, <1>4, <2>1, <2>2, <2>3, AppliedPicture
  <2>5. Leads(Picture(mirror'), down', b)
    BY <2>1, <2>3, <2>4
  <2> QED
    BY <1>2, <1>3, <1>5, <2>1, <2>5
<1>15. CASE Scroll!ClearScrollback
  <2>1. /\ UNCHANGED <<vt, owed, built, down>>
        /\ mirror' = [mirror EXCEPT !.cache = <<>>, !.from = Scroll!CacheEnd(mirror)]
    BY <1>15, Zenon DEF Scroll!ClearScrollback, Scroll!Move
  <2>2. Picture(mirror') = Picture(mirror)
    BY <1>3, <2>1 DEF Picture, Replica
  <2> QED
    BY <1>2, <1>3, <1>5, <2>1, <2>2
<1>16. CASE Scroll!Reconnect
  <2>1. down' = <<>> /\ built' = <<>> /\ owed' = [Scroll!NotOwed EXCEPT !.on = FALSE] /\ UNCHANGED <<vt, mirror>>
    BY <1>16, Zenon DEF Scroll!Reconnect
  <2>2. ~owed'.on /\ owed'.meta = FALSE
    BY <2>1 DEF Scroll!NotOwed
  <2>3. Leads(Picture(mirror'), down', Picture(mirror))
    BY <1>4, <2>1, LeadsNowhere
  <2>4. Stands(Picture(mirror), built', vt', owed')
    BY <2>1, <2>2 DEF Stands, Standing
  <2> QED
    BY <1>3, <1>5, <2>1, <2>2, <2>3, <2>4
<1>17. CASE UNCHANGED <<vt, owed, built, down, mirror>>
  BY <1>2, <1>3, <1>6, <1>17
<1>18. Scroll!Paint \/ Scroll!ScrollTo \/ Scroll!WindowResized \/ UNCHANGED scrollVars
       => UNCHANGED <<vt, owed, built, down, mirror>>
  BY Zenon DEF Scroll!Paint, Scroll!ScrollTo, Scroll!WindowResized, Scroll!Move, scrollVars
<1> QED
  BY <1>8, <1>9, <1>10, <1>11, <1>12, <1>13, <1>14, <1>15, <1>16, <1>17, <1>18
     DEF Scroll!Next, Scroll!Server

LEMMA SyncSettles == ASSUME SyncInv PROVE Scroll!Settled
<1> SUFFICES ASSUME owed = Scroll!NotOwed, built = <<>>, down = <<>>
             PROVE  /\ mirror.rows = vt.rows /\ mirror.visible = Scroll!Screen(vt)
                    /\ mirror.base = Scroll!HistoryBase(vt) /\ mirror.len = Scroll!HistoryLen(vt)
  BY DEF Scroll!Settled
<1> DEFINE a == Picture(mirror)
<1>1. Standing(a, vt, owed) /\ Pictured(a)
  <2>1. PICK b : Leads(a, down, b) /\ Stands(b, built, vt, owed)
    BY Zenon DEF SyncInv
  <2>2. a = b
    BY <2>1, LeadsNowhere
  <2>3. Sequence(down)
    BY DEF SyncInv, ScrollInv, AllTold
  <2> QED
    BY <2>1, <2>2, <2>3, LeadsPictured DEF Stands
<1>2. a.rows = mirror.rows /\ a.visible = mirror.visible /\ a.base = mirror.base /\ a.len = mirror.len
  BY DEF Picture
<1> HIDE DEF a
<1>3. owed.on = TRUE /\ owed.snapshot = FALSE /\ owed.size = 0 /\ owed.dirty = {}
  BY DEF Scroll!NotOwed
<1>4. /\ a.rows = vt.rows /\ a.base = Scroll!HistoryBase(vt) /\ a.len = Scroll!HistoryLen(vt)
      /\ \A r \in 1..vt.rows : a.visible[r] = Scroll!Screen(vt)[r]
  BY <1>1, <1>3 DEF Standing
<1>5. a.visible = Scroll!Screen(vt)
  <2>1. Sequence(Scroll!Screen(vt)) /\ Len(Scroll!Screen(vt)) = vt.rows
    BY ScreenHasRows DEF SyncInv, ScrollInv
  <2>2. Sequence(a.visible) /\ Len(a.visible) = vt.rows
    BY <1>1, <1>4 DEF Pictured
  <2>3. /\ a.visible = [r \in 1..vt.rows |-> a.visible[r]]
        /\ Scroll!Screen(vt) = [r \in 1..vt.rows |-> Scroll!Screen(vt)[r]]
    BY <2>1, <2>2, LenProperties DEF Sequence
  <2> QED
    BY <1>4, <2>3
<1> QED
  BY <1>2, <1>4, <1>5

(* With nothing owed or on its way a Replica has the rows and the line     *)
(* numbers of the engine, however output, resizes, swaps of the screens,   *)
(* pages that were asked for earlier, Clear Scrollback and lost            *)
(* connections are interleaved, and whatever the Replica has cached        *)
(* (apply_delta, apply_history_page, build_delta)                          *)
THEOREM ReplicasSettle == MachinesSpec => []Settled
<1>1. MachinesInit => SyncInv
  BY MachinesAssumption, SyncStarts DEF MachinesInit
<1>2. SyncInv /\ [MachinesNext]_machinesVars => SyncInv'
  <2>1. [MachinesNext]_machinesVars => [Scroll!Next]_scrollVars
    BY DEF MachinesNext, machinesVars, scrollVars, ControlStep, ScrollStep, PipeStep, HostStep, ConnStep, PointerStep, MemoryStep
  <2> QED
    BY <2>1, MachinesAssumption, SyncKeeps
<1>3. SyncInv => Settled
  BY SyncSettles DEF Settled
<1> QED
  BY <1>1, <1>2, <1>3, PTL DEF MachinesSpec
-----------------------------------------------------------------------------
(* What a window remembers.  Two states are the same when Norm of them is  *)
(* equal; Memorable is what there is to remember of a window, and Latest   *)
(* what the file holds once all that is pending is written                 *)
Norm(s) == [s EXCEPT !.zoom = Memory!Or(s.zoom, Level)]

Memorable(a, p) ==
  [window |-> IF a.window.size = 0 THEN p.initial.window ELSE a.window,
   tabs |-> a.tabs, width |-> a.width, zoom |-> a.zoom,
   provider |-> Memory!RememberedAiProvider(a.provider, p.atStartup, p.initial.provider)]

Latest(p) == Memory!Or(p.pending, p.written)

Window == [window : Memory!Windows \cup {Memory!Unmeasured}, tabs : BOOLEAN, width : Memory!Widths,
           zoom : 0..MaxZoom, provider : Providers]
Persister == [initial : Memory!States, atStartup : Providers, written : Memory!States,
              pending : {Nobody} \cup Memory!States, timer : BOOLEAN]

MemoryTypes ==
  /\ config \in [tabs : BOOLEAN, provider : Providers]
  /\ app \in Window /\ persister \in Persister
  /\ Memory!Parsed(saved) \in Memory!States
  /\ running \in BOOLEAN /\ changed \in BOOLEAN /\ lost \in BOOLEAN /\ runs \in Nat

(* Before the first run nothing was picked; then the file is what was      *)
(* written, what is pending is known to the timer, and once there is a     *)
(* change what is to be remembered is what will be written                 *)
NothingYet ==
  runs = 0 => ~lost /\ ~running /\ Memory!Parsed(saved).provider = chose

Kempt ==
  /\ ~lost => Norm(Memory!Parsed(saved)) = Norm(persister.written)
  /\ ~persister.timer => persister.pending = Nobody
  /\ ~running /\ ~lost => ~persister.timer
  /\ chose = Memory!RememberedAiProvider(app.provider, persister.atStartup, persister.initial.provider)
  /\ ~changed => /\ app.window = Memory!Unmeasured /\ app.zoom = Memory!Or(persister.written.zoom, Level)
                 /\ persister.written.provider = chose /\ ~persister.timer
  /\ changed /\ (persister.timer \/ ~lost) => Norm(Memorable(app, persister)) = Norm(Latest(persister))

MemoryInv == MemoryTypes /\ NothingYet /\ (runs > 0 => Kempt)

(* A file of this version or another is read as a state *)
LEMMA ZoomClamped ==
  ASSUME NEW z \in Nat
  PROVE  /\ Memory!ClampFontZoom(z) \in 0..MaxZoom
         /\ z \in 0..MaxZoom => Memory!ClampFontZoom(z) = z
<1> DEFINE low == IF z <= MaxZoom THEN z ELSE MaxZoom
<1>1. MaxZoom \in Nat
  BY ClientStateAssumption
<1>2. Memory!Min({MaxZoom, z}) = low
  <2>1. \E x \in {MaxZoom, z} : \A y \in {MaxZoom, z} : x =< y
    BY <1>1
  <2>2. /\ Memory!Min({MaxZoom, z}) \in {MaxZoom, z}
        /\ \A y \in {MaxZoom, z} : Memory!Min({MaxZoom, z}) =< y
    BY <2>1, Zenon DEF Memory!Min
  <2> QED
    BY <1>1, <2>2
<1>3. low \in 0..MaxZoom /\ (z \in 0..MaxZoom => low = z)
  BY <1>1
<1> HIDE DEF low
<1>4. Memory!Max({0, low}) = low
  <2>1. \E x \in {0, low} : \A y \in {0, low} : x >= y
    BY <1>1, <1>3
  <2>2. /\ Memory!Max({0, low}) \in {0, low}
        /\ \A y \in {0, low} : Memory!Max({0, low}) >= y
    BY <2>1, Zenon DEF Memory!Max
  <2> QED
    BY <1>1, <1>3, <2>2
<1> QED
  BY <1>2, <1>3, <1>4 DEF Memory!ClampFontZoom

(* What nobody wrote and what is damaged is none of what is read *)
LEMMA Apart ==
  ASSUME NEW value \in {Nobody, Damaged}
  PROVE  /\ value \notin {1, 2} /\ value \notin BOOLEAN /\ value \notin Providers /\ value \notin 0..MaxZoom
         /\ value \notin Nat /\ value \notin Memory!Places /\ value \notin Memory!States
         /\ value \notin Memory!Widths /\ value # 9 /\ value # MaxZoom + 9
  BY ClientStateAssumption DEF Memory!Widths

LEMMA WindowRead ==
  ASSUME NEW w \in {Nobody} \cup Memory!Places
  PROVE  Memory!ParsedWindow(w) = w
<1>1. CASE w = Nobody
  BY <1>1 DEF Memory!ParsedWindow
<1>2. CASE w \in Memory!Places
  <2>1. /\ w.size \in Memory!Sizes /\ w.origin \in {Nobody, 1} /\ w.display \in {Nobody, 2} /\ w.maximized = FALSE
        /\ w = [size |-> w.size, origin |-> w.origin, maximized |-> w.maximized, display |-> w.display]
    BY <1>2 DEF Memory!Places
  <2>2. w # Nobody
    BY <1>2, Apart
  <2>3. Damaged \notin {Nobody, 1, 2}
    BY Apart, ClientStateAssumption
  <2>4. Memory!Good(w.origin) = w.origin /\ Memory!Good(w.display) = w.display
    BY <2>1, <2>3 DEF Memory!Good
  <2>5. (w.maximized = TRUE) = w.maximized
    BY <2>1
  <2> QED
    BY <2>1, <2>2, <2>4, <2>5, Zenon DEF Memory!ParsedWindow
<1> QED
  BY <1>1, <1>2

(* What was written is read as it was, but for the zoom there is without it *)
LEMMA ReadBack ==
  ASSUME NEW s \in Memory!States
  PROVE  /\ Memory!Parsed(Memory!Serialized(s)) \in Memory!States
         /\ Norm(Memory!Parsed(Memory!Serialized(s))) = Norm(s)
<1> DEFINE f == Memory!Serialized(s)
           r == Memory!Parsed(f)
<1>1. /\ s.window \in {Nobody} \cup Memory!Places /\ s.tabs \in {Nobody} \cup BOOLEAN
      /\ s.width \in {Nobody} \cup Memory!Widths /\ s.zoom \in {Nobody} \cup (0..MaxZoom)
      /\ s.provider \in {Nobody} \cup Providers
  BY DEF Memory!States
<1>2. /\ f \in Memory!States
      /\ f.window = s.window /\ f.tabs = s.tabs /\ f.width = s.width /\ f.provider = s.provider
      /\ f.zoom = IF s.zoom = Level THEN Nobody ELSE s.zoom
  BY DEF Memory!Serialized, Memory!States
<1>3. f \notin {Nobody, Damaged}
  BY <1>2, Apart
<1>4. /\ Memory!Good(s.tabs) = s.tabs /\ Memory!Good(s.provider) = s.provider
  BY <1>1, Apart, ClientStateAssumption DEF Memory!Good
<1>5. (IF s.width \in Memory!Widths THEN s.width ELSE Nobody) = s.width
  BY <1>1
<1>6. (IF f.zoom \in {Nobody, Damaged} THEN Nobody ELSE Memory!ClampFontZoom(f.zoom)) = f.zoom
  <2>1. CASE f.zoom = Nobody
    BY <2>1
  <2>2. CASE f.zoom \in 0..MaxZoom
    <3>1. f.zoom \in Nat /\ f.zoom \notin {Nobody, Damaged}
      BY <2>2, Apart, ClientStateAssumption
    <3> QED
      BY <2>2, <3>1, ZoomClamped
  <2> QED
    BY <1>1, <1>2, <2>1, <2>2
<1> HIDE DEF f
<1>7. r = [window |-> s.window, tabs |-> s.tabs, width |-> s.width, zoom |-> f.zoom, provider |-> s.provider]
  BY <1>1, <1>2, <1>3, <1>4, <1>5, <1>6, WindowRead DEF Memory!Parsed
<1> HIDE DEF r
<1>8. f.zoom \in {Nobody} \cup (0..MaxZoom) /\ Memory!Or(f.zoom, Level) = Memory!Or(s.zoom, Level)
  <2>1. Level # Nobody
    BY Apart, ClientStateAssumption
  <2> QED
    BY <1>1, <1>2, <2>1 DEF Memory!Or
<1>9. r \in Memory!States
  BY <1>1, <1>7, <1>8 DEF Memory!States
<1>10. Norm(r) = Norm(s)
  <2>1. s = [window |-> s.window, tabs |-> s.tabs, width |-> s.width, zoom |-> s.zoom, provider |-> s.provider]
    BY DEF Memory!States
  <2>2. Norm(s) = [window |-> s.window, tabs |-> s.tabs, width |-> s.width, zoom |-> Memory!Or(s.zoom, Level),
                   provider |-> s.provider]
    BY <2>1 DEF Norm
  <2>3. Norm(r) = [window |-> s.window, tabs |-> s.tabs, width |-> s.width, zoom |-> Memory!Or(f.zoom, Level),
                   provider |-> s.provider]
    BY <1>7 DEF Norm
  <2> QED
    BY <1>8, <2>2, <2>3
<1> QED
  BY <1>9, <1>10 DEF r, f

(* What any other program wrote is read as a state with no provider *)
LEMMA ForeignRead ==
  ASSUME NEW file \in {Nobody, Damaged} \cup Memory!Foreign
  PROVE  Memory!Parsed(file) \in Memory!States /\ Memory!Parsed(file).provider = Nobody
<1>1. CASE file \in {Nobody, Damaged}
  BY <1>1 DEF Memory!Parsed, Memory!Empty, Memory!States
<1>2. CASE file \in Memory!Foreign
  <2>1. /\ file.provider \in {Nobody, Damaged} /\ file.tabs \in {Nobody, Damaged, TRUE}
        /\ file.zoom \in {Nobody, Damaged} \/ file.zoom \in Nat
        /\ \/ file.window = Nobody
           \/ file.window = [size |-> 2, origin |-> Damaged, maximized |-> Damaged, display |-> 2]
           \/ file.window = [Memory!Unmeasured EXCEPT !.size = Damaged]
    <3> DEFINE one == [Memory!Empty EXCEPT
                         !.window = [size |-> 2, origin |-> Damaged, maximized |-> Damaged, display |-> 2],
                         !.tabs = Damaged, !.width = 9, !.zoom = MaxZoom + 9]
               two == [Memory!Empty EXCEPT !.window = [Memory!Unmeasured EXCEPT !.size = Damaged],
                                           !.tabs = TRUE, !.zoom = Damaged]
               three == [Memory!Empty EXCEPT !.width = 2, !.provider = Damaged]
    <3>1. file \in {one, two, three}
      BY <1>2, Zenon DEF Memory!Foreign
    <3>2. /\ one.provider = Nobody /\ one.tabs = Damaged /\ one.zoom = MaxZoom + 9
          /\ one.window = [size |-> 2, origin |-> Damaged, maximized |-> Damaged, display |-> 2]
      BY Zenon DEF Memory!Empty
    <3>3. /\ two.provider = Nobody /\ two.tabs = TRUE /\ two.zoom = Damaged
          /\ two.window = [Memory!Unmeasured EXCEPT !.size = Damaged]
      BY Zenon DEF Memory!Empty
    <3>4. three.provider = Damaged /\ three.tabs = Nobody /\ three.zoom = Nobody /\ three.window = Nobody
      BY Zenon DEF Memory!Empty
    <3>5. MaxZoom + 9 \in Nat
      BY ClientStateAssumption
    <3> HIDE DEF one, two, three
    <3>6. CASE file = one
      BY <3>2, <3>5, <3>6, Zenon
    <3>7. CASE file = two
      BY <3>3, <3>7, Zenon
    <3>8. CASE file = three
      BY <3>4, <3>8, Zenon
    <3> QED
      BY <3>1, <3>6, <3>7, <3>8
  <2>2. Memory!ParsedWindow(file.window) \in {Nobody} \cup Memory!Places
    <3>1. CASE file.window = Nobody
      BY <3>1 DEF Memory!ParsedWindow
    <3>2. CASE file.window = [size |-> 2, origin |-> Damaged, maximized |-> Damaged, display |-> 2]
      <4>1. (Damaged = TRUE) = FALSE /\ Damaged # 2
        BY Apart
      <4>2. Memory!Good(Damaged) = Nobody /\ Memory!Good(2) = 2
        BY <4>1 DEF Memory!Good
      <4>3. Memory!ParsedWindow(file.window) \in
              {Nobody, [size |-> 2, origin |-> Nobody, maximized |-> FALSE, display |-> 2]}
        <5> DEFINE w == file.window
        <5>1. w.size = 2 /\ w.origin = Damaged /\ w.maximized = Damaged /\ w.display = 2
          BY <3>2
        <5>2. 2 \in Memory!Sizes
          BY DEF Memory!Sizes
        <5> HIDE DEF w
        <5>3. Memory!ParsedWindow(w) \in
                {Nobody, [size |-> 2, origin |-> Nobody, maximized |-> FALSE, display |-> 2]}
          BY <4>1, <4>2, <5>1, <5>2, Zenon DEF Memory!ParsedWindow
        <5> QED
          BY <5>3 DEF w
      <4>4. [size |-> 2, origin |-> Nobody, maximized |-> FALSE, display |-> 2] \in Memory!Places
        BY DEF Memory!Places, Memory!Sizes
      <4> QED
        BY <4>3, <4>4
    <3>3. CASE file.window = [Memory!Unmeasured EXCEPT !.size = Damaged]
      <4>1. file.window.size = Damaged
        BY <3>3 DEF Memory!Unmeasured
      <4>2. Damaged \notin Memory!Sizes
        BY Apart DEF Memory!Sizes
      <4> QED
        BY <4>1, <4>2 DEF Memory!ParsedWindow
    <3> QED
      BY <2>1, <3>1, <3>2, <3>3
  <2>3. Memory!Good(file.provider) = Nobody /\ Memory!Good(file.tabs) \in {Nobody} \cup BOOLEAN
    BY <2>1 DEF Memory!Good
  <2>4. (IF file.zoom \in {Nobody, Damaged} THEN Nobody ELSE Memory!ClampFontZoom(file.zoom))
          \in {Nobody} \cup (0..MaxZoom)
    BY <2>1, ZoomClamped
  <2> HIDE DEF Memory!Foreign
  <2> QED
    BY <2>2, <2>3, <2>4, ClientStateAssumption DEF Memory!Parsed, Memory!Empty, Memory!States
<1> QED
  BY <1>1, <1>2

LEMMA MemoryStarts == Memory!Init => MemoryInv
<1> SUFFICES ASSUME Memory!Init PROVE MemoryInv
  OBVIOUS
<1>1. config = [tabs |-> FALSE, provider |-> CHOOSE p \in Providers : TRUE]
  BY Zenon DEF Memory!Init
<1>2. config \in [tabs : BOOLEAN, provider : Providers]
  <2>1. (CHOOSE p \in Providers : TRUE) \in Providers
    BY ClientStateAssumption
  <2> QED
    BY <1>1, <2>1
<1>3. app \in Window
  <2>1. app = [window |-> Memory!Unmeasured, tabs |-> FALSE, width |-> 1, zoom |-> Level, provider |-> config.provider]
    BY DEF Memory!Init, Memory!DefaultWidth
  <2> QED
    BY <1>2, <2>1, ClientStateAssumption DEF Window, Memory!Widths
<1>4. Memory!Empty \in Memory!States
  BY DEF Memory!Empty, Memory!States
<1>5. persister \in Persister
  <2>1. persister = [initial |-> Memory!Empty, atStartup |-> config.provider, written |-> Memory!Empty,
                     pending |-> Nobody, timer |-> FALSE]
    BY Zenon DEF Memory!Init
  <2> QED
    BY <1>2, <1>4, <2>1 DEF Persister
<1>6. saved \in {Nobody, Damaged} \cup Memory!Foreign /\ chose = Nobody
  BY Zenon DEF Memory!Init
<1>7. runs = 0 /\ running = FALSE /\ changed = FALSE /\ lost = FALSE
  BY DEF Memory!Init
<1>8. Memory!Parsed(saved) \in Memory!States /\ Memory!Parsed(saved).provider = chose
  BY <1>6, ForeignRead
<1>9. MemoryTypes
  BY <1>2, <1>3, <1>5, <1>7, <1>8 DEF MemoryTypes
<1>10. NothingYet
  BY <1>7, <1>8 DEF NothingYet
<1> QED
  BY <1>7, <1>9, <1>10 DEF MemoryInv

LEMMA SameIsNorm ==
  ASSUME NEW a, NEW b
  PROVE  Memory!Same(a, b) <=> Norm(a) = Norm(b)
  BY Zenon DEF Memory!Same, Norm

LEMMA NormFields ==
  ASSUME NEW a \in Memory!States, NEW b \in Memory!States, Norm(a) = Norm(b)
  PROVE  /\ a.window = b.window /\ a.tabs = b.tabs /\ a.width = b.width /\ a.provider = b.provider
         /\ Memory!Or(a.zoom, Level) = Memory!Or(b.zoom, Level)
<1>1. ASSUME NEW s \in Memory!States
      PROVE  /\ Norm(s).window = s.window /\ Norm(s).tabs = s.tabs /\ Norm(s).width = s.width
             /\ Norm(s).provider = s.provider /\ Norm(s).zoom = Memory!Or(s.zoom, Level)
  BY DEF Norm, Memory!States
<1> QED
  BY <1>1

LEMMA LatestIs ==
  ASSUME NEW p \in Persister
  PROVE  /\ p.pending = Nobody => Latest(p) = p.written
         /\ p.pending # Nobody => Latest(p) = p.pending
         /\ Latest(p) \in Memory!States
  BY DEF Latest, Memory!Or, Persister

LEMMA KeptState ==
  ASSUME NEW a \in Window, NEW p \in Persister
  PROVE  /\ Memorable(a, p) \in Memory!States
         /\ Memorable(a, p).tabs = a.tabs /\ Memorable(a, p).width = a.width /\ Memorable(a, p).zoom = a.zoom
         /\ Memorable(a, p).provider = Memory!RememberedAiProvider(a.provider, p.atStartup, p.initial.provider)
         /\ a.window # Memory!Unmeasured => Memorable(a, p).window = a.window
<1>1. /\ a.window \in Memory!Windows \cup {Memory!Unmeasured} /\ a.tabs \in BOOLEAN
      /\ a.width \in Memory!Widths /\ a.zoom \in 0..MaxZoom /\ a.provider \in Providers
      /\ p.initial \in Memory!States
  BY DEF Window, Persister
<1>2. p.initial.window \in {Nobody} \cup Memory!Places
  BY <1>1 DEF Memory!States
<1>3. ASSUME a.window \in Memory!Windows PROVE a.window \in Memory!Places /\ a.window.size # 0
  <2>1. /\ a.window.size \in Memory!Sizes /\ a.window.origin \in {Nobody, 1}
        /\ a.window.maximized \in {FALSE} /\ a.window.display \in {Nobody}
        /\ a.window = [size |-> a.window.size, origin |-> a.window.origin,
                       maximized |-> a.window.maximized, display |-> a.window.display]
    BY <1>3, Zenon DEF Memory!Windows
  <2>2. a.window \in Memory!Places
    BY <2>1, Zenon DEF Memory!Places
  <2>3. a.window.size # 0
    BY <2>1 DEF Memory!Sizes
  <2> QED
    BY <2>2, <2>3
<1>4. Memory!Unmeasured.size = 0
  BY DEF Memory!Unmeasured
<1>5. Memory!RememberedAiProvider(a.provider, p.atStartup, p.initial.provider) \in {Nobody} \cup Providers
  BY <1>1 DEF Memory!RememberedAiProvider
<1> DEFINE w == IF a.window.size = 0 THEN p.initial.window ELSE a.window
           v == Memory!RememberedAiProvider(a.provider, p.atStartup, p.initial.provider)
<1>6. w \in {Nobody} \cup Memory!Places /\ (a.window # Memory!Unmeasured => w = a.window)
  BY <1>1, <1>2, <1>3, <1>4
<1>7. Memorable(a, p) = [window |-> w, tabs |-> a.tabs, width |-> a.width, zoom |-> a.zoom, provider |-> v]
  BY Zenon DEF Memorable
<1>8. v \in {Nobody} \cup Providers
  BY <1>5
<1> HIDE DEF w, v
<1>9. Memorable(a, p) \in Memory!States
  BY <1>1, <1>6, <1>7, <1>8 DEF Memory!States
<1>10. Memorable(a, p).window = w /\ Memorable(a, p).tabs = a.tabs /\ Memorable(a, p).width = a.width
       /\ Memorable(a, p).zoom = a.zoom /\ Memorable(a, p).provider = v
  BY <1>7
<1> QED
  BY <1>6, <1>9, <1>10 DEF v

(* What is kept does not depend on what is written or pending *)
LEMMA KeptStarts ==
  ASSUME NEW a, NEW p, NEW q, p.initial = q.initial, p.atStartup = q.atStartup
  PROVE  Memorable(a, p) = Memorable(a, q)
  BY Zenon DEF Memorable

(* A window that is idle or ended has its file as it is itself *)
LEMMA AtRestWhole ==
  ASSUME MemoryTypes, Kempt, ~lost, ~persister.timer
  PROVE  /\ Norm(Memory!Parsed(saved)) = Norm(persister.written)
         /\ Memory!Parsed(saved).provider = chose
         /\ Memory!Or(Memory!Parsed(saved).zoom, Level) = app.zoom
         /\ changed => /\ Memory!Parsed(saved).tabs = app.tabs /\ Memory!Parsed(saved).width = app.width
                       /\ app.window # Memory!Unmeasured => Memory!Parsed(saved).window = app.window
         /\ ~changed => app.window = Memory!Unmeasured
<1> DEFINE read == Memory!Parsed(saved)
           p == persister
<1>1. app \in Window /\ p \in Persister /\ read \in Memory!States /\ changed \in BOOLEAN
  BY DEF MemoryTypes
<1>2. Norm(read) = Norm(p.written) /\ p.pending = Nobody
  BY DEF Kempt
<1>3. Latest(p) = p.written /\ p.written \in Memory!States
  BY <1>1, <1>2, LatestIs
<1>4. read.provider = p.written.provider /\ Memory!Or(read.zoom, Level) = Memory!Or(p.written.zoom, Level)
  BY <1>1, <1>2, <1>3, NormFields
<1>5. CASE ~changed
  BY <1>2, <1>4, <1>5 DEF Kempt
<1>6. CASE changed
  <2>1. Norm(Memorable(app, p)) = Norm(read)
    BY <1>2, <1>3, <1>6, Zenon DEF Kempt
  <2>2. /\ Memorable(app, p) \in Memory!States
        /\ Memorable(app, p).tabs = app.tabs /\ Memorable(app, p).width = app.width /\ Memorable(app, p).zoom = app.zoom
        /\ Memorable(app, p).provider = chose
        /\ app.window # Memory!Unmeasured => Memorable(app, p).window = app.window
    BY <1>1, KeptState DEF Kempt
  <2>3. Memory!Or(app.zoom, Level) = app.zoom
    <3>1. app.zoom # Nobody
      BY <1>1, Apart DEF Window
    <3> QED
      BY <3>1 DEF Memory!Or
  <2> HIDE DEF read, p
  <2>4. /\ read.tabs = Memorable(app, p).tabs /\ read.width = Memorable(app, p).width
        /\ read.window = Memorable(app, p).window /\ read.provider = Memorable(app, p).provider
        /\ Memory!Or(read.zoom, Level) = Memory!Or(Memorable(app, p).zoom, Level)
    BY <1>1, <2>1, <2>2, NormFields
  <2> USE DEF read, p
  <2> QED
    BY <1>2, <1>6, <2>2, <2>3, <2>4
<1> QED
  BY <1>1, <1>5, <1>6

LEMMA StartKeeps == MemoryInv /\ Memory!Start => MemoryInv'
<1> SUFFICES ASSUME MemoryInv, Memory!Start PROVE MemoryInv'
  OBVIOUS
<1> DEFINE initial == Memory!Parsed(saved)
           picked == Memory!Or(initial.provider, config.provider)
<1>1. MemoryTypes /\ NothingYet /\ (runs > 0 => Kempt)
  BY DEF MemoryInv
<1>2. /\ ~running /\ runs' = runs + 1 /\ running' = TRUE /\ changed' = FALSE /\ lost' = FALSE
      /\ saved' = saved /\ config' = config
      /\ chose' = IF lost THEN initial.provider ELSE chose
  BY DEF Memory!Start
<1>3. /\ app' = [window |-> Memory!Unmeasured, tabs |-> Memory!Or(initial.tabs, config.tabs),
                 width |-> Memory!Or(initial.width, 1), zoom |-> Memory!Or(initial.zoom, Level),
                 provider |-> picked]
      /\ persister' = [initial |-> initial, atStartup |-> picked,
                       written |-> initial, pending |-> Nobody, timer |-> FALSE]
  BY Zenon DEF Memory!Start, Memory!DefaultWidth
<1>4. /\ initial \in Memory!States /\ config \in [tabs : BOOLEAN, provider : Providers] /\ runs \in Nat
      /\ lost \in BOOLEAN
  BY <1>1 DEF MemoryTypes
<1>5. /\ initial.tabs \in {Nobody} \cup BOOLEAN /\ initial.width \in {Nobody} \cup Memory!Widths
      /\ initial.zoom \in {Nobody} \cup (0..MaxZoom) /\ initial.provider \in {Nobody} \cup Providers
  BY <1>4 DEF Memory!States
<1>6. chose' = initial.provider
  <2>1. CASE lost
    BY <1>2, <2>1
  <2>2. CASE ~lost /\ runs = 0
    BY <1>1, <1>2, <2>2 DEF NothingYet
  <2>3. CASE ~lost /\ runs > 0
    <3>1. ~persister.timer
      BY <1>1, <1>2, <2>3 DEF Kempt
    <3> QED
      BY <1>1, <1>2, <2>3, <3>1, AtRestWhole
  <2> QED
    BY <1>4, <2>1, <2>2, <2>3
<1>7. picked \in Providers
  BY <1>4, <1>5 DEF Memory!Or
<1>8. /\ Memory!Or(initial.tabs, config.tabs) \in BOOLEAN /\ Memory!Or(initial.width, 1) \in Memory!Widths
      /\ Memory!Or(initial.zoom, Level) \in 0..MaxZoom
  BY <1>4, <1>5, ClientStateAssumption DEF Memory!Or, Memory!Widths
<1>9. Memory!RememberedAiProvider(picked, picked, initial.provider) = initial.provider
  BY DEF Memory!RememberedAiProvider, Memory!Or
<1>10. Memory!Parsed(saved)' = initial
  BY <1>2
<1> HIDE DEF initial, picked
<1>11. app' \in Window /\ persister' \in Persister
  <2>1. app' \in Window
    BY <1>3, <1>7, <1>8 DEF Window
  <2>2. persister' \in Persister
    BY <1>3, <1>4, <1>7 DEF Persister
  <2> QED
    BY <2>1, <2>2
<1>12. MemoryTypes'
  <2>1. running' \in BOOLEAN /\ changed' \in BOOLEAN /\ lost' \in BOOLEAN /\ runs' \in Nat
    <3>1. runs' = runs + 1 /\ runs \in Nat
      BY <1>2, <1>4, Zenon
    <3>2. running' \in BOOLEAN /\ changed' \in BOOLEAN /\ lost' \in BOOLEAN
      BY <1>2, Zenon
    <3> QED
      BY <3>1, <3>2
  <2>2. config' \in [tabs : BOOLEAN, provider : Providers] /\ Memory!Parsed(saved)' \in Memory!States
    BY <1>2, <1>4, <1>10
  <2> QED
    BY <1>11, <2>1, <2>2 DEF MemoryTypes
<1>13. NothingYet'
  BY <1>2, <1>4 DEF NothingYet
<1>14. /\ persister'.written = initial /\ persister'.pending = Nobody /\ ~persister'.timer
       /\ persister'.atStartup = picked /\ persister'.initial = initial
       /\ app'.provider = picked /\ app'.zoom = Memory!Or(initial.zoom, Level) /\ app'.window = Memory!Unmeasured
  BY <1>3
<1>15. Kempt'
  BY <1>2, <1>6, <1>9, <1>10, <1>14 DEF Kempt
<1> QED
  BY <1>12, <1>13, <1>15 DEF MemoryInv

(* A change of what is kept is pending, or is what will be written anyway *)
LEMMA ChangeKeeps ==
  ASSUME MemoryInv, NEW a \in Window, Memory!Changed(a),
         chose' = Memory!RememberedAiProvider(a.provider, persister.atStartup, persister.initial.provider)
  PROVE  MemoryInv'
<1> DEFINE state == Memorable(a, persister)
<1>1. MemoryTypes /\ NothingYet /\ (runs > 0 => Kempt)
  BY DEF MemoryInv
<1>2. /\ running /\ app' = a /\ changed' = TRUE
      /\ saved' = saved /\ config' = config /\ running' = running /\ lost' = lost /\ runs' = runs
      /\ persister' = Memory!Pushed(persister, Memory!ClientStateOf(a))
  BY DEF Memory!Changed
<1>3. Memory!ClientStateOf(a) = state
  BY Zenon DEF Memory!ClientStateOf, Memorable
<1>4. persister \in Persister /\ runs \in Nat
  BY <1>1 DEF MemoryTypes
<1>5. runs > 0 /\ Kempt
  BY <1>1, <1>2, <1>4 DEF NothingYet
<1>6. state \in Memory!States /\ state # Nobody
  BY <1>4, KeptState, Apart
<1> HIDE DEF state
<1>7. \/ persister' = persister /\ Norm(state) = Norm(Latest(persister))
      \/ persister' = [persister EXCEPT !.pending = state, !.timer = TRUE]
  BY <1>2, <1>3, SameIsNorm, Zenon DEF Memory!Pushed, Latest
<1>8. /\ persister' \in Persister
      /\ persister'.initial = persister.initial /\ persister'.atStartup = persister.atStartup
      /\ persister'.written = persister.written
      /\ ~persister'.timer => persister'.pending = Nobody
      /\ Norm(state) = Norm(Latest(persister'))
  <2>1. CASE persister' = persister /\ Norm(state) = Norm(Latest(persister))
    BY <1>4, <1>5, <2>1 DEF Kempt
  <2>2. CASE persister' = [persister EXCEPT !.pending = state, !.timer = TRUE]
    <3>1. persister' \in Persister /\ persister'.timer = TRUE /\ persister'.pending = state
          /\ persister'.initial = persister.initial /\ persister'.atStartup = persister.atStartup
          /\ persister'.written = persister.written
      BY <1>4, <1>6, <2>2 DEF Persister
    <3>2. Latest(persister') = state
      BY <1>6, <3>1, LatestIs
    <3> QED
      BY <3>1, <3>2
  <2> QED
    BY <1>7, <2>1, <2>2
<1>9. Memorable(a, persister') = state
  BY <1>8, KeptStarts DEF state
<1>10. MemoryTypes'
  BY <1>1, <1>2, <1>8 DEF MemoryTypes
<1>11. NothingYet'
  BY <1>2, <1>5 DEF NothingYet
<1>12. Kempt'
  <2>1. Memory!Parsed(saved)' = Memory!Parsed(saved)
    BY <1>2
  <2>2. Norm(Memorable(app', persister')) = Norm(Latest(persister'))
    BY <1>2, <1>8, <1>9
  <2> QED
    BY <1>2, <1>5, <1>8, <2>1, <2>2 DEF Kempt
<1> QED
  BY <1>10, <1>11, <1>12 DEF MemoryInv

LEMMA ChoosingKeeps ==
  ASSUME MemoryInv, Memory!Measure \/ Memory!Toggle \/ Memory!Widen \/ Memory!Zoom \/ Memory!Pick
  PROVE  MemoryInv'
<1>1. /\ app \in Window /\ runs \in Nat /\ NothingYet /\ (runs > 0 => Kempt)
      /\ app.zoom \in 0..MaxZoom
  BY DEF MemoryInv, MemoryTypes, Window
<1>2. ASSUME NEW a \in Window, Memory!Changed(a), a.provider = app.provider, chose' = chose
      PROVE  MemoryInv'
  <2>1. Kempt
    BY <1>1, <1>2 DEF Memory!Changed, NothingYet
  <2> QED
    BY <1>2, <2>1, ChangeKeeps DEF Kempt
<1>3. CASE Memory!Measure
  <2>1. PICK w \in Memory!Windows : Memory!Changed([app EXCEPT !.window = w]) /\ chose' = chose
    BY <1>3 DEF Memory!Measure
  <2>2. [app EXCEPT !.window = w] \in Window /\ [app EXCEPT !.window = w].provider = app.provider
    BY <1>1 DEF Window
  <2> QED
    BY <1>2, <2>1, <2>2
<1>4. CASE Memory!Toggle
  <2>1. Memory!Changed([app EXCEPT !.tabs = ~app.tabs]) /\ chose' = chose
    BY <1>4 DEF Memory!Toggle
  <2>2. (~app.tabs) \in BOOLEAN
    BY Zenon
  <2>3. [app EXCEPT !.tabs = ~app.tabs] \in Window /\ [app EXCEPT !.tabs = ~app.tabs].provider = app.provider
    BY <1>1, <2>2, Zenon DEF Window
  <2> QED
    BY <1>2, <2>1, <2>3
<1>5. CASE Memory!Widen
  <2>1. PICK w \in Memory!Widths : Memory!Changed([app EXCEPT !.width = w]) /\ chose' = chose
    BY <1>5 DEF Memory!Widen
  <2>2. [app EXCEPT !.width = w] \in Window /\ [app EXCEPT !.width = w].provider = app.provider
    BY <1>1 DEF Window
  <2> QED
    BY <1>2, <2>1, <2>2
<1>6. CASE Memory!Zoom
  <2>1. PICK z \in {app.zoom + 1, IF app.zoom = 0 THEN 0 ELSE app.zoom - 1, Level} :
          Memory!Changed([app EXCEPT !.zoom = Memory!ClampFontZoom(z)]) /\ chose' = chose
    BY <1>6 DEF Memory!Zoom
  <2>2. z \in Nat
    BY <1>1, <2>1, ClientStateAssumption
  <2>3. Memory!ClampFontZoom(z) \in 0..MaxZoom
    BY <2>2, ZoomClamped
  <2>4. /\ [app EXCEPT !.zoom = Memory!ClampFontZoom(z)] \in Window
        /\ [app EXCEPT !.zoom = Memory!ClampFontZoom(z)].provider = app.provider
    BY <1>1, <2>3 DEF Window
  <2> QED
    BY <1>2, <2>1, <2>4
<1>7. CASE Memory!Pick
  <2>1. PICK provider \in Providers :
          /\ Memory!Changed([app EXCEPT !.provider = provider])
          /\ chose' = IF persister.initial.provider = Nobody /\ provider = persister.atStartup
                      THEN Nobody ELSE provider
    BY <1>7 DEF Memory!Pick
  <2>2. [app EXCEPT !.provider = provider] \in Window /\ [app EXCEPT !.provider = provider].provider = provider
    BY <1>1 DEF Window
  <2>3. chose' = Memory!RememberedAiProvider(provider, persister.atStartup, persister.initial.provider)
    BY <2>1 DEF Memory!RememberedAiProvider
  <2> QED
    BY <2>1, <2>2, <2>3, ChangeKeeps
<1> QED
  BY <1>3, <1>4, <1>5, <1>6, <1>7

(* What was pending is written, was the same as what is, or is lost *)
LEMMA CommitKeeps ==
  ASSUME MemoryInv, Memory!Committed, running, running' \in {running, FALSE},
         UNCHANGED <<config, app, changed, chose, runs>>
  PROVE  MemoryInv'
<1> DEFINE p == persister
           idle == [p EXCEPT !.pending = Nobody, !.timer = FALSE]
<1>1. MemoryTypes /\ runs \in Nat /\ runs > 0 /\ Kempt
  BY DEF MemoryInv, NothingYet, MemoryTypes
<1>2. p \in Persister /\ running' \in BOOLEAN /\ lost \in BOOLEAN /\ Memory!Parsed(saved) \in Memory!States
  BY <1>1 DEF MemoryTypes
<1>3. /\ idle \in Persister /\ idle.initial = p.initial /\ idle.atStartup = p.atStartup
      /\ idle.written = p.written /\ idle.pending = Nobody /\ idle.timer = FALSE
  BY <1>2 DEF Persister
<1>4. \/ /\ p.pending = Nobody \/ Norm(Latest(p)) = Norm(p.written)
         /\ persister' = idle /\ saved' = saved /\ lost' = lost
      \/ /\ p.pending # Nobody
         /\ persister' = [idle EXCEPT !.written = p.pending]
         /\ saved' = Memory!Serialized(p.pending) /\ lost' = FALSE
      \/ p.pending # Nobody /\ persister' = idle /\ saved' = saved /\ lost' = TRUE
  BY SameIsNorm, Zenon DEF Memory!Committed, Latest
<1>5. p.pending # Nobody => p.timer
  BY <1>1 DEF Kempt
<1> HIDE DEF idle
<1>6. ASSUME persister' \in Persister, persister'.initial = p.initial, persister'.atStartup = p.atStartup,
             persister'.pending = Nobody, persister'.timer = FALSE,
             lost' \in BOOLEAN, Memory!Parsed(saved)' \in Memory!States,
             ~lost' => Norm(Memory!Parsed(saved)') = Norm(persister'.written),
             ~changed => persister'.written = p.written,
             changed /\ ~lost' => Norm(Memorable(app, p)) = Norm(persister'.written)
      PROVE  MemoryInv'
  <2>1. Latest(persister') = persister'.written /\ Memorable(app', persister') = Memorable(app, p)
    BY <1>6, LatestIs, KeptStarts
  <2>2. MemoryTypes'
    BY <1>1, <1>2, <1>6 DEF MemoryTypes
  <2>3. Kempt'
    BY <1>1, <1>6, <2>1 DEF Kempt
  <2>4. NothingYet'
    BY <1>1 DEF NothingYet
  <2> QED
    BY <2>2, <2>3, <2>4 DEF MemoryInv
<1>7. CASE /\ p.pending = Nobody \/ Norm(Latest(p)) = Norm(p.written)
           /\ persister' = idle /\ saved' = saved /\ lost' = lost
  <2>1. Norm(Latest(p)) = Norm(p.written)
    BY <1>2, <1>7, LatestIs
  <2>2. changed /\ ~lost => Norm(Memorable(app, p)) = Norm(p.written)
    BY <1>1, <2>1, Zenon DEF Kempt
  <2>3. Memory!Parsed(saved)' = Memory!Parsed(saved)
    BY <1>7
  <2>4. ~lost => Norm(Memory!Parsed(saved)) = Norm(p.written)
    BY <1>1 DEF Kempt
  <2> QED
    BY <1>2, <1>3, <1>6, <1>7, <2>2, <2>3, <2>4
<1>8. CASE /\ p.pending # Nobody
           /\ persister' = [idle EXCEPT !.written = p.pending]
           /\ saved' = Memory!Serialized(p.pending) /\ lost' = FALSE
  <2>1. p.pending \in Memory!States /\ Latest(p) = p.pending /\ p.timer
    BY <1>2, <1>5, <1>8, LatestIs DEF Persister
  <2>2. Memory!Parsed(saved)' \in Memory!States /\ Norm(Memory!Parsed(saved)') = Norm(p.pending)
    <3>1. Memory!Parsed(saved)' = Memory!Parsed(Memory!Serialized(p.pending))
      BY <1>8
    <3> QED
      BY <2>1, <3>1, ReadBack
  <2>3. changed /\ Norm(Memorable(app, p)) = Norm(p.pending)
    BY <1>1, <2>1, Zenon DEF Kempt
  <2>4. /\ persister' \in Persister /\ persister'.initial = p.initial /\ persister'.atStartup = p.atStartup
        /\ persister'.written = p.pending /\ persister'.pending = Nobody /\ persister'.timer = FALSE
    BY <1>3, <1>8, <2>1 DEF Persister
  <2> QED
    BY <1>6, <1>8, <2>2, <2>3, <2>4
<1>9. CASE p.pending # Nobody /\ persister' = idle /\ saved' = saved /\ lost' = TRUE
  <2>1. Memory!Parsed(saved)' = Memory!Parsed(saved)
    BY <1>9
  <2> QED
    BY <1>2, <1>3, <1>6, <1>9, <2>1
<1> QED
  BY <1>4, <1>7, <1>8, <1>9

LEMMA MemoryKeeps == MemoryInv /\ [Memory!Next]_memoryVars => MemoryInv'
<1> SUFFICES ASSUME MemoryInv, [Memory!Next]_memoryVars PROVE MemoryInv'
  OBVIOUS
<1>1. MemoryTypes /\ NothingYet /\ (runs > 0 => Kempt)
  BY DEF MemoryInv
<1>2. CASE Memory!Start
  BY <1>2, StartKeeps
<1>3. CASE Memory!Measure \/ Memory!Toggle \/ Memory!Widen \/ Memory!Zoom \/ Memory!Pick
  BY <1>3, ChoosingKeeps
<1>4. CASE Memory!Commit \/ Memory!Exit
  BY <1>4, CommitKeeps DEF Memory!Commit, Memory!Exit
<1>5. CASE Memory!Kill
  <2>1. /\ running /\ running' = FALSE /\ lost' = (lost \/ persister.timer)
        /\ saved' = saved /\ config' = config /\ app' = app /\ persister' = persister
        /\ changed' = changed /\ chose' = chose /\ runs' = runs
    BY <1>5 DEF Memory!Kill
  <2>2. lost' \in BOOLEAN /\ (~lost' => ~lost /\ ~persister.timer)
    BY <2>1, Zenon
  <2>3. runs > 0 /\ Kempt
    BY <1>1, <2>1 DEF NothingYet, MemoryTypes
  <2>4. Memory!Parsed(saved)' = Memory!Parsed(saved)
    BY <2>1
  <2>5. MemoryTypes'
    BY <1>1, <2>1, <2>2, <2>4 DEF MemoryTypes
  <2>6. Kempt'
    BY <2>1, <2>2, <2>3, <2>4 DEF Kempt
  <2>7. NothingYet'
    BY <2>1, <2>3 DEF NothingYet
  <2> QED
    BY <2>5, <2>6, <2>7 DEF MemoryInv
<1>6. CASE Memory!EditConfig
  <2>1. /\ config' \in [tabs : BOOLEAN, provider : Providers]
        /\ UNCHANGED <<saved, app, persister, running, changed, chose, lost, runs>>
    BY <1>6 DEF Memory!EditConfig
  <2> QED
    BY <1>1, <2>1 DEF MemoryInv, MemoryTypes, NothingYet, Kempt
<1>7. CASE UNCHANGED memoryVars
  BY <1>1, <1>7 DEF MemoryInv, MemoryTypes, NothingYet, Kempt, memoryVars
<1> QED
  BY <1>2, <1>3, <1>4, <1>5, <1>6, <1>7 DEF Memory!Next

(* A window that is idle, or was closed in order, finds at its next start  *)
(* what the user left, whatever the file held at first and however writes  *)
(* fail, the window is killed and config.toml is edited; a provider only   *)
(* if the user picked one (createClientStatePersister, parseClientState,   *)
(* rememberedAiProvider, persistClientState)                               *)
THEOREM NextRunRemembers == MachinesSpec => []Remembered
<1>1. MachinesInit => MemoryInv
  BY MemoryStarts DEF MachinesInit
<1>2. MemoryInv /\ [MachinesNext]_machinesVars => MemoryInv'
  <2>1. [MachinesNext]_machinesVars => [Memory!Next]_memoryVars
    BY DEF MachinesNext, machinesVars, memoryVars, ControlStep, ScrollStep, PipeStep, HostStep, ConnStep, PointerStep, MemoryStep
  <2> QED
    BY <2>1, MemoryKeeps
<1>3. MemoryInv => Remembered
  <2> SUFFICES ASSUME MemoryInv, runs > 0, ~lost, ~(running /\ persister.timer)
               PROVE  /\ changed => Memory!Parsed(saved).tabs = app.tabs /\ Memory!Parsed(saved).width = app.width
                      /\ Memory!Or(Memory!Parsed(saved).zoom, Level) = app.zoom
                      /\ app.window # Memory!Unmeasured => Memory!Parsed(saved).window = app.window
                      /\ Memory!Parsed(saved).provider = chose
    BY Zenon DEF Remembered, Memory!Remembered
  <2>1. MemoryTypes /\ Kempt
    BY DEF MemoryInv
  <2>2. ~persister.timer /\ changed \in BOOLEAN
    BY <2>1 DEF Kempt, MemoryTypes
  <2> QED
    BY <2>1, <2>2, AtRestWhole
<1> QED
  BY <1>1, <1>2, <1>3, PTL DEF MachinesSpec
=============================================================================
