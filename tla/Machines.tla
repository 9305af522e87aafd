------------------------------ MODULE Machines ------------------------------
(***************************************************************************)
(* Machines that share no state, side by side: `part` says which of them a *)
(* behaviour is about, the others stand still.  These are the ones module  *)
(* MachinesProofs proves something about; MCMachines adds the rest.        *)
(***************************************************************************)
EXTENDS Naturals, Sequences, FiniteSets

CONSTANTS
  Parts,                                             (* the machines to run  *)
  Attempts, Requests, Failures, Clicks, Quits,             (* ControlClient  *)
  Heights, MaxHistory, Cap, Page, Outputs, Moves, Breaks, WireCap, (* Scrollback *)
  Room, Depth, Unasked, Queries, MaxTyped,                       (* PtyPipe  *)
  MaxHosted, Tempers,                                               (* Host  *)
  Items, MaxItems, Rare, MaxFrame, MaxLine, Compact,          (* Connection  *)
  Width, Height, MaxCoord, MaxLines, MaxEvents,                  (* Pointer  *)
  Nobody, Damaged, Providers, MaxZoom, Level, MaxChoices, MaxRuns, MaxTroubles (* ClientState *)

ASSUME MachinesAssumption ==
  /\ MaxHosted \in Nat
  /\ MaxHistory \in Nat /\ Cap \in Nat /\ Page \in Nat
  /\ Heights \subseteq Nat \ {0} /\ Heights # {}
  /\ MaxEvents \in Nat

VARIABLES
  part,
  client, link, spare,
  vt, owed, built, down, up, mirror, grid, spent,
  tty, shell, holder, reader, chunks, feed, hint, writer, typed,
  child, temper, tail, registry, fresh, slot, pump, upcalls, known, parting, phase, doomed,
  peer, wire, conn, decoder, found, host, answers,
  program, above, element, button, sent,
  saved, config, app, persister, running, changed, chose, lost, choices, runs, troubles

controlVars == <<client, link, spare>>
scrollVars == <<vt, owed, built, down, up, mirror, grid, spent>>
pipeVars == <<tty, shell, holder, reader, chunks, feed, hint, writer, typed>>
hostVars == <<child, temper, tail, registry, fresh, slot, pump, upcalls, known, parting, phase, doomed>>
connVars == <<peer, wire, conn, decoder, found, host, answers>>
pointerVars == <<program, above, element, button, sent>>
memoryVars == <<saved, config, app, persister, running, changed, chose, lost, choices, runs, troubles>>
machinesVars == <<part, controlVars, scrollVars, pipeVars, hostVars, connVars, pointerVars, memoryVars>>

(* What programs ask of the mouse: an editor, a pager, a shell *)
ModeSets == {[protocol |-> "off", sgr |-> FALSE, alt |-> TRUE], [protocol |-> "click", sgr |-> TRUE, alt |-> FALSE],
             [protocol |-> "drag", sgr |-> FALSE, alt |-> FALSE]}

Control == INSTANCE ControlClient
Scroll == INSTANCE Scrollback
Pipe == INSTANCE PtyPipe WITH Typed <- MaxTyped
Hosting == INSTANCE Host
Conn == INSTANCE Connection
Pointers == INSTANCE Pointer WITH Events <- MaxEvents
Memory == INSTANCE ClientState WITH None <- Nobody

(* A frame holds what a client sends, a line a short one *)
ASSUME ConnectionAssumption ==
  /\ Items \subseteq DOMAIN Conn!Bytes
  /\ MaxFrame \in Nat /\ MaxFrame >= 3 /\ MaxLine \in Nat /\ MaxLine >= 2

(* Level is one of the zooms there are; an absent or damaged field is none *)
(* that can be read                                                        *)
ASSUME ClientStateAssumption ==
  /\ MaxZoom \in Nat /\ Level \in 0..MaxZoom /\ Providers # {} /\ Damaged # Nobody
  /\ \A value \in {Nobody, Damaged} :
       /\ value \notin Nat /\ value \notin BOOLEAN /\ value \notin Providers
       /\ value \notin Memory!Places /\ value \notin Memory!States

(* A machine that stands still does so in one of its initial states *)
MachinesInit ==
  /\ part \in Parts
  /\ Control!Init /\ Scroll!Init /\ Pipe!Init /\ Hosting!Init /\ Conn!Init
  /\ Pointers!Init /\ Memory!Init

ControlStep ==
  /\ part = "control" /\ Control!Next
  /\ UNCHANGED <<part, scrollVars, pipeVars, hostVars, connVars, pointerVars, memoryVars>>
ScrollStep ==
  /\ part = "scroll" /\ Scroll!Next
  /\ UNCHANGED <<part, controlVars, pipeVars, hostVars, connVars, pointerVars, memoryVars>>
PipeStep ==
  /\ part = "pipe" /\ Pipe!Next
  /\ UNCHANGED <<part, controlVars, scrollVars, hostVars, connVars, pointerVars, memoryVars>>
HostStep ==
  /\ part = "host" /\ Hosting!Next
  /\ UNCHANGED <<part, controlVars, scrollVars, pipeVars, connVars, pointerVars, memoryVars>>
ConnStep ==
  /\ part = "conn" /\ Conn!Next
  /\ UNCHANGED <<part, controlVars, scrollVars, pipeVars, hostVars, pointerVars, memoryVars>>
PointerStep ==
  /\ part = "pointer" /\ Pointers!Next
  /\ UNCHANGED <<part, controlVars, scrollVars, pipeVars, hostVars, connVars, memoryVars>>
MemoryStep ==
  /\ part = "memory" /\ Memory!Next
  /\ UNCHANGED <<part, controlVars, scrollVars, pipeVars, hostVars, connVars, pointerVars>>

MachinesNext ==
  ControlStep \/ ScrollStep \/ PipeStep \/ HostStep \/ ConnStep \/ PointerStep \/ MemoryStep

MachinesSpec == MachinesInit /\ [][MachinesNext]_machinesVars
-----------------------------------------------------------------------------
(* A request is written to a socket at most once, however connections      *)
(* overlap: queued requests are flushed by one connection only             *)
(* (flushWaiters)                                                          *)
AtMostOnce == part = "control" => Control!AtMostOnce

(* A Replica caches one run of lines between the trim point and the screen *)
(* (Replica::apply_delta, apply_history_page)                              *)
OneRun == part = "scroll" => Scroll!OneRun

(* When nothing is on its way a Replica has the rows and the line numbers  *)
(* of the engine (apply_delta, apply_history_page)                         *)
Settled == part = "scroll" => Scroll!Settled

(* A Surface that is reaped because its terminal closed has its last words *)
(* on the screen (feed_loop)                                               *)
LastWords == part = "pipe" => Pipe!LastWords

(* No child of an open Surface outlives the daemon                         *)
(* (SurfaceSupervisor::shutdown)                                           *)
NoneSurvives == part = "host" => Hosting!NoneSurvives

(* Every message of a connection is answered once and in order, however    *)
(* the stream is cut into reads, and an attachment is what the last Attach *)
(* or Detach made it (FrameDecoder, next_incoming, LineReader, handle)     *)
Answered == part = "conn" => Conn!Answered /\ Conn!Attachment

(* A program that is told of a button's press is told of its release, and  *)
(* between drags the server knows what is selected, whatever reports were  *)
(* held back (on_mouse_up_out, ViewStateDebouncer::should_send)            *)
PointerReported == part = "pointer" => Pointers!WellReported /\ Pointers!SelectionKnown

(* The next run of a window begins as this one ended                       *)
(* (createClientStatePersister, rememberedAiProvider)                      *)
Remembered == part = "memory" => Memory!Remembered
=============================================================================
