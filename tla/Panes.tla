------------------------------- MODULE Panes --------------------------------
(***************************************************************************)
(* Commands to terminal elements: copy, paste and Clear Scrollback are a   *)
(* prop with a sequence number (native/bridge.ts), which a Pane passes on  *)
(* (SurfaceHost.tsx) and its <terminal-grid> runs at its next frame        *)
(* (props.rs, element.rs).  The Panes of one Tab are mounted.              *)
(*                                                                         *)
(* React keeps a component that is at the same place of the tree: a Pane   *)
(* has no key, so it is kept across Tabs of one form.  A <terminal-grid>   *)
(* has its Surface as key.                                                 *)
(***************************************************************************)
EXTENDS Naturals, Sequences, SequencesExt

CONSTANTS
  Tabs,        (* the Tabs, each the sequence of the Surfaces of its Panes  *)
  MaxCommands, (* bound: commands                                           *)
  MaxSwitches  (* bound: changes of the active Tab                          *)

VARIABLES
  shown,    (* the active Tab, <<>> without one                             *)
  bus,      (* the Surfaces commands were sent to: the last is current      *)
  mounted,  (* the Panes by place, with their mountSeqRef                   *)
  grids,    (* the elements by Surface                                      *)
  ran,      (* the commands elements ran                                    *)
  switches

panesVars == <<shown, bus, mounted, grids, ran, switches>>

Surfaces == UNION {ToSet(tab) : tab \in Tabs}
Seqs == 0..MaxCommands

(* A leaf and the sides of a Split are different places *)
Places(tab) == {<<Len(tab), i>> : i \in DOMAIN tab}
PlaceOf(tab, s) == CHOOSE p \in Places(tab) : tab[p[2]] = s

(* useRef(commandBus.getSnapshot()?.seq ?? 0) *)
Mounted(tab) == [p \in Places(tab) |-> IF p \in DOMAIN mounted THEN mounted[p] ELSE Len(bus)]

(* The command prop of a grid: the current command, if it is for it *)
Forwarded(commands, panes, tab, s) ==
  commands # <<>> /\ Last(commands) = s /\ Len(commands) > panes[PlaceOf(tab, s)]

Fresh == [seq |-> 0, waiting |-> <<>>, since |-> Len(bus)]

(* GridProps::set: a command the element has seen is ignored *)
Unseen(grid, seq) == seq > grid.seq

(* set_prop: the command waits for the next frame *)
SetCommand(grid, seq) ==
  IF Unseen(grid, seq) THEN [grid EXCEPT !.seq = seq, !.waiting = Append(@, seq)] ELSE grid

Rendered(commands, panes, tab) ==
  LET kept(s) == s \in DOMAIN grids /\ shown # <<>> /\ s \in ToSet(shown) /\ PlaceOf(tab, s) = PlaceOf(shown, s)
      before(s) == IF kept(s) THEN grids[s] ELSE Fresh
  IN [s \in ToSet(tab) |-> IF Forwarded(commands, panes, tab, s) THEN SetCommand(before(s), Len(commands)) ELSE before(s)]

Init ==
  /\ shown = <<>> /\ bus = <<>> /\ mounted = <<>> /\ grids = <<>>
  /\ ran = <<>> /\ switches = 0

(* The user gives a command to a Surface on the screen *)
Send == \E s \in DOMAIN grids :
  /\ Len(bus) < MaxCommands
  /\ bus' = Append(bus, s)
  /\ grids' = Rendered(bus', mounted, shown)
  /\ UNCHANGED <<shown, mounted, ran, switches>>

(* Another Tab, or none *)
Switch == \E tab \in Tabs \cup {<<>>} :
  /\ switches < MaxSwitches /\ switches' = switches + 1
  /\ tab # shown /\ shown' = tab
  /\ mounted' = Mounted(tab)
  /\ grids' = Rendered(bus, mounted', tab)
  /\ UNCHANGED <<bus, ran>>

(* run_commands, at a frame *)
Frame == \E s \in DOMAIN grids :
  /\ grids[s].waiting # <<>>
  /\ ran' = ran \o grids[s].waiting
  /\ grids' = [grids EXCEPT ![s].waiting = <<>>]
  /\ UNCHANGED <<shown, bus, mounted, switches>>

Next == Send \/ Switch \/ Frame
-----------------------------------------------------------------------------
PanesTypes ==
  /\ shown \in Tabs \cup {<<>>} /\ bus \in Seq(Surfaces) /\ ran \in Seq(Seqs)
  /\ DOMAIN mounted = Places(shown) /\ \A p \in DOMAIN mounted : mounted[p] \in Seqs
  /\ DOMAIN grids = ToSet(shown)
  /\ \A s \in DOMAIN grids : grids[s].seq \in Seqs /\ grids[s].waiting \in Seq(Seqs)

(* A command reaches the element it was meant for, as long as that is there: *)
(* it waits in it or was run, also when others followed before the frame    *)
CommandsReach ==
  \A seq \in DOMAIN bus :
    bus[seq] \in DOMAIN grids /\ grids[bus[seq]].since < seq
      => seq \in ToSet(ran) \cup ToSet(grids[bus[seq]].waiting)

(* A command is run once: "a one-shot stays one-shot across remounts"       *)
RunOnce == IsInjective(ran)
=============================================================================
