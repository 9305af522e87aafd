----------------------------- MODULE Interface ------------------------------
(***************************************************************************)
(* What the user has open, chosen or in hand in a window (state/           *)
(* reducers.ts, ui/TabStrip.tsx, commands/defaults.ts) while the document  *)
(* under it changes.  Events and results of requests come over one         *)
(* connection but not in one order: a result may arrive before the         *)
(* document it is about, or long after.                                    *)
(*                                                                         *)
(* One Session; a request is handled when it is made, what it brings       *)
(* arrives later.  Which Tab is active and which programs run is not told  *)
(* apart.  A name being typed and a Split's preview are, like the Menu, a  *)
(* thing of one Tab.                                                       *)
(***************************************************************************)
EXTENDS Integers, Sequences, SequencesExt, FiniteSetsExt

CONSTANTS
  MaxTabs, MaxPanes,  (* bounds: ids given to Tabs and Panes                *)
  MaxEdits,           (* bound: changes by other clients                    *)
  MaxActs             (* bound: what the user does                          *)

VARIABLES
  server,   (* the document: revision, Tabs in order, their Panes, next ids *)
  events,   (* ev.workspace on its way                                      *)
  results,  (* results on their way: what the command does with them        *)
  store,    (* the document of the projection                               *)
  marks,    (* UiState                                                      *)
  held,     (* the Tab row whose press became a drag                        *)
  wish,     (* of each Tab: the Pane the user last went to, and its revision*)
  edits, acts

interfaceVars == <<server, events, results, store, marks, held, wish, edits, acts>>

TabIds == 1..MaxTabs
PaneIds == 1..MaxPanes
Nowhere == [pane |-> 0, rev |-> 0]
NoDrag == [tab |-> 0, from |-> 0, to |-> 0]

(* A position of TypeScript and Rust, -1 for none *)
Index(order, t) == SelectInSeq(order, LAMBDA x : x = t) - 1
Clamped(n, low, high) == Min({high, Max({low, n})})

-----------------------------------------------------------------------------
(* The server's side (workspace/model.rs) *)

Shows(d, t) == t \in ToSet(d.order)

CanCreate(d) == d.tab <= MaxTabs /\ d.pane <= MaxPanes
WithTab(d) == [d EXCEPT !.order = Append(@, d.tab), !.panes[d.tab] = <<d.pane>>, !.tab = @ + 1, !.pane = @ + 1]

CanSplit(d, t, p) == p \in ToSet(d.panes[t]) /\ d.pane <= MaxPanes
WithSplit(d, t, p) ==
  [d EXCEPT !.panes[t] = InsertAt(@, Index(@, p) + 2, d.pane), !.pane = @ + 1]

WithoutTab(d, t) == [d EXCEPT !.order = Remove(@, t), !.panes[t] = <<>>]
WithoutPane(d, t, p) == IF d.panes[t] = <<p>> THEN WithoutTab(d, t) ELSE [d EXCEPT !.panes[t] = Remove(@, p)]

(* reorder_tab *)
Moved(order, t, i) == InsertAt(Remove(order, t), Min({i, Len(order) - 1}) + 1, t)

(* A request of which the server makes d, told to everyone; a refused one is *)
(* a toast at most                                                           *)
Publish(d) == server' = [d EXCEPT !.rev = @ + 1] /\ events' = Append(events, server')
Refused == UNCHANGED <<server, events>>

-----------------------------------------------------------------------------
(* The projection (state/reducers.ts) *)

(* pruneUi *)
Pruned(ui, d) ==
  [menu |-> IF Shows(d, ui.menu) THEN ui.menu ELSE 0,
   confirming |-> IF Shows(d, ui.confirming) THEN ui.confirming ELSE 0,
   preview |-> IF Shows(d, ui.preview) THEN ui.preview ELSE 0,
   drag |-> IF Shows(d, ui.drag.tab) THEN ui.drag ELSE NoDrag,
   focus |-> [t \in TabIds |-> IF ui.focus[t] \in ToSet(d.panes[t]) THEN ui.focus[t] ELSE 0]]

(* What the user went to and is not there any more, or was overtaken by an   *)
(* older document, is not expected (README)                                  *)
Granted(d) ==
  [t \in TabIds |-> IF d.rev >= wish[t].rev /\ wish[t].pane \in ToSet(d.panes[t]) THEN wish[t] ELSE Nowhere]

(* projectWorkspace; a row that is gone takes its press with it *)
Project(d) ==
  /\ store' = d /\ marks' = Pruned(marks, d)
  /\ wish' = Granted(d)
  /\ held' = IF Shows(d, held) THEN held ELSE 0

(* applyServerEvent: ev.workspace *)
OnEvent ==
  /\ events # <<>> /\ events' = Tail(events)
  /\ IF Head(events).rev < store.rev THEN UNCHANGED <<store, marks, wish, held>> ELSE Project(Head(events))
  /\ UNCHANGED <<server, results, edits, acts>>

(* After a lost connection the whole document comes, and no result *)
OnSnapshot ==
  /\ edits < MaxEdits /\ edits' = edits + 1
  /\ events' = <<>> /\ results' = <<>>
  /\ Project(server)
  /\ UNCHANGED <<server, acts>>

(* Another client's request *)
Edit ==
  /\ edits < MaxEdits /\ edits' = edits + 1
  /\ \/ CanCreate(server) /\ Publish(WithTab(server))
     \/ \E t \in ToSet(server.order) :
          \/ \E p \in ToSet(server.panes[t]) :
               \/ CanSplit(server, t, p) /\ Publish(WithSplit(server, t, p))
               \/ Publish(WithoutPane(server, t, p))
          \/ Publish(WithoutTab(server, t))
          \/ \E i \in 0..Len(server.order) - 1 : Publish([server EXCEPT !.order = Moved(@, t, i)])
  /\ UNCHANGED <<results, store, marks, held, wish, acts>>

-----------------------------------------------------------------------------
(* Commands (commands/defaults.ts) *)

(* focusedSurfaceOf *)
Focused(t) == IF marks.focus[t] \in ToSet(store.panes[t]) THEN marks.focus[t] ELSE Head(store.panes[t])

(* Mutant: only a Pane that is shown can be focused *)
Focus_Shown(ui, t, p) == IF p \in ToSet(store.panes[t]) THEN [ui EXCEPT !.focus[t] = p] ELSE ui

(* pane.focus: membership is not checked *)
Focus(ui, t, p) == IF Shows(store, t) THEN [ui EXCEPT !.focus[t] = p] ELSE ui

GoTo(t, p, rev) == /\ marks' = Focus(marks, t, p)
                   /\ wish' = IF Shows(store, t) THEN [wish EXCEPT ![t] = [pane |-> p, rev |-> rev]] ELSE wish

(* closeTab: a busy Tab is closed at the second time *)
CloseTab(t) == \E busy \in BOOLEAN :
  /\ UNCHANGED wish
  /\ IF busy /\ marks.confirming # t
     THEN marks' = [marks EXCEPT !.confirming = t] /\ Refused
     ELSE /\ marks' = [marks EXCEPT !.confirming = 0]
          /\ IF Shows(server, t) THEN Publish(WithoutTab(server, t)) ELSE Refused

(* closePane: the sibling's first Pane gets the focus before the Pane goes *)
ClosePane(t, p) ==
  IF Len(store.panes[t]) <= 1
  THEN CloseTab(t)
  ELSE /\ \E sibling \in ToSet(store.panes[t]) \ {p} : GoTo(t, sibling, store.rev)
       /\ IF p \in ToSet(server.panes[t]) THEN Publish(WithoutPane(server, t, p)) ELSE Refused

(* splitPane: the result, behind those on their way, focuses the new Pane *)
SplitPane(t, waiting) ==
  /\ IF CanSplit(server, t, Focused(t))
     THEN /\ Publish(WithSplit(server, t, Focused(t)))
          /\ results' = Append(waiting, [does |-> "focus", tab |-> t, pane |-> server.pane, rev |-> server.rev + 1])
     ELSE Refused /\ results' = waiting
  /\ UNCHANGED <<marks, wish>>

(* focusRelativePane, relativeLeaf *)
FocusRelative(t, step) ==
  LET panes == store.panes[t]
      i == (Index(panes, Focused(t)) + step) % Len(panes)
  IN GoTo(t, panes[i + 1], store.rev) /\ Refused

(* A command for a Tab *)
Run(command, t, waiting) ==
  \/ command = "split" /\ SplitPane(t, waiting)
  \/ command = "close pane" /\ ClosePane(t, Focused(t)) /\ results' = waiting
  \/ command = "close tab" /\ CloseTab(t) /\ results' = waiting

Commands == {"split", "close pane", "close tab"}

-----------------------------------------------------------------------------
(* The user *)

Acting == acts < MaxActs /\ acts' = acts + 1 /\ UNCHANGED <<store, edits>>

Keyboard == \E t \in ToSet(store.order) :
  /\ Acting /\ UNCHANGED held
  /\ \/ \E command \in Commands : Run(command, t, results)
     \/ /\ Len(store.panes[t]) > 1 /\ \E step \in {-1, 1} : FocusRelative(t, step)
        /\ UNCHANGED results

(* A press on a Pane; on one whose program ended it closes it (dismiss) *)
Press == \E t \in ToSet(store.order) : \E p \in ToSet(store.panes[t]) :
  /\ Acting /\ UNCHANGED <<results, held>>
  /\ \/ GoTo(t, p, store.rev) /\ Refused
     \/ ClosePane(t, p)

(* The Menu of a row, an edge of a Split: menu.open, menu.close, ratio.preview, ratio.clear *)
Open == \E t \in ToSet(store.order) \cup {0} :
  /\ Acting /\ marks' \in {[marks EXCEPT !.menu = t], [marks EXCEPT !.preview = t]} /\ marks' # marks
  /\ UNCHANGED <<server, events, results, wish, held>>

(* activate (Menu.tsx): the command is run when its Tab has been made active,*)
(* which may be at once                                                      *)
Choose == \E command \in Commands :
  /\ Acting
  /\ marks.menu # 0 /\ marks' = [marks EXCEPT !.menu = 0]
  /\ results' = Append(results, [does |-> command, tab |-> marks.menu])
  /\ UNCHANGED <<server, events, wish, held>>

(* dropIndex *)
DropIndex(from, slots, count) == Clamped(from + slots, 0, count - 1)

(* previewOrder, moveItem *)
PreviewOrder(order, drag) ==
  IF Index(order, drag.tab) = -1 THEN order
  ELSE LET to == Clamped(drag.to, 0, Len(order) - 1)
       IN InsertAt(RemoveAt(order, Index(order, drag.tab) + 1), to + 1, drag.tab)

(* onDragStart, onDrag: the press became a drag *)
DragBegin == \E t \in ToSet(store.order) :
  /\ Acting /\ held = 0 /\ held' = t
  /\ marks' = [marks EXCEPT !.drag = [tab |-> t, from |-> Index(store.order, t), to |-> Index(store.order, t)]]
  /\ UNCHANGED <<server, events, results, wish>>

DragMove == \E slots \in -MaxTabs..MaxTabs :
  /\ held # 0 /\ marks.drag.tab = held
  /\ marks' = [marks EXCEPT !.drag.to = DropIndex(marks.drag.from, slots, Len(store.order))]
  /\ marks' # marks
  /\ UNCHANGED <<server, events, results, store, held, wish, edits, acts>>

(* onDragEnd *)
Commits(drag) == drag.tab = held /\ drag.to # drag.from

DragEnd ==
  /\ held # 0 /\ held' = 0
  /\ marks' = [marks EXCEPT !.drag = NoDrag]
  /\ IF Commits(marks.drag) /\ Shows(server, held)
     THEN Publish([server EXCEPT !.order = Moved(@, held, marks.drag.to)])
     ELSE Refused
  /\ UNCHANGED <<results, store, wish, edits, acts>>

(* The result of a request; a command runs if its Tab is still there (tabFromArg) *)
OnResult ==
  /\ results # <<>>
  /\ LET r == Head(results)
     IN \/ /\ r.does = "focus" /\ GoTo(r.tab, r.pane, r.rev)
           /\ results' = Tail(results) /\ Refused
        \/ r.does # "focus" /\ Shows(store, r.tab) /\ Run(r.does, r.tab, Tail(results))
        \/ /\ r.does # "focus" /\ ~Shows(store, r.tab)
           /\ results' = Tail(results) /\ UNCHANGED <<server, events, marks, wish>>
  /\ UNCHANGED <<store, held, edits, acts>>

(* initialUiState; the first snapshot is there *)
Init ==
  /\ server = [rev |-> 0, order |-> <<1, 2>>, panes |-> [t \in TabIds |-> IF t <= 2 THEN <<t>> ELSE <<>>],
               tab |-> 3, pane |-> 3]
  /\ store = server /\ events = <<>> /\ results = <<>>
  /\ marks = [menu |-> 0, confirming |-> 0, preview |-> 0, drag |-> NoDrag, focus |-> [t \in TabIds |-> 0]]
  /\ held = 0 /\ wish = [t \in TabIds |-> Nowhere]
  /\ edits = 0 /\ acts = 0

User == Keyboard \/ Press \/ Open \/ Choose \/ DragBegin \/ DragMove \/ DragEnd

Next == Edit \/ OnEvent \/ OnSnapshot \/ OnResult \/ User
-----------------------------------------------------------------------------
InterfaceTypes ==
  /\ \A d \in {server, store} : ToSet(d.order) \subseteq TabIds /\ \A t \in TabIds : ToSet(d.panes[t]) \subseteq PaneIds
  /\ store.rev <= server.rev /\ held \in 0..MaxTabs

(* Nothing is open for, dragged in or focused in a Tab that is not shown     *)
NothingDangles ==
  LET tabs == ToSet(store.order)
  IN /\ {marks.menu, marks.confirming, marks.preview, marks.drag.tab, held} \subseteq tabs \cup {0}
     /\ \A t \in TabIds : marks.focus[t] # 0 => t \in tabs

(* A Tab let go now would come where it is shown, if nobody else changes the *)
(* order; but not when it is shown elsewhere than it was pressed because the *)
(* server moved it, and was dragged nowhere (README)                         *)
DropShown ==
  held # 0 /\ marks.drag.tab = held =>
    LET shown == PreviewOrder(store.order, marks.drag)
    IN IF Commits(marks.drag)
       THEN shown = Moved(store.order, held, marks.drag.to)
       ELSE shown = store.order \/ Index(store.order, held) # marks.drag.from

(* The Pane the user last went to has the keyboard while it is shown, also   *)
(* when it is a Split's new Pane whose document came after the result        *)
FocusKept ==
  \A t \in ToSet(store.order) : wish[t].pane \in ToSet(store.panes[t]) => Focused(t) = wish[t].pane
=============================================================================
