------------------------------ MODULE Pointer -------------------------------
(***************************************************************************)
(* Pointer and keys over a terminal element: install_listeners of          *)
(* st-native/src/element.rs with mouse.rs, input.rs, viewstate.rs and the  *)
(* reports of st-client-core/src/mouse.rs.  What the program has asked for *)
(* is known as of the last frame; the left button may go down and up       *)
(* anywhere in the window.                                                 *)
(*                                                                         *)
(* Across, positions are half cells.  Only what a report means is kept:    *)
(* whether the program takes the button for held.                          *)
(***************************************************************************)
EXTENDS Integers, Sequences, FiniteSets

CONSTANTS
  Width, Height, (* the grid, in cells                                      *)
  ModeSets,      (* the modes programs set                                  *)
  MaxCoord,      (* X10_MAX_COORD                                           *)
  MaxLines,      (* bound: lines of history                                 *)
  Events         (* bound: events                                           *)

VARIABLES
  program, (* the modes it has set, and what it has been told                *)
  above,   (* the Replica: lines above the screen                            *)
  element, (* GridState                                                      *)
  button,  (* the left button, and the events left                           *)
  sent     (* SetViewState: the debouncer, and what the sink last got        *)

pointerVars == <<program, above, element, button, sent>>

None == <<>>
Asked == [protocol : {"off", "click", "drag", "motion"}, sgr : BOOLEAN, alt : BOOLEAN]
Cell == (0..Width - 1) \X (0..Height - 1)
Position == [zone : {"cell", "thumb", "track", "outside"}, x : 0..2 * Width - 1, y : 0..Height - 1]

CellAt(p) == <<p.x \div 2, p.y>>
EdgeAt(p) == <<(p.x + 1) \div 2, p.y>>
Absolute(cell) == <<element.top + cell[2], cell[1]>>
-----------------------------------------------------------------------------
(* Reports *)

ReportsToProgram(asked, shift) == asked.protocol # "off" /\ ~shift

Reported(kind, pressed) ==
  \/ kind # "motion"
  \/ element.asked.protocol = "drag" /\ pressed
  \/ element.asked.protocol = "motion"

Representable(cell) == element.asked.sgr \/ (cell[1] + 1 <= MaxCoord /\ cell[2] + 1 <= MaxCoord)

(* encode_mouse, and the program's end: what it is told *)
Encoded(kind, pressed, cell) == Reported(kind, pressed) /\ Representable(cell)

Told(kind) ==
  CASE kind = "press"   -> [program.told EXCEPT !.held = TRUE]
    [] kind = "release" -> [program.told EXCEPT !.held = FALSE, !.excuse = FALSE]
    [] OTHER -> program.told

Tell(kind, pressed, cell) ==
  program' = IF Encoded(kind, pressed, cell) THEN [program EXCEPT !.told = Told(kind)] ELSE program
-----------------------------------------------------------------------------
(* View state *)

Payload(g) == [top |-> g.top, sel |-> IF g.sel # None /\ g.sel[1] = g.sel[2] THEN None ELSE g.sel]

(* should_send: at once when a selection ends, else not twice in a while *)
Report(g, trigger) ==
  sent' = IF sent.last = Payload(g) \/ (trigger = "scroll" /\ sent.soon) THEN sent
          ELSE [last |-> Payload(g), soon |-> TRUE]

ScrollTo(g, offset) == [g EXCEPT !.offset = IF offset > above THEN above ELSE IF offset < 0 THEN 0 ELSE offset]

Scrolls(g, offset) ==
  /\ element' = ScrollTo(g, offset)
  /\ IF element'.offset # g.offset THEN Report(element', "scroll") ELSE UNCHANGED sent
-----------------------------------------------------------------------------
Init ==
  /\ program = [asked |-> [protocol |-> "off", sgr |-> FALSE, alt |-> FALSE],
                told |-> [held |-> FALSE, excuse |-> FALSE]]
  /\ above = 0
  /\ element = [asked |-> program.asked, top |-> 0, offset |-> 0, sel |-> None,
             drag |-> "none", motion |-> None, cleared |-> FALSE]
  /\ button = [down |-> "up", left |-> Events]
  /\ sent = [last |-> None, soon |-> FALSE]

Event == button.left > 0
Spent == [button EXCEPT !.left = @ - 1]

(* The program sets modes, writes lines; a frame shows them *)
Asks == \E asked \in ModeSets :
  /\ Event /\ asked # program.asked /\ program' = [program EXCEPT !.asked = asked]
  /\ button' = Spent /\ UNCHANGED <<above, element, sent>>

Writes ==
  /\ above < MaxLines /\ above' = above + 1
  /\ UNCHANGED <<program, element, button, sent>>

Frame ==
  /\ element' = [ScrollTo(element, element.offset) EXCEPT !.asked = program.asked,
                !.top = above - ScrollTo(element, element.offset).offset]
  /\ UNCHANGED <<program, above, button, sent>>

Later == sent.soon /\ sent' = [sent EXCEPT !.soon = FALSE] /\ UNCHANGED <<program, above, element, button>>
-----------------------------------------------------------------------------
(* The scrollbar shows when there is more than the screen holds *)
HitZone(p) == IF above = 0 /\ p.zone # "outside" THEN "cell" ELSE p.zone

MouseDown == \E p \in Position, shift \in BOOLEAN :
  LET zone == HitZone(p) IN
  /\ Event /\ button.down = "up"
  /\ button' = [Spent EXCEPT !.down = zone]
  /\ CASE zone = "thumb" -> element' = [element EXCEPT !.drag = "scrollbar"] /\ UNCHANGED <<program, sent>>
       [] zone = "track" -> Scrolls(element, element.offset + Height) /\ UNCHANGED program
       [] zone = "cell" /\ ReportsToProgram(element.asked, shift) ->
            Tell("press", TRUE, CellAt(p)) /\ UNCHANGED <<element, sent>>
       [] zone = "cell" /\ ~ReportsToProgram(element.asked, shift) ->
            /\ element' = [element EXCEPT !.drag = "selection",
                                    !.sel = <<Absolute(CellAt(p)), Absolute(CellAt(p))>>]
            /\ UNCHANGED <<program, sent>>
       [] OTHER -> UNCHANGED <<program, element, sent>>
  /\ UNCHANGED above

(* A band at each edge scrolls while a selection is dragged *)
AutoscrollStep(p) == IF p.y = 0 THEN 1 ELSE IF p.y = Height - 1 THEN -1 ELSE 0

MouseMove == \E p \in Position, shift \in BOOLEAN :
  /\ Event /\ p.zone = "cell" /\ button' = Spent
  /\ CASE element.drag = "selection" ->
            /\ Scrolls([element EXCEPT !.sel[2] = Absolute(EdgeAt(p))], element.offset + AutoscrollStep(p))
            /\ UNCHANGED program
       [] element.drag = "scrollbar" ->
            Scrolls(element, above - p.y) /\ UNCHANGED program
       [] element.drag = "none" /\ ReportsToProgram(element.asked, shift) /\ element.motion # CellAt(p) ->
            /\ element' = [element EXCEPT !.motion = CellAt(p)]
            /\ Tell("motion", button.down # "up", CellAt(p)) /\ UNCHANGED sent
       [] OTHER -> UNCHANGED <<program, element, sent>>
  /\ UNCHANGED above

Hears_Inside(p) == p.zone # "outside"

(* on_mouse_up and, when the pointer has left the element, on_mouse_up_out *)
Hears(p) == p \in Position

Released(p, shift) ==
  /\ element' = [element EXCEPT !.drag = "none", !.motion = None, !.cleared = @ /\ element.drag # "selection"]
  /\ IF element.drag = "selection" THEN Report(element', "end") ELSE UNCHANGED sent
  /\ program' = IF element.drag = "none" /\ ReportsToProgram(element.asked, shift) /\ Representable(CellAt(p))
                THEN [program EXCEPT !.told = Told("release")]
                ELSE [program EXCEPT !.told.excuse = TRUE]

MouseUp == \E p \in Position, shift \in BOOLEAN :
  /\ Event /\ button.down # "up"
  /\ button' = [Spent EXCEPT !.down = "up"]
  /\ IF Hears(p) THEN Released(p, shift) ELSE UNCHANGED <<program, element, sent>>
  /\ UNCHANGED above

(* handle_wheel: a report, cursor keys, or the history *)
WheelScrolls(shift) == ~ReportsToProgram(element.asked, shift) /\ ~element.asked.alt

Wheel == \E lines \in {-1, 1}, shift \in BOOLEAN :
  /\ Event /\ button' = Spent
  /\ IF WheelScrolls(shift)
     THEN Scrolls(element, element.offset + lines)
     ELSE UNCHANGED <<element, sent>>
  /\ UNCHANGED <<program, above>>

(* handle_key and paste: what is sent brings the screen back *)
Typed ==
  /\ Event /\ button' = Spent
  /\ Scrolls(element, 0) /\ UNCHANGED <<program, above>>

SelectAll ==
  /\ Event /\ button' = Spent
  /\ element' = [element EXCEPT !.sel = <<<<0, 0>>, <<above + Height - 1, Width - 1>>>>, !.cleared = FALSE]
  /\ Report(element', "end") /\ UNCHANGED <<program, above>>

ClearSelection ==
  /\ Event /\ button' = Spent
  /\ element' = [element EXCEPT !.sel = None, !.cleared = FALSE]
  /\ Report(element', "end") /\ UNCHANGED <<program, above>>

ClearScrollback ==
  /\ Event /\ button' = Spent
  /\ element' = [element EXCEPT !.sel = None, !.offset = 0, !.cleared = TRUE]
  /\ UNCHANGED <<program, above, sent>>

Next ==
  \/ Asks \/ Writes \/ Frame \/ Later
  \/ MouseDown \/ MouseMove \/ MouseUp \/ Wheel \/ Typed
  \/ SelectAll \/ ClearSelection \/ ClearScrollback
-----------------------------------------------------------------------------
PointerTypes ==
  /\ element.asked \in Asked /\ program.asked \in Asked /\ element.offset \in 0..MaxLines /\ element.top \in 0..MaxLines
  /\ element.sel # None => \A i \in {1, 2} : element.sel[i][1] <= MaxLines + Height - 1 /\ element.sel[i][2] <= Width

(* A program that was told of a press is told of the release, wherever the  *)
(* pointer is by then, unless when the button came up Shift was held, the   *)
(* program wanted no reports or the cell could not be said                  *)
(* (on_mouse_up_out)                                                        *)
WellReported == program.told.held => button.down # "up" \/ program.told.excuse

(* Between drags the server knows the selection there is: a report held     *)
(* back because the last one was just sent is never the end of a selection  *)
(* (clear_scrollback drops a selection and reports nothing)                 *)
SelectionKnown ==
  element.drag = "none" /\ ~element.cleared /\ sent.last # None => sent.last.sel = Payload(element).sel
=============================================================================
