---------------------------- MODULE MCMachines -----------------------------
(* The machines of module Machines and the rest of those that share no state,    *)
(* checked side by side: `part` says which of them a behaviour is about, the     *)
(* others stand still.                                                           *)
EXTENDS Machines

CONSTANTS
    Surface, View, Incidents, QueueCap, Blinks,
    TreeSurfaces, Ratios,
    ScreenLines, ScreenCols, Columns,
    StyleCap, MaxWrites, MaxCalls,
    MaxCommands, MaxSwitches,
    MaxTabs, MaxPanes, MaxEdits, MaxActs,
    Daemon, Client, MaxChanges, MaxStops, Stopping, DiskFails

VARIABLES
    shared, io, screen, view, ui, left,
    tree, paths,
    shown, bus, mounted, grids, ran, switches,
    stage, lock, path, doc, acked, cmds, actor, saves, pending, write, tmp, disk, windows, ensure,
    changes, stops, promised,
    colours, past, styles, subs, replicas, spending,
    server, events, results, store, marks, held, wish, edits, acts,
    input

dataVars == <<shared, io, screen, view, ui, left>>
treeVars == <<tree, paths>>
panesVars == <<shown, bus, mounted, grids, ran, switches>>
daemonVars == <<stage, lock, path, doc, acked, cmds, actor, saves, pending, write, tmp, disk, windows, ensure,
                changes, stops, promised>>
interfaceVars == <<server, events, results, store, marks, held, wish, edits, acts>>
stylesVars == <<colours, past, styles, subs, replicas, spending>>
restVars == <<dataVars, treeVars, panesVars, daemonVars, interfaceVars, stylesVars, input>>
vars == <<machinesVars, restVars>>

Data == INSTANCE DataClient
Trees == INSTANCE LayoutTree WITH Surfaces <- TreeSurfaces

\* Two Tabs of one Pane and two of two: each Tab is the sequence of its Surfaces.
Tabs == {<<"a">>, <<"b">>, <<"c", "d">>, <<"e", "f">>}
Pane == INSTANCE Panes

Daemons == INSTANCE Lifecycle WITH client <- windows, None <- Nobody

Painting == INSTANCE Styles

Window == INSTANCE Interface

Selecting == INSTANCE Selection WITH Lines <- ScreenLines, Cols <- ScreenCols

\* The functions of the parts without state are checked for every input.
Row == {Selecting!Missing, [cells |-> <<"w", "s", "a">>, wrapped |-> TRUE]}
       \cup [cells : {<<"a", "a", "-">>}, wrapped : BOOLEAN]
Rows == [Selecting!Line -> Row]

Frames == INSTANCE Postcard
Texts == INSTANCE Json

\* The rows a buffer drew before it is reused for the row of the input.
Drawer == INSTANCE Drawing
Olds == {<<"x", "y", "x", "y">>, <<"line", "x", "box">>}
Uses == UNION {[1..n -> 1..4] : n \in 0..5}
Shapes == INSTANCE Sprites
Coloring == INSTANCE Palette
Typing == INSTANCE Keys
Props == INSTANCE GridProps

\* A machine that stands still does so in one of its initial states.
Init ==
    /\ MachinesInit
    /\ Data!Init /\ Trees!Init /\ Pane!Init /\ Daemons!Init
    /\ Painting!Init /\ Window!Init
    /\ input \in CASE part = "rows" -> Rows
                   [] part = "frames" -> Frames!Messages
                   [] part = "lines" -> Texts!Lines
                   [] part = "cells" -> {r \in Drawer!Rows : Drawer!WellFormed(r)}
                   [] part = "cache" -> Uses
                   [] part = "sprites" -> Shapes!Cells
                   [] part = "colors" -> Coloring!Painters
                   [] part = "keys" -> Typing!Events
                   [] part = "strokes" -> Typing!Strokes
                   [] part = "paste" -> Typing!Texts
                   [] part = "props" -> Props!Updates
                   [] OTHER -> {<<>>}
    /\ part # "tree" => tree = Trees!TreeLeaf(1)
    /\ part # "pipe" => ~holder
    /\ part # "memory" => saved = Nobody

Others(p) ==
    /\ UNCHANGED machinesVars
    /\ IF p = "data" THEN TRUE ELSE UNCHANGED dataVars
    /\ IF p = "tree" THEN TRUE ELSE UNCHANGED treeVars
    /\ IF p = "panes" THEN TRUE ELSE UNCHANGED panesVars
    /\ IF p = "daemons" THEN TRUE ELSE UNCHANGED daemonVars
    /\ IF p = "styles" THEN TRUE ELSE UNCHANGED stylesVars
    /\ IF p = "window" THEN TRUE ELSE UNCHANGED interfaceVars
    /\ UNCHANGED input

DataStep == part = "data" /\ Data!Next /\ Others("data")
TreeStep == part = "tree" /\ Trees!Next /\ Others("tree")
PanesStep == part = "panes" /\ Pane!Next /\ Others("panes")
DaemonStep == part = "daemons" /\ Daemons!Next /\ Others("daemons")
StylesStep == part = "styles" /\ Painting!Next /\ Others("styles")
WindowStep == part = "window" /\ Window!Next /\ Others("window")

Next == \/ MachinesNext /\ UNCHANGED restVars
        \/ DataStep \/ TreeStep \/ PanesStep \/ DaemonStep \/ StylesStep \/ WindowStep

\* Sockets deliver, timers fire, threads run and a blinking cursor paints.
Fair ==
    /\ WF_controlVars(part = "control" /\ Control!Progress)
    /\ WF_controlVars(part = "control" /\ Control!Expiry)
    /\ WF_dataVars(part = "data" /\ Data!IoThread)
    /\ WF_dataVars(part = "data" /\ Data!Window)
    /\ WF_scrollVars(part = "scroll" /\ Scroll!Server)
    /\ WF_scrollVars(part = "scroll" /\ Scroll!Receive)
    /\ WF_scrollVars(part = "scroll" /\ Scroll!Paint)
    /\ WF_pipeVars(part = "pipe" /\ Pipe!Threads) /\ WF_pipeVars(part = "pipe" /\ Pipe!Echo)
    /\ WF_hostVars(part = "host" /\ Hosting!Pump) /\ WF_hostVars(part = "host" /\ Hosting!Actor)
    /\ WF_hostVars(part = "host" /\ Hosting!Dying) /\ WF_hostVars(part = "host" /\ Hosting!FeedEnds)
    /\ WF_hostVars(part = "host" /\ Hosting!Serve)
    /\ WF_connVars(part = "conn" /\ Conn!Task) /\ WF_connVars(part = "conn" /\ Conn!Expire)
    /\ \A d \in Daemon :
         /\ WF_daemonVars(part = "daemons" /\ Daemons!Start(d)) /\ WF_daemonVars(part = "daemons" /\ Daemons!Actor(d))
         /\ WF_daemonVars(part = "daemons" /\ Daemons!Writer(d)) /\ WF_daemonVars(part = "daemons" /\ Daemons!Finish(d))
         /\ WF_daemonVars(part = "daemons" /\ Daemons!Accept(d))
    /\ \A c \in Client :
         /\ WF_daemonVars(part = "daemons" /\ Daemons!Dial(c)) /\ WF_daemonVars(part = "daemons" /\ Daemons!Spawn(c))
         /\ WF_daemonVars(part = "daemons" /\ Daemons!ProbeAnswered(c))
         /\ WF_daemonVars(part = "daemons" /\ Daemons!ProbesFail(c)) /\ WF_daemonVars(part = "daemons" /\ Daemons!GiveUp(c))

Spec == Init /\ [][Next]_vars /\ Fair
-----------------------------------------------------------------------------
\* The types of the machines.
Types ==
    /\ part = "control" => Control!ControlTypes
    /\ part = "data" => Data!DataTypes
    /\ part = "scroll" => Scroll!ScrollTypes
    /\ part = "pipe" => Pipe!PipeTypes
    /\ part = "host" => Hosting!HostTypes
    /\ part = "conn" => Conn!ConnTypes
    /\ part = "pointer" => Pointers!PointerTypes
    /\ part = "panes" => Pane!PanesTypes
    /\ part = "window" => Window!InterfaceTypes
    /\ part = "memory" => Memory!ClientStateTypes

\* The window comes to rest where the server is, after any failures: the control client
\* connected and subscribed, closed, or told why not (onTransportClosed, connect); every
\* mounted element with the screen its Surface has (ensure_connection, reattach_all); a
\* Surface with the size that fits its element (request_resize); every window with a
\* daemon (ensureServer).
WindowSettles ==
    <>[](/\ part = "control" => Control!Heard
         /\ part = "data" => Data!Current
         /\ part = "scroll" => Scroll!SizeAgreed
         /\ part = "daemons" => Daemons!EveryoneServed)

\* What a Replica holds ends up painted (read_frame, mark_dirty, take_dirty).
Painted == <>[](part = "data" => Data!Shown)

\* Dropping the last handle of a connection joins its thread (DataPlaneConnection::drop).
DropReturns == Data!DropReturns

\* The functions on a path of the layout tree compute what the recursive ones do, and
\* closing a Pane focuses one that is left, on both ends (layout.ts, model.rs).
SameTree == part = "tree" => Trees!SameTree /\ Trees!FocusSurvives

\* A line that is cached is the line of that number (scroll_off).
CachedTruly == part = "scroll" => Scroll!CachedTruly

\* No line of the viewport stays blank because it is not fetched (request_history).
Filled == <>[](part = "scroll" => Scroll!Filled)

\* The daemon comes to rest with nothing left to hear: all output is in the engine and all
\* input read by a child that reads, the threads of a Surface not waiting for one another
\* in a circle (spawn_writer_thread, feed_loop); the end of every process that is hosted is
\* in the document (reap, DeferredNotifier); what a peer says is answered, or the
\* connection is closed (serve_inner, HANDSHAKE_TIMEOUT_SECS); and a daemon told to stop
\* does (RunningServer::finish).
DaemonHears ==
    <>[](/\ part = "pipe" => Pipe!Fed
         /\ part = "host" => Hosting!ExitsKnown
         /\ part = "conn" => Conn!Attended
         /\ part = "daemons" => Daemons!AtRest)

\* A closed Pane's process is waited for, and its engine and terminal let go
\* (kill_surface).
Released == <>[](part = "host" => Hosting!Released)

\* What is selected depends on where a drag began and ended, and what is painted and what
\* is copied are what is selected (snap, cols_on, text).
Selected ==
    part = "rows" => /\ Selecting!PathIndependent(input)
                     /\ Selecting!PaintedIsCovered(input) /\ Selecting!LinesKept(input)

\* A message is read as what was written, a cut or unknown one never as another, and what a
\* newer peer adds is left out; what the app may write by the types it keeps by hand is the
\* request it means, and what the daemon writes is of those types (encode_frame, from_frame,
\* ControlMsg, double_option, parse_request, protocol-ts/src/control.ts).
Carried ==
    /\ part = "frames" => Frames!Carried(input) /\ Frames!NewerIsMasked
    /\ part = "lines" => Texts!Understood(input) /\ Texts!OldPeers /\ Texts!Mirrored(input)

\* What is painted is what the row holds: the runs of a reused buffer show every cell in its
\* style, the cursor the glyph it is on, the cache the line last shaped for a text; a cell
\* is in its style on every client, though the table starts over between frames, and shows
\* that style's colours in any theme; lines of neighbouring cells meet, blocks fill their
\* cell (layout_row_into, glyph_at, shaped_line, SurfaceStyleTable, build_delta,
\* resolve_style, sprite_for, snap_rect).
Drawn ==
    /\ part = "cells" => \A old \in Olds, selection \in Drawer!Selections : Drawer!Drawn(old, input, selection)
    /\ part = "cache" => \A capacity \in 1..4 : Drawer!Cached(input, capacity)
    /\ part = "styles" => Painting!Coloured
    /\ part = "sprites" => Shapes!Joined(input) /\ Shapes!Tiled(input)
    /\ part = "colors" => Coloring!Inked(input)

\* What is typed or pasted reaches the program as what it is, a chord of the app's the app,
\* and an element has the props React gives it (encode_key, handle_key, Chord::parse,
\* prepare_paste, GridProps::set).
InputMeant ==
    /\ part = "keys" => Typing!Unambiguous(input)
    /\ part = "strokes" => Typing!Meant(input)
    /\ part = "paste" => Typing!Pasted(input)
    /\ part = "props" => Props!Declared(input)

\* What the user gave, went to, holds or set stands while things change around it: a
\* command reaches the element it was meant for, the Pane gone to keeps the keyboard, a
\* Tab comes where it is shown, nothing is open for what is gone, and a damaged field of
\* client.json costs no other (set_prop, pruneUi, previewOrder, parseClientState).
ChoicesStand ==
    /\ part = "panes" => Pane!CommandsReach
    /\ part = "window" => Window!NothingDangles /\ Window!DropShown /\ Window!FocusKept
    /\ part = "memory" => Memory!Salvaged

\* A command is run once, however often its element is mounted (mountSeqRef).
RunOnce == part = "panes" => Pane!RunOnce
=============================================================================
