---------------------------- MODULE ClientState -----------------------------
(***************************************************************************)
(* What a window remembers between its runs (state/client-state.ts, app.tsx*)
(* and bootstrap.ts): client.json, written some time after every change    *)
(* and once more on exit.  One window at a time; `remember` is on.         *)
(*                                                                         *)
(* A number stands for a size, a width, a zoom; the zoom is counted from   *)
(* FONT_ZOOM_MIN, and Level is none.  A size of 0 is not measured yet.     *)
(***************************************************************************)
EXTENDS Naturals, FiniteSetsExt

CONSTANTS
  None, Damaged,    (* a field that is absent, one no schema accepts        *)
  Providers,        (* settings of the AI provider                          *)
  MaxZoom, Level,   (* FONT_ZOOM_MAX and 0                                  *)
  MaxChoices,       (* bound: choices of the user                           *)
  MaxRuns,          (* bound: runs of the window                            *)
  MaxTroubles       (* bound: writes that fail, kills, edits of config.toml *)

VARIABLES
  saved,      (* client.json                                                *)
  config,     (* config.toml: Tab Layout and provider                       *)
  app,        (* the window as it is, or was when it ended                  *)
  persister,  (* what was remembered at the start, what is written, what is *)
              (* pending, whether the timer is set                          *)
  running, changed,
  chose,      (* the provider the user picked last                          *)
  lost,       (* a change did not reach the file                            *)
  choices, runs, troubles

clientStateVars ==
  <<saved, config, app, persister, running, changed, chose, lost, choices, runs, troubles>>

Widths == 1..2        \* SIDEBAR_WIDTH_MIN to SIDEBAR_WIDTH_MAX
DefaultWidth == 1     \* tokens.strip.verticalWidth
Sizes == 1..2
Unmeasured == [size |-> 0, origin |-> None, maximized |-> FALSE, display |-> None]
Windows == [size : Sizes, origin : {None, 1}, maximized : {FALSE}, display : {None}]

(* What is read of a file, and written *)
Places == [size : Sizes, origin : {None, 1}, maximized : {FALSE}, display : {None, 2}]
States == [window : {None} \cup Places, tabs : {None} \cup BOOLEAN, width : {None} \cup Widths,
           zoom : {None} \cup (0..MaxZoom), provider : {None} \cup Providers]

Empty == [window |-> None, tabs |-> None, width |-> None, zoom |-> None, provider |-> None]
Or(value, default) == IF value = None THEN default ELSE value

(* What a file may hold that this version did not write *)
Foreign ==
  {[Empty EXCEPT !.window = [size |-> 2, origin |-> Damaged, maximized |-> Damaged, display |-> 2],
                 !.tabs = Damaged, !.width = 9, !.zoom = MaxZoom + 9],
   [Empty EXCEPT !.window = [Unmeasured EXCEPT !.size = Damaged], !.tabs = TRUE, !.zoom = Damaged],
   [Empty EXCEPT !.width = 2, !.provider = Damaged]}

-----------------------------------------------------------------------------
(* clampFontZoom *)
ClampFontZoom(z) == Max({0, Min({MaxZoom, z})})

Good(value) == IF value = Damaged THEN None ELSE value

(* parseWindow, parseWindowDisplay: without a size nothing of it is used *)
ParsedWindow(w) ==
  IF w = None \/ w.size \notin Sizes THEN None
  ELSE [size |-> w.size, origin |-> Good(w.origin), maximized |-> w.maximized = TRUE, display |-> Good(w.display)]

(* parseClientState, loadClientState: field by field *)
Parsed(file) ==
  IF file \in {None, Damaged} THEN Empty
  ELSE [window |-> ParsedWindow(file.window),
        tabs |-> Good(file.tabs),
        width |-> IF file.width \in Widths THEN file.width ELSE None,
        zoom |-> IF file.zoom \in {None, Damaged} THEN None ELSE ClampFontZoom(file.zoom),
        provider |-> Good(file.provider)]

(* serializeClientState: defaults are left out *)
Serialized(state) == [state EXCEPT !.zoom = IF @ = Level THEN None ELSE @]

(* sameClientState *)
Same(a, b) == [a EXCEPT !.zoom = Or(@, Level)] = [b EXCEPT !.zoom = Or(@, Level)]

RememberedAiProvider_Mirrored(current, atStartup, remembered) == current

(* rememberedAiProvider *)
RememberedAiProvider(current, atStartup, remembered) ==
  IF remembered # None \/ current # atStartup THEN current ELSE None

(* clientStateOf, persistClientState: a window not measured yet keeps the last size *)
ClientStateOf(a) ==
  [window |-> IF a.window.size = 0 THEN persister.initial.window ELSE a.window,
   tabs |-> a.tabs, width |-> a.width, zoom |-> a.zoom,
   provider |-> RememberedAiProvider(a.provider, persister.atStartup, persister.initial.provider)]

-----------------------------------------------------------------------------
(* bootstrap, persistClientState *)
Start ==
  /\ ~running /\ runs < MaxRuns /\ runs' = runs + 1
  /\ LET initial == Parsed(saved)
     IN /\ app' = [window |-> Unmeasured, tabs |-> Or(initial.tabs, config.tabs),
                   width |-> Or(initial.width, DefaultWidth), zoom |-> Or(initial.zoom, Level),
                   provider |-> Or(initial.provider, config.provider)]
        /\ persister' = [initial |-> initial, atStartup |-> Or(initial.provider, config.provider),
                         written |-> initial, pending |-> None, timer |-> FALSE]
        /\ chose' = IF lost THEN initial.provider ELSE chose
  /\ running' = TRUE /\ changed' = FALSE /\ lost' = FALSE
  /\ UNCHANGED <<saved, config, choices, troubles>>

(* push *)
Pushed(p, state) ==
  IF Same(state, Or(p.pending, p.written)) THEN p ELSE [p EXCEPT !.pending = state, !.timer = TRUE]

(* A change of the store *)
Changed(a) ==
  /\ running /\ choices < MaxChoices /\ choices' = choices + 1
  /\ a # app /\ app' = a /\ changed' = TRUE
  /\ persister' = Pushed(persister, ClientStateOf(a))
  /\ UNCHANGED <<saved, config, running, lost, runs, troubles>>

(* WindowSizeTracker, trackWindowPlacement *)
Measure == \E w \in Windows : Changed([app EXCEPT !.window = w]) /\ UNCHANGED chose

Toggle == Changed([app EXCEPT !.tabs = ~@]) /\ UNCHANGED chose

Widen == \E w \in Widths : Changed([app EXCEPT !.width = w]) /\ UNCHANGED chose

(* ui.zoomFont, ui.setFontZoom *)
Zoom == \E z \in {app.zoom + 1, IF app.zoom = 0 THEN 0 ELSE app.zoom - 1, Level} :
  Changed([app EXCEPT !.zoom = ClampFontZoom(z)]) /\ UNCHANGED chose

(* AI Settings; in a run that began with nothing remembered the setting of   *)
(* its start is not taken for a pick (README)                                *)
Pick == \E provider \in Providers :
  /\ Changed([app EXCEPT !.provider = provider])
  /\ chose' = IF persister.initial.provider = None /\ provider = persister.atStartup THEN None ELSE provider

(* commit: a write that fails is reported and not repeated *)
Committed ==
  LET p == persister
      idle == [p EXCEPT !.pending = None, !.timer = FALSE]
  IN IF p.pending = None \/ Same(Or(p.pending, p.written), p.written)
     THEN persister' = idle /\ UNCHANGED <<saved, lost, troubles>>
     ELSE \/ /\ persister' = [idle EXCEPT !.written = p.pending]
             /\ saved' = Serialized(p.pending) /\ lost' = FALSE /\ UNCHANGED troubles
          \/ /\ troubles < MaxTroubles /\ troubles' = troubles + 1
             /\ persister' = idle /\ lost' = TRUE /\ UNCHANGED saved

Commit == running /\ persister.timer /\ Committed /\ UNCHANGED <<config, app, running, changed, chose, choices, runs>>

(* process.on('exit') *)
Exit == running /\ running' = FALSE /\ Committed /\ UNCHANGED <<config, app, changed, chose, choices, runs>>

(* The process is killed: the file is the last one that was renamed *)
Kill ==
  /\ running /\ running' = FALSE
  /\ troubles < MaxTroubles /\ troubles' = troubles + 1
  /\ lost' = (lost \/ persister.timer)
  /\ UNCHANGED <<saved, config, app, persister, changed, chose, choices, runs>>

(* The user edits config.toml, which is read at a start *)
EditConfig == \E c \in [tabs : BOOLEAN, provider : Providers] :
  /\ troubles < MaxTroubles /\ troubles' = troubles + 1
  /\ c # config /\ config' = c
  /\ UNCHANGED <<saved, app, persister, running, changed, chose, lost, choices, runs>>

Init ==
  /\ saved \in {None, Damaged} \cup Foreign
  /\ config = [tabs |-> FALSE, provider |-> CHOOSE p \in Providers : TRUE]
  /\ app = [window |-> Unmeasured, tabs |-> FALSE, width |-> DefaultWidth, zoom |-> Level, provider |-> config.provider]
  /\ persister = [initial |-> Empty, atStartup |-> config.provider, written |-> Empty, pending |-> None, timer |-> FALSE]
  /\ running = FALSE /\ changed = FALSE /\ chose = None /\ lost = FALSE
  /\ choices = 0 /\ runs = 0 /\ troubles = 0

Next == Start \/ Measure \/ Toggle \/ Widen \/ Zoom \/ Pick \/ Commit \/ Exit \/ Kill \/ EditConfig
-----------------------------------------------------------------------------
ClientStateTypes ==
  /\ app.window \in Windows \cup {Unmeasured} /\ app.zoom \in 0..MaxZoom /\ app.width \in Widths
  /\ config \in [tabs : BOOLEAN, provider : Providers] /\ chose \in Providers \cup {None}
  /\ persister.pending # None => persister.timer
  /\ persister.written \in States /\ Parsed(saved) \in States

(* A window that is idle, or was closed in order, finds at its next start    *)
(* what the user left: nothing of it is overwritten by what config.toml says *)
(* or by a window not measured yet, and where the user never picked a        *)
(* provider config.toml goes on deciding                                     *)
Remembered ==
  LET read == Parsed(saved)
  IN runs > 0 /\ ~lost /\ ~(running /\ persister.timer) =>
       /\ changed => read.tabs = app.tabs /\ read.width = app.width
       /\ Or(read.zoom, Level) = app.zoom
       /\ app.window # Unmeasured => read.window = app.window
       /\ read.provider = chose

(* A damaged field does not take the others with it *)
Salvaged ==
  saved \notin {None, Damaged} =>
    /\ saved.tabs \in BOOLEAN => Parsed(saved).tabs = saved.tabs
    /\ saved.width \in Widths => Parsed(saved).width = saved.width
    /\ saved.provider \in Providers => Parsed(saved).provider = saved.provider
    /\ saved.window # None /\ saved.window.size \in Sizes => Parsed(saved).window.size = saved.window.size
=============================================================================
