----------------------------- MODULE Workspace -----------------------------
(***************************************************************************)
(* The Workspace document and the actor that owns it                       *)
(* (st-server/src/workspace/model.rs and actor.rs), the processes the      *)
(* supervisor hosts for it, and the shape that workspace.json brings back  *)
(* after a restart (persist.rs, lifecycle.rs).  Requests that the code     *)
(* refuses change nothing and are steps of no action.                      *)
(***************************************************************************)
EXTENDS Layout, FiniteSets, FiniteSetsExt

CONSTANTS
  MaxId,      (* Sessions and Tabs are numbered up to this                   *)
  MaxSurface, (* Surfaces one daemon starts                                  *)
  MaxLives,   (* daemons, one after the other; the last one writes no file   *)
  Events,     (* what Surfaces report, of "exit", "child", "input"           *)
  Failing     (* where a shell may fail to start, of "reseed", "load"        *)

ASSUME BoundsAssumption ==
  /\ MaxId \in Nat \ {0} /\ MaxSurface \in Nat \ {0} /\ MaxLives \in Nat \ {0}
  /\ Events \subseteq {"exit", "child", "input"} /\ Failing \subseteq {"reseed", "load"}

VARIABLES
  ws,          (* next_id, active_session and the Sessions with their Tabs   *)
  surfaces,    (* the Surfaces the document knows: running, pristine, child  *)
  hosted,      (* the Surfaces the supervisor hosts                          *)
  nextSurface, (* the next Surface id                                        *)
  given,       (* the document last published and handed to the Persister    *)
  unsaved,     (* the Persister has not written it yet                       *)
  disk,        (* workspace.json                                             *)
  lives,       (* daemons so far                                             *)
  loose,       (* Surfaces of surface.create                                 *)
  onDisk       (* the highest id workspace.json ever held                    *)

vars == <<ws, surfaces, hosted, nextSurface, given, unsaved, disk, lives, loose, onDisk>>

None == 0
NoFile == [next |-> 1, active |-> None, sessions |-> <<>>]

-----------------------------------------------------------------------------
(* The model, model.rs *)

Tabs(w) == UNION {ToSet(w.sessions[i].tabs) : i \in DOMAIN w.sessions}
SessionIds(w) == {w.sessions[i].id : i \in DOMAIN w.sessions}
TabIds(w) == {t.id : t \in Tabs(w)}
Shown(w) == UNION {Leaves(t.layout) : t \in Tabs(w)}

(* locate_tab *)
Home(w, t) == CHOOSE i \in DOMAIN w.sessions : \E j \in DOMAIN w.sessions[i].tabs : w.sessions[i].tabs[j].id = t
At(w, t)   == LET tabs == w.sessions[Home(w, t)].tabs IN CHOOSE j \in DOMAIN tabs : tabs[j].id = t
TabOf(w, t) == w.sessions[Home(w, t)].tabs[At(w, t)]
IndexOf(w, s) == CHOOSE i \in DOMAIN w.sessions : w.sessions[i].id = s

RepairActive(w) ==
  IF w.active \in SessionIds(w) THEN w
  ELSE [w EXCEPT !.active = IF w.sessions = <<>> THEN None ELSE w.sessions[1].id]

CreateSession(w) ==
  [w EXCEPT !.next = @ + 1,
            !.sessions = Append(@, [id |-> w.next, tab |-> None, tabs |-> <<>>]),
            !.active = IF w.sessions = <<>> THEN w.next ELSE @]

DeleteSession(w, s) == RepairActive([w EXCEPT !.sessions = RemoveAt(@, IndexOf(w, s))])

(* insert_tab, at the end when the index is past it *)
Inserted(tabs, k, tab) == InsertAt(tabs, IF k > Len(tabs) THEN Len(tabs) + 1 ELSE k, tab)

(* A Session with one more Tab, the active one                              *)
With(session, k, tab) == [session EXCEPT !.tabs = Inserted(@, k, tab), !.tab = tab.id]

InsertTab(w, s, k, u) ==
  [w EXCEPT !.next = @ + 1,
            !.sessions[IndexOf(w, s)] = With(@, k, [id |-> w.next, layout |-> Leaf(u)])]

Without_KeepsActive(session, k) == [session EXCEPT !.tabs = RemoveAt(@, k)]

(* A Session without one of its Tabs; the next one takes its place as the   *)
(* active one                                                               *)
Without(session, k) ==
  LET rest == RemoveAt(session.tabs, k)
      fall == rest[IF k > Len(rest) THEN Len(rest) ELSE k].id
  IN [session EXCEPT !.tabs = rest,
                     !.tab  = IF rest # <<>> /\ @ = session.tabs[k].id THEN fall ELSE @]

DropEmptied(w, i) == IF w.sessions[i].tabs = <<>> THEN [w EXCEPT !.sessions = RemoveAt(@, i)] ELSE w

CloseTab(w, t) ==
  LET i == Home(w, t)
  IN RepairActive(DropEmptied([w EXCEPT !.sessions[i] = Without(@, At(w, t))], i))

SetLayout(w, t, l) == [w EXCEPT !.sessions[Home(w, t)].tabs[At(w, t)].layout = l]

ClosePane(w, t, u) ==
  LET l == TabOf(w, t).layout
  IN IF Leaves(l) = {u} THEN CloseTab(w, t) ELSE SetLayout(w, t, WithoutLeaf(l, u))

ReorderTab(w, t, k) ==
  [w EXCEPT !.sessions[Home(w, t)].tabs = Inserted(RemoveAt(@, At(w, t)), k, TabOf(w, t))]

MoveTab(w, t, s, k) ==
  LET from == Home(w, t)
      to   == IndexOf(w, s)
      left == [w EXCEPT !.sessions[from] = Without(@, At(w, t)),
                        !.sessions[to] = With(@, k, TabOf(w, t))]
  IN IF from = to THEN ReorderTab(w, t, k) ELSE RepairActive(DropEmptied(left, from))

SetActiveTab(w, t) ==
  LET i == Home(w, t)
  IN [w EXCEPT !.sessions[i].tab = t, !.active = w.sessions[i].id]

(* seed_default_session *)
Seeded(w, u) ==
  LET w1 == CreateSession(w)
  IN [InsertTab(w1, w.next, 1, u) EXCEPT !.active = w.next]

Fresh(seeded) == [running |-> TRUE, pristine |-> seeded, child |-> FALSE]

-----------------------------------------------------------------------------
(* What clients are told, what is kept, and what a daemon makes of it *)

(* The document: whether a Surface is pristine is not in it *)
Document == [ws |-> ws, surfaces |-> [u \in DOMAIN surfaces |-> [running |-> surfaces[u].running, child |-> surfaces[u].child]]]

(* Of Tabs whose Panes were taken out, those that still have one, and of     *)
(* Sessions whose Tabs were, those that still have one                      *)
WithPanes(tabs) == Picked(tabs, {k \in DOMAIN tabs : tabs[k].layout # NoLayout})
WithTabs(sessions) == Picked(sessions, {i \in DOMAIN sessions : sessions[i].tabs # <<>>})

(* snapshot_file: Panes of unknown Surfaces collapse, Tabs of none go *)
File(w, known) ==
  LET Kept(t)  == [t EXCEPT !.layout = Collapsed(@, known)]
      Saved(s) == [s EXCEPT !.tabs = WithPanes([k \in DOMAIN @ |-> Kept(@[k])])]
  IN [w EXCEPT !.sessions = [i \in DOMAIN @ |-> Saved(@[i])]]

(* Every Pane by its Session, its Tab and its path, and the Surfaces of a   *)
(* file in tree order                                                       *)
Places(w) ==
  UNION {UNION {{<<i, j, p>> : p \in DOMAIN w.sessions[i].tabs[j].layout.pane} :
                  j \in DOMAIN w.sessions[i].tabs} : i \in DOMAIN w.sessions}
ShownAt(w, a) == w.sessions[a[1]].tabs[a[2]].layout.pane[a[3]]

Earlier(a, b) ==
  \/ a[1] < b[1]
  \/ a[1] = b[1] /\ a[2] < b[2]
  \/ a[1] = b[1] /\ a[2] = b[2] /\ Before(a[3], b[3])

Panes(file) ==
  LET places == Places(file)
  IN [n \in 1..Cardinality(places) |->
        ShownAt(file, CHOOSE a \in places : Cardinality({b \in places : Earlier(b, a)}) = n - 1)]

Counter_FromIds(file, used) == Max({1} \cup {i + 1 : i \in used})
Counter(file, used) == Max({file.next} \cup {i + 1 : i \in used})

ActiveOf_First(tab, tabs) == IF tabs = <<>> THEN None ELSE tabs[1].id
ActiveOf(tab, tabs) ==
  IF \E k \in DOMAIN tabs : tabs[k].id = tab THEN tab
  ELSE IF tabs = <<>> THEN None ELSE tabs[1].id

(* reseed: a new Surface for every Pane, numbered in tree order, but those  *)
(* whose shell fails to start                                               *)
Instead(file) ==
  LET panes == Panes(file) IN [u \in ToSet(panes) |-> CHOOSE i \in DOMAIN panes : panes[i] = u]

TabAgain(t, failed, instead) ==
  [t EXCEPT !.layout = Respawned(Collapsed(@, Leaves(@) \ failed), instead)]
TabsAgain(tabs, failed, instead) == WithPanes([k \in DOMAIN tabs |-> TabAgain(tabs[k], failed, instead)])
SessionAgain(s, failed, instead) ==
  LET tabs == TabsAgain(s.tabs, failed, instead) IN [s EXCEPT !.tabs = tabs, !.tab = ActiveOf(@, tabs)]

Reseeded(file, failed) ==
  LET instead  == Instead(file)
      sessions == WithTabs([i \in DOMAIN file.sessions |-> SessionAgain(file.sessions[i], failed, instead)])
      w        == [next |-> file.next, active |-> file.active, sessions |-> sessions]
      used     == SessionIds(w) \cup TabIds(w)
  IN RepairActive([w EXCEPT !.next = Counter(file, used)])

(* load_or_seed: and a default Session when there would be none *)
Booted(file, failed, shell) ==
  LET w     == Reseeded(file, failed)
      count == Len(Panes(file))
      panes == {i \in 1..count : Panes(file)[i] \notin failed}
  IN IF w.sessions # <<>> THEN [ws |-> w, surfaces |-> panes, next |-> count + 1]
     ELSE IF shell THEN [ws |-> Seeded(w, count + 1), surfaces |-> panes \cup {count + 1}, next |-> count + 2]
     ELSE [ws |-> w, surfaces |-> panes, next |-> count + 2]

(* What clients that come first are given *)
Started(b) == [ws |-> b.ws, surfaces |-> [u \in b.surfaces |-> [running |-> TRUE, child |-> FALSE]]]

Init ==
  LET b == Booted(NoFile, {}, TRUE) IN
  /\ ws = b.ws
  /\ surfaces = [u \in b.surfaces |-> Fresh(TRUE)]
  /\ hosted = b.surfaces
  /\ nextSurface = b.next
  /\ given = Started(b)
  /\ unsaved = FALSE
  /\ disk = NoFile
  /\ lives = 1
  /\ loose = {}
  /\ onDisk = 0

-----------------------------------------------------------------------------
(* The actor, actor.rs *)

(* One revision, published and handed to the Persister *)
Bumped == given' = Document' /\ unsaved' = TRUE

Quiet == UNCHANGED <<disk, lives, onDisk>>

Spawned(u, seeded) ==
  /\ surfaces' = [v \in DOMAIN surfaces \cup {u} |-> IF v = u THEN Fresh(seeded) ELSE surfaces[v]]
  /\ hosted' = hosted \cup {u}
  /\ nextSurface' = u + 1

(* A change of the document alone *)
Edited(w) == ws' = w /\ UNCHANGED <<surfaces, hosted, nextSurface, loose>> /\ Bumped /\ Quiet

SessionCreate == ws.next <= MaxId /\ Edited(CreateSession(ws))

(* session.rename, surface.rename, view.set, and a Surface's title, cwd or   *)
(* size: a new revision of a document that differs in what is not modelled  *)
Relabelled == Edited(ws)

SessionSetActive == \E s \in SessionIds(ws) : Edited([ws EXCEPT !.active = s])

TabReorder == \E t \in TabIds(ws), k \in 1..Cardinality(TabIds(ws)) : Edited(ReorderTab(ws, t, k))

TabMove == \E t \in TabIds(ws), s \in SessionIds(ws), k \in 1..Cardinality(TabIds(ws)) + 1 :
  Edited(MoveTab(ws, t, s, k))

TabSetActive == \E t \in TabIds(ws) : Edited(SetActiveTab(ws, t))

TabSetRatio == \E t \in Tabs(ws) : \E p \in DOMAIN t.layout.ratio, r \in {950} :
  Edited(SetLayout(ws, t.id, SetRatio(t.layout, p, r)))

(* tab.create with a spawn, and with a Surface shown nowhere *)
TabCreateSpawn == \E s \in SessionIds(ws), k \in 1..Cardinality(TabIds(ws)) + 1 :
  /\ ws.next <= MaxId /\ nextSurface <= MaxSurface
  /\ Spawned(nextSurface, FALSE)
  /\ ws' = InsertTab(ws, s, k, nextSurface)
  /\ Bumped /\ UNCHANGED loose /\ Quiet

TabCreateSurface == \E s \in SessionIds(ws), k \in 1..Cardinality(TabIds(ws)) + 1 :
  \E u \in DOMAIN surfaces \ Shown(ws) :
    /\ ws.next <= MaxId
    /\ Edited(InsertTab(ws, s, k, u))

TabSplit == \E t \in Tabs(ws) : \E u \in Leaves(t.layout) :
  /\ nextSurface <= MaxSurface
  /\ Spawned(nextSurface, FALSE)
  /\ ws' = SetLayout(ws, t.id, SplitLeaf(t.layout, u, nextSurface))
  /\ Bumped /\ UNCHANGED loose /\ Quiet

SurfaceCreate ==
  /\ nextSurface <= MaxSurface
  /\ Spawned(nextSurface, FALSE)
  /\ loose' = loose \cup {nextSurface}
  /\ ws' = ws
  /\ Bumped /\ Quiet

(* The Surfaces gone with what was closed are killed and destroyed; when no  *)
(* Session is left a default one is seeded.                                 *)
Killed_SignalOnly(gone) ==
  /\ surfaces' = [v \in DOMAIN surfaces \ gone |-> surfaces[v]]
  /\ hosted' = hosted

Killed(gone) ==
  /\ surfaces' = [v \in DOMAIN surfaces \ gone |-> surfaces[v]]
  /\ hosted' = hosted \ gone

Closed(w, gone) ==
  /\ UNCHANGED loose /\ Quiet
  /\ \/ /\ w.sessions # <<>>
        /\ ws' = w
        /\ Killed(gone)
        /\ Bumped /\ UNCHANGED nextSurface
     \/ /\ w.sessions = <<>>
        /\ nextSurface <= MaxSurface /\ w.next < MaxId
        /\ ws' = Seeded(w, nextSurface)
        /\ surfaces' = [v \in (DOMAIN surfaces \ gone) \cup {nextSurface} |->
                          IF v = nextSurface THEN Fresh(TRUE) ELSE surfaces[v]]
        /\ hosted' = (hosted \ gone) \cup {nextSurface}
        /\ nextSurface' = nextSurface + 1
        /\ Bumped
     \/ /\ w.sessions = <<>>                (* reseed_default fails: no bump *)
        /\ "reseed" \in Failing /\ nextSurface <= MaxSurface
        /\ ws' = w
        /\ Killed(gone)
        /\ nextSurface' = nextSurface + 1
        /\ UNCHANGED <<given, unsaved>>

SessionDelete_FirstPanes == \E i \in DOMAIN ws.sessions :
  LET s == ws.sessions[i]
  IN Closed(DeleteSession(ws, s.id), {FirstLeaf(t.layout) : t \in ToSet(s.tabs)})

SessionDelete == \E i \in DOMAIN ws.sessions :
  LET s == ws.sessions[i]
  IN Closed(DeleteSession(ws, s.id), UNION {Leaves(t.layout) : t \in ToSet(s.tabs)})

TabClose == \E t \in Tabs(ws) : Closed(CloseTab(ws, t.id), Leaves(t.layout))

PaneClose == \E t \in Tabs(ws) : \E u \in Leaves(t.layout) : Closed(ClosePane(ws, t.id, u), {u})

(* handle_surface_event *)
Reported(u, s) ==
  /\ surfaces' = [surfaces EXCEPT ![u] = s]
  /\ UNCHANGED <<ws, hosted, nextSurface, loose>> /\ Quiet

SurfaceExited == \E u \in DOMAIN surfaces :
  /\ "exit" \in Events /\ surfaces[u].running
  /\ Reported(u, [running |-> FALSE, pristine |-> FALSE, child |-> FALSE])
  /\ Bumped

ForegroundChild_Silent == \E u \in DOMAIN surfaces : \E present \in BOOLEAN :
  /\ "child" \in Events /\ surfaces[u].child # present
  /\ Reported(u, [surfaces[u] EXCEPT !.child = present, !.pristine = @ /\ ~present])
  /\ UNCHANGED <<given, unsaved>>

ForegroundChild == \E u \in DOMAIN surfaces : \E present \in BOOLEAN :
  /\ "child" \in Events /\ surfaces[u].child # present
  /\ Reported(u, [surfaces[u] EXCEPT !.child = present, !.pristine = @ /\ ~present])
  /\ Bumped

SurfaceInput == \E u \in DOMAIN surfaces :
  /\ "input" \in Events
  /\ Reported(u, [surfaces[u] EXCEPT !.pristine = FALSE])
  /\ UNCHANGED <<given, unsaved>>

-----------------------------------------------------------------------------
(* workspace.json and the next daemon *)

HighestId(file) ==
  Max({0} \cup {file.sessions[i].id : i \in DOMAIN file.sessions}
          \cup UNION {{t.id : t \in ToSet(file.sessions[i].tabs)} : i \in DOMAIN file.sessions})

Written(file) ==
  /\ lives < MaxLives
  /\ disk' = file
  /\ onDisk' = Max({onDisk, HighestId(file)})
  /\ unsaved' = FALSE
  /\ UNCHANGED <<ws, surfaces, hosted, nextSurface, given, lives, loose>>

(* The debounce runs out *)
PersistWrite == unsaved /\ Written(File(given.ws, DOMAIN given.surfaces))

(* Flush, and what Shutdown saves before it kills the Surfaces *)
Flush == Written(File(ws, DOMAIN surfaces))

(* The daemon is gone, at any point, and another one starts *)
Restart ==
  /\ lives < MaxLives
  /\ \E failed \in IF "load" \in Failing THEN SUBSET ToSet(Panes(disk)) ELSE {{}} :
     \E shell \in IF "load" \in Failing /\ failed = ToSet(Panes(disk)) THEN BOOLEAN ELSE {TRUE} :
       LET b == Booted(disk, failed, shell) IN
       /\ ws' = b.ws
       /\ surfaces' = [u \in b.surfaces |-> Fresh(TRUE)]
       /\ hosted' = b.surfaces
       /\ nextSurface' = b.next
       /\ given' = Started(b)
  /\ unsaved' = FALSE
  /\ loose' = {}
  /\ lives' = lives + 1
  /\ UNCHANGED <<disk, onDisk>>

Requests ==
  \/ SessionCreate \/ SessionDelete \/ SessionSetActive \/ Relabelled
  \/ TabCreateSpawn \/ TabCreateSurface \/ TabClose \/ TabSplit \/ PaneClose
  \/ TabReorder \/ TabMove \/ TabSetActive \/ TabSetRatio \/ SurfaceCreate
  \/ SurfaceExited \/ ForegroundChild \/ SurfaceInput

Storage == PersistWrite \/ Flush \/ Restart

Next == Requests \/ Storage

Spec == Init /\ [][Next]_vars

-----------------------------------------------------------------------------
(* Every variable keeps its type and no id is ahead of its counter;         *)
(* Sessions and Tabs have ids of their own and Tabs share no Pane; the       *)
(* active Session exists, and so does every Session's active Tab, after any *)
(* cascade of a close, a delete or a move (repair_active_session, close_tab,*)
(* move_tab, reseed).                                                       *)
WellFormed ==
  /\ {ws.next, ws.active} \subseteq Nat /\ lives \in 1..MaxLives /\ unsaved \in BOOLEAN
  /\ hosted \cup DOMAIN surfaces \subseteq 1..nextSurface - 1
  /\ \A u \in DOMAIN surfaces : surfaces[u] \in [running : BOOLEAN, pristine : BOOLEAN, child : BOOLEAN]
  /\ SessionIds(ws) \cap TabIds(ws) = {}
  /\ \A i \in SessionIds(ws) \cup TabIds(ws) : i < ws.next
  /\ \A s, t \in Tabs(ws) : s # t => s.id # t.id /\ Leaves(s.layout) \cap Leaves(t.layout) = {}
  /\ \A t \in Tabs(ws) : \A p, q \in DOMAIN t.layout.pane : p # q => t.layout.pane[p] # t.layout.pane[q]
  /\ IF ws.sessions = <<>> THEN ws.active = None ELSE ws.active \in SessionIds(ws)
  /\ \A i, k \in DOMAIN ws.sessions : i # k =>
       /\ ws.sessions[i].id # ws.sessions[k].id
       /\ ToSet(ws.sessions[i].tabs) \cap ToSet(ws.sessions[k].tabs) = {}
  /\ \A i \in DOMAIN ws.sessions :
       LET s == ws.sessions[i] IN
       /\ \A j, k \in DOMAIN s.tabs : j # k => s.tabs[j] # s.tabs[k]
       /\ IF s.tabs = <<>> THEN s.tab = None ELSE s.tab \in {t.id : t \in ToSet(s.tabs)}

(* The supervisor hosts the Surfaces the document knows, and only those:    *)
(* whatever is closed, and wherever a shell fails to start, no process is   *)
(* left behind and no Surface is without one (kill_surface, spawn_resolved).*)
ProcessesMatch == hosted = DOMAIN surfaces

(* Every Pane shows a Surface the document knows, and every Surface but     *)
(* those of surface.create is in a Pane: a request that fails half-way      *)
(* leaves none behind (tab.create, tab.split).                              *)
NoOrphans ==
  /\ Shown(ws) \subseteq DOMAIN surfaces
  /\ DOMAIN surfaces \ Shown(ws) \subseteq loose

(* A client that has the newest document has the document as it is, and so  *)
(* has the Persister: nothing in it changes without a new revision          *)
(* (handle_request, handle_surface_event).  It is not so while no Session   *)
(* is left because the shell of the default one did not start: the request  *)
(* that closed the last one fails without a revision (reseed_default).      *)
Announced == ws.sessions # <<>> => given = Document

(* An id that workspace.json ever held is not given to another Session or   *)
(* Tab by a later daemon (next_id, set_next_id).                            *)
IdsFresh == onDisk < ws.next

(* The shape of the Workspace: Sessions, Tabs and Splits without the        *)
(* Surfaces in them                                                         *)
Shape(sessions) ==
  [i \in DOMAIN sessions |->
     [id |-> sessions[i].id, tab |-> sessions[i].tab,
      tabs |-> [k \in DOMAIN sessions[i].tabs |->
                  LET t == sessions[i].tabs[k]
                  IN [id |-> t.id, panes |-> DOMAIN t.layout.pane, ratio |-> t.layout.ratio]]]]

(* A daemon that starts from a workspace.json that is up to date, and whose *)
(* shells all start, has every Session that has a Tab, with its Tabs, their *)
(* order, their Splits and its active Tab, and the active Session           *)
(* (snapshot_file and reseed).                                              *)
ShapeReturns ==
  lives' # lives /\ disk = File(ws, DOMAIN surfaces) /\ hosted' = 1..nextSurface' - 1 =>
    LET old == WithTabs(ws.sessions)
    IN old # <<>> => /\ Shape(ws'.sessions) = Shape(old)
                     /\ ws.active \in {s.id : s \in ToSet(old)} => ws'.active = ws.active

ShapeSurvives == [][ShapeReturns]_vars
=============================================================================
