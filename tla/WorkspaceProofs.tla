--------------------------- MODULE WorkspaceProofs ---------------------------
(***************************************************************************)
(* Proofs about module Workspace, for any number of ids, Surfaces and      *)
(* daemons, any reports of the Surfaces and wherever a shell may fail to   *)
(* start.                                                                  *)
(***************************************************************************)
EXTENDS Workspace, LayoutProofs

(* Closing Panes takes the same Surfaces from the document and from the      *)
(* supervisor (delete_session, close_tab and close_pane next to             *)
(* kill_surface), whether or not the default Session that may have to be    *)
(* seeded gets its shell.                                                   *)
LEMMA ClosedStep ==
  ASSUME ProcessesMatch, NEW w, NEW gone, Closed(w, gone)
  PROVE  ProcessesMatch'
<1>1. CASE w.sessions # <<>> /\ Killed(gone)
  BY <1>1 DEF Killed, ProcessesMatch
<1>2. CASE /\ surfaces' = [v \in (DOMAIN surfaces \ gone) \cup {nextSurface} |->
                            IF v = nextSurface THEN Fresh(TRUE) ELSE surfaces[v]]
           /\ hosted' = (hosted \ gone) \cup {nextSurface}
  BY <1>2 DEF ProcessesMatch
<1>3. CASE w.sessions = <<>> /\ Killed(gone)
  BY <1>3 DEF Killed, ProcessesMatch
<1> QED BY <1>1, <1>2, <1>3 DEF Closed

(* A shell that starts is registered with both (spawn_resolved).            *)
LEMMA SpawnedStep ==
  ASSUME ProcessesMatch, NEW u, NEW seeded, Spawned(u, seeded)
  PROVE  ProcessesMatch'
BY DEF Spawned, ProcessesMatch

(* A change of the document's Sessions and Tabs alone leaves both as they    *)
(* are.                                                                     *)
LEMMA EditedStep ==
  ASSUME ProcessesMatch, NEW w, Edited(w)
  PROVE  ProcessesMatch'
BY DEF Edited, ProcessesMatch

(* A report of a Surface adds and removes none.                             *)
LEMMA ReportedStep ==
  ASSUME ProcessesMatch, NEW u \in DOMAIN surfaces, NEW s, Reported(u, s)
  PROVE  ProcessesMatch'
BY DEF Reported, ProcessesMatch

(* Another daemon hosts what it has made Surfaces of.                       *)
LEMMA RestartStep == Restart => ProcessesMatch'
BY DEF Restart, ProcessesMatch

(* So does the first one.                                                   *)
LEMMA ProcessesMatchInit == Init => ProcessesMatch
BY DEF Init, ProcessesMatch

(* Every step keeps both alike.                                             *)
LEMMA ProcessesMatchStep == ProcessesMatch /\ [Next]_vars => ProcessesMatch'
<1> SUFFICES ASSUME ProcessesMatch, [Next]_vars PROVE ProcessesMatch'
  OBVIOUS
<1>1. CASE SessionCreate
  BY <1>1, EditedStep DEF SessionCreate
<1>2. CASE SessionDelete
  BY <1>2, ClosedStep DEF SessionDelete
<1>3. CASE SessionSetActive
  BY <1>3, EditedStep DEF SessionSetActive
<1>4. CASE TabCreateSpawn
  BY <1>4, SpawnedStep DEF TabCreateSpawn
<1>5. CASE TabCreateSurface
  BY <1>5, EditedStep DEF TabCreateSurface
<1>6. CASE TabClose
  BY <1>6, ClosedStep DEF TabClose
<1>7. CASE TabSplit
  BY <1>7, SpawnedStep DEF TabSplit
<1>8. CASE PaneClose
  BY <1>8, ClosedStep DEF PaneClose
<1>9. CASE TabReorder
  BY <1>9, EditedStep DEF TabReorder
<1>10. CASE TabMove
  BY <1>10, EditedStep DEF TabMove
<1>11. CASE TabSetActive
  BY <1>11, EditedStep DEF TabSetActive
<1>12. CASE TabSetRatio
  BY <1>12, EditedStep DEF TabSetRatio
<1>13. CASE SurfaceCreate
  BY <1>13, SpawnedStep DEF SurfaceCreate
<1>14. CASE SurfaceExited
  BY <1>14, ReportedStep DEF SurfaceExited
<1>15. CASE ForegroundChild
  BY <1>15, ReportedStep DEF ForegroundChild
<1>16. CASE SurfaceInput
  BY <1>16, ReportedStep DEF SurfaceInput
<1>17. CASE PersistWrite
  BY <1>17 DEF PersistWrite, Written, ProcessesMatch
<1>18. CASE Flush
  BY <1>18 DEF Flush, Written, ProcessesMatch
<1>19. CASE Restart
  BY <1>19, RestartStep
<1>20. CASE Relabelled
  BY <1>20, EditedStep DEF Relabelled
<1>21. CASE UNCHANGED vars
  BY <1>21 DEF vars, ProcessesMatch
<1> QED BY <1>1, <1>2, <1>3, <1>4, <1>5, <1>6, <1>7, <1>8, <1>9, <1>10, <1>11, <1>12,
           <1>13, <1>14, <1>15, <1>16, <1>17, <1>18, <1>19, <1>20, <1>21 DEF Next, Requests, Storage

(* The supervisor hosts exactly the Surfaces of the document: no request,    *)
(* report or restart, and no shell that fails to start, leaves a process    *)
(* without its Surface or a Surface without its slot.                       *)
THEOREM NoProcessLeftBehind == Spec => []ProcessesMatch
BY ProcessesMatchInit, ProcessesMatchStep, PTL DEF Spec
-----------------------------------------------------------------------------
(* Revisions.                                                              *)

SurfaceRecord == [running : BOOLEAN, pristine : BOOLEAN, child : BOOLEAN]

SurfacesTyped == \A u \in DOMAIN surfaces : surfaces[u] \in SurfaceRecord

(* What a report or a restart leaves is a Surface; the rest is as it was    *)
TypedAnnounced == SurfacesTyped /\ Announced

(* A Surface that starts is running and has no child.                       *)
LEMMA FreshTyped ==
  ASSUME NEW seeded \in BOOLEAN
  PROVE  /\ Fresh(seeded) \in SurfaceRecord
         /\ Fresh(seeded).running = TRUE /\ Fresh(seeded).child = FALSE
BY DEF Fresh, SurfaceRecord

(* A revision announces whatever has changed                               *)
LEMMA BumpedAnnounces == Bumped => Announced'
BY DEF Bumped, Announced

(* Changes of the document alone are announced.                             *)
LEMMA EditedAnnounces ==
  ASSUME TypedAnnounced, NEW w, Edited(w)
  PROVE  TypedAnnounced'
BY BumpedAnnounces DEF Edited, TypedAnnounced, SurfacesTyped

(* So are Surfaces that start,                                              *)
LEMMA SpawnedAnnounces ==
  ASSUME TypedAnnounced, NEW u, Spawned(u, FALSE), Bumped
  PROVE  TypedAnnounced'
<1>1. surfaces' = [v \in DOMAIN surfaces \cup {u} |-> IF v = u THEN Fresh(FALSE) ELSE surfaces[v]]
  BY DEF Spawned
<1>2. SurfacesTyped'
  BY <1>1, FreshTyped DEF TypedAnnounced, SurfacesTyped
<1> QED BY <1>2, BumpedAnnounces DEF TypedAnnounced

(* and those that go, but for the failure that leaves no Session.           *)
LEMMA ClosedAnnounces ==
  ASSUME TypedAnnounced, NEW w, NEW gone, Closed(w, gone)
  PROVE  TypedAnnounced'
<1>1. CASE Killed(gone) /\ (Bumped \/ ws'.sessions = <<>>)
  BY <1>1, BumpedAnnounces DEF Killed, TypedAnnounced, SurfacesTyped, Announced
<1>2. CASE /\ surfaces' = [v \in (DOMAIN surfaces \ gone) \cup {nextSurface} |->
                            IF v = nextSurface THEN Fresh(TRUE) ELSE surfaces[v]]
           /\ Bumped
  <2>1. SurfacesTyped'
    BY <1>2, FreshTyped DEF TypedAnnounced, SurfacesTyped
  <2> QED BY <1>2, <2>1, BumpedAnnounces DEF TypedAnnounced
<1> QED BY <1>1, <1>2 DEF Closed

(* A report without a revision changes nothing a client is told            *)
LEMMA ReportedAnnounces ==
  ASSUME TypedAnnounced, NEW u \in DOMAIN surfaces, NEW s \in SurfaceRecord, Reported(u, s),
         \/ Bumped
         \/ /\ given' = given
            /\ s.running = surfaces[u].running /\ s.child = surfaces[u].child
  PROVE  TypedAnnounced'
<1>1. surfaces' = [surfaces EXCEPT ![u] = s] /\ ws' = ws
  BY DEF Reported
<1>2. SurfacesTyped'
  BY <1>1 DEF TypedAnnounced, SurfacesTyped
<1>3. CASE Bumped
  BY <1>2, <1>3, BumpedAnnounces DEF TypedAnnounced
<1>4. CASE given' = given /\ s.running = surfaces[u].running /\ s.child = surfaces[u].child
  <2>1. /\ DOMAIN surfaces' = DOMAIN surfaces
        /\ \A v \in DOMAIN surfaces :
             surfaces'[v].running = surfaces[v].running /\ surfaces'[v].child = surfaces[v].child
    BY <1>1, <1>4
  <2>2. [v \in DOMAIN surfaces' |-> [running |-> surfaces'[v].running, child |-> surfaces'[v].child]]
          = [v \in DOMAIN surfaces |-> [running |-> surfaces[v].running, child |-> surfaces[v].child]]
    BY <2>1
  <2>3. Document' = Document
    BY <1>1, <2>2 DEF Document
  <2> QED BY <1>1, <1>2, <1>4, <2>3 DEF TypedAnnounced, Announced
<1> QED BY <1>3, <1>4

(* An exit is announced.                                                    *)
LEMMA SurfaceExitedAnnounces == TypedAnnounced /\ SurfaceExited => TypedAnnounced'
<1> SUFFICES ASSUME TypedAnnounced, SurfaceExited PROVE TypedAnnounced'
  OBVIOUS
<1> DEFINE s == [running |-> FALSE, pristine |-> FALSE, child |-> FALSE]
<1>1. PICK u \in DOMAIN surfaces : Reported(u, s) /\ Bumped
  BY DEF SurfaceExited
<1>2. s \in SurfaceRecord
  BY DEF SurfaceRecord
<1> QED BY <1>1, <1>2, ReportedAnnounces

(* So is a foreground child that comes or goes.                             *)
LEMMA ForegroundChildAnnounces == TypedAnnounced /\ ForegroundChild => TypedAnnounced'
<1> SUFFICES ASSUME TypedAnnounced, ForegroundChild PROVE TypedAnnounced'
  OBVIOUS
<1>1. PICK u \in DOMAIN surfaces, present \in BOOLEAN :
        /\ Reported(u, [surfaces[u] EXCEPT !.child = present, !.pristine = @ /\ ~present])
        /\ Bumped
  BY DEF ForegroundChild
<1>2. surfaces[u] \in SurfaceRecord
  BY DEF TypedAnnounced, SurfacesTyped
<1>3. [surfaces[u] EXCEPT !.child = present, !.pristine = @ /\ ~present] \in SurfaceRecord
  BY <1>2 DEF SurfaceRecord
<1> QED BY <1>1, <1>3, ReportedAnnounces

(* Input changes nothing that is announced.                                 *)
LEMMA SurfaceInputAnnounces == TypedAnnounced /\ SurfaceInput => TypedAnnounced'
<1> SUFFICES ASSUME TypedAnnounced, SurfaceInput PROVE TypedAnnounced'
  OBVIOUS
<1>1. PICK u \in DOMAIN surfaces : /\ Reported(u, [surfaces[u] EXCEPT !.pristine = FALSE])
                                   /\ given' = given
  BY DEF SurfaceInput
<1> DEFINE s == [surfaces[u] EXCEPT !.pristine = FALSE]
<1>2. surfaces[u] \in SurfaceRecord
  BY DEF TypedAnnounced, SurfacesTyped
<1>3. s \in SurfaceRecord /\ s.running = surfaces[u].running /\ s.child = surfaces[u].child
  BY <1>2 DEF SurfaceRecord
<1> QED BY <1>1, <1>3, ReportedAnnounces

(* A daemon that starts gives the clients that come first what it has       *)
LEMMA StartedIsDocument ==
  ASSUME NEW b, ws = b.ws, surfaces = [u \in b.surfaces |-> Fresh(TRUE)]
  PROVE  Document = Started(b) /\ SurfacesTyped
<1>1. DOMAIN surfaces = b.surfaces /\ \A u \in b.surfaces : surfaces[u] = Fresh(TRUE)
  OBVIOUS
<1>2. [u \in DOMAIN surfaces |-> [running |-> surfaces[u].running, child |-> surfaces[u].child]]
        = [u \in b.surfaces |-> [running |-> TRUE, child |-> FALSE]]
  BY <1>1, FreshTyped
<1> QED BY <1>1, <1>2, FreshTyped DEF Document, Started, SurfacesTyped

(* Another daemon starts with what it announces.                            *)
LEMMA RestartAnnounces == Restart => TypedAnnounced'
<1> SUFFICES ASSUME Restart PROVE TypedAnnounced'
  OBVIOUS
<1>1. PICK b : /\ ws' = b.ws /\ surfaces' = [u \in b.surfaces |-> Fresh(TRUE)]
               /\ given' = Started(b)
  BY DEF Restart
<1>2. DOMAIN surfaces' = b.surfaces /\ \A u \in b.surfaces : surfaces'[u] = Fresh(TRUE)
  BY <1>1
<1>3. [u \in DOMAIN surfaces' |-> [running |-> surfaces'[u].running, child |-> surfaces'[u].child]]
        = [u \in b.surfaces |-> [running |-> TRUE, child |-> FALSE]]
  BY <1>2, FreshTyped
<1> QED BY <1>1, <1>2, <1>3, FreshTyped
        DEF Document, Started, SurfacesTyped, TypedAnnounced, Announced

(* So does the first one.                                                   *)
LEMMA AnnouncedInit == Init => TypedAnnounced
<1> SUFFICES ASSUME Init PROVE TypedAnnounced
  OBVIOUS
<1>1. PICK b : /\ ws = b.ws /\ surfaces = [u \in b.surfaces |-> Fresh(TRUE)]
               /\ given = Started(b)
  BY DEF Init
<1> QED BY <1>1, StartedIsDocument DEF TypedAnnounced, Announced

(* No step changes the document silently.                                   *)
LEMMA AnnouncedStep == TypedAnnounced /\ [Next]_vars => TypedAnnounced'
<1> SUFFICES ASSUME TypedAnnounced, [Next]_vars PROVE TypedAnnounced'
  OBVIOUS
<1>1. CASE SessionCreate \/ SessionSetActive \/ Relabelled
  BY <1>1, EditedAnnounces DEF SessionCreate, SessionSetActive, Relabelled
<1>2. CASE TabCreateSurface \/ TabReorder \/ TabMove
  BY <1>2, EditedAnnounces DEF TabCreateSurface, TabReorder, TabMove
<1>3. CASE TabSetActive \/ TabSetRatio
  BY <1>3, EditedAnnounces DEF TabSetActive, TabSetRatio
<1>4. CASE TabCreateSpawn \/ TabSplit \/ SurfaceCreate
  BY <1>4, SpawnedAnnounces DEF TabCreateSpawn, TabSplit, SurfaceCreate
<1>5. CASE SessionDelete \/ TabClose \/ PaneClose
  BY <1>5, ClosedAnnounces DEF SessionDelete, TabClose, PaneClose
<1>6. CASE SurfaceExited \/ ForegroundChild \/ SurfaceInput
  BY <1>6, SurfaceExitedAnnounces, ForegroundChildAnnounces, SurfaceInputAnnounces
<1>7. CASE PersistWrite \/ Flush \/ UNCHANGED vars
  <2>1. ws' = ws /\ surfaces' = surfaces /\ given' = given
    BY <1>7 DEF PersistWrite, Flush, Written, vars
  <2> QED BY <2>1 DEF TypedAnnounced, SurfacesTyped, Announced, Document
<1>8. CASE Restart
  BY <1>8, RestartAnnounces
<1> QED BY <1>1, <1>2, <1>3, <1>4, <1>5, <1>6, <1>7, <1>8 DEF Next, Requests, Storage

(* While a Session is left, what was last published and handed to the        *)
(* Persister is the document: no request, report or restart changes it      *)
(* without a revision.                                                      *)
THEOREM NothingUnannounced == Spec => []Announced
<1>1. TypedAnnounced => Announced
  BY DEF TypedAnnounced
<1> QED BY <1>1, AnnouncedInit, AnnouncedStep, PTL DEF Spec
-----------------------------------------------------------------------------
(* Tabs and Sessions                                                       *)

TabRecord     == [id : Nat, layout : Trees]
SessionRecord == [id : Nat, tab : Nat, tabs : Seq(TabRecord)]
Workspaces    == [next : Nat, active : Nat, sessions : Seq(SessionRecord)]

IdsOf(tabs) == {t.id : t \in ToSet(tabs)}

(* No id twice in a list of Tabs                                           *)
Listed(tabs) == \A j, k \in DOMAIN tabs : tabs[j].id = tabs[k].id => j = k

(* Every Session and every Tab has an id of its own, below the counter     *)
Numbered(w) ==
  /\ w \in Workspaces
  /\ \A i \in DOMAIN w.sessions : Listed(w.sessions[i].tabs)
  /\ \A i, k \in DOMAIN w.sessions :
       i # k => /\ w.sessions[i].id # w.sessions[k].id
                /\ IdsOf(w.sessions[i].tabs) \cap IdsOf(w.sessions[k].tabs) = {}
  /\ SessionIds(w) \cap TabIds(w) = {}
  /\ \A x \in SessionIds(w) \cup TabIds(w) : x < w.next

(* Tabs share no Surface                                                   *)
PanesApart(w) == \A s, t \in Tabs(w) : s.id # t.id => Leaves(s.layout) \cap Leaves(t.layout) = {}

(* The members of a list, by position and as a set.                         *)
LEMMA ListIs ==
  ASSUME NEW S, NEW s \in Seq(S)
  PROVE  /\ Len(s) \in Nat /\ DOMAIN s = 1..Len(s)
         /\ \A i \in DOMAIN s : s[i] \in S /\ s[i] \in ToSet(s)
         /\ \A x \in ToSet(s) : x \in S /\ \E i \in DOMAIN s : s[i] = x
         /\ s = <<>> <=> DOMAIN s = {}
         /\ s = <<>> <=> Len(s) = 0
         /\ s # <<>> => 1 \in DOMAIN s /\ Len(s) > 0
<1>1. Len(s) \in Nat /\ DOMAIN s = 1..Len(s) /\ \A i \in 1..Len(s) : s[i] \in S
  BY LenProperties
<1>2. s = <<>> <=> Len(s) = 0
  BY EmptySeq
<1>3. ToSet(s) = {s[i] : i \in DOMAIN s}
  BY DEF ToSet
<1>4. \A i \in DOMAIN s : s[i] \in S /\ s[i] \in ToSet(s)
  BY <1>1, <1>3
<1>5. \A x \in ToSet(s) : x \in S /\ \E i \in DOMAIN s : s[i] = x
  BY <1>1, <1>3
<1>6. (DOMAIN s = {} <=> Len(s) = 0) /\ (Len(s) # 0 => 1 \in DOMAIN s /\ Len(s) > 0)
  <2>1. Len(s) = 0 => DOMAIN s = {}
    BY <1>1
  <2>2. Len(s) # 0 => 1 \in DOMAIN s /\ Len(s) > 0
    BY <1>1
  <2> QED
    BY <2>1, <2>2
<1> QED
  BY <1>1, <1>2, <1>4, <1>5, <1>6

(* A list of Tabs without one of them,                                      *)
LEMMA TakenTabs ==
  ASSUME NEW tabs \in Seq(TabRecord), Listed(tabs), NEW k \in DOMAIN tabs
  PROVE  /\ RemoveAt(tabs, k) \in Seq(TabRecord) /\ Listed(RemoveAt(tabs, k))
         /\ ToSet(RemoveAt(tabs, k)) = ToSet(tabs) \ {tabs[k]}
         /\ IdsOf(RemoveAt(tabs, k)) = IdsOf(tabs) \ {tabs[k].id}
         /\ Len(RemoveAt(tabs, k)) = Len(tabs) - 1
<1> DEFINE r == RemoveAt(tabs, k)  n == Len(tabs)  old(m) == IF m < k THEN m ELSE m + 1
<1>1. /\ n \in Nat /\ DOMAIN tabs = 1..n
      /\ \A x \in ToSet(tabs) : \E i \in DOMAIN tabs : tabs[i] = x
      /\ \A i \in DOMAIN tabs : tabs[i] \in ToSet(tabs)
  BY ListIs
<1>2. r \in Seq(TabRecord) /\ Len(r) = n - 1 /\ \A m \in 1..n - 1 : r[m] = tabs[old(m)]
  BY RemoveAtKeeps
<1> HIDE DEF r
<1>3. DOMAIN r = 1..n - 1
  BY <1>2, ListIs
<1> HIDE DEF n
<1>4. \A m \in 1..n - 1 : old(m) \in 1..n /\ old(m) # k
  BY <1>1
<1>5. \A m, q \in 1..n - 1 : old(m) = old(q) => m = q
  BY <1>1
<1>6. \A j \in 1..n : j # k => \E m \in 1..n - 1 : old(m) = j
  <2> SUFFICES ASSUME NEW j \in 1..n, j # k PROVE \E m \in 1..n - 1 : old(m) = j
    OBVIOUS
  <2>1. CASE j < k
    <3>1. j \in 1..n - 1 /\ old(j) = j
      BY <1>1, <2>1
    <3> QED
      BY <3>1
  <2>2. CASE j > k
    <3>1. j - 1 \in 1..n - 1 /\ old(j - 1) = j
      BY <1>1, <2>2
    <3> QED
      BY <3>1
  <2> QED
    BY <1>1, <2>1, <2>2
<1> HIDE DEF old
<1>7. Listed(r)
  BY <1>1, <1>2, <1>3, <1>4, <1>5 DEF Listed
<1>8. ToSet(r) = ToSet(tabs) \ {tabs[k]}
  <2>1. ASSUME NEW x \in ToSet(r) PROVE x \in ToSet(tabs) /\ x # tabs[k]
    <3>1. PICK m \in 1..n - 1 : x = tabs[old(m)]
      BY <1>2, <1>3 DEF ToSet
    <3> QED
      BY <1>1, <1>4, <3>1 DEF Listed
  <2>2. ASSUME NEW x \in ToSet(tabs), x # tabs[k] PROVE x \in ToSet(r)
    <3>1. PICK j \in 1..n : tabs[j] = x /\ j # k
      BY <1>1, <2>2
    <3>2. PICK m \in 1..n - 1 : old(m) = j
      BY <1>6, <3>1
    <3>3. r[m] = x /\ m \in DOMAIN r
      BY <1>2, <1>3, <3>1, <3>2
    <3> QED
      BY <3>3 DEF ToSet
  <2> QED
    BY <2>1, <2>2
<1>9. \A t \in ToSet(tabs) : t.id = tabs[k].id => t = tabs[k]
  BY <1>1 DEF Listed
<1>10. IdsOf(r) = IdsOf(tabs) \ {tabs[k].id}
  BY <1>8, <1>9 DEF IdsOf
<1> QED
  BY <1>2, <1>7, <1>8, <1>10 DEF r, n

(* with another one,                                                        *)
LEMMA PutTabs ==
  ASSUME NEW tabs \in Seq(TabRecord), Listed(tabs), NEW k \in Nat \ {0},
         NEW tab \in TabRecord, tab.id \notin IdsOf(tabs)
  PROVE  /\ Inserted(tabs, k, tab) \in Seq(TabRecord) /\ Listed(Inserted(tabs, k, tab))
         /\ ToSet(Inserted(tabs, k, tab)) = ToSet(tabs) \cup {tab}
         /\ IdsOf(Inserted(tabs, k, tab)) = IdsOf(tabs) \cup {tab.id}
         /\ Inserted(tabs, k, tab) # <<>>
<1> DEFINE n == Len(tabs)
           at == IF k > n THEN n + 1 ELSE k
           r == InsertAt(tabs, at, tab)
           old(m) == IF m < at THEN m ELSE m - 1
<1>1. /\ n \in Nat /\ DOMAIN tabs = 1..n
      /\ \A x \in ToSet(tabs) : \E i \in DOMAIN tabs : tabs[i] = x
      /\ \A i \in DOMAIN tabs : tabs[i] \in ToSet(tabs)
  BY ListIs
<1>2. Inserted(tabs, k, tab) = r
  BY DEF Inserted
<1>3. at \in 1..n + 1
  BY <1>1
<1> HIDE DEF at
<1>4. /\ r \in Seq(TabRecord) /\ Len(r) = n + 1
      /\ \A m \in 1..n + 1 : r[m] = IF m = at THEN tab ELSE tabs[old(m)]
  BY <1>3, InsertAtKeeps
<1> HIDE DEF r, n
<1>5. DOMAIN r = 1..n + 1 /\ r # <<>>
  BY <1>1, <1>4, ListIs
<1>6. \A m \in 1..n + 1 : m # at => old(m) \in 1..n
  BY <1>1, <1>3
<1>7. \A m, q \in 1..n + 1 : m # at /\ q # at /\ old(m) = old(q) => m = q
  BY <1>1, <1>3
<1>8. \A j \in 1..n : \E m \in 1..n + 1 : m # at /\ old(m) = j
  <2> SUFFICES ASSUME NEW j \in 1..n PROVE \E m \in 1..n + 1 : m # at /\ old(m) = j
    OBVIOUS
  <2>1. CASE j < at
    <3>1. j \in 1..n + 1 /\ j # at /\ old(j) = j
      BY <1>1, <1>3, <2>1
    <3> QED
      BY <3>1
  <2>2. CASE ~(j < at)
    <3>1. j + 1 \in 1..n + 1 /\ j + 1 # at /\ old(j + 1) = j
      BY <1>1, <1>3, <2>2
    <3> QED
      BY <3>1
  <2> QED
    BY <2>1, <2>2
<1> HIDE DEF old
<1>9. \A j \in 1..n : tabs[j].id # tab.id
  BY <1>1 DEF IdsOf
<1>10. Listed(r)
  <2> SUFFICES ASSUME NEW m \in 1..n + 1, NEW q \in 1..n + 1, r[m].id = r[q].id PROVE m = q
    BY <1>5 DEF Listed
  <2>1. CASE m = at \/ q = at
    BY <1>4, <1>6, <1>9, <2>1
  <2>2. CASE m # at /\ q # at
    <3>1. tabs[old(m)].id = tabs[old(q)].id /\ old(m) \in 1..n /\ old(q) \in 1..n
      BY <1>4, <1>6, <2>2
    <3> QED
      BY <1>1, <1>7, <2>2, <3>1 DEF Listed
  <2> QED
    BY <2>1, <2>2
<1>11. ToSet(r) = ToSet(tabs) \cup {tab}
  <2>1. ASSUME NEW x \in ToSet(r) PROVE x \in ToSet(tabs) \cup {tab}
    <3>1. PICK m \in 1..n + 1 : x = r[m]
      BY <1>5 DEF ToSet
    <3> QED
      BY <1>1, <1>4, <1>6, <3>1
  <2>2. ASSUME NEW x \in ToSet(tabs) PROVE x \in ToSet(r)
    <3>1. PICK j \in 1..n : tabs[j] = x
      BY <1>1
    <3>2. PICK m \in 1..n + 1 : m # at /\ old(m) = j
      BY <1>8
    <3>3. r[m] = x
      BY <1>4, <3>1, <3>2
    <3> QED
      BY <1>5, <3>3 DEF ToSet
  <2>3. tab \in ToSet(r)
    BY <1>3, <1>4, <1>5 DEF ToSet
  <2> QED
    BY <2>1, <2>2, <2>3
<1>12. IdsOf(r) = IdsOf(tabs) \cup {tab.id}
  BY <1>11 DEF IdsOf
<1> QED
  BY <1>2, <1>4, <1>5, <1>10, <1>11, <1>12

(* and with one changed, keeps the ids apart.                               *)
LEMMA ChangedTabs ==
  ASSUME NEW tabs \in Seq(TabRecord), Listed(tabs), NEW k \in DOMAIN tabs,
         NEW tab \in TabRecord, tab.id = tabs[k].id
  PROVE  /\ [tabs EXCEPT ![k] = tab] \in Seq(TabRecord) /\ Listed([tabs EXCEPT ![k] = tab])
         /\ ToSet([tabs EXCEPT ![k] = tab]) = (ToSet(tabs) \ {tabs[k]}) \cup {tab}
         /\ IdsOf([tabs EXCEPT ![k] = tab]) = IdsOf(tabs)
         /\ [tabs EXCEPT ![k] = tab] # <<>>
<1> DEFINE r == [tabs EXCEPT ![k] = tab]
<1>1. /\ Len(tabs) \in Nat /\ DOMAIN tabs = 1..Len(tabs)
      /\ \A x \in ToSet(tabs) : \E i \in DOMAIN tabs : tabs[i] = x
      /\ \A i \in DOMAIN tabs : tabs[i] \in ToSet(tabs)
  BY ListIs
<1>2. /\ r \in Seq(TabRecord) /\ Len(r) = Len(tabs)
      /\ \A j \in DOMAIN tabs : r[j] = IF j = k THEN tab ELSE tabs[j]
  BY <1>1, ExceptSeq
<1> HIDE DEF r
<1>3. DOMAIN r = DOMAIN tabs /\ r # <<>>
  BY <1>1, <1>2, ListIs
<1>4. Listed(r)
  BY <1>2, <1>3 DEF Listed
<1>5. ToSet(r) = (ToSet(tabs) \ {tabs[k]}) \cup {tab}
  <2>1. ASSUME NEW x \in ToSet(r) PROVE x \in (ToSet(tabs) \ {tabs[k]}) \cup {tab}
    <3>1. PICK j \in DOMAIN tabs : x = r[j]
      BY <1>3 DEF ToSet
    <3>2. CASE j = k
      BY <1>2, <3>1, <3>2
    <3>3. CASE j # k
      <4>1. x = tabs[j] /\ tabs[j] # tabs[k]
        BY <1>2, <3>1, <3>3 DEF Listed
      <4> QED
        BY <1>1, <4>1
    <3> QED
      BY <3>2, <3>3
  <2>2. ASSUME NEW x \in ToSet(tabs) \ {tabs[k]} PROVE x \in ToSet(r)
    <3>1. PICK j \in DOMAIN tabs : x = tabs[j] /\ j # k
      BY <1>1
    <3> QED
      BY <1>2, <1>3, <3>1 DEF ToSet
  <2>3. tab \in ToSet(r)
    BY <1>2, <1>3 DEF ToSet
  <2> QED
    BY <2>1, <2>2, <2>3
<1>6. IdsOf(r) = IdsOf(tabs)
  <2>1. \A x \in ToSet(tabs) : x.id \in IdsOf(r)
    BY <1>5 DEF IdsOf
  <2>2. \A x \in ToSet(r) : x.id \in IdsOf(tabs)
    BY <1>1, <1>5 DEF IdsOf
  <2> QED
    BY <2>1, <2>2 DEF IdsOf
<1> QED
  BY <1>2, <1>3, <1>4, <1>5, <1>6 DEF r

(* What a Workspace is made of.                                             *)
LEMMA WorkspaceIs ==
  ASSUME NEW w \in Workspaces
  PROVE  /\ w = [next |-> w.next, active |-> w.active, sessions |-> w.sessions]
         /\ w.next \in Nat /\ w.active \in Nat /\ w.sessions \in Seq(SessionRecord)
         /\ DOMAIN w.sessions = 1..Len(w.sessions) /\ Len(w.sessions) \in Nat
         /\ \A i \in DOMAIN w.sessions :
              LET s == w.sessions[i]
              IN /\ s \in SessionRecord /\ s = [id |-> s.id, tab |-> s.tab, tabs |-> s.tabs]
                 /\ s.id \in Nat /\ s.tab \in Nat /\ s.tabs \in Seq(TabRecord)
                 /\ s.id \in SessionIds(w) /\ ToSet(s.tabs) \in SUBSET Tabs(w)
         /\ \A t \in Tabs(w) : t \in TabRecord /\ t.id \in Nat /\ t.layout \in Trees /\ t.id \in TabIds(w)
<1>1. /\ w = [next |-> w.next, active |-> w.active, sessions |-> w.sessions]
      /\ w.next \in Nat /\ w.active \in Nat /\ w.sessions \in Seq(SessionRecord)
  BY DEF Workspaces
<1>2. DOMAIN w.sessions = 1..Len(w.sessions) /\ Len(w.sessions) \in Nat
  BY <1>1, ListIs
<1>3. \A i \in DOMAIN w.sessions : w.sessions[i] \in SessionRecord
  BY <1>1, ListIs
<1>4. \A s \in SessionRecord : /\ s = [id |-> s.id, tab |-> s.tab, tabs |-> s.tabs]
                               /\ s.id \in Nat /\ s.tab \in Nat /\ s.tabs \in Seq(TabRecord)
  BY DEF SessionRecord
<1>5. \A i \in DOMAIN w.sessions : /\ w.sessions[i].id \in SessionIds(w)
                                   /\ ToSet(w.sessions[i].tabs) \in SUBSET Tabs(w)
  BY DEF SessionIds, Tabs
<1>6. ASSUME NEW t \in Tabs(w)
      PROVE  t \in TabRecord /\ t.id \in Nat /\ t.layout \in Trees /\ t.id \in TabIds(w)
  <2>1. PICK i \in DOMAIN w.sessions : t \in ToSet(w.sessions[i].tabs)
    BY DEF Tabs
  <2>2. w.sessions[i].tabs \in Seq(TabRecord)
    BY <1>3, <1>4
  <2>3. t \in TabRecord
    BY <2>1, <2>2, ListIs
  <2> QED
    BY <2>3 DEF TabRecord, TabIds
<1> QED
  BY <1>1, <1>2, <1>3, <1>4, <1>5, <1>6

(* The Tabs of a Workspace, Session by Session                             *)
LEMMA TabsBySession ==
  ASSUME NEW w
  PROVE  /\ \A t : t \in Tabs(w) <=> \E i \in DOMAIN w.sessions : t \in ToSet(w.sessions[i].tabs)
         /\ \A x : x \in TabIds(w) <=> \E i \in DOMAIN w.sessions : x \in IdsOf(w.sessions[i].tabs)
         /\ \A x : x \in SessionIds(w) <=> \E i \in DOMAIN w.sessions : x = w.sessions[i].id
<1>1. \A t : t \in Tabs(w) <=> \E i \in DOMAIN w.sessions : t \in ToSet(w.sessions[i].tabs)
  BY DEF Tabs
<1>2. \A x : x \in TabIds(w) <=> \E i \in DOMAIN w.sessions : x \in IdsOf(w.sessions[i].tabs)
  BY <1>1 DEF TabIds, IdsOf
<1> QED
  BY <1>1, <1>2 DEF SessionIds

(* No id stands for two Tabs                                               *)
LEMMA OneTabPerId ==
  ASSUME NEW w, Numbered(w)
  PROVE  /\ \A s, t \in Tabs(w) : s.id = t.id => s = t
         /\ \A i, k \in DOMAIN w.sessions :
              i # k => ToSet(w.sessions[i].tabs) \cap ToSet(w.sessions[k].tabs) = {}
         /\ \A i \in DOMAIN w.sessions : \A t \in Tabs(w) :
              t.id \in IdsOf(w.sessions[i].tabs) <=> t \in ToSet(w.sessions[i].tabs)
<1>1. w \in Workspaces
  BY DEF Numbered
<1>2. \A i \in DOMAIN w.sessions : w.sessions[i].tabs \in Seq(TabRecord) /\ Listed(w.sessions[i].tabs)
  BY <1>1, WorkspaceIs DEF Numbered
<1>3. \A i \in DOMAIN w.sessions : \A t \in ToSet(w.sessions[i].tabs) : t.id \in IdsOf(w.sessions[i].tabs)
  BY DEF IdsOf
<1>4. ASSUME NEW s \in Tabs(w), NEW t \in Tabs(w), s.id = t.id PROVE s = t
  <2>1. PICK i \in DOMAIN w.sessions : s \in ToSet(w.sessions[i].tabs)
    BY TabsBySession
  <2>2. PICK k \in DOMAIN w.sessions : t \in ToSet(w.sessions[k].tabs)
    BY TabsBySession
  <2>3. i = k
    BY <1>3, <1>4, <2>1, <2>2 DEF Numbered
  <2>4. PICK j \in DOMAIN w.sessions[i].tabs : w.sessions[i].tabs[j] = s
    BY <1>2, <2>1, ListIs
  <2>5. PICK m \in DOMAIN w.sessions[i].tabs : w.sessions[i].tabs[m] = t
    BY <1>2, <2>2, <2>3, ListIs
  <2> QED
    BY <1>2, <1>4, <2>4, <2>5 DEF Listed
<1>5. ASSUME NEW i \in DOMAIN w.sessions, NEW k \in DOMAIN w.sessions, i # k
      PROVE  ToSet(w.sessions[i].tabs) \cap ToSet(w.sessions[k].tabs) = {}
  BY <1>3, <1>5 DEF Numbered
<1>6. ASSUME NEW i \in DOMAIN w.sessions, NEW t \in Tabs(w)
      PROVE  t.id \in IdsOf(w.sessions[i].tabs) <=> t \in ToSet(w.sessions[i].tabs)
  <2>1. ASSUME t.id \in IdsOf(w.sessions[i].tabs) PROVE t \in ToSet(w.sessions[i].tabs)
    <3>1. PICK s \in ToSet(w.sessions[i].tabs) : s.id = t.id
      BY <2>1 DEF IdsOf
    <3>2. s \in Tabs(w)
      BY <3>1, TabsBySession
    <3> QED
      BY <1>4, <3>1, <3>2
  <2> QED
    BY <1>3, <2>1
<1> QED
  BY <1>4, <1>5, <1>6

(* Session s in the place of the i-th one, with its id, its Tabs and Tabs   *)
(* that have ids of X, which are in no other Session                       *)
Replacing(w, i, s, n) == [next |-> n, active |-> w.active, sessions |-> [w.sessions EXCEPT ![i] = s]]

Fits(w, i, s, n, X) ==
  /\ i \in DOMAIN w.sessions /\ s \in SessionRecord /\ s.id = w.sessions[i].id /\ Listed(s.tabs)
  /\ X \in SUBSET Nat /\ IdsOf(s.tabs) \in SUBSET (IdsOf(w.sessions[i].tabs) \cup X)
  /\ X \cap (SessionIds(w) \cup TabIds(w)) = {}
  /\ n \in Nat /\ n >= w.next /\ \A x \in X : x < n

Replaces(v, w, i, s, n) ==
  /\ Numbered(v) /\ SessionIds(v) = SessionIds(w) /\ DOMAIN v.sessions = DOMAIN w.sessions
  /\ v.sessions \in Seq(SessionRecord) /\ v.next = n /\ v.active = w.active
  /\ \A k \in DOMAIN w.sessions : v.sessions[k] = IF k = i THEN s ELSE w.sessions[k]
  /\ Tabs(v) = (Tabs(w) \ ToSet(w.sessions[i].tabs)) \cup ToSet(s.tabs)

(* One Session may be replaced by another one of its id.                    *)
LEMMA Replaced ==
  ASSUME NEW w, Numbered(w), NEW i, NEW s, NEW n, NEW X, Fits(w, i, s, n, X)
  PROVE  Replaces(Replacing(w, i, s, n), w, i, s, n)
<1> DEFINE v == Replacing(w, i, s, n)  a == w.active
<1> USE DEF Fits
<1>0. v = [next |-> n, active |-> a, sessions |-> [w.sessions EXCEPT ![i] = s]]
  BY DEF Replacing
<1> HIDE DEF v
<1>1. /\ w \in Workspaces /\ w.next \in Nat /\ w.active \in Nat /\ w.sessions \in Seq(SessionRecord)
      /\ DOMAIN w.sessions = 1..Len(w.sessions) /\ Len(w.sessions) \in Nat
  BY WorkspaceIs DEF Numbered
<1>2. /\ v.sessions \in Seq(SessionRecord) /\ Len(v.sessions) = Len(w.sessions)
      /\ \A k \in DOMAIN w.sessions : v.sessions[k] = IF k = i THEN s ELSE w.sessions[k]
  <2>1. v.sessions = [w.sessions EXCEPT ![i] = s]
    BY <1>0
  <2> QED
    BY <1>1, <2>1, ExceptSeq
<1>3. v.next = n /\ v.active = a /\ v \in Workspaces
  BY <1>0, <1>1, <1>2 DEF Workspaces
<1>4. DOMAIN v.sessions = DOMAIN w.sessions
  BY <1>1, <1>2, ListIs
<1>5. SessionIds(v) = SessionIds(w)
  <2>1. \A k \in DOMAIN w.sessions : v.sessions[k].id = w.sessions[k].id
    BY <1>2
  <2> QED
    BY <1>4, <2>1 DEF SessionIds
<1>6. TabIds(v) \in SUBSET (TabIds(w) \cup X)
  <2> SUFFICES ASSUME NEW x \in TabIds(v) PROVE x \in TabIds(w) \cup X
    OBVIOUS
  <2>1. PICK k \in DOMAIN v.sessions : x \in IdsOf(v.sessions[k].tabs)
    BY TabsBySession
  <2> QED
    BY <1>2, <1>4, <2>1, TabsBySession
<1>7. ASSUME NEW k \in DOMAIN w.sessions, k # i
      PROVE  IdsOf(s.tabs) \cap IdsOf(w.sessions[k].tabs) = {}
  <2>1. IdsOf(w.sessions[i].tabs) \cap IdsOf(w.sessions[k].tabs) = {}
    BY <1>7 DEF Numbered
  <2>2. IdsOf(w.sessions[k].tabs) \in SUBSET TabIds(w)
    BY TabsBySession
  <2> QED
    BY <2>1, <2>2
<1>8. Numbered(v)
  <2>1. \A k \in DOMAIN v.sessions : Listed(v.sessions[k].tabs)
    BY <1>2, <1>4 DEF Numbered
  <2>2. ASSUME NEW k \in DOMAIN v.sessions, NEW m \in DOMAIN v.sessions, k # m
        PROVE  /\ v.sessions[k].id # v.sessions[m].id
               /\ IdsOf(v.sessions[k].tabs) \cap IdsOf(v.sessions[m].tabs) = {}
    <3>1. /\ w.sessions[k].id # w.sessions[m].id
          /\ IdsOf(w.sessions[k].tabs) \cap IdsOf(w.sessions[m].tabs) = {}
      BY <1>4, <2>2 DEF Numbered
    <3>2. CASE k = i
      BY <1>2, <1>4, <1>7, <2>2, <3>1, <3>2
    <3>3. CASE m = i
      BY <1>2, <1>4, <1>7, <2>2, <3>1, <3>3
    <3>4. CASE k # i /\ m # i
      BY <1>2, <1>4, <3>1, <3>4
    <3> QED
      BY <3>2, <3>3, <3>4
  <2>3. SessionIds(v) \cap TabIds(v) = {}
    BY <1>5, <1>6 DEF Numbered
  <2>4. ASSUME NEW x \in SessionIds(v) \cup TabIds(v) PROVE x < v.next
    <3>1. x \in SessionIds(w) \cup TabIds(w) \/ x \in X
      BY <1>5, <1>6
    <3>2. CASE x \in SessionIds(w) \cup TabIds(w)
      <4>1. x < w.next
        BY <3>2 DEF Numbered
      <4>2. x \in Nat
        <5>1. \A k \in DOMAIN w.sessions : w.sessions[k].id \in Nat
          BY <1>1, WorkspaceIs
        <5>2. \A t \in Tabs(w) : t.id \in Nat
          BY <1>1, WorkspaceIs
        <5> QED
          BY <3>2, <5>1, <5>2 DEF SessionIds, TabIds
      <4> QED
        BY <1>1, <1>3, <4>1, <4>2
    <3> QED
      BY <1>3, <3>1, <3>2
  <2> QED
    BY <1>3, <2>1, <2>2, <2>3, <2>4 DEF Numbered
<1>9. Tabs(v) = (Tabs(w) \ ToSet(w.sessions[i].tabs)) \cup ToSet(s.tabs)
  <2>1. ASSUME NEW t \in Tabs(v) PROVE t \in (Tabs(w) \ ToSet(w.sessions[i].tabs)) \cup ToSet(s.tabs)
    <3>1. PICK k \in DOMAIN v.sessions : t \in ToSet(v.sessions[k].tabs)
      BY TabsBySession
    <3>2. CASE k = i
      BY <1>2, <1>4, <3>1, <3>2
    <3>3. CASE k # i
      <4>1. t \in ToSet(w.sessions[k].tabs)
        BY <1>2, <1>4, <3>1, <3>3
      <4>2. t \in Tabs(w) /\ t \notin ToSet(w.sessions[i].tabs)
        BY <1>4, <3>3, <4>1, OneTabPerId, TabsBySession
      <4> QED
        BY <4>2
    <3> QED
      BY <3>2, <3>3
  <2>2. ASSUME NEW t \in Tabs(w), t \notin ToSet(w.sessions[i].tabs) PROVE t \in Tabs(v)
    <3>1. PICK k \in DOMAIN w.sessions : t \in ToSet(w.sessions[k].tabs)
      BY TabsBySession
    <3>2. t \in ToSet(v.sessions[k].tabs)
      BY <1>2, <2>2, <3>1
    <3> QED
      BY <1>4, <3>2, TabsBySession
  <2>3. ToSet(s.tabs) \in SUBSET Tabs(v)
    <3>1. v.sessions[i] = s /\ i \in DOMAIN v.sessions
      BY <1>2, <1>4
    <3> QED
      BY <3>1, TabsBySession
  <2> QED
    BY <2>1, <2>2, <2>3
<1> QED
  BY <1>2, <1>3, <1>4, <1>5, <1>8, <1>9 DEF Replaces, v

(* A Workspace without one of its Sessions                                 *)
LEMMA Dropped ==
  ASSUME NEW w, Numbered(w), NEW i \in DOMAIN w.sessions, NEW a \in Nat,
         NEW v, v = [next |-> w.next, active |-> a, sessions |-> RemoveAt(w.sessions, i)]
  PROVE  /\ Numbered(v) /\ v.next = w.next /\ v.active = a
         /\ SessionIds(v) = SessionIds(w) \ {w.sessions[i].id}
         /\ Tabs(v) = Tabs(w) \ ToSet(w.sessions[i].tabs)
         /\ \A k \in DOMAIN v.sessions : \E m \in DOMAIN w.sessions : m # i /\ v.sessions[k] = w.sessions[m]
<1> DEFINE n == Len(w.sessions)  old(m) == IF m < i THEN m ELSE m + 1
<1>1. w \in Workspaces /\ w.next \in Nat /\ w.sessions \in Seq(SessionRecord) /\ DOMAIN w.sessions = 1..n /\ n \in Nat
  BY WorkspaceIs DEF Numbered
<1>2. /\ v.sessions \in Seq(SessionRecord) /\ Len(v.sessions) = n - 1
      /\ \A m \in 1..n - 1 : v.sessions[m] = w.sessions[old(m)]
  <2>1. v.sessions = RemoveAt(w.sessions, i)
    OBVIOUS
  <2> QED
    BY <1>1, <2>1, RemoveAtKeeps
<1>3. v.next = w.next /\ v.active = a /\ v \in Workspaces
  BY <1>1, <1>2 DEF Workspaces
<1>4. DOMAIN v.sessions = 1..n - 1
  BY <1>2, ListIs
<1> HIDE DEF n
<1>5. \A m \in 1..n - 1 : old(m) \in 1..n /\ old(m) # i
  BY <1>1
<1>6. \A m, q \in 1..n - 1 : old(m) = old(q) => m = q
  BY <1>1
<1>7. \A j \in 1..n : j # i => \E m \in 1..n - 1 : old(m) = j
  <2> SUFFICES ASSUME NEW j \in 1..n, j # i PROVE \E m \in 1..n - 1 : old(m) = j
    OBVIOUS
  <2>1. CASE j < i
    <3>1. j \in 1..n - 1 /\ old(j) = j
      BY <1>1, <2>1
    <3> QED
      BY <3>1
  <2>2. CASE j > i
    <3>1. j - 1 \in 1..n - 1 /\ old(j - 1) = j
      BY <1>1, <2>2
    <3> QED
      BY <3>1
  <2> QED
    BY <1>1, <2>1, <2>2
<1> HIDE DEF old
<1>8. \A k \in DOMAIN v.sessions : \E m \in DOMAIN w.sessions : m # i /\ v.sessions[k] = w.sessions[m]
  BY <1>1, <1>2, <1>4, <1>5
<1>9. \A m \in DOMAIN w.sessions : m # i => \E k \in DOMAIN v.sessions : v.sessions[k] = w.sessions[m]
  BY <1>1, <1>2, <1>4, <1>7
<1>10. SessionIds(v) = SessionIds(w) \ {w.sessions[i].id}
  <2>1. \A m \in DOMAIN w.sessions : m # i => w.sessions[m].id # w.sessions[i].id
    BY DEF Numbered
  <2>2. \A x \in SessionIds(v) : x \in SessionIds(w) /\ x # w.sessions[i].id
    BY <1>8, <2>1, TabsBySession
  <2>3. ASSUME NEW x \in SessionIds(w), x # w.sessions[i].id PROVE x \in SessionIds(v)
    <3>1. PICK m \in DOMAIN w.sessions : x = w.sessions[m].id
      BY TabsBySession
    <3>2. m # i
      BY <2>3, <3>1
    <3> QED
      BY <1>9, <3>1, <3>2, TabsBySession
  <2> QED
    BY <2>2, <2>3
<1>11. Tabs(v) = Tabs(w) \ ToSet(w.sessions[i].tabs)
  <2>1. ASSUME NEW t \in Tabs(v) PROVE t \in Tabs(w) /\ t \notin ToSet(w.sessions[i].tabs)
    <3>1. PICK k \in DOMAIN v.sessions : t \in ToSet(v.sessions[k].tabs)
      BY TabsBySession
    <3>2. PICK m \in DOMAIN w.sessions : m # i /\ v.sessions[k] = w.sessions[m]
      BY <1>8
    <3>3. t \in ToSet(w.sessions[m].tabs)
      BY <3>1, <3>2
    <3> QED
      BY <3>2, <3>3, OneTabPerId, TabsBySession
  <2>2. ASSUME NEW t \in Tabs(w), t \notin ToSet(w.sessions[i].tabs) PROVE t \in Tabs(v)
    <3>1. PICK m \in DOMAIN w.sessions : t \in ToSet(w.sessions[m].tabs)
      BY TabsBySession
    <3>2. m # i
      BY <2>2, <3>1
    <3>3. PICK k \in DOMAIN v.sessions : v.sessions[k] = w.sessions[m]
      BY <1>9, <3>2
    <3> QED
      BY <3>1, <3>3, TabsBySession
  <2> QED
    BY <2>1, <2>2
<1>12. Numbered(v)
  <2>1. \A k \in DOMAIN v.sessions : Listed(v.sessions[k].tabs)
    BY <1>8 DEF Numbered
  <2>2. ASSUME NEW k \in DOMAIN v.sessions, NEW m \in DOMAIN v.sessions, k # m
        PROVE  /\ v.sessions[k].id # v.sessions[m].id
               /\ IdsOf(v.sessions[k].tabs) \cap IdsOf(v.sessions[m].tabs) = {}
    <3>1. old(k) \in DOMAIN w.sessions /\ old(m) \in DOMAIN w.sessions /\ old(k) # old(m)
      BY <1>1, <1>4, <1>5, <1>6, <2>2
    <3>2. v.sessions[k] = w.sessions[old(k)] /\ v.sessions[m] = w.sessions[old(m)]
      BY <1>2, <1>4
    <3> QED
      BY <3>1, <3>2 DEF Numbered
  <2>3. TabIds(v) \in SUBSET TabIds(w) /\ SessionIds(v) \in SUBSET SessionIds(w)
    BY <1>10, <1>11 DEF TabIds
  <2>4. SessionIds(v) \cap TabIds(v) = {} /\ \A x \in SessionIds(v) \cup TabIds(v) : x < v.next
    BY <1>3, <2>3 DEF Numbered
  <2> QED
    BY <1>3, <2>1, <2>2, <2>4 DEF Numbered
<1> QED
  BY <1>3, <1>8, <1>10, <1>11, <1>12

(* locate_tab, session_mut                                                 *)
LEMMA HomeOfTab ==
  ASSUME NEW w, Numbered(w), NEW t \in TabIds(w)
  PROVE  /\ Home(w, t) \in DOMAIN w.sessions
         /\ At(w, t) \in DOMAIN w.sessions[Home(w, t)].tabs
         /\ TabOf(w, t) = w.sessions[Home(w, t)].tabs[At(w, t)]
         /\ TabOf(w, t).id = t /\ TabOf(w, t) \in Tabs(w)
         /\ TabOf(w, t) \in ToSet(w.sessions[Home(w, t)].tabs)
         /\ \A s \in Tabs(w) : s.id = t => s = TabOf(w, t)
<1> DEFINE i == Home(w, t)  tabs == w.sessions[i].tabs
<1>1. \E k \in DOMAIN w.sessions : \E j \in DOMAIN w.sessions[k].tabs : w.sessions[k].tabs[j].id = t
  <2>1. PICK k \in DOMAIN w.sessions : t \in IdsOf(w.sessions[k].tabs)
    BY TabsBySession
  <2> QED
    BY <2>1 DEF IdsOf, ToSet
<1>2. i \in DOMAIN w.sessions /\ \E j \in DOMAIN tabs : tabs[j].id = t
  BY <1>1 DEF Home
<1>3. At(w, t) \in DOMAIN tabs /\ tabs[At(w, t)].id = t
  <2>1. At(w, t) = CHOOSE j \in DOMAIN tabs : tabs[j].id = t
    BY DEF At
  <2> HIDE DEF tabs
  <2> QED
    BY <1>2, <2>1
<1>4. TabOf(w, t) = tabs[At(w, t)]
  BY DEF TabOf
<1>5. TabOf(w, t) \in ToSet(tabs) /\ TabOf(w, t) \in Tabs(w)
  BY <1>2, <1>3, <1>4 DEF ToSet, Tabs
<1>6. \A s \in Tabs(w) : s.id = t => s = TabOf(w, t)
  BY <1>3, <1>4, <1>5, OneTabPerId
<1> QED
  BY <1>2, <1>3, <1>4, <1>5, <1>6

(* A Session is where it is looked up.                                      *)
LEMMA IndexOfSession ==
  ASSUME NEW w, NEW s \in SessionIds(w)
  PROVE  IndexOf(w, s) \in DOMAIN w.sessions /\ w.sessions[IndexOf(w, s)].id = s
<1>1. \E i \in DOMAIN w.sessions : w.sessions[i].id = s
  BY DEF SessionIds
<1> QED
  BY <1>1 DEF IndexOf

(* The active Session exists, and every Session's active Tab               *)
ActiveSession(w) == IF w.sessions = <<>> THEN w.active = None ELSE w.active \in SessionIds(w)
ActiveTab(s) == IF s.tabs = <<>> THEN s.tab = None ELSE s.tab \in IdsOf(s.tabs)
ActiveTabs(w) == \A i \in DOMAIN w.sessions : ActiveTab(w.sessions[i])

Sound(w) == Numbered(w) /\ PanesApart(w) /\ ActiveSession(w) /\ ActiveTabs(w)

(* Another active Session, or none                                         *)
LEMMA OtherActive ==
  ASSUME NEW w, Numbered(w), NEW a \in Nat
  PROVE  LET v == [w EXCEPT !.active = a]
         IN /\ v = [next |-> w.next, active |-> a, sessions |-> w.sessions]
            /\ Numbered(v) /\ Tabs(v) = Tabs(w) /\ SessionIds(v) = SessionIds(w)
            /\ v.sessions = w.sessions /\ v.next = w.next /\ v.active = a
<1> DEFINE v == [next |-> w.next, active |-> a, sessions |-> w.sessions]
<1>1. /\ w = [next |-> w.next, active |-> w.active, sessions |-> w.sessions]
      /\ w \in Workspaces /\ w.next \in Nat /\ w.sessions \in Seq(SessionRecord)
  BY WorkspaceIs DEF Numbered
<1>2. [w EXCEPT !.active = a] = v
  BY <1>1
<1>3. v \in Workspaces
  BY <1>1 DEF Workspaces
<1>4. v.sessions = w.sessions /\ v.next = w.next /\ v.active = a
  OBVIOUS
<1> HIDE DEF v
<1>5. Tabs(v) = Tabs(w) /\ SessionIds(v) = SessionIds(w) /\ TabIds(v) = TabIds(w)
  BY <1>4 DEF Tabs, SessionIds, TabIds
<1>6. Numbered(v)
  BY <1>3, <1>4, <1>5 DEF Numbered
<1> QED
  BY <1>2, <1>4, <1>5, <1>6 DEF v

(* repair_active_session                                                   *)
LEMMA Repaired ==
  ASSUME NEW w, Numbered(w)
  PROVE  LET v == RepairActive(w)
         IN /\ Numbered(v) /\ ActiveSession(v) /\ Tabs(v) = Tabs(w) /\ SessionIds(v) = SessionIds(w)
            /\ v.sessions = w.sessions /\ v.next = w.next
<1>1. w.active \in Nat /\ w.sessions \in Seq(SessionRecord) /\ w \in Workspaces
  BY WorkspaceIs DEF Numbered
<1>2. CASE w.active \in SessionIds(w)
  <2>1. RepairActive(w) = w
    BY <1>2 DEF RepairActive
  <2>2. w.sessions # <<>>
    BY <1>1, <1>2, ListIs DEF SessionIds
  <2> QED
    BY <1>2, <2>1, <2>2 DEF ActiveSession
<1>3. CASE w.active \notin SessionIds(w)
  <2> DEFINE a == IF w.sessions = <<>> THEN None ELSE w.sessions[1].id
  <2>1. RepairActive(w) = [w EXCEPT !.active = a]
    BY <1>3 DEF RepairActive
  <2>2. w.sessions # <<>> => a \in SessionIds(w) /\ a \in Nat
    <3> SUFFICES ASSUME w.sessions # <<>> PROVE a \in SessionIds(w) /\ a \in Nat
      OBVIOUS
    <3>1. 1 \in DOMAIN w.sessions
      BY <1>1, ListIs
    <3> QED
      BY <1>1, <3>1, WorkspaceIs
  <2>3. a \in Nat
    BY <2>2 DEF None
  <2>4. w.sessions = <<>> => a = None
    OBVIOUS
  <2> HIDE DEF a
  <2> DEFINE v == [w EXCEPT !.active = a]
  <2>5. /\ Numbered(v) /\ Tabs(v) = Tabs(w) /\ SessionIds(v) = SessionIds(w)
        /\ v.sessions = w.sessions /\ v.next = w.next /\ v.active = a
    BY <2>3, OtherActive
  <2> HIDE DEF v
  <2>6. ActiveSession(v)
    BY <2>2, <2>4, <2>5 DEF ActiveSession
  <2> QED
    BY <2>1, <2>5, <2>6 DEF v
<1> QED
  BY <1>2, <1>3

-----------------------------------------------------------------------------
(* The operations of the model                                             *)

(* Every Tab has the Panes of a Tab that was there, or some of them; but   *)
(* one, x, whose Panes no other Tab has                                    *)
LEMMA ApartCarried ==
  ASSUME NEW w, PanesApart(w), NEW v, NEW x,
         \A t \in Tabs(v) :
           \/ \E s \in Tabs(w) : s.id = t.id /\ Leaves(t.layout) \in SUBSET Leaves(s.layout)
           \/ t.id = x /\ \A s \in Tabs(w) : s.id # x => Leaves(t.layout) \cap Leaves(s.layout) = {}
  PROVE  PanesApart(v)
<1> SUFFICES ASSUME NEW t \in Tabs(v), NEW u \in Tabs(v), t.id # u.id
             PROVE  Leaves(t.layout) \cap Leaves(u.layout) = {}
  BY DEF PanesApart
<1>1. ASSUME NEW a \in Tabs(v), NEW b \in Tabs(v), a.id # b.id,
             NEW s \in Tabs(w), s.id = a.id, Leaves(a.layout) \in SUBSET Leaves(s.layout)
      PROVE  Leaves(a.layout) \cap Leaves(b.layout) = {}
  <2>1. CASE \E r \in Tabs(w) : r.id = b.id /\ Leaves(b.layout) \in SUBSET Leaves(r.layout)
    <3>1. PICK r \in Tabs(w) : r.id = b.id /\ Leaves(b.layout) \in SUBSET Leaves(r.layout)
      BY <2>1
    <3>2. Leaves(s.layout) \cap Leaves(r.layout) = {}
      BY <1>1, <3>1 DEF PanesApart
    <3> QED
      BY <1>1, <3>1, <3>2
  <2>2. CASE b.id = x /\ \A r \in Tabs(w) : r.id # x => Leaves(b.layout) \cap Leaves(r.layout) = {}
    <3>1. Leaves(b.layout) \cap Leaves(s.layout) = {}
      BY <1>1, <2>2
    <3> QED
      BY <1>1, <3>1
  <2> QED
    BY <2>1, <2>2
<1>2. CASE \E s \in Tabs(w) : s.id = t.id /\ Leaves(t.layout) \in SUBSET Leaves(s.layout)
  BY <1>1, <1>2
<1>3. CASE \E s \in Tabs(w) : s.id = u.id /\ Leaves(u.layout) \in SUBSET Leaves(s.layout)
  <2>1. Leaves(u.layout) \cap Leaves(t.layout) = {}
    BY <1>1, <1>3
  <2> QED
    BY <2>1
<1>4. CASE t.id = x /\ u.id = x
  BY <1>4
<1> QED
  BY <1>2, <1>3, <1>4

(* A Session that loses a Tab has another active one, or no Tab at all.     *)
LEMMA WithoutTab ==
  ASSUME NEW s \in SessionRecord, Listed(s.tabs), ActiveTab(s), NEW k \in DOMAIN s.tabs
  PROVE  LET v == Without(s, k)
         IN /\ v \in SessionRecord /\ v.id = s.id /\ v.tabs = RemoveAt(s.tabs, k)
            /\ v.tabs # <<>> => ActiveTab(v)
<1> DEFINE rest == RemoveAt(s.tabs, k)
           at == IF k > Len(rest) THEN Len(rest) ELSE k
           fall == rest[at].id
           new == IF rest # <<>> /\ s.tab = s.tabs[k].id THEN fall ELSE s.tab
           v == [id |-> s.id, tab |-> new, tabs |-> rest]
<1>1. /\ s = [id |-> s.id, tab |-> s.tab, tabs |-> s.tabs]
      /\ s.id \in Nat /\ s.tab \in Nat /\ s.tabs \in Seq(TabRecord)
  BY DEF SessionRecord
<1>2. Without(s, k) = v
  <2>1. Without(s, k) = [s EXCEPT !.tabs = rest, !.tab = new]
    BY Zenon DEF Without
  <2> HIDE DEF rest, new
  <2>2. [s EXCEPT !.tabs = rest, !.tab = new] \in [id : {s.id}, tab : {new}, tabs : {rest}]
    BY <1>1
  <2> QED
    BY <2>1, <2>2
<1>3. rest \in Seq(TabRecord) /\ IdsOf(rest) = IdsOf(s.tabs) \ {s.tabs[k].id}
  BY <1>1, TakenTabs
<1>4. k \in Nat \ {0} /\ s.tabs # <<>>
  BY <1>1, ListIs
<1> HIDE DEF rest
<1>5. rest # <<>> => fall \in IdsOf(rest) /\ fall \in Nat
  <2> SUFFICES ASSUME rest # <<>> PROVE fall \in IdsOf(rest) /\ fall \in Nat
    OBVIOUS
  <2>1. DOMAIN rest = 1..Len(rest) /\ Len(rest) \in Nat /\ Len(rest) > 0
    BY <1>3, ListIs
  <2>2. at \in DOMAIN rest
    BY <1>4, <2>1
  <2>3. rest[at] \in TabRecord /\ rest[at] \in ToSet(rest)
    BY <1>3, <2>2, ListIs
  <2> QED
    BY <2>3 DEF TabRecord, IdsOf
<1> HIDE DEF fall
<1>6. v \in SessionRecord
  BY <1>1, <1>3, <1>5 DEF SessionRecord
<1>7. rest # <<>> => new \in IdsOf(rest)
  BY <1>3, <1>4, <1>5 DEF ActiveTab
<1> HIDE DEF new
<1>8. v.tabs = rest /\ v.id = s.id /\ v.tab = new
  OBVIOUS
<1> HIDE DEF v
<1>9. v.tabs # <<>> => ActiveTab(v)
  BY <1>7, <1>8 DEF ActiveTab
<1> QED
  BY <1>2, <1>6, <1>8, <1>9 DEF rest

(* The Session whose last Tab has gone goes too                            *)
LEMMA EmptiedDropped ==
  ASSUME NEW w, Numbered(w), NEW i \in DOMAIN w.sessions,
         \A k \in DOMAIN w.sessions : k # i \/ w.sessions[k].tabs # <<>> => ActiveTab(w.sessions[k])
  PROVE  LET v == RepairActive(DropEmptied(w, i))
         IN /\ Numbered(v) /\ ActiveSession(v) /\ ActiveTabs(v)
            /\ Tabs(v) = Tabs(w) /\ SessionIds(v) \in SUBSET SessionIds(w) /\ v.next = w.next
<1> DEFINE d == DropEmptied(w, i)
<1>1. Numbered(d) /\ ActiveTabs(d) /\ Tabs(d) = Tabs(w) /\ SessionIds(d) \in SUBSET SessionIds(w) /\ d.next = w.next
  <2>1. CASE w.sessions[i].tabs # <<>>
    <3>1. d = w
      BY <2>1 DEF DropEmptied
    <3> QED
      BY <2>1, <3>1 DEF ActiveTabs
  <2>2. CASE w.sessions[i].tabs = <<>>
    <3>1. w = [next |-> w.next, active |-> w.active, sessions |-> w.sessions] /\ w.active \in Nat
      BY WorkspaceIs DEF Numbered
    <3>2. d = [w EXCEPT !.sessions = RemoveAt(@, i)]
      BY <2>2 DEF DropEmptied
    <3>3. d = [next |-> w.next, active |-> w.active, sessions |-> RemoveAt(w.sessions, i)]
      BY <3>1, <3>2
    <3> HIDE DEF d
    <3>4. /\ Numbered(d) /\ d.next = w.next
          /\ SessionIds(d) = SessionIds(w) \ {w.sessions[i].id}
          /\ Tabs(d) = Tabs(w) \ ToSet(w.sessions[i].tabs)
          /\ \A k \in DOMAIN d.sessions : \E m \in DOMAIN w.sessions : m # i /\ d.sessions[k] = w.sessions[m]
      BY <3>1, <3>3, Dropped
    <3>5. ToSet(w.sessions[i].tabs) = {}
      BY <2>2 DEF ToSet
    <3>6. ActiveTabs(d)
      BY <3>4 DEF ActiveTabs
    <3> QED
      BY <3>4, <3>5, <3>6
  <2> QED
    BY <2>1, <2>2
<1> HIDE DEF d
<1> DEFINE v == RepairActive(d)
<1>2. /\ Numbered(v) /\ ActiveSession(v) /\ Tabs(v) = Tabs(d) /\ SessionIds(v) = SessionIds(d)
      /\ v.sessions = d.sessions /\ v.next = d.next
  BY <1>1, Repaired
<1> HIDE DEF v
<1>3. ActiveTabs(v)
  BY <1>1, <1>2 DEF ActiveTabs
<1> QED
  BY <1>1, <1>2, <1>3 DEF v, d

(* A Tab leaves its Session                                                *)
LEMMA TabLeaves ==
  ASSUME NEW w, Sound(w), NEW t \in TabIds(w)
  PROVE  LET i == Home(w, t)
             v == Replacing(w, i, Without(w.sessions[i], At(w, t)), w.next)
         IN /\ Replaces(v, w, i, Without(w.sessions[i], At(w, t)), w.next)
            /\ Tabs(v) = Tabs(w) \ {TabOf(w, t)}
            /\ \A k \in DOMAIN v.sessions : k # i \/ v.sessions[k].tabs # <<>> => ActiveTab(v.sessions[k])
<1> DEFINE i == Home(w, t)
           old == w.sessions[i]
           s == Without(old, At(w, t))
           v == Replacing(w, i, s, w.next)
<1>1. Numbered(w) /\ ActiveTabs(w)
  BY DEF Sound
<1>2. /\ i \in DOMAIN w.sessions /\ At(w, t) \in DOMAIN old.tabs
      /\ TabOf(w, t) = old.tabs[At(w, t)] /\ TabOf(w, t).id = t /\ TabOf(w, t) \in Tabs(w)
      /\ TabOf(w, t) \in ToSet(old.tabs)
  BY <1>1, HomeOfTab
<1>3. /\ old \in SessionRecord /\ Listed(old.tabs) /\ ActiveTab(old) /\ old.tabs \in Seq(TabRecord)
      /\ w.next \in Nat /\ w.active \in Nat /\ ToSet(old.tabs) \in SUBSET Tabs(w)
  BY <1>1, <1>2, WorkspaceIs DEF Numbered, ActiveTabs
<1> HIDE DEF old
<1>4. s \in SessionRecord /\ s.id = old.id /\ s.tabs = RemoveAt(old.tabs, At(w, t)) /\ (s.tabs # <<>> => ActiveTab(s))
  BY <1>2, <1>3, WithoutTab
<1>5. /\ Listed(s.tabs) /\ ToSet(s.tabs) = ToSet(old.tabs) \ {TabOf(w, t)}
      /\ IdsOf(s.tabs) = IdsOf(old.tabs) \ {t}
  BY <1>2, <1>3, <1>4, TakenTabs
<1> HIDE DEF s, i
<1>6. Fits(w, i, s, w.next, {})
  BY <1>2, <1>3, <1>4, <1>5 DEF Fits, old
<1>7. Replaces(v, w, i, s, w.next)
  BY <1>1, <1>6, Replaced
<1> HIDE DEF v
<1>8. Tabs(v) = Tabs(w) \ {TabOf(w, t)}
  BY <1>2, <1>3, <1>5, <1>7 DEF Replaces, old
<1>9. ASSUME NEW k \in DOMAIN v.sessions, k # i \/ v.sessions[k].tabs # <<>> PROVE ActiveTab(v.sessions[k])
  <2>1. CASE k = i
    BY <1>4, <1>7, <1>9, <2>1 DEF Replaces
  <2>2. CASE k # i
    BY <1>1, <1>7, <2>2 DEF ActiveTabs, Replaces
  <2> QED
    BY <2>1, <2>2
<1> QED
  BY <1>7, <1>8, <1>9 DEF v, s, i, old

(* close_tab                                                               *)
LEMMA CloseTabSound ==
  ASSUME NEW w, Sound(w), NEW t \in TabIds(w)
  PROVE  LET v == CloseTab(w, t)
         IN /\ Sound(v) /\ v.next = w.next /\ Tabs(v) = Tabs(w) \ {TabOf(w, t)}
            /\ SessionIds(v) \in SUBSET SessionIds(w)
<1> DEFINE i == Home(w, t)
           s == Without(w.sessions[i], At(w, t))
           m == Replacing(w, i, s, w.next)
           v == RepairActive(DropEmptied(m, i))
<1>1. Numbered(w) /\ PanesApart(w) /\ i \in DOMAIN w.sessions
  BY HomeOfTab DEF Sound
<1>2. w = [next |-> w.next, active |-> w.active, sessions |-> w.sessions]
  BY <1>1, WorkspaceIs DEF Numbered
<1>3. [w EXCEPT !.sessions[i] = Without(@, At(w, t))] = m
  BY <1>1, <1>2 DEF Replacing
<1>4. CloseTab(w, t) = v
  BY <1>3 DEF CloseTab
<1>5. /\ Numbered(m) /\ SessionIds(m) = SessionIds(w) /\ DOMAIN m.sessions = DOMAIN w.sessions
      /\ Tabs(m) = Tabs(w) \ {TabOf(w, t)} /\ m.next = w.next
      /\ \A k \in DOMAIN m.sessions : k # i \/ m.sessions[k].tabs # <<>> => ActiveTab(m.sessions[k])
  BY TabLeaves DEF Replaces
<1> HIDE DEF m
<1>6. /\ Numbered(v) /\ ActiveSession(v) /\ ActiveTabs(v)
      /\ Tabs(v) = Tabs(m) /\ SessionIds(v) \in SUBSET SessionIds(m) /\ v.next = m.next
  BY <1>1, <1>5, EmptiedDropped
<1> HIDE DEF v
<1>7. PanesApart(v)
  BY <1>1, <1>5, <1>6 DEF PanesApart
<1> QED
  BY <1>4, <1>5, <1>6, <1>7 DEF Sound

(* A Session changes and has its active Tab                                *)
LEMMA SessionReplaced ==
  ASSUME NEW w, Sound(w), NEW i, NEW s, NEW n, NEW X, Fits(w, i, s, n, X), ActiveTab(s)
  PROVE  LET v == Replacing(w, i, s, n)
         IN /\ Numbered(v) /\ ActiveSession(v) /\ ActiveTabs(v) /\ v.next = n /\ SessionIds(v) = SessionIds(w)
            /\ Tabs(v) = (Tabs(w) \ ToSet(w.sessions[i].tabs)) \cup ToSet(s.tabs)
<1> DEFINE v == Replacing(w, i, s, n)
<1>1. Numbered(w) /\ ActiveSession(w) /\ ActiveTabs(w) /\ i \in DOMAIN w.sessions
  BY DEF Sound, Fits
<1>2. Replaces(v, w, i, s, n)
  BY <1>1, Replaced
<1> HIDE DEF v
<1>3. /\ Numbered(v) /\ SessionIds(v) = SessionIds(w) /\ v.next = n /\ v.active = w.active
      /\ DOMAIN v.sessions = DOMAIN w.sessions /\ v.sessions \in Seq(SessionRecord)
      /\ \A k \in DOMAIN w.sessions : v.sessions[k] = IF k = i THEN s ELSE w.sessions[k]
      /\ Tabs(v) = (Tabs(w) \ ToSet(w.sessions[i].tabs)) \cup ToSet(s.tabs)
  BY <1>2 DEF Replaces
<1>4. w.sessions \in Seq(SessionRecord)
  BY <1>1, WorkspaceIs DEF Numbered
<1>5. w.sessions # <<>> /\ v.sessions # <<>>
  BY <1>1, <1>3, <1>4, ListIs
<1>6. ActiveSession(v)
  BY <1>1, <1>3, <1>5 DEF ActiveSession
<1>7. ActiveTabs(v)
  BY <1>1, <1>3 DEF ActiveTabs
<1> QED
  BY <1>3, <1>6, <1>7 DEF v

(* Other Tabs, another active one                                          *)
Having(s, tab, tabs) == [id |-> s.id, tab |-> tab, tabs |-> tabs]

(* A Session with other Tabs.                                               *)
LEMMA HavingIs ==
  ASSUME NEW s \in SessionRecord, NEW tab \in Nat, NEW tabs \in Seq(TabRecord)
  PROVE  /\ Having(s, tab, tabs) \in SessionRecord /\ Having(s, tab, tabs).id = s.id
         /\ Having(s, tab, tabs).tab = tab /\ Having(s, tab, tabs).tabs = tabs
         /\ tab \in IdsOf(tabs) => ActiveTab(Having(s, tab, tabs))
<1>1. Having(s, tab, tabs) \in SessionRecord
  BY DEF Having, SessionRecord
<1>2. /\ Having(s, tab, tabs).id = s.id /\ Having(s, tab, tabs).tab = tab /\ Having(s, tab, tabs).tabs = tabs
  BY DEF Having
<1>3. ASSUME tab \in IdsOf(tabs) PROVE tabs # <<>>
  BY <1>3 DEF IdsOf, ToSet
<1> QED
  BY <1>1, <1>2, <1>3 DEF ActiveTab

(* What is known of the Session of a Tab                                   *)
LEMMA HomeIs ==
  ASSUME NEW w, Sound(w), NEW t \in TabIds(w)
  PROVE  LET i == Home(w, t)  old == w.sessions[i]
         IN /\ i \in DOMAIN w.sessions /\ old \in SessionRecord
            /\ old = [id |-> old.id, tab |-> old.tab, tabs |-> old.tabs]
            /\ old.tab \in Nat /\ old.tab \in IdsOf(old.tabs) /\ old.tabs \in Seq(TabRecord) /\ Listed(old.tabs)
            /\ ToSet(old.tabs) \in SUBSET Tabs(w)
            /\ At(w, t) \in DOMAIN old.tabs /\ TabOf(w, t) = old.tabs[At(w, t)]
            /\ TabOf(w, t) \in TabRecord /\ TabOf(w, t).id = t /\ t \in Nat
            /\ TabOf(w, t) \in ToSet(old.tabs) /\ t \in IdsOf(old.tabs)
<1> DEFINE i == Home(w, t)  old == w.sessions[i]
<1>1. Numbered(w) /\ ActiveTabs(w) /\ w \in Workspaces
  BY DEF Sound, Numbered
<1>2. /\ i \in DOMAIN w.sessions /\ At(w, t) \in DOMAIN old.tabs
      /\ TabOf(w, t) = old.tabs[At(w, t)] /\ TabOf(w, t).id = t /\ TabOf(w, t) \in Tabs(w)
      /\ TabOf(w, t) \in ToSet(old.tabs)
  BY <1>1, HomeOfTab
<1> HIDE DEF i
<1>3. /\ old \in SessionRecord /\ Listed(old.tabs) /\ ActiveTab(old) /\ old.tabs \in Seq(TabRecord)
      /\ ToSet(old.tabs) \in SUBSET Tabs(w) /\ old.tab \in Nat
      /\ old = [id |-> old.id, tab |-> old.tab, tabs |-> old.tabs]
  BY <1>1, <1>2, WorkspaceIs DEF Numbered, ActiveTabs
<1> HIDE DEF old
<1>4. TabOf(w, t) \in TabRecord /\ t \in Nat
  BY <1>1, <1>2, WorkspaceIs
<1>5. t \in IdsOf(old.tabs)
  BY <1>2 DEF IdsOf
<1>6. old.tabs # <<>>
  BY <1>2
<1>7. old.tab \in IdsOf(old.tabs)
  BY <1>3, <1>6 DEF ActiveTab
<1> QED
  BY <1>2, <1>3, <1>4, <1>5, <1>7 DEF old, i

(* reorder_tab                                                             *)
LEMMA ReorderTabSound ==
  ASSUME NEW w, Sound(w), NEW t \in TabIds(w), NEW k \in Nat \ {0}
  PROVE  LET v == ReorderTab(w, t, k)
         IN Sound(v) /\ v.next = w.next /\ Tabs(v) = Tabs(w) /\ SessionIds(v) = SessionIds(w)
<1> DEFINE i == Home(w, t)  old == w.sessions[i]
           rest == RemoveAt(old.tabs, At(w, t))
           tabs == Inserted(rest, k, TabOf(w, t))
           s == Having(old, old.tab, tabs)
           v == Replacing(w, i, s, w.next)
<1>1. Numbered(w) /\ PanesApart(w) /\ w \in Workspaces /\ w.next \in Nat
  BY WorkspaceIs DEF Sound, Numbered
<1>2. w = [next |-> w.next, active |-> w.active, sessions |-> w.sessions]
  BY <1>1, WorkspaceIs
<1>3. /\ i \in DOMAIN w.sessions /\ old \in SessionRecord
      /\ old = [id |-> old.id, tab |-> old.tab, tabs |-> old.tabs]
      /\ old.tab \in Nat /\ old.tab \in IdsOf(old.tabs) /\ old.tabs \in Seq(TabRecord) /\ Listed(old.tabs)
      /\ ToSet(old.tabs) \in SUBSET Tabs(w)
      /\ At(w, t) \in DOMAIN old.tabs /\ TabOf(w, t) = old.tabs[At(w, t)]
      /\ TabOf(w, t) \in TabRecord /\ TabOf(w, t).id = t /\ t \in Nat
      /\ TabOf(w, t) \in ToSet(old.tabs) /\ t \in IdsOf(old.tabs)
  BY HomeIs
<1>4. ReorderTab(w, t, k) = v
  <2>1. ReorderTab(w, t, k) = [w EXCEPT !.sessions[i].tabs = Inserted(RemoveAt(@, At(w, t)), k, TabOf(w, t))]
    BY DEF ReorderTab
  <2>2. [old EXCEPT !.tabs = tabs] = s
    BY <1>3 DEF Having
  <2> QED
    BY <1>2, <1>3, <2>1, <2>2 DEF Replacing
<1> HIDE DEF old
<1>5. /\ rest \in Seq(TabRecord) /\ Listed(rest) /\ ToSet(rest) = ToSet(old.tabs) \ {TabOf(w, t)}
      /\ IdsOf(rest) = IdsOf(old.tabs) \ {t}
  BY <1>3, TakenTabs
<1> HIDE DEF rest
<1>6. /\ tabs \in Seq(TabRecord) /\ Listed(tabs) /\ ToSet(tabs) = ToSet(old.tabs) /\ IdsOf(tabs) = IdsOf(old.tabs)
  <2>1. TabOf(w, t).id \notin IdsOf(rest)
    BY <1>3, <1>5
  <2>2. /\ tabs \in Seq(TabRecord) /\ Listed(tabs) /\ ToSet(tabs) = ToSet(rest) \cup {TabOf(w, t)}
        /\ IdsOf(tabs) = IdsOf(rest) \cup {TabOf(w, t).id}
    BY <1>3, <1>5, <2>1, PutTabs
  <2> HIDE DEF tabs
  <2> QED
    BY <1>3, <1>5, <2>2
<1> HIDE DEF tabs
<1>7. s \in SessionRecord /\ s.id = old.id /\ s.tabs = tabs /\ ActiveTab(s)
  <2>1. old \in SessionRecord /\ old.tab \in Nat /\ old.tab \in IdsOf(tabs)
    BY <1>3, <1>6
  <2> HIDE DEF old
  <2> QED
    BY <1>6, <2>1, HavingIs
<1> HIDE DEF s, i
<1>8. Fits(w, i, s, w.next, {})
  BY <1>1, <1>3, <1>6, <1>7 DEF Fits, old
<1>9. /\ Numbered(v) /\ ActiveSession(v) /\ ActiveTabs(v) /\ v.next = w.next /\ SessionIds(v) = SessionIds(w)
      /\ Tabs(v) = (Tabs(w) \ ToSet(old.tabs)) \cup ToSet(s.tabs)
  BY <1>7, <1>8, SessionReplaced DEF old
<1> HIDE DEF v
<1>10. Tabs(v) = Tabs(w)
  BY <1>3, <1>6, <1>7, <1>9
<1>11. PanesApart(v)
  BY <1>1, <1>10 DEF PanesApart
<1> QED
  BY <1>4, <1>9, <1>10, <1>11 DEF Sound

(* set_active_session                                                      *)
LEMMA SetActiveSound ==
  ASSUME NEW w, Sound(w), NEW s \in SessionIds(w)
  PROVE  LET v == [w EXCEPT !.active = s]
         IN Sound(v) /\ v.next = w.next /\ Tabs(v) = Tabs(w) /\ SessionIds(v) = SessionIds(w)
<1> DEFINE v == [w EXCEPT !.active = s]
<1>1. Numbered(w) /\ PanesApart(w) /\ ActiveTabs(w) /\ w \in Workspaces
  BY DEF Sound, Numbered
<1>2. s \in Nat
  <2>1. \A i \in DOMAIN w.sessions : w.sessions[i].id \in Nat
    BY <1>1, WorkspaceIs
  <2> QED
    BY <2>1 DEF SessionIds
<1>3. /\ Numbered(v) /\ Tabs(v) = Tabs(w) /\ SessionIds(v) = SessionIds(w)
      /\ v.sessions = w.sessions /\ v.next = w.next /\ v.active = s
  BY <1>1, <1>2, OtherActive
<1> HIDE DEF v
<1>4. v.sessions # <<>>
  <2>1. w.sessions # <<>>
    BY DEF SessionIds
  <2> QED
    BY <1>3, <2>1
<1>5. Sound(v)
  BY <1>1, <1>3, <1>4 DEF Sound, PanesApart, ActiveTabs, ActiveSession
<1> QED
  BY <1>3, <1>5 DEF v

(* set_active_tab                                                          *)
LEMMA SetActiveTabSound ==
  ASSUME NEW w, Sound(w), NEW t \in TabIds(w)
  PROVE  LET v == SetActiveTab(w, t)
         IN Sound(v) /\ v.next = w.next /\ Tabs(v) = Tabs(w) /\ SessionIds(v) = SessionIds(w)
<1> DEFINE i == Home(w, t)  old == w.sessions[i]
           s == Having(old, t, old.tabs)
           m == Replacing(w, i, s, w.next)
           v == [m EXCEPT !.active = old.id]
<1>1. Numbered(w) /\ PanesApart(w) /\ w \in Workspaces /\ w.next \in Nat
  BY WorkspaceIs DEF Sound, Numbered
<1>2. w = [next |-> w.next, active |-> w.active, sessions |-> w.sessions]
  BY <1>1, WorkspaceIs
<1>3. /\ i \in DOMAIN w.sessions /\ old \in SessionRecord
      /\ old = [id |-> old.id, tab |-> old.tab, tabs |-> old.tabs]
      /\ old.tabs \in Seq(TabRecord) /\ Listed(old.tabs)
      /\ ToSet(old.tabs) \in SUBSET Tabs(w) /\ t \in Nat /\ t \in IdsOf(old.tabs)
  BY HomeIs
<1>4. SetActiveTab(w, t) = v
  <2>1. SetActiveTab(w, t) = [w EXCEPT !.sessions[i].tab = t, !.active = old.id]
    BY DEF SetActiveTab
  <2>2. [old EXCEPT !.tab = t] = s
    BY <1>3 DEF Having
  <2>3. m = [w EXCEPT !.sessions[i] = s]
    BY <1>2 DEF Replacing
  <2>4. [w EXCEPT !.sessions[i].tab = t, !.active = old.id] \in [next : {w.next}, active : {old.id}, sessions : {m.sessions}]
    BY <1>2, <2>2, <2>3
  <2>5. v \in [next : {w.next}, active : {old.id}, sessions : {m.sessions}]
    BY DEF Replacing
  <2> HIDE DEF v, old, m
  <2> DEFINE x == [w EXCEPT !.sessions[i].tab = t, !.active = old.id]
  <2>6. x = [next |-> w.next, active |-> old.id, sessions |-> m.sessions]
    <3>1. x \in [next : {w.next}, active : {old.id}, sessions : {m.sessions}]
      BY <2>4
    <3> HIDE DEF x
    <3> QED
      BY <3>1
  <2>7. v = [next |-> w.next, active |-> old.id, sessions |-> m.sessions]
    BY <2>5
  <2> QED
    BY <2>1, <2>6, <2>7
<1> HIDE DEF old
<1>5. s \in SessionRecord /\ s.id = old.id /\ s.tabs = old.tabs /\ ActiveTab(s)
  BY <1>3, HavingIs
<1> HIDE DEF s, i
<1>6. Fits(w, i, s, w.next, {})
  BY <1>1, <1>3, <1>5 DEF Fits, old
<1>7. /\ Numbered(m) /\ ActiveSession(m) /\ ActiveTabs(m) /\ m.next = w.next /\ SessionIds(m) = SessionIds(w)
      /\ Tabs(m) = (Tabs(w) \ ToSet(old.tabs)) \cup ToSet(s.tabs)
  BY <1>5, <1>6, SessionReplaced DEF old
<1> HIDE DEF m
<1>8. Tabs(m) = Tabs(w)
  BY <1>3, <1>5, <1>7
<1>9. Sound(m)
  BY <1>1, <1>7, <1>8 DEF Sound, PanesApart
<1>10. old.id \in SessionIds(m)
  BY <1>3, <1>7 DEF SessionIds, old
<1>11. Sound(v) /\ v.next = m.next /\ Tabs(v) = Tabs(m) /\ SessionIds(v) = SessionIds(m)
  BY <1>9, <1>10, SetActiveSound
<1> QED
  BY <1>4, <1>7, <1>8, <1>11

(* The counter is ahead of every id                                        *)
LEMMA CounterAhead ==
  ASSUME NEW w, Numbered(w)
  PROVE  /\ w.next \in Nat /\ \A x \in SessionIds(w) \cup TabIds(w) : x \in Nat /\ x < w.next
         /\ w.next \notin SessionIds(w) \cup TabIds(w)
<1>1. w \in Workspaces /\ w.next \in Nat
  BY WorkspaceIs DEF Numbered
<1>2. \A x \in SessionIds(w) : x \in Nat
  <2>1. \A i \in DOMAIN w.sessions : w.sessions[i].id \in Nat
    BY <1>1, WorkspaceIs
  <2> QED
    BY <2>1 DEF SessionIds
<1>3. \A x \in TabIds(w) : x \in Nat
  BY <1>1, WorkspaceIs DEF TabIds
<1>4. \A x \in SessionIds(w) \cup TabIds(w) : x < w.next
  BY DEF Numbered
<1>5. ~(w.next < w.next)
  BY <1>1
<1> QED
  BY <1>1, <1>2, <1>3, <1>4, <1>5

(* A Tab has another Layout, over Surfaces that no other Tab shows         *)
LEMMA SetLayoutSound ==
  ASSUME NEW w, Sound(w), NEW t \in TabIds(w), NEW l \in Trees,
         \A r \in Tabs(w) : r.id # t => Leaves(l) \cap Leaves(r.layout) = {}
  PROVE  LET v == SetLayout(w, t, l)
         IN /\ Sound(v) /\ v.next = w.next /\ SessionIds(v) = SessionIds(w)
            /\ Tabs(v) = (Tabs(w) \ {TabOf(w, t)}) \cup {[id |-> t, layout |-> l]}
<1> DEFINE i == Home(w, t)  old == w.sessions[i]  j == At(w, t)
           tab == [id |-> t, layout |-> l]
           tabs == [old.tabs EXCEPT ![j] = tab]
           s == Having(old, old.tab, tabs)
           v == Replacing(w, i, s, w.next)
<1>1. Numbered(w) /\ PanesApart(w) /\ w \in Workspaces /\ w.next \in Nat
  BY WorkspaceIs DEF Sound, Numbered
<1>2. w = [next |-> w.next, active |-> w.active, sessions |-> w.sessions]
  BY <1>1, WorkspaceIs
<1>3. /\ i \in DOMAIN w.sessions /\ old \in SessionRecord
      /\ old = [id |-> old.id, tab |-> old.tab, tabs |-> old.tabs]
      /\ old.tab \in Nat /\ old.tab \in IdsOf(old.tabs) /\ old.tabs \in Seq(TabRecord) /\ Listed(old.tabs)
      /\ ToSet(old.tabs) \in SUBSET Tabs(w)
      /\ j \in DOMAIN old.tabs /\ TabOf(w, t) = old.tabs[j]
      /\ TabOf(w, t) \in TabRecord /\ TabOf(w, t).id = t /\ t \in Nat
      /\ TabOf(w, t) \in ToSet(old.tabs) /\ t \in IdsOf(old.tabs)
  BY HomeIs
<1>4. SetLayout(w, t, l) = v
  <2>1. SetLayout(w, t, l) = [w EXCEPT !.sessions[i].tabs[j].layout = l]
    BY DEF SetLayout
  <2>2. [old.tabs[j] EXCEPT !.layout = l] = tab
    <3>1. old.tabs[j] = [id |-> t, layout |-> old.tabs[j].layout]
      BY <1>3 DEF TabRecord
    <3> QED
      BY <3>1
  <2>3. [old EXCEPT !.tabs[j].layout = l] = s
    BY <1>3, <2>2 DEF Having
  <2> QED
    BY <1>2, <1>3, <2>1, <2>3 DEF Replacing
<1> HIDE DEF old, j
<1>5. tab \in TabRecord /\ tab.id = t
  BY <1>3 DEF TabRecord
<1>6. /\ tabs \in Seq(TabRecord) /\ Listed(tabs) /\ ToSet(tabs) = (ToSet(old.tabs) \ {TabOf(w, t)}) \cup {tab}
      /\ IdsOf(tabs) = IdsOf(old.tabs)
  BY <1>3, <1>5, ChangedTabs
<1> HIDE DEF tabs
<1>7. s \in SessionRecord /\ s.id = old.id /\ s.tabs = tabs /\ ActiveTab(s)
  <2>1. old \in SessionRecord /\ old.tab \in Nat /\ old.tab \in IdsOf(tabs)
    BY <1>3, <1>6
  <2> HIDE DEF old
  <2> QED
    BY <1>6, <2>1, HavingIs
<1> HIDE DEF s, i
<1>8. Fits(w, i, s, w.next, {})
  BY <1>1, <1>3, <1>6, <1>7 DEF Fits, old
<1>9. /\ Numbered(v) /\ ActiveSession(v) /\ ActiveTabs(v) /\ v.next = w.next /\ SessionIds(v) = SessionIds(w)
      /\ Tabs(v) = (Tabs(w) \ ToSet(old.tabs)) \cup ToSet(s.tabs)
  BY <1>7, <1>8, SessionReplaced DEF old
<1> HIDE DEF v
<1>10. Tabs(v) = (Tabs(w) \ {TabOf(w, t)}) \cup {tab}
  BY <1>3, <1>6, <1>7, <1>9
<1>11. PanesApart(v)
  <2>1. ASSUME NEW r \in Tabs(v)
        PROVE  \/ \E q \in Tabs(w) : q.id = r.id /\ Leaves(r.layout) \in SUBSET Leaves(q.layout)
               \/ r.id = t /\ \A q \in Tabs(w) : q.id # t => Leaves(r.layout) \cap Leaves(q.layout) = {}
    <3>1. CASE r \in Tabs(w)
      BY <3>1
    <3>2. CASE r = tab
      BY <3>2
    <3> QED
      BY <1>10, <3>1, <3>2
  <2> QED
    BY <1>1, <2>1, ApartCarried
<1> QED
  BY <1>4, <1>9, <1>10, <1>11 DEF Sound

(* A Session has one more Tab, its active one                              *)
HasTab(v, s, tab) ==
  /\ v \in SessionRecord /\ v.id = s.id /\ Listed(v.tabs) /\ ActiveTab(v) /\ v.tabs # <<>>
  /\ ToSet(v.tabs) = ToSet(s.tabs) \cup {tab} /\ IdsOf(v.tabs) = IdsOf(s.tabs) \cup {tab.id}

(* A Session with one more Tab, which is the active one.                    *)
LEMMA WithTab ==
  ASSUME NEW s \in SessionRecord, Listed(s.tabs), NEW k \in Nat \ {0},
         NEW tab \in TabRecord, tab.id \notin IdsOf(s.tabs)
  PROVE  HasTab(With(s, k, tab), s, tab)
<1> DEFINE tabs == Inserted(s.tabs, k, tab)
           v == Having(s, tab.id, tabs)
<1>1. /\ s = [id |-> s.id, tab |-> s.tab, tabs |-> s.tabs] /\ s.tabs \in Seq(TabRecord)
      /\ tab.id \in Nat
  BY DEF SessionRecord, TabRecord
<1>2. With(s, k, tab) = v
  <2>1. With(s, k, tab) = [s EXCEPT !.tabs = tabs, !.tab = tab.id]
    BY DEF With
  <2> HIDE DEF tabs
  <2>2. [s EXCEPT !.tabs = tabs, !.tab = tab.id] \in [id : {s.id}, tab : {tab.id}, tabs : {tabs}]
    BY <1>1
  <2>3. v \in [id : {s.id}, tab : {tab.id}, tabs : {tabs}]
    BY DEF Having
  <2> HIDE DEF v
  <2> QED
    BY <2>1, <2>2, <2>3
<1>3. /\ tabs \in Seq(TabRecord) /\ Listed(tabs) /\ ToSet(tabs) = ToSet(s.tabs) \cup {tab}
      /\ IdsOf(tabs) = IdsOf(s.tabs) \cup {tab.id} /\ tabs # <<>>
  BY <1>1, PutTabs
<1> HIDE DEF tabs
<1>4. tab.id \in IdsOf(tabs)
  BY <1>3
<1>5. v \in SessionRecord /\ v.id = s.id /\ v.tabs = tabs /\ ActiveTab(v)
  BY <1>1, <1>3, <1>4, HavingIs
<1> HIDE DEF v
<1> QED
  BY <1>2, <1>3, <1>5 DEF HasTab

(* insert_tab: a new Tab of one Pane                                       *)
LEMMA InsertTabSound ==
  ASSUME NEW w, Sound(w), NEW s \in SessionIds(w), NEW k \in Nat \ {0}, NEW u \in Nat \ Shown(w)
  PROVE  LET v == InsertTab(w, s, k, u)
         IN /\ Sound(v) /\ v.next = w.next + 1 /\ SessionIds(v) = SessionIds(w)
            /\ Tabs(v) = Tabs(w) \cup {[id |-> w.next, layout |-> Leaf(u)]}
<1> DEFINE i == IndexOf(w, s)  old == w.sessions[i]  n == w.next + 1
           tab == [id |-> w.next, layout |-> Leaf(u)]
           r == With(old, k, tab)
           v == Replacing(w, i, r, n)
<1>1. Numbered(w) /\ PanesApart(w) /\ ActiveTabs(w) /\ w \in Workspaces /\ w.next \in Nat
  BY WorkspaceIs DEF Sound, Numbered
<1>2. w = [next |-> w.next, active |-> w.active, sessions |-> w.sessions]
  BY <1>1, WorkspaceIs
<1>3. i \in DOMAIN w.sessions
  BY IndexOfSession
<1>4. /\ old \in SessionRecord /\ Listed(old.tabs) /\ ToSet(old.tabs) \in SUBSET Tabs(w)
  BY <1>1, <1>3, WorkspaceIs DEF Numbered
<1>5. InsertTab(w, s, k, u) = v
  <2>1. InsertTab(w, s, k, u) = [w EXCEPT !.next = @ + 1, !.sessions[i] = With(@, k, tab)]
    BY DEF InsertTab
  <2> DEFINE all == [w.sessions EXCEPT ![i] = r]
  <2>2. InsertTab(w, s, k, u) \in [next : {n}, active : {w.active}, sessions : {all}]
    BY <1>2, <2>1
  <2>3. v \in [next : {n}, active : {w.active}, sessions : {all}]
    BY DEF Replacing
  <2> HIDE DEF v, all, n
  <2> QED
    BY <2>2, <2>3
<1> HIDE DEF old
<1>6. Leaf(u) \in Trees /\ Leaves(Leaf(u)) = {u}
  BY LeafIsTree
<1>7. tab \in TabRecord /\ tab.id = w.next /\ tab.layout = Leaf(u)
  BY <1>1, <1>6 DEF TabRecord
<1>8. w.next \notin SessionIds(w) \cup TabIds(w)
  BY <1>1, CounterAhead
<1>9. w.next \notin IdsOf(old.tabs)
  BY <1>3, <1>8, TabsBySession DEF old
<1> HIDE DEF tab
<1>11. /\ r \in SessionRecord /\ r.id = old.id /\ Listed(r.tabs) /\ ActiveTab(r)
       /\ ToSet(r.tabs) = ToSet(old.tabs) \cup {tab} /\ IdsOf(r.tabs) = IdsOf(old.tabs) \cup {w.next}
  <2>1. tab.id \notin IdsOf(old.tabs)
    BY <1>7, <1>9
  <2>2. old \in SessionRecord /\ Listed(old.tabs) /\ k \in Nat \ {0} /\ tab \in TabRecord
    BY <1>4, <1>7
  <2>3. /\ r \in SessionRecord /\ r.id = old.id /\ Listed(r.tabs) /\ ActiveTab(r)
        /\ ToSet(r.tabs) = ToSet(old.tabs) \cup {tab} /\ IdsOf(r.tabs) = IdsOf(old.tabs) \cup {tab.id}
    <3>1. HasTab(r, old, tab)
      BY <2>1, <2>2, WithTab
    <3> HIDE DEF r
    <3> QED
      BY <3>1 DEF HasTab
  <2> HIDE DEF r
  <2> QED
    BY <1>7, <2>3
<1> HIDE DEF r, i
<1>12. Fits(w, i, r, n, {w.next})
  BY <1>1, <1>3, <1>8, <1>11 DEF Fits, old
<1> HIDE DEF n
<1>13. /\ Numbered(v) /\ ActiveSession(v) /\ ActiveTabs(v) /\ v.next = n /\ SessionIds(v) = SessionIds(w)
       /\ Tabs(v) = (Tabs(w) \ ToSet(old.tabs)) \cup ToSet(r.tabs)
  BY <1>11, <1>12, SessionReplaced DEF old
<1> HIDE DEF v
<1>14. Tabs(v) = Tabs(w) \cup {tab}
  BY <1>4, <1>11, <1>13
<1>15. PanesApart(v)
  <2>1. ASSUME NEW a \in Tabs(v)
        PROVE  \/ \E q \in Tabs(w) : q.id = a.id /\ Leaves(a.layout) \in SUBSET Leaves(q.layout)
               \/ a.id = w.next /\ \A q \in Tabs(w) : q.id # w.next => Leaves(a.layout) \cap Leaves(q.layout) = {}
    <3>1. CASE a \in Tabs(w)
      BY <3>1
    <3>2. CASE a = tab
      <4>1. \A q \in Tabs(w) : u \notin Leaves(q.layout)
        BY DEF Shown
      <4> QED
        BY <1>6, <1>7, <3>2, <4>1
    <3> QED
      BY <1>14, <3>1, <3>2
  <2> QED
    BY <1>1, <2>1, ApartCarried
<1> QED
  BY <1>5, <1>13, <1>14, <1>15 DEF Sound, tab, n

(* create_session                                                          *)
LEMMA CreateSessionSound ==
  ASSUME NEW w, Sound(w)
  PROVE  LET v == CreateSession(w)
         IN /\ Sound(v) /\ v.next = w.next + 1 /\ Tabs(v) = Tabs(w)
            /\ SessionIds(v) = SessionIds(w) \cup {w.next}
<1> DEFINE n == Len(w.sessions)
           s == [id |-> w.next, tab |-> None, tabs |-> <<>>]
           a == IF w.sessions = <<>> THEN w.next ELSE w.active
           all == Append(w.sessions, s)
           v == [next |-> w.next + 1, active |-> a, sessions |-> all]
<1>1. /\ Numbered(w) /\ PanesApart(w) /\ ActiveTabs(w) /\ ActiveSession(w) /\ w \in Workspaces
      /\ w.next \in Nat /\ w.active \in Nat
      /\ w.sessions \in Seq(SessionRecord) /\ DOMAIN w.sessions = 1..n /\ n \in Nat
  BY WorkspaceIs DEF Sound, Numbered
<1>2. w = [next |-> w.next, active |-> w.active, sessions |-> w.sessions]
  BY <1>1, WorkspaceIs
<1>3. CreateSession(w) = v
  <2>1. CreateSession(w) = [w EXCEPT !.next = @ + 1, !.sessions = Append(@, s),
                                     !.active = IF w.sessions = <<>> THEN w.next ELSE @]
    BY DEF CreateSession
  <2>2. CreateSession(w) \in [next : {w.next + 1}, active : {a}, sessions : {all}]
    BY <1>2, <2>1
  <2>3. v \in [next : {w.next + 1}, active : {a}, sessions : {all}]
    OBVIOUS
  <2> HIDE DEF v, a, all
  <2> QED
    BY <2>2, <2>3
<1>4. s \in SessionRecord /\ s.id = w.next /\ s.tab = None /\ s.tabs = <<>>
  BY <1>1 DEF SessionRecord, None
<1> HIDE DEF s
<1>5. /\ all \in Seq(SessionRecord) /\ Len(all) = n + 1
      /\ \A i \in 1..n : all[i] = w.sessions[i] /\ all[n + 1] = s
  BY <1>1, <1>4, AppendProperties
<1>51. all[n + 1] = s
  BY <1>1, <1>4, AppendProperties
<1> HIDE DEF all
<1>6. DOMAIN all = 1..n + 1 /\ all # <<>>
  BY <1>1, <1>5, ListIs
<1>7. a \in Nat
  BY <1>1
<1> HIDE DEF a
<1>8. v \in Workspaces /\ v.next = w.next + 1 /\ v.active = a /\ v.sessions = all
  BY <1>1, <1>5, <1>7 DEF Workspaces
<1> HIDE DEF v, n
<1>9. n + 1 \in 1..n + 1 /\ \A i \in 1..n + 1 : i \in 1..n \/ i = n + 1
  BY <1>1
<1>91. \A i \in 1..n : i \in 1..n + 1 /\ i # n + 1
  BY <1>1
<1>10. ToSet(s.tabs) = {} /\ IdsOf(s.tabs) = {}
  BY <1>4 DEF ToSet, IdsOf
<1>11. Tabs(v) = Tabs(w)
  <2>1. ASSUME NEW t \in Tabs(v) PROVE t \in Tabs(w)
    <3>1. PICK i \in DOMAIN v.sessions : t \in ToSet(v.sessions[i].tabs)
      BY TabsBySession
    <3>2. i \in 1..n /\ v.sessions[i] = w.sessions[i]
      BY <1>5, <1>51, <1>6, <1>8, <1>9, <1>10, <3>1
    <3> QED
      BY <1>1, <3>1, <3>2, TabsBySession
  <2>2. ASSUME NEW t \in Tabs(w) PROVE t \in Tabs(v)
    <3>1. PICK i \in DOMAIN w.sessions : t \in ToSet(w.sessions[i].tabs)
      BY TabsBySession
    <3>2. i \in DOMAIN v.sessions /\ v.sessions[i] = w.sessions[i]
      BY <1>1, <1>5, <1>6, <1>8, <1>91
    <3> QED
      BY <3>1, <3>2, TabsBySession
  <2> QED
    BY <2>1, <2>2
<1>12. SessionIds(v) = SessionIds(w) \cup {w.next}
  <2>1. ASSUME NEW x \in SessionIds(v) PROVE x \in SessionIds(w) \cup {w.next}
    <3>1. PICK i \in DOMAIN v.sessions : x = v.sessions[i].id
      BY TabsBySession
    <3>2. CASE i \in 1..n
      BY <1>1, <1>5, <1>8, <3>1, <3>2, TabsBySession
    <3>3. CASE i = n + 1
      BY <1>4, <1>51, <1>8, <3>1, <3>3
    <3> QED
      BY <1>6, <1>8, <1>9, <3>2, <3>3
  <2>2. ASSUME NEW x \in SessionIds(w) PROVE x \in SessionIds(v)
    <3>1. PICK i \in DOMAIN w.sessions : x = w.sessions[i].id
      BY TabsBySession
    <3>2. i \in DOMAIN v.sessions /\ v.sessions[i] = w.sessions[i]
      BY <1>1, <1>5, <1>6, <1>8, <1>91
    <3> QED
      BY <3>1, <3>2, TabsBySession
  <2>3. w.next \in SessionIds(v)
    BY <1>4, <1>51, <1>6, <1>8, <1>9, TabsBySession
  <2> QED
    BY <2>1, <2>2, <2>3
<1>13. w.next \notin SessionIds(w) \cup TabIds(w) /\ TabIds(v) = TabIds(w)
  BY <1>1, <1>11, CounterAhead DEF TabIds
<1>14. Numbered(v)
  <2>1. ASSUME NEW i \in DOMAIN v.sessions PROVE Listed(v.sessions[i].tabs)
    <3>1. CASE i \in 1..n
      BY <1>1, <1>5, <1>8, <3>1 DEF Numbered
    <3>2. CASE i = n + 1
      BY <1>4, <1>51, <1>8, <3>2 DEF Listed
    <3> QED
      BY <1>6, <1>8, <1>9, <3>1, <3>2
  <2>2. ASSUME NEW i \in DOMAIN v.sessions, NEW k \in DOMAIN v.sessions, i # k
        PROVE  /\ v.sessions[i].id # v.sessions[k].id
               /\ IdsOf(v.sessions[i].tabs) \cap IdsOf(v.sessions[k].tabs) = {}
    <3>1. CASE i \in 1..n /\ k \in 1..n
      BY <1>1, <1>5, <1>8, <2>2, <3>1 DEF Numbered
    <3>2. CASE i \in 1..n /\ k = n + 1
      <4>1. v.sessions[i].id \in SessionIds(w)
        BY <1>1, <1>5, <1>8, <3>2, TabsBySession
      <4> QED
        BY <1>4, <1>51, <1>8, <1>10, <1>13, <3>2, <4>1
    <3>3. CASE i = n + 1 /\ k \in 1..n
      <4>1. v.sessions[k].id \in SessionIds(w)
        BY <1>1, <1>5, <1>8, <3>3, TabsBySession
      <4> QED
        BY <1>4, <1>51, <1>8, <1>10, <1>13, <3>3, <4>1
    <3> QED
      BY <1>6, <1>8, <1>9, <2>2, <3>1, <3>2, <3>3
  <2>3. SessionIds(v) \cap TabIds(v) = {}
    BY <1>1, <1>12, <1>13 DEF Numbered
  <2>4. ASSUME NEW x \in SessionIds(v) \cup TabIds(v) PROVE x < v.next
    <3>1. CASE x = w.next
      BY <1>1, <1>8, <3>1
    <3>2. CASE x \in SessionIds(w) \cup TabIds(w)
      <4>1. x < w.next /\ x \in Nat
        BY <1>1, <3>2, CounterAhead
      <4> QED
        BY <1>1, <1>8, <4>1
    <3> QED
      BY <1>12, <1>13, <3>1, <3>2
  <2> QED
    BY <1>8, <2>1, <2>2, <2>3, <2>4 DEF Numbered
<1>15. PanesApart(v)
  BY <1>1, <1>11 DEF PanesApart
<1>16. ActiveSession(v)
  <2>1. a \in SessionIds(v)
    BY <1>1, <1>12 DEF ActiveSession, a
  <2> QED
    BY <1>6, <1>8, <2>1 DEF ActiveSession
<1>17. ActiveTabs(v)
  <2> SUFFICES ASSUME NEW i \in DOMAIN v.sessions PROVE ActiveTab(v.sessions[i])
    BY DEF ActiveTabs
  <2>1. CASE i \in 1..n
    BY <1>1, <1>5, <1>8, <2>1 DEF ActiveTabs
  <2>2. CASE i = n + 1
    BY <1>4, <1>51, <1>8, <2>2 DEF ActiveTab
  <2> QED
    BY <1>6, <1>8, <1>9, <2>1, <2>2
<1> QED
  BY <1>3, <1>8, <1>11, <1>12, <1>14, <1>15, <1>16, <1>17 DEF Sound

(* move_tab, to another Session                                            *)
LEMMA MoveTabSound ==
  ASSUME NEW w, Sound(w), NEW t \in TabIds(w), NEW s \in SessionIds(w), NEW k \in Nat \ {0}
  PROVE  LET v == MoveTab(w, t, s, k)
         IN Sound(v) /\ v.next = w.next /\ Tabs(v) = Tabs(w) /\ SessionIds(v) \in SUBSET SessionIds(w)
<1> DEFINE from == Home(w, t)  to == IndexOf(w, s)  tab == TabOf(w, t)
           without == Without(w.sessions[from], At(w, t))
           m == Replacing(w, from, without, w.next)
           old == w.sessions[to]
           r == With(old, k, tab)
           n == Replacing(m, to, r, w.next)
           v == RepairActive(DropEmptied(n, from))
<1>1. Numbered(w) /\ PanesApart(w) /\ ActiveTabs(w) /\ w \in Workspaces /\ w.next \in Nat
  BY WorkspaceIs DEF Sound, Numbered
<1>2. CASE from = to
  <2>1. MoveTab(w, t, s, k) = ReorderTab(w, t, k)
    BY <1>2 DEF MoveTab
  <2> QED
    BY <2>1, ReorderTabSound
<1>3. CASE from # to
  <2>1. w = [next |-> w.next, active |-> w.active, sessions |-> w.sessions]
    BY <1>1, WorkspaceIs
  <2>2. to \in DOMAIN w.sessions
    BY IndexOfSession
  <2>3. from \in DOMAIN w.sessions /\ tab \in TabRecord /\ tab.id = t /\ t \in Nat
    BY HomeIs
  <2>4. MoveTab(w, t, s, k) = v
    <3>1. MoveTab(w, t, s, k) =
            RepairActive(DropEmptied([w EXCEPT !.sessions[from] = Without(@, At(w, t)),
                                               !.sessions[to] = With(@, k, tab)], from))
      BY <1>3, Zenon DEF MoveTab
    <3> DEFINE both == [w EXCEPT !.sessions[from] = Without(@, At(w, t)), !.sessions[to] = With(@, k, tab)]
               all == [[w.sessions EXCEPT ![from] = without] EXCEPT ![to] = r]
    <3>2. m.sessions = [w.sessions EXCEPT ![from] = without] /\ m.active = w.active
      BY DEF Replacing
    <3> HIDE DEF from, to, tab
    <3>3. both \in [next : {w.next}, active : {w.active}, sessions : {all}]
      BY <1>3, <2>1, <2>2, <2>3
    <3> HIDE DEF without, r, m
    <3>4. n = [next |-> w.next, active |-> w.active, sessions |-> all]
      BY <3>2 DEF Replacing
    <3>5. n \in [next : {w.next}, active : {w.active}, sessions : {all}]
      BY <3>4
    <3>6. both = n
      <4> HIDE DEF both, n, all
      <4> QED
        BY <3>3, <3>5
    <3> QED
      BY <3>1, <3>6
  <2>5. /\ Replaces(m, w, from, without, w.next) /\ Tabs(m) = Tabs(w) \ {tab}
        /\ \A i \in DOMAIN m.sessions : i # from \/ m.sessions[i].tabs # <<>> => ActiveTab(m.sessions[i])
    BY TabLeaves
  <2> HIDE DEF m, without
  <2>6. /\ Numbered(m) /\ SessionIds(m) = SessionIds(w) /\ DOMAIN m.sessions = DOMAIN w.sessions
        /\ m.next = w.next /\ \A i \in DOMAIN w.sessions : i # from => m.sessions[i] = w.sessions[i]
    BY <2>5 DEF Replaces
  <2>7. m.sessions[to] = old
    BY <1>3, <2>2, <2>6
  <2>8. old \in SessionRecord /\ Listed(old.tabs)
    BY <1>1, <2>2, WorkspaceIs DEF Numbered
  <2>81. ToSet(old.tabs) \in SUBSET Tabs(m) /\ IdsOf(old.tabs) \in SUBSET TabIds(m)
    BY <2>2, <2>6, <2>7, TabsBySession
  <2>9. t \notin TabIds(m)
    <3>1. \A x \in Tabs(w) : x.id = t => x = tab
      BY <1>1, HomeOfTab
    <3> QED
      BY <2>5, <3>1 DEF TabIds
  <2>10. t \notin SessionIds(w) /\ t < w.next
    BY <1>1 DEF Numbered
  <2> HIDE DEF old, tab, from, to
  <2>11. HasTab(r, old, tab)
    <3>1. tab.id \notin IdsOf(old.tabs)
      BY <2>3, <2>81, <2>9
    <3> QED
      BY <2>3, <2>8, <3>1, WithTab
  <2> HIDE DEF r
  <2>12. /\ r \in SessionRecord /\ r.id = old.id /\ Listed(r.tabs) /\ ActiveTab(r) /\ r.tabs # <<>>
         /\ ToSet(r.tabs) = ToSet(old.tabs) \cup {tab} /\ IdsOf(r.tabs) = IdsOf(old.tabs) \cup {t}
    BY <2>3, <2>11 DEF HasTab
  <2>13. Fits(m, to, r, w.next, {t})
    BY <1>1, <2>2, <2>3, <2>6, <2>7, <2>9, <2>10, <2>12 DEF Fits
  <2>14. Replaces(n, m, to, r, w.next)
    BY <2>6, <2>13, Replaced
  <2> HIDE DEF n
  <2>15. /\ Numbered(n) /\ SessionIds(n) = SessionIds(w) /\ DOMAIN n.sessions = DOMAIN w.sessions /\ n.next = w.next
         /\ \A i \in DOMAIN w.sessions : n.sessions[i] = IF i = to THEN r ELSE m.sessions[i]
         /\ Tabs(n) = (Tabs(m) \ ToSet(old.tabs)) \cup ToSet(r.tabs)
    BY <2>6, <2>7, <2>14 DEF Replaces
  <2>16. Tabs(n) = Tabs(w)
    <3>1. tab \in Tabs(w)
      BY <1>1, HomeOfTab DEF tab
    <3> QED
      BY <2>5, <2>12, <2>15, <2>81, <3>1
  <2>17. \A i \in DOMAIN n.sessions : i # from \/ n.sessions[i].tabs # <<>> => ActiveTab(n.sessions[i])
    BY <2>5, <2>6, <2>12, <2>15
  <2>18. /\ Numbered(v) /\ ActiveSession(v) /\ ActiveTabs(v)
         /\ Tabs(v) = Tabs(n) /\ SessionIds(v) \in SUBSET SessionIds(n) /\ v.next = n.next
    BY <2>3, <2>15, <2>17, EmptiedDropped
  <2> HIDE DEF v
  <2>19. PanesApart(v)
    BY <1>1, <2>16, <2>18 DEF PanesApart
  <2> QED
    BY <2>4, <2>15, <2>16, <2>18, <2>19 DEF Sound
<1> QED
  BY <1>2, <1>3

(* delete_session                                                          *)
LEMMA DeleteSessionSound ==
  ASSUME NEW w, Sound(w), NEW s \in SessionIds(w)
  PROVE  LET v == DeleteSession(w, s)
         IN /\ Sound(v) /\ v.next = w.next /\ SessionIds(v) \in SUBSET SessionIds(w)
            /\ Tabs(v) = Tabs(w) \ ToSet(w.sessions[IndexOf(w, s)].tabs)
<1> DEFINE i == IndexOf(w, s)
           d == [next |-> w.next, active |-> w.active, sessions |-> RemoveAt(w.sessions, i)]
           v == RepairActive(d)
<1>1. Numbered(w) /\ PanesApart(w) /\ ActiveTabs(w) /\ w \in Workspaces /\ w.active \in Nat
  BY WorkspaceIs DEF Sound, Numbered
<1>2. i \in DOMAIN w.sessions
  BY IndexOfSession
<1>3. DeleteSession(w, s) = v
  <2>1. w = [next |-> w.next, active |-> w.active, sessions |-> w.sessions]
    BY <1>1, WorkspaceIs
  <2>2. [w EXCEPT !.sessions = RemoveAt(@, i)] = d
    BY <2>1
  <2> HIDE DEF d
  <2> QED
    BY <2>2 DEF DeleteSession
<1>4. /\ Numbered(d) /\ d.next = w.next /\ SessionIds(d) = SessionIds(w) \ {w.sessions[i].id}
      /\ Tabs(d) = Tabs(w) \ ToSet(w.sessions[i].tabs)
      /\ \A k \in DOMAIN d.sessions : \E m \in DOMAIN w.sessions : m # i /\ d.sessions[k] = w.sessions[m]
  <2> HIDE DEF i
  <2> QED
    BY <1>1, <1>2, Dropped
<1> HIDE DEF d, i
<1>5. /\ Numbered(v) /\ ActiveSession(v) /\ Tabs(v) = Tabs(d) /\ SessionIds(v) = SessionIds(d)
      /\ v.sessions = d.sessions /\ v.next = d.next
  BY <1>4, Repaired
<1> HIDE DEF v
<1>6. ActiveTabs(v) /\ PanesApart(v)
  BY <1>1, <1>4, <1>5 DEF ActiveTabs, PanesApart
<1> QED
  BY <1>3, <1>4, <1>5, <1>6 DEF Sound, i

(* seed_default_session                                                    *)
LEMMA SeededSound ==
  ASSUME NEW w, Sound(w), NEW u \in Nat \ Shown(w)
  PROVE  LET v == Seeded(w, u)
         IN /\ Sound(v) /\ v.next = w.next + 2 /\ SessionIds(v) = SessionIds(w) \cup {w.next}
            /\ Tabs(v) = Tabs(w) \cup {[id |-> w.next + 1, layout |-> Leaf(u)]}
<1> DEFINE m == CreateSession(w)
           n == InsertTab(m, w.next, 1, u)
           v == [n EXCEPT !.active = w.next]
<1>1. Numbered(w) /\ w.next \in Nat
  BY CounterAhead DEF Sound
<1>2. Seeded(w, u) = v
  BY DEF Seeded
<1>3. /\ Sound(m) /\ m.next = w.next + 1 /\ Tabs(m) = Tabs(w)
      /\ SessionIds(m) = SessionIds(w) \cup {w.next}
  BY CreateSessionSound
<1> HIDE DEF m
<1>4. u \in Nat \ Shown(m) /\ w.next \in SessionIds(m)
  BY <1>3 DEF Shown
<1>5. /\ Sound(n) /\ n.next = m.next + 1 /\ SessionIds(n) = SessionIds(m)
      /\ Tabs(n) = Tabs(m) \cup {[id |-> m.next, layout |-> Leaf(u)]}
  BY <1>3, <1>4, InsertTabSound
<1> HIDE DEF n
<1>6. Sound(v) /\ v.next = n.next /\ Tabs(v) = Tabs(n) /\ SessionIds(v) = SessionIds(n)
  BY <1>4, <1>5, SetActiveSound
<1> HIDE DEF v
<1> QED
  BY <1>1, <1>2, <1>3, <1>5, <1>6

(* What the Panes show, when one Tab has changed                           *)
ShownBy(T) == UNION {Leaves(t.layout) : t \in T}

(* No Tab shows nothing, one Tab what is in it.                             *)
LEMMA ShownByOne ==
  /\ ShownBy({}) = {}
  /\ \A t : ShownBy({t}) = Leaves(t.layout)
BY DEF ShownBy

(* Where Tabs take the place of one, what they show does.                   *)
LEMMA ShownWithout ==
  ASSUME NEW w, Sound(w), NEW v, NEW tab \in Tabs(w), NEW T,
         Tabs(v) = (Tabs(w) \ {tab}) \cup T
  PROVE  Shown(v) = (Shown(w) \ Leaves(tab.layout)) \cup ShownBy(T)
<1>1. \A t \in Tabs(w) \ {tab} : Leaves(t.layout) \cap Leaves(tab.layout) = {}
  <2> SUFFICES ASSUME NEW t \in Tabs(w), t # tab PROVE Leaves(t.layout) \cap Leaves(tab.layout) = {}
    OBVIOUS
  <2>1. t.id # tab.id
    BY OneTabPerId DEF Sound
  <2> QED
    BY <2>1 DEF Sound, PanesApart
<1>2. ASSUME NEW x \in Shown(v) PROVE x \in (Shown(w) \ Leaves(tab.layout)) \cup ShownBy(T)
  BY <1>1, <1>2 DEF Shown, ShownBy
<1>3. ASSUME NEW x \in (Shown(w) \ Leaves(tab.layout)) \cup ShownBy(T) PROVE x \in Shown(v)
  BY <1>3 DEF Shown, ShownBy
<1> QED
  BY <1>2, <1>3

(* close_pane                                                              *)
LEMMA ClosePaneSound ==
  ASSUME NEW w, Sound(w), NEW t \in Tabs(w), NEW u \in Leaves(t.layout)
  PROVE  LET v == ClosePane(w, t.id, u)
         IN /\ Sound(v) /\ v.next = w.next /\ SessionIds(v) \in SUBSET SessionIds(w)
            /\ TabIds(v) \in SUBSET TabIds(w) /\ Shown(v) = Shown(w) \ {u}
<1> DEFINE l == WithoutLeaf(t.layout, u)
           v == ClosePane(w, t.id, u)
<1>1. Numbered(w) /\ PanesApart(w) /\ w \in Workspaces
  BY DEF Sound, Numbered
<1>2. t.id \in TabIds(w) /\ t.layout \in Trees
  BY <1>1, WorkspaceIs
<1>3. TabOf(w, t.id) = t
  BY <1>1, <1>2, HomeOfTab
<1>4. CASE Leaves(t.layout) = {u}
  <2>1. v = CloseTab(w, t.id)
    BY <1>3, <1>4 DEF ClosePane
  <2>2. /\ Sound(v) /\ v.next = w.next /\ Tabs(v) = Tabs(w) \ {t} /\ SessionIds(v) \in SUBSET SessionIds(w)
    BY <1>2, <1>3, <2>1, CloseTabSound
  <2> HIDE DEF v
  <2>3. TabIds(v) \in SUBSET TabIds(w)
    BY <2>2 DEF TabIds
  <2>4. Tabs(v) = (Tabs(w) \ {t}) \cup {}
    BY <2>2
  <2>5. Shown(v) = (Shown(w) \ Leaves(t.layout)) \cup ShownBy({})
    BY <2>4, ShownWithout
  <2>6. Shown(v) = Shown(w) \ {u}
    BY <1>4, <2>5, ShownByOne
  <2> QED
    BY <2>2, <2>3, <2>6 DEF v
<1>5. CASE Leaves(t.layout) # {u}
  <2>1. v = SetLayout(w, t.id, l)
    BY <1>3, <1>5 DEF ClosePane
  <2>2. Leaves(t.layout) \cap (Leaves(t.layout) \ {u}) # {}
    BY <1>5
  <2>3. l \in Trees /\ Leaves(l) = Leaves(t.layout) \cap (Leaves(t.layout) \ {u})
    BY <1>2, <2>2, CollapsedIsTree DEF WithoutLeaf
  <2> HIDE DEF l, v
  <2>4. \A r \in Tabs(w) : r.id # t.id => Leaves(l) \cap Leaves(r.layout) = {}
    BY <1>1, <2>3 DEF PanesApart
  <2> DEFINE new == [id |-> t.id, layout |-> l]
  <2>5. /\ Sound(v) /\ v.next = w.next /\ SessionIds(v) = SessionIds(w)
        /\ Tabs(v) = (Tabs(w) \ {t}) \cup {new}
    BY <1>2, <1>3, <2>1, <2>3, <2>4, SetLayoutSound
  <2>6. new.id = t.id /\ new.layout = l
    OBVIOUS
  <2> HIDE DEF new
  <2>7. TabIds(v) \in SUBSET TabIds(w)
    BY <1>2, <2>5, <2>6 DEF TabIds
  <2>8. Shown(v) = (Shown(w) \ Leaves(t.layout)) \cup ShownBy({new})
    BY <2>5, ShownWithout
  <2>9. Shown(v) = (Shown(w) \ Leaves(t.layout)) \cup Leaves(l)
    BY <2>6, <2>8, ShownByOne
  <2>10. Leaves(t.layout) \in SUBSET Shown(w)
    BY DEF Shown
  <2>11. Shown(v) = Shown(w) \ {u}
    BY <2>3, <2>9, <2>10
  <2> QED
    BY <2>5, <2>7, <2>11 DEF v
<1> QED
  BY <1>4, <1>5

-----------------------------------------------------------------------------
(* What the file holds                                                     *)

(* Finitely many finite sets have finitely many members.                    *)
LEMMA FiniteUnion ==
  ASSUME NEW I, IsFiniteSet(I), NEW f, \A i \in I : IsFiniteSet(f[i])
  PROVE  IsFiniteSet(UNION {f[i] : i \in I})
<1> DEFINE T == {f[i] : i \in I}
           g == [i \in I |-> f[i]]
<1>1. g \in Surjection(I, T)
  BY DEF Surjection
<1>2. IsFiniteSet(T)
  BY <1>1, FS_Surjection
<1> QED
  BY <1>2, FS_UNION

TabAt(w, a) == w.sessions[a[1]].tabs[a[2]]

(* A place is a Session, one of its Tabs and a path in that.                *)
LEMMA PlaceIs ==
  ASSUME NEW w \in Workspaces, NEW a \in Places(w)
  PROVE  /\ a = <<a[1], a[2], a[3]>> /\ a[1] \in DOMAIN w.sessions /\ a[2] \in DOMAIN w.sessions[a[1]].tabs
         /\ a[3] \in DOMAIN TabAt(w, a).layout.pane
         /\ a[1] \in Nat /\ a[2] \in Nat /\ a[3] \in Paths
         /\ TabAt(w, a).layout \in Trees /\ TabAt(w, a) \in Tabs(w)
         /\ TabAt(w, a) \in ToSet(w.sessions[a[1]].tabs)
<1>1. PICK i \in DOMAIN w.sessions : \E j \in DOMAIN w.sessions[i].tabs :
             \E p \in DOMAIN w.sessions[i].tabs[j].layout.pane : a = <<i, j, p>>
  BY DEF Places
<1>2. PICK j \in DOMAIN w.sessions[i].tabs :
             \E p \in DOMAIN w.sessions[i].tabs[j].layout.pane : a = <<i, j, p>>
  BY <1>1
<1>3. PICK p \in DOMAIN w.sessions[i].tabs[j].layout.pane : a = <<i, j, p>>
  BY <1>2
<1>4. w.sessions[i].tabs \in Seq(TabRecord) /\ i \in Nat /\ ToSet(w.sessions[i].tabs) \in SUBSET Tabs(w)
  <2>1. DOMAIN w.sessions = 1..Len(w.sessions) /\ Len(w.sessions) \in Nat
    BY WorkspaceIs
  <2>2. i \in Nat
    BY <2>1
  <2> QED
    BY <2>2, WorkspaceIs
<1>5. j \in Nat /\ w.sessions[i].tabs[j] \in ToSet(w.sessions[i].tabs)
  BY <1>4, ListIs
<1>6. w.sessions[i].tabs[j] \in Tabs(w)
  BY <1>4, <1>5
<1>7. w.sessions[i].tabs[j].layout \in Trees
  BY <1>6, WorkspaceIs
<1>8. p \in Paths
  BY <1>7, TreeIs
<1>9. a[1] = i /\ a[2] = j /\ a[3] = p
  BY <1>3
<1>10. TabAt(w, a) = w.sessions[i].tabs[j]
  BY <1>9 DEF TabAt
<1> QED
  BY <1>3, <1>4, <1>5, <1>6, <1>7, <1>8, <1>9, <1>10

(* There are finitely many.                                                 *)
LEMMA PlacesFinite ==
  ASSUME NEW w \in Workspaces
  PROVE  IsFiniteSet(Places(w))
<1> DEFINE S == DOMAIN w.sessions
           N(i) == DOMAIN w.sessions[i].tabs
           D(i, j) == DOMAIN w.sessions[i].tabs[j].layout.pane
           of == [i \in S |-> UNION {{<<i, j, p>> : p \in D(i, j)} : j \in N(i)}]
<1>1. Places(w) \in SUBSET UNION {of[i] : i \in S}
  <2> SUFFICES ASSUME NEW a \in Places(w) PROVE a \in UNION {of[i] : i \in S}
    OBVIOUS
  <2>1. PICK i \in S : a \in UNION {{<<i, j, p>> : p \in D(i, j)} : j \in N(i)}
    BY DEF Places
  <2>2. of[i] = UNION {{<<i, j, p>> : p \in D(i, j)} : j \in N(i)}
    BY Zenon
  <2> HIDE DEF of
  <2> QED
    BY <2>1, <2>2
<1>2. IsFiniteSet(S)
  <2>1. S = 1..Len(w.sessions) /\ Len(w.sessions) \in Int /\ 1 \in Int
    BY WorkspaceIs
  <2> QED
    BY <2>1, FS_Interval
<1>3. ASSUME NEW i \in S PROVE IsFiniteSet(of[i])
  <2> DEFINE f == [j \in N(i) |-> {<<i, j, p>> : p \in D(i, j)}]
  <2>1. w.sessions[i].tabs \in Seq(TabRecord) /\ ToSet(w.sessions[i].tabs) \in SUBSET Tabs(w)
    BY WorkspaceIs
  <2>2. IsFiniteSet(N(i))
    <3>1. N(i) = 1..Len(w.sessions[i].tabs) /\ Len(w.sessions[i].tabs) \in Int /\ 1 \in Int
      BY <2>1, ListIs
    <3> QED
      BY <3>1, FS_Interval
  <2>3. ASSUME NEW j \in N(i) PROVE IsFiniteSet(f[j])
    <3>1. w.sessions[i].tabs[j] \in Tabs(w)
      BY <2>1, ListIs
    <3>2. IsFiniteSet(D(i, j))
      BY <3>1, WorkspaceIs, TreeIs
    <3> DEFINE T == {<<i, j, p>> : p \in D(i, j)}
               g == [p \in D(i, j) |-> <<i, j, p>>]
    <3>3. g \in Surjection(D(i, j), T)
      BY DEF Surjection
    <3>4. f[j] = T
      OBVIOUS
    <3> HIDE DEF T, g, f
    <3>5. IsFiniteSet(T)
      BY <3>2, <3>3, FS_Surjection
    <3> QED
      BY <3>4, <3>5
  <2>4. of[i] \in SUBSET UNION {f[j] : j \in N(i)}
    <3> SUFFICES ASSUME NEW a \in of[i] PROVE a \in UNION {f[j] : j \in N(i)}
      OBVIOUS
    <3>1. of[i] = UNION {{<<i, j, p>> : p \in D(i, j)} : j \in N(i)}
      BY Zenon
    <3> HIDE DEF of
    <3>2. PICK j \in N(i) : a \in {<<i, j, p>> : p \in D(i, j)}
      BY <3>1
    <3>3. f[j] = {<<i, j, p>> : p \in D(i, j)}
      BY Zenon
    <3> HIDE DEF f
    <3> QED
      BY <3>2, <3>3
  <2> HIDE DEF f, of, N
  <2>5. IsFiniteSet(UNION {f[j] : j \in N(i)})
    BY <2>2, <2>3, FiniteUnion
  <2> QED
    BY <2>4, <2>5, FS_Subset
<1> HIDE DEF of, S
<1>4. IsFiniteSet(UNION {of[i] : i \in S})
  BY <1>2, <1>3, FiniteUnion
<1> QED
  BY <1>1, <1>4, FS_Subset

(* The Panes of a Workspace have an order                                  *)
EarlierPairs(w) == {ab \in Places(w) \X Places(w) : Earlier(ab[1], ab[2])}

(* Tree order puts all places of a Workspace in an order.                   *)
LEMMA PlacesOrdered ==
  ASSUME NEW w \in Workspaces
  PROVE  /\ Orders(EarlierPairs(w), Places(w))
         /\ \A a, b \in Places(w) : <<a, b>> \in EarlierPairs(w) <=> Earlier(a, b)
<1> DEFINE P == Places(w)
<1>1. \A a, b \in P : <<a, b>> \in EarlierPairs(w) <=> Earlier(a, b)
  BY DEF EarlierPairs
<1>2. \A a \in P : a[1] \in Nat /\ a[2] \in Nat /\ a[3] \in Paths
  BY PlaceIs
<1>3. ASSUME NEW a \in P PROVE ~Earlier(a, a)
  BY <1>2, BeforeOrders DEF Earlier
<1>4. ASSUME NEW a \in P, NEW b \in P, a # b PROVE Earlier(a, b) \/ Earlier(b, a)
  <2>1. CASE a[1] # b[1] \/ a[2] # b[2]
    BY <1>2, <2>1 DEF Earlier
  <2>2. CASE a[1] = b[1] /\ a[2] = b[2]
    <3>1. a = <<a[1], a[2], a[3]>> /\ b = <<b[1], b[2], b[3]>> /\ TabAt(w, a) = TabAt(w, b)
      BY <2>2, PlaceIs DEF TabAt
    <3>2. /\ a[3] \in DOMAIN TabAt(w, a).layout.pane /\ b[3] \in DOMAIN TabAt(w, a).layout.pane
          /\ TabAt(w, a).layout \in Trees
      BY <3>1, PlaceIs
    <3>3. a[3] # b[3]
      BY <1>4, <2>2, <3>1
    <3>4. \E m \in Nat : Part(a[3], b[3], m)
      BY <3>2, <3>3, TreeIs
    <3>5. Before(a[3], b[3]) \/ Before(b[3], a[3])
      BY <1>2, <3>4, BeforeOrders
    <3> QED
      BY <2>2, <3>5 DEF Earlier
  <2> QED
    BY <2>1, <2>2
<1>5. ASSUME NEW a \in P, NEW b \in P, NEW c \in P, Earlier(a, b), Earlier(b, c) PROVE Earlier(a, c)
  <2>1. /\ a[1] \in Nat /\ a[2] \in Nat /\ a[3] \in Paths /\ b[1] \in Nat /\ b[2] \in Nat /\ b[3] \in Paths
        /\ c[1] \in Nat /\ c[2] \in Nat /\ c[3] \in Paths
    BY <1>2
  <2>2. Before(a[3], b[3]) /\ Before(b[3], c[3]) => Before(a[3], c[3])
    BY <2>1, BeforeOrders
  <2>3. CASE a[1] < b[1] \/ b[1] < c[1]
    BY <1>5, <2>1, <2>3 DEF Earlier
  <2>4. CASE a[1] = b[1] /\ b[1] = c[1]
    BY <1>5, <2>1, <2>2, <2>4 DEF Earlier
  <2> QED
    BY <1>5, <2>1, <2>3, <2>4 DEF Earlier
<1> HIDE DEF P
<1> QED
  BY <1>1, <1>3, <1>4, <1>5 DEF Orders, P

(* The Panes of a file in tree order: every Surface it shows, once         *)
LEMMA PanesAre ==
  ASSUME NEW w, Numbered(w), PanesApart(w)
  PROVE  /\ Panes(w) \in Seq(Nat) /\ ToSet(Panes(w)) = Shown(w)
         /\ \A m, n \in DOMAIN Panes(w) : Panes(w)[m] = Panes(w)[n] => m = n
<1> DEFINE P == Places(w)  size == Cardinality(P)  R == EarlierPairs(w)
           Pos(a) == Cardinality({b \in P : Earlier(b, a)})
           At_(m) == CHOOSE a \in P : Pos(a) = m - 1
<1>1. w \in Workspaces
  BY DEF Numbered
<1>2. Numbers(R, P) /\ \A a, b \in P : <<a, b>> \in R <=> Earlier(a, b)
  <2>1. IsFiniteSet(P) /\ Orders(R, P) /\ \A a, b \in P : <<a, b>> \in R <=> Earlier(a, b)
    BY <1>1, PlacesFinite, PlacesOrdered
  <2> HIDE DEF P, R
  <2> QED
    BY <2>1, Ranked
<1>3. Panes(w) = [m \in 1..size |-> ShownAt(w, At_(m))]
  BY Zenon DEF Panes
<1> HIDE DEF P, R
<1>4. \A a \in P : Pos(a) = Rank(P, R, a)
  <2> SUFFICES ASSUME NEW a \in P PROVE Pos(a) = Rank(P, R, a)
    OBVIOUS
  <2>1. {b \in P : Earlier(b, a)} = {b \in P : <<b, a>> \in R}
    BY <1>2
  <2> QED
    BY <2>1 DEF Rank
<1>5. /\ size \in Nat
      /\ \A a \in P : Pos(a) \in 0..size - 1
      /\ \A a, b \in P : Pos(a) = Pos(b) => a = b
      /\ \A m \in 1..size : \E a \in P : Pos(a) = m - 1
  BY <1>2, <1>4 DEF Numbers
<1> HIDE DEF Pos, size
<1>6. \A m \in 1..size : At_(m) \in P /\ Pos(At_(m)) = m - 1
  BY <1>5
<1>7. \A a \in P : \E m \in 1..size : At_(m) = a
  <2> SUFFICES ASSUME NEW a \in P PROVE \E m \in 1..size : At_(m) = a
    OBVIOUS
  <2>1. Pos(a) + 1 \in 1..size /\ (Pos(a) + 1) - 1 = Pos(a)
    BY <1>5
  <2>2. At_(Pos(a) + 1) \in P /\ Pos(At_(Pos(a) + 1)) = Pos(a)
    BY <1>6, <2>1
  <2>3. At_(Pos(a) + 1) = a
    BY <1>5, <2>2
  <2> QED
    BY <2>1, <2>3
<1>8. \A m, n \in 1..size : At_(m) = At_(n) => m = n
  <2> SUFFICES ASSUME NEW m \in 1..size, NEW n \in 1..size, At_(m) = At_(n) PROVE m = n
    OBVIOUS
  <2>1. Pos(At_(m)) = m - 1 /\ Pos(At_(n)) = n - 1
    BY <1>6
  <2>2. m - 1 = n - 1
    BY <2>1
  <2> QED
    BY <1>5, <2>2
<1> HIDE DEF At_
<1>9. \A a \in P : ShownAt(w, a) \in Nat /\ ShownAt(w, a) \in Shown(w)
  <2> SUFFICES ASSUME NEW a \in P PROVE ShownAt(w, a) \in Nat /\ ShownAt(w, a) \in Shown(w)
    OBVIOUS
  <2>1. /\ a[3] \in DOMAIN TabAt(w, a).layout.pane /\ TabAt(w, a).layout \in Trees /\ TabAt(w, a) \in Tabs(w)
    BY <1>1, PlaceIs DEF P
  <2>2. ShownAt(w, a) = TabAt(w, a).layout.pane[a[3]]
    BY DEF ShownAt, TabAt
  <2>3. ShownAt(w, a) \in Nat /\ ShownAt(w, a) \in Leaves(TabAt(w, a).layout)
    BY <2>1, <2>2, TreeIs
  <2> QED
    BY <2>1, <2>3 DEF Shown
<1>10. \A u \in Shown(w) : \E a \in P : ShownAt(w, a) = u
  <2> SUFFICES ASSUME NEW u \in Shown(w) PROVE \E a \in P : ShownAt(w, a) = u
    OBVIOUS
  <2>1. PICK t \in Tabs(w) : u \in Leaves(t.layout)
    BY DEF Shown
  <2>2. t.layout \in Trees
    BY <1>1, WorkspaceIs
  <2>3. PICK p \in DOMAIN t.layout.pane : t.layout.pane[p] = u
    BY <2>1, <2>2, TreeIs
  <2>4. PICK i \in DOMAIN w.sessions : t \in ToSet(w.sessions[i].tabs)
    BY TabsBySession
  <2>5. PICK j \in DOMAIN w.sessions[i].tabs : w.sessions[i].tabs[j] = t
    BY <2>4 DEF ToSet
  <2>6. <<i, j, p>> \in P
    BY <2>3, <2>5 DEF P, Places
  <2>7. ShownAt(w, <<i, j, p>>) = u
    BY <2>3, <2>5 DEF ShownAt
  <2> QED
    BY <2>6, <2>7
<1>11. ASSUME NEW a \in P, NEW b \in P, ShownAt(w, a) = ShownAt(w, b) PROVE a = b
  <2> DEFINE s == TabAt(w, a)  t == TabAt(w, b)
  <2>1. /\ a = <<a[1], a[2], a[3]>> /\ a[1] \in DOMAIN w.sessions /\ a[2] \in DOMAIN w.sessions[a[1]].tabs
        /\ a[3] \in DOMAIN s.layout.pane
        /\ s.layout \in Trees /\ s \in Tabs(w) /\ s \in ToSet(w.sessions[a[1]].tabs)
    BY <1>1, PlaceIs DEF P
  <2>2. /\ b = <<b[1], b[2], b[3]>> /\ b[1] \in DOMAIN w.sessions /\ b[2] \in DOMAIN w.sessions[b[1]].tabs
        /\ b[3] \in DOMAIN t.layout.pane
        /\ t.layout \in Trees /\ t \in Tabs(w) /\ t \in ToSet(w.sessions[b[1]].tabs)
    BY <1>1, PlaceIs DEF P
  <2>3. /\ s = w.sessions[a[1]].tabs[a[2]] /\ t = w.sessions[b[1]].tabs[b[2]]
        /\ ShownAt(w, a) = s.layout.pane[a[3]] /\ ShownAt(w, b) = t.layout.pane[b[3]]
    BY DEF ShownAt, TabAt
  <2> HIDE DEF s, t
  <2>4. ShownAt(w, a) \in Leaves(s.layout) /\ ShownAt(w, b) \in Leaves(t.layout)
    <3>1. \A p \in DOMAIN s.layout.pane : s.layout.pane[p] \in Leaves(s.layout)
      BY <2>1, TreeIs
    <3>2. \A p \in DOMAIN t.layout.pane : t.layout.pane[p] \in Leaves(t.layout)
      BY <2>2, TreeIs
    <3>3. a[3] \in DOMAIN s.layout.pane /\ b[3] \in DOMAIN t.layout.pane
      BY <2>1, <2>2
    <3> QED
      BY <2>3, <3>1, <3>2, <3>3
  <2>5. s.id = t.id
    BY <1>11, <2>1, <2>2, <2>4 DEF PanesApart
  <2>6. s = t
    BY <2>1, <2>2, <2>5, OneTabPerId
  <2>7. a[1] = b[1]
    BY <2>1, <2>2, <2>6, OneTabPerId
  <2>8. a[2] = b[2]
    <3> DEFINE ts == w.sessions[a[1]].tabs
    <3>1. \A j, k \in DOMAIN ts : ts[j].id = ts[k].id => j = k
      BY <2>1 DEF Numbered, Listed
    <3>2. a[2] \in DOMAIN ts /\ b[2] \in DOMAIN ts /\ s = ts[a[2]] /\ t = ts[b[2]]
      BY <2>1, <2>2, <2>3, <2>7
    <3> HIDE DEF ts
    <3> QED
      BY <2>5, <3>1, <3>2
  <2>9. a[3] = b[3]
    <3>1. s.layout.pane[a[3]] = s.layout.pane[b[3]] /\ b[3] \in DOMAIN s.layout.pane
      BY <1>11, <2>2, <2>3, <2>6
    <3>2. \A p, q \in DOMAIN s.layout.pane : p # q => s.layout.pane[p] # s.layout.pane[q]
      BY <2>1, TreeIs
    <3> QED
      BY <2>1, <3>1, <3>2
  <2> QED
    BY <2>1, <2>2, <2>7, <2>8, <2>9
<1>12. Panes(w) \in [1..size -> Nat]
  BY <1>3, <1>6, <1>9
<1>13. Panes(w) \in Seq(Nat) /\ DOMAIN Panes(w) = 1..size
  <2>1. Panes(w) \in Seq(Nat)
    BY <1>5, <1>12, IsASeq
  <2> QED
    BY <1>12, <2>1
<1>14. \A m \in 1..size : Panes(w)[m] = ShownAt(w, At_(m))
  BY <1>3
<1>15. ToSet(Panes(w)) = Shown(w)
  <2>1. ASSUME NEW u \in ToSet(Panes(w)) PROVE u \in Shown(w)
    <3>1. PICK m \in 1..size : Panes(w)[m] = u
      BY <1>13 DEF ToSet
    <3> QED
      BY <1>6, <1>9, <1>14, <3>1
  <2>2. ASSUME NEW u \in Shown(w) PROVE u \in ToSet(Panes(w))
    <3>1. PICK a \in P : ShownAt(w, a) = u
      BY <1>10
    <3>2. PICK m \in 1..size : At_(m) = a
      BY <1>7
    <3>3. Panes(w)[m] = u
      BY <1>14, <3>1, <3>2
    <3> QED
      BY <1>13, <3>3 DEF ToSet
  <2> QED
    BY <2>1, <2>2
<1>16. ASSUME NEW m \in DOMAIN Panes(w), NEW n \in DOMAIN Panes(w), Panes(w)[m] = Panes(w)[n] PROVE m = n
  <2>1. m \in 1..size /\ n \in 1..size
    BY <1>13
  <2>2. At_(m) = At_(n)
    BY <1>6, <1>11, <1>14, <1>16, <2>1
  <2> QED
    BY <1>8, <2>1, <2>2
<1> QED
  BY <1>13, <1>15, <1>16

(* Of Tabs whose Panes were taken out, those that have one left            *)
MaybeTab == [id : Nat, layout : Trees \cup {NoLayout}]

Emptied(f, tabs) ==
  /\ f \in Seq(MaybeTab) /\ Len(f) = Len(tabs)
  /\ \A k \in DOMAIN tabs : f[k].id = tabs[k].id

Keeps(v, f, tabs) ==
  /\ v \in Seq(TabRecord) /\ Listed(v) /\ IdsOf(v) \in SUBSET IdsOf(tabs)
  /\ \A t \in ToSet(v) : \E k \in DOMAIN tabs : t = f[k] /\ f[k].layout # NoLayout
  /\ \A k \in DOMAIN tabs : f[k].layout # NoLayout => f[k] \in ToSet(v)

(* Of Tabs that may have lost their Panes, those left are the others.       *)
LEMMA KeptTabs ==
  ASSUME NEW tabs \in Seq(TabRecord), Listed(tabs), NEW f, Emptied(f, tabs)
  PROVE  Keeps(WithPanes(f), f, tabs)
<1> DEFINE at == {k \in DOMAIN f : f[k].layout # NoLayout}
           v == Picked(f, at)
           size == Cardinality(at)
<1>1. WithPanes(f) = v
  BY DEF WithPanes
<1>2. f \in Seq(MaybeTab) /\ Len(f) = Len(tabs) /\ \A k \in DOMAIN tabs : f[k].id = tabs[k].id
  BY DEF Emptied
<1>3. DOMAIN f = DOMAIN tabs /\ DOMAIN f = 1..Len(f) /\ Len(f) \in Nat
  BY <1>2, ListIs
<1>4. at \in SUBSET DOMAIN f /\ \A k \in DOMAIN tabs : k \in at <=> f[k].layout # NoLayout
  BY <1>3
<1> HIDE DEF at
<1>5. /\ size \in Nat /\ v \in Seq(MaybeTab) /\ Len(v) = size
      /\ \A k \in 1..size : v[k] = f[Ordered(at)[k]]
      /\ \A k \in 1..size : Ordered(at)[k] \in at
      /\ \A k, m \in 1..size : k < m => Ordered(at)[k] < Ordered(at)[m]
      /\ \A i \in at : \E k \in 1..size : Ordered(at)[k] = i
  BY <1>2, <1>4, PickedKeeps
<1> HIDE DEF v, size
<1>6. DOMAIN v = 1..size
  BY <1>5, ListIs
<1>7. \A k \in 1..size : /\ Ordered(at)[k] \in DOMAIN tabs /\ v[k] = f[Ordered(at)[k]]
                         /\ f[Ordered(at)[k]].layout # NoLayout
  BY <1>3, <1>4, <1>5
<1>8. \A k \in 1..size : v[k] \in TabRecord
  <2> SUFFICES ASSUME NEW k \in 1..size PROVE v[k] \in TabRecord
    OBVIOUS
  <2>1. v[k] \in MaybeTab /\ v[k].layout # NoLayout
    BY <1>2, <1>3, <1>7, ListIs
  <2> QED
    BY <2>1 DEF MaybeTab, TabRecord
<1>9. v \in Seq(TabRecord)
  <2>1. v \in [1..size -> TabRecord]
    BY <1>5, <1>6, <1>8, SeqDef
  <2> QED
    BY <1>5, <2>1, IsASeq
<1>10. Listed(v)
  <2> SUFFICES ASSUME NEW k \in 1..size, NEW m \in 1..size, v[k].id = v[m].id PROVE k = m
    BY <1>6 DEF Listed
  <2>1. tabs[Ordered(at)[k]].id = tabs[Ordered(at)[m]].id
    BY <1>2, <1>7
  <2>2. Ordered(at)[k] = Ordered(at)[m]
    BY <1>7, <2>1 DEF Listed
  <2>3. Ordered(at)[k] \in Nat
    BY <1>3, <1>7
  <2>4. ~(k < m) /\ ~(m < k)
    BY <1>5, <2>2, <2>3
  <2> QED
    BY <1>5, <2>4
<1>11. \A t \in ToSet(v) : \E k \in DOMAIN tabs : t = f[k] /\ f[k].layout # NoLayout
  BY <1>6, <1>7 DEF ToSet
<1>12. IdsOf(v) \in SUBSET IdsOf(tabs)
  <2> SUFFICES ASSUME NEW t \in ToSet(v) PROVE t.id \in IdsOf(tabs)
    BY DEF IdsOf
  <2>1. PICK k \in DOMAIN tabs : t = f[k]
    BY <1>11
  <2>2. t.id = tabs[k].id /\ tabs[k] \in ToSet(tabs)
    BY <1>2, <2>1 DEF ToSet
  <2> QED
    BY <2>2 DEF IdsOf
<1>13. ASSUME NEW k \in DOMAIN tabs, f[k].layout # NoLayout PROVE f[k] \in ToSet(v)
  <2>1. k \in at
    BY <1>4, <1>13
  <2>2. PICK m \in 1..size : Ordered(at)[m] = k
    BY <1>5, <2>1
  <2>3. v[m] = f[k] /\ m \in DOMAIN v
    BY <1>5, <1>6, <2>2
  <2> QED
    BY <2>3 DEF ToSet
<1> QED
  BY <1>1, <1>9, <1>10, <1>11, <1>12, <1>13 DEF Keeps

(* Sessions that were Sessions of another Workspace, with some of its Tabs *)
Taken(ss, w, h) ==
  /\ ss \in Seq(SessionRecord) /\ h \in [DOMAIN ss -> DOMAIN w.sessions]
  /\ \A i, k \in DOMAIN ss : h[i] = h[k] => i = k
  /\ \A i \in DOMAIN ss : /\ ss[i].id = w.sessions[h[i]].id /\ Listed(ss[i].tabs)
                          /\ IdsOf(ss[i].tabs) \in SUBSET IdsOf(w.sessions[h[i]].tabs)

(* A Workspace of Sessions taken from a sound one is numbered.              *)
LEMMA FromSessions ==
  ASSUME NEW w, Numbered(w), NEW ss, NEW h, Taken(ss, w, h), NEW n \in Nat, n >= w.next, NEW a \in Nat
  PROVE  Numbered([next |-> n, active |-> a, sessions |-> ss])
<1> DEFINE v == [next |-> n, active |-> a, sessions |-> ss]
<1>1. v.next = n /\ v.active = a /\ v.sessions = ss
  OBVIOUS
<1>2. v \in Workspaces
  BY DEF Workspaces, Taken
<1> HIDE DEF v
<1> USE DEF Taken
<1>3. SessionIds(v) \in SUBSET SessionIds(w)
  BY <1>1 DEF SessionIds
<1>4. TabIds(v) \in SUBSET TabIds(w)
  <2> SUFFICES ASSUME NEW x \in TabIds(v) PROVE x \in TabIds(w)
    OBVIOUS
  <2>1. PICK k \in DOMAIN v.sessions : x \in IdsOf(v.sessions[k].tabs)
    BY TabsBySession
  <2>2. h[k] \in DOMAIN w.sessions /\ x \in IdsOf(w.sessions[h[k]].tabs)
    BY <1>1, <2>1
  <2> QED
    BY <2>2, TabsBySession
<1>5. \A i \in DOMAIN v.sessions : Listed(v.sessions[i].tabs)
  BY <1>1
<1>6. ASSUME NEW i \in DOMAIN ss, NEW k \in DOMAIN ss, i # k
      PROVE  ss[i].id # ss[k].id /\ IdsOf(ss[i].tabs) \cap IdsOf(ss[k].tabs) = {}
  <2>1. h[i] \in DOMAIN w.sessions /\ h[k] \in DOMAIN w.sessions /\ h[i] # h[k]
    BY <1>6
  <2>2. /\ w.sessions[h[i]].id # w.sessions[h[k]].id
        /\ IdsOf(w.sessions[h[i]].tabs) \cap IdsOf(w.sessions[h[k]].tabs) = {}
    BY <2>1 DEF Numbered
  <2> QED
    BY <2>2
<1>7. SessionIds(v) \cap TabIds(v) = {}
  BY <1>3, <1>4 DEF Numbered
<1>8. ASSUME NEW x \in SessionIds(v) \cup TabIds(v) PROVE x < v.next
  <2>1. x \in Nat /\ x < w.next /\ w.next \in Nat
    BY <1>3, <1>4, CounterAhead
  <2> QED
    BY <1>1, <2>1
<1>9. Numbered(v)
  BY <1>1, <1>2, <1>5, <1>6, <1>7, <1>8 DEF Numbered
<1> QED
  BY <1>9 DEF v

(* The highest id of a file is behind its counter                          *)
LEMMA HighestIs ==
  ASSUME NEW v, Numbered(v)
  PROVE  HighestId(v) \in Nat /\ (v.next > 0 => HighestId(v) < v.next)
<1> DEFINE S == {0} \cup SessionIds(v) \cup TabIds(v)
<1>1. v.next \in Nat /\ \A x \in SessionIds(v) \cup TabIds(v) : x \in Nat /\ x < v.next
  BY CounterAhead
<1>2. S \in SUBSET Nat /\ S # {} /\ \A x \in S : x <= v.next
  BY <1>1
<1>3. HighestId(v) = Max(S)
  <2>1. UNION {{t.id : t \in ToSet(v.sessions[i].tabs)} : i \in DOMAIN v.sessions} = TabIds(v)
    BY TabsBySession DEF IdsOf
  <2> QED
    BY <2>1 DEF HighestId, SessionIds
<1> HIDE DEF S
<1>4. IsFiniteSet(S)
  BY <1>1, <1>2, FS_BoundedSetOfNaturals
<1>5. Max(S) \in S
  BY <1>2, <1>4, MaxOfFinite
<1>6. \A x \in S : x \in Nat /\ (v.next > 0 => x < v.next)
  BY <1>1 DEF S
<1> QED
  BY <1>3, <1>5, <1>6

(* snapshot_file                                                           *)
LEMMA FileSound ==
  ASSUME NEW w, Numbered(w), PanesApart(w), NEW known
  PROVE  LET v == File(w, known) IN Numbered(v) /\ PanesApart(v) /\ v.next = w.next
<1> DEFINE Kept(t) == [t EXCEPT !.layout = Collapsed(@, known)]
           F(s) == [k \in DOMAIN s.tabs |-> Kept(s.tabs[k])]
           Saved(s) == [s EXCEPT !.tabs = WithPanes([k \in DOMAIN @ |-> Kept(@[k])])]
           ss == [i \in DOMAIN w.sessions |-> Saved(w.sessions[i])]
           v == [next |-> w.next, active |-> w.active, sessions |-> ss]
           h == [i \in DOMAIN w.sessions |-> i]
<1>1. /\ w \in Workspaces /\ w = [next |-> w.next, active |-> w.active, sessions |-> w.sessions]
      /\ w.next \in Nat /\ w.active \in Nat
      /\ DOMAIN w.sessions = 1..Len(w.sessions) /\ Len(w.sessions) \in Nat
  BY WorkspaceIs DEF Numbered
<1>2. File(w, known) = v
  <2>1. File(w, known) = [w EXCEPT !.sessions = [i \in DOMAIN @ |-> Saved(@[i])]]
    BY Zenon DEF File
  <2> HIDE DEF Saved
  <2>2. [w EXCEPT !.sessions = [i \in DOMAIN @ |-> Saved(@[i])]] = [w EXCEPT !.sessions = ss]
    OBVIOUS
  <2> HIDE DEF ss
  <2> QED
    BY <1>1, <2>1, <2>2
<1>3. ASSUME NEW t \in TabRecord
      PROVE  /\ Kept(t) \in MaybeTab /\ Kept(t).id = t.id
             /\ Kept(t).layout # NoLayout =>
                  Kept(t).layout \in Trees /\ Leaves(Kept(t).layout) \in SUBSET Leaves(t.layout)
  <2>1. t = [id |-> t.id, layout |-> t.layout] /\ t.id \in Nat /\ t.layout \in Trees
    BY DEF TabRecord
  <2>2. Kept(t) = [id |-> t.id, layout |-> Collapsed(t.layout, known)]
    BY <2>1
  <2>3. CASE Leaves(t.layout) \cap known = {}
    BY <2>1, <2>2, <2>3, CollapsedIsTree DEF MaybeTab
  <2>4. CASE Leaves(t.layout) \cap known # {}
    BY <2>1, <2>2, <2>4, CollapsedIsTree DEF MaybeTab
  <2> QED
    BY <2>3, <2>4
<1> HIDE DEF Kept
<1>4. ASSUME NEW i \in DOMAIN w.sessions
      PROVE  LET s == w.sessions[i]
             IN /\ Saved(s) \in SessionRecord /\ Saved(s).id = s.id
                /\ s.tabs \in Seq(TabRecord) /\ Keeps(Saved(s).tabs, F(s), s.tabs)
  <2> DEFINE s == w.sessions[i]
  <2>1. /\ s \in SessionRecord /\ s = [id |-> s.id, tab |-> s.tab, tabs |-> s.tabs]
        /\ s.id \in Nat /\ s.tab \in Nat /\ s.tabs \in Seq(TabRecord) /\ Listed(s.tabs)
    BY <1>1, WorkspaceIs DEF Numbered
  <2> HIDE DEF s
  <2>2. Saved(s) = [s EXCEPT !.tabs = WithPanes(F(s))]
    OBVIOUS
  <2>3. Emptied(F(s), s.tabs)
    <3>1. Len(s.tabs) \in Nat /\ DOMAIN s.tabs = 1..Len(s.tabs) /\ \A k \in DOMAIN s.tabs : s.tabs[k] \in TabRecord
      BY <2>1, ListIs
    <3>2. F(s) \in [1..Len(s.tabs) -> MaybeTab] /\ \A k \in DOMAIN s.tabs : F(s)[k].id = s.tabs[k].id
      BY <1>3, <3>1
    <3> HIDE DEF F
    <3>3. F(s) \in Seq(MaybeTab) /\ DOMAIN F(s) = 1..Len(s.tabs)
      BY <3>1, <3>2, IsASeq
    <3>4. Len(F(s)) = Len(s.tabs)
      BY <3>1, <3>3, LenProperties
    <3> QED
      BY <3>2, <3>3, <3>4 DEF Emptied
  <2> HIDE DEF F, Saved
  <2>4. Keeps(WithPanes(F(s)), F(s), s.tabs)
    BY <2>1, <2>3, KeptTabs
  <2> DEFINE tabs == WithPanes(F(s))
  <2>5. tabs \in Seq(TabRecord)
    BY <2>4 DEF Keeps
  <2> HIDE DEF tabs
  <2>6. Saved(s) = [id |-> s.id, tab |-> s.tab, tabs |-> tabs]
    BY <2>1, <2>2 DEF tabs
  <2>7. Saved(s) \in SessionRecord /\ Saved(s).id = s.id /\ Saved(s).tabs = tabs
    BY <2>1, <2>5, <2>6 DEF SessionRecord
  <2> QED
    BY <2>1, <2>4, <2>7 DEF tabs, s
<1>5. ss \in Seq(SessionRecord) /\ DOMAIN ss = DOMAIN w.sessions /\ \A i \in DOMAIN ss : ss[i] = Saved(w.sessions[i])
  <2> HIDE DEF Saved
  <2>1. ss \in [1..Len(w.sessions) -> SessionRecord]
    BY <1>1, <1>4
  <2> QED
    BY <1>1, <2>1, IsASeq
<1> HIDE DEF ss, Saved, F
<1>6. Taken(ss, w, h)
  BY <1>4, <1>5 DEF Taken, Keeps
<1>7. Numbered(v)
  <2> HIDE DEF h
  <2>1. w.next >= w.next
    BY <1>1
  <2> QED
    BY <1>1, <1>6, <2>1, FromSessions
<1>8. v.next = w.next /\ v.sessions = ss
  OBVIOUS
<1> HIDE DEF v
<1>9. PanesApart(v)
  <2>1. ASSUME NEW t \in Tabs(v)
        PROVE  \E s \in Tabs(w) : s.id = t.id /\ Leaves(t.layout) \in SUBSET Leaves(s.layout)
    <3>1. PICK i \in DOMAIN v.sessions : t \in ToSet(v.sessions[i].tabs)
      BY TabsBySession
    <3>2. i \in DOMAIN w.sessions /\ v.sessions[i] = Saved(w.sessions[i])
      BY <1>5, <1>8, <3>1
    <3> DEFINE s == w.sessions[i]
    <3>3. s.tabs \in Seq(TabRecord) /\ Keeps(Saved(s).tabs, F(s), s.tabs)
      BY <1>4, <3>2
    <3> HIDE DEF s
    <3>4. PICK k \in DOMAIN s.tabs : t = F(s)[k] /\ F(s)[k].layout # NoLayout
      BY <3>1, <3>2, <3>3 DEF Keeps, s
    <3>5. t = Kept(s.tabs[k]) /\ s.tabs[k] \in TabRecord /\ s.tabs[k] \in ToSet(s.tabs)
      BY <3>3, <3>4, ListIs DEF F
    <3>6. s.tabs[k] \in Tabs(w)
      BY <3>2, <3>5, TabsBySession DEF s
    <3> QED
      BY <1>3, <3>4, <3>5, <3>6
  <2> QED
    BY <2>1, ApartCarried
<1> QED
  BY <1>2, <1>7, <1>8, <1>9

(* The Panes of a file, each over the Surface of its place                 *)
LEMMA InsteadIs ==
  ASSUME NEW file, Numbered(file), PanesApart(file)
  PROVE  /\ \A u \in Shown(file) : /\ Instead(file)[u] \in Nat /\ Instead(file)[u] \in DOMAIN Panes(file)
                                   /\ Panes(file)[Instead(file)[u]] = u
         /\ \A i \in DOMAIN Panes(file) : Panes(file)[i] \in Shown(file) /\ Instead(file)[Panes(file)[i]] = i
<1> DEFINE panes == Panes(file)
<1>1. panes \in Seq(Nat) /\ ToSet(panes) = Shown(file) /\ \A m, n \in DOMAIN panes : panes[m] = panes[n] => m = n
  BY PanesAre
<1>2. DOMAIN panes = 1..Len(panes) /\ \A u \in ToSet(panes) : \E i \in DOMAIN panes : panes[i] = u
  BY <1>1, ListIs
<1>3. \A u \in Shown(file) : Instead(file)[u] = CHOOSE i \in DOMAIN panes : panes[i] = u
  BY <1>1 DEF Instead
<1> HIDE DEF panes
<1>4. \A u \in Shown(file) : Instead(file)[u] \in DOMAIN panes /\ panes[Instead(file)[u]] = u
  BY <1>1, <1>2, <1>3
<1>5. \A i \in DOMAIN panes : i \in Nat /\ panes[i] \in Shown(file)
  BY <1>1, <1>2, ListIs
<1>6. \A i \in DOMAIN panes : Instead(file)[panes[i]] = i
  BY <1>1, <1>4, <1>5
<1> QED
  BY <1>4, <1>5, <1>6 DEF panes

(* reseed_layout for one Tab                                               *)
LEMMA AgainIs ==
  ASSUME NEW file, Numbered(file), PanesApart(file), NEW failed, NEW t \in Tabs(file)
  PROVE  LET v == TabAgain(t, failed, Instead(file))
         IN /\ v \in MaybeTab /\ v.id = t.id
            /\ v.layout # NoLayout <=> Leaves(t.layout) \ failed # {}
            /\ v.layout # NoLayout =>
                 /\ v.layout \in Trees
                 /\ Leaves(v.layout) = {Instead(file)[u] : u \in Leaves(t.layout) \ failed}
<1> DEFINE ids == Instead(file)
           l == t.layout
           keep == Leaves(l) \ failed
           c == Collapsed(l, keep)
           v == TabAgain(t, failed, ids)
<1>1. t \in TabRecord /\ t.id \in Nat /\ l \in Trees
  BY WorkspaceIs DEF Numbered
<1>2. t = [id |-> t.id, layout |-> l]
  BY <1>1 DEF TabRecord
<1>3. v = [id |-> t.id, layout |-> Respawned(c, ids)]
  BY <1>2 DEF TabAgain
<1>4. Leaves(l) \in SUBSET Shown(file)
  BY DEF Shown
<1>5. /\ \A u \in Leaves(l) : ids[u] \in Nat
      /\ \A u, x \in Leaves(l) : ids[u] = ids[x] => u = x
  BY <1>4, InsteadIs
<1>6. NoLayout \notin Trees
  BY TreeIs DEF NoLayout
<1> HIDE DEF l, ids
<1>7. CASE keep = {}
  <2>1. c = NoLayout
    <3>1. Leaves(l) \cap keep = {}
      BY <1>7
    <3> HIDE DEF keep
    <3> QED
      BY <1>1, <3>1, CollapsedIsTree
  <2>2. Respawned(NoLayout, ids) = NoLayout
    BY DEF Respawned, NoLayout
  <2> QED
    BY <1>1, <1>3, <1>7, <2>1, <2>2 DEF MaybeTab, l, ids
<1>8. CASE keep # {}
  <2>1. c \in Trees /\ Leaves(c) = keep
    <3>1. Leaves(l) \cap keep # {} /\ Leaves(l) \cap keep = keep
      BY <1>8
    <3> HIDE DEF keep
    <3> QED
      BY <1>1, <3>1, CollapsedIsTree
  <2> HIDE DEF c
  <2>2. /\ \A u \in Leaves(c) : ids[u] \in Nat
        /\ \A u, x \in Leaves(c) : ids[u] = ids[x] => u = x
    BY <1>5, <2>1
  <2>3. Respawned(c, ids) \in Trees /\ Leaves(Respawned(c, ids)) = {ids[u] : u \in Leaves(c)}
    BY <2>1, <2>2, RespawnedIsTree
  <2> HIDE DEF v
  <2>4. v.id = t.id /\ v.layout = Respawned(c, ids) /\ v \in MaybeTab
    BY <1>1, <1>3, <2>3 DEF MaybeTab
  <2>5. v.layout \in Trees /\ Leaves(v.layout) = {ids[u] : u \in keep}
    BY <2>1, <2>3, <2>4
  <2> QED
    BY <1>6, <1>8, <2>4, <2>5 DEF l, ids, v
<1> QED
  BY <1>7, <1>8

(* The active Tab a Session comes back with                                *)
LEMMA ActiveOfIs ==
  ASSUME NEW tabs \in Seq(TabRecord), NEW tab \in Nat
  PROVE  /\ ActiveOf(tab, tabs) \in Nat
         /\ IF tabs = <<>> THEN ActiveOf(tab, tabs) = None ELSE ActiveOf(tab, tabs) \in IdsOf(tabs)
<1>1. \A k \in DOMAIN tabs : tabs[k] \in ToSet(tabs) /\ tabs[k].id \in Nat
  <2>1. \A k \in DOMAIN tabs : tabs[k] \in ToSet(tabs) /\ tabs[k] \in TabRecord
    BY ListIs
  <2> QED
    BY <2>1 DEF TabRecord
<1>2. (tabs = <<>> <=> DOMAIN tabs = {}) /\ (tabs # <<>> => 1 \in DOMAIN tabs)
  BY ListIs
<1>3. CASE \E k \in DOMAIN tabs : tabs[k].id = tab
  <2>1. ActiveOf(tab, tabs) = tab /\ tabs # <<>>
    BY <1>2, <1>3 DEF ActiveOf
  <2> QED
    BY <1>1, <1>3, <2>1 DEF IdsOf
<1>4. CASE ~(\E k \in DOMAIN tabs : tabs[k].id = tab) /\ tabs = <<>>
  BY <1>4 DEF ActiveOf, None
<1>5. CASE ~(\E k \in DOMAIN tabs : tabs[k].id = tab) /\ tabs # <<>>
  <2>1. ActiveOf(tab, tabs) = tabs[1].id
    BY <1>5 DEF ActiveOf
  <2> QED
    BY <1>1, <1>2, <1>5, <2>1 DEF IdsOf
<1> QED
  BY <1>3, <1>4, <1>5

(* reseed for one Session                                                  *)
LEMMA AgainSession ==
  ASSUME NEW file, Numbered(file), PanesApart(file), NEW failed, NEW i \in DOMAIN file.sessions
  PROVE  LET s == file.sessions[i]
             ids == Instead(file)
             v == SessionAgain(s, failed, ids)
             f == [k \in DOMAIN s.tabs |-> TabAgain(s.tabs[k], failed, ids)]
         IN /\ v \in SessionRecord /\ v.id = s.id /\ v.tabs = TabsAgain(s.tabs, failed, ids) /\ ActiveTab(v)
            /\ Keeps(v.tabs, f, s.tabs)
<1> DEFINE s == file.sessions[i]
           ids == Instead(file)
           f == [k \in DOMAIN s.tabs |-> TabAgain(s.tabs[k], failed, ids)]
           tabs == TabsAgain(s.tabs, failed, ids)
           tab == ActiveOf(s.tab, tabs)
           v == SessionAgain(s, failed, ids)
<1>1. /\ s \in SessionRecord /\ s = [id |-> s.id, tab |-> s.tab, tabs |-> s.tabs]
      /\ s.id \in Nat /\ s.tab \in Nat /\ s.tabs \in Seq(TabRecord) /\ Listed(s.tabs)
      /\ ToSet(s.tabs) \in SUBSET Tabs(file)
  BY WorkspaceIs DEF Numbered
<1> HIDE DEF s
<1>2. Len(s.tabs) \in Nat /\ DOMAIN s.tabs = 1..Len(s.tabs) /\ \A k \in DOMAIN s.tabs : s.tabs[k] \in Tabs(file)
  BY <1>1, ListIs
<1>3. \A k \in DOMAIN s.tabs : f[k] \in MaybeTab /\ f[k].id = s.tabs[k].id
  BY <1>2, AgainIs
<1>4. Emptied(f, s.tabs)
  <2>1. f \in [1..Len(s.tabs) -> MaybeTab]
    BY <1>2, <1>3
  <2>2. DOMAIN f = 1..Len(s.tabs)
    BY <1>2
  <2> HIDE DEF f
  <2>3. f \in Seq(MaybeTab)
    BY <1>2, <2>1, IsASeq
  <2>4. Len(f) = Len(s.tabs)
    BY <1>2, <2>2, <2>3, LenProperties
  <2> QED
    BY <1>3, <2>3, <2>4 DEF Emptied
<1>5. Keeps(tabs, f, s.tabs)
  <2>1. tabs = WithPanes(f)
    BY DEF TabsAgain
  <2> HIDE DEF tabs, f
  <2> QED
    BY <1>1, <1>4, <2>1, KeptTabs
<1>6. v = [id |-> s.id, tab |-> tab, tabs |-> tabs]
  <2>1. v = [s EXCEPT !.tabs = tabs, !.tab = tab]
    BY DEF SessionAgain
  <2> HIDE DEF tab, tabs
  <2>2. [s EXCEPT !.tabs = tabs, !.tab = tab] \in [id : {s.id}, tab : {tab}, tabs : {tabs}]
    BY <1>1
  <2> QED
    BY <2>1, <2>2
<1>7. tabs \in Seq(TabRecord)
  BY <1>5 DEF Keeps
<1>8. tab \in Nat /\ IF tabs = <<>> THEN tab = None ELSE tab \in IdsOf(tabs)
  BY <1>1, <1>7, ActiveOfIs
<1> HIDE DEF tab, tabs, v
<1>9. v \in SessionRecord /\ v.id = s.id /\ v.tab = tab /\ v.tabs = tabs
  BY <1>1, <1>6, <1>7, <1>8 DEF SessionRecord
<1>10. ActiveTab(v)
  BY <1>8, <1>9 DEF ActiveTab
<1> QED
  BY <1>5, <1>9, <1>10 DEF v, tabs, s

(* reseed, before the counter and the active Session are repaired          *)
BackSessions(file, failed) ==
  WithTabs([i \in DOMAIN file.sessions |-> SessionAgain(file.sessions[i], failed, Instead(file))])

PanesBack(file, failed) == {i \in DOMAIN Panes(file) : Panes(file)[i] \notin failed}

(* Tab t shows again what Tab s of the file showed, in new Surfaces         *)
ShowsAgain(t, s, file, failed) == Leaves(t.layout) = {Instead(file)[u] : u \in Leaves(s.layout) \ failed}

TabsBack(ss, file, failed) ==
  /\ \A i \in DOMAIN ss : \A t \in ToSet(ss[i].tabs) : \E s \in Tabs(file) :
       s.id = t.id /\ ShowsAgain(t, s, file, failed)
  /\ \A s \in Tabs(file) : Leaves(s.layout) \ failed # {} =>
       \E i \in DOMAIN ss : \E t \in ToSet(ss[i].tabs) : ShowsAgain(t, s, file, failed)

(* Every Tab that comes back is one of the file, and every Tab of the file  *)
(* with a Pane whose shell starts comes back.                               *)
LEMMA BackSessionsAre ==
  ASSUME NEW file, Numbered(file), PanesApart(file), NEW failed
  PROVE  LET ss == BackSessions(file, failed)
         IN /\ \E h \in [DOMAIN ss -> DOMAIN file.sessions] : Taken(ss, file, h)
            /\ \A i \in DOMAIN ss : ActiveTab(ss[i])
            /\ TabsBack(ss, file, failed)
<1> DEFINE ids == Instead(file)
           S == DOMAIN file.sessions
           Back(i) == SessionAgain(file.sessions[i], failed, ids)
           all == [i \in S |-> Back(i)]
           at == {i \in DOMAIN all : all[i].tabs # <<>>}
           ss == Picked(all, at)
           size == Cardinality(at)
           tabs(i) == file.sessions[i].tabs
           f(i) == [k \in DOMAIN tabs(i) |-> TabAgain(tabs(i)[k], failed, ids)]
           h == [m \in DOMAIN ss |-> Ordered(at)[m]]
<1>1. BackSessions(file, failed) = ss
  BY DEF BackSessions, WithTabs
<1>2. S = 1..Len(file.sessions) /\ Len(file.sessions) \in Nat
  BY WorkspaceIs DEF Numbered
<1>3. ASSUME NEW i \in S
      PROVE  /\ Back(i) \in SessionRecord /\ Back(i).id = file.sessions[i].id /\ ActiveTab(Back(i))
             /\ Keeps(Back(i).tabs, f(i), tabs(i))
  BY AgainSession
<1>4. ASSUME NEW i \in S, NEW k \in DOMAIN tabs(i)
      PROVE  /\ tabs(i)[k] \in Tabs(file) /\ f(i)[k].id = tabs(i)[k].id
             /\ f(i)[k].layout # NoLayout <=> Leaves(tabs(i)[k].layout) \ failed # {}
             /\ f(i)[k].layout # NoLayout =>
                  Leaves(f(i)[k].layout) = {ids[u] : u \in Leaves(tabs(i)[k].layout) \ failed}
  <2>1. f(i)[k] = TabAgain(tabs(i)[k], failed, ids)
    OBVIOUS
  <2>2. tabs(i)[k] \in Tabs(file)
    <3>1. tabs(i)[k] \in ToSet(tabs(i))
      BY DEF ToSet
    <3> QED
      BY <3>1, TabsBySession
  <2> HIDE DEF f, tabs
  <2> QED
    BY <2>1, <2>2, AgainIs
<1> HIDE DEF Back, f, ids
<1>5. all \in Seq(SessionRecord) /\ DOMAIN all = S /\ \A i \in S : all[i] = Back(i)
  <2>1. all \in [1..Len(file.sessions) -> SessionRecord]
    BY <1>2, <1>3
  <2> QED
    BY <1>2, <2>1, IsASeq
<1> HIDE DEF all
<1>6. at \in SUBSET DOMAIN all /\ \A i \in S : i \in at <=> Back(i).tabs # <<>>
  BY <1>5
<1> HIDE DEF at
<1>7. /\ size \in Nat /\ ss \in Seq(SessionRecord) /\ Len(ss) = size
      /\ \A k \in 1..size : ss[k] = all[Ordered(at)[k]]
      /\ \A k \in 1..size : Ordered(at)[k] \in at
      /\ \A k, m \in 1..size : k < m => Ordered(at)[k] < Ordered(at)[m]
      /\ \A i \in at : \E k \in 1..size : Ordered(at)[k] = i
  BY <1>5, <1>6, PickedKeeps
<1> HIDE DEF ss, size
<1>8. DOMAIN ss = 1..size
  BY <1>7, ListIs
<1>9. \A k \in 1..size : Ordered(at)[k] \in S /\ Ordered(at)[k] \in Nat /\ ss[k] = Back(Ordered(at)[k])
  BY <1>2, <1>5, <1>6, <1>7
<1>10. h \in [DOMAIN ss -> S] /\ \A m \in DOMAIN ss : h[m] = Ordered(at)[m]
  BY <1>8, <1>9
<1> HIDE DEF h
<1>11. ASSUME NEW k \in DOMAIN ss, NEW m \in DOMAIN ss, h[k] = h[m] PROVE k = m
  <2>1. k \in 1..size /\ m \in 1..size /\ Ordered(at)[k] = Ordered(at)[m] /\ Ordered(at)[k] \in Nat
    BY <1>8, <1>9, <1>10, <1>11
  <2>2. ~(k < m) /\ ~(m < k)
    BY <1>7, <2>1
  <2> QED
    BY <1>7, <2>1, <2>2
<1>12. Taken(ss, file, h)
  <2>1. \A k \in DOMAIN ss : h[k] \in S /\ ss[k] = Back(h[k])
    BY <1>8, <1>9, <1>10
  <2> QED
    <3>1. \A k \in DOMAIN ss : /\ ss[k].id = file.sessions[h[k]].id /\ Listed(ss[k].tabs)
                               /\ IdsOf(ss[k].tabs) \in SUBSET IdsOf(file.sessions[h[k]].tabs)
      BY <1>3, <2>1 DEF Keeps
    <3> QED
      BY <1>7, <1>10, <1>11, <3>1 DEF Taken
<1>13. \A k \in DOMAIN ss : ActiveTab(ss[k])
  BY <1>3, <1>8, <1>9
<1>14. ASSUME NEW m \in DOMAIN ss, NEW t \in ToSet(ss[m].tabs)
       PROVE  \E s \in Tabs(file) : s.id = t.id /\ Leaves(t.layout) = {ids[u] : u \in Leaves(s.layout) \ failed}
  <2>1. PICK i \in S : ss[m] = Back(i)
    BY <1>8, <1>9
  <2>2. PICK k \in DOMAIN tabs(i) : t = f(i)[k] /\ f(i)[k].layout # NoLayout
    BY <1>3, <2>1 DEF Keeps
  <2> QED
    BY <1>4, <2>2
<1>15. ASSUME NEW s \in Tabs(file), Leaves(s.layout) \ failed # {}
       PROVE  \E m \in DOMAIN ss : \E t \in ToSet(ss[m].tabs) :
                Leaves(t.layout) = {ids[u] : u \in Leaves(s.layout) \ failed}
  <2>1. PICK i \in S : s \in ToSet(tabs(i))
    BY TabsBySession
  <2>2. PICK k \in DOMAIN tabs(i) : tabs(i)[k] = s
    BY <2>1 DEF ToSet
  <2>3. f(i)[k].layout # NoLayout /\ Leaves(f(i)[k].layout) = {ids[u] : u \in Leaves(s.layout) \ failed}
    BY <1>4, <1>15, <2>2
  <2>4. f(i)[k] \in ToSet(Back(i).tabs)
    BY <1>3, <2>3 DEF Keeps
  <2>5. Back(i).tabs # <<>>
    BY <2>4 DEF ToSet
  <2>6. PICK m \in 1..size : Ordered(at)[m] = i
    BY <1>6, <1>7, <2>5
  <2>7. ss[m] = Back(i) /\ m \in DOMAIN ss
    BY <1>8, <1>9, <2>6
  <2> QED
    BY <2>3, <2>4, <2>7
<1>16. TabsBack(ss, file, failed)
  BY <1>14, <1>15 DEF TabsBack, ShowsAgain, ids
<1> QED
  BY <1>1, <1>10, <1>12, <1>13, <1>16

(* reseed                                                                  *)
LEMMA ReseededSound ==
  ASSUME NEW file, Numbered(file), PanesApart(file), NEW failed
  PROVE  LET v == Reseeded(file, failed)
         IN Sound(v) /\ v.next >= file.next /\ Shown(v) = PanesBack(file, failed)
<1> DEFINE ids == Instead(file)
           ss == BackSessions(file, failed)
           m == [next |-> file.next, active |-> file.active, sessions |-> ss]
           used == SessionIds(m) \cup TabIds(m)
           n == Counter(file, used)
           w == [next |-> n, active |-> file.active, sessions |-> ss]
           v == RepairActive(w)
<1>1. Reseeded(file, failed) = v
  <2>1. Reseeded(file, failed) = RepairActive([m EXCEPT !.next = n])
    BY Zenon DEF Reseeded, BackSessions
  <2> HIDE DEF n, ss
  <2>2. [m EXCEPT !.next = n] = w
    OBVIOUS
  <2> QED
    BY <2>1, <2>2
<1>2. file.next \in Nat /\ file.active \in Nat /\ file.next >= file.next
  BY WorkspaceIs DEF Numbered
<1>3. PICK h \in [DOMAIN ss -> DOMAIN file.sessions] : Taken(ss, file, h)
  BY BackSessionsAre
<1>4. (\A i \in DOMAIN ss : ActiveTab(ss[i])) /\ TabsBack(ss, file, failed)
  BY BackSessionsAre
<1> HIDE DEF ss
<1>5. Numbered(m)
  BY <1>2, <1>3, FromSessions
<1>6. m.next = file.next
  OBVIOUS
<1> HIDE DEF m
<1>7. n \in Nat /\ n >= file.next
  <2> DEFINE T == {file.next} \cup {i + 1 : i \in used}
  <2>1. \A i \in used : i \in Nat /\ i < file.next
    BY <1>5, <1>6, CounterAhead
  <2>2. T \in SUBSET Nat /\ T # {} /\ \A x \in T : x <= file.next
    BY <1>2, <2>1
  <2>3. n = Max(T)
    BY DEF Counter
  <2>4. file.next \in T
    OBVIOUS
  <2> HIDE DEF T, n
  <2>5. IsFiniteSet(T)
    BY <1>2, <2>2, FS_BoundedSetOfNaturals
  <2>6. Max(T) \in T /\ file.next <= Max(T)
    BY <2>2, <2>4, <2>5, MaxOfFinite
  <2> QED
    BY <1>2, <2>2, <2>3, <2>6
<1> HIDE DEF n
<1>8. Numbered(w)
  BY <1>2, <1>3, <1>7, FromSessions
<1>9. w.next = n /\ w.sessions = ss
  OBVIOUS
<1> HIDE DEF w
<1>10. /\ Numbered(v) /\ ActiveSession(v) /\ Tabs(v) = Tabs(w) /\ SessionIds(v) = SessionIds(w)
       /\ v.sessions = w.sessions /\ v.next = w.next
  BY <1>8, Repaired
<1> HIDE DEF v
<1>11. ActiveTabs(v)
  BY <1>4, <1>9, <1>10 DEF ActiveTabs
<1>12. \A t \in Tabs(v) : \E s \in Tabs(file) :
         s.id = t.id /\ Leaves(t.layout) = {ids[u] : u \in Leaves(s.layout) \ failed}
  <2> SUFFICES ASSUME NEW t \in Tabs(v)
               PROVE  \E s \in Tabs(file) :
                 s.id = t.id /\ Leaves(t.layout) = {ids[u] : u \in Leaves(s.layout) \ failed}
    OBVIOUS
  <2>1. PICK i \in DOMAIN ss : t \in ToSet(ss[i].tabs)
    BY <1>9, <1>10, TabsBySession
  <2>2. PICK s \in Tabs(file) : s.id = t.id /\ ShowsAgain(t, s, file, failed)
    BY <1>4, <2>1 DEF TabsBack
  <2> QED
    BY <2>2 DEF ShowsAgain
<1>13. \A s \in Tabs(file) : Leaves(s.layout) \ failed # {} =>
         \E t \in Tabs(v) : Leaves(t.layout) = {ids[u] : u \in Leaves(s.layout) \ failed}
  <2> SUFFICES ASSUME NEW s \in Tabs(file), Leaves(s.layout) \ failed # {}
               PROVE  \E t \in Tabs(v) : Leaves(t.layout) = {ids[u] : u \in Leaves(s.layout) \ failed}
    OBVIOUS
  <2>1. PICK i \in DOMAIN ss : \E t \in ToSet(ss[i].tabs) : ShowsAgain(t, s, file, failed)
    BY <1>4 DEF TabsBack
  <2>2. PICK t \in ToSet(ss[i].tabs) : ShowsAgain(t, s, file, failed)
    BY <2>1
  <2>3. t \in Tabs(v)
    BY <1>9, <1>10, TabsBySession
  <2> QED
    BY <2>2, <2>3 DEF ShowsAgain
<1>14. /\ \A u \in Shown(file) : /\ ids[u] \in DOMAIN Panes(file) /\ Panes(file)[ids[u]] = u
       /\ \A i \in DOMAIN Panes(file) : Panes(file)[i] \in Shown(file) /\ ids[Panes(file)[i]] = i
  BY InsteadIs
<1> HIDE DEF ids
<1>15. \A s \in Tabs(file) : Leaves(s.layout) \in SUBSET Shown(file)
  BY DEF Shown
<1>16. PanesApart(v)
  <2> SUFFICES ASSUME NEW t \in Tabs(v), NEW r \in Tabs(v), t.id # r.id,
                      NEW x \in Leaves(t.layout), x \in Leaves(r.layout)
               PROVE  FALSE
    BY DEF PanesApart
  <2>1. PICK s \in Tabs(file) : s.id = t.id /\ Leaves(t.layout) = {ids[u] : u \in Leaves(s.layout) \ failed}
    BY <1>12
  <2>2. PICK q \in Tabs(file) : q.id = r.id /\ Leaves(r.layout) = {ids[u] : u \in Leaves(q.layout) \ failed}
    BY <1>12
  <2>3. PICK a \in Leaves(s.layout) : ids[a] = x
    BY <2>1
  <2>4. PICK b \in Leaves(q.layout) : ids[b] = x
    BY <2>2
  <2>5. a = b
    BY <1>14, <1>15, <2>3, <2>4
  <2>6. Leaves(s.layout) \cap Leaves(q.layout) = {}
    BY <2>1, <2>2 DEF PanesApart
  <2> QED
    BY <2>3, <2>4, <2>5, <2>6
<1>17. Shown(v) = PanesBack(file, failed)
  <2>1. ASSUME NEW x \in Shown(v) PROVE x \in PanesBack(file, failed)
    <3>1. PICK t \in Tabs(v) : x \in Leaves(t.layout)
      BY DEF Shown
    <3>2. PICK s \in Tabs(file) : Leaves(t.layout) = {ids[u] : u \in Leaves(s.layout) \ failed}
      BY <1>12
    <3>3. PICK u \in Leaves(s.layout) \ failed : x = ids[u]
      BY <3>1, <3>2
    <3>4. x \in DOMAIN Panes(file) /\ Panes(file)[x] = u
      BY <1>14, <1>15, <3>3
    <3> QED
      BY <3>3, <3>4 DEF PanesBack
  <2>2. ASSUME NEW i \in PanesBack(file, failed) PROVE i \in Shown(v)
    <3> DEFINE u == Panes(file)[i]
    <3>1. i \in DOMAIN Panes(file) /\ u \notin failed /\ u \in Shown(file) /\ ids[u] = i
      BY <1>14 DEF PanesBack
    <3> HIDE DEF u
    <3>2. PICK s \in Tabs(file) : u \in Leaves(s.layout)
      BY <3>1 DEF Shown
    <3>3. Leaves(s.layout) \ failed # {}
      BY <3>1, <3>2
    <3>4. PICK t \in Tabs(v) : Leaves(t.layout) = {ids[y] : y \in Leaves(s.layout) \ failed}
      BY <1>13, <3>3
    <3>5. i \in Leaves(t.layout)
      BY <3>1, <3>2, <3>4
    <3> QED
      BY <3>5 DEF Shown
  <2> QED
    BY <2>1, <2>2
<1> QED
  BY <1>1, <1>7, <1>9, <1>10, <1>11, <1>16, <1>17 DEF Sound

(* load_or_seed: every Surface of the new daemon is in a Pane              *)
LEMMA BootedSound ==
  ASSUME NEW file, Numbered(file), PanesApart(file), NEW failed, NEW shell \in BOOLEAN
  PROVE  LET b == Booted(file, failed, shell)
         IN /\ Sound(b.ws) /\ b.ws.next >= file.next /\ Shown(b.ws) = b.surfaces
            /\ b.next \in Nat \ {0} /\ b.surfaces \in SUBSET (1..b.next - 1)
<1> DEFINE w == Reseeded(file, failed)
           count == Len(Panes(file))
           panes == {i \in 1..count : Panes(file)[i] \notin failed}
           b == Booted(file, failed, shell)
<1>1. Sound(w) /\ w.next >= file.next /\ Shown(w) = PanesBack(file, failed)
  BY ReseededSound
<1>2. count \in Nat /\ DOMAIN Panes(file) = 1..count
  BY PanesAre, ListIs
<1>3. Shown(w) = panes /\ panes \in SUBSET (1..count)
  BY <1>1, <1>2 DEF PanesBack
<1>4. b = IF w.sessions # <<>> THEN [ws |-> w, surfaces |-> panes, next |-> count + 1]
          ELSE IF shell THEN [ws |-> Seeded(w, count + 1), surfaces |-> panes \cup {count + 1}, next |-> count + 2]
          ELSE [ws |-> w, surfaces |-> panes, next |-> count + 2]
  BY Zenon DEF Booted
<1> HIDE DEF w, count, panes, b
<1>5. CASE w.sessions # <<>>
  <2>1. b.ws = w /\ b.surfaces = panes /\ b.next = count + 1
    BY <1>4, <1>5
  <2> QED
    BY <1>1, <1>2, <1>3, <2>1 DEF b
<1>6. CASE w.sessions = <<>> /\ shell
  <2> DEFINE v == Seeded(w, count + 1)
             t == [id |-> w.next + 1, layout |-> Leaf(count + 1)]
  <2>1. b.ws = v /\ b.surfaces = panes \cup {count + 1} /\ b.next = count + 2
    BY <1>4, <1>6
  <2>2. count + 1 \in Nat \ Shown(w)
    BY <1>2, <1>3
  <2>3. Sound(v) /\ v.next = w.next + 2 /\ Tabs(v) = Tabs(w) \cup {t}
    BY <1>1, <2>2, SeededSound
  <2>4. t.layout = Leaf(count + 1) /\ Leaves(Leaf(count + 1)) = {count + 1}
    BY <1>2, LeafIsTree
  <2> HIDE DEF v, t
  <2>5. Shown(v) = Shown(w) \cup {count + 1}
    BY <2>3, <2>4 DEF Shown
  <2>6. w.next \in Nat /\ file.next \in Nat
    BY <1>1, CounterAhead DEF Sound
  <2>7. v.next >= file.next
    BY <1>1, <2>3, <2>6
  <2>8. b.surfaces \in SUBSET (1..b.next - 1)
    BY <1>2, <1>3, <2>1
  <2> QED
    BY <1>2, <1>3, <2>1, <2>3, <2>5, <2>7, <2>8 DEF b
<1>7. CASE w.sessions = <<>> /\ ~shell
  <2>1. b.ws = w /\ b.surfaces = panes /\ b.next = count + 2
    BY <1>4, <1>7
  <2>2. b.surfaces \in SUBSET (1..b.next - 1)
    BY <1>2, <1>3, <2>1
  <2> QED
    BY <1>1, <1>2, <1>3, <2>1, <2>2 DEF b
<1> QED
  BY <1>5, <1>6, <1>7

-----------------------------------------------------------------------------
(* The inductive invariant.                                                *)

FileOk(file) == Numbered(file) /\ PanesApart(file)

(* The Workspace is sound, and over the Surfaces there are                 *)
Placed ==
  /\ Sound(ws) /\ NoOrphans
  /\ nextSurface \in Nat \ {0} /\ DOMAIN surfaces \in SUBSET (1..nextSurface - 1)

(* What was published and what was saved were such Workspaces, and the       *)
(* counters of both are ahead of every id ever saved                        *)
Stored ==
  /\ FileOk(given.ws) /\ given.ws.next = ws.next
  /\ FileOk(disk)
  /\ onDisk \in Nat /\ onDisk < ws.next /\ onDisk < disk.next

Counted == lives \in 1..MaxLives /\ unsaved \in BOOLEAN

Structure == Placed /\ Stored /\ Counted

(* A revision hands the Persister the document as it is                     *)
LEMMA BumpedStores ==
  ASSUME Structure, Quiet, Bumped, FileOk(ws'), ws'.next \in Nat, ws'.next >= ws.next
  PROVE  Stored' /\ Counted'
<1>1. /\ FileOk(disk) /\ onDisk \in Nat /\ onDisk < ws.next /\ onDisk < disk.next
      /\ lives \in 1..MaxLives
  BY DEF Structure, Stored, Counted
<1>2. disk' = disk /\ lives' = lives /\ onDisk' = onDisk
  BY DEF Quiet
<1>3. given'.ws = ws' /\ unsaved' = TRUE
  BY DEF Bumped, Document
<1>4. ws.next \in Nat
  BY CounterAhead DEF Structure, Placed, Sound
<1>5. onDisk < ws'.next
  BY <1>1, <1>4
<1>6. FileOk(given'.ws) /\ given'.ws.next = ws'.next /\ FileOk(disk')
  BY <1>1, <1>2, <1>3
<1>7. Stored'
  BY <1>1, <1>2, <1>5, <1>6 DEF Stored
<1>8. Counted'
  BY <1>1, <1>2, <1>3 DEF Counted
<1> QED
  BY <1>7, <1>8

(* A change of the document alone shows what was shown, and what else there  *)
(* is                                                                       *)
LEMMA EditedKeeps ==
  ASSUME Structure, NEW w, Edited(w), Sound(w), w.next >= ws.next,
         Shown(ws) \in SUBSET Shown(w), Shown(w) \in SUBSET DOMAIN surfaces
  PROVE  Structure'
<1>1. /\ ws' = w /\ surfaces' = surfaces /\ nextSurface' = nextSurface /\ loose' = loose
      /\ Bumped /\ Quiet
  BY DEF Edited
<1>2. FileOk(w) /\ w.next \in Nat
  BY CounterAhead DEF FileOk, Sound
<1>3. Stored' /\ Counted'
  BY <1>1, <1>2, BumpedStores
<1>4. /\ DOMAIN surfaces \ Shown(ws) \in SUBSET loose
      /\ nextSurface \in Nat \ {0} /\ DOMAIN surfaces \in SUBSET (1..nextSurface - 1)
  BY DEF Structure, Placed, NoOrphans
<1>5. Shown(ws') \in SUBSET DOMAIN surfaces' /\ DOMAIN surfaces' \ Shown(ws') \in SUBSET loose'
  BY <1>1, <1>4
<1>6. Sound(ws')
  BY <1>1
<1>7. Placed'
  BY <1>1, <1>4, <1>5, <1>6 DEF Placed, NoOrphans
<1> QED
  BY <1>3, <1>7 DEF Structure

(* A shell that starts is shown, or loose                                  *)
LEMMA SpawnedKeeps ==
  ASSUME Structure, NEW w, ws' = w, Spawned(nextSurface, FALSE), Bumped, Quiet,
         Sound(w), w.next >= ws.next,
         Shown(ws) \in SUBSET Shown(w), Shown(w) \in SUBSET (Shown(ws) \cup {nextSurface}),
         loose \in SUBSET loose', nextSurface \in Shown(w) \cup loose'
  PROVE  Structure'
<1>1. DOMAIN surfaces' = DOMAIN surfaces \cup {nextSurface} /\ nextSurface' = nextSurface + 1
  BY DEF Spawned
<1>2. FileOk(w) /\ w.next \in Nat
  BY CounterAhead DEF FileOk, Sound
<1>3. Stored' /\ Counted'
  BY <1>2, BumpedStores
<1>4. /\ Shown(ws) \in SUBSET DOMAIN surfaces
      /\ DOMAIN surfaces \ Shown(ws) \in SUBSET loose
      /\ nextSurface \in Nat \ {0} /\ DOMAIN surfaces \in SUBSET (1..nextSurface - 1)
  BY DEF Structure, Placed, NoOrphans
<1>5. DOMAIN surfaces' \in SUBSET (1..nextSurface' - 1)
  BY <1>1, <1>4
<1>6. Shown(w) \in SUBSET DOMAIN surfaces' /\ DOMAIN surfaces' \ Shown(w) \in SUBSET loose'
  BY <1>1, <1>4
<1>7. nextSurface' \in Nat \ {0}
  BY <1>1, <1>4
<1>8. Placed'
  BY <1>1, <1>4, <1>5, <1>6, <1>7 DEF Placed, NoOrphans
<1> QED
  BY <1>3, <1>8 DEF Structure

(* What a daemon without a Session seeds shows one Surface, the new one      *)
LEMMA SeedShows ==
  ASSUME NEW w, Sound(w), NEW u \in Nat \ Shown(w)
  PROVE  Shown(Seeded(w, u)) = Shown(w) \cup {u}
<1> DEFINE t == [id |-> w.next + 1, layout |-> Leaf(u)]
           v == Seeded(w, u)
<1>1. Tabs(v) = Tabs(w) \cup {t}
  BY SeededSound
<1>2. t.layout = Leaf(u) /\ Leaves(Leaf(u)) = {u}
  BY LeafIsTree
<1> HIDE DEF t, v
<1>3. Shown(v) = Shown(w) \cup {u}
  BY <1>1, <1>2 DEF Shown
<1> QED
  BY <1>3 DEF v

(* Panes that close take their Surfaces with them; where a default Session   *)
(* is seeded it shows the Surface that starts                               *)
LEMMA ClosedKeeps ==
  ASSUME Structure, NEW w, NEW gone, Closed(w, gone),
         Sound(w), w.next = ws.next, Shown(w) = Shown(ws) \ gone
  PROVE  Structure'
<1>1. /\ Shown(ws) \in SUBSET DOMAIN surfaces
      /\ DOMAIN surfaces \ Shown(ws) \in SUBSET loose
      /\ nextSurface \in Nat \ {0} /\ DOMAIN surfaces \in SUBSET (1..nextSurface - 1)
  BY DEF Structure, Placed, NoOrphans
<1>2. FileOk(w) /\ w.next \in Nat
  BY CounterAhead DEF FileOk, Sound
<1>3. loose' = loose /\ Quiet
  BY DEF Closed
<1>4. Shown(w) \in SUBSET (DOMAIN surfaces \ gone) /\ (DOMAIN surfaces \ gone) \ Shown(w) \in SUBSET loose
  BY <1>1
<1>5. CASE ws' = w /\ Killed(gone) /\ Bumped /\ nextSurface' = nextSurface
  <2>1. Stored' /\ Counted'
    BY <1>2, <1>3, <1>5, BumpedStores
  <2>2. DOMAIN surfaces' = DOMAIN surfaces \ gone
    BY <1>5 DEF Killed
  <2>3. Shown(ws') \in SUBSET DOMAIN surfaces' /\ DOMAIN surfaces' \ Shown(ws') \in SUBSET loose'
    BY <1>3, <1>4, <1>5, <2>2
  <2>4. /\ Sound(ws') /\ nextSurface' \in Nat \ {0}
        /\ DOMAIN surfaces' \in SUBSET (1..nextSurface' - 1)
    BY <1>1, <1>5, <2>2
  <2> QED
    BY <2>1, <2>3, <2>4 DEF Structure, Placed, NoOrphans
<1>6. CASE /\ ws' = Seeded(w, nextSurface)
           /\ surfaces' = [v \in (DOMAIN surfaces \ gone) \cup {nextSurface} |->
                             IF v = nextSurface THEN Fresh(TRUE) ELSE surfaces[v]]
           /\ nextSurface' = nextSurface + 1
           /\ Bumped
  <2>1. nextSurface \in Nat \ Shown(w)
    BY <1>1, <1>4
  <2>2. Sound(ws') /\ ws'.next = w.next + 2 /\ Shown(ws') = Shown(w) \cup {nextSurface}
    BY <1>6, <2>1, SeededSound, SeedShows
  <2>3. FileOk(ws') /\ ws'.next \in Nat /\ ws'.next >= ws.next
    BY <1>2, <2>2 DEF FileOk, Sound
  <2>4. Stored' /\ Counted'
    BY <1>3, <1>6, <2>3, BumpedStores
  <2>5. DOMAIN surfaces' = (DOMAIN surfaces \ gone) \cup {nextSurface}
    BY <1>6
  <2>6. Shown(ws') \in SUBSET DOMAIN surfaces' /\ DOMAIN surfaces' \ Shown(ws') \in SUBSET loose'
    BY <1>3, <1>4, <2>2, <2>5
  <2>7. nextSurface' \in Nat \ {0} /\ DOMAIN surfaces' \in SUBSET (1..nextSurface' - 1)
    BY <1>1, <1>6, <2>5
  <2> QED
    BY <2>2, <2>4, <2>6, <2>7 DEF Structure, Placed, NoOrphans
<1>7. CASE ws' = w /\ Killed(gone) /\ nextSurface' = nextSurface + 1 /\ UNCHANGED <<given, unsaved>>
  <2>1. DOMAIN surfaces' = DOMAIN surfaces \ gone
    BY <1>7 DEF Killed
  <2>2. disk' = disk /\ lives' = lives /\ onDisk' = onDisk /\ ws'.next = ws.next
        /\ given' = given /\ unsaved' = unsaved
    BY <1>3, <1>7 DEF Quiet
  <2>3. Stored' /\ Counted'
    BY <2>2 DEF Structure, Stored, Counted
  <2>4. Shown(ws') \in SUBSET DOMAIN surfaces' /\ DOMAIN surfaces' \ Shown(ws') \in SUBSET loose'
    BY <1>3, <1>4, <1>7, <2>1
  <2>5. /\ Sound(ws') /\ nextSurface' \in Nat \ {0}
        /\ DOMAIN surfaces' \in SUBSET (1..nextSurface' - 1)
    BY <1>1, <1>7, <2>1
  <2> QED
    BY <2>3, <2>4, <2>5 DEF Structure, Placed, NoOrphans
<1>8. \/ ws' = w /\ Killed(gone) /\ Bumped /\ nextSurface' = nextSurface
      \/ /\ ws' = Seeded(w, nextSurface)
         /\ surfaces' = [v \in (DOMAIN surfaces \ gone) \cup {nextSurface} |->
                           IF v = nextSurface THEN Fresh(TRUE) ELSE surfaces[v]]
         /\ nextSurface' = nextSurface + 1
         /\ Bumped
      \/ ws' = w /\ Killed(gone) /\ nextSurface' = nextSurface + 1 /\ UNCHANGED <<given, unsaved>>
  BY DEF Closed
<1> QED
  BY <1>5, <1>6, <1>7, <1>8

(* A report of a Surface changes which ones there are as little as the       *)
(* Workspace                                                                *)
LEMMA ReportedKeeps ==
  ASSUME Structure, NEW u \in DOMAIN surfaces, NEW s, Reported(u, s), Bumped \/ UNCHANGED <<given, unsaved>>
  PROVE  Structure'
<1>1. /\ ws' = ws /\ DOMAIN surfaces' = DOMAIN surfaces /\ nextSurface' = nextSurface
      /\ loose' = loose /\ Quiet
  BY DEF Reported
<1>2. Placed'
  BY <1>1 DEF Structure, Placed, NoOrphans
<1>3. FileOk(ws) /\ ws.next \in Nat /\ ws.next >= ws.next
  BY CounterAhead DEF Structure, Placed, Sound, FileOk
<1>4. CASE Bumped
  BY <1>1, <1>2, <1>3, <1>4, BumpedStores DEF Structure
<1>5. CASE UNCHANGED <<given, unsaved>>
  BY <1>1, <1>2, <1>5 DEF Structure, Stored, Counted, Quiet
<1> QED
  BY <1>4, <1>5

(* What is written is a sound Workspace, and its ids are below the counter   *)
LEMMA WrittenKeeps ==
  ASSUME Structure, NEW w, NEW known, FileOk(w), w.next = ws.next, Written(File(w, known))
  PROVE  Structure'
<1> DEFINE file == File(w, known)
           T == {onDisk, HighestId(file)}
<1>1. /\ disk' = file /\ onDisk' = Max(T) /\ unsaved' = FALSE
      /\ UNCHANGED <<ws, surfaces, hosted, nextSurface, given, lives, loose>>
  BY DEF Written
<1>2. FileOk(file) /\ file.next = ws.next
  BY FileSound DEF FileOk
<1>3. onDisk \in Nat /\ onDisk < ws.next /\ ws.next \in Nat
  BY CounterAhead DEF Structure, Stored, Placed, Sound
<1> HIDE DEF file
<1>4. HighestId(file) \in Nat /\ HighestId(file) < ws.next
  BY <1>2, <1>3, HighestIs DEF FileOk
<1>5. T \in SUBSET Nat /\ T # {} /\ IsFiniteSet(T)
  <2>1. T \in SUBSET Nat /\ T # {} /\ \A i \in T : i <= ws.next
    BY <1>3, <1>4
  <2> HIDE DEF T
  <2> QED
    BY <1>3, <2>1, FS_BoundedSetOfNaturals
<1> HIDE DEF T
<1>6. Max(T) \in T
  BY <1>5, MaxOfFinite
<1>7. onDisk' \in Nat /\ onDisk' < ws.next
  BY <1>1, <1>3, <1>4, <1>6 DEF T
<1>8. Stored'
  BY <1>1, <1>2, <1>7 DEF Structure, Stored
<1>9. Placed' /\ Counted'
  BY <1>1 DEF Structure, Placed, NoOrphans, Counted
<1> QED
  BY <1>8, <1>9 DEF Structure

-----------------------------------------------------------------------------
(* The actions.                                                            *)

(* Facts about the state every request starts from                          *)
LEMMA StructureIs ==
  ASSUME Structure
  PROVE  /\ Sound(ws) /\ Numbered(ws) /\ ws \in Workspaces /\ ws.next \in Nat
         /\ Shown(ws) \in SUBSET DOMAIN surfaces
         /\ nextSurface \in Nat \ {0} /\ nextSurface \notin DOMAIN surfaces
         /\ DOMAIN surfaces \in SUBSET (Nat \ {0})
<1>1. Sound(ws) /\ Shown(ws) \in SUBSET DOMAIN surfaces /\ nextSurface \in Nat \ {0}
      /\ DOMAIN surfaces \in SUBSET (1..nextSurface - 1)
  BY DEF Structure, Placed, NoOrphans
<1>2. Numbered(ws) /\ ws \in Workspaces
  BY <1>1 DEF Sound, Numbered
<1>3. ws.next \in Nat
  BY <1>2, CounterAhead
<1>4. nextSurface \notin DOMAIN surfaces /\ DOMAIN surfaces \in SUBSET (Nat \ {0})
  BY <1>1
<1> QED
  BY <1>1, <1>2, <1>3, <1>4

(* The same Tabs show the same Surfaces                                     *)
LEMMA SameTabsEdited ==
  ASSUME Structure, NEW w, Edited(w), Sound(w), w.next >= ws.next, Tabs(w) = Tabs(ws)
  PROVE  Structure'
<1>1. Shown(w) = Shown(ws)
  BY DEF Shown
<1> QED
  BY <1>1, EditedKeeps, StructureIs

(* Every request keeps the Workspace sound and over the Surfaces there are. *)
LEMMA SessionCreateKeeps == Structure /\ SessionCreate => Structure'
<1> SUFFICES ASSUME Structure, SessionCreate PROVE Structure'
  OBVIOUS
<1>1. Edited(CreateSession(ws))
  BY DEF SessionCreate
<1>2. Sound(ws) /\ ws.next \in Nat
  BY StructureIs
<1>3. Sound(CreateSession(ws)) /\ CreateSession(ws).next = ws.next + 1 /\ Tabs(CreateSession(ws)) = Tabs(ws)
  BY <1>2, CreateSessionSound
<1>4. CreateSession(ws).next >= ws.next
  BY <1>2, <1>3
<1> QED
  BY <1>1, <1>3, <1>4, SameTabsEdited

LEMMA RelabelledKeeps == Structure /\ Relabelled => Structure'
<1> SUFFICES ASSUME Structure, Relabelled PROVE Structure'
  OBVIOUS
<1>1. Edited(ws)
  BY DEF Relabelled
<1>2. Sound(ws) /\ ws.next >= ws.next
  BY StructureIs
<1> QED
  BY <1>1, <1>2, SameTabsEdited

LEMMA SessionSetActiveKeeps == Structure /\ SessionSetActive => Structure'
<1> SUFFICES ASSUME Structure, SessionSetActive PROVE Structure'
  OBVIOUS
<1>1. PICK s \in SessionIds(ws) : Edited([ws EXCEPT !.active = s])
  BY DEF SessionSetActive
<1> DEFINE w == [ws EXCEPT !.active = s]
<1>2. Sound(ws) /\ ws.next \in Nat
  BY StructureIs
<1>3. Sound(w) /\ w.next = ws.next /\ Tabs(w) = Tabs(ws)
  BY <1>2, SetActiveSound
<1> HIDE DEF w
<1>4. w.next >= ws.next
  BY <1>2, <1>3
<1>5. Edited(w)
  BY <1>1 DEF w
<1> QED
  BY <1>3, <1>4, <1>5, SameTabsEdited

LEMMA TabReorderKeeps == Structure /\ TabReorder => Structure'
<1> SUFFICES ASSUME Structure, TabReorder PROVE Structure'
  OBVIOUS
<1>1. PICK t \in TabIds(ws), k \in 1..Cardinality(TabIds(ws)) : Edited(ReorderTab(ws, t, k))
  BY DEF TabReorder
<1> DEFINE w == ReorderTab(ws, t, k)
<1>2. Sound(ws) /\ ws.next \in Nat
  BY StructureIs
<1>3. k \in Nat \ {0}
  OBVIOUS
<1>4. Sound(w) /\ w.next = ws.next /\ Tabs(w) = Tabs(ws)
  BY <1>2, <1>3, ReorderTabSound
<1> HIDE DEF w
<1>5. w.next >= ws.next
  BY <1>2, <1>4
<1>6. Edited(w)
  BY <1>1 DEF w
<1> QED
  BY <1>4, <1>5, <1>6, SameTabsEdited

LEMMA TabMoveKeeps == Structure /\ TabMove => Structure'
<1> SUFFICES ASSUME Structure, TabMove PROVE Structure'
  OBVIOUS
<1>1. PICK t \in TabIds(ws), s \in SessionIds(ws), k \in 1..Cardinality(TabIds(ws)) + 1 :
        Edited(MoveTab(ws, t, s, k))
  BY DEF TabMove
<1> DEFINE w == MoveTab(ws, t, s, k)
<1>2. Sound(ws) /\ ws.next \in Nat
  BY StructureIs
<1>3. k \in Nat \ {0}
  OBVIOUS
<1>4. Sound(w) /\ w.next = ws.next /\ Tabs(w) = Tabs(ws)
  BY <1>2, <1>3, MoveTabSound
<1> HIDE DEF w
<1>5. w.next >= ws.next
  BY <1>2, <1>4
<1>6. Edited(w)
  BY <1>1 DEF w
<1> QED
  BY <1>4, <1>5, <1>6, SameTabsEdited

LEMMA TabSetActiveKeeps == Structure /\ TabSetActive => Structure'
<1> SUFFICES ASSUME Structure, TabSetActive PROVE Structure'
  OBVIOUS
<1>1. PICK t \in TabIds(ws) : Edited(SetActiveTab(ws, t))
  BY DEF TabSetActive
<1> DEFINE w == SetActiveTab(ws, t)
<1>2. Sound(ws) /\ ws.next \in Nat
  BY StructureIs
<1>3. Sound(w) /\ w.next = ws.next /\ Tabs(w) = Tabs(ws)
  BY <1>2, SetActiveTabSound
<1> HIDE DEF w
<1>4. w.next >= ws.next
  BY <1>2, <1>3
<1>5. Edited(w)
  BY <1>1 DEF w
<1> QED
  BY <1>3, <1>4, <1>5, SameTabsEdited

(* A Tab that takes another Layout: its Surfaces make room for the new ones  *)
LEMMA LayoutShown ==
  ASSUME NEW w, Sound(w), NEW t \in Tabs(w), NEW l \in Trees, NEW X, X \cap Shown(w) = {},
         Leaves(l) = Leaves(t.layout) \cup X
  PROVE  LET v == SetLayout(w, t.id, l)
         IN Sound(v) /\ v.next = w.next /\ Shown(v) = Shown(w) \cup X
<1> DEFINE v == SetLayout(w, t.id, l)
           r == [id |-> t.id, layout |-> l]
<1>1. Numbered(w) /\ PanesApart(w) /\ w \in Workspaces
  BY DEF Sound, Numbered
<1>2. t.id \in TabIds(w) /\ Leaves(t.layout) \in SUBSET Shown(w)
  BY DEF TabIds, Shown
<1>3. TabOf(w, t.id) = t
  BY <1>1, <1>2, HomeOfTab
<1>4. \A q \in Tabs(w) : q.id # t.id => Leaves(l) \cap Leaves(q.layout) = {}
  BY <1>1 DEF PanesApart, Shown
<1>5. Sound(v) /\ v.next = w.next /\ Tabs(v) = (Tabs(w) \ {t}) \cup {r}
  BY <1>2, <1>3, <1>4, SetLayoutSound
<1>6. r.layout = l
  OBVIOUS
<1> HIDE DEF v, r
<1>7. Shown(v) = (Shown(w) \ Leaves(t.layout)) \cup ShownBy({r})
  BY <1>5, ShownWithout
<1>8. ShownBy({r}) = Leaves(t.layout) \cup X
  BY <1>6, ShownByOne
<1>9. Shown(v) = Shown(w) \cup X
  BY <1>2, <1>7, <1>8
<1> QED
  BY <1>5, <1>9 DEF v

LEMMA TabSetRatioKeeps == Structure /\ TabSetRatio => Structure'
<1> SUFFICES ASSUME Structure, TabSetRatio PROVE Structure'
  OBVIOUS
<1>1. PICK t \in Tabs(ws) : \E p \in DOMAIN t.layout.ratio, r \in {950} :
        Edited(SetLayout(ws, t.id, SetRatio(t.layout, p, r)))
  BY DEF TabSetRatio
<1>2. PICK p \in DOMAIN t.layout.ratio : Edited(SetLayout(ws, t.id, SetRatio(t.layout, p, 950)))
  BY <1>1
<1> DEFINE l == SetRatio(t.layout, p, 950)
           w == SetLayout(ws, t.id, l)
<1>3. Sound(ws) /\ ws.next \in Nat /\ ws \in Workspaces /\ Shown(ws) \in SUBSET DOMAIN surfaces
  BY StructureIs
<1>4. t.layout \in Trees
  BY <1>3, WorkspaceIs
<1> DEFINE new == {}
<1>5. l \in Trees /\ Leaves(l) = Leaves(t.layout) \cup new /\ new \cap Shown(ws) = {}
  BY <1>4, SetRatioIsTree
<1> HIDE DEF l, new
<1>6. Sound(w) /\ w.next = ws.next /\ Shown(w) = Shown(ws) \cup new
  BY <1>3, <1>5, LayoutShown
<1>7. Edited(w)
  BY <1>2 DEF l
<1> HIDE DEF w
<1>8. w.next >= ws.next /\ Shown(w) = Shown(ws)
  BY <1>3, <1>6 DEF new
<1> QED
  BY <1>3, <1>6, <1>7, <1>8, EditedKeeps

(* A new Tab shows its Surface besides what was shown                       *)
LEMMA TabShown ==
  ASSUME NEW w, Sound(w), NEW s \in SessionIds(w), NEW k \in Nat \ {0}, NEW u \in Nat \ Shown(w)
  PROVE  LET v == InsertTab(w, s, k, u)
         IN Sound(v) /\ v.next >= w.next /\ Shown(v) = Shown(w) \cup {u}
<1> DEFINE v == InsertTab(w, s, k, u)
           r == [id |-> w.next, layout |-> Leaf(u)]
<1>1. Sound(v) /\ v.next = w.next + 1 /\ Tabs(v) = Tabs(w) \cup {r}
  BY InsertTabSound
<1>2. r.layout = Leaf(u) /\ Leaves(Leaf(u)) = {u}
  BY LeafIsTree
<1>3. w.next \in Nat
  BY CounterAhead DEF Sound
<1> HIDE DEF v, r
<1>4. Shown(v) = Shown(w) \cup {u}
  BY <1>1, <1>2 DEF Shown
<1>5. v.next >= w.next
  BY <1>1, <1>3
<1> QED
  BY <1>1, <1>4, <1>5 DEF v

(* A Tab with a new Surface,                                                *)
LEMMA TabCreateSpawnKeeps == Structure /\ TabCreateSpawn => Structure'
<1> SUFFICES ASSUME Structure, TabCreateSpawn PROVE Structure'
  OBVIOUS
<1>1. PICK s \in SessionIds(ws), k \in 1..Cardinality(TabIds(ws)) + 1 :
        /\ Spawned(nextSurface, FALSE) /\ ws' = InsertTab(ws, s, k, nextSurface)
        /\ Bumped /\ loose' = loose /\ Quiet
  BY DEF TabCreateSpawn
<1> DEFINE w == InsertTab(ws, s, k, nextSurface)
<1>2. Sound(ws) /\ nextSurface \in Nat \ Shown(ws)
  BY StructureIs
<1>3. k \in Nat \ {0}
  OBVIOUS
<1>4. Sound(w) /\ w.next >= ws.next /\ Shown(w) = Shown(ws) \cup {nextSurface}
  BY <1>2, <1>3, TabShown
<1>5. ws' = w
  BY <1>1
<1> HIDE DEF w
<1> QED
  BY <1>1, <1>4, <1>5, SpawnedKeeps

(* and one with a Surface that was shown nowhere.                           *)
LEMMA TabCreateSurfaceKeeps == Structure /\ TabCreateSurface => Structure'
<1> SUFFICES ASSUME Structure, TabCreateSurface PROVE Structure'
  OBVIOUS
<1>1. PICK s \in SessionIds(ws), k \in 1..Cardinality(TabIds(ws)) + 1 :
        \E u \in DOMAIN surfaces \ Shown(ws) : Edited(InsertTab(ws, s, k, u))
  BY DEF TabCreateSurface
<1>2. PICK u \in DOMAIN surfaces \ Shown(ws) : Edited(InsertTab(ws, s, k, u))
  BY <1>1
<1> DEFINE w == InsertTab(ws, s, k, u)
<1>3. Sound(ws) /\ Shown(ws) \in SUBSET DOMAIN surfaces /\ u \in Nat \ Shown(ws)
  BY StructureIs
<1>4. k \in Nat \ {0}
  OBVIOUS
<1>5. Sound(w) /\ w.next >= ws.next /\ Shown(w) = Shown(ws) \cup {u}
  BY <1>3, <1>4, TabShown
<1>6. Edited(w)
  BY <1>2
<1> HIDE DEF w
<1> QED
  BY <1>3, <1>5, <1>6, EditedKeeps

(* A Split shows a new Surface besides those of its Tab.                    *)
LEMMA TabSplitKeeps == Structure /\ TabSplit => Structure'
<1> SUFFICES ASSUME Structure, TabSplit PROVE Structure'
  OBVIOUS
<1>1. PICK t \in Tabs(ws) : \E u \in Leaves(t.layout) :
        /\ Spawned(nextSurface, FALSE)
        /\ ws' = SetLayout(ws, t.id, SplitLeaf(t.layout, u, nextSurface))
        /\ Bumped /\ loose' = loose /\ Quiet
  BY DEF TabSplit
<1>2. PICK u \in Leaves(t.layout) :
        /\ Spawned(nextSurface, FALSE)
        /\ ws' = SetLayout(ws, t.id, SplitLeaf(t.layout, u, nextSurface))
        /\ Bumped /\ loose' = loose /\ Quiet
  BY <1>1
<1> DEFINE l == SplitLeaf(t.layout, u, nextSurface)
           w == SetLayout(ws, t.id, l)
<1>3. Sound(ws) /\ ws.next \in Nat /\ ws \in Workspaces /\ nextSurface \in Nat \ Shown(ws)
  BY StructureIs
<1>4. t.layout \in Trees /\ Leaves(t.layout) \in SUBSET Shown(ws)
  BY <1>3, WorkspaceIs DEF Shown
<1>5. /\ l \in Trees /\ Leaves(l) = Leaves(t.layout) \cup {nextSurface}
      /\ {nextSurface} \cap Shown(ws) = {}
  BY <1>3, <1>4, SplitIsTree
<1>6. ws' = w
  BY <1>2
<1> HIDE DEF l
<1>7. Sound(w) /\ w.next = ws.next /\ Shown(w) = Shown(ws) \cup {nextSurface}
  <2> HIDE DEF w
  <2>1. t \in Tabs(ws) /\ l \in Trees /\ Sound(ws)
    BY <1>3, <1>5
  <2>2. Leaves(l) = Leaves(t.layout) \cup {nextSurface} /\ {nextSurface} \cap Shown(ws) = {}
    BY <1>5
  <2>3. LET v == SetLayout(ws, t.id, l)
        IN Sound(v) /\ v.next = ws.next /\ Shown(v) = Shown(ws) \cup {nextSurface}
    BY <2>1, <2>2, LayoutShown, ZenonT(30)
  <2> QED
    BY <2>3 DEF w
<1> HIDE DEF w
<1>8. w.next >= ws.next
  BY <1>3, <1>7
<1> QED
  BY <1>2, <1>6, <1>7, <1>8, SpawnedKeeps

LEMMA SurfaceCreateKeeps == Structure /\ SurfaceCreate => Structure'
<1> SUFFICES ASSUME Structure, SurfaceCreate PROVE Structure'
  OBVIOUS
<1>1. /\ Spawned(nextSurface, FALSE) /\ loose' = loose \cup {nextSurface} /\ ws' = ws
      /\ Bumped /\ Quiet
  BY DEF SurfaceCreate
<1>2. Sound(ws) /\ ws.next >= ws.next
  BY StructureIs
<1> QED
  BY <1>1, <1>2, SpawnedKeeps

(* The Tabs of a Session take their Surfaces with them, and no others.      *)
LEMMA SessionDeleteKeeps == Structure /\ SessionDelete => Structure'
<1> SUFFICES ASSUME Structure, SessionDelete PROVE Structure'
  OBVIOUS
<1>1. PICK i \in DOMAIN ws.sessions :
        Closed(DeleteSession(ws, ws.sessions[i].id),
               UNION {Leaves(t.layout) : t \in ToSet(ws.sessions[i].tabs)})
  BY DEF SessionDelete
<1> DEFINE x == ws.sessions[i].id
           T == ToSet(ws.sessions[i].tabs)
           gone == UNION {Leaves(t.layout) : t \in T}
           w == DeleteSession(ws, x)
<1>2. Sound(ws) /\ Numbered(ws) /\ PanesApart(ws)
  BY StructureIs DEF Sound
<1>3. x \in SessionIds(ws)
  BY DEF SessionIds
<1>4. IndexOf(ws, x) = i
  BY <1>2, <1>3, IndexOfSession DEF Numbered
<1>5. T \in SUBSET Tabs(ws)
  BY DEF Tabs
<1>6. Closed(w, gone)
  BY <1>1
<1>7. Sound(w) /\ w.next = ws.next /\ Tabs(w) = Tabs(ws) \ T
  BY <1>2, <1>3, <1>4, DeleteSessionSound
<1> HIDE DEF w, x, T
<1>8. \A s \in Tabs(ws) \ T : Leaves(s.layout) \cap gone = {}
  <2> SUFFICES ASSUME NEW s \in Tabs(ws) \ T, NEW t \in T PROVE Leaves(s.layout) \cap Leaves(t.layout) = {}
    OBVIOUS
  <2>1. s.id # t.id
    BY <1>2, <1>5, OneTabPerId
  <2> QED
    BY <1>2, <1>5, <2>1 DEF PanesApart
<1>9. Shown(w) = Shown(ws) \ gone
  <2>1. \A y : y \in Shown(w) => y \in Shown(ws) \ gone
    BY <1>7, <1>8 DEF Shown
  <2>2. \A y : y \in Shown(ws) \ gone => y \in Shown(w)
    BY <1>7 DEF Shown
  <2> HIDE DEF gone
  <2> QED
    BY <2>1, <2>2
<1> HIDE DEF gone
<1> QED
  BY <1>6, <1>7, <1>9, ClosedKeeps

LEMMA TabCloseKeeps == Structure /\ TabClose => Structure'
<1> SUFFICES ASSUME Structure, TabClose PROVE Structure'
  OBVIOUS
<1>1. PICK t \in Tabs(ws) : Closed(CloseTab(ws, t.id), Leaves(t.layout))
  BY DEF TabClose
<1> DEFINE w == CloseTab(ws, t.id)
<1>2. Sound(ws) /\ Numbered(ws) /\ t.id \in TabIds(ws)
  BY StructureIs DEF TabIds
<1>3. TabOf(ws, t.id) = t
  BY <1>2, HomeOfTab
<1>4. Sound(w) /\ w.next = ws.next /\ Tabs(w) = (Tabs(ws) \ {t}) \cup {}
  BY <1>2, <1>3, CloseTabSound
<1>5. Closed(w, Leaves(t.layout))
  BY <1>1
<1> HIDE DEF w
<1>6. Shown(w) = (Shown(ws) \ Leaves(t.layout)) \cup ShownBy({})
  BY <1>2, <1>4, ShownWithout
<1>7. Shown(w) = Shown(ws) \ Leaves(t.layout)
  BY <1>6, ShownByOne
<1> QED
  BY <1>4, <1>5, <1>7, ClosedKeeps

LEMMA PaneCloseKeeps == Structure /\ PaneClose => Structure'
<1> SUFFICES ASSUME Structure, PaneClose PROVE Structure'
  OBVIOUS
<1>1. PICK t \in Tabs(ws) : \E u \in Leaves(t.layout) : Closed(ClosePane(ws, t.id, u), {u})
  BY DEF PaneClose
<1>2. PICK u \in Leaves(t.layout) : Closed(ClosePane(ws, t.id, u), {u})
  BY <1>1
<1> DEFINE w == ClosePane(ws, t.id, u)
<1>3. Sound(ws)
  BY StructureIs
<1>4. Sound(w) /\ w.next = ws.next /\ Shown(w) = Shown(ws) \ {u}
  BY <1>3, ClosePaneSound
<1>5. Closed(w, {u})
  BY <1>2
<1> HIDE DEF w
<1> QED
  BY <1>4, <1>5, ClosedKeeps

(* Reports of the Surfaces.                                                 *)
LEMMA SurfaceReportKeeps == Structure /\ (SurfaceExited \/ ForegroundChild \/ SurfaceInput) => Structure'
<1> SUFFICES ASSUME Structure, SurfaceExited \/ ForegroundChild \/ SurfaceInput PROVE Structure'
  OBVIOUS
<1>1. CASE SurfaceExited
  <2>1. PICK u \in DOMAIN surfaces :
          Reported(u, [running |-> FALSE, pristine |-> FALSE, child |-> FALSE]) /\ Bumped
    BY <1>1 DEF SurfaceExited
  <2> QED
    BY <2>1, ReportedKeeps
<1>2. CASE ForegroundChild
  <2>1. PICK u \in DOMAIN surfaces, present \in BOOLEAN :
          /\ Reported(u, [surfaces[u] EXCEPT !.child = present, !.pristine = @ /\ ~present])
          /\ Bumped
    BY <1>2 DEF ForegroundChild
  <2> QED
    BY <2>1, ReportedKeeps
<1>3. CASE SurfaceInput
  <2>1. PICK u \in DOMAIN surfaces : /\ Reported(u, [surfaces[u] EXCEPT !.pristine = FALSE])
                                     /\ UNCHANGED <<given, unsaved>>
    BY <1>3 DEF SurfaceInput
  <2> QED
    BY <2>1, ReportedKeeps
<1> QED
  BY <1>1, <1>2, <1>3

(* What is written is the document, published or not.                       *)
LEMMA StorageKeeps == Structure /\ (PersistWrite \/ Flush) => Structure'
<1> SUFFICES ASSUME Structure, PersistWrite \/ Flush PROVE Structure'
  OBVIOUS
<1>1. FileOk(given.ws) /\ given.ws.next = ws.next /\ FileOk(ws)
  BY DEF Structure, Stored, Placed, Sound, FileOk
<1>2. CASE PersistWrite
  BY <1>1, <1>2, WrittenKeeps DEF PersistWrite
<1>3. CASE Flush
  BY <1>1, <1>3, WrittenKeeps DEF Flush
<1> QED
  BY <1>2, <1>3

(* What load_or_seed makes of a sound file                                  *)
LEMMA BootedIs ==
  ASSUME NEW file, FileOk(file), NEW failed, NEW shell \in BOOLEAN,
         NEW b, b = Booted(file, failed, shell)
  PROVE  /\ Sound(b.ws) /\ FileOk(b.ws) /\ Shown(b.ws) = b.surfaces
         /\ b.ws.next \in Nat /\ file.next \in Nat /\ b.ws.next >= file.next
         /\ b.next \in Nat \ {0} /\ b.surfaces \in SUBSET (1..b.next - 1)
         /\ Started(b).ws = b.ws
<1>1. /\ Sound(b.ws) /\ b.ws.next >= file.next /\ Shown(b.ws) = b.surfaces
      /\ b.next \in Nat \ {0} /\ b.surfaces \in SUBSET (1..b.next - 1)
  BY BootedSound DEF FileOk
<1>2. FileOk(b.ws)
  BY <1>1 DEF Sound, FileOk
<1>3. b.ws.next \in Nat /\ file.next \in Nat
  BY <1>2, CounterAhead DEF FileOk
<1>4. Started(b).ws = b.ws
  BY DEF Started
<1> QED
  BY <1>1, <1>2, <1>3, <1>4

(* Another daemon starts from the file.                                     *)
LEMMA RestartKeeps == Structure /\ Restart => Structure'
<1> SUFFICES ASSUME Structure, Restart PROVE Structure'
  OBVIOUS
<1> DEFINE Failures == IF "load" \in Failing THEN SUBSET ToSet(Panes(disk)) ELSE {{}}
           Shells(f) == IF "load" \in Failing /\ f = ToSet(Panes(disk)) THEN BOOLEAN ELSE {TRUE}
           From(d) == /\ ws' = d.ws /\ surfaces' = [u \in d.surfaces |-> Fresh(TRUE)]
                      /\ nextSurface' = d.next /\ given' = Started(d)
<1>1. PICK failed \in Failures : \E shell \in Shells(failed) : From(Booted(disk, failed, shell))
  BY Zenon DEF Restart
<1>2. PICK shell \in Shells(failed) : From(Booted(disk, failed, shell))
  BY <1>1
<1> DEFINE b == Booted(disk, failed, shell)
<1>3. /\ ws' = b.ws /\ surfaces' = [u \in b.surfaces |-> Fresh(TRUE)]
      /\ nextSurface' = b.next /\ given' = Started(b)
  BY <1>2
<1>4. shell \in BOOLEAN
  BY <1>2
<1> HIDE DEF Failures, Shells, From
<1>5. /\ lives < MaxLives /\ lives' = lives + 1 /\ unsaved' = FALSE
      /\ disk' = disk /\ onDisk' = onDisk
  BY DEF Restart
<1>6. /\ FileOk(disk) /\ onDisk \in Nat /\ onDisk < disk.next /\ lives \in 1..MaxLives
  BY DEF Structure, Stored, Counted
<1>7. /\ Sound(b.ws) /\ FileOk(b.ws) /\ Shown(b.ws) = b.surfaces
      /\ b.ws.next \in Nat /\ disk.next \in Nat /\ b.ws.next >= disk.next
      /\ b.next \in Nat \ {0} /\ b.surfaces \in SUBSET (1..b.next - 1)
      /\ Started(b).ws = b.ws
  BY <1>6, <1>4, BootedIs
<1> HIDE DEF b
<1>8. DOMAIN surfaces' = b.surfaces
  BY <1>3
<1>9. Placed'
  BY <1>3, <1>7, <1>8 DEF Placed, NoOrphans
<1>10. onDisk < b.ws.next
  BY <1>6, <1>7
<1>11. Stored'
  BY <1>3, <1>5, <1>6, <1>7, <1>10 DEF Stored
<1>12. Counted'
  <2>1. lives' \in 1..MaxLives
    BY <1>5, <1>6, BoundsAssumption
  <2>2. unsaved' \in BOOLEAN
    BY <1>5
  <2> QED
    BY <2>1, <2>2 DEF Counted
<1> QED
  BY <1>9, <1>11, <1>12 DEF Structure

(* A missing file is as good as an empty Workspace.                         *)
LEMMA NoFileOk == FileOk(NoFile) /\ NoFile.next = 1
<1>1. /\ NoFile.next = 1 /\ NoFile.active = 0 /\ NoFile.sessions = <<>>
      /\ NoFile = [next |-> 1, active |-> 0, sessions |-> <<>>]
  BY DEF NoFile, None
<1>2. <<>> \in Seq(SessionRecord) /\ DOMAIN <<>> = {}
  BY EmptySeq
<1>3. NoFile \in Workspaces
  BY <1>1, <1>2 DEF Workspaces
<1>4. DOMAIN NoFile.sessions = {}
  BY <1>1, <1>2
<1>5. Tabs(NoFile) = {} /\ SessionIds(NoFile) = {}
  BY <1>4 DEF Tabs, SessionIds
<1>6. TabIds(NoFile) = {}
  BY <1>5 DEF TabIds
<1> QED
  BY <1>1, <1>3, <1>4, <1>5, <1>6 DEF FileOk, Numbered, PanesApart

(* The first daemon starts from none.                                       *)
LEMMA StructureInit == Init => Structure
<1> SUFFICES ASSUME Init PROVE Structure
  OBVIOUS
<1> DEFINE b == Booted(NoFile, {}, TRUE)
<1>1. /\ ws = b.ws /\ surfaces = [u \in b.surfaces |-> Fresh(TRUE)]
      /\ nextSurface = b.next /\ given = Started(b)
      /\ unsaved = FALSE /\ disk = NoFile /\ lives = 1 /\ onDisk = 0
  BY DEF Init
<1>2. FileOk(NoFile) /\ NoFile.next = 1
  BY NoFileOk
<1>3. /\ Sound(b.ws) /\ FileOk(b.ws) /\ Shown(b.ws) = b.surfaces
      /\ b.ws.next \in Nat /\ NoFile.next \in Nat /\ b.ws.next >= NoFile.next
      /\ b.next \in Nat \ {0} /\ b.surfaces \in SUBSET (1..b.next - 1)
      /\ Started(b).ws = b.ws
  BY <1>2, BootedIs
<1> HIDE DEF b
<1>4. DOMAIN surfaces = b.surfaces
  BY <1>1
<1>5. Placed
  BY <1>1, <1>3, <1>4 DEF Placed, NoOrphans
<1>6. Stored
  BY <1>1, <1>2, <1>3 DEF Stored
<1>7. Counted
  <2>1. lives \in 1..MaxLives
    BY <1>1, BoundsAssumption
  <2>2. unsaved \in BOOLEAN
    BY <1>1
  <2> QED
    BY <2>1, <2>2 DEF Counted
<1> QED
  BY <1>5, <1>6, <1>7 DEF Structure

(* No step breaks the structure.                                            *)
LEMMA StructureStep == Structure /\ [Next]_vars => Structure'
<1> SUFFICES ASSUME Structure, [Next]_vars PROVE Structure'
  OBVIOUS
<1>1. CASE SessionCreate
  BY <1>1, SessionCreateKeeps
<1>2. CASE SessionDelete
  BY <1>2, SessionDeleteKeeps
<1>3. CASE SessionSetActive
  BY <1>3, SessionSetActiveKeeps
<1>4. CASE Relabelled
  BY <1>4, RelabelledKeeps
<1>5. CASE TabCreateSpawn
  BY <1>5, TabCreateSpawnKeeps
<1>6. CASE TabCreateSurface
  BY <1>6, TabCreateSurfaceKeeps
<1>7. CASE TabClose
  BY <1>7, TabCloseKeeps
<1>8. CASE TabSplit
  BY <1>8, TabSplitKeeps
<1>9. CASE PaneClose
  BY <1>9, PaneCloseKeeps
<1>10. CASE TabReorder
  BY <1>10, TabReorderKeeps
<1>11. CASE TabMove
  BY <1>11, TabMoveKeeps
<1>12. CASE TabSetActive
  BY <1>12, TabSetActiveKeeps
<1>13. CASE TabSetRatio
  BY <1>13, TabSetRatioKeeps
<1>14. CASE SurfaceCreate
  BY <1>14, SurfaceCreateKeeps
<1>15. CASE SurfaceExited \/ ForegroundChild \/ SurfaceInput
  BY <1>15, SurfaceReportKeeps
<1>16. CASE PersistWrite \/ Flush
  BY <1>16, StorageKeeps
<1>17. CASE Restart
  BY <1>17, RestartKeeps
<1>18. CASE UNCHANGED vars
  BY <1>18 DEF vars, Structure, Placed, NoOrphans, Stored, Counted
<1> QED
  BY <1>1, <1>2, <1>3, <1>4, <1>5, <1>6, <1>7, <1>8, <1>9, <1>10, <1>11, <1>12, <1>13, <1>14,
     <1>15, <1>16, <1>17, <1>18 DEF Next, Requests, Storage

-----------------------------------------------------------------------------
(* No id that workspace.json ever held is given again, by any number of      *)
(* daemons, wherever the write is missed or a shell fails to start: the     *)
(* counter of the file is ahead of every id ever written, and reseed never  *)
(* goes below it (next_id, set_next_id).                                    *)
THEOREM IdsStayFresh == Spec => []IdsFresh
<1>1. Structure => IdsFresh
  BY DEF Structure, Stored, IdsFresh
<1> QED
  BY <1>1, StructureInit, StructureStep, PTL DEF Spec

(* Every Pane shows a Surface of the document, and every Surface but those   *)
(* of surface.create is in a Pane, after any requests, failures and         *)
(* restarts (tab.create, tab.split, close_pane, load_or_seed).              *)
THEOREM NothingOrphaned == Spec => []NoOrphans
<1>1. Structure => NoOrphans
  BY DEF Structure, Placed
<1> QED
  BY <1>1, StructureInit, StructureStep, PTL DEF Spec

(* What a sound Workspace is made of, as WellFormed puts it                 *)
LEMMA SoundIsWellFormed ==
  ASSUME Structure, SurfacesTyped, ProcessesMatch
  PROVE  WellFormed
<1>1. Sound(ws) /\ Numbered(ws) /\ PanesApart(ws) /\ ActiveSession(ws) /\ ActiveTabs(ws) /\ ws \in Workspaces
  BY StructureIs DEF Sound
<1>2. {ws.next, ws.active} \subseteq Nat
  BY <1>1, WorkspaceIs
<1>3. lives \in 1..MaxLives /\ unsaved \in BOOLEAN
  BY DEF Structure, Counted
<1>4. hosted \cup DOMAIN surfaces \subseteq 1..nextSurface - 1
  BY DEF Structure, Placed, ProcessesMatch
<1>5. \A u \in DOMAIN surfaces : surfaces[u] \in [running : BOOLEAN, pristine : BOOLEAN, child : BOOLEAN]
  BY DEF SurfacesTyped, SurfaceRecord
<1>6. /\ SessionIds(ws) \cap TabIds(ws) = {}
      /\ \A i \in SessionIds(ws) \cup TabIds(ws) : i < ws.next
  BY <1>1 DEF Numbered
<1>7. \A s, t \in Tabs(ws) : s # t => s.id # t.id /\ Leaves(s.layout) \cap Leaves(t.layout) = {}
  BY <1>1, OneTabPerId DEF PanesApart
<1>8. \A t \in Tabs(ws) : \A p, q \in DOMAIN t.layout.pane : p # q => t.layout.pane[p] # t.layout.pane[q]
  <2> SUFFICES ASSUME NEW t \in Tabs(ws)
               PROVE  \A p, q \in DOMAIN t.layout.pane : p # q => t.layout.pane[p] # t.layout.pane[q]
    OBVIOUS
  <2>1. t.layout \in Trees
    BY <1>1, WorkspaceIs
  <2> QED
    BY <2>1, TreeIs
<1>9. IF ws.sessions = <<>> THEN ws.active = None ELSE ws.active \in SessionIds(ws)
  BY <1>1 DEF ActiveSession
<1>10. \A i, k \in DOMAIN ws.sessions : i # k =>
         /\ ws.sessions[i].id # ws.sessions[k].id
         /\ ToSet(ws.sessions[i].tabs) \cap ToSet(ws.sessions[k].tabs) = {}
  BY <1>1, OneTabPerId DEF Numbered
<1>11. \A i \in DOMAIN ws.sessions :
         LET s == ws.sessions[i] IN
         /\ \A j, k \in DOMAIN s.tabs : j # k => s.tabs[j] # s.tabs[k]
         /\ IF s.tabs = <<>> THEN s.tab = None ELSE s.tab \in {t.id : t \in ToSet(s.tabs)}
  BY <1>1 DEF Numbered, Listed, ActiveTabs, ActiveTab, IdsOf
<1> QED
  BY <1>2, <1>3, <1>4, <1>5, <1>6, <1>7, <1>8, <1>9, <1>10, <1>11 DEF WellFormed

(* The Workspace stays well formed through every request, however it ends,   *)
(* every write and every restart: ids are unique and below the counter,     *)
(* no Surface is in two Panes, and the active Session and Tabs exist        *)
(* (model.rs, repair_active_session, close_tab, move_tab, reseed).          *)
THEOREM StaysWellFormed == Spec => []WellFormed
<1> DEFINE All == Structure /\ TypedAnnounced /\ ProcessesMatch
<1>1. Init => All
  BY StructureInit, AnnouncedInit, ProcessesMatchInit
<1>2. All /\ [Next]_vars => All'
  BY StructureStep, AnnouncedStep, ProcessesMatchStep
<1>3. All => WellFormed
  BY SoundIsWellFormed DEF TypedAnnounced
<1> HIDE DEF All
<1> QED
  BY <1>1, <1>2, <1>3, PTL DEF Spec
-----------------------------------------------------------------------------
(* What a daemon makes of a file that is up to date                        *)

(* Picking every member of a list changes nothing                          *)
LEMMA AllPicked ==
  ASSUME NEW S, NEW s \in Seq(S)
  PROVE  Picked(s, DOMAIN s) = s
<1>1. Len(s) \in Nat /\ DOMAIN s = 1..Len(s)
  BY LenProperties
<1>2. s = [k \in 1..Len(s) |-> s[k]]
  BY <1>1
<1> QED
  BY <1>1, <1>2, PickedWhole

(* The file of a Workspace over Surfaces that are all known is the          *)
(* Workspace itself (snapshot_file).                                        *)
LEMMA FileWhole ==
  ASSUME NEW w, Numbered(w), NEW known, Shown(w) \in SUBSET known
  PROVE  File(w, known) = w
<1> DEFINE Kept(t) == [t EXCEPT !.layout = Collapsed(@, known)]
           Saved(s) == [s EXCEPT !.tabs = WithPanes([k \in DOMAIN @ |-> Kept(@[k])])]
           ss == [i \in DOMAIN w.sessions |-> Saved(w.sessions[i])]
<1>1. w \in Workspaces
  BY DEF Numbered
<1>2. File(w, known) = [w EXCEPT !.sessions = ss]
  <2>1. File(w, known) = [w EXCEPT !.sessions = [i \in DOMAIN @ |-> Saved(@[i])]]
    BY Zenon DEF File
  <2> HIDE DEF Saved
  <2> QED
    BY <2>1
<1>3. ASSUME NEW t \in Tabs(w)
      PROVE  Kept(t) = t /\ t.layout # NoLayout
  <2>1. t \in TabRecord /\ t.layout \in Trees
    BY <1>1, WorkspaceIs
  <2>2. t = [id |-> t.id, layout |-> t.layout]
    BY <2>1 DEF TabRecord
  <2>3. Leaves(t.layout) \subseteq known
    BY DEF Shown
  <2>4. Collapsed(t.layout, known) = t.layout
    BY <2>1, <2>3, CollapsedWhole
  <2>5. Kept(t) = [id |-> t.id, layout |-> Collapsed(t.layout, known)]
    BY <2>2
  <2>6. NoLayout \notin Trees
    BY TreeIs DEF NoLayout
  <2> HIDE DEF Kept
  <2> QED
    BY <2>1, <2>2, <2>4, <2>5, <2>6
<1> HIDE DEF Kept
<1>4. ASSUME NEW i \in DOMAIN w.sessions
      PROVE  Saved(w.sessions[i]) = w.sessions[i]
  <2> DEFINE s == w.sessions[i]
             tabs == s.tabs
             all == [k \in DOMAIN tabs |-> Kept(tabs[k])]
  <2>1. /\ s = [id |-> s.id, tab |-> s.tab, tabs |-> tabs] /\ tabs \in Seq(TabRecord)
        /\ ToSet(tabs) \in SUBSET Tabs(w)
    BY <1>1, WorkspaceIs
  <2>2. Saved(s) = [s EXCEPT !.tabs = WithPanes(all)]
    BY Zenon
  <2> HIDE DEF tabs
  <2>3. \A k \in DOMAIN tabs : Kept(tabs[k]) = tabs[k] /\ tabs[k].layout # NoLayout
    BY <1>3, <2>1, ListIs
  <2>4. tabs = [k \in DOMAIN tabs |-> tabs[k]]
    BY <2>1
  <2>5. all = tabs
    BY <2>3, <2>4
  <2> HIDE DEF all, s
  <2>6. WithPanes(tabs) = tabs
    <3>1. {k \in DOMAIN tabs : tabs[k].layout # NoLayout} = DOMAIN tabs
      BY <2>3
    <3>2. WithPanes(tabs) = Picked(tabs, DOMAIN tabs)
      BY <3>1 DEF WithPanes
    <3> QED
      BY <2>1, <3>2, AllPicked
  <2> HIDE DEF Saved
  <2>7. [s EXCEPT !.tabs = tabs] = s
    BY <2>1
  <2> QED
    BY <2>2, <2>5, <2>6, <2>7 DEF s
<1> HIDE DEF Saved
<1>5. w = [next |-> w.next, active |-> w.active, sessions |-> w.sessions] /\ w.sessions \in Seq(SessionRecord)
  BY <1>1, WorkspaceIs
<1>6. ss = w.sessions
  <2>1. w.sessions = [i \in DOMAIN w.sessions |-> w.sessions[i]]
    BY <1>5
  <2> QED
    BY <1>4, <2>1
<1> HIDE DEF ss
<1> QED
  BY <1>2, <1>5, <1>6

(* Session s has the ids, the active Tab, the Tabs and the Splits of r      *)
Alike(s, r) ==
  /\ s.id = r.id /\ s.tab = r.tab /\ DOMAIN s.tabs = DOMAIN r.tabs
  /\ \A k \in DOMAIN r.tabs :
       /\ s.tabs[k].id = r.tabs[k].id
       /\ DOMAIN s.tabs[k].layout.pane = DOMAIN r.tabs[k].layout.pane
       /\ s.tabs[k].layout.ratio = r.tabs[k].layout.ratio

(* A Tab all of whose shells start comes back with its id and its Splits   *)
LEMMA TabWhole ==
  ASSUME NEW file, Numbered(file), PanesApart(file), NEW t \in Tabs(file)
  PROVE  LET v == TabAgain(t, {}, Instead(file))
         IN /\ v \in TabRecord /\ v.id = t.id /\ v.layout # NoLayout
            /\ DOMAIN v.layout.pane = DOMAIN t.layout.pane /\ v.layout.ratio = t.layout.ratio
<1> DEFINE ids == Instead(file)
           l == t.layout
           v == TabAgain(t, {}, ids)
<1>1. t \in TabRecord /\ l \in Trees
  BY WorkspaceIs DEF Numbered
<1>2. t = [id |-> t.id, layout |-> l]
  BY <1>1 DEF TabRecord
<1>3. v = [id |-> t.id, layout |-> Respawned(Collapsed(l, Leaves(l) \ {}), ids)]
  BY <1>2 DEF TabAgain
<1>4. Collapsed(l, Leaves(l) \ {}) = l
  BY <1>1, CollapsedWhole
<1>5. Leaves(l) \ {} # {}
  BY <1>1, TreeIs
<1>6. v \in MaybeTab /\ v.layout # NoLayout
  BY <1>5, AgainIs
<1>7. v.layout = Respawned(l, ids)
  BY <1>3, <1>4
<1>8. l = [pane |-> l.pane, ratio |-> l.ratio]
  BY <1>1, TreeIs
<1> HIDE DEF l, ids
<1>9. Respawned(l, ids) = [pane |-> [p \in DOMAIN l.pane |-> ids[l.pane[p]]], ratio |-> l.ratio]
  BY <1>8 DEF Respawned
<1>10. DOMAIN v.layout.pane = DOMAIN l.pane /\ v.layout.ratio = l.ratio
  BY <1>7, <1>9
<1>11. v.id = t.id
  BY <1>3
<1>12. v \in TabRecord
  BY <1>6 DEF MaybeTab, TabRecord
<1> QED
  BY <1>6, <1>10, <1>11, <1>12 DEF l, ids

(* and so does a Session                                                   *)
LEMMA SessionWhole ==
  ASSUME NEW file, Numbered(file), PanesApart(file), NEW i \in DOMAIN file.sessions,
         ActiveTab(file.sessions[i])
  PROVE  Alike(SessionAgain(file.sessions[i], {}, Instead(file)), file.sessions[i])
<1> DEFINE s == file.sessions[i]
           ids == Instead(file)
           f == [k \in DOMAIN s.tabs |-> TabAgain(s.tabs[k], {}, ids)]
           v == SessionAgain(s, {}, ids)
<1>1. /\ s = [id |-> s.id, tab |-> s.tab, tabs |-> s.tabs]
      /\ s.tab \in Nat /\ s.tabs \in Seq(TabRecord) /\ ToSet(s.tabs) \in SUBSET Tabs(file)
  BY WorkspaceIs DEF Numbered
<1>2. ActiveTab(s)
  OBVIOUS
<1> HIDE DEF s
<1>3. /\ Len(s.tabs) \in Nat /\ DOMAIN s.tabs = 1..Len(s.tabs)
      /\ \A k \in DOMAIN s.tabs : s.tabs[k] \in Tabs(file)
      /\ s.tabs = <<>> <=> DOMAIN s.tabs = {}
      /\ \A t \in ToSet(s.tabs) : \E k \in DOMAIN s.tabs : s.tabs[k] = t
  BY <1>1, ListIs
<1>4. \A k \in DOMAIN s.tabs :
        /\ f[k] \in TabRecord /\ f[k].id = s.tabs[k].id /\ f[k].layout # NoLayout
        /\ DOMAIN f[k].layout.pane = DOMAIN s.tabs[k].layout.pane
        /\ f[k].layout.ratio = s.tabs[k].layout.ratio
  BY <1>3, TabWhole
<1>5. DOMAIN f = DOMAIN s.tabs
  OBVIOUS
<1>6. TabsAgain(s.tabs, {}, ids) = WithPanes(f)
  BY DEF TabsAgain
<1>7. f = [k \in DOMAIN s.tabs |-> f[k]]
  OBVIOUS
<1> HIDE DEF f
<1>8. f \in Seq(TabRecord)
  <2>1. f \in [1..Len(s.tabs) -> TabRecord]
    BY <1>3, <1>4, <1>7
  <2> QED
    BY <1>3, <2>1, IsASeq
<1>9. WithPanes(f) = f
  <2>1. {k \in DOMAIN f : f[k].layout # NoLayout} = DOMAIN f
    BY <1>4, <1>5
  <2>2. WithPanes(f) = Picked(f, DOMAIN f)
    BY <2>1 DEF WithPanes
  <2> QED
    BY <1>8, <2>2, AllPicked
<1>10. ActiveOf(s.tab, f) = s.tab
  <2>1. CASE s.tabs = <<>>
    <3>1. s.tab = None
      BY <1>2, <2>1 DEF ActiveTab
    <3>2. f = <<>>
      BY <1>3, <1>5, <1>8, <2>1, ListIs
    <3> QED
      BY <3>1, <3>2 DEF ActiveOf, None
  <2>2. CASE s.tabs # <<>>
    <3>1. s.tab \in IdsOf(s.tabs)
      BY <1>2, <2>2 DEF ActiveTab
    <3>2. PICK t \in ToSet(s.tabs) : s.tab = t.id
      BY <3>1 DEF IdsOf
    <3>3. PICK k \in DOMAIN s.tabs : s.tabs[k] = t
      BY <1>3
    <3>4. k \in DOMAIN f /\ f[k].id = s.tab
      BY <1>4, <1>5, <3>2, <3>3
    <3> QED
      BY <3>4 DEF ActiveOf
  <2> QED
    BY <2>1, <2>2
<1>11. v.id = s.id /\ v.tab = s.tab /\ v.tabs = f
  <2>1. v = [s EXCEPT !.tabs = TabsAgain(s.tabs, {}, ids), !.tab = ActiveOf(s.tab, TabsAgain(s.tabs, {}, ids))]
    BY DEF SessionAgain
  <2>2. TabsAgain(s.tabs, {}, ids) = f
    BY <1>6, <1>9
  <2>3. v = [s EXCEPT !.tabs = f, !.tab = s.tab]
    BY <1>10, <2>1, <2>2
  <2> HIDE DEF v
  <2> QED
    BY <1>1, <2>3
<1> HIDE DEF v
<1>12. Alike(v, s)
  BY <1>4, <1>5, <1>11 DEF Alike
<1> QED
  BY <1>12 DEF v, s, ids

(* Alike Sessions have one shape.                                          *)
LEMMA AlikeShapes ==
  ASSUME NEW ss, NEW rr, DOMAIN ss = DOMAIN rr, \A i \in DOMAIN rr : Alike(ss[i], rr[i])
  PROVE  Shape(ss) = Shape(rr)
<1> DEFINE Of(t) == [id |-> t.id, panes |-> DOMAIN t.layout.pane, ratio |-> t.layout.ratio]
           One(s) == [id |-> s.id, tab |-> s.tab, tabs |-> [k \in DOMAIN s.tabs |-> Of(s.tabs[k])]]
<1>1. ASSUME NEW i \in DOMAIN rr PROVE One(ss[i]) = One(rr[i])
  <2> DEFINE s == ss[i]  r == rr[i]
  <2>1. Alike(s, r)
    OBVIOUS
  <2> HIDE DEF s, r
  <2>2. \A k \in DOMAIN r.tabs : Of(s.tabs[k]) = Of(r.tabs[k])
    BY <2>1 DEF Alike
  <2>3. DOMAIN s.tabs = DOMAIN r.tabs /\ s.id = r.id /\ s.tab = r.tab
    BY <2>1 DEF Alike
  <2> HIDE DEF Of
  <2>4. One(s) = One(r)
    BY <2>2, <2>3
  <2> HIDE DEF One
  <2> QED
    BY <2>4 DEF s, r
<1>2. Shape(ss) = [i \in DOMAIN ss |-> One(ss[i])] /\ Shape(rr) = [i \in DOMAIN rr |-> One(rr[i])]
  BY Zenon DEF Shape
<1> HIDE DEF One
<1> QED
  BY <1>1, <1>2

(* The Sessions of a file that have a Tab come back alike, in their order.  *)
LEMMA SessionsWhole ==
  ASSUME NEW file, Numbered(file), PanesApart(file), ActiveTabs(file)
  PROVE  LET old == WithTabs(file.sessions)
             new == BackSessions(file, {})
         IN /\ Shape(new) = Shape(old) /\ DOMAIN new = DOMAIN old
            /\ \A k \in DOMAIN old : new[k].id = old[k].id
            /\ old # <<>> => new # <<>>
<1> DEFINE all == [i \in DOMAIN file.sessions |-> SessionAgain(file.sessions[i], {}, Instead(file))]
           at == {i \in DOMAIN file.sessions : file.sessions[i].tabs # <<>>}
           n == Cardinality(at)
           old == WithTabs(file.sessions)
           new == BackSessions(file, {})
<1>1. ASSUME NEW i \in DOMAIN file.sessions
      PROVE  Alike(all[i], file.sessions[i]) /\ (all[i].tabs # <<>> <=> file.sessions[i].tabs # <<>>)
  <2>1. all[i] = SessionAgain(file.sessions[i], {}, Instead(file))
    OBVIOUS
  <2>2. Alike(all[i], file.sessions[i])
    BY <2>1, SessionWhole DEF ActiveTabs
  <2>3. all[i] \in SessionRecord /\ file.sessions[i].tabs \in Seq(TabRecord)
    BY <2>1, AgainSession, WorkspaceIs DEF Numbered
  <2> HIDE DEF all
  <2>4. all[i].tabs \in Seq(TabRecord)
    BY <2>3 DEF SessionRecord
  <2>5. DOMAIN all[i].tabs = DOMAIN file.sessions[i].tabs
    BY <2>2 DEF Alike
  <2> QED
    BY <2>2, <2>3, <2>4, <2>5, ListIs
<1>2. DOMAIN all = DOMAIN file.sessions
  OBVIOUS
<1>3. new = WithTabs(all)
  BY DEF BackSessions
<1> HIDE DEF all
<1>4. {i \in DOMAIN all : all[i].tabs # <<>>} = at
  BY <1>1, <1>2
<1>5. new = Picked(all, at)
  BY <1>3, <1>4 DEF WithTabs
<1>6. old = Picked(file.sessions, at)
  BY DEF WithTabs
<1>7. /\ file.sessions \in Seq(SessionRecord) /\ at \in SUBSET DOMAIN file.sessions
  BY WorkspaceIs DEF Numbered
<1> HIDE DEF at
<1>8. /\ n \in Nat /\ Len(old) = n /\ old \in Seq(SessionRecord)
      /\ \A k \in 1..n : Ordered(at)[k] \in at
  BY <1>6, <1>7, PickedKeeps
<1>9. DOMAIN old = 1..n /\ \A k \in 1..n : old[k] = file.sessions[Ordered(at)[k]]
  BY <1>6 DEF Picked
<1>10. DOMAIN new = 1..n /\ \A k \in 1..n : new[k] = all[Ordered(at)[k]]
  BY <1>5 DEF Picked
<1> HIDE DEF old, new, n
<1>11. \A k \in DOMAIN old : Alike(new[k], old[k])
  BY <1>1, <1>7, <1>8, <1>9, <1>10
<1>12. Shape(new) = Shape(old)
  BY <1>9, <1>10, <1>11, AlikeShapes
<1>13. old # <<>> => new # <<>>
  <2>1. old # <<>> => 1 \in DOMAIN old
    BY <1>8, ListIs
  <2> QED
    BY <1>9, <1>10, <2>1
<1>14. \A k \in DOMAIN old : new[k].id = old[k].id
  BY <1>11 DEF Alike
<1> QED
  BY <1>9, <1>10, <1>12, <1>13, <1>14 DEF old, new

(* What reseed makes of a file when every shell starts                     *)
LEMMA ReseededWhole ==
  ASSUME NEW file, Numbered(file), PanesApart(file), ActiveTabs(file), WithTabs(file.sessions) # <<>>
  PROVE  LET v == Reseeded(file, {})
             old == WithTabs(file.sessions)
         IN /\ v.sessions # <<>> /\ Shape(v.sessions) = Shape(old)
            /\ file.active \in {s.id : s \in ToSet(old)} => v.active = file.active
<1> DEFINE old == WithTabs(file.sessions)
           ss == BackSessions(file, {})
           m == [next |-> file.next, active |-> file.active, sessions |-> ss]
           used == SessionIds(m) \cup TabIds(m)
           n == Counter(file, used)
           w == [next |-> n, active |-> file.active, sessions |-> ss]
           v == Reseeded(file, {})
<1>1. v = RepairActive(w)
  <2>1. v = RepairActive([m EXCEPT !.next = n])
    BY Zenon DEF Reseeded, BackSessions
  <2> HIDE DEF n, ss, v
  <2>2. [m EXCEPT !.next = n] = w
    OBVIOUS
  <2> QED
    BY <2>1, <2>2
<1>2. /\ Shape(ss) = Shape(old) /\ DOMAIN ss = DOMAIN old
      /\ \A k \in DOMAIN old : ss[k].id = old[k].id
      /\ ss # <<>>
  BY SessionsWhole
<1> HIDE DEF ss, old, n, v
<1>3. w.sessions = ss /\ w.active = file.active
  OBVIOUS
<1>4. v.sessions = ss
  <2>1. CASE w.active \in SessionIds(w)
    BY <1>1, <1>3, <2>1 DEF RepairActive
  <2>2. CASE w.active \notin SessionIds(w)
    BY <1>1, <1>3, <2>2 DEF RepairActive
  <2> QED
    BY <2>1, <2>2
<1> HIDE DEF w
<1>5. ASSUME file.active \in {s.id : s \in ToSet(old)} PROVE v.active = file.active
  <2>1. PICK k \in DOMAIN old : file.active = old[k].id
    BY <1>5 DEF ToSet
  <2>2. k \in DOMAIN w.sessions /\ w.active = w.sessions[k].id
    BY <1>2, <1>3, <2>1
  <2>3. w.active \in SessionIds(w)
    BY <2>2 DEF SessionIds
  <2>4. v = w
    BY <1>1, <2>3 DEF RepairActive
  <2> QED
    BY <1>3, <2>4
<1> QED
  BY <1>2, <1>4, <1>5 DEF old, v

(* load_or_seed: a daemon with a Surface for each of its ids is one whose   *)
(* shells all started.                                                      *)
LEMMA BootedWhole ==
  ASSUME NEW file, Numbered(file), PanesApart(file), ActiveTabs(file), WithTabs(file.sessions) # <<>>,
         NEW failed \in SUBSET ToSet(Panes(file)), NEW shell \in BOOLEAN,
         NEW b, b = Booted(file, failed, shell), b.surfaces = 1..b.next - 1
  PROVE  b.ws = Reseeded(file, {})
<1> DEFINE w == Reseeded(file, failed)
           count == Len(Panes(file))
           panes == {i \in 1..count : Panes(file)[i] \notin failed}
<1>1. count \in Nat /\ DOMAIN Panes(file) = 1..count
  BY PanesAre, ListIs
<1>2. b = IF w.sessions # <<>> THEN [ws |-> w, surfaces |-> panes, next |-> count + 1]
          ELSE IF shell THEN [ws |-> Seeded(w, count + 1), surfaces |-> panes \cup {count + 1}, next |-> count + 2]
          ELSE [ws |-> w, surfaces |-> panes, next |-> count + 2]
  BY Zenon DEF Booted
<1>3. panes \in SUBSET (1..count) /\ \A i \in panes : Panes(file)[i] \notin failed
  OBVIOUS
<1>4. \A x \in failed : \E i \in 1..count : Panes(file)[i] = x
  BY <1>1 DEF ToSet
<1> HIDE DEF w, count, panes
<1>5. CASE w.sessions # <<>>
  <2>1. b.ws = w /\ panes = 1..(count + 1) - 1
    BY <1>2, <1>5
  <2>2. panes = 1..count
    BY <1>1, <2>1
  <2>3. failed = {}
    BY <1>3, <1>4, <2>2
  <2> QED
    BY <2>1, <2>3 DEF w
<1>6. CASE w.sessions = <<>> /\ shell
  <2>1. panes \cup {count + 1} = 1..(count + 2) - 1
    BY <1>2, <1>6
  <2>2. \A i \in 1..count : i \in panes
    BY <1>1, <2>1
  <2>3. failed = {}
    BY <1>3, <1>4, <2>2
  <2> QED
    BY <1>6, <2>3, ReseededWhole DEF w
<1>7. CASE w.sessions = <<>> /\ ~shell
  <2>1. panes = 1..(count + 2) - 1
    BY <1>2, <1>7
  <2>2. count + 1 \in panes /\ count + 1 \notin 1..count
    BY <1>1, <2>1
  <2> QED
    BY <1>3, <2>2
<1> QED
  BY <1>5, <1>6, <1>7

(* Another daemon starts from the file.                                     *)
LEMMA RestartReturns == Structure /\ Restart => ShapeReturns
<1> SUFFICES ASSUME Structure, Restart, disk = File(ws, DOMAIN surfaces), hosted' = 1..nextSurface' - 1,
                    WithTabs(ws.sessions) # <<>>
             PROVE  LET old == WithTabs(ws.sessions)
                    IN /\ Shape(ws'.sessions) = Shape(old)
                       /\ ws.active \in {s.id : s \in ToSet(old)} => ws'.active = ws.active
  BY DEF ShapeReturns
<1> DEFINE Failures == IF "load" \in Failing THEN SUBSET ToSet(Panes(disk)) ELSE {{}}
           Shells(f) == IF "load" \in Failing /\ f = ToSet(Panes(disk)) THEN BOOLEAN ELSE {TRUE}
           From(d) == ws' = d.ws /\ hosted' = d.surfaces /\ nextSurface' = d.next
<1>1. PICK failed \in Failures : \E shell \in Shells(failed) : From(Booted(disk, failed, shell))
  BY Zenon DEF Restart
<1>2. PICK shell \in Shells(failed) : From(Booted(disk, failed, shell))
  BY <1>1
<1> DEFINE b == Booted(disk, failed, shell)
<1>3. ws' = b.ws /\ hosted' = b.surfaces /\ nextSurface' = b.next
  BY <1>2
<1>4. shell \in BOOLEAN /\ failed \in SUBSET ToSet(Panes(disk))
  BY <1>2
<1> HIDE DEF Failures, Shells, From
<1>5. Numbered(ws) /\ PanesApart(ws) /\ ActiveTabs(ws) /\ Shown(ws) \in SUBSET DOMAIN surfaces
  BY StructureIs DEF Sound
<1>6. disk = ws
  BY <1>5, FileWhole
<1> HIDE DEF b
<1>7. b.surfaces = 1..b.next - 1
  BY <1>3
<1>8. b.ws = Reseeded(ws, {})
  <2>1. b = Booted(disk, failed, shell)
    BY DEF b
  <2> QED
    BY <1>4, <1>5, <1>6, <1>7, <2>1, BootedWhole
<1> QED
  BY <1>3, <1>5, <1>8, ReseededWhole

(* Only another daemon counts one more.                                     *)
LEMMA OtherStepsStay == Next /\ ~Restart => lives' = lives
<1>1. Quiet => lives' = lives
  BY DEF Quiet
<1>2. /\ \A w : Edited(w) => lives' = lives
      /\ \A w, gone : Closed(w, gone) => lives' = lives
      /\ \A u, s : Reported(u, s) => lives' = lives
  BY <1>1 DEF Edited, Closed, Reported
<1>3. SessionCreate \/ SessionSetActive \/ Relabelled \/ TabCreateSurface => lives' = lives
  BY <1>2 DEF SessionCreate, SessionSetActive, Relabelled, TabCreateSurface
<1>4. TabReorder \/ TabMove \/ TabSetActive \/ TabSetRatio => lives' = lives
  BY <1>2 DEF TabReorder, TabMove, TabSetActive, TabSetRatio
<1>5. TabCreateSpawn \/ TabSplit \/ SurfaceCreate => lives' = lives
  BY <1>1 DEF TabCreateSpawn, TabSplit, SurfaceCreate
<1>6. SessionDelete \/ TabClose \/ PaneClose => lives' = lives
  BY <1>2 DEF SessionDelete, TabClose, PaneClose
<1>7. SurfaceExited \/ ForegroundChild \/ SurfaceInput => lives' = lives
  BY <1>2 DEF SurfaceExited, ForegroundChild, SurfaceInput
<1>8. PersistWrite \/ Flush => lives' = lives
  BY DEF PersistWrite, Flush, Written
<1> QED
  BY <1>3, <1>4, <1>5, <1>6, <1>7, <1>8 DEF Next, Requests, Storage

(* A daemon that starts from an up-to-date file, and whose shells start, has *)
(* the Sessions, Tabs, Splits and active Tabs of the last one: writing and   *)
(* reading the file collapse no Split, drop no Tab and lose no focus         *)
(* (snapshot_file, reseed).                                                  *)
THEOREM ShapeComesBack == Spec => ShapeSurvives
<1>1. Structure /\ [Next]_vars => [ShapeReturns]_vars
  <2> SUFFICES ASSUME Structure, Next PROVE ShapeReturns
    OBVIOUS
  <2>1. CASE Restart
    BY <2>1, RestartReturns
  <2>2. CASE ~Restart
    BY <2>2, OtherStepsStay DEF ShapeReturns
  <2> QED
    BY <2>1, <2>2
<1> QED
  BY <1>1, StructureInit, StructureStep, PTL DEF Spec, ShapeSurvives
=============================================================================
