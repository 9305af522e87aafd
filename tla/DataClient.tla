-------------------------------- MODULE DataClient --------------------------------
(* The client half of the data plane as threads see it: the I/O thread of        *)
(* st-client-core/src/dataplane.rs (connect, handshake, re-attach, read,         *)
(* reconnect), the state it shares with the window thread, and the window thread *)
(* itself: the terminal-grid elements of st-native that attach, drain events and *)
(* paint (element.rs, conn.rs, paint.rs, wake.rs).                               *)
(*                                                                               *)
(* A Replica is the version of the screen it holds; module Mirror has its        *)
(* contents, gaps and resyncs.  A step is what one thread does under one lock.   *)
EXTENDS Naturals, Sequences, FiniteSets, SequencesExt

CONSTANTS
    Surface, View,
    Incidents,  \* bound: changes, bells and exits of Surfaces, mounts, unmounts and
                \* switches of elements, connections ended, together
    QueueCap,   \* EVENT_QUEUE_CAP
    Blinks      \* whether the cursor of a focused element blinks

VARIABLES
    shared,     \* attachments, conn, shutdown, events, Replicas and their flags
    io,         \* the I/O thread, and the socket with what is in flight on it
    screen,     \* the server's Surfaces, and its side of the connection
    view,       \* the elements: their surfaceId prop, `attached`, what they show
    ui,         \* the window thread: wake channel, notify, the frame under way
    left        \* what is left of the bound

dataVars == <<shared, io, screen, view, ui, left>>

None == "none"
Event == [is : {"up", "gone", "detached", "exited", "bell", "error"}, of : Surface \cup {None}]
On(kind, s) == [is |-> kind, of |-> s]

First(S) == CHOOSE x \in S : TRUE
Absent == [wants |-> None, attached |-> None, shows |-> 0]

\* One element is mounted, nothing is connected yet.
Init ==
    /\ shared = [att |-> {}, conn |-> FALSE, stop |-> FALSE, events |-> <<>>,
                 copy |-> [s \in Surface |-> 0], known |-> {}, dirty |-> {}]
    /\ io = [at |-> "sleep", todo |-> {}, down |-> <<>>, cut |-> TRUE]
    /\ screen = [version |-> [s \in Surface |-> 1], exited |-> {}, hello |-> FALSE, att |-> {}]
    /\ \E v \in View, s \in Surface :
          /\ v = First(View) /\ s = First(Surface)
          /\ view = [[w \in View |-> Absent] EXCEPT ![v].wants = s]
    /\ ui = [due |-> TRUE, at |-> "idle", todo |-> {}, out |-> <<>>, inbox |-> {}]
    /\ left = Incidents
-----------------------------------------------------------------------------
(* Shared state.                                                             *)

Lifecycle(e) == e.is \in {"up", "gone", "detached", "exited"}

\* A queue without a cap.
Queued_Unbounded(q, e) == Append(q, e)

\* push_event: a bell after a bell of its Surface coalesces; a full queue loses
\* its oldest droppable event, or its oldest when all are lifecycle events.
Queued(q, e) ==
    LET spare == {i \in DOMAIN q : ~Lifecycle(q[i])}
        oldest == IF spare = {} THEN 1 ELSE CHOOSE i \in spare : \A j \in spare : i <= j
    IN IF e.is = "bell" /\ q # <<>> /\ Last(q) = e THEN q
       ELSE IF Len(q) < QueueCap THEN Append(q, e)
       ELSE IF spare = {} /\ ~Lifecycle(e) THEN q
       ELSE Append(RemoveAt(q, oldest), e)

\* Every registered element's waker; with no element there is nobody to wake.
Woken == [ui EXCEPT !.due = @ \/ \E v \in View : view[v].wants # None]

Push(e) == shared' = [shared EXCEPT !.events = Queued(@, e)] /\ ui' = Woken

\* mark_dirty: only the first change since the flag was cleared wakes.
Dirtied(m) ==
    /\ shared' = [shared EXCEPT !.copy[m.of] = m.version, !.dirty = @ \cup {m.of},
                                !.known = IF m.exited THEN @ \cup {m.of} ELSE @]
    /\ ui' = IF m.of \in shared.dirty THEN ui ELSE Woken

-----------------------------------------------------------------------------
(* The server's end (st-server/src/data/conn.rs; module Fanout has the rest).  It *)
(* is handed a message as it is written: only the answers are in flight.          *)

Screen(s) == [is |-> "screen", of |-> s, version |-> screen.version[s],
              exited |-> s \in screen.exited]

Answer(m) ==
    CASE m.is = "hello" -> On("ack", None)
      [] m.is = "attach" -> Screen(m.of)
      [] m.is = "detach" -> On(IF m.of \in screen.att THEN "detached" ELSE "error", m.of)

\* send, by `from` on its way to `to`: refused without a connection; bytes for a
\* dead socket go nowhere.  The server ends a connection that does not begin with
\* a Hello.
Tell(m, conn, to) ==
    IF ~conn \/ io.cut THEN io' = to /\ UNCHANGED screen
    ELSE IF m.is # "hello" /\ ~screen.hello THEN io' = [to EXCEPT !.cut = TRUE] /\ UNCHANGED screen
    ELSE /\ io' = [to EXCEPT !.down = Append(@, Answer(m))]
         /\ screen' = [screen EXCEPT !.hello = @ \/ m.is = "hello",
                                     !.att = CASE m.is = "attach" -> @ \cup {m.of}
                                               [] m.is = "detach" -> @ \ {m.of}
                                               [] OTHER -> @]

\* A Surface changes, rings or exits: what its attached Client is sent.
Published(s, ms) ==
    io' = IF s \in screen.att /\ ~io.cut THEN [io EXCEPT !.down = @ \o ms] ELSE io

Change(s) ==
    /\ left > 0 /\ s \notin screen.exited
    /\ left' = left - 1
    /\ \/ /\ screen' = [screen EXCEPT !.version[s] = @ + 1]
          /\ Published(s, <<[Screen(s) EXCEPT !.version = @ + 1]>>)
       \/ /\ screen' = [screen EXCEPT !.exited = @ \cup {s}]
          /\ Published(s, <<On("exited", s)>>)
       \/ /\ Published(s, <<On("bell", s)>>)
          /\ UNCHANGED screen
    /\ UNCHANGED <<shared, view, ui>>

\* The server ends the connection, telling the Client of its Surfaces first or not.
Drop ==
    /\ left > 0 /\ ~io.cut /\ io.at \in {"hello", "reattach", "read"}
    /\ left' = left - 1
    /\ \E told \in {{}, screen.att} :
          io' = [io EXCEPT !.cut = TRUE,
                           !.down = @ \o SetToSeq({On("detached", s) : s \in told})]
    /\ UNCHANGED <<shared, screen, view, ui>>
-----------------------------------------------------------------------------
(* The I/O thread.                                                           *)

\* run: dial (the first time in open()) and set_conn.  From here on the other
\* threads send, although no Hello went out.
Dial ==
    /\ io.at = "sleep"
    /\ io' = [io EXCEPT !.at = "hello", !.cut = FALSE]
    /\ shared' = [shared EXCEPT !.conn = TRUE]
    /\ screen' = [screen EXCEPT !.hello = FALSE, !.att = {}]
    /\ UNCHANGED <<view, ui, left>>

Handshake ==
    /\ io.at = "hello"
    /\ Tell(On("hello", None), TRUE, [io EXCEPT !.at = "reattach", !.todo = shared.att])
    /\ UNCHANGED <<shared, view, ui, left>>

\* A connection that is not asked for the Surfaces of the one before it.
Reattach_Forgets ==
    /\ io.at = "reattach"
    /\ io' = [io EXCEPT !.at = "read", !.todo = {}]
    /\ UNCHANGED <<shared, screen, view, ui, left>>

\* reattach_all: one Attach per entry of the copy taken at once.
Reattach ==
    /\ io.at = "reattach"
    /\ \/ io.todo = {} /\ io' = [io EXCEPT !.at = "read"] /\ UNCHANGED screen
       \/ \E s \in io.todo : Tell(On("attach", s), TRUE, [io EXCEPT !.todo = @ \ {s}])
    /\ UNCHANGED <<shared, view, ui, left>>

\* dispatch of the next message.  `detached` may answer an older Detach.
Dispatch(m) ==
    \/ m.is = "ack" /\ Push(On("up", None))
    \/ m.is = "screen" /\ Dirtied(m)
    \/ m.is \in {"bell", "error"} /\ Push(On(m.is, m.of))
    \/ /\ m.is = "exited"
       /\ shared' = [shared EXCEPT !.known = @ \cup {m.of}, !.dirty = @ \cup {m.of}, !.events = Queued(@, On("exited", m.of))]
       /\ ui' = Woken
    \/ /\ m.is = "detached"
       /\ shared' = [shared EXCEPT !.att = @ \ {m.of}, !.events = Queued(@, On("detached", m.of))]
       /\ ui' = Woken

\* One message of a read; the shutdown flag is looked at after it.
Read ==
    /\ io.at = "read" /\ io.down # <<>>
    /\ Dispatch(Head(io.down))
    /\ io' = [io EXCEPT !.down = Tail(@), !.at = IF shared.stop THEN "lost" ELSE @]
    /\ UNCHANGED <<screen, view, left>>

\* The stream ends: closed by the server, the network or shutdown().
Ended ==
    /\ io.at \in {"hello", "reattach", "read"} /\ io.cut /\ io.down = <<>>
    /\ io' = [io EXCEPT !.at = "lost"]
    /\ UNCHANGED <<shared, screen, view, ui, left>>

\* set_conn(None) and the Disconnected event, or the end of the thread: the flag
\* is read before the sleep, not after it.
Lost ==
    /\ io.at = "lost"
    /\ IF shared.stop
       THEN shared' = [shared EXCEPT !.conn = FALSE] /\ UNCHANGED ui
       ELSE /\ shared' = [shared EXCEPT !.conn = FALSE, !.events = Queued(@, On("gone", None))]
            /\ ui' = Woken
    /\ io' = [io EXCEPT !.at = IF shared.stop THEN "stopped" ELSE "sleep",
                        !.todo = {}, !.cut = TRUE, !.down = <<>>]
    /\ UNCHANGED <<screen, view, left>>

IoThread == Dial \/ Handshake \/ Reattach \/ Read \/ Ended \/ Lost
-----------------------------------------------------------------------------
(* The window thread.                                                        *)

Mounted == {v \in View : view[v].wants # None}

\* React commits: an element appears, goes away (destroy) or is given another
\* Surface; a Surface has one element at a time.
Mount(v, s) ==
    /\ ui.at = "idle" /\ left > 0 /\ ~shared.stop
    /\ view[v].wants # s /\ \A w \in View : view[w].wants # s
    /\ left' = left - 1
    /\ view' = [view EXCEPT ![v].wants = s, ![v].shows = 0]
    /\ ui' = [ui EXCEPT !.due = TRUE]
    /\ UNCHANGED <<shared, io, screen>>

\* The last handle is dropped and leaves the socket open.
Destroyed_Open(v) ==
    /\ shared' = [shared EXCEPT !.att = @ \ {view[v].attached}, !.stop = Mounted = {v}]
    /\ UNCHANGED <<io, screen>>

\* The pool has weak references: the last element that goes drops the connection.
LastHandle(v) == Mounted = {v}

\* destroy: the Replica of an exited Surface is forgotten, the element detaches;
\* dropping the connection closes the socket it finds.
Destroyed(v) ==
    LET s == view[v].wants
        attached == view[v].attached
        forgotten == IF s \in shared.known THEN {s} ELSE {}
        last == LastHandle(v)
    IN /\ shared' = [shared EXCEPT !.att = @ \ ({attached} \cup forgotten), !.known = @ \ forgotten,
                                   !.copy = [t \in Surface |-> IF t \in forgotten THEN 0 ELSE @[t]],
                                   !.dirty = @ \ forgotten, !.stop = last]
       /\ IF last THEN io' = [io EXCEPT !.cut = @ \/ shared.conn] /\ UNCHANGED screen
          ELSE IF attached = None THEN UNCHANGED <<io, screen>>
          ELSE Tell(On("detach", attached), shared.conn, io)

Unmount(v) ==
    /\ ui.at = "idle" /\ left > 0 /\ v \in Mounted
    /\ left' = left - 1
    /\ Destroyed(v)
    /\ view' = [view EXCEPT ![v] = Absent]
    /\ UNCHANGED ui

\* What a blink of the cursor is good for besides the cursor; a blink whose frame
\* would change nothing else is left out.
Stale == \E v \in Mounted : \/ view[v].attached # view[v].wants
                            \/ view[v].shows # shared.copy[view[v].wants]

\* The wake task clears the coalescing flag before it notifies, so that a wake
\* during the frame asks for another one; so does the cursor every 530 ms.
Frame ==
    /\ ui.at = "idle" /\ Mounted # {}
    /\ ui.due \/ (Blinks /\ Stale)
    /\ ui' = [ui EXCEPT !.due = FALSE, !.at = "render", !.todo = Mounted]
    /\ UNCHANGED <<shared, io, screen, view, left>>

\* pump and take_events_for: the connection-wide events go to whoever asks first.
\* An inbox is the set of its events: how often one came makes no difference.
Drained(v, element) ==
    LET all == ui.inbox \cup Range(shared.events)
        mine == {e \in all : e.of \in {None, element.wants}}
        lost == \E e \in mine : e.is \in {"gone", "detached"}
        rest == ui.todo \ {v}
        then == IF rest = {} THEN Mounted ELSE rest
    IN /\ view' = [view EXCEPT ![v] = [element EXCEPT !.attached = IF lost THEN None ELSE @]]
       /\ ui' = [ui EXCEPT !.inbox = all \ mine, !.todo = then, !.out = <<>>,
                           !.at = IF rest = {} THEN "paint" ELSE "render"]
       /\ shared' = [shared EXCEPT !.events = <<>>]

\* ensure_connection: nothing to do, or adopt what the core still holds, and go
\* on to the events; or leave the previous Surface and enter the new one.
Render(v) ==
    LET s == view[v].wants
        previous == view[v].attached
        adopt == previous = None /\ s \in shared.att
        leave == IF previous = None THEN <<>> ELSE <<On("detach", previous)>>
    IN /\ ui.at = "render" /\ v = First(ui.todo)
       /\ IF previous = s \/ adopt
          THEN Drained(v, [view[v] EXCEPT !.attached = s])
          ELSE /\ view' = [view EXCEPT ![v].attached = None]
               /\ shared' = [shared EXCEPT !.att = (@ \ {previous}) \cup {s}]
               /\ ui' = [ui EXCEPT !.at = "send", !.out = leave \o <<On("attach", s)>>]
    /\ UNCHANGED <<io, screen, left>>

\* detach() and attach() write; `attached` is set only if the Attach was sent.
Send ==
    LET v == First(ui.todo)
        m == Head(ui.out)
    IN /\ ui.at = "send"
       /\ Tell(m, shared.conn, io)
       /\ IF m.is = "detach" THEN ui' = [ui EXCEPT !.out = Tail(@)] /\ UNCHANGED <<view, shared>>
          ELSE Drained(v, [view[v] EXCEPT !.attached = IF shared.conn THEN m.of ELSE None])
       /\ UNCHANGED left

\* read_frame, element by element: copy the Replica under its lock ...
Paint ==
    LET v == First(ui.todo)
    IN /\ ui.at = "paint"
       /\ view' = [view EXCEPT ![v].shows = shared.copy[view[v].wants]]
       /\ ui' = [ui EXCEPT !.at = "clear"]
       /\ UNCHANGED <<shared, io, screen, left>>

\* ... then take_dirty, which clears the flags of every Surface.
TakeDirty ==
    LET rest == ui.todo \ {First(ui.todo)}
    IN /\ ui.at = "clear"
       /\ shared' = [shared EXCEPT !.dirty = {}]
       /\ ui' = [ui EXCEPT !.todo = rest, !.at = IF rest = {} THEN "idle" ELSE "paint"]
       /\ UNCHANGED <<io, screen, view, left>>

Window ==
    Frame \/ Send \/ Paint \/ TakeDirty \/ \E v \in View : Render(v)

Next ==
    \/ IoThread \/ Drop \/ Window
    \/ \E s \in Surface : Change(s)
    \/ \E v \in View : Unmount(v) \/ \E s \in Surface : Mount(v, s)

-----------------------------------------------------------------------------
DataTypes ==
    /\ shared \in [att : SUBSET Surface, known : SUBSET Surface, conn : BOOLEAN, stop : BOOLEAN,
                   events : Seq(Event), copy : [Surface -> Nat], dirty : SUBSET Surface]
    /\ Len(shared.events) <= QueueCap
    /\ view \in [View -> [wants : Surface \cup {None}, attached : Surface \cup {None}, shows : Nat]]
    /\ ui.inbox \subseteq Event /\ ui.todo \subseteq View

\* Whatever connections were lost and whatever was switched in between, in the
\* end every element shows its Surface as the server has it.
Current == \A v \in Mounted : view[v].shows = screen.version[view[v].wants]

\* What is in a Replica is painted, blinking cursor or not.
Shown == \A v \in Mounted : view[v].shows = shared.copy[view[v].wants]

\* Dropping the last handle joins the I/O thread, on the window thread: it ends.
\* (The handle is not taken up again: `stop` stays.)
DropReturns == <>[](shared.stop => io.at = "stopped")
=============================================================================
