----------------------------- MODULE Scrollback -----------------------------
(***************************************************************************)
(* The lines above the screen: how the engine of a Surface numbers them,   *)
(* how a Replica caches some of them, and how an element scrolls through   *)
(* them, asks for the ones it lacks and for the size it wants             *)
(* (st-core/src/vt/alacritty.rs, st-core/src/surface.rs,                   *)
(* st-client-core/src/replica.rs, st-native/src/element.rs and paint.rs).  *)
(*                                                                         *)
(* One Surface, one element, one connection at a time.  The connection     *)
(* delivers in order what it does not lose; gaps, windows and styles are   *)
(* in module Fanout, the threads of the client in DataClient.  A line is   *)
(* what is written in it, 0 when it is blank.                              *)
(***************************************************************************)
EXTENDS Integers, Sequences, FiniteSets

CONSTANTS
  Heights,     (* rows an element can have; the Surface starts with the least *)
  MaxHistory,  (* scrollback_lines of the configuration of the server         *)
  Cap,         (* DEFAULT_HISTORY_CAP of the client                           *)
  Page,        (* HISTORY_PAGE                                                *)
  Outputs,     (* bound: chunks of output                                     *)
  Moves,       (* bound: what the user does                                   *)
  Breaks,      (* bound: lost connections                                     *)
  WireCap      (* bound: messages on the way                                  *)

VARIABLES
  vt,       (* AlacrittyEngine: the grid with its history, and the alternate screen *)
  owed,     (* Pending of the subscription: dirty rows, size, a Snapshot            *)
  built,    (* frames built under the lock of the Surface and not yet sent          *)
  down,     (* messages on their way to the client                                  *)
  up,       (* messages on their way to the server                                  *)
  mirror,   (* Replica                                                              *)
  grid,     (* GridState: scroll_offset, viewport_top, pending_history,             *)
            (* last_sent_size, replica_size, and the rows that fit                  *)
  spent     (* outputs, moves and breaks so far, and what a break has lost          *)

scrollVars == <<vt, owed, built, down, up, mirror, grid, spent>>

Least(S) == CHOOSE x \in S : \A y \in S : x <= y
AtMost(a, b) == IF a < b THEN a ELSE b
AtLeast(a, b) == IF a > b THEN a ELSE b
Blanks(n) == [i \in 1..n |-> 0]
Drop(s, n) == SubSeq(s, n + 1, Len(s))
Keep(s, n) == SubSeq(s, 1, AtMost(n, Len(s)))
Last(s, n) == Drop(s, Len(s) - n)
(* The rows of s, or as many of them as there is room for and blanks after them *)
Fitted(s, n) == Keep(s, n) \o Blanks(n - Len(Keep(s, n)))
-----------------------------------------------------------------------------
(* The engine.  `lines` are the history and the screen of the primary grid, *)
(* `page` is the alternate screen, `len` what the engine has counted as     *)
(* history, which is behind while the alternate screen is on.               *)
First(v) == v.base + v.len
HistoryBase(v) == IF v.alt THEN First(v) ELSE v.base
HistoryLen(v) == IF v.alt THEN 0 ELSE v.len
Screen(v) == IF v.alt THEN v.page ELSE Last(v.lines, v.rows)

(* trim_history *)
Trimmed(v) ==
  IF v.alt THEN v
  ELSE LET evicted == AtLeast(Len(v.lines) - v.rows - MaxHistory, 0)
       IN [v EXCEPT !.lines = Drop(@, evicted), !.base = @ + evicted,
                    !.len = Len(v.lines) - evicted - v.rows]

Written(v, r, ink) ==
  IF v.alt THEN [v EXCEPT !.page[r] = ink]
  ELSE [v EXCEPT !.lines[Len(v.lines) - v.rows + r] = ink]

LineFed(v) ==
  IF v.alt THEN [v EXCEPT !.page = Append(Tail(@), 0)]
  ELSE [v EXCEPT !.lines = Append(@, 0)]

Swapped(v) ==
  [v EXCEPT !.alt = ~@, !.page = IF v.alt THEN <<>> ELSE Blanks(v.rows)]

(* Grid::resize without reflow: lines come back from the history when the  *)
(* grid grows; when it shrinks, those above the cursor that do not fit     *)
(* scroll off, `up` of them, and the rest is dropped from the bottom       *)
Regrown(v, rows, kept) ==
  IF rows >= v.rows
  THEN LET added == rows - v.rows
           pulled == AtMost(added, Len(v.lines) - v.rows)
       IN v.lines \o Blanks(added - pulled)
  ELSE Keep(v.lines, Len(v.lines) - (v.rows - rows) + kept)

Resized(v, rows, kept) ==
  Trimmed([v EXCEPT !.lines = Regrown(v, rows, kept), !.rows = rows,
                    !.page = IF v.alt THEN Blanks(rows) ELSE <<>>])

(* history_lines *)
HistoryLines(v, from, count) ==
  LET start == AtLeast(from, HistoryBase(v))
      end == AtMost(First(v) + v.rows, start + count)
      all == IF v.alt THEN v.page ELSE v.lines
      origin == IF v.alt THEN First(v) ELSE v.base
  IN SubSeq(all, start - origin + 1, end - origin)
-----------------------------------------------------------------------------
(* Frames, pages and requests *)
NotOwed == [on |-> TRUE, dirty |-> {}, size |-> 0, meta |-> FALSE, snapshot |-> FALSE]

Snapshot(v) ==
  [kind |-> "snapshot", base |-> HistoryBase(v), len |-> HistoryLen(v), rows |-> Screen(v)]

Delta(v, o) ==
  [kind |-> "delta", base |-> HistoryBase(v), len |-> HistoryLen(v), size |-> o.size,
   rows |-> [r \in o.dirty |-> Screen(v)[r]]]

History(v, from, count) ==
  [kind |-> "history", from |-> AtLeast(from, HistoryBase(v)), base |-> HistoryBase(v),
   rows |-> HistoryLines(v, from, count)]

(* What a change of the engine owes the subscription; a scroll and a swap   *)
(* of the screens damage every row                                         *)
Owes(o, v, w) ==
  [o EXCEPT !.dirty = @ \cup {r \in 1..w.rows : Screen(w)[r] # Screen(v)[r]},
            !.meta = @ \/ HistoryBase(v) # HistoryBase(w) \/ HistoryLen(v) # HistoryLen(w)]

Scrolls(o, v, w) == [Owes(o, v, w) EXCEPT !.dirty = 1..w.rows]
-----------------------------------------------------------------------------
(* The Replica *)
MirrorFirst(m) == m.base + m.len
CacheEnd(m) == m.from + Len(m.cache)

TrimToCap(m) ==
  LET over == AtLeast(Len(m.cache) - Cap, 0)
  IN [m EXCEPT !.cache = Drop(@, over), !.from = @ + over]

EvictBelowTrimPoint_Keeps(m) ==
  [m EXCEPT !.from = IF m.cache = <<>> THEN MirrorFirst(m) ELSE @]

EvictBelowTrimPoint(m) ==
  LET below == AtMost(AtLeast(m.base - m.from, 0), Len(m.cache))
      left == Drop(m.cache, below)
  IN [m EXCEPT !.cache = left,
               !.from = IF left = <<>> THEN MirrorFirst(m) ELSE @ + below]

(* cache_base_is_stale *)
CacheBaseIsStale(m, first) == m.cache # <<>> /\ CacheEnd(m) # first

ScrollOff(m, old, new) ==
  IF new = old THEN m
  ELSE IF new < old \/ new - old > Len(m.visible) \/ CacheBaseIsStale(m, old)
  THEN [m EXCEPT !.cache = <<>>, !.from = new]
  ELSE TrimToCap([m EXCEPT !.cache = @ \o Keep(m.visible, new - old),
                           !.visible = Fitted(Drop(@, new - old), m.rows)])

MirrorResized_OldRows(m, rows) == [m EXCEPT !.rows = rows]

MirrorResized(m, rows) == [m EXCEPT !.rows = rows, !.visible = Fitted(@, rows)]

ApplySnapshot(m, msg) ==
  [rows |-> Len(msg.rows), visible |-> msg.rows, base |-> msg.base, len |-> msg.len,
   from |-> msg.base + msg.len, cache |-> <<>>]

ApplyDelta(m, msg) ==
  LET sized == IF msg.size = 0 THEN m ELSE MirrorResized(m, msg.size)
      moved == ScrollOff(sized, MirrorFirst(m), msg.base + msg.len)
      kept == EvictBelowTrimPoint([moved EXCEPT !.base = msg.base, !.len = msg.len])
  IN [kept EXCEPT !.visible = [r \in DOMAIN @ |-> IF r \in DOMAIN msg.rows THEN msg.rows[r] ELSE @[r]]]

(* The rows of a page that extend, overlap or abut the cache are merged,    *)
(* another page replaces it                                                *)
Merged(m, start, rows) ==
  LET end == start + Len(rows)
      head == Keep(rows, AtLeast(m.from - start, 0))
      tail == Drop(rows, AtMost(AtLeast(CacheEnd(m) - start, 0), Len(rows)))
  IN IF m.cache = <<>> \/ end < m.from \/ start > CacheEnd(m)
     THEN [m EXCEPT !.cache = rows, !.from = start]
     ELSE [m EXCEPT !.cache = head \o @ \o tail, !.from = AtMost(@, start)]

ApplyHistoryPage(m, msg) ==
  LET based == [m EXCEPT !.base = AtLeast(@, msg.base)]
      start == AtLeast(msg.from, based.base)
      rows == Keep(Drop(msg.rows, AtMost(start - msg.from, Len(msg.rows))),
                   AtLeast(MirrorFirst(based) - start, 0))
  IN IF rows = <<>> THEN EvictBelowTrimPoint(based)
     ELSE TrimToCap(EvictBelowTrimPoint(Merged(based, start, rows)))

Apply(m, msg) ==
  IF msg.kind = "snapshot" THEN ApplySnapshot(m, msg)
  ELSE IF msg.kind = "delta" THEN ApplyDelta(m, msg)
  ELSE ApplyHistoryPage(m, msg)
-----------------------------------------------------------------------------
(* The element *)
Offset(m, g) == AtMost(g.offset, m.len)
ViewportTop(m, g) == MirrorFirst(m) - Offset(m, g)

(* The page to ask for, from and count, or nothing (missing_history_page) *)
MissingPage(top, from, base) ==
  IF top >= from \/ from <= base THEN <<>>
  ELSE LET wantStart == AtLeast(AtLeast(top - Page \div 2, 0), base)
           count == AtMost(from - wantStart, Page)
       IN <<from - count, count>>

Fresh(fit) == [offset |-> 0, top |-> 0, asked |-> -1, sent |-> 0, seen |-> 0, fit |-> fit]

Init ==
  /\ vt = [base |-> 0, lines |-> Blanks(Least(Heights)), rows |-> Least(Heights), len |-> 0,
           alt |-> FALSE, page |-> <<>>]
  /\ owed = [NotOwed EXCEPT !.on = FALSE] /\ built = <<>> /\ down = <<>>
  /\ up = <<[kind |-> "attach"]>>
  /\ mirror = [rows |-> 0, visible |-> <<>>, base |-> 0, len |-> 0, from |-> 0, cache |-> <<>>]
  /\ grid = Fresh(Least(Heights))
  /\ spent = [outputs |-> 0, moves |-> 0, breaks |-> 0, lost |-> {}]
-----------------------------------------------------------------------------
(* The server *)
Output ==
  /\ spent.outputs < Outputs
  /\ spent' = [spent EXCEPT !.outputs = @ + 1]
  /\ UNCHANGED <<built, down, up, mirror, grid>>

(* A chunk overwrites a row with something it has not held before *)
Write ==
  /\ Output
  /\ \E r \in 1..vt.rows :
       /\ vt' = Trimmed(Written(vt, r, spent.outputs + 1))
       /\ owed' = Owes(owed, vt, vt')

(* A chunk scrolls the screen by one line *)
LineFeed ==
  /\ Output
  /\ vt' = Trimmed(LineFed(vt))
  /\ owed' = Scrolls(owed, vt, vt')

(* A program takes the alternate screen, or leaves it *)
Swap ==
  /\ Output
  /\ vt' = Trimmed(Swapped(vt))
  /\ owed' = Scrolls(owed, vt, vt')

(* Surface::flush builds the frame the subscription is owed *)
Flush ==
  /\ owed.on /\ owed # NotOwed /\ built = <<>>
  /\ built' = <<IF owed.snapshot THEN Snapshot(vt) ELSE Delta(vt, owed)>>
  /\ owed' = NotOwed
  /\ UNCHANGED <<vt, down, up, mirror, grid, spent>>

(* pump::flush sends it after the lock is released *)
Send ==
  /\ built # <<>> /\ Len(down) < WireCap
  /\ down' = down \o built /\ built' = <<>>
  /\ UNCHANGED <<vt, owed, up, mirror, grid, spent>>

(* on_resize, on_fetch_history, on_attach *)
Answer ==
  /\ up # <<>> /\ up' = Tail(up)
  /\ \/ /\ Head(up).kind = "resize"
        /\ IF Head(up).rows = vt.rows THEN UNCHANGED <<vt, owed>>
           ELSE \E kept \in 0..AtLeast(vt.rows - Head(up).rows, 0) :
                  /\ vt' = Resized(vt, Head(up).rows, kept)
                  /\ owed' = [owed EXCEPT !.dirty = 1..Head(up).rows, !.size = Head(up).rows]
        /\ UNCHANGED down
     \/ /\ Head(up).kind = "fetch" /\ Len(down) < WireCap
        /\ down' = Append(down, History(vt, Head(up).from, Head(up).count))
        /\ UNCHANGED <<vt, owed>>
     \/ /\ Head(up).kind = "attach"
        /\ owed' = [NotOwed EXCEPT !.snapshot = TRUE]
        /\ UNCHANGED <<vt, down>>
  /\ UNCHANGED <<built, mirror, grid, spent>>
-----------------------------------------------------------------------------
(* The client *)
Receive ==
  /\ down # <<>>
  /\ mirror' = Apply(mirror, Head(down)) /\ down' = Tail(down)
  /\ UNCHANGED <<vt, owed, built, up, grid, spent>>

WantsSize(g) == g.sent # g.fit /\ g.seen # g.fit

(* paint_frame: ask for the size first, with the size of the last frame in *)
(* mind, read the Replica, ask for the page the viewport lacks             *)
Paint ==
  LET top == ViewportTop(mirror, grid)
      page == MissingPage(top, mirror.from, mirror.base)
      asks == page # <<>> /\ grid.asked # page[1]
  IN /\ mirror.rows # 0
     /\ up' = up
          \o (IF WantsSize(grid) THEN <<[kind |-> "resize", rows |-> grid.fit]>> ELSE <<>>)
          \o (IF asks THEN <<[kind |-> "fetch", from |-> page[1], count |-> page[2]]>> ELSE <<>>)
     /\ grid' = [grid EXCEPT !.sent = IF WantsSize(grid) THEN grid.fit ELSE @,
                             !.asked = IF asks THEN page[1] ELSE @,
                             !.seen = mirror.rows, !.top = top,
                             !.offset = Offset(mirror, grid)]
     /\ UNCHANGED <<vt, owed, built, down, mirror, spent>>

Move ==
  /\ spent.moves < Moves
  /\ spent' = [spent EXCEPT !.moves = @ + 1]
  /\ UNCHANGED <<vt, owed, built, down, up>>

(* The wheel, the thumb, the keys that page and those that send *)
ScrollTo ==
  /\ Move /\ UNCHANGED mirror
  /\ \E offset \in (0..mirror.len) \ {grid.offset} : grid' = [grid EXCEPT !.offset = offset]

(* Clear Scrollback drops what is cached *)
ClearScrollback ==
  /\ Move
  /\ mirror' = [mirror EXCEPT !.cache = <<>>, !.from = CacheEnd(mirror)]
  /\ grid' = [grid EXCEPT !.offset = 0]

(* The window changes size *)
WindowResized ==
  /\ Move /\ UNCHANGED mirror
  /\ \E fit \in Heights \ {grid.fit} : grid' = [grid EXCEPT !.fit = fit]

(* The connection is lost with all that is on its way, and reattach_all     *)
(* asks for a Snapshot on the next one                                     *)
Reconnect ==
  /\ spent.breaks < Breaks
  /\ spent' = [spent EXCEPT !.breaks = @ + 1,
                            !.lost = @ \cup {up[i].kind : i \in 1..Len(up)}]
  /\ up' = <<[kind |-> "attach"]>> /\ down' = <<>> /\ built' = <<>>
  /\ owed' = [NotOwed EXCEPT !.on = FALSE]
  /\ UNCHANGED <<vt, mirror, grid>>

Server == Flush \/ Send \/ Answer
Next ==
  \/ Write \/ LineFeed \/ Swap \/ Server \/ Receive \/ Paint
  \/ ScrollTo \/ ClearScrollback \/ WindowResized \/ Reconnect
-----------------------------------------------------------------------------
(* Types, and what the lengths of the grids, the queues and the cache are   *)
(* bounded by                                                              *)
ScrollTypes ==
  /\ vt.rows \in Heights /\ Len(Screen(vt)) = vt.rows /\ vt.base \in Nat /\ vt.len \in 0..MaxHistory
  /\ ~vt.alt => Len(vt.lines) = vt.len + vt.rows
  /\ mirror.rows \in Heights \cup {0} /\ Len(mirror.visible) = mirror.rows
  /\ Len(mirror.cache) <= Cap
  /\ grid.fit \in Heights /\ grid.sent \in Heights \cup {0} /\ grid.seen \in Heights \cup {0}
  /\ Len(down) <= WireCap /\ Len(built) <= 1

(* What a Replica has cached is one run of lines between the trim point and *)
(* the screen, whatever order Deltas, pages asked for before them, resizes, *)
(* the alternate screen and trimming come in (Replica::apply_delta,         *)
(* apply_history_page)                                                     *)
OneRun == mirror.base <= mirror.from /\ CacheEnd(mirror) <= MirrorFirst(mirror)

(* With nothing owed or on its way the Replica has the rows and the line    *)
(* numbers of the engine: what the steps of apply_delta make of the rows    *)
(* that moved, went and came is what the engine has                        *)
Settled ==
  owed = NotOwed /\ built = <<>> /\ down = <<>> =>
    /\ mirror.rows = vt.rows /\ mirror.visible = Screen(vt)
    /\ mirror.base = HistoryBase(vt) /\ mirror.len = HistoryLen(vt)

(* What is cached under the number of a line is that line: "selections and  *)
(* cached rows stay valid without any client bookkeeping"                  *)
(* (docs/plan/02-protocol.md, section 8).  Compared while the Surface keeps *)
(* its height, which makes every line of its history immutable             *)
CachedTruly ==
  ~vt.alt =>
    \A i \in 1..Len(mirror.cache) :
      mirror.from + i - 1 \in vt.base..(First(vt) - 1) =>
        mirror.cache[i] = vt.lines[mirror.from + i - vt.base]

(* No line of the viewport is blank because it is not cached, unless the    *)
(* request for it went down with a connection: lines that are not there     *)
(* "come out blank and are fetched below" (read_frame)                     *)
Filled ==
  \/ "fetch" \in spent.lost
  \/ ViewportTop(mirror, grid) >= mirror.from

(* The Surface has the size that fits the element, unless the request for   *)
(* it went down with a connection (request_resize)                         *)
SizeAgreed == "resize" \in spent.lost \/ (mirror.rows = grid.fit /\ vt.rows = grid.fit)
=============================================================================
