----------------------------- MODULE Selection ------------------------------
(***************************************************************************)
(* Selected text (st-client-core/src/selection.rs): how a selection grows  *)
(* with the pointer, which cells it covers and what text is copied.  The   *)
(* functions are checked against laws for every content of a small screen. *)
(*                                                                         *)
(* A cell is one of "a" (part of a word), "-" (not), " ", "w" (the left    *)
(* half of a wide character of a word), "s" (its right half) and "l" (the  *)
(* gap before a wide character that did not fit).                          *)
(***************************************************************************)
EXTENDS Naturals, Sequences, FiniteSets, SequencesExt, FiniteSetsExt

CONSTANTS
  Lines,  (* bound: lines there are, the last of them on the screen *)
  Cols    (* columns of the screen                                  *)

Line == 0..Lines - 1
Point == [line : Line, col : 0..Cols]
Modes == {"char", "word", "line", "block"}
Missing == [cells |-> <<>>, wrapped |-> FALSE]

Leq(p, q) == p.line < q.line \/ (p.line = q.line /\ p.col <= q.col)

Started(at, mode) == [anchor |-> at, head |-> at, mode |-> mode]
ExtendTo(s, head) == [s EXCEPT !.head = head]

Normalized(s) ==
  LET lo(f) == Min({s.anchor[f], s.head[f]})
      hi(f) == Max({s.anchor[f], s.head[f]})
  IN IF s.mode = "block" THEN [start |-> [line |-> lo("line"), col |-> lo("col")],
                               end |-> [line |-> hi("line"), col |-> hi("col")]]
     ELSE IF Leq(s.anchor, s.head) THEN [start |-> s.anchor, end |-> s.head]
     ELSE [start |-> s.head, end |-> s.anchor]

IsEmpty(s) == s.anchor = s.head /\ s.mode = "char"

Covers(s, p) ==
  LET n == Normalized(s) IN
  /\ p.line \in n.start.line..n.end.line
  /\ CASE s.mode = "block" -> p.col \in n.start.col..n.end.col
       [] s.mode = "line" -> TRUE
       [] OTHER -> Leq(n.start, p) /\ Leq(p, n.end)

(* The columns selected on a line: a set, empty outside the selection *)
ColsOn(s, line) ==
  LET n == Normalized(s)
      clamp(c) == Min({c, Cols - 1})
  IN CASE line \notin n.start.line..n.end.line -> {}
       [] line \in n.start.line..n.end.line /\ s.mode = "block" -> clamp(n.start.col)..clamp(n.end.col)
       [] line \in n.start.line..n.end.line /\ s.mode = "line" -> 0..Cols - 1
       [] OTHER -> clamp(IF line = n.start.line THEN n.start.col ELSE 0)
                   ..clamp(IF line = n.end.line THEN n.end.col ELSE Cols - 1)
-----------------------------------------------------------------------------
(* Words and logical lines *)

InWord(row, c) == row # Missing /\ row.cells[c + 1] \in {"a", "w"}

WordAt(rows, p) ==
  LET col == Min({p.col, Cols - 1})
      runs == {r \in (0..col) \X (col..Cols - 1) : \A c \in r[1]..r[2] : InWord(rows[p.line], c)}
  IN IF runs = {} THEN <<col, col>>
     ELSE <<Min({r[1] : r \in runs}), Max({r[2] : r \in runs})>>

LogicalLine(rows, line) ==
  <<Min({i \in 0..line : \A j \in i..line - 1 : rows[j].wrapped}),
    Max({i \in line..Lines - 1 : \A j \in line..i - 1 : rows[j].wrapped})>>

(* The anchor of a drag that has turned round is left where it was *)
Snap_HeadOnly(rows, s) ==
  IF s.mode = "word" /\ Leq(s.anchor, s.head) THEN [s EXCEPT !.head.col = WordAt(rows, s.head)[2]]
  ELSE IF s.mode = "word" THEN [s EXCEPT !.head.col = WordAt(rows, s.head)[1]]
  ELSE s

Snap(rows, s) ==
  LET a == LogicalLine(rows, s.anchor.line)
      h == LogicalLine(rows, s.head.line)
      forth == IF s.mode = "word" THEN Leq(s.anchor, s.head) ELSE s.anchor.line <= s.head.line
      from == IF forth THEN 1 ELSE 2
      to == IF forth THEN 2 ELSE 1
      edge(i) == IF i = 1 THEN 0 ELSE Cols - 1
  IN CASE s.mode = "word" -> [s EXCEPT !.anchor.col = WordAt(rows, s.anchor)[from],
                                       !.head.col = WordAt(rows, s.head)[to]]
       [] s.mode = "line" -> [s EXCEPT !.anchor = [line |-> a[from], col |-> edge(from)],
                                       !.head = [line |-> h[to], col |-> edge(to)]]
       [] OTHER -> s
-----------------------------------------------------------------------------
(* The text: rows without their trailing blanks, a row that is not there    *)
(* without its text                                                         *)

Segment(rows, s, line) ==
  LET cols == ColsOn(s, line)
      shown == IF rows[line] = Missing THEN <<>>
               ELSE SelectSeq(SubSeq(rows[line].cells, Min(cols) + 1, Max(cols) + 1),
                              LAMBDA cell : cell \notin {"s", "l"})
      kept == Max({0} \cup {i \in DOMAIN shown : shown[i] # " "})
  IN SubSeq(shown, 1, kept)

Flows(rows, s, line) ==
  s.mode # "block" /\ rows[line].wrapped /\ Cols - 1 \in ColsOn(s, line)

Text(rows, s) ==
  LET n == Normalized(s)
      piece(line) == Segment(rows, s, line)
                     \o IF line = n.end.line \/ Flows(rows, s, line) THEN <<>> ELSE <<"newline">>
  IN FlattenSeq([i \in 1..n.end.line - n.start.line + 1 |-> piece(n.start.line + i - 1)])

(* select_all: from the first line there is to the end of the screen *)
All == [anchor |-> [line |-> 0, col |-> 0], head |-> [line |-> Lines - 1, col |-> Cols - 1], mode |-> "char"]
-----------------------------------------------------------------------------
(* Laws, for one content of the screen *)

Inside == [line : Line, col : 0..Cols - 1]
Dragged(rows, s, head) == Snap(rows, ExtendTo(s, head))

(* Wherever the pointer has been, a drag selects what lies between the unit *)
(* it began in and the unit it is at, both included (snap is called after   *)
(* every move and moves the anchor as well)                                 *)
PathIndependent(rows) ==
  \A at \in Inside, mode \in Modes :
    LET s == Snap(rows, Started(at, mode))
        detours == {Dragged(rows, s, via) : via \in Inside}
        unit == [line \in Line |-> ColsOn(s, line)]
    IN \A head \in Point :
         LET direct == Dragged(rows, s, head)
             cols == [line \in Line |-> ColsOn(direct, line)]
         IN /\ \A line \in Line : unit[line] \subseteq cols[line] \/ mode \in {"char", "block"}
            /\ \A there \in detours, line \in Line : ColsOn(Dragged(rows, there, head), line) = cols[line]

(* What is painted as selected is what the selection says it covers *)
PaintedIsCovered(rows) ==
  \A at, head \in Inside, mode \in Modes :
    LET s == Dragged(rows, Started(at, mode), head) IN
    \A p \in Inside : Covers(s, p) <=> p.col \in ColsOn(s, p.line)

(* A line that was wrapped is copied as the one line it was, and other lines *)
(* are not joined                                                           *)
LinesKept(rows) ==
  \A at, head \in Inside :
    LET s == Dragged(rows, Snap(rows, Started(at, "line")), head)
        n == Normalized(s)
        logical == {LogicalLine(rows, l) : l \in n.start.line..n.end.line}
    IN Cardinality({i \in DOMAIN Text(rows, s) : Text(rows, s)[i] = "newline"}) = Cardinality(logical) - 1
=============================================================================
